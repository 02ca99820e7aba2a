-------------------------- MODULE Execution_proofs --------------------------
(***************************************************************************)
(* Proofs about execute and executeSync, for any pointers, values, calls   *)
(* and loads: what they return is awaited, what it refers to is loaded,    *)
(* and a value that was sent and came back is the same value.              *)
(*                                                                         *)
(* Containers and values are built in levels, by how deep they nest.  For  *)
(* each recursive function f of Conversion and Execution there is a lemma  *)
(* with its equation (..Is), which follows from FixedPoint, as what f      *)
(* makes of one level depends on what it makes of the level below          *)
(* (..StepSame); what f has to do with the properties is then shown for    *)
(* one step (..StepType, ..StepSound), and by induction for all levels.    *)
(***************************************************************************)
EXTENDS Execution, SequenceTheorems, WellFoundedInduction, TLAPS

-----------------------------------------------------------------------------
(* Recursive functions.  Values are built in levels, and what a recursive  *)
(* function makes of a value of one level depends only on what it makes of *)
(* values of the level below.                                              *)

\* A set of numbers that is not empty has a smallest one.
LEMMA SmallestNumber ==
  ASSUME NEW T \in SUBSET Nat, T # {}
  PROVE  \E n \in T : \A m \in T : n <= m
<1> DEFINE less == OpToRel(<, Nat)
<1>1. IsWellFoundedOn(less, Nat)
  BY NatLessThanWellFounded
<1>2. \A m, n \in Nat : m < n => <<m, n>> \in less
  BY DEF OpToRel
<1> HIDE DEF less
<1>3. PICK n \in T : \A m \in T : <<m, n>> \notin less
  BY <1>1, WFMin
<1>4. ASSUME NEW m \in T PROVE n <= m
  <2>1. m \in Nat /\ n \in Nat
    OBVIOUS
  <2>2. ~(m < n)
    BY <1>2, <1>3, <2>1
  <2> QED
    BY <2>1, <2>2
<1> QED
  BY <1>4

\* Induction on levels: the set of those of which something holds.
LEMMA Upwards ==
  ASSUME NEW N \in Nat, NEW G, 0 \in G, \A n \in 0 .. N - 1 : n \in G => n + 1 \in G
  PROVE  \A n \in 0 .. N : n \in G
<1> DEFINE T == {n \in 0 .. N : n \notin G}
<1>1. ASSUME T # {} PROVE FALSE
  <2>1. T \in SUBSET Nat
    OBVIOUS
  <2>2. PICK n \in T : \A m \in T : n <= m
    <3> HIDE DEF T
    <3> QED
      BY <1>1, <2>1, SmallestNumber
  <2>3. n \in 0 .. N /\ n \notin G /\ n # 0
    OBVIOUS
  <2>4. n - 1 \in 0 .. N - 1 /\ n - 1 \in 0 .. N /\ ~(n <= n - 1) /\ (n - 1) + 1 = n
    BY <2>3
  <2>5. n - 1 \in G
    BY <2>2, <2>4
  <2> QED
    BY <2>3, <2>4, <2>5
<1> QED
  BY <1>1

\* D is built in the levels L.
Built(N, L, D) == N \in Nat /\ L[0] = {} /\ L[N] = D /\ \A n \in 0 .. N : L[n] \subseteq D

\* H are the candidates for a recursive function on D, and g makes of a candidate what
\* the body of its definition makes of it.
Recursive(N, L, D, H, g) ==
  /\ H # {} /\ \A f \in H : f = [x \in D |-> f[x]]
  /\ g \in [H -> H]
  /\ \A n \in 0 .. N - 1 : \A f, h \in H :
       (\A x \in L[n] : f[x] = h[x]) => \A x \in L[n + 1] : g[f][x] = g[h][x]

\* Such a definition has a solution.
LEMMA FixedPoint ==
  ASSUME NEW N, NEW L, NEW D, Built(N, L, D), NEW H, NEW g, Recursive(N, L, D, H, g)
  PROVE  \E f \in H : f = g[f]
<1> USE DEF Built, Recursive
<1> DEFINE G == {n \in 0 .. N : \E f \in H : \A x \in L[n] : f[x] = g[f][x]}
<1>1. 0 \in G
  OBVIOUS
<1>2. ASSUME NEW n \in 0 .. N - 1, n \in G PROVE n + 1 \in G
  <2>1. PICK f \in H : \A x \in L[n] : f[x] = g[f][x]
    BY <1>2
  <2>2. g[f] \in H
    OBVIOUS
  <2>3. \A x \in L[n + 1] : g[f][x] = g[g[f]][x]
    BY <2>1, <2>2
  <2> QED
    BY <2>2, <2>3
<1>3. N \in G
  <2> HIDE DEF G
  <2> QED
    BY <1>1, <1>2, Upwards
<1>4. PICK f \in H : \A x \in D : f[x] = g[f][x]
  BY <1>3
<1>5. g[f] \in H /\ f = [x \in D |-> f[x]] /\ g[f] = [x \in D |-> g[f][x]]
  OBVIOUS
<1> QED
  BY <1>4, <1>5

-----------------------------------------------------------------------------
(* The levels.                                                             *)

\* The body of Containers.
ContainersFrom(f, n) == IF n = 0 THEN {} ELSE ContainersOver(f[n - 1])

\* The levels of containers can be built one after the other.
LEMMA ContainersExist == \E f : f = [n \in 0 .. Depth |-> ContainersFrom(f, n)]
<1> DEFINE G == {m \in 0 .. Depth : \E f : f = [n \in 0 .. m |-> ContainersFrom(f, n)]}
<1>0. Depth \in Nat
  BY ConversionAssumption
<1>1. 0 \in G
  <2> DEFINE f == [n \in 0 .. 0 |-> {}]
  <2>1. \A n \in 0 .. 0 : ContainersFrom(f, n) = {}
    BY DEF ContainersFrom
  <2>2. f = [n \in 0 .. 0 |-> ContainersFrom(f, n)]
    BY <2>1
  <2> QED
    BY <1>0, <2>2
<1>2. ASSUME NEW m \in 0 .. Depth - 1, m \in G PROVE m + 1 \in G
  <2>1. PICK f : f = [n \in 0 .. m |-> ContainersFrom(f, n)]
    BY <1>2
  <2> DEFINE h == [n \in 0 .. m + 1 |-> ContainersFrom(f, n)]
  <2>2. \A n \in 0 .. m + 1 : n # 0 => n - 1 \in 0 .. m /\ n - 1 \in 0 .. m + 1
    BY <1>0
  <2>3. \A n \in 0 .. m : h[n] = f[n]
    BY <1>0, <2>1
  <2> HIDE DEF h
  <2>4. \A n \in 0 .. m + 1 : ContainersFrom(h, n) = ContainersFrom(f, n)
    BY <2>2, <2>3 DEF ContainersFrom
  <2>5. h = [n \in 0 .. m + 1 |-> ContainersFrom(h, n)]
    BY <2>4 DEF h
  <2> QED
    BY <1>0, <2>5
<1>3. Depth \in G
  <2> HIDE DEF G
  <2> QED
    BY <1>0, <1>1, <1>2, Upwards
<1> QED
  BY <1>3

\* Every level of containers is made from the one below.
LEMMA ContainersLevel ==
  /\ Containers[0] = {}
  /\ \A n \in 0 .. Depth - 1 : Containers[n + 1] = ContainersOver(Containers[n])
<1> DEFINE e(f) == [n \in 0 .. Depth |-> IF n = 0 THEN {} ELSE ContainersOver(f[n - 1])]
           C == CHOOSE f : f = e(f)
<1>1. \E f : f = e(f)
  BY ContainersExist DEF ContainersFrom
<1>2. C = e(C)
  <2> HIDE DEF e
  <2> QED
    BY <1>1
<1>3. Containers = C
  BY DEF Containers
<1> HIDE DEF C
<1>4. \A n \in 0 .. Depth : Containers[n] = ContainersFrom(Containers, n)
  BY <1>2, <1>3 DEF ContainersFrom
<1>5. ASSUME NEW n \in 0 .. Depth - 1
      PROVE  n + 1 \in 0 .. Depth /\ n + 1 # 0 /\ (n + 1) - 1 = n
  BY ConversionAssumption
<1>6. 0 \in 0 .. Depth
  BY ConversionAssumption
<1> QED
  BY <1>4, <1>5, <1>6 DEF ContainersFrom

\* The body of PlainValues.
PlainFrom(f, n) == IF n = 0 THEN {} ELSE PlainOver(n, f[n - 1])

\* So can those of the values of a program.
LEMMA PlainExist == \E f : f = [n \in 0 .. Depth |-> PlainFrom(f, n)]
<1> DEFINE G == {m \in 0 .. Depth : \E f : f = [n \in 0 .. m |-> PlainFrom(f, n)]}
<1>0. Depth \in Nat
  BY ConversionAssumption
<1>1. 0 \in G
  <2> DEFINE f == [n \in 0 .. 0 |-> {}]
  <2>1. \A n \in 0 .. 0 : PlainFrom(f, n) = {}
    BY DEF PlainFrom
  <2>2. f = [n \in 0 .. 0 |-> PlainFrom(f, n)]
    BY <2>1
  <2> QED
    BY <1>0, <2>2
<1>2. ASSUME NEW m \in 0 .. Depth - 1, m \in G PROVE m + 1 \in G
  <2>1. PICK f : f = [n \in 0 .. m |-> PlainFrom(f, n)]
    BY <1>2
  <2> DEFINE h == [n \in 0 .. m + 1 |-> PlainFrom(f, n)]
  <2>2. \A n \in 0 .. m + 1 : n # 0 => n - 1 \in 0 .. m /\ n - 1 \in 0 .. m + 1
    BY <1>0
  <2>3. \A n \in 0 .. m : h[n] = f[n]
    BY <1>0, <2>1
  <2> HIDE DEF h
  <2>4. \A n \in 0 .. m + 1 : PlainFrom(h, n) = PlainFrom(f, n)
    BY <2>2, <2>3 DEF PlainFrom
  <2>5. h = [n \in 0 .. m + 1 |-> PlainFrom(h, n)]
    BY <2>4 DEF h
  <2> QED
    BY <1>0, <2>5
<1>3. Depth \in G
  <2> HIDE DEF G
  <2> QED
    BY <1>0, <1>1, <1>2, Upwards
<1> QED
  BY <1>3

\* Every level of them is made from the one below.
LEMMA PlainLevel ==
  /\ PlainValues[0] = {}
  /\ \A n \in 0 .. Depth - 1 : PlainValues[n + 1] = PlainOver(n + 1, PlainValues[n])
<1> DEFINE e(f) == [n \in 0 .. Depth |-> IF n = 0 THEN {} ELSE PlainOver(n, f[n - 1])]
           C == CHOOSE f : f = e(f)
<1>1. \E f : f = e(f)
  BY PlainExist DEF PlainFrom
<1>2. C = e(C)
  <2> HIDE DEF e
  <2> QED
    BY <1>1
<1>3. PlainValues = C
  BY DEF PlainValues
<1> HIDE DEF C
<1>4. \A n \in 0 .. Depth : PlainValues[n] = PlainFrom(PlainValues, n)
  BY <1>2, <1>3 DEF PlainFrom
<1>5. ASSUME NEW n \in 0 .. Depth - 1
      PROVE  n + 1 \in 0 .. Depth /\ n + 1 # 0 /\ (n + 1) - 1 = n
  BY ConversionAssumption
<1>6. 0 \in 0 .. Depth
  BY ConversionAssumption
<1> QED
  BY <1>4, <1>5, <1>6 DEF PlainFrom

\* The body of Values.
ValuesFrom(f, n) == IF n = 0 THEN {} ELSE ValuesOver(n, f[n - 1])

\* So can those of results and promises.
LEMMA ValuesExist == \E f : f = [n \in 0 .. Depth |-> ValuesFrom(f, n)]
<1> DEFINE G == {m \in 0 .. Depth : \E f : f = [n \in 0 .. m |-> ValuesFrom(f, n)]}
<1>0. Depth \in Nat
  BY ConversionAssumption
<1>1. 0 \in G
  <2> DEFINE f == [n \in 0 .. 0 |-> {}]
  <2>1. \A n \in 0 .. 0 : ValuesFrom(f, n) = {}
    BY DEF ValuesFrom
  <2>2. f = [n \in 0 .. 0 |-> ValuesFrom(f, n)]
    BY <2>1
  <2> QED
    BY <1>0, <2>2
<1>2. ASSUME NEW m \in 0 .. Depth - 1, m \in G PROVE m + 1 \in G
  <2>1. PICK f : f = [n \in 0 .. m |-> ValuesFrom(f, n)]
    BY <1>2
  <2> DEFINE h == [n \in 0 .. m + 1 |-> ValuesFrom(f, n)]
  <2>2. \A n \in 0 .. m + 1 : n # 0 => n - 1 \in 0 .. m /\ n - 1 \in 0 .. m + 1
    BY <1>0
  <2>3. \A n \in 0 .. m : h[n] = f[n]
    BY <1>0, <2>1
  <2> HIDE DEF h
  <2>4. \A n \in 0 .. m + 1 : ValuesFrom(h, n) = ValuesFrom(f, n)
    BY <2>2, <2>3 DEF ValuesFrom
  <2>5. h = [n \in 0 .. m + 1 |-> ValuesFrom(h, n)]
    BY <2>4 DEF h
  <2> QED
    BY <1>0, <2>5
<1>3. Depth \in G
  <2> HIDE DEF G
  <2> QED
    BY <1>0, <1>1, <1>2, Upwards
<1> QED
  BY <1>3

\* Every level of them is made from the one below.
LEMMA ValuesLevel ==
  /\ Values[0] = {}
  /\ \A n \in 0 .. Depth - 1 : Values[n + 1] = ValuesOver(n + 1, Values[n])
<1> DEFINE e(f) == [n \in 0 .. Depth |-> IF n = 0 THEN {} ELSE ValuesOver(n, f[n - 1])]
           C == CHOOSE f : f = e(f)
<1>1. \E f : f = e(f)
  BY ValuesExist DEF ValuesFrom
<1>2. C = e(C)
  <2> HIDE DEF e
  <2> QED
    BY <1>1
<1>3. Values = C
  BY DEF Values
<1> HIDE DEF C
<1>4. \A n \in 0 .. Depth : Values[n] = ValuesFrom(Values, n)
  BY <1>2, <1>3 DEF ValuesFrom
<1>5. ASSUME NEW n \in 0 .. Depth - 1
      PROVE  n + 1 \in 0 .. Depth /\ n + 1 # 0 /\ (n + 1) - 1 = n
  BY ConversionAssumption
<1>6. 0 \in 0 .. Depth
  BY ConversionAssumption
<1> QED
  BY <1>4, <1>5, <1>6 DEF ValuesFrom

\* What grows from level to level is within the last.
LEMMA Within ==
  ASSUME NEW N \in Nat, NEW L, \A n \in 0 .. N - 1 : L[n] \subseteq L[n + 1]
  PROVE  \A n \in 0 .. N : L[n] \subseteq L[N]
<1> DEFINE G == {n \in 0 .. N : \A m \in 0 .. n : L[m] \subseteq L[n]}
<1>1. 0 \in G
  OBVIOUS
<1>2. ASSUME NEW n \in 0 .. N - 1, n \in G PROVE n + 1 \in G
  <2>1. \A m \in 0 .. n + 1 : m \in 0 .. n \/ m = n + 1
    OBVIOUS
  <2> QED
    BY <1>2, <2>1
<1>3. \A n \in 0 .. N - 1 : n \in G => n + 1 \in G
  BY <1>2
<1>4. N \in G
  <2> HIDE DEF G
  <2>1. \A n \in 0 .. N : n \in G
    BY ONLY N \in Nat, <1>1, <1>3, Upwards
  <2> QED
    BY <2>1
<1> QED
  BY <1>4

\* Induction with the last step left out.
LEMMA UpwardsBelow ==
  ASSUME NEW N \in Nat, NEW G, 0 \in G, \A n \in 0 .. N - 1 : n + 1 \in 0 .. N - 1 /\ n \in G => n + 1 \in G
  PROVE  \A n \in 0 .. N - 1 : n \in G
<1>1. CASE N = 0
  BY <1>1
<1>2. CASE N # 0
  <2>1. N - 1 \in Nat /\ \A n \in 0 .. (N - 1) - 1 : n \in 0 .. N - 1 /\ n + 1 \in 0 .. N - 1
    BY <1>2
  <2>2. \A n \in 0 .. (N - 1) - 1 : n \in G => n + 1 \in G
    BY <2>1
  <2> QED
    BY <2>1, <2>2, Upwards
<1> QED
  BY <1>1, <1>2

\* A sequence of elements of S is one of elements of a larger set.
LEMMA Wider ==
  ASSUME NEW S, NEW T, S \subseteq T
  PROVE  Seq(S) \subseteq Seq(T)
OBVIOUS

\* More parts make more values.
LEMMA DIFValuesGrow ==
  ASSUME NEW S, NEW T, S \subseteq T
  PROVE  DIFValues(S) \subseteq DIFValues(T) /\ PairsOf(S) \subseteq PairsOf(T)
<1>1. PairsOf(S) \subseteq PairsOf(T)
  BY DEF PairsOf
<1>2. ArraysOf(S) \subseteq ArraysOf(T)
  BY Wider DEF ArraysOf
<1>3. ArraysOf(PairsOf(S)) \subseteq ArraysOf(PairsOf(T))
  <2>1. Seq(PairsOf(S)) \subseteq Seq(PairsOf(T))
    BY <1>1, Wider
  <2> QED
    BY <2>1 DEF ArraysOf
<1>4. ObjectsOf(S) \subseteq ObjectsOf(T)
  <2>1. Payload \X S \subseteq Payload \X T
    OBVIOUS
  <2>2. Seq(Payload \X S) \subseteq Seq(Payload \X T)
    BY <2>1, Wider
  <2> QED
    BY <2>2 DEF ObjectsOf
<1> QED
  BY <1>1, <1>2, <1>3, <1>4 DEF DIFValues

\* Depth is a positive number, the last of the levels.
LEMMA DepthType == Depth \in Nat /\ Depth # 0 /\ 0 \in 0 .. Depth /\ Depth \in 0 .. Depth
BY ConversionAssumption

\* Below the last level there is a next one.
LEMMA LevelAbove ==
  ASSUME NEW n \in 0 .. Depth - 1
  PROVE  n \in Nat /\ n \in 0 .. Depth /\ n + 1 \in 0 .. Depth
BY DepthType

\* A container of one level is a container of the next.
LEMMA ContainersGrow ==
  /\ \A n \in 0 .. Depth - 1 : Containers[n] \subseteq Containers[n + 1]
  /\ \A n \in 0 .. Depth : Containers[n] \subseteq DIFValueContainer
<1> DEFINE G == {n \in 0 .. Depth - 1 : Containers[n] \subseteq Containers[n + 1]}
<1>2. 0 \in G
  BY DepthType, ContainersLevel
<1>3. ASSUME NEW n \in 0 .. Depth - 1, n + 1 \in 0 .. Depth - 1, n \in G PROVE n + 1 \in G
  <2>1. Containers[n] \subseteq Containers[n + 1]
    BY <1>3
  <2>2. ContainersOver(Containers[n]) \subseteq ContainersOver(Containers[n + 1])
    BY <2>1, DIFValuesGrow DEF ContainersOver
  <2>3. Containers[n + 1] \subseteq Containers[(n + 1) + 1]
    BY <1>3, <2>2, ContainersLevel
  <2> QED
    BY <1>3, <2>3
<1>4. \A n \in 0 .. Depth - 1 : n \in G
  <2> HIDE DEF G
  <2> QED
    BY <1>2, <1>3, DepthType, UpwardsBelow
<1>5. \A n \in 0 .. Depth - 1 : Containers[n] \subseteq Containers[n + 1]
  BY <1>4
<1> QED
  BY <1>5, DepthType, Within DEF DIFValueContainer

\* What a container of one level is made of.
LEMMA ContainerParts ==
  ASSUME NEW n \in 0 .. Depth - 1, NEW d \in Containers[n + 1]
  PROVE  /\ d \in Address => Content[d] \in Containers[n]
         /\ d \notin Address => d \in DIFValues(Containers[n])
<1>1. \A a \in Address : a \notin DIFValues(Containers[n])
  BY LevelAbove, ContainersGrow, DIFValuesGrow, ConversionAssumption
<1>2. Containers[n + 1] = ContainersOver(Containers[n])
  BY ContainersLevel
<1> QED
  BY <1>1, <1>2 DEF ContainersOver

\* What is made from the containers of a level is a container, and no address.
LEMMA ContainerIs ==
  ASSUME NEW n \in 0 .. Depth - 1
  PROVE  /\ \A d \in DIFValues(Containers[n]) : d \in Containers[n + 1] /\ d \notin Address
         /\ \A p \in PairsOf(Containers[n]) : p \notin Address
<1>1. DIFValues(Containers[n]) \subseteq Containers[n + 1]
  BY ContainersLevel DEF ContainersOver
<1>2. \A a \in Address : a \notin DIFValues(Containers[n]) \cup PairsOf(Containers[n])
  BY LevelAbove, ContainersGrow, DIFValuesGrow, ConversionAssumption
<1> QED
  BY <1>1, <1>2

\* So are the values without parts, and the pointers that nest no deeper.
LEMMA LeavesGrow ==
  \A n \in 0 .. Depth - 1 : LeafValues(n) \subseteq LeafValues(n + 1) /\ Known(n) \subseteq Known(n + 1)
BY ContainersGrow DEF LeafValues, Known

\* Sequences of pairs, over a larger set.
LEMMA PairsGrow ==
  ASSUME NEW K, NEW S, NEW T, S \subseteq T
  PROVE  Seq(K \X S) \subseteq Seq(K \X T) /\ Seq(S \X S) \subseteq Seq(T \X T)
<1>1. K \X S \subseteq K \X T /\ S \X S \subseteq T \X T
  OBVIOUS
<1> QED
  BY <1>1, Wider

\* A value of one level is a value of the next.
LEMMA PlainGrow ==
  /\ \A n \in 0 .. Depth - 1 : PlainValues[n] \subseteq PlainValues[n + 1]
  /\ \A n \in 0 .. Depth : PlainValues[n] \subseteq PlainValues[Depth]
<1> DEFINE G == {n \in 0 .. Depth - 1 : PlainValues[n] \subseteq PlainValues[n + 1]}
<1>1. 0 \in G
  BY DepthType, PlainLevel
<1>2. ASSUME NEW n \in 0 .. Depth - 1, n + 1 \in 0 .. Depth - 1, n \in G PROVE n + 1 \in G
  <2>1. PlainValues[n] \subseteq PlainValues[n + 1]
    BY <1>2
  <2>2. ASSUME NEW S, NEW T, S \subseteq T
        PROVE  PlainOver(n + 1, S) \subseteq PlainOver((n + 1) + 1, T)
    BY <1>2, <2>2, Wider, PairsGrow, LeavesGrow DEF PlainOver
  <2>3. PlainValues[n + 1] \subseteq PlainValues[(n + 1) + 1]
    BY <1>2, <2>1, <2>2, PlainLevel
  <2> QED
    BY <1>2, <2>3
<1>3. \A n \in 0 .. Depth - 1 : n \in G
  <2> HIDE DEF G
  <2> QED
    BY <1>1, <1>2, DepthType, UpwardsBelow
<1>4. \A n \in 0 .. Depth - 1 : PlainValues[n] \subseteq PlainValues[n + 1]
  BY <1>3
<1> QED
  BY <1>4, DepthType, Within

\* What may be inside a list, a Map or an object, for more values.
LEMMA EntriesGrow ==
  ASSUME NEW S, NEW T, S \subseteq T
  PROVE  /\ NoPromises(S) \subseteq NoPromises(T)
         /\ Entered(S) \subseteq Entered(T)
         /\ S \ NoPromises(S) \subseteq T \ NoPromises(T)
BY DEF NoPromises, Entered

\* A result or a promise of one level is one of the next.
LEMMA ValuesGrow ==
  /\ \A n \in 0 .. Depth - 1 : Values[n] \subseteq Values[n + 1]
  /\ \A n \in 0 .. Depth : Values[n] \subseteq JSValue
<1> DEFINE G == {n \in 0 .. Depth - 1 : Values[n] \subseteq Values[n + 1]}
<1>1. 0 \in G
  BY DepthType, ValuesLevel
<1>2. ASSUME NEW n \in 0 .. Depth - 1, n + 1 \in 0 .. Depth - 1, n \in G PROVE n + 1 \in G
  <2>1. Values[n] \subseteq Values[n + 1]
    BY <1>2
  <2>2. ASSUME NEW S, NEW T, S \subseteq T
        PROVE  ValuesOver(n + 1, S) \subseteq ValuesOver((n + 1) + 1, T)
    <3>1. /\ Seq(NoPromises(S)) \subseteq Seq(NoPromises(T))
          /\ Seq(S) \subseteq Seq(T)
          /\ S \ NoPromises(S) \subseteq T \ NoPromises(T)
      BY <2>2, Wider, EntriesGrow
    <3>2. /\ Seq(Entered(S) \X Entered(S)) \subseteq Seq(Entered(T) \X Entered(T))
          /\ Seq(Payload \X Entered(S)) \subseteq Seq(Payload \X Entered(T))
      BY <2>2, PairsGrow, EntriesGrow
    <3>3. /\ LeafValues(n + 1) \subseteq LeafValues((n + 1) + 1)
          /\ Known(n + 1) \subseteq Known((n + 1) + 1)
      BY <1>2, LeavesGrow
    <3>4. ASSUME NEW K, NEW A, NEW B, A \subseteq B
          PROVE  [is : K, of : A] \subseteq [is : K, of : B]
      BY <3>4
    <3>5. Known(n + 1) \X (S \ NoPromises(S)) \subseteq Known((n + 1) + 1) \X (T \ NoPromises(T))
      BY <3>1, <3>3
    <3>6. ASSUME NEW v \in ValuesOver(n + 1, S) PROVE v \in ValuesOver((n + 1) + 1, T)
      <4>1. \/ v \in LeafValues(n + 1) \/ v \in [is : {"array"}, of : Seq(NoPromises(S))]
            \/ v \in [is : {"Map"}, of : Seq(Entered(S) \X Entered(S))]
            \/ v \in [is : {"object"}, of : Seq(Payload \X Entered(S))]
            \/ v \in [is : {"pointed", "load"}, of : Known(n + 1)]
            \/ v \in [is : {"binding"}, of : Known(n + 1) \X (S \ NoPromises(S))]
            \/ v \in [is : {"all"}, of : Seq(S)] \/ v = Rejected
        BY <3>6, Zenon DEF ValuesOver
      <4>2. \/ v \in LeafValues((n + 1) + 1) \/ v \in [is : {"array"}, of : Seq(NoPromises(T))]
            \/ v \in [is : {"Map"}, of : Seq(Entered(T) \X Entered(T))]
            \/ v \in [is : {"object"}, of : Seq(Payload \X Entered(T))]
            \/ v \in [is : {"pointed", "load"}, of : Known((n + 1) + 1)]
            \/ v \in [is : {"binding"}, of : Known((n + 1) + 1) \X (T \ NoPromises(T))]
            \/ v \in [is : {"all"}, of : Seq(T)] \/ v = Rejected
        BY <3>1, <3>2, <3>3, <3>4, <3>5, <4>1
      <4> QED
        BY <4>2, Zenon DEF ValuesOver
    <3> QED
      BY <3>6
  <2>3. Values[n + 1] \subseteq Values[(n + 1) + 1]
    BY <1>2, <2>1, <2>2, ValuesLevel
  <2> QED
    BY <1>2, <2>3
<1>3. \A n \in 0 .. Depth - 1 : n \in G
  <2> HIDE DEF G
  <2> QED
    BY <1>1, <1>2, DepthType, UpwardsBelow
<1>4. \A n \in 0 .. Depth - 1 : Values[n] \subseteq Values[n + 1]
  BY <1>3
<1> QED
  BY <1>4, DepthType, Within DEF JSValue

-----------------------------------------------------------------------------
(* What containers and values look like.                                   *)

\* Kinds of values without parts, but for references.
AtomKinds == {"null", "undefined", "boolean", "number", "bigint", "text", "endpoint", "function"}

\* By its type, a DIF value has no parts, or is a list, a list of pairs, or an object.
LEMMA InferredTypes ==
  ASSUME NEW n \in 0 .. Depth - 1, NEW S, S = Containers[n], NEW d \in DIFValues(S)
  PROVE  \/ /\ InferredType(d) \in DOMAIN KindOfType \cup {"unit", "primitive"}
            /\ d.value.json \in {"null", "boolean", "number", "string"}
            /\ d.value.of \in Payload
         \/ InferredType(d) = "list" /\ d.value.json = "array" /\ d.value.of \in Seq(S)
         \/ InferredType(d) = "map" /\ d.value.json = "array" /\ d.value.of \in Seq(PairsOf(S))
         \/ /\ InferredType(d) \in {"map", "object"}
            /\ d.value.json = "object"
            /\ d.value.of \in Seq(Payload \X S)
<1>1. CASE d \in [type : DOMAIN KindOfType \cup {"inferred", "unit"}, value : Primitives]
  BY <1>1 DEF InferredType, Primitives, KindOfType
<1>2. CASE d \in [type : {"inferred", "list"}, value : ArraysOf(S)]
  <2>1. d.type \in {"inferred", "list"} /\ d.value.json = "array" /\ d.value.of \in Seq(S)
    BY <1>2 DEF ArraysOf
  <2>2. d.value.of # <<>> => Head(d.value.of) \in S
    BY <2>1
  <2>3. ASSUME NEW c \in S PROVE ~IsArray(c)
    <3>1. n # 0
      BY <2>3, ContainersLevel
    <3>2. n - 1 \in 0 .. Depth - 1 /\ (n - 1) + 1 = n
      BY <3>1, DepthType
    <3>3. c \in Containers[(n - 1) + 1]
      BY <2>3, <3>2
    <3>4. c \notin Address => c \in DIFValues(Containers[n - 1])
      BY <3>2, <3>3, ContainerParts
    <3>5. c \notin Address => DOMAIN c = {"type", "value"}
      BY <3>4 DEF DIFValues
    <3> QED
      BY <3>5 DEF IsArray
  <2> QED
    BY <2>1, <2>2, <2>3 DEF InferredType
<1>3. CASE d \in [type : {"inferred", "map"}, value : ArraysOf(PairsOf(S))]
  <2>1. d.type \in {"inferred", "map"} /\ d.value.json = "array" /\ d.value.of \in Seq(PairsOf(S))
    BY <1>3 DEF ArraysOf
  <2>2. d.value.of # <<>> => Head(d.value.of) \in PairsOf(S)
    BY <2>1
  <2>3. \A p \in PairsOf(S) : IsArray(p)
    BY ContainerIs DEF IsArray, PairsOf
  <2>4. d.value.of = <<>> => d.value.of \in Seq(S)
    OBVIOUS
  <2> QED
    BY <2>1, <2>2, <2>3, <2>4 DEF InferredType
<1>4. CASE d \in [type : {"inferred", "map"}, value : ObjectsOf(S)]
  BY <1>4 DEF InferredType, ObjectsOf
<1> QED
  BY <1>1, <1>2, <1>3, <1>4 DEF DIFValues

\* By its kind, a result or a promise of the level above S has these parts.
LEMMA ValueCases ==
  ASSUME NEW n \in 0 .. Depth - 1, NEW S, S = Values[n], NEW v \in Values[n + 1]
  PROVE  /\ v = Value(v.is, v.of)
         /\ \/ v.is \in AtomKinds /\ v.of \in Payload
            \/ v.is \in {"reference", "pointed"} /\ v.of \in Known(n + 1)
            \/ v.is = "array" /\ v.of \in Seq(NoPromises(S))
            \/ v.is = "Map" /\ v.of \in Seq(Entered(S) \X Entered(S))
            \/ v.is = "object" /\ v.of \in Seq(Payload \X Entered(S))
            \/ v.is = "load" /\ v.of \in Known(n + 1)
            \/ v.is = "binding" /\ v.of \in Known(n + 1) \X (S \ NoPromises(S))
            \/ v.is = "all" /\ v.of \in Seq(S)
            \/ v.is = "rejected" /\ v = Rejected
<1>1. v \in ValuesOver(n + 1, S)
  BY ValuesLevel
<1>2. \/ v \in LeafValues(n + 1) \/ v \in [is : {"array"}, of : Seq(NoPromises(S))]
      \/ v \in [is : {"Map"}, of : Seq(Entered(S) \X Entered(S))]
      \/ v \in [is : {"object"}, of : Seq(Payload \X Entered(S))]
      \/ v \in [is : {"pointed", "load"}, of : Known(n + 1)]
      \/ v \in [is : {"binding"}, of : Known(n + 1) \X (S \ NoPromises(S))]
      \/ v \in [is : {"all"}, of : Seq(S)] \/ v = Rejected
  BY <1>1, Zenon DEF ValuesOver
<1>3. CASE v \in LeafValues(n + 1)
  BY <1>3 DEF LeafValues, AtomKinds, Value
<1>4. CASE v = Rejected
  BY <1>4 DEF Rejected, Value
<1> QED
  BY <1>2, <1>3, <1>4 DEF Value

\* And what has such parts is a result or a promise of that level.
LEMMA ValueIs ==
  ASSUME NEW n \in 0 .. Depth - 1, NEW S, S = Values[n]
  PROVE  /\ \A k \in AtomKinds, x \in Payload : Value(k, x) \in Values[n + 1]
         /\ \A a \in Known(n + 1) : Reference(a) \in Values[n + 1]
              /\ Pointed(a) \in Values[n + 1] /\ Value("load", a) \in Values[n + 1]
         /\ \A x \in Seq(NoPromises(S)) : Value("array", x) \in Values[n + 1]
         /\ \A x \in Seq(Entered(S) \X Entered(S)) : Value("Map", x) \in Values[n + 1]
         /\ \A x \in Seq(Payload \X Entered(S)) : Value("object", x) \in Values[n + 1]
         /\ \A a \in Known(n + 1), x \in S \ NoPromises(S) : Value("binding", <<a, x>>) \in Values[n + 1]
         /\ \A x \in Seq(S) : Value("all", x) \in Values[n + 1]
         /\ Rejected \in Values[n + 1]
<1>1. Values[n + 1] = ValuesOver(n + 1, S)
  BY ValuesLevel
<1>2. \A k \in AtomKinds, x \in Payload : Value(k, x) \in LeafValues(n + 1)
  BY DEF LeafValues, AtomKinds, Value
<1>3. \A a \in Known(n + 1) : Reference(a) \in LeafValues(n + 1)
       /\ Pointed(a) \in [is : {"pointed", "load"}, of : Known(n + 1)]
       /\ Value("load", a) \in [is : {"pointed", "load"}, of : Known(n + 1)]
  BY DEF LeafValues, Reference, Pointed, Value
<1>4. \A x \in Seq(NoPromises(S)) : Value("array", x) \in [is : {"array"}, of : Seq(NoPromises(S))]
  BY DEF Value
<1>5. \A x \in Seq(Entered(S) \X Entered(S)) : Value("Map", x) \in [is : {"Map"}, of : Seq(Entered(S) \X Entered(S))]
  BY DEF Value
<1>6. \A x \in Seq(Payload \X Entered(S)) : Value("object", x) \in [is : {"object"}, of : Seq(Payload \X Entered(S))]
  BY DEF Value
<1>7. \A a \in Known(n + 1), x \in S \ NoPromises(S) :
        Value("binding", <<a, x>>) \in [is : {"binding"}, of : Known(n + 1) \X (S \ NoPromises(S))]
  BY DEF Value
<1>8. \A x \in Seq(S) : Value("all", x) \in [is : {"all"}, of : Seq(S)]
  BY DEF Value
<1> QED
  <2>1. LeafValues(n + 1) \subseteq Values[n + 1]
    BY <1>1, Zenon DEF ValuesOver
  <2>2. [is : {"array"}, of : Seq(NoPromises(S))] \subseteq Values[n + 1]
    BY <1>1, Zenon DEF ValuesOver
  <2>3. [is : {"Map"}, of : Seq(Entered(S) \X Entered(S))] \subseteq Values[n + 1]
    BY <1>1, Zenon DEF ValuesOver
  <2>4. [is : {"object"}, of : Seq(Payload \X Entered(S))] \subseteq Values[n + 1]
    BY <1>1, Zenon DEF ValuesOver
  <2>5. [is : {"pointed", "load"}, of : Known(n + 1)] \subseteq Values[n + 1]
    BY <1>1, Zenon DEF ValuesOver
  <2>6. [is : {"binding"}, of : Known(n + 1) \X (S \ NoPromises(S))] \subseteq Values[n + 1]
    BY <1>1, Zenon DEF ValuesOver
  <2>7. [is : {"all"}, of : Seq(S)] \subseteq Values[n + 1]
    BY <1>1, Zenon DEF ValuesOver
  <2>8. \A k \in AtomKinds, x \in Payload : Value(k, x) \in Values[n + 1]
    BY <1>2, <2>1, Zenon
  <2>9. \A a \in Known(n + 1) : Reference(a) \in Values[n + 1]
          /\ Pointed(a) \in Values[n + 1] /\ Value("load", a) \in Values[n + 1]
    BY <1>3, <2>1, <2>5, Zenon
  <2>10. \A x \in Seq(NoPromises(S)) : Value("array", x) \in Values[n + 1]
    BY <1>4, <2>2, Zenon
  <2>11. \A x \in Seq(Entered(S) \X Entered(S)) : Value("Map", x) \in Values[n + 1]
    BY <1>5, <2>3, Zenon
  <2>12. \A x \in Seq(Payload \X Entered(S)) : Value("object", x) \in Values[n + 1]
    BY <1>6, <2>4, Zenon
  <2>13. \A a \in Known(n + 1), x \in S \ NoPromises(S) : Value("binding", <<a, x>>) \in Values[n + 1]
    BY <1>7, <2>6, Zenon
  <2>14. \A x \in Seq(S) : Value("all", x) \in Values[n + 1]
    BY <1>8, <2>7, Zenon
  <2>15. Rejected \in Values[n + 1]
    BY <1>1, Zenon DEF ValuesOver
  <2> QED
    BY <2>8, <2>9, <2>10, <2>11, <2>12, <2>13, <2>14, <2>15

\* By its kind, a value of the level above S has these parts.
LEMMA PlainCases ==
  ASSUME NEW n \in 0 .. Depth - 1, NEW S, S = PlainValues[n], NEW v \in PlainValues[n + 1]
  PROVE  /\ v = Value(v.is, v.of)
         /\ \/ v.is \in AtomKinds /\ v.of \in Payload
            \/ v.is = "reference" /\ v.of \in Known(n + 1)
            \/ v.is = "array" /\ v.of \in Seq(S)
            \/ v.is = "Map" /\ v.of \in Seq(S \X S) /\ Distinct(v.of)
            \/ v.is = "object" /\ v.of \in Seq(Payload \X S)
<1>1. v \in PlainOver(n + 1, S)
  BY PlainLevel
<1>2. \/ v \in LeafValues(n + 1) \/ v \in [is : {"array"}, of : Seq(S)]
      \/ v \in [is : {"Map"}, of : {es \in Seq(S \X S) : Distinct(es)}]
      \/ v \in [is : {"object"}, of : Seq(Payload \X S)]
  BY <1>1, Zenon DEF PlainOver
<1>3. CASE v \in LeafValues(n + 1)
  BY <1>3 DEF LeafValues, AtomKinds, Value
<1>4. CASE v \in [is : {"Map"}, of : {es \in Seq(S \X S) : Distinct(es)}]
  BY <1>4 DEF Value
<1> QED
  BY <1>2, <1>3, <1>4 DEF Value

\* The values of every level but the lowest, where there are none.
LEMMA LevelOf ==
  ASSUME NEW n \in 0 .. Depth, NEW L, L[0] = {}, NEW x \in L[n]
  PROVE  \E m \in 0 .. Depth - 1 : n = m + 1 /\ x \in L[m + 1]
<1>1. n # 0
  OBVIOUS
<1>2. n - 1 \in 0 .. Depth - 1 /\ (n - 1) + 1 = n
  BY <1>1, DepthType
<1> QED
  BY <1>2

\* No value is an exception, or a promise that is stored in a Map.
LEMMA ValueKinds ==
  ASSUME NEW n \in 0 .. Depth, NEW v \in Values[n]
  PROVE  /\ v = Value(v.is, v.of) /\ v.is \notin {"promise", "thrown"} /\ v # Thrown
         /\ v.is \in AtomKinds \cup {"reference", "pointed", "array", "Map", "object",
                                      "load", "binding", "all", "rejected"}
         /\ v.is = "rejected" => v = Rejected
<1>1. PICK m \in 0 .. Depth - 1 : v \in Values[m + 1]
  BY LevelOf, ValuesLevel
<1>2. PICK S : S = Values[m]
  OBVIOUS
<1>3. /\ v = Value(v.is, v.of)
      /\ \/ v.is \in AtomKinds \/ v.is \in {"reference", "pointed"} \/ v.is = "array" \/ v.is = "Map" \/ v.is = "object"
         \/ v.is = "load" \/ v.is = "binding" \/ v.is = "all"
         \/ v.is = "rejected" /\ v = Rejected
  BY <1>1, <1>2, ValueCases
<1> QED
  BY <1>3 DEF AtomKinds, Thrown, Rejected, Value

\* What is inside a Map or an object.
LEMMA EnteredCases ==
  ASSUME NEW n \in 0 .. Depth, NEW S, S = Values[n], NEW x \in Entered(S)
  PROVE  \/ x.is = "promise" /\ x = Value("promise", x.of) /\ x.of \in S
         \/ x.is # "promise" /\ x \in NoPromises(S) /\ x \in S
<1>1. CASE x \in NoPromises(S)
  BY <1>1, ValueKinds DEF NoPromises
<1>2. CASE x \in [is : {"promise"}, of : S]
  BY <1>2 DEF Value
<1> QED
  BY <1>1, <1>2 DEF Entered

\* The parts of a value are of the level below, and no promises.
LEMMA PartsBelow ==
  ASSUME NEW n \in 0 .. Depth - 1, NEW v \in Values[n + 1]
  PROVE  \A x \in Parts(v) : x \in NoPromises(Values[n]) /\ x \in Values[n]
<1>1. PICK S : S = Values[n]
  OBVIOUS
<1>2. n \in 0 .. Depth
  BY DepthType
<1>3. NoPromises(S) \subseteq Entered(S) /\ NoPromises(S) \subseteq S
  BY DEF Entered, NoPromises
<1>4. \A x \in Entered(S) : x.is # "promise" => x \in NoPromises(S) /\ x \in S
  BY <1>1, <1>2, EnteredCases
<1>5. Children(v) \subseteq Entered(S)
  <2>1. CASE v.is = "array" /\ v.of \in Seq(NoPromises(S))
    BY <2>1, <1>3 DEF Children
  <2>2. CASE v.is = "Map" /\ v.of \in Seq(Entered(S) \X Entered(S))
    BY <2>2 DEF Children
  <2>3. CASE v.is = "object" /\ v.of \in Seq(Payload \X Entered(S))
    BY <2>3 DEF Children
  <2>4. CASE v.is \notin {"array", "Map", "object"}
    BY <2>4 DEF Children
  <2> QED
    BY <1>1, <2>1, <2>2, <2>3, <2>4, ValueCases DEF AtomKinds
<1> QED
  BY <1>1, <1>4, <1>5 DEF Parts

\* What a program has are values that are no promises.
LEMMA PlainIsResult ==
  \A n \in 0 .. Depth : PlainValues[n] \subseteq NoPromises(Values[n])
<1> DEFINE G == {n \in 0 .. Depth : PlainValues[n] \subseteq NoPromises(Values[n])}
<1>1. 0 \in G
  BY DepthType, PlainLevel
<1>2. ASSUME NEW n \in 0 .. Depth - 1, n \in G PROVE n + 1 \in G
  <2>1. PICK S, P : S = Values[n] /\ P = PlainValues[n]
    OBVIOUS
  <2>2. P \subseteq NoPromises(S) /\ P \subseteq Entered(S)
    BY <1>2, <2>1 DEF Entered
  <2>3. /\ Seq(P) \subseteq Seq(NoPromises(S))
        /\ Seq(P \X P) \subseteq Seq(Entered(S) \X Entered(S))
        /\ Seq(Payload \X P) \subseteq Seq(Payload \X Entered(S))
    BY <2>2, Wider, PairsGrow
  <2>4. ASSUME NEW v \in PlainValues[n + 1] PROVE v \in NoPromises(Values[n + 1])
    <3>1. /\ v = Value(v.is, v.of)
          /\ \/ v.is \in AtomKinds /\ v.of \in Payload
             \/ v.is = "reference" /\ v.of \in Known(n + 1)
             \/ v.is = "array" /\ v.of \in Seq(P)
             \/ v.is = "Map" /\ v.of \in Seq(P \X P)
             \/ v.is = "object" /\ v.of \in Seq(Payload \X P)
      BY <2>1, PlainCases
    <3>2. v \in Values[n + 1]
      BY <2>1, <2>3, <3>1, ValueIs DEF Reference
    <3> QED
      BY <3>1, <3>2 DEF NoPromises, IsPromise, AtomKinds
  <2> QED
    BY <2>4, LevelAbove
<1> QED
  <2> HIDE DEF G
  <2>1. \A n \in 0 .. Depth : n \in G
    BY <1>1, <1>2, DepthType, Upwards
  <2> QED
    BY <2>1 DEF G

-----------------------------------------------------------------------------
(* Elements, entries and properties.                                       *)

\* If f maps S into R, it maps sequences over S to sequences over R.
LEMMA EachIn ==
  ASSUME NEW S, NEW R, NEW f, \A x \in S : f[x] \in R
  PROVE  /\ \A xs \in Seq(S) : EachElement(f, xs) \in Seq(R)
         /\ \A es \in Seq(S \X S) : EachEntry(f, es) \in Seq(R \X R)
         /\ \A K : \A ps \in Seq(K \X S) : EachProperty(f, ps) \in Seq(K \X R)
<1>1. ASSUME NEW xs \in Seq(S) PROVE EachElement(f, xs) \in Seq(R)
  BY DEF EachElement
<1>2. ASSUME NEW es \in Seq(S \X S) PROVE EachEntry(f, es) \in Seq(R \X R)
  BY DEF EachEntry
<1>3. ASSUME NEW K, NEW ps \in Seq(K \X S) PROVE EachProperty(f, ps) \in Seq(K \X R)
  BY DEF EachProperty
<1> QED
  BY <1>1, <1>2, <1>3

\* f and h are the same on S.
Agree(f, h, S) == \A x \in S : f[x] = h[x]

\* What is made of the elements of a list depends only on what is made of each.
LEMMA EachElementSame ==
  ASSUME NEW S, NEW f, NEW h, Agree(f, h, S)
  PROVE  \A xs \in Seq(S) : EachElement(f, xs) = EachElement(h, xs)
BY DEF EachElement, Agree

\* The same of the entries of a Map,
LEMMA EachEntrySame ==
  ASSUME NEW S, NEW f, NEW h, Agree(f, h, S)
  PROVE  \A es \in Seq(S \X S) : EachEntry(f, es) = EachEntry(h, es)
<1>1. ASSUME NEW es \in Seq(S \X S) PROVE EachEntry(f, es) = EachEntry(h, es)
  <2>1. \A i \in DOMAIN es : f[es[i][1]] = h[es[i][1]] /\ f[es[i][2]] = h[es[i][2]]
    BY DEF Agree
  <2> QED
    BY <2>1 DEF EachEntry
<1> QED
  BY <1>1

\* and of the properties of an object.
LEMMA EachPropertySame ==
  ASSUME NEW S, NEW f, NEW h, Agree(f, h, S)
  PROVE  \A ps \in Seq(Payload \X S) : EachProperty(f, ps) = EachProperty(h, ps)
<1>1. ASSUME NEW ps \in Seq(Payload \X S) PROVE EachProperty(f, ps) = EachProperty(h, ps)
  <2>1. \A i \in DOMAIN ps : f[ps[i][2]] = h[ps[i][2]]
    BY DEF Agree
  <2> QED
    BY <2>1 DEF EachProperty
<1> QED
  BY <1>1

-----------------------------------------------------------------------------
(* The recursive functions satisfy the equations that define them.         *)

\* Containers, the values of a program, and results and promises are built in levels.
LEMMA LevelsBuilt ==
  /\ Built(Depth, Containers, DIFValueContainer)
  /\ Built(Depth, PlainValues, PlainValues[Depth])
  /\ Built(Depth, Values, JSValue)
BY DepthType, ContainersLevel, ContainersGrow, PlainLevel, PlainGrow, ValuesLevel, ValuesGrow
   DEF Built, DIFValueContainer, JSValue

\* The equation of Mentioned.
LEMMA MentionedIs ==
  \A v \in JSValue : /\ Mentioned[v] = (IF v.is \in {"reference", "pointed"} THEN {v.of} ELSE {})
                                         \cup UNION {Mentioned[x] : x \in Parts(v)}
<1> DEFINE H == [JSValue -> SUBSET Address]
           b(f, v) == (IF v.is \in {"reference", "pointed"} THEN {v.of} ELSE {}) \cup UNION {f[x] : x \in Parts(v)}
           e(f) == [v \in JSValue |-> b(f, v)]
           g == [f \in H |-> e(f)]
<1>1. \A n \in 0 .. Depth - 1 : \A v \in Values[n + 1] : Parts(v) \subseteq Values[n]
       /\ Parts(v) \subseteq JSValue
  BY PartsBelow, ValuesGrow, LevelAbove
<1>2. \A v \in JSValue : Parts(v) \subseteq JSValue /\ (v.is \in {"reference", "pointed"} => v.of \in Address)
  <2> SUFFICES ASSUME NEW v \in JSValue
               PROVE  Parts(v) \subseteq JSValue /\ (v.is \in {"reference", "pointed"} => v.of \in Address)
    OBVIOUS
  <2>1. PICK m \in 0 .. Depth - 1 : v \in Values[m + 1]
    BY LevelOf, ValuesLevel, DepthType DEF JSValue
  <2>2. PICK S : S = Values[m]
    OBVIOUS
  <2>3. v.is \in {"reference", "pointed"} => v.of \in Known(m + 1)
    BY <2>1, <2>2, ValueCases DEF AtomKinds, Rejected, Value
  <2> QED
    BY <1>1, <2>1, <2>3 DEF Known
<1>3. ASSUME NEW f \in H PROVE e(f) \in H
  <2>1. \A v \in JSValue : b(f, v) \in SUBSET Address
    BY <1>2
  <2> HIDE DEF b
  <2> QED
    BY <2>1
<1>4. ASSUME NEW n \in 0 .. Depth - 1, NEW f \in H, NEW h \in H, \A x \in Values[n] : f[x] = h[x],
             NEW v \in Values[n + 1]
      PROVE  b(f, v) = b(h, v)
  <2>1. \A x \in Parts(v) : f[x] = h[x]
    BY <1>1, <1>4
  <2> QED
    BY <2>1
<1>5. \E f \in H : f = e(f)
  <2>1. g \in [H -> H]
    <3> HIDE DEF e, H
    <3> QED
      BY <1>3
  <2>2. \A n \in 0 .. Depth - 1 : \A f, h \in H :
          (\A x \in Values[n] : f[x] = h[x]) => \A x \in Values[n + 1] : g[f][x] = g[h][x]
    <3>1. \A n \in 0 .. Depth - 1 : \A v \in Values[n + 1] : v \in JSValue
      BY ValuesGrow, LevelAbove
    <3> HIDE DEF b, H
    <3> QED
      BY <1>4, <3>1
  <2>3. H # {} /\ \A f \in H : f = [x \in JSValue |-> f[x]]
    <3>1. [x \in JSValue |-> {}] \in H
      OBVIOUS
    <3> QED
      BY <3>1
  <2>4. \A f \in H : g[f] = e(f)
    OBVIOUS
  <2> HIDE DEF g, H, e
  <2>5. \E f \in H : f = g[f]
    <3>1. Recursive(Depth, Values, JSValue, H, g)
      BY <2>1, <2>2, <2>3 DEF Recursive
    <3> QED
      BY <3>1, LevelsBuilt, FixedPoint
  <2> QED
    BY <2>4, <2>5
<1>6. Mentioned = CHOOSE f : f = e(f)
  BY DEF Mentioned
<1>7. Mentioned = e(Mentioned)
  <2> HIDE DEF e
  <2> QED
    BY <1>5, <1>6
<1> QED
  BY <1>7

-----------------------------------------------------------------------------
(* Maps.                                                                   *)

\* Setting an entry keeps a sequence of entries one.
LEMMA SetEntryType ==
  ASSUME NEW S, NEW es \in Seq(S), NEW e \in S
  PROVE  SetEntry(es, e) \in Seq(S)
<1> DEFINE same == {i \in DOMAIN es : SameKey(es[i][1], e[1])}
<1>1. Append(es, e) \in Seq(S)
  OBVIOUS
<1>2. [i \in DOMAIN es |-> IF i \in same THEN e ELSE es[i]] \in Seq(S)
  <2> HIDE DEF same
  <2> QED
    OBVIOUS
<1> QED
  BY <1>1, <1>2, Zenon DEF SetEntry

\* The steps in which the entries are set.
LEMMA SetEntriesSteps ==
  ASSUME NEW S, NEW es \in Seq(S)
  PROVE  \E after : /\ after[0] = <<>>
                    /\ \A n \in 0 .. Len(es) - 1 : after[n + 1] = SetEntry(after[n], es[n + 1])
                    /\ SetEntries(es) = after[Len(es)]
<1> DEFINE D == 0 .. Len(es)
           L == [n \in 0 .. Len(es) + 1 |-> 0 .. n - 1]
           H == [D -> Seq(S)]
           b(f, n) == IF n = 0 THEN <<>> ELSE SetEntry(f[n - 1], es[n])
           e(f) == [n \in D |-> b(f, n)]
           g == [f \in H |-> e(f)]
           after == CHOOSE f : f = e(f)
<1>1. Len(es) \in Nat /\ \A n \in D : n # 0 => n \in DOMAIN es /\ n - 1 \in D
  OBVIOUS
<1>2. Built(Len(es) + 1, L, D)
  BY <1>1 DEF Built
<1>3. ASSUME NEW f \in H PROVE e(f) \in H
  <2>1. ASSUME NEW n \in D PROVE b(f, n) \in Seq(S)
    <3>1. CASE n = 0
      BY <3>1
    <3>2. CASE n # 0
      <4>1. f[n - 1] \in Seq(S) /\ es[n] \in S
        BY <1>1, <1>3, <3>2
      <4> QED
        BY <3>2, <4>1, SetEntryType
    <3> QED
      BY <3>1, <3>2
  <2> HIDE DEF b
  <2> QED
    BY <2>1
<1>4. Recursive(Len(es) + 1, L, D, H, g)
  <2>1. g \in [H -> H]
    <3> HIDE DEF e, H
    <3> QED
      BY <1>3
  <2>2. ASSUME NEW n \in 0 .. (Len(es) + 1) - 1, NEW f \in H, NEW h \in H, \A x \in L[n] : f[x] = h[x],
               NEW x \in L[n + 1]
        PROVE  g[f][x] = g[h][x]
    <3>1. x \in D /\ (x # 0 => x - 1 \in L[n])
      BY <1>1, <2>2
    <3>2. b(f, x) = b(h, x)
      BY <2>2, <3>1
    <3> HIDE DEF b, H
    <3> QED
      BY <3>1, <3>2
  <2>3. H # {} /\ \A f \in H : f = [x \in D |-> f[x]]
    <3>1. [x \in D |-> <<>>] \in H
      OBVIOUS
    <3> QED
      BY <3>1
  <2> HIDE DEF g, H
  <2> QED
    BY <2>1, <2>2, <2>3 DEF Recursive
<1>5. \A f \in H : g[f] = e(f)
  OBVIOUS
<1>6. \E f \in H : f = e(f)
  <2> HIDE DEF g, H, L, D, e
  <2> QED
    BY <1>2, <1>4, <1>5, FixedPoint
<1>7. after = e(after)
  <2> HIDE DEF e
  <2> QED
    BY <1>6
<1>8. SetEntries(es) = after[Len(es)]
  BY DEF SetEntries
<1> HIDE DEF after
<1>9. after[0] = <<>> /\ \A n \in 0 .. Len(es) - 1 : after[n + 1] = SetEntry(after[n], es[n + 1])
  <2>1. 0 \in D /\ \A n \in 0 .. Len(es) - 1 : n + 1 \in D /\ n + 1 # 0 /\ (n + 1) - 1 = n
    BY <1>1
  <2> QED
    BY <1>7, <2>1
<1> QED
  BY <1>8, <1>9

\* Setting entries makes no new ones, and keeps those whose keys are distinct.
LEMMA SetEntriesIs ==
  ASSUME NEW S, NEW es \in Seq(S)
  PROVE  /\ SetEntries(es) \in Seq(S)
         /\ Distinct(es) => SetEntries(es) = es
<1>1. PICK after : /\ after[0] = <<>>
                   /\ \A n \in 0 .. Len(es) - 1 : after[n + 1] = SetEntry(after[n], es[n + 1])
                   /\ SetEntries(es) = after[Len(es)]
  BY SetEntriesSteps
<1>2. Len(es) \in Nat /\ Len(es) \in 0 .. Len(es) /\ 0 \in 0 .. Len(es)
  OBVIOUS
<1>3. SetEntries(es) \in Seq(S)
  <2> DEFINE G == {n \in 0 .. Len(es) : after[n] \in Seq(S)}
  <2>1. 0 \in G
    <3>1. <<>> \in Seq(S) /\ after[0] \in Seq(S)
      BY <1>1
    <3> QED
      BY <1>2, <3>1
  <2>2. ASSUME NEW n \in 0 .. Len(es) - 1, n \in G PROVE n + 1 \in G
    <3>1. after[n] \in Seq(S) /\ es[n + 1] \in S /\ n + 1 \in 0 .. Len(es)
      BY <1>2, <2>2
    <3> QED
      BY <1>1, <3>1, SetEntryType
  <2>3. Len(es) \in G
    <3> HIDE DEF G
    <3> QED
      BY <1>2, <2>1, <2>2, Upwards
  <2> QED
    BY <1>1, <2>3
<1>4. ASSUME Distinct(es) PROVE SetEntries(es) = es
  <2> DEFINE G == {n \in 0 .. Len(es) : after[n] = SubSeq(es, 1, n)}
  <2>1. 0 \in G
    <3>1. SubSeq(es, 1, 0) = <<>>
      OBVIOUS
    <3> QED
      BY <1>1, <1>2, <3>1
  <2>2. ASSUME NEW n \in 0 .. Len(es) - 1, n \in G PROVE n + 1 \in G
    <3>1. after[n] = SubSeq(es, 1, n) /\ n \in Nat /\ n + 1 \in DOMAIN es /\ n <= Len(es)
      BY <1>2, <2>2
    <3>2. \A i \in DOMAIN SubSeq(es, 1, n) : SubSeq(es, 1, n)[i] = es[i] /\ i \in DOMAIN es /\ i # n + 1
      BY <1>2, <3>1
    <3>3. {i \in DOMAIN SubSeq(es, 1, n) : SameKey(SubSeq(es, 1, n)[i][1], es[n + 1][1])} = {}
      BY <1>4, <3>1, <3>2 DEF Distinct
    <3>4. SetEntry(SubSeq(es, 1, n), es[n + 1]) = Append(SubSeq(es, 1, n), es[n + 1])
      BY <3>3 DEF SetEntry
    <3>5. Append(SubSeq(es, 1, n), es[n + 1]) = SubSeq(es, 1, n + 1)
      BY <1>2, <3>1
    <3>6. after[n + 1] = SubSeq(es, 1, n + 1)
      BY <1>1, <2>2, <3>1, <3>4, <3>5
    <3> QED
      BY <1>2, <2>2, <3>6
  <2>3. Len(es) \in G
    <3> HIDE DEF G
    <3> QED
      BY <1>2, <2>1, <2>2, Upwards
  <2>4. SubSeq(es, 1, Len(es)) = es
    OBVIOUS
  <2> QED
    BY <1>1, <2>3, <2>4
<1> QED
  BY <1>3, <1>4

-----------------------------------------------------------------------------
(* What resolving makes of a container of one level.                       *)

\* Exceptions and rejected promises are no longer waited for, and they differ.
LEMMA Settled ==
  /\ ~Pending(Thrown) /\ ~Pending(Rejected) /\ Thrown # Rejected
  /\ \A v : IsPromise(v) /\ ~Pending(v) <=> v.is = "rejected"
BY DEF Pending, IsPromise, Thrown, Rejected, Value

\* A pointer whose content is of one level is of the level above.
LEMMA BindType ==
  ASSUME NEW n \in 0 .. Depth - 1, NEW a \in Known(n + 1), NEW v \in Values[n] \cup {Thrown}
  PROVE  /\ Bind(a, v) \in Values[n + 1] \cup {Thrown}
         /\ v # Thrown => Bind(a, v) \in Values[n + 1]
<1>1. PICK S : S = Values[n]
  OBVIOUS
<1>2. CASE v = Thrown
  BY <1>2, Settled DEF Bind
<1>5. CASE v = Rejected
  <2>1. Bind(a, v) = Rejected
    BY <1>5, Settled DEF Bind
  <2>2. Rejected \in Values[n + 1]
    BY <1>1, ValueIs
  <2> QED
    BY <2>1, <2>2
<1>3. CASE v \notin {Thrown, Rejected} /\ IsPromise(v)
  <2>1. v \in S \ NoPromises(S) /\ v.is # "rejected"
    BY <1>1, <1>3, ValueKinds, LevelAbove DEF NoPromises
  <2>2. Bind(a, v) = Value("binding", <<a, v>>)
    BY <1>3, <2>1 DEF Bind, Pending
  <2>3. Value("binding", <<a, v>>) \in Values[n + 1]
    BY <1>1, <2>1, ValueIs
  <2> QED
    BY <2>2, <2>3
<1>4. CASE v \notin {Thrown, Rejected} /\ ~IsPromise(v)
  BY <1>1, <1>4, ValueIs DEF Bind, Pending
<1> QED
  BY <1>2, <1>3, <1>4, <1>5

\* So is a list, or a promise for it, and all goes well if all of its elements do.
LEMMA AllType ==
  ASSUME NEW n \in 0 .. Depth - 1, NEW vs \in Seq(Values[n] \cup {Thrown})
  PROVE  /\ PromiseAllOrSync(vs) \in Values[n + 1] \cup {Thrown}
         /\ vs \in Seq(Values[n]) => PromiseAllOrSync(vs) \in Values[n + 1]
<1>1. PICK S : S = Values[n]
  OBVIOUS
<1>2. CASE \E i \in DOMAIN vs : vs[i] = Thrown
  <2>1. \A v \in Values[n] : v # Thrown
    BY ValueKinds, LevelAbove
  <2> QED
    BY <1>2, <2>1 DEF PromiseAllOrSync
<1>3. CASE \A i \in DOMAIN vs : vs[i] # Thrown
  <2>1. vs \in Seq(S)
    BY <1>1, <1>3
  <2>2. CASE \E i \in DOMAIN vs : vs[i] = Rejected
    <3>1. PromiseAllOrSync(vs) = Rejected
      BY <1>3, <2>2 DEF PromiseAllOrSync
    <3> QED
      BY <1>1, <3>1, ValueIs
  <2>3. CASE (\A i \in DOMAIN vs : vs[i] # Rejected) /\ \E i \in DOMAIN vs : Pending(vs[i])
    <3>1. PromiseAllOrSync(vs) = Value("all", vs)
      BY <1>3, <2>3 DEF PromiseAllOrSync
    <3> QED
      BY <1>1, <2>1, <3>1, ValueIs
  <2>4. CASE (\A i \in DOMAIN vs : vs[i] # Rejected) /\ \A i \in DOMAIN vs : ~Pending(vs[i])
    <3>1. \A i \in DOMAIN vs : vs[i] \in NoPromises(S)
      BY <1>1, <2>1, <2>4, ValueKinds, LevelAbove DEF NoPromises, Pending
    <3>2. vs \in Seq(NoPromises(S))
      BY <2>1, <3>1
    <3>3. PromiseAllOrSync(vs) = Value("array", vs)
      BY <1>3, <2>4 DEF PromiseAllOrSync
    <3> QED
      BY <1>1, <3>2, <3>3, ValueIs
  <2> QED
    BY <2>2, <2>3, <2>4
<1> QED
  BY <1>2, <1>3

\* A value, or a promise for it, can be stored in a Map.
LEMMA StoredType ==
  ASSUME NEW n \in 0 .. Depth, NEW v \in Values[n]
  PROVE  Stored(v) \in Entered(Values[n])
BY DEF Stored, Entered, NoPromises, Value

\* A Map of values of one level is of the level above,
LEMMA MapType ==
  ASSUME NEW n \in 0 .. Depth - 1, NEW T, T = Values[n] \cup {Thrown}, NEW es \in Seq(T \X T)
  PROVE  MapOf(es) \in Values[n + 1] \cup {Thrown}
<1> DEFINE st == [i \in DOMAIN es |-> <<Stored(es[i][1]), Stored(es[i][2])>>]
<1>1. PICK S : S = Values[n]
  OBVIOUS
<1>2. CASE \E i \in DOMAIN es : Thrown \in {es[i][1], es[i][2]}
  BY <1>2 DEF MapOf
<1>3. CASE ~ \E i \in DOMAIN es : Thrown \in {es[i][1], es[i][2]}
  <2>1. \A i \in DOMAIN es : es[i][1] \in S /\ es[i][2] \in S
    BY <1>1, <1>3
  <2>2. \A i \in DOMAIN es : Stored(es[i][1]) \in Entered(S) /\ Stored(es[i][2]) \in Entered(S)
    BY <1>1, <2>1, StoredType, LevelAbove
  <2>3. st \in Seq(Entered(S) \X Entered(S))
    BY <2>2
  <2>4. SetEntries(st) \in Seq(Entered(S) \X Entered(S))
    <3> HIDE DEF st
    <3> QED
      BY <2>3, SetEntriesIs
  <2>5. MapOf(es) = Value("Map", SetEntries(st))
    BY <1>3 DEF MapOf
  <2> HIDE DEF st
  <2> QED
    BY <1>1, <2>4, <2>5, ValueIs
<1> QED
  BY <1>2, <1>3

\* and so is an object.
LEMMA ObjectType ==
  ASSUME NEW n \in 0 .. Depth - 1, NEW ps \in Seq(Payload \X (Values[n] \cup {Thrown}))
  PROVE  ObjectOf(ps) \in Values[n + 1] \cup {Thrown}
<1> DEFINE st == [i \in DOMAIN ps |-> <<ps[i][1], Stored(ps[i][2])>>]
<1>1. PICK S : S = Values[n]
  OBVIOUS
<1>2. CASE \E i \in DOMAIN ps : ps[i][2] = Thrown
  BY <1>2 DEF ObjectOf
<1>3. CASE ~ \E i \in DOMAIN ps : ps[i][2] = Thrown
  <2>1. \A i \in DOMAIN ps : ps[i][1] \in Payload /\ ps[i][2] \in S
    BY <1>1, <1>3
  <2>2. \A i \in DOMAIN ps : Stored(ps[i][2]) \in Entered(S)
    BY <1>1, <2>1, StoredType, LevelAbove
  <2>3. st \in Seq(Payload \X Entered(S))
    BY <2>1, <2>2
  <2>4. ObjectOf(ps) = Value("object", st)
    BY <1>3 DEF ObjectOf
  <2> HIDE DEF st
  <2> QED
    BY <1>1, <2>3, <2>4, ValueIs
<1> QED
  BY <1>2, <1>3

\* One step of resolving.
ResolveStep(f, d, m) ==
  IF d \in Address THEN ResolvePointerAddress(f, d, m) ELSE ResolveDIFValue(f, d)

\* The elements of a list of pairs are arrays of a key and a value.
LEMMA PairOf ==
  ASSUME NEW S, NEW items \in Seq(PairsOf(S))
  PROVE  /\ [i \in DOMAIN items |-> items[i].of] \in Seq(S \X S)
         /\ \A i \in DOMAIN items : items[i] = JSON("array", items[i].of) /\ items[i].of \in S \X S
<1>1. \A p \in PairsOf(S) : p = JSON("array", p.of) /\ p.of \in S \X S
  BY DEF PairsOf, JSON
<1>2. \A i \in DOMAIN items : items[i] \in PairsOf(S)
  OBVIOUS
<1>3. \A i \in DOMAIN items : items[i] = JSON("array", items[i].of) /\ items[i].of \in S \X S
  BY <1>1, <1>2
<1>4. [i \in DOMAIN items |-> items[i].of] \in Seq(S \X S)
  <2>1. DOMAIN items = 1 .. Len(items) /\ Len(items) \in Nat
    OBVIOUS
  <2>2. \A i \in 1 .. Len(items) : items[i].of \in S \X S
    BY <1>3, <2>1
  <2>3. [i \in 1 .. Len(items) |-> items[i].of] \in Seq(S \X S)
    BY <2>1, <2>2
  <2> QED
    BY <2>1, <2>3
<1> QED
  BY <1>3, <1>4

\* The types that fix what a primitive becomes.
LEMMA KindDomain ==
  DOMAIN KindOfType = {"boolean", "text", "null", "integer", "ibig", "decimal", "endpoint", "undefined"}
BY DEF KindOfType

\* The kind of a value that has no parts.
AtomKind(d) ==
  IF InferredType(d) = "primitive" THEN PrimitiveKind(d.value.json) ELSE KindOfType[InferredType(d)]

\* What is made of a DIF value of one level.
LEMMA ResolveCases ==
  ASSUME NEW n \in 0 .. Depth - 1, NEW S, S = Containers[n], NEW d \in DIFValues(S)
  PROVE  \/ /\ InferredType(d) \notin {"list", "map", "object"} /\ AtomKind(d) \in AtomKinds
            /\ d.value.of \in Payload
            /\ \A f : ResolveDIFValue(f, d) = Value(AtomKind(d), d.value.of)
         \/ InferredType(d) = "unit" /\ \A f : ResolveDIFValue(f, d) = Thrown
         \/ /\ InferredType(d) = "list" /\ d.value.of \in Seq(S)
            /\ \A f : ResolveDIFValue(f, d) = PromiseAllOrSync(EachElement(f, d.value.of))
         \/ /\ InferredType(d) = "map" /\ PairsIn(d.value.of) \in Seq(S \X S)
            /\ \A f : ResolveDIFValue(f, d) = MapOf(EachEntry(f, PairsIn(d.value.of)))
         \/ /\ InferredType(d) = "map" /\ d.value.of \in Seq(Payload \X S)
            /\ \A f : ResolveDIFValue(f, d) = MapOf(TextEntries(f, d.value.of))
         \/ /\ InferredType(d) = "object" /\ d.value.of \in Seq(Payload \X S)
            /\ \A f : ResolveDIFValue(f, d) = ObjectOf(EachProperty(f, d.value.of))
<1> DEFINE type == InferredType(d)
           items == d.value.of
<1>1. \/ /\ type \in DOMAIN KindOfType \cup {"unit", "primitive"}
         /\ d.value.json \in {"null", "boolean", "number", "string"}
         /\ items \in Payload
      \/ type = "list" /\ d.value.json = "array" /\ items \in Seq(S)
      \/ type = "map" /\ d.value.json = "array" /\ items \in Seq(PairsOf(S))
      \/ type \in {"map", "object"} /\ d.value.json = "object" /\ items \in Seq(Payload \X S)
  BY InferredTypes
<1>2. CASE type = "primitive" /\ d.value.json \in {"null", "boolean", "number", "string"} /\ items \in Payload
  <2>1. \A f : ResolveDIFValue(f, d) = Value(AtomKind(d), items)
    BY <1>2, KindDomain DEF ResolveDIFValue, AtomKind
  <2>2. AtomKind(d) \in AtomKinds
    BY <1>2 DEF PrimitiveKind, AtomKinds, AtomKind
  <2> QED
    BY <1>2, <2>1, <2>2
<1>3. CASE type \in DOMAIN KindOfType /\ items \in Payload
  <2>1. \A f : ResolveDIFValue(f, d) = Value(AtomKind(d), items)
    BY <1>3, KindDomain DEF ResolveDIFValue, AtomKind
  <2>2. AtomKind(d) \in AtomKinds
    BY <1>3 DEF KindOfType, AtomKinds, AtomKind
  <2> QED
    BY <1>3, <2>1, <2>2, KindDomain
<1>4. CASE type = "unit"
  BY <1>4, KindDomain DEF ResolveDIFValue
<1>5. CASE type = "list" /\ items \in Seq(S)
  BY <1>5, KindDomain DEF ResolveDIFValue
<1>6. CASE type = "map" /\ d.value.json = "array" /\ items \in Seq(PairsOf(S))
  <2>1. \A f : ResolveDIFValue(f, d) = MapOf(EachEntry(f, PairsIn(items)))
    BY <1>6, KindDomain DEF ResolveDIFValue, PairsIn
  <2>2. PairsIn(items) \in Seq(S \X S)
    BY <1>6, PairOf DEF PairsIn
  <2> QED
    BY <1>6, <2>1, <2>2
<1>7. CASE type = "map" /\ d.value.json = "object" /\ items \in Seq(Payload \X S)
  BY <1>7, KindDomain DEF ResolveDIFValue, TextEntries
<1>8. CASE type = "object" /\ items \in Seq(Payload \X S)
  BY <1>8, KindDomain DEF ResolveDIFValue
<1> QED
  BY <1>1, <1>2, <1>3, <1>4, <1>5, <1>6, <1>7, <1>8

\* The entries of a map that is represented by an object, with texts as keys.
LEMMA TextEntriesIn ==
  ASSUME NEW S, NEW ps \in Seq(Payload \X S), NEW f, NEW T,
         \A x \in S : f[x] \in T, S # {} => \A t \in Payload : Value("text", t) \in T
  PROVE  TextEntries(f, ps) \in Seq(T \X T)
<1> DEFINE es == [i \in DOMAIN ps |-> <<Value("text", ps[i][1]), f[ps[i][2]]>>]
<1>1. DOMAIN ps = 1 .. Len(ps) /\ Len(ps) \in Nat
  OBVIOUS
<1>2. \A i \in DOMAIN ps : es[i] \in T \X T
  <2> SUFFICES ASSUME NEW i \in DOMAIN ps
               PROVE  Value("text", ps[i][1]) \in T /\ f[ps[i][2]] \in T
    OBVIOUS
  <2>1. ps[i][1] \in Payload /\ ps[i][2] \in S
    OBVIOUS
  <2> QED
    BY <2>1
<1>3. es \in Seq(T \X T)
  BY <1>1, <1>2
<1> QED
  BY <1>3 DEF TextEntries

\* What is made of a container is a value of its level, or an exception.
LEMMA ResolveStepType ==
  ASSUME NEW n \in 0 .. Depth - 1, NEW d \in Containers[n + 1], NEW m,
         NEW f, \A x \in Containers[n] : f[x] \in Values[n] \cup {Thrown}
  PROVE  ResolveStep(f, d, m) \in Values[n + 1] \cup {Thrown}
<1>1. PICK S, V : S = Containers[n] /\ V = Values[n]
  OBVIOUS
<1>2. CASE d \in Address
  <2>1. d \in Known(n + 1) /\ Content[d] \in Containers[n]
    BY <1>2, ContainerParts DEF Known
  <2>2. Value("load", d) \in Values[n + 1]
    BY <2>1, ValueIs
  <2>3. Bind(d, f[Content[d]]) \in Values[n + 1] \cup {Thrown}
    BY <2>1, BindType
  <2> QED
    BY <1>2, <2>2, <2>3 DEF ResolveStep, ResolvePointerAddress
<1>3. CASE d \notin Address
  <2>1. ResolveStep(f, d, m) = ResolveDIFValue(f, d)
    BY <1>3 DEF ResolveStep
  <2>2. d \in DIFValues(S)
    BY <1>1, <1>3, ContainerParts
  <2>3. PICK T : T = V \cup {Thrown}
    OBVIOUS
  <2>4. \A x \in S : f[x] \in T
    BY <1>1, <2>3
  <2>11. \/ /\ AtomKind(d) \in AtomKinds /\ d.value.of \in Payload
            /\ ResolveDIFValue(f, d) = Value(AtomKind(d), d.value.of)
         \/ ResolveDIFValue(f, d) = Thrown
         \/ d.value.of \in Seq(S) /\ ResolveDIFValue(f, d) = PromiseAllOrSync(EachElement(f, d.value.of))
         \/ /\ PairsIn(d.value.of) \in Seq(S \X S)
            /\ ResolveDIFValue(f, d) = MapOf(EachEntry(f, PairsIn(d.value.of)))
         \/ /\ d.value.of \in Seq(Payload \X S)
            /\ ResolveDIFValue(f, d) = MapOf(TextEntries(f, d.value.of))
         \/ /\ d.value.of \in Seq(Payload \X S)
            /\ ResolveDIFValue(f, d) = ObjectOf(EachProperty(f, d.value.of))
    BY <1>1, <2>2, ResolveCases
  <2>5. CASE AtomKind(d) \in AtomKinds /\ d.value.of \in Payload
              /\ ResolveDIFValue(f, d) = Value(AtomKind(d), d.value.of)
    BY <2>1, <2>5, ValueIs
  <2>6. CASE ResolveDIFValue(f, d) = Thrown
    BY <2>1, <2>6
  <2>7. CASE d.value.of \in Seq(S) /\ ResolveDIFValue(f, d) = PromiseAllOrSync(EachElement(f, d.value.of))
    <3>1. EachElement(f, d.value.of) \in Seq(T)
      BY <2>4, <2>7, EachIn
    <3> QED
      BY <1>1, <2>1, <2>3, <2>7, <3>1, AllType
  <2>8. CASE PairsIn(d.value.of) \in Seq(S \X S)
              /\ ResolveDIFValue(f, d) = MapOf(EachEntry(f, PairsIn(d.value.of)))
    <3>1. EachEntry(f, PairsIn(d.value.of)) \in Seq(T \X T)
      BY <2>4, <2>8, EachIn
    <3> QED
      BY <1>1, <2>1, <2>3, <2>8, <3>1, MapType
  <2>9. CASE d.value.of \in Seq(Payload \X S) /\ ResolveDIFValue(f, d) = MapOf(TextEntries(f, d.value.of))
    <3>1. ASSUME S # {}, NEW t \in Payload PROVE Value("text", t) \in T
      <4>1. n # 0
        BY <1>1, <3>1, ContainersLevel
      <4>2. n - 1 \in 0 .. Depth - 1 /\ (n - 1) + 1 = n
        BY <4>1, DepthType
      <4>3. Value("text", t) \in Values[(n - 1) + 1]
        BY <4>2, ValueIs DEF AtomKinds
      <4> QED
        BY <1>1, <2>3, <4>2, <4>3
    <3>2. TextEntries(f, d.value.of) \in Seq(T \X T)
      BY <2>4, <2>9, <3>1, TextEntriesIn
    <3> QED
      BY <1>1, <2>1, <2>3, <2>9, <3>2, MapType
  <2>10. CASE d.value.of \in Seq(Payload \X S) /\ ResolveDIFValue(f, d) = ObjectOf(EachProperty(f, d.value.of))
    <3>1. EachProperty(f, d.value.of) \in Seq(Payload \X T)
      BY <2>4, <2>10, EachIn
    <3> QED
      BY <1>1, <2>1, <2>3, <2>10, <3>1, ObjectType
  <2> QED
    BY <2>5, <2>6, <2>7, <2>8, <2>9, <2>10, <2>11
<1> QED
  BY <1>2, <1>3

\* It depends on what is made of the level below.
LEMMA ResolveStepSame ==
  ASSUME NEW n \in 0 .. Depth - 1, NEW d \in Containers[n + 1], NEW m,
         NEW f, NEW h, Agree(f, h, Containers[n])
  PROVE  ResolveStep(f, d, m) = ResolveStep(h, d, m)
<1>1. PICK S : S = Containers[n]
  OBVIOUS
<1>2. CASE d \in Address
  BY <1>2, ContainerParts DEF Agree, ResolveStep, ResolvePointerAddress
<1>3. CASE d \notin Address
  <2>1. ResolveStep(f, d, m) = ResolveDIFValue(f, d) /\ ResolveStep(h, d, m) = ResolveDIFValue(h, d)
    BY <1>3 DEF ResolveStep
  <2>2. d \in DIFValues(S)
    BY <1>1, <1>3, ContainerParts
  <2>3. Agree(f, h, S)
    BY <1>1
  <2>6. \A xs \in Seq(S) : EachElement(f, xs) = EachElement(h, xs)
    BY <2>3, EachElementSame
  <2>7. \A es \in Seq(S \X S) : EachEntry(f, es) = EachEntry(h, es)
    BY <2>3, EachEntrySame
  <2>8. \A ps \in Seq(Payload \X S) : EachProperty(f, ps) = EachProperty(h, ps)
    BY <2>3, EachPropertySame
  <2>4. ASSUME NEW ps \in Seq(Payload \X S) PROVE TextEntries(f, ps) = TextEntries(h, ps)
    <3>1. \A i \in DOMAIN ps : f[ps[i][2]] = h[ps[i][2]]
      BY <1>1 DEF Agree
    <3> QED
      BY <3>1 DEF TextEntries
  <2>5. ResolveDIFValue(f, d) = ResolveDIFValue(h, d)
    BY <1>1, <2>2, <2>4, <2>6, <2>7, <2>8, ResolveCases
  <2> QED
    BY <2>1, <2>5
<1> QED
  BY <1>2, <1>3

\* What resolving makes of every container.
Resolver(m) == [x \in DIFValueContainer |-> ResolveDIFValueContainer(x, m)]

\* The equation of resolving.
LEMMA ResolverIs ==
  ASSUME NEW m
  PROVE  \A d \in DIFValueContainer : Resolver(m)[d] = ResolveStep(Resolver(m), d, m)
<1> DEFINE H == {f \in [DIFValueContainer -> JSValue \cup {Thrown}] :
                  \A n \in 0 .. Depth : \A x \in Containers[n] : f[x] \in Values[n] \cup {Thrown}}
           b(f, x) == ResolveStep(f, x, m)
           e(f) == [x \in DIFValueContainer |-> b(f, x)]
           g == [f \in H |-> e(f)]
           R == CHOOSE f : f = e(f)
<1>3. ASSUME NEW f \in H PROVE e(f) \in H
  <2>1. \A n \in 0 .. Depth - 1 : \A x \in Containers[n + 1] : b(f, x) \in Values[n + 1] \cup {Thrown}
    <3> SUFFICES ASSUME NEW n \in 0 .. Depth - 1, NEW x \in Containers[n + 1]
                 PROVE  ResolveStep(f, x, m) \in Values[n + 1] \cup {Thrown}
      OBVIOUS
    <3>1. \A y \in Containers[n] : f[y] \in Values[n] \cup {Thrown}
      BY LevelAbove
    <3> QED
      BY <3>1, ResolveStepType
  <2>2. \A n \in 0 .. Depth : \A x \in Containers[n] : x \in DIFValueContainer
    BY ContainersGrow
  <2> HIDE DEF b
  <2>3. \A n \in 0 .. Depth : \A x \in Containers[n] : b(f, x) \in Values[n] \cup {Thrown}
    BY <2>1, LevelOf, ContainersLevel
  <2>4. \A x \in DIFValueContainer : b(f, x) \in JSValue \cup {Thrown}
    BY <2>3, DepthType DEF JSValue, DIFValueContainer
  <2> QED
    BY <2>2, <2>3, <2>4
<1>4. ASSUME NEW n \in 0 .. Depth - 1, NEW f \in H, NEW h \in H, \A x \in Containers[n] : f[x] = h[x],
             NEW x \in Containers[n + 1]
      PROVE  b(f, x) = b(h, x)
  <2>1. Agree(f, h, Containers[n])
    BY <1>4 DEF Agree
  <2> QED
    BY <2>1, ResolveStepSame
<1>5. \E f \in H : f = e(f)
  <2>1. g \in [H -> H]
    <3> HIDE DEF e, H
    <3> QED
      BY <1>3
  <2>2. \A n \in 0 .. Depth - 1 : \A f, h \in H :
          (\A x \in Containers[n] : f[x] = h[x]) => \A x \in Containers[n + 1] : g[f][x] = g[h][x]
    <3>1. \A n \in 0 .. Depth - 1 : \A x \in Containers[n + 1] : x \in DIFValueContainer
      BY LevelsBuilt, LevelAbove DEF Built
    <3> HIDE DEF b, H
    <3> QED
      BY <1>4, <3>1
  <2>3. H # {} /\ \A f \in H : f = [x \in DIFValueContainer |-> f[x]]
    <3>1. [x \in DIFValueContainer |-> Thrown] \in H
      BY ContainersGrow
    <3> QED
      BY <3>1
  <2>4. \A f \in H : g[f] = e(f)
    OBVIOUS
  <2> HIDE DEF g, H, e
  <2>5. Recursive(Depth, Containers, DIFValueContainer, H, g)
    BY <2>1, <2>2, <2>3 DEF Recursive
  <2>6. \E f \in H : f = g[f]
    BY <2>5, LevelsBuilt, FixedPoint
  <2> QED
    BY <2>4, <2>6
<1>6. R = CHOOSE f : f = e(f)
  OBVIOUS
<1>7. R = e(R)
  <2> HIDE DEF e
  <2> QED
    BY <1>5, <1>6
<1>8. \A d \in DIFValueContainer : ResolveDIFValueContainer(d, m) = R[d]
  BY DEF ResolveDIFValueContainer, ResolveStep
<1> HIDE DEF R, b
<1>9. Resolver(m) = R
  <2>1. \A d \in DIFValueContainer : Resolver(m)[d] = R[d]
    BY <1>8 DEF Resolver
  <2>2. R = [x \in DIFValueContainer |-> R[x]] /\ Resolver(m) = [x \in DIFValueContainer |-> Resolver(m)[x]]
    BY <1>7 DEF Resolver
  <2> QED
    BY <2>1, <2>2
<1>10. \A d \in DIFValueContainer : R[d] = b(R, d)
  BY <1>7
<1> QED
  BY <1>9, <1>10 DEF b

\* Results nest no deeper than what they are made of.
LEMMA ResolveType ==
  ASSUME NEW m
  PROVE  /\ \A n \in 0 .. Depth : \A d \in Containers[n] : Resolver(m)[d] \in Values[n] \cup {Thrown}
         /\ \A d \in DIFValueContainer :
              /\ ResolveDIFValueContainer(d, m) = Resolver(m)[d]
              /\ ResolveDIFValueContainer(d, m) \in JSValue \cup {Thrown}
<1> DEFINE G == {n \in 0 .. Depth : \A d \in Containers[n] : Resolver(m)[d] \in Values[n] \cup {Thrown}}
<1>1. 0 \in G
  BY DepthType, ContainersLevel
<1>2. ASSUME NEW n \in 0 .. Depth - 1, n \in G PROVE n + 1 \in G
  <2>1. \A d \in Containers[n + 1] : d \in DIFValueContainer
    BY ContainersGrow, LevelAbove
  <2>2. \A d \in Containers[n + 1] : ResolveStep(Resolver(m), d, m) \in Values[n + 1] \cup {Thrown}
    BY <1>2, ResolveStepType
  <2>3. \A d \in Containers[n + 1] : Resolver(m)[d] \in Values[n + 1] \cup {Thrown}
    BY <2>1, <2>2, ResolverIs
  <2> QED
    BY <2>3, LevelAbove
<1>3. \A n \in 0 .. Depth : n \in G
  <2> HIDE DEF G
  <2> QED
    BY <1>1, <1>2, DepthType, Upwards
<1>4. \A n \in 0 .. Depth : \A d \in Containers[n] : Resolver(m)[d] \in Values[n] \cup {Thrown}
  BY <1>3
<1>5. \A d \in DIFValueContainer : Resolver(m)[d] \in JSValue \cup {Thrown}
  BY <1>4, DepthType DEF JSValue, DIFValueContainer
<1> QED
  BY <1>4, <1>5 DEF Resolver

-----------------------------------------------------------------------------
(* What settling makes of a value of one level.                            *)

\* What comes of a promise that waits for a.
Arrived(a, l, m) == IF l THEN Caught(Bind(a, ResolveDIFValueContainer(Content[a], m))) ELSE Rejected

\* Entries and properties, when what is in them has been settled.
EnteredEntries(f, es) == [i \in DOMAIN es |-> <<SettleEntered(f, es[i][1]), SettleEntered(f, es[i][2])>>]
EnteredProperties(f, ps) == [i \in DOMAIN ps |-> <<ps[i][1], SettleEntered(f, ps[i][2])>>]

\* A value of the level above S is settled as its kind says.
SettledByKind(n, S, v, a, l, m, f) ==
  \/ /\ v.is = "load" /\ v.of = a /\ a \in Known(n + 1)
     /\ SettleWith(f, v, a, l, m) = Arrived(a, l, m)
  \/ /\ v.is = "binding" /\ v.of \in Known(n + 1) \X (S \ NoPromises(S))
     /\ SettleWith(f, v, a, l, m) = Bind(v.of[1], f[v.of[2]])
  \/ /\ v.is = "all" /\ v.of \in Seq(S)
     /\ SettleWith(f, v, a, l, m) = PromiseAllOrSync(EachElement(f, v.of))
  \/ /\ v.is = "array" /\ v.of \in Seq(NoPromises(S))
     /\ SettleWith(f, v, a, l, m) = Value("array", EachElement(f, v.of))
  \/ /\ v.is = "Map" /\ v.of \in Seq(Entered(S) \X Entered(S))
     /\ SettleWith(f, v, a, l, m) = Value("Map", EnteredEntries(f, v.of))
  \/ /\ v.is = "object" /\ v.of \in Seq(Payload \X Entered(S))
     /\ SettleWith(f, v, a, l, m) = Value("object", EnteredProperties(f, v.of))
  \/ /\ v.is \in AtomKinds \cup {"reference", "pointed", "load", "rejected"} /\ (v.is = "load" => v.of # a)
     /\ SettleWith(f, v, a, l, m) = v

\* There is no other way to settle a value.
LEMMA SettleCases ==
  ASSUME NEW n \in 0 .. Depth - 1, NEW v \in Values[n + 1], NEW a, NEW l, NEW m, NEW f
  PROVE  SettledByKind(n, Values[n], v, a, l, m, f)
<1>0. PICK S : S = Values[n]
  OBVIOUS
<1>1. \/ v.is \in AtomKinds \cup {"reference", "pointed", "rejected"}
      \/ v.is = "load" /\ v.of \in Known(n + 1)
      \/ v.is = "binding" /\ v.of \in Known(n + 1) \X (S \ NoPromises(S))
      \/ v.is = "all" /\ v.of \in Seq(S)
      \/ v.is = "array" /\ v.of \in Seq(NoPromises(S))
      \/ v.is = "Map" /\ v.of \in Seq(Entered(S) \X Entered(S))
      \/ v.is = "object" /\ v.of \in Seq(Payload \X Entered(S))
  BY <1>0, ValueCases
<1>2. CASE v.is \in AtomKinds \cup {"reference", "pointed", "rejected"}
  <2>1. SettleWith(f, v, a, l, m) = v
    BY <1>2 DEF SettleWith, AtomKinds
  <2>2. v.is # "load"
    BY <1>2 DEF AtomKinds
  <2> QED
    BY <1>2, <2>1, <2>2 DEF SettledByKind
<1>3. CASE v.is = "load" /\ v.of \in Known(n + 1)
  <2>1. SettleWith(f, v, a, l, m) = IF v.of = a THEN Arrived(a, l, m) ELSE v
    BY <1>3 DEF SettleWith, Arrived
  <2> QED
    BY <1>3, <2>1 DEF SettledByKind
<1>4. CASE v.is = "binding" /\ v.of \in Known(n + 1) \X (S \ NoPromises(S))
  <2>1. SettleWith(f, v, a, l, m) = Bind(v.of[1], f[v.of[2]])
    BY <1>4 DEF SettleWith
  <2> QED
    BY <1>0, <1>4, <2>1 DEF SettledByKind
<1>5. CASE v.is = "all" /\ v.of \in Seq(S)
  <2>1. SettleWith(f, v, a, l, m) = PromiseAllOrSync(EachElement(f, v.of))
    BY <1>5 DEF SettleWith
  <2> QED
    BY <1>0, <1>5, <2>1 DEF SettledByKind
<1>6. CASE v.is = "array" /\ v.of \in Seq(NoPromises(S))
  <2>1. SettleWith(f, v, a, l, m) = Value("array", EachElement(f, v.of))
    BY <1>6 DEF SettleWith
  <2> QED
    BY <1>0, <1>6, <2>1 DEF SettledByKind
<1>7. CASE v.is = "Map" /\ v.of \in Seq(Entered(S) \X Entered(S))
  <2>1. SettleWith(f, v, a, l, m) = Value("Map", EnteredEntries(f, v.of))
    BY <1>7 DEF SettleWith, EnteredEntries
  <2> QED
    BY <1>0, <1>7, <2>1 DEF SettledByKind
<1>8. CASE v.is = "object" /\ v.of \in Seq(Payload \X Entered(S))
  <2>1. SettleWith(f, v, a, l, m) = Value("object", EnteredProperties(f, v.of))
    BY <1>8 DEF SettleWith, EnteredProperties
  <2> QED
    BY <1>0, <1>8, <2>1 DEF SettledByKind
<1> QED
  BY <1>1, <1>2, <1>3, <1>4, <1>5, <1>6, <1>7, <1>8

\* Settling keeps the level, and what is no promise stays none.
Keeps(f, S) == \A x \in S : f[x] \in S /\ (~IsPromise(x) => ~IsPromise(f[x]))

\* So does settling what is inside a Map or an object.
LEMMA EnteredIn ==
  ASSUME NEW n \in 0 .. Depth, NEW S, S = Values[n], NEW f, Keeps(f, S)
  PROVE  /\ \A x \in Entered(S) : SettleEntered(f, x) \in Entered(S)
         /\ \A es \in Seq(Entered(S) \X Entered(S)) : EnteredEntries(f, es) \in Seq(Entered(S) \X Entered(S))
         /\ \A ps \in Seq(Payload \X Entered(S)) : EnteredProperties(f, ps) \in Seq(Payload \X Entered(S))
<1>1. ASSUME NEW x \in Entered(S) PROVE SettleEntered(f, x) \in Entered(S)
  <2>1. CASE x.is = "promise" /\ x.of \in S
    <3>1. f[x.of] \in S
      BY <2>1 DEF Keeps
    <3> QED
      BY <2>1, <3>1 DEF SettleEntered, Entered, Value
  <2>2. CASE x.is # "promise" /\ x \in NoPromises(S) /\ x \in S
    <3>1. f[x] \in NoPromises(S)
      BY <2>2 DEF Keeps, NoPromises
    <3> QED
      BY <2>2, <3>1 DEF SettleEntered, Entered
  <2> QED
    BY <2>1, <2>2, EnteredCases
<1>2. ASSUME NEW es \in Seq(Entered(S) \X Entered(S)) PROVE EnteredEntries(f, es) \in Seq(Entered(S) \X Entered(S))
  <2>1. \A i \in DOMAIN es : es[i][1] \in Entered(S) /\ es[i][2] \in Entered(S)
    OBVIOUS
  <2>2. DOMAIN es = 1 .. Len(es) /\ Len(es) \in Nat
    OBVIOUS
  <2>3. \A i \in DOMAIN es : SettleEntered(f, es[i][1]) \in Entered(S)
         /\ SettleEntered(f, es[i][2]) \in Entered(S)
    BY <1>1, <2>1
  <2> QED
    BY <2>2, <2>3 DEF EnteredEntries
<1>3. ASSUME NEW ps \in Seq(Payload \X Entered(S)) PROVE EnteredProperties(f, ps) \in Seq(Payload \X Entered(S))
  <2>1. \A i \in DOMAIN ps : ps[i][1] \in Payload /\ ps[i][2] \in Entered(S)
    OBVIOUS
  <2>2. DOMAIN ps = 1 .. Len(ps) /\ Len(ps) \in Nat
    OBVIOUS
  <2>3. \A i \in DOMAIN ps : SettleEntered(f, ps[i][2]) \in Entered(S)
    BY <1>1, <2>1
  <2> QED
    BY <2>1, <2>2, <2>3 DEF EnteredProperties
<1> QED
  BY <1>1, <1>2, <1>3

\* What comes of a promise that waits for a load is of its level.
LEMMA ArrivedType ==
  ASSUME NEW n \in 0 .. Depth - 1, NEW a \in Known(n + 1), NEW l, NEW m
  PROVE  Arrived(a, l, m) \in Values[n + 1]
<1>1. a \in Address /\ Content[a] \in Containers[n]
  BY ContainerParts DEF Known
<1>2. Content[a] \in DIFValueContainer
  BY <1>1, ContainersGrow, LevelAbove
<1>3. ResolveDIFValueContainer(Content[a], m) \in Values[n] \cup {Thrown}
  BY <1>1, <1>2, ResolveType, LevelAbove
<1>4. Bind(a, ResolveDIFValueContainer(Content[a], m)) \in Values[n + 1] \cup {Thrown}
  BY <1>3, BindType
<1>5. Rejected \in Values[n + 1]
  BY ValueIs
<1> QED
  BY <1>4, <1>5 DEF Arrived, Caught

\* What a value is settled to is of its level, and no promise if the value is none.
LEMMA SettleStepType ==
  ASSUME NEW n \in 0 .. Depth - 1, NEW v \in Values[n + 1], NEW a, NEW l, NEW m, NEW f, Keeps(f, Values[n])
  PROVE  /\ SettleWith(f, v, a, l, m) \in Values[n + 1]
         /\ ~IsPromise(v) => ~IsPromise(SettleWith(f, v, a, l, m))
<1>1. PICK S : S = Values[n]
  OBVIOUS
<1>2. CASE v.is = "load" /\ a \in Known(n + 1) /\ SettleWith(f, v, a, l, m) = Arrived(a, l, m)
  BY <1>2, ArrivedType DEF IsPromise
<1>3. CASE v.is = "binding" /\ v.of \in Known(n + 1) \X (S \ NoPromises(S))
           /\ SettleWith(f, v, a, l, m) = Bind(v.of[1], f[v.of[2]])
  <2>1. v.of[1] \in Known(n + 1) /\ f[v.of[2]] \in Values[n]
    BY <1>1, <1>3 DEF Keeps
  <2>2. f[v.of[2]] # Thrown
    BY <2>1, ValueKinds, LevelAbove
  <2>3. Bind(v.of[1], f[v.of[2]]) \in Values[n + 1]
    BY <2>1, <2>2, BindType
  <2> QED
    BY <1>3, <2>3 DEF IsPromise
<1>4. CASE v.is = "all" /\ v.of \in Seq(S) /\ SettleWith(f, v, a, l, m) = PromiseAllOrSync(EachElement(f, v.of))
  <2>1. \A x \in S : f[x] \in S
    BY <1>1 DEF Keeps
  <2>2. EachElement(f, v.of) \in Seq(S)
    BY <1>4, <2>1, EachIn
  <2>3. EachElement(f, v.of) \in Seq(Values[n] \cup {Thrown})
    BY <1>1, <2>2
  <2> QED
    BY <1>1, <1>4, <2>2, <2>3, AllType DEF IsPromise
<1>5. CASE v.is = "array" /\ v.of \in Seq(NoPromises(S))
            /\ SettleWith(f, v, a, l, m) = Value("array", EachElement(f, v.of))
  <2>1. \A x \in NoPromises(S) : f[x] \in NoPromises(S)
    BY <1>1 DEF Keeps, NoPromises
  <2>2. EachElement(f, v.of) \in Seq(NoPromises(S))
    BY <1>5, <2>1, EachIn
  <2>3. ~IsPromise(Value("array", EachElement(f, v.of)))
    BY DEF IsPromise, Value
  <2> QED
    BY <1>1, <1>5, <2>2, <2>3, ValueIs
<1>6. CASE v.is = "Map" /\ v.of \in Seq(Entered(S) \X Entered(S))
            /\ SettleWith(f, v, a, l, m) = Value("Map", EnteredEntries(f, v.of))
  <2>1. EnteredEntries(f, v.of) \in Seq(Entered(S) \X Entered(S))
    BY <1>1, <1>6, EnteredIn, LevelAbove
  <2>2. ~IsPromise(Value("Map", EnteredEntries(f, v.of)))
    BY DEF IsPromise, Value
  <2> QED
    BY <1>1, <1>6, <2>1, <2>2, ValueIs
<1>7. CASE v.is = "object" /\ v.of \in Seq(Payload \X Entered(S))
            /\ SettleWith(f, v, a, l, m) = Value("object", EnteredProperties(f, v.of))
  <2>1. EnteredProperties(f, v.of) \in Seq(Payload \X Entered(S))
    BY <1>1, <1>7, EnteredIn, LevelAbove
  <2>2. ~IsPromise(Value("object", EnteredProperties(f, v.of)))
    BY DEF IsPromise, Value
  <2> QED
    BY <1>1, <1>7, <2>1, <2>2, ValueIs
<1>8. CASE SettleWith(f, v, a, l, m) = v
  BY <1>8
<1>9. SettledByKind(n, S, v, a, l, m, f)
  BY <1>1, SettleCases
<1> QED
  BY <1>2, <1>3, <1>4, <1>5, <1>6, <1>7, <1>8, <1>9 DEF SettledByKind

\* What is inside a Map or an object depends on what is made of the level below.
LEMMA EnteredSame ==
  ASSUME NEW n \in 0 .. Depth, NEW S, S = Values[n], NEW f, NEW h, Agree(f, h, S)
  PROVE  \A x \in Entered(S) : SettleEntered(f, x) = SettleEntered(h, x)
<1>1. \A x \in Entered(S) : IF x.is = "promise" THEN x.of \in S ELSE x \in S
  BY EnteredCases
<1> QED
  BY <1>1 DEF SettleEntered, Agree

\* The same of the entries of a Map,
LEMMA EnteredEntriesSame ==
  ASSUME NEW n \in 0 .. Depth, NEW S, S = Values[n], NEW f, NEW h, Agree(f, h, S)
  PROVE  \A es \in Seq(Entered(S) \X Entered(S)) : EnteredEntries(f, es) = EnteredEntries(h, es)
<1>1. ASSUME NEW es \in Seq(Entered(S) \X Entered(S)) PROVE EnteredEntries(f, es) = EnteredEntries(h, es)
  <2>1. \A i \in DOMAIN es : es[i][1] \in Entered(S) /\ es[i][2] \in Entered(S)
    OBVIOUS
  <2>2. \A i \in DOMAIN es : /\ SettleEntered(f, es[i][1]) = SettleEntered(h, es[i][1])
                             /\ SettleEntered(f, es[i][2]) = SettleEntered(h, es[i][2])
    BY <2>1, EnteredSame
  <2> QED
    BY <2>2 DEF EnteredEntries
<1> QED
  BY <1>1

\* and of the properties of an object.
LEMMA EnteredPropertiesSame ==
  ASSUME NEW n \in 0 .. Depth, NEW S, S = Values[n], NEW f, NEW h, Agree(f, h, S)
  PROVE  \A ps \in Seq(Payload \X Entered(S)) : EnteredProperties(f, ps) = EnteredProperties(h, ps)
<1>1. ASSUME NEW ps \in Seq(Payload \X Entered(S)) PROVE EnteredProperties(f, ps) = EnteredProperties(h, ps)
  <2>1. \A i \in DOMAIN ps : ps[i][2] \in Entered(S)
    OBVIOUS
  <2>2. \A i \in DOMAIN ps : SettleEntered(f, ps[i][2]) = SettleEntered(h, ps[i][2])
    BY <2>1, EnteredSame
  <2> QED
    BY <2>2 DEF EnteredProperties
<1> QED
  BY <1>1

\* It depends on what is made of the level below.
LEMMA SettleStepSame ==
  ASSUME NEW n \in 0 .. Depth - 1, NEW v \in Values[n + 1], NEW a, NEW l, NEW m,
         NEW f, NEW h, Agree(f, h, Values[n])
  PROVE  SettleWith(f, v, a, l, m) = SettleWith(h, v, a, l, m)
<1>1. PICK S : S = Values[n]
  OBVIOUS
<1>2. Agree(f, h, S) /\ Agree(f, h, NoPromises(S)) /\ Agree(f, h, S \ NoPromises(S))
  BY <1>1 DEF Agree, NoPromises
<1>3. \A xs \in Seq(S) : EachElement(f, xs) = EachElement(h, xs)
  BY <1>2, EachElementSame
<1>4. \A xs \in Seq(NoPromises(S)) : EachElement(f, xs) = EachElement(h, xs)
  BY <1>2, EachElementSame
<1>5. \A es \in Seq(Entered(S) \X Entered(S)) : EnteredEntries(f, es) = EnteredEntries(h, es)
  BY <1>1, <1>2, EnteredEntriesSame, LevelAbove
<1>6. \A ps \in Seq(Payload \X Entered(S)) : EnteredProperties(f, ps) = EnteredProperties(h, ps)
  BY <1>1, <1>2, EnteredPropertiesSame, LevelAbove
<1>7. \A x \in Known(n + 1) \X (S \ NoPromises(S)) : f[x[2]] = h[x[2]]
  BY <1>2 DEF Agree
<1>8. SettledByKind(n, S, v, a, l, m, f) /\ SettledByKind(n, S, v, a, l, m, h)
  BY <1>1, SettleCases
<1> QED
  BY <1>3, <1>4, <1>5, <1>6, <1>7, <1>8 DEF SettledByKind, AtomKinds

\* What settling makes of every value.
Settler(a, l, m) == [v \in JSValue |-> Settle(v, a, l, m)]

\* The equation of settling.
LEMMA SettlerIs ==
  ASSUME NEW a, NEW l, NEW m
  PROVE  \A v \in JSValue : Settler(a, l, m)[v] = SettleWith(Settler(a, l, m), v, a, l, m)
<1> DEFINE H == {f \in [JSValue -> JSValue] : \A n \in 0 .. Depth : Keeps(f, Values[n])}
           b(f, x) == SettleWith(f, x, a, l, m)
           e(f) == [x \in JSValue |-> b(f, x)]
           g == [f \in H |-> e(f)]
           R == CHOOSE f : f = e(f)
<1>3. ASSUME NEW f \in H PROVE e(f) \in H
  <2>1. \A n \in 0 .. Depth - 1 : \A x \in Values[n + 1] :
          b(f, x) \in Values[n + 1] /\ (~IsPromise(x) => ~IsPromise(b(f, x)))
    <3> SUFFICES ASSUME NEW n \in 0 .. Depth - 1, NEW x \in Values[n + 1]
                 PROVE  /\ SettleWith(f, x, a, l, m) \in Values[n + 1]
                        /\ ~IsPromise(x) => ~IsPromise(SettleWith(f, x, a, l, m))
      OBVIOUS
    <3>1. Keeps(f, Values[n])
      BY LevelAbove
    <3> QED
      BY <3>1, SettleStepType
  <2>2. \A n \in 0 .. Depth : \A x \in Values[n] : x \in JSValue
    BY ValuesGrow
  <2> HIDE DEF b
  <2>3. \A n \in 0 .. Depth : \A x \in Values[n] : b(f, x) \in Values[n]
         /\ (~IsPromise(x) => ~IsPromise(b(f, x)))
    BY <2>1, LevelOf, ValuesLevel
  <2>4. \A x \in JSValue : b(f, x) \in JSValue
    BY <2>3, DepthType DEF JSValue
  <2>5. \A n \in 0 .. Depth : Keeps(e(f), Values[n])
    BY <2>2, <2>3 DEF Keeps
  <2> QED
    BY <2>4, <2>5
<1>4. ASSUME NEW n \in 0 .. Depth - 1, NEW f \in H, NEW h \in H, \A x \in Values[n] : f[x] = h[x],
             NEW x \in Values[n + 1]
      PROVE  b(f, x) = b(h, x)
  <2>1. Agree(f, h, Values[n])
    BY <1>4 DEF Agree
  <2> QED
    BY <2>1, SettleStepSame
<1>5. \E f \in H : f = e(f)
  <2>1. g \in [H -> H]
    <3> HIDE DEF e, H
    <3> QED
      BY <1>3
  <2>2. \A n \in 0 .. Depth - 1 : \A f, h \in H :
          (\A x \in Values[n] : f[x] = h[x]) => \A x \in Values[n + 1] : g[f][x] = g[h][x]
    <3>1. \A n \in 0 .. Depth - 1 : \A x \in Values[n + 1] : x \in JSValue
      BY LevelsBuilt, LevelAbove DEF Built
    <3> HIDE DEF b, H
    <3> QED
      BY <1>4, <3>1
  <2>3. H # {} /\ \A f \in H : f = [x \in JSValue |-> f[x]]
    <3>1. [x \in JSValue |-> x] \in H
      BY ValuesGrow DEF Keeps
    <3> QED
      BY <3>1
  <2>4. \A f \in H : g[f] = e(f)
    OBVIOUS
  <2> HIDE DEF g, H, e
  <2>5. Recursive(Depth, Values, JSValue, H, g)
    BY <2>1, <2>2, <2>3 DEF Recursive
  <2>6. \E f \in H : f = g[f]
    BY <2>5, LevelsBuilt, FixedPoint
  <2> QED
    BY <2>4, <2>6
<1>6. R = CHOOSE f : f = e(f)
  OBVIOUS
<1>7. R = e(R)
  <2> HIDE DEF e
  <2> QED
    BY <1>5, <1>6
<1>8. \A v \in JSValue : v # Thrown
  BY ValueKinds, DepthType DEF JSValue
<1>9. \A v \in JSValue : Settle(v, a, l, m) = R[v]
  BY <1>8 DEF Settle
<1> HIDE DEF R, b
<1>10. Settler(a, l, m) = R
  <2>1. \A v \in JSValue : Settler(a, l, m)[v] = R[v]
    BY <1>9 DEF Settler
  <2>2. R = [x \in JSValue |-> R[x]] /\ Settler(a, l, m) = [x \in JSValue |-> Settler(a, l, m)[x]]
    BY <1>7 DEF Settler
  <2> QED
    BY <2>1, <2>2
<1>11. \A v \in JSValue : R[v] = b(R, v)
  BY <1>7
<1> QED
  BY <1>10, <1>11 DEF b

\* What settling makes of a value nests no deeper.
LEMMA SettleType ==
  ASSUME NEW a, NEW l, NEW m
  PROVE  /\ \A n \in 0 .. Depth : Keeps(Settler(a, l, m), Values[n])
         /\ \A v \in JSValue :
              /\ Settle(v, a, l, m) = Settler(a, l, m)[v]
              /\ Settle(v, a, l, m) \in JSValue
              /\ ~IsPromise(v) => ~IsPromise(Settle(v, a, l, m))
<1> DEFINE G == {n \in 0 .. Depth : Keeps(Settler(a, l, m), Values[n])}
<1>1. 0 \in G
  BY DepthType, ValuesLevel DEF Keeps
<1>2. ASSUME NEW n \in 0 .. Depth - 1, n \in G PROVE n + 1 \in G
  <2>1. \A v \in Values[n + 1] : v \in JSValue
    BY ValuesGrow, LevelAbove
  <2>2. \A v \in Values[n + 1] :
          /\ SettleWith(Settler(a, l, m), v, a, l, m) \in Values[n + 1]
          /\ ~IsPromise(v) => ~IsPromise(SettleWith(Settler(a, l, m), v, a, l, m))
    BY <1>2, SettleStepType
  <2>3. Keeps(Settler(a, l, m), Values[n + 1])
    BY <2>1, <2>2, SettlerIs DEF Keeps
  <2> QED
    BY <2>3, LevelAbove
<1>3. \A n \in 0 .. Depth : n \in G
  <2> HIDE DEF G
  <2> QED
    BY <1>1, <1>2, DepthType, Upwards
<1>4. \A n \in 0 .. Depth : Keeps(Settler(a, l, m), Values[n])
  BY <1>3
<1>5. Keeps(Settler(a, l, m), JSValue)
  BY <1>4, DepthType DEF JSValue
<1>6. \A v \in JSValue : Settle(v, a, l, m) = Settler(a, l, m)[v]
  BY DEF Settler
<1> QED
  BY <1>4, <1>5, <1>6 DEF Keeps

-----------------------------------------------------------------------------
(* What converting makes of a value of one level.                          *)

\* The DIF values that conversion makes, from parts in S.
LEMMA DIFValueIs ==
  ASSUME NEW S
  PROVE  /\ \A t \in DOMAIN KindOfType \cup {"inferred", "unit"}, j \in {"null", "boolean", "number", "string"},
              x \in Payload : Container(t, JSON(j, x)) \in DIFValues(S)
         /\ \A t \in {"inferred", "list"}, xs \in Seq(S) : Container(t, JSON("array", xs)) \in DIFValues(S)
         /\ \A t \in {"inferred", "map"}, es \in Seq(S \X S) : Container(t, ArrayOfPairs(es)) \in DIFValues(S)
         /\ \A t \in {"inferred", "map"}, ps \in Seq(Payload \X S) : Container(t, JSON("object", ps)) \in DIFValues(S)
<1>1. ASSUME NEW t \in DOMAIN KindOfType \cup {"inferred", "unit"},
             NEW j \in {"null", "boolean", "number", "string"}, NEW x \in Payload
      PROVE  Container(t, JSON(j, x)) \in [type : DOMAIN KindOfType \cup {"inferred", "unit"}, value : Primitives]
  BY DEF Container, JSON, Primitives
<1>2. ASSUME NEW t \in {"inferred", "list"}, NEW xs \in Seq(S)
      PROVE  Container(t, JSON("array", xs)) \in [type : {"inferred", "list"}, value : ArraysOf(S)]
  BY DEF Container, JSON, ArraysOf
<1>3. ASSUME NEW t \in {"inferred", "map"}, NEW es \in Seq(S \X S)
      PROVE  Container(t, ArrayOfPairs(es))
               \in [type : {"inferred", "map"}, value : ArraysOf(PairsOf(S)) \cup ObjectsOf(S)]
  <2>1. DOMAIN es = 1 .. Len(es) /\ Len(es) \in Nat
    OBVIOUS
  <2>2. \A i \in DOMAIN es : JSON("array", es[i]) \in PairsOf(S)
    BY DEF JSON, PairsOf
  <2>3. [i \in DOMAIN es |-> JSON("array", es[i])] \in Seq(PairsOf(S))
    BY <2>1, <2>2
  <2>4. ArrayOfPairs(es) \in ArraysOf(PairsOf(S))
    BY <2>3 DEF ArrayOfPairs, JSON, ArraysOf
  <2> QED
    BY <2>4 DEF Container
<1>4. ASSUME NEW t \in {"inferred", "map"}, NEW ps \in Seq(Payload \X S)
      PROVE  Container(t, JSON("object", ps))
               \in [type : {"inferred", "map"}, value : ArraysOf(PairsOf(S)) \cup ObjectsOf(S)]
  BY DEF Container, JSON, ObjectsOf
<1> QED
  <2>1. [type : DOMAIN KindOfType \cup {"inferred", "unit"}, value : Primitives] \subseteq DIFValues(S)
    BY Zenon DEF DIFValues
  <2>2. [type : {"inferred", "list"}, value : ArraysOf(S)] \subseteq DIFValues(S)
    BY Zenon DEF DIFValues
  <2>3. [type : {"inferred", "map"}, value : ArraysOf(PairsOf(S)) \cup ObjectsOf(S)] \subseteq DIFValues(S)
    BY Zenon DEF DIFValues
  <2>4. \A t \in DOMAIN KindOfType \cup {"inferred", "unit"}, j \in {"null", "boolean", "number", "string"},
          x \in Payload : Container(t, JSON(j, x)) \in DIFValues(S)
    BY <1>1, <2>1, Zenon
  <2>5. \A t \in {"inferred", "list"}, xs \in Seq(S) : Container(t, JSON("array", xs)) \in DIFValues(S)
    BY <1>2, <2>2, Zenon
  <2>6. \A t \in {"inferred", "map"}, es \in Seq(S \X S) : Container(t, ArrayOfPairs(es)) \in DIFValues(S)
    BY <1>3, <2>3, Zenon
  <2>7. \A t \in {"inferred", "map"}, ps \in Seq(Payload \X S) : Container(t, JSON("object", ps)) \in DIFValues(S)
    BY <1>4, <2>3, Zenon
  <2> QED
    BY <2>4, <2>5, <2>6, <2>7

\* What is inside a value is of the level below.
LEMMA ChildrenBelow ==
  ASSUME NEW n \in 0 .. Depth - 1, NEW v \in PlainValues[n + 1]
  PROVE  Children(v) \subseteq PlainValues[n]
<1>1. PICK S : S = PlainValues[n]
  OBVIOUS
<1>2. CASE v.is = "array" /\ v.of \in Seq(S)
  BY <1>1, <1>2 DEF Children
<1>3. CASE v.is = "Map" /\ v.of \in Seq(S \X S)
  BY <1>1, <1>3 DEF Children
<1>4. CASE v.is = "object" /\ v.of \in Seq(Payload \X S)
  BY <1>1, <1>4 DEF Children
<1>5. CASE v.is \notin {"array", "Map", "object"}
  BY <1>5 DEF Children
<1> QED
  BY <1>1, <1>2, <1>3, <1>4, <1>5, PlainCases DEF AtomKinds

\* A value of the level above S is converted as its kind says.
ConvertedByKind(n, S, v, f) ==
  \/ (\E x \in Children(v) : f[x] = Thrown) /\ ConvertWith(f, v) = Thrown
  \/ /\ \A x \in Children(v) : f[x] # Thrown
     /\ \/ v.is = "reference" /\ v.of \in Known(n + 1) /\ ConvertWith(f, v) = v.of
        \/ /\ v.is = "array" /\ v.of \in Seq(S)
           /\ ConvertWith(f, v) = Untyped(JSON("array", EachElement(f, v.of)))
        \/ /\ v.is = "Map" /\ v.of \in Seq(S \X S) /\ Distinct(v.of)
           /\ ConvertWith(f, v) = ConvertMap(EachEntry(f, v.of))
        \/ /\ v.is = "object" /\ v.of \in Seq(Payload \X S)
           /\ ConvertWith(f, v) = Untyped(JSON("object", EachProperty(f, v.of)))
        \/ v.is \in AtomKinds /\ v.of \in Payload /\ ConvertWith(f, v) = ConvertAtom(v)

\* There is no other way to convert a value.
LEMMA ConvertCases ==
  ASSUME NEW n \in 0 .. Depth - 1, NEW v \in PlainValues[n + 1], NEW f
  PROVE  ConvertedByKind(n, PlainValues[n], v, f)
<1>0. PICK S : S = PlainValues[n]
  OBVIOUS
<1>1. \/ v.is \in AtomKinds /\ v.of \in Payload
      \/ v.is = "reference" /\ v.of \in Known(n + 1)
      \/ v.is = "array" /\ v.of \in Seq(S)
      \/ v.is = "Map" /\ v.of \in Seq(S \X S) /\ Distinct(v.of)
      \/ v.is = "object" /\ v.of \in Seq(Payload \X S)
  BY <1>0, PlainCases
<1>2. CASE \E x \in Children(v) : f[x] = Thrown
  BY <1>2 DEF ConvertWith, ConvertedByKind
<1>3. CASE ~ \E x \in Children(v) : f[x] = Thrown
  <2>1. CASE v.is \in AtomKinds /\ v.of \in Payload
    <3>1. ConvertWith(f, v) = ConvertAtom(v)
      BY <1>3, <2>1 DEF ConvertWith, AtomKinds
    <3> QED
      BY <1>3, <2>1, <3>1 DEF ConvertedByKind
  <2>2. CASE v.is = "reference" /\ v.of \in Known(n + 1)
    <3>1. ConvertWith(f, v) = v.of
      BY <1>3, <2>2 DEF ConvertWith
    <3> QED
      BY <1>3, <2>2, <3>1 DEF ConvertedByKind
  <2>3. CASE v.is = "array" /\ v.of \in Seq(S)
    <3>1. ConvertWith(f, v) = Untyped(JSON("array", EachElement(f, v.of)))
      BY <1>3, <2>3 DEF ConvertWith
    <3> QED
      BY <1>0, <1>3, <2>3, <3>1 DEF ConvertedByKind
  <2>4. CASE v.is = "Map" /\ v.of \in Seq(S \X S) /\ Distinct(v.of)
    <3>1. ConvertWith(f, v) = ConvertMap(EachEntry(f, v.of))
      BY <1>3, <2>4 DEF ConvertWith
    <3> QED
      BY <1>0, <1>3, <2>4, <3>1 DEF ConvertedByKind
  <2>5. CASE v.is = "object" /\ v.of \in Seq(Payload \X S)
    <3>1. ConvertWith(f, v) = Untyped(JSON("object", EachProperty(f, v.of)))
      BY <1>3, <2>5 DEF ConvertWith
    <3> QED
      BY <1>0, <1>3, <2>5, <3>1 DEF ConvertedByKind
  <2> QED
    BY <1>1, <2>1, <2>2, <2>3, <2>4, <2>5
<1> QED
  BY <1>2, <1>3

\* A value without parts has a representation, or none at all.
LEMMA ConvertAtomType ==
  ASSUME NEW S, NEW v, v.is \in AtomKinds, v.of \in Payload
  PROVE  ConvertAtom(v) \in DIFValues(S) \cup {Thrown}
<1>1. CASE v.is \in {"null", "boolean", "number"}
  <2>1. ConvertAtom(v) = Container("inferred", JSON(v.is, v.of))
    BY <1>1 DEF ConvertAtom, Untyped
  <2> QED
    BY <1>1, <2>1, DIFValueIs
<1>2. CASE v.is = "text"
  <2>1. ConvertAtom(v) = Container("inferred", JSON("string", v.of))
    BY <1>2 DEF ConvertAtom, Untyped
  <2> QED
    BY <2>1, DIFValueIs
<1>3. CASE v.is = "undefined"
  <2>1. ConvertAtom(v) = Container("undefined", JSON("null", v.of))
    BY <1>3 DEF ConvertAtom
  <2> QED
    BY <2>1, DIFValueIs, KindDomain
<1>4. CASE v.is = "bigint"
  <2>1. ConvertAtom(v) = Container("ibig", JSON("string", v.of))
    BY <1>4 DEF ConvertAtom
  <2> QED
    BY <2>1, DIFValueIs, KindDomain
<1>5. CASE v.is = "endpoint"
  <2>1. ConvertAtom(v) = Container("endpoint", JSON("string", v.of))
    BY <1>5 DEF ConvertAtom
  <2> QED
    BY <2>1, DIFValueIs, KindDomain
<1>6. CASE v.is = "function"
  BY <1>6 DEF ConvertAtom
<1> QED
  BY <1>1, <1>2, <1>3, <1>4, <1>5, <1>6 DEF AtomKinds

\* What a value is converted to is of its level.
LEMMA ConvertStepType ==
  ASSUME NEW n \in 0 .. Depth - 1, NEW v \in PlainValues[n + 1],
         NEW f, \A x \in PlainValues[n] : f[x] \in Containers[n] \cup {Thrown}
  PROVE  ConvertWith(f, v) \in Containers[n + 1] \cup {Thrown}
<1>1. PICK P, S : P = PlainValues[n] /\ S = Containers[n]
  OBVIOUS
<1>2. \A d \in DIFValues(S) : d \in Containers[n + 1]
  BY <1>1, ContainerIs
<1>3. CASE ConvertWith(f, v) = Thrown
  BY <1>3
<1>4. CASE \A x \in Children(v) : f[x] # Thrown
  <2>1. \A x \in Children(v) : f[x] \in S
    BY <1>1, <1>4, ChildrenBelow
  <2>2. CASE v.of \in Known(n + 1) /\ ConvertWith(f, v) = v.of
    BY <2>2 DEF Known
  <2>3. CASE v.is = "array" /\ v.of \in Seq(P)
              /\ ConvertWith(f, v) = Untyped(JSON("array", EachElement(f, v.of)))
    <3>1. \A i \in DOMAIN v.of : f[v.of[i]] \in S
      BY <2>1, <2>3 DEF Children
    <3>2. DOMAIN v.of = 1 .. Len(v.of) /\ Len(v.of) \in Nat
      BY <2>3
    <3>3. EachElement(f, v.of) \in Seq(S)
      BY <3>1, <3>2 DEF EachElement
    <3> QED
      BY <1>2, <2>3, <3>3, DIFValueIs DEF Untyped
  <2>4. CASE v.is = "Map" /\ v.of \in Seq(P \X P) /\ ConvertWith(f, v) = ConvertMap(EachEntry(f, v.of))
    <3>1. \A i \in DOMAIN v.of : f[v.of[i][1]] \in S /\ f[v.of[i][2]] \in S
      BY <2>1, <2>4 DEF Children
    <3>2. DOMAIN v.of = 1 .. Len(v.of) /\ Len(v.of) \in Nat
      BY <2>4
    <3>3. EachEntry(f, v.of) \in Seq(S \X S)
      BY <3>1, <3>2 DEF EachEntry
    <3> QED
      BY <1>2, <2>4, <3>3, DIFValueIs DEF ConvertMap
  <2>5. CASE v.is = "object" /\ v.of \in Seq(Payload \X P)
              /\ ConvertWith(f, v) = Untyped(JSON("object", EachProperty(f, v.of)))
    <3>1. \A i \in DOMAIN v.of : v.of[i][1] \in Payload /\ f[v.of[i][2]] \in S
      BY <2>1, <2>5 DEF Children
    <3>2. DOMAIN v.of = 1 .. Len(v.of) /\ Len(v.of) \in Nat
      BY <2>5
    <3>3. EachProperty(f, v.of) \in Seq(Payload \X S)
      BY <3>1, <3>2 DEF EachProperty
    <3> QED
      BY <1>2, <2>5, <3>3, DIFValueIs DEF Untyped
  <2>6. CASE v.is \in AtomKinds /\ v.of \in Payload /\ ConvertWith(f, v) = ConvertAtom(v)
    <3>1. ConvertAtom(v) \in DIFValues(S) \cup {Thrown}
      BY <2>6, ConvertAtomType
    <3> QED
      BY <1>2, <2>6, <3>1
  <2>7. ConvertedByKind(n, P, v, f)
    BY <1>1, ConvertCases
  <2> QED
    BY <1>3, <1>4, <2>2, <2>3, <2>4, <2>5, <2>6, <2>7 DEF ConvertedByKind
<1>5. ConvertedByKind(n, P, v, f)
  BY <1>1, ConvertCases
<1> QED
  BY <1>3, <1>4, <1>5 DEF ConvertedByKind

\* It depends on what is made of the level below.
LEMMA ConvertStepSame ==
  ASSUME NEW n \in 0 .. Depth - 1, NEW v \in PlainValues[n + 1], NEW f, NEW h, Agree(f, h, PlainValues[n])
  PROVE  ConvertWith(f, v) = ConvertWith(h, v)
<1>1. PICK S : S = PlainValues[n]
  OBVIOUS
<1>2. Agree(f, h, S)
  BY <1>1
<1>3. \A x \in Children(v) : f[x] = h[x]
  BY <1>1, <1>2, ChildrenBelow DEF Agree
<1>4. \A xs \in Seq(S) : EachElement(f, xs) = EachElement(h, xs)
  BY <1>2, EachElementSame
<1>5. \A es \in Seq(S \X S) : EachEntry(f, es) = EachEntry(h, es)
  BY <1>2, EachEntrySame
<1>6. \A ps \in Seq(Payload \X S) : EachProperty(f, ps) = EachProperty(h, ps)
  BY <1>2, EachPropertySame
<1>7. ConvertedByKind(n, S, v, f) /\ ConvertedByKind(n, S, v, h)
  BY <1>1, ConvertCases
<1> QED
  BY <1>3, <1>4, <1>5, <1>6, <1>7 DEF ConvertedByKind, AtomKinds

\* The equation of converting.
LEMMA ConvertIs ==
  \A v \in PlainValues[Depth] : ConvertJSValueToDIF[v] = ConvertWith(ConvertJSValueToDIF, v)
<1> DEFINE H == {f \in [PlainValues[Depth] -> DIFValueContainer \cup {Thrown}] :
                  \A n \in 0 .. Depth : \A x \in PlainValues[n] : f[x] \in Containers[n] \cup {Thrown}}
           b(f, v) == ConvertWith(f, v)
           e(f) == [v \in PlainValues[Depth] |-> b(f, v)]
           g == [f \in H |-> e(f)]
<1>3. ASSUME NEW f \in H PROVE e(f) \in H
  <2>1. \A n \in 0 .. Depth - 1 : \A x \in PlainValues[n + 1] : b(f, x) \in Containers[n + 1] \cup {Thrown}
    <3> SUFFICES ASSUME NEW n \in 0 .. Depth - 1, NEW x \in PlainValues[n + 1]
                 PROVE  ConvertWith(f, x) \in Containers[n + 1] \cup {Thrown}
      OBVIOUS
    <3>1. \A y \in PlainValues[n] : f[y] \in Containers[n] \cup {Thrown}
      BY LevelAbove
    <3> QED
      BY <3>1, ConvertStepType
  <2>2. \A n \in 0 .. Depth : \A x \in PlainValues[n] : x \in PlainValues[Depth]
    BY PlainGrow
  <2> HIDE DEF b
  <2>3. \A n \in 0 .. Depth : \A x \in PlainValues[n] : b(f, x) \in Containers[n] \cup {Thrown}
    BY <2>1, LevelOf, PlainLevel
  <2>4. \A x \in PlainValues[Depth] : b(f, x) \in DIFValueContainer \cup {Thrown}
    BY <2>3, DepthType DEF DIFValueContainer
  <2> QED
    BY <2>2, <2>3, <2>4
<1>4. ASSUME NEW n \in 0 .. Depth - 1, NEW f \in H, NEW h \in H, \A x \in PlainValues[n] : f[x] = h[x],
             NEW v \in PlainValues[n + 1]
      PROVE  b(f, v) = b(h, v)
  <2>1. Agree(f, h, PlainValues[n])
    BY <1>4 DEF Agree
  <2> QED
    BY <2>1, ConvertStepSame
<1>5. \E f \in H : f = e(f)
  <2>1. g \in [H -> H]
    <3> HIDE DEF e, H
    <3> QED
      BY <1>3
  <2>2. \A n \in 0 .. Depth - 1 : \A f, h \in H :
          (\A x \in PlainValues[n] : f[x] = h[x]) => \A x \in PlainValues[n + 1] : g[f][x] = g[h][x]
    <3>1. \A n \in 0 .. Depth - 1 : \A x \in PlainValues[n + 1] : x \in PlainValues[Depth]
      BY LevelsBuilt, LevelAbove DEF Built
    <3> HIDE DEF b, H
    <3> QED
      BY <1>4, <3>1
  <2>3. H # {} /\ \A f \in H : f = [x \in PlainValues[Depth] |-> f[x]]
    <3>1. [x \in PlainValues[Depth] |-> Thrown] \in H
      BY PlainGrow
    <3> QED
      BY <3>1
  <2>4. \A f \in H : g[f] = e(f)
    OBVIOUS
  <2> HIDE DEF g, H, e
  <2>5. Recursive(Depth, PlainValues, PlainValues[Depth], H, g)
    BY <2>1, <2>2, <2>3 DEF Recursive
  <2>6. \E f \in H : f = g[f]
    BY <2>5, LevelsBuilt, FixedPoint
  <2> QED
    BY <2>4, <2>6
<1>6. ConvertJSValueToDIF = CHOOSE f : f = e(f)
  BY DEF ConvertJSValueToDIF
<1>7. ConvertJSValueToDIF = e(ConvertJSValueToDIF)
  <2> HIDE DEF e
  <2> QED
    BY <1>5, <1>6
<1> QED
  BY <1>7

\* What is sent nests no deeper than the value.
LEMMA ConvertType ==
  \A n \in 0 .. Depth : \A v \in PlainValues[n] : ConvertJSValueToDIF[v] \in Containers[n] \cup {Thrown}
<1> DEFINE G == {n \in 0 .. Depth : \A v \in PlainValues[n] : ConvertJSValueToDIF[v] \in Containers[n] \cup {Thrown}}
<1>1. 0 \in G
  BY DepthType, PlainLevel
<1>2. ASSUME NEW n \in 0 .. Depth - 1, n \in G PROVE n + 1 \in G
  <2>1. \A v \in PlainValues[n + 1] : v \in PlainValues[Depth]
    BY PlainGrow, LevelAbove
  <2>2. \A v \in PlainValues[n + 1] : ConvertWith(ConvertJSValueToDIF, v) \in Containers[n + 1] \cup {Thrown}
    BY <1>2, ConvertStepType
  <2>3. \A v \in PlainValues[n + 1] : ConvertJSValueToDIF[v] \in Containers[n + 1] \cup {Thrown}
    BY <2>1, <2>2, ConvertIs
  <2> QED
    BY <2>3, LevelAbove
<1>3. \A n \in 0 .. Depth : n \in G
  <2> HIDE DEF G
  <2> QED
    BY <1>1, <1>2, DepthType, Upwards
<1> QED
  BY <1>3

-----------------------------------------------------------------------------
(* What the core makes of a container of one level that it hands back.     *)

\* The body of Echo.
EchoStep(f, d) == IF d \in Address THEN d ELSE EchoWith(f, d)

\* The keys of these pairs of containers are texts.
TextKeys(pairs) == \A i \in DOMAIN pairs : IsText(pairs[i][1])

\* A DIF value over S is handed back as its type says.
EchoedByType(S, d, f) ==
  \/ /\ InferredType(d) = "list" /\ d.value.of \in Seq(S)
     /\ EchoWith(f, d) = Untyped(JSON("array", EachElement(f, d.value.of)))
  \/ /\ InferredType(d) \in {"map", "object"} /\ d.value.json = "object" /\ d.value.of \in Seq(Payload \X S)
     /\ EchoWith(f, d) = Untyped(JSON("object", EachProperty(f, d.value.of)))
  \/ /\ InferredType(d) = "map" /\ d.value.json = "array" /\ PairsIn(d.value.of) \in Seq(S \X S)
     /\ EchoWith(f, d) = Untyped(IF TextKeys(PairsIn(d.value.of))
                                 THEN JSON("object", TextsToObject(f, PairsIn(d.value.of)))
                                 ELSE ArrayOfPairs(EachEntry(f, PairsIn(d.value.of))))
  \/ InferredType(d) \notin {"list", "map", "object"} /\ EchoWith(f, d) = d

\* There is no other way to hand back a value.
LEMMA EchoCases ==
  ASSUME NEW n \in 0 .. Depth - 1, NEW d \in DIFValues(Containers[n]), NEW f
  PROVE  EchoedByType(Containers[n], d, f)
<1>0. PICK S : S = Containers[n]
  OBVIOUS
<1>1. \/ /\ InferredType(d) \in DOMAIN KindOfType \cup {"unit", "primitive"}
         /\ d.value.json \in {"null", "boolean", "number", "string"}
      \/ InferredType(d) = "list" /\ d.value.json = "array" /\ d.value.of \in Seq(S)
      \/ InferredType(d) = "map" /\ d.value.json = "array" /\ d.value.of \in Seq(PairsOf(S))
      \/ /\ InferredType(d) \in {"map", "object"} /\ d.value.json = "object"
         /\ d.value.of \in Seq(Payload \X S)
  BY <1>0, InferredTypes
<1>2. CASE /\ InferredType(d) \in DOMAIN KindOfType \cup {"unit", "primitive"}
           /\ d.value.json \in {"null", "boolean", "number", "string"}
  <2>1. EchoWith(f, d) = d
    BY <1>2, KindDomain DEF EchoWith
  <2> QED
    BY <1>2, <2>1, KindDomain DEF EchoedByType
<1>3. CASE InferredType(d) = "list" /\ d.value.json = "array" /\ d.value.of \in Seq(S)
  <2>1. EchoWith(f, d) = Untyped(JSON("array", EachElement(f, d.value.of)))
    BY <1>3 DEF EchoWith
  <2> QED
    BY <1>0, <1>3, <2>1 DEF EchoedByType
<1>4. CASE InferredType(d) = "map" /\ d.value.json = "array" /\ d.value.of \in Seq(PairsOf(S))
  <2>1. EchoWith(f, d) = Untyped(IF TextKeys(PairsIn(d.value.of))
                                 THEN JSON("object", TextsToObject(f, PairsIn(d.value.of)))
                                 ELSE ArrayOfPairs(EachEntry(f, PairsIn(d.value.of))))
    BY <1>4 DEF EchoWith, TextKeys
  <2>2. PairsIn(d.value.of) \in Seq(S \X S)
    BY <1>4, PairOf DEF PairsIn
  <2> QED
    BY <1>0, <1>4, <2>1, <2>2 DEF EchoedByType
<1>5. CASE /\ InferredType(d) \in {"map", "object"} /\ d.value.json = "object"
           /\ d.value.of \in Seq(Payload \X S)
  <2>1. EchoWith(f, d) = Untyped(JSON("object", EachProperty(f, d.value.of)))
    BY <1>5 DEF EchoWith
  <2> QED
    BY <1>0, <1>5, <2>1 DEF EchoedByType
<1> QED
  BY <1>1, <1>2, <1>3, <1>4, <1>5

\* What a text is represented by.
LEMMA TextIs ==
  ASSUME NEW n \in 0 .. Depth, NEW c \in Containers[n], IsText(c)
  PROVE  c \notin Address /\ InferredType(c) = "primitive" /\ c.value.json = "string" /\ c.value.of \in Payload
<1>1. PICK k \in 0 .. Depth - 1 : c \in Containers[k + 1]
  BY LevelOf, ContainersLevel
<1>2. PICK S : S = Containers[k]
  OBVIOUS
<1>3. c \notin Address /\ InferredType(c) = "primitive" /\ c.value.json = "string"
  BY DEF IsText
<1>4. c \in DIFValues(S)
  BY <1>1, <1>2, <1>3, ContainerParts
<1>5. c.value.of \in Payload
  BY <1>2, <1>3, <1>4, InferredTypes
<1> QED
  BY <1>3, <1>5

\* The properties that entries become whose keys are texts.
LEMMA TextsToObjectIn ==
  ASSUME NEW n \in 0 .. Depth, NEW S, S = Containers[n], NEW pairs \in Seq(S \X S), TextKeys(pairs),
         NEW f, \A x \in S : f[x] \in S
  PROVE  TextsToObject(f, pairs) \in Seq(Payload \X S)
<1>1. \A i \in DOMAIN pairs : pairs[i][1] \in S /\ pairs[i][2] \in S
  OBVIOUS
<1>2. \A i \in DOMAIN pairs : pairs[i][1].value.of \in Payload /\ f[pairs[i][2]] \in S
  BY <1>1, TextIs DEF TextKeys
<1>3. DOMAIN pairs = 1 .. Len(pairs) /\ Len(pairs) \in Nat
  OBVIOUS
<1> QED
  BY <1>2, <1>3 DEF TextsToObject

\* What is handed back is of the level of what was sent.
LEMMA EchoStepType ==
  ASSUME NEW n \in 0 .. Depth - 1, NEW d \in Containers[n + 1], NEW f, \A x \in Containers[n] : f[x] \in Containers[n]
  PROVE  EchoStep(f, d) \in Containers[n + 1]
<1>1. PICK S : S = Containers[n]
  OBVIOUS
<1>2. CASE d \in Address
  BY <1>2 DEF EchoStep
<1>3. CASE d \notin Address
  <2>1. EchoStep(f, d) = EchoWith(f, d)
    BY <1>3 DEF EchoStep
  <2>2. EchoedByType(S, d, f)
    BY <1>1, <1>3, ContainerParts, EchoCases
  <2>3. \A x \in DIFValues(S) : x \in Containers[n + 1]
    BY <1>1, ContainerIs
  <2>4. \A x \in S : f[x] \in S
    BY <1>1
  <2>5. CASE d.value.of \in Seq(S) /\ EchoWith(f, d) = Untyped(JSON("array", EachElement(f, d.value.of)))
    <3>1. EachElement(f, d.value.of) \in Seq(S)
      BY <2>4, <2>5, EachIn
    <3> QED
      BY <2>1, <2>3, <2>5, <3>1, DIFValueIs DEF Untyped
  <2>6. CASE d.value.of \in Seq(Payload \X S)
              /\ EchoWith(f, d) = Untyped(JSON("object", EachProperty(f, d.value.of)))
    <3>1. EachProperty(f, d.value.of) \in Seq(Payload \X S)
      BY <2>4, <2>6, EachIn
    <3> QED
      BY <2>1, <2>3, <2>6, <3>1, DIFValueIs DEF Untyped
  <2>7. CASE /\ PairsIn(d.value.of) \in Seq(S \X S)
             /\ EchoWith(f, d) = Untyped(IF TextKeys(PairsIn(d.value.of))
                                         THEN JSON("object", TextsToObject(f, PairsIn(d.value.of)))
                                         ELSE ArrayOfPairs(EachEntry(f, PairsIn(d.value.of))))
    <3>1. CASE TextKeys(PairsIn(d.value.of))
      <4>1. TextsToObject(f, PairsIn(d.value.of)) \in Seq(Payload \X S)
        BY <1>1, <2>4, <2>7, <3>1, TextsToObjectIn, LevelAbove
      <4> QED
        BY <2>1, <2>3, <2>7, <3>1, <4>1, DIFValueIs DEF Untyped
    <3>2. CASE ~TextKeys(PairsIn(d.value.of))
      <4>1. EachEntry(f, PairsIn(d.value.of)) \in Seq(S \X S)
        BY <2>4, <2>7, EachIn
      <4> QED
        BY <2>1, <2>3, <2>7, <3>2, <4>1, DIFValueIs DEF Untyped
    <3> QED
      BY <3>1, <3>2
  <2>8. CASE EchoWith(f, d) = d
    BY <2>1, <2>8
  <2> QED
    BY <2>2, <2>5, <2>6, <2>7, <2>8 DEF EchoedByType
<1> QED
  BY <1>2, <1>3

\* It depends on what is handed back of the level below.
LEMMA EchoStepSame ==
  ASSUME NEW n \in 0 .. Depth - 1, NEW d \in Containers[n + 1], NEW f, NEW h, Agree(f, h, Containers[n])
  PROVE  EchoStep(f, d) = EchoStep(h, d)
<1>1. PICK S : S = Containers[n]
  OBVIOUS
<1>2. CASE d \in Address
  BY <1>2 DEF EchoStep
<1>3. CASE d \notin Address
  <2>1. Agree(f, h, S)
    BY <1>1
  <2>2. \A xs \in Seq(S) : EachElement(f, xs) = EachElement(h, xs)
    BY <2>1, EachElementSame
  <2>3. \A es \in Seq(S \X S) : EachEntry(f, es) = EachEntry(h, es)
    BY <2>1, EachEntrySame
  <2>4. \A ps \in Seq(Payload \X S) : EachProperty(f, ps) = EachProperty(h, ps)
    BY <2>1, EachPropertySame
  <2>5. ASSUME NEW es \in Seq(S \X S) PROVE TextsToObject(f, es) = TextsToObject(h, es)
    <3>1. \A i \in DOMAIN es : f[es[i][2]] = h[es[i][2]]
      BY <2>1 DEF Agree
    <3> QED
      BY <3>1 DEF TextsToObject
  <2>6. EchoedByType(S, d, f) /\ EchoedByType(S, d, h)
    BY <1>1, <1>3, ContainerParts, EchoCases
  <2>7. EchoWith(f, d) = EchoWith(h, d)
    BY <2>2, <2>3, <2>4, <2>5, <2>6 DEF EchoedByType
  <2> QED
    BY <1>3, <2>7 DEF EchoStep
<1> QED
  BY <1>2, <1>3

\* The equation of Echo.
LEMMA EchoIs ==
  \A d \in DIFValueContainer : Echo[d] = EchoStep(Echo, d)
<1> DEFINE H == {f \in [DIFValueContainer -> DIFValueContainer] :
                  \A n \in 0 .. Depth : \A x \in Containers[n] : f[x] \in Containers[n]}
           b(f, x) == EchoStep(f, x)
           e(f) == [x \in DIFValueContainer |-> b(f, x)]
           g == [f \in H |-> e(f)]
<1>3. ASSUME NEW f \in H PROVE e(f) \in H
  <2>1. \A n \in 0 .. Depth - 1 : \A x \in Containers[n + 1] : b(f, x) \in Containers[n + 1]
    <3> SUFFICES ASSUME NEW n \in 0 .. Depth - 1, NEW x \in Containers[n + 1]
                 PROVE  EchoStep(f, x) \in Containers[n + 1]
      OBVIOUS
    <3>1. \A y \in Containers[n] : f[y] \in Containers[n]
      BY LevelAbove
    <3> QED
      BY <3>1, EchoStepType
  <2>2. \A n \in 0 .. Depth : \A x \in Containers[n] : x \in DIFValueContainer
    BY ContainersGrow
  <2> HIDE DEF b
  <2>3. \A n \in 0 .. Depth : \A x \in Containers[n] : b(f, x) \in Containers[n]
    BY <2>1, LevelOf, ContainersLevel
  <2>4. \A x \in DIFValueContainer : b(f, x) \in DIFValueContainer
    BY <2>3, DepthType DEF DIFValueContainer
  <2> QED
    BY <2>2, <2>3, <2>4
<1>4. ASSUME NEW n \in 0 .. Depth - 1, NEW f \in H, NEW h \in H, \A x \in Containers[n] : f[x] = h[x],
             NEW x \in Containers[n + 1]
      PROVE  b(f, x) = b(h, x)
  <2>1. Agree(f, h, Containers[n])
    BY <1>4 DEF Agree
  <2> QED
    BY <2>1, EchoStepSame
<1>5. \E f \in H : f = e(f)
  <2>1. g \in [H -> H]
    <3> HIDE DEF e, H
    <3> QED
      BY <1>3
  <2>2. \A n \in 0 .. Depth - 1 : \A f, h \in H :
          (\A x \in Containers[n] : f[x] = h[x]) => \A x \in Containers[n + 1] : g[f][x] = g[h][x]
    <3>1. \A n \in 0 .. Depth - 1 : \A x \in Containers[n + 1] : x \in DIFValueContainer
      BY LevelsBuilt, LevelAbove DEF Built
    <3> HIDE DEF b, H
    <3> QED
      BY <1>4, <3>1
  <2>3. H # {} /\ \A f \in H : f = [x \in DIFValueContainer |-> f[x]]
    <3>1. [x \in DIFValueContainer |-> x] \in H
      BY ContainersGrow
    <3> QED
      BY <3>1
  <2>4. \A f \in H : g[f] = e(f)
    OBVIOUS
  <2> HIDE DEF g, H, e
  <2>5. Recursive(Depth, Containers, DIFValueContainer, H, g)
    BY <2>1, <2>2, <2>3 DEF Recursive
  <2>6. \E f \in H : f = g[f]
    BY <2>5, LevelsBuilt, FixedPoint
  <2> QED
    BY <2>4, <2>6
<1>6. Echo = CHOOSE f : f = e(f)
  BY DEF Echo, EchoStep
<1>7. Echo = e(Echo)
  <2> HIDE DEF e
  <2> QED
    BY <1>5, <1>6
<1> QED
  BY <1>7

\* What is handed back nests no deeper.
LEMMA EchoType ==
  \A n \in 0 .. Depth : \A d \in Containers[n] : Echo[d] \in Containers[n]
<1> DEFINE G == {n \in 0 .. Depth : \A d \in Containers[n] : Echo[d] \in Containers[n]}
<1>1. 0 \in G
  BY DepthType, ContainersLevel
<1>2. ASSUME NEW n \in 0 .. Depth - 1, n \in G PROVE n + 1 \in G
  <2>1. \A d \in Containers[n + 1] : d \in DIFValueContainer
    BY ContainersGrow, LevelAbove
  <2>2. \A d \in Containers[n + 1] : EchoStep(Echo, d) \in Containers[n + 1]
    BY <1>2, EchoStepType
  <2>3. \A d \in Containers[n + 1] : Echo[d] \in Containers[n + 1]
    BY <2>1, <2>2, EchoIs
  <2> QED
    BY <2>3, LevelAbove
<1>3. \A n \in 0 .. Depth : n \in G
  <2> HIDE DEF G
  <2> QED
    BY <1>1, <1>2, DepthType, Upwards
<1> QED
  BY <1>3

-----------------------------------------------------------------------------
(* The pointers that a container needs, and that a value waits for.        *)

\* The elements of a list.
Elements(d) == IF d \notin Address
 /\ InferredType(d) = "list" THEN {d.value.of[i] : i \in DOMAIN d.value.of} ELSE {}

\* The body of Needed.
NeededStep(f, d) == IF d \in Address THEN {d} \cup f[Content[d]] ELSE UNION {f[x] : x \in Elements(d)}

\* The content of a pointer, and the elements of a list, are of the level below.
LEMMA ElementsBelow ==
  ASSUME NEW n \in 0 .. Depth - 1, NEW d \in Containers[n + 1]
  PROVE  /\ d \in Address => Content[d] \in Containers[n]
         /\ Elements(d) \subseteq Containers[n]
<1>1. PICK S : S = Containers[n]
  OBVIOUS
<1>2. d \in Address => Content[d] \in Containers[n]
  BY ContainerParts
<1>3. CASE d \notin Address /\ InferredType(d) = "list"
  <2>1. d \in DIFValues(S)
    BY <1>1, <1>3, ContainerParts
  <2>2. d.value.of \in Seq(S)
    BY <1>1, <1>3, <2>1, InferredTypes, KindDomain
  <2> QED
    BY <1>1, <1>2, <1>3, <2>2 DEF Elements
<1>4. CASE ~(d \notin Address /\ InferredType(d) = "list")
  BY <1>2, <1>4 DEF Elements
<1> QED
  BY <1>3, <1>4

\* The equation of Needed.
LEMMA NeededIs ==
  \A d \in DIFValueContainer : Needed[d] = NeededStep(Needed, d)
<1> DEFINE H == [DIFValueContainer -> SUBSET Address]
           b(f, d) == NeededStep(f, d)
           e(f) == [d \in DIFValueContainer |-> b(f, d)]
           g == [f \in H |-> e(f)]
           R == CHOOSE f : f = e(f)
<1>3. ASSUME NEW f \in H PROVE e(f) \in H
  <2>1. \A d \in DIFValueContainer : (d \in Address => Content[d] \in DIFValueContainer)
         /\ Elements(d) \subseteq DIFValueContainer
    <3> SUFFICES ASSUME NEW d \in DIFValueContainer
                 PROVE  (d \in Address => Content[d] \in DIFValueContainer)
                         /\ Elements(d) \subseteq DIFValueContainer
      OBVIOUS
    <3>1. PICK n \in 0 .. Depth - 1 : d \in Containers[n + 1]
      BY LevelOf, ContainersLevel, DepthType DEF DIFValueContainer
    <3> QED
      BY <3>1, ElementsBelow, ContainersGrow, LevelAbove
  <2>2. \A d \in DIFValueContainer : b(f, d) \in SUBSET Address
    BY <2>1 DEF NeededStep
  <2> HIDE DEF b
  <2> QED
    BY <2>2
<1>4. ASSUME NEW n \in 0 .. Depth - 1, NEW f \in H, NEW h \in H, \A x \in Containers[n] : f[x] = h[x],
             NEW d \in Containers[n + 1]
      PROVE  b(f, d) = b(h, d)
  <2>1. (d \in Address => f[Content[d]] = h[Content[d]]) /\ \A x \in Elements(d) : f[x] = h[x]
    BY <1>4, ElementsBelow
  <2>2. {f[x] : x \in Elements(d)} = {h[x] : x \in Elements(d)}
    BY <2>1
  <2>3. NeededStep(f, d) = NeededStep(h, d)
    BY <2>1, <2>2 DEF NeededStep
  <2> QED
    BY <2>3
<1>5. \E f \in H : f = e(f)
  <2>1. g \in [H -> H]
    <3> HIDE DEF e, H
    <3> QED
      BY <1>3
  <2>2. \A n \in 0 .. Depth - 1 : \A f, h \in H :
          (\A x \in Containers[n] : f[x] = h[x]) => \A x \in Containers[n + 1] : g[f][x] = g[h][x]
    <3>1. \A n \in 0 .. Depth - 1 : \A x \in Containers[n + 1] : x \in DIFValueContainer
      BY LevelsBuilt, LevelAbove DEF Built
    <3> HIDE DEF b, H
    <3> QED
      BY <1>4, <3>1
  <2>3. H # {} /\ \A f \in H : f = [x \in DIFValueContainer |-> f[x]]
    <3>1. [x \in DIFValueContainer |-> {}] \in H
      OBVIOUS
    <3> QED
      BY <3>1
  <2>4. \A f \in H : g[f] = e(f)
    OBVIOUS
  <2> HIDE DEF g, H, e
  <2>5. Recursive(Depth, Containers, DIFValueContainer, H, g)
    BY <2>1, <2>2, <2>3 DEF Recursive
  <2>6. \E f \in H : f = g[f]
    BY <2>5, LevelsBuilt, FixedPoint
  <2> QED
    BY <2>4, <2>6
<1>6. R = CHOOSE f : f = e(f)
  OBVIOUS
<1>7. R = e(R)
  <2> HIDE DEF e
  <2> QED
    BY <1>5, <1>6
<1> DEFINE c(f, d) == IF d \in Address THEN {d} \cup f[Content[d]]
                      ELSE IF InferredType(d) # "list" THEN {}
                      ELSE UNION {f[d.value.of[i]] : i \in DOMAIN d.value.of}
           e2(f) == [d \in DIFValueContainer |-> c(f, d)]
<1>8. ASSUME NEW f, NEW d PROVE b(f, d) = c(f, d)
  BY DEF NeededStep, Elements
<1>9. ASSUME NEW f PROVE e(f) = e2(f)
  <2> HIDE DEF b, c
  <2> QED
    BY <1>8
<1>10. Needed = CHOOSE f : f = e2(f)
  BY DEF Needed
<1>11. Needed = e2(Needed)
  <2> HIDE DEF e, e2
  <2>1. \E f : f = e2(f)
    BY <1>5, <1>9
  <2> QED
    BY <1>10, <2>1
<1>12. \A d \in DIFValueContainer : Needed[d] = c(Needed, d)
  <2> HIDE DEF c
  <2> QED
    BY <1>11
<1> QED
  BY <1>8, <1>12

\* The values that a promise waits for.
Pend(v) == CASE v.is = "binding" -> {v.of[2]}
             [] v.is = "all" -> {v.of[i] : i \in DOMAIN v.of}
             [] OTHER -> {}

\* What a promise waits for is of the level below.
LEMMA PendBelow ==
  ASSUME NEW n \in 0 .. Depth - 1, NEW v \in Values[n + 1]
  PROVE  Pend(v) \subseteq Values[n]
<1>1. PICK S : S = Values[n]
  OBVIOUS
<1>2. CASE v.is = "binding" /\ v.of \in Known(n + 1) \X (S \ NoPromises(S))
  BY <1>1, <1>2 DEF Pend
<1>3. CASE v.is = "all" /\ v.of \in Seq(S)
  BY <1>1, <1>3 DEF Pend
<1>4. CASE v.is \notin {"binding", "all"}
  BY <1>4 DEF Pend
<1> QED
  BY <1>1, <1>2, <1>3, <1>4, ValueCases DEF AtomKinds

\* What belongs to a reference or a promise is a pointer, and its parts are values.
LEMMA KnownPointers ==
  ASSUME NEW v \in JSValue
  PROVE  /\ v.is \in {"reference", "pointed", "load"} => v.of \in Address
         /\ v.is = "binding" => v.of[1] \in Address
         /\ Pend(v) \subseteq JSValue /\ Parts(v) \subseteq JSValue
<1>1. PICK n \in 0 .. Depth - 1 : v \in Values[n + 1]
  BY LevelOf, ValuesLevel, DepthType DEF JSValue
<1>2. PICK S : S = Values[n]
  OBVIOUS
<1>3. /\ v.is \in {"reference", "pointed", "load"} => v.of \in Known(n + 1)
      /\ v.is = "binding" => v.of[1] \in Known(n + 1)
  BY <1>1, <1>2, ValueCases DEF AtomKinds
<1>4. Pend(v) \subseteq JSValue /\ Parts(v) \subseteq JSValue
  BY <1>1, PendBelow, PartsBelow, ValuesGrow, LevelAbove
<1> QED
  BY <1>3, <1>4 DEF Known

\* The pointers that v waits for: those that are still to be loaded before it settles are
\* among them.  What a rejected promise would have waited for does not matter.
WaitsStep(f, v) ==
  (CASE v.is = "load" -> Needed[v.of] [] v.is = "rejected" -> Address [] OTHER -> {})
    \cup UNION {f[x] : x \in Pend(v)}
Waits[v \in JSValue] == WaitsStep(Waits, v)

\* Only pointers are needed.
LEMMA NeededType == \A d \in DIFValueContainer : Needed[d] \subseteq Address
<1> DEFINE G == {n \in 0 .. Depth : \A d \in Containers[n] : Needed[d] \subseteq Address}
<1>1. 0 \in G
  BY DepthType, ContainersLevel
<1>2. ASSUME NEW n \in 0 .. Depth - 1, n \in G PROVE n + 1 \in G
  <2>1. ASSUME NEW d \in Containers[n + 1] PROVE Needed[d] \subseteq Address
    <3>1. Needed[d] = NeededStep(Needed, d)
      BY NeededIs, ContainersGrow, LevelAbove
    <3>2. d \in Address => Needed[Content[d]] \subseteq Address
      BY <1>2, ElementsBelow
    <3>3. \A x \in Elements(d) : Needed[x] \subseteq Address
      BY <1>2, ElementsBelow
    <3> QED
      BY <3>1, <3>2, <3>3 DEF NeededStep
  <2> QED
    BY <2>1, LevelAbove
<1>3. \A n \in 0 .. Depth : n \in G
  <2> HIDE DEF G
  <2> QED
    BY <1>1, <1>2, DepthType, Upwards
<1> QED
  BY <1>3, DepthType DEF DIFValueContainer

\* The equation of Waits.
LEMMA WaitsIs ==
  \A v \in JSValue : Waits[v] = WaitsStep(Waits, v)
<1> DEFINE H == [JSValue -> SUBSET Address]
           b(f, v) == WaitsStep(f, v)
           e(f) == [v \in JSValue |-> b(f, v)]
           g == [f \in H |-> e(f)]
<1>3. ASSUME NEW f \in H PROVE e(f) \in H
  <2>1. ASSUME NEW v \in JSValue PROVE b(f, v) \in SUBSET Address
    <3>1. \A x \in Pend(v) : f[x] \in SUBSET Address
      BY KnownPointers
    <3>2. v.is = "load" => Needed[v.of] \subseteq Address
      BY KnownPointers, NeededType, ConversionAssumption
    <3> QED
      BY <3>1, <3>2 DEF WaitsStep
  <2> HIDE DEF b
  <2> QED
    BY <2>1
<1>4. ASSUME NEW n \in 0 .. Depth - 1, NEW f \in H, NEW h \in H, \A x \in Values[n] : f[x] = h[x],
             NEW v \in Values[n + 1]
      PROVE  b(f, v) = b(h, v)
  <2>1. \A x \in Pend(v) : f[x] = h[x]
    BY <1>4, PendBelow
  <2>2. {f[x] : x \in Pend(v)} = {h[x] : x \in Pend(v)}
    BY <2>1
  <2>3. WaitsStep(f, v) = WaitsStep(h, v)
    BY <2>2 DEF WaitsStep
  <2> QED
    BY <2>3
<1>5. \E f \in H : f = e(f)
  <2>1. g \in [H -> H]
    <3> HIDE DEF e, H
    <3> QED
      BY <1>3
  <2>2. \A n \in 0 .. Depth - 1 : \A f, h \in H :
          (\A x \in Values[n] : f[x] = h[x]) => \A x \in Values[n + 1] : g[f][x] = g[h][x]
    <3>1. \A n \in 0 .. Depth - 1 : \A x \in Values[n + 1] : x \in JSValue
      BY LevelsBuilt, LevelAbove DEF Built
    <3> HIDE DEF b, H
    <3> QED
      BY <1>4, <3>1
  <2>3. H # {} /\ \A f \in H : f = [x \in JSValue |-> f[x]]
    <3>1. [x \in JSValue |-> {}] \in H
      OBVIOUS
    <3> QED
      BY <3>1
  <2>4. \A f \in H : g[f] = e(f)
    OBVIOUS
  <2> HIDE DEF g, H, e
  <2>5. Recursive(Depth, Values, JSValue, H, g)
    BY <2>1, <2>2, <2>3 DEF Recursive
  <2>6. \E f \in H : f = g[f]
    BY <2>5, LevelsBuilt, FixedPoint
  <2> QED
    BY <2>4, <2>6
<1>6. Waits = CHOOSE f : f = e(f)
  BY DEF Waits
<1>7. Waits = e(Waits)
  <2> HIDE DEF e
  <2> QED
    BY <1>5, <1>6
<1> QED
  BY <1>7

\* All that v refers to is in memory m, or will be once v has settled.
SoundStep(f, v, m) ==
  /\ v.is \in {"reference", "pointed"} => Needed[v.of] \subseteq m
  /\ v.is = "binding" => Needed[v.of[1]] \subseteq m \cup Waits[v.of[2]]
  /\ \A x \in Pend(v) \cup Parts(v) : f[x]
Sound(m) == LET sound[v \in JSValue] == SoundStep(sound, v, m) IN sound

\* The equation of Sound.
LEMMA SoundIs ==
  ASSUME NEW m
  PROVE  \A v \in JSValue : Sound(m)[v] = SoundStep(Sound(m), v, m)
<1> DEFINE H == [JSValue -> BOOLEAN]
           b(f, v) == SoundStep(f, v, m)
           e(f) == [v \in JSValue |-> b(f, v)]
           g == [f \in H |-> e(f)]
<1>3. ASSUME NEW f \in H PROVE e(f) \in H
  <2>1. ASSUME NEW v \in JSValue PROVE b(f, v) \in BOOLEAN
    BY DEF SoundStep
  <2> HIDE DEF b
  <2> QED
    BY <2>1
<1>4. ASSUME NEW n \in 0 .. Depth - 1, NEW f \in H, NEW h \in H, \A x \in Values[n] : f[x] = h[x],
             NEW v \in Values[n + 1]
      PROVE  b(f, v) = b(h, v)
  <2>1. \A x \in Pend(v) \cup Parts(v) : f[x] = h[x]
    BY <1>4, PendBelow, PartsBelow
  <2>2. (\A x \in Pend(v) \cup Parts(v) : f[x]) <=> (\A x \in Pend(v) \cup Parts(v) : h[x])
    BY <2>1
  <2>3. SoundStep(f, v, m) = SoundStep(h, v, m)
    BY <2>2 DEF SoundStep
  <2> QED
    BY <2>3
<1>5. \E f \in H : f = e(f)
  <2>1. g \in [H -> H]
    <3> HIDE DEF e, H
    <3> QED
      BY <1>3
  <2>2. \A n \in 0 .. Depth - 1 : \A f, h \in H :
          (\A x \in Values[n] : f[x] = h[x]) => \A x \in Values[n + 1] : g[f][x] = g[h][x]
    <3>1. \A n \in 0 .. Depth - 1 : \A x \in Values[n + 1] : x \in JSValue
      BY LevelsBuilt, LevelAbove DEF Built
    <3> HIDE DEF b, H
    <3> QED
      BY <1>4, <3>1
  <2>3. H # {} /\ \A f \in H : f = [x \in JSValue |-> f[x]]
    <3>1. [x \in JSValue |-> TRUE] \in H
      OBVIOUS
    <3> QED
      BY <3>1
  <2>4. \A f \in H : g[f] = e(f)
    OBVIOUS
  <2> HIDE DEF g, H, e
  <2>5. Recursive(Depth, Values, JSValue, H, g)
    BY <2>1, <2>2, <2>3 DEF Recursive
  <2>6. \E f \in H : f = g[f]
    BY <2>5, LevelsBuilt, FixedPoint
  <2> QED
    BY <2>4, <2>6
<1>6. Sound(m) = CHOOSE f : f = e(f)
  BY DEF Sound
<1>7. Sound(m) = e(Sound(m))
  <2> HIDE DEF e
  <2> QED
    BY <1>5, <1>6
<1> QED
  BY <1>7

-----------------------------------------------------------------------------
(* Types.                                                                  *)

\* What an async function goes on with, by the value it has got.
LEMMA OutcomeIs ==
  ASSUME NEW v \in JSValue \cup {Thrown}
  PROVE  /\ Outcome(v) \in {"rejected", "resolving", "fulfilled"}
         /\ Outcome(v) = "resolving" <=> Pending(v)
         /\ Outcome(v) = "fulfilled" <=> v \in JSValue /\ ~IsPromise(v)
<1>1. CASE v = Thrown
  <2>1. Outcome(v) = "rejected"
    BY <1>1, Settled DEF Outcome
  <2>2. v \notin JSValue
    BY <1>1, ValueKinds, DepthType DEF JSValue
  <2> QED
    BY <1>1, <2>1, <2>2, Settled
<1>2. CASE v = Rejected
  <2>1. Outcome(v) = "rejected"
    BY <1>2, Settled DEF Outcome
  <2>2. IsPromise(v)
    BY <1>2 DEF IsPromise, Rejected, Value
  <2> QED
    BY <1>2, <2>1, <2>2, Settled
<1>3. CASE v \notin {Thrown, Rejected} /\ Pending(v)
  <2>1. Outcome(v) = "resolving"
    BY <1>3 DEF Outcome
  <2> QED
    BY <1>3, <2>1 DEF Pending
<1>4. CASE v \notin {Thrown, Rejected} /\ ~Pending(v)
  <2>1. Outcome(v) = "fulfilled"
    BY <1>4 DEF Outcome
  <2>2. v \in JSValue /\ v.is # "rejected"
    BY <1>4, ValueKinds, DepthType DEF JSValue
  <2> QED
    BY <1>4, <2>1, <2>2, Settled
<1> QED
  BY <1>1, <1>2, <1>3, <1>4

\* What the core returns is resolved to a value or an exception.
LEMMA ResultType ==
  ASSUME NEW given \in Given \cup {NoValue}, Accepted(given), NEW d \in Returned(given)
  PROVE  /\ d # NoResult => d \in DIFValueContainer
         /\ ResultValue(d) \in JSValue \cup {Thrown}
<1>1. Value("undefined", Nothing) \in JSValue
  <2>1. Depth - 1 \in 0 .. Depth - 1 /\ (Depth - 1) + 1 = Depth
    BY DepthType
  <2>2. Value("undefined", Nothing) \in Values[(Depth - 1) + 1]
    BY <2>1, ValueIs, ConversionAssumption DEF AtomKinds
  <2> QED
    BY <2>1, <2>2 DEF JSValue
<1>2. d # NoResult => d \in DIFValueContainer
  <2>1. CASE given = NoValue
    BY <2>1, ExecutionAssumption DEF Returned
  <2>2. CASE given # NoValue
    <3>1. given \in PlainValues[Depth] /\ ConvertJSValueToDIF[given] # Thrown
      BY <2>2, ExecutionAssumption DEF Accepted
    <3>2. ConvertJSValueToDIF[given] \in Containers[Depth]
      BY <3>1, ConvertType, DepthType
    <3>3. Echo[ConvertJSValueToDIF[given]] \in Containers[Depth]
      BY <3>2, EchoType, DepthType
    <3> QED
      BY <2>2, <3>3 DEF Returned, DIFValueContainer
  <2> QED
    BY <2>1, <2>2
<1> QED
  BY <1>1, <1>2, ResolveType DEF ResultValue

\* What becomes of the value of a call, exceptions included.
LEMMA SettleAny ==
  ASSUME NEW v \in JSValue \cup {Thrown}, NEW a, NEW l, NEW m
  PROVE  /\ Settle(v, a, l, m) \in JSValue \cup {Thrown}
         /\ v = Thrown => Settle(v, a, l, m) = Thrown
         /\ v \in JSValue => Settle(v, a, l, m) \in JSValue
         /\ v \in JSValue /\ ~IsPromise(v) => ~IsPromise(Settle(v, a, l, m))
<1>1. v = Thrown => Settle(v, a, l, m) = Thrown
  BY DEF Settle
<1> QED
  BY <1>1, SettleType

\* The state of a call: only values that could be converted are sent, and calls are
\* fulfilled with values that are no promises.
Typed(r) ==
  /\ r \in [step : Step, given : Given \cup {NoValue}, value : JSValue \cup {Thrown}]
  /\ r.step = "core" => Accepted(r.given)
  /\ r.step = "resolving" => Pending(r.value)
  /\ r.step = "fulfilled" => r.value \in JSValue /\ ~IsPromise(r.value)

\* The state has its types.
IInv ==
  /\ memory \subseteq Address
  /\ calls = [c \in Call |-> calls[c]]
  /\ \A c \in Call : Typed(calls[c])

\* The types hold at first.
LEMMA TypedInit == Init => IInv
<1> SUFFICES ASSUME Init PROVE IInv
  OBVIOUS
<1>1. Typed(Idle)
  BY DEF Typed, Idle, Step
<1> QED
  BY <1>1 DEF Init, IInv

\* What becomes of a call whose value has been settled to v.
Continued(r, v) == [r EXCEPT !.value = v, !.step = IF @ = "resolving" THEN Outcome(v) ELSE @]

\* A call whose value has been settled has its type.
LEMMA TypedContinue ==
  ASSUME NEW r, Typed(r), NEW a, NEW l, NEW m, NEW v, v = Settle(r.value, a, l, m)
  PROVE  Typed(Continued(r, v))
<1> DEFINE q == Continued(r, v)
<1>1. r \in [step : Step, given : Given \cup {NoValue}, value : JSValue \cup {Thrown}]
  BY DEF Typed
<1>2. v \in JSValue \cup {Thrown} /\ (r.value \in JSValue /\ ~IsPromise(r.value) => v \in JSValue
       /\ ~IsPromise(v))
  BY <1>1, SettleAny
<1>3. /\ q \in [step : {r.step, Outcome(v)}, given : {r.given}, value : {v}]
      /\ q.step = IF r.step = "resolving" THEN Outcome(v) ELSE r.step
      /\ q.given = r.given /\ q.value = v
  BY <1>1 DEF Continued
<1>4. /\ Outcome(v) \in Step /\ Outcome(v) # "core"
      /\ Outcome(v) = "resolving" <=> Pending(v)
      /\ Outcome(v) = "fulfilled" <=> v \in JSValue /\ ~IsPromise(v)
  BY <1>2, OutcomeIs DEF Step
<1>5. r.step \in Step /\ r.given \in Given \cup {NoValue}
  BY <1>1
<1>6. q \in [step : Step, given : Given \cup {NoValue}, value : JSValue \cup {Thrown}]
  <2> HIDE DEF q
  <2> QED
    BY <1>2, <1>3, <1>4, <1>5
<1> HIDE DEF q
<1>7. Typed(q)
  BY <1>2, <1>3, <1>4, <1>6 DEF Typed
<1> QED
  BY <1>7 DEF q

\* A call that goes on with a step and a value.
LEMMA StepAndValue ==
  ASSUME NEW r \in [step : Step, given : Given \cup {NoValue}, value : JSValue \cup {Thrown}], NEW s, NEW v
  PROVE  [r EXCEPT !.step = s, !.value = v] = [step |-> s, given |-> r.given, value |-> v]
<1> DEFINE q == [r EXCEPT !.step = s, !.value = v]
<1>1. q \in [step : {s}, given : {r.given}, value : {v}]
  OBVIOUS
<1>2. q.step = s /\ q.given = r.given /\ q.value = v
  OBVIOUS
<1> HIDE DEF q
<1>3. q = [step |-> s, given |-> r.given, value |-> v]
  BY <1>1, <1>2
<1> QED
  BY <1>3 DEF q

\* Every step keeps the types.
LEMMA TypedNext == IInv /\ [Next]_vars => IInv'
<1> SUFFICES ASSUME IInv, [Next]_vars PROVE IInv'
  OBVIOUS
<1>1. /\ memory \subseteq Address
      /\ calls = [c \in Call |-> calls[c]]
      /\ \A c \in Call : Typed(calls[c])
  BY DEF IInv
<1>2. ASSUME NEW c \in Call, NEW r, Typed(r), calls' = [calls EXCEPT ![c] = r], UNCHANGED memory
      PROVE  IInv'
  <2>1. calls' = [x \in Call |-> calls'[x]] /\ \A x \in Call : calls'[x] = IF x = c THEN r ELSE calls[x]
    BY <1>1, <1>2
  <2>2. \A x \in Call : Typed(calls'[x])
    BY <1>1, <1>2, <2>1
  <2> QED
    BY <1>1, <1>2, <2>1, <2>2 DEF IInv
<1>3. ASSUME NEW a \in Address, NEW l, NEW m, Continue(a, l, m), memory' \subseteq Address
      PROVE  IInv'
  <2>1. calls' = [x \in Call |-> calls'[x]]
    BY <1>3 DEF Continue
  <2>2. ASSUME NEW x \in Call PROVE Typed(calls'[x])
    <3>1. PICK v : v = Settle(calls[x].value, a, l, m)
      OBVIOUS
    <3>2. calls'[x] = Continued(calls[x], v)
      BY <1>3, <3>1 DEF Continue, Continued
    <3> QED
      BY <1>1, <3>1, <3>2, TypedContinue
  <2> QED
    BY <1>3, <2>1, <2>2 DEF IInv
<1>4. ASSUME NEW c \in Call, NEW given \in Given \cup {NoValue}, Execute(c, given) PROVE IInv'
  <2> DEFINE r == [step |-> IF Accepted(given) THEN "core" ELSE "rejected", given |-> given, value |-> Thrown]
  <2>1. Typed(r)
    BY DEF Typed, Step
  <2>2. calls' = [calls EXCEPT ![c] = r] /\ UNCHANGED memory
    BY <1>4 DEF Execute
  <2> HIDE DEF r
  <2> QED
    BY <1>2, <2>1, <2>2
<1>5. ASSUME NEW c \in Call, NEW given \in Given \cup {NoValue}, ExecuteSync(c, given) PROVE IInv'
  <2>1. Accepted(given)
    BY <1>5 DEF ExecuteSync
  <2>2. PICK d \in Returned(given) :
          calls' = [calls EXCEPT ![c] =
            [step |-> SyncOutcome(ResultValue(d)), given |-> given, value |-> ResultValue(d)]]
    BY <1>5 DEF ExecuteSync
  <2>3. PICK v : v = ResultValue(d)
    OBVIOUS
  <2>4. v \in JSValue \cup {Thrown}
    BY <2>1, <2>3, ResultType
  <2>5. /\ SyncOutcome(v) \in {"fulfilled", "rejected"}
        /\ SyncOutcome(v) = "fulfilled" => v \in JSValue /\ ~IsPromise(v)
    BY <2>4, OutcomeIs DEF SyncOutcome
  <2> DEFINE r == [step |-> SyncOutcome(v), given |-> given, value |-> v]
  <2>6. Typed(r)
    BY <2>4, <2>5 DEF Typed, Step
  <2>7. calls' = [calls EXCEPT ![c] = r] /\ UNCHANGED memory
    BY <1>5, <2>2, <2>3 DEF ExecuteSync
  <2> HIDE DEF r
  <2> QED
    BY <1>2, <2>6, <2>7
<1>6. ASSUME NEW c \in Call, CoreReturns(c) PROVE IInv'
  <2>1. Typed(calls[c]) /\ calls[c].step = "core"
    BY <1>1, <1>6 DEF CoreReturns
  <2>2. /\ calls[c] \in [step : Step, given : Given \cup {NoValue}, value : JSValue \cup {Thrown}]
        /\ Accepted(calls[c].given) /\ calls[c].given \in Given \cup {NoValue}
    BY <2>1 DEF Typed
  <2>3. PICK d \in Returned(calls[c].given) :
          calls' = [calls EXCEPT ![c].step = Outcome(ResultValue(d)), ![c].value = ResultValue(d)]
    BY <1>6 DEF CoreReturns
  <2>4. PICK v : v = ResultValue(d)
    OBVIOUS
  <2>5. v \in JSValue \cup {Thrown}
    BY <2>2, <2>4, ResultType
  <2> DEFINE r == [step |-> Outcome(v), given |-> calls[c].given, value |-> v]
  <2>6. Typed(r)
    BY <2>2, <2>5, OutcomeIs DEF Typed, Step
  <2>7. calls' = [calls EXCEPT ![c] = r]
    <3>1. calls' = [calls EXCEPT ![c] = [calls[c] EXCEPT !.step = Outcome(v), !.value = v]]
      BY <1>1, <2>3, <2>4
    <3>2. [calls[c] EXCEPT !.step = Outcome(v), !.value = v] = r
      BY <2>2, StepAndValue
    <3> QED
      BY <3>1, <3>2
  <2>8. UNCHANGED memory
    BY <1>6 DEF CoreReturns
  <2> HIDE DEF r
  <2> QED
    BY <1>2, <2>6, <2>7, <2>8
<1>7. ASSUME NEW c \in Call, CoreFails(c) PROVE IInv'
  <2>1. /\ calls[c] \in [step : Step, given : Given \cup {NoValue}, value : JSValue \cup {Thrown}]
    BY <1>1 DEF Typed
  <2> DEFINE r == [step |-> "rejected", given |-> calls[c].given, value |-> calls[c].value]
  <2>2. Typed(r)
    BY <2>1 DEF Typed, Step
  <2>3. calls' = [calls EXCEPT ![c] = r] /\ UNCHANGED memory
    <3>1. calls' = [calls EXCEPT ![c] = [calls[c] EXCEPT !.step = "rejected"]] /\ UNCHANGED memory
      BY <1>1, <1>7 DEF CoreFails
    <3>2. [calls[c] EXCEPT !.step = "rejected"] = r
      BY <2>1
    <3> QED
      BY <3>1, <3>2
  <2> HIDE DEF r
  <2> QED
    BY <1>2, <2>2, <2>3
<1>8. ASSUME NEW c \in Call, Forget(c) PROVE IInv'
  <2>1. Typed(Idle)
    BY DEF Typed, Idle, Step
  <2>2. calls' = [calls EXCEPT ![c] = Idle] /\ UNCHANGED memory
    BY <1>8 DEF Forget
  <2> QED
    BY <1>2, <2>1, <2>2
<1>9. ASSUME NEW a \in Address, Arrives(a) PROVE IInv'
  BY <1>1, <1>3, <1>9 DEF Arrives
<1>10. ASSUME NEW a \in Address, LoadFails(a) PROVE IInv'
  BY <1>1, <1>3, <1>10 DEF LoadFails
<1>11. CASE UNCHANGED vars
  BY <1>1, <1>11 DEF vars, IInv
<1> QED
  BY <1>4, <1>5, <1>6, <1>7, <1>8, <1>9, <1>10, <1>11 DEF Next

\* The state of the calls has its type: a call that is resolving has a promise that is
\* still open, and what it was given and has got are values of the program.
THEOREM Types == Spec => []TypeOK
<1>1. IInv => TypeOK
  BY DEF IInv, TypeOK, Typed
<1> QED
  BY <1>1, TypedInit, TypedNext, PTL DEF Spec

\* The inductive invariant of the types, for the other properties to rest on.
LEMMA Typing == Spec => []IInv
BY TypedInit, TypedNext, PTL DEF Spec

-----------------------------------------------------------------------------
(* Results are awaited.                                                    *)

\* The equation of Awaited.
LEMMA AwaitedIs ==
  \A v \in JSValue : Awaited[v] = (~IsPromise(v) /\ \A x \in Parts(v) : Awaited[x])
<1> DEFINE H == [JSValue -> BOOLEAN]
           b(f, v) == (~IsPromise(v) /\ \A x \in Parts(v) : f[x])
           e(f) == [v \in JSValue |-> b(f, v)]
           g == [f \in H |-> e(f)]
<1>3. ASSUME NEW f \in H PROVE e(f) \in H
  <2>1. ASSUME NEW v \in JSValue PROVE b(f, v) \in BOOLEAN
    OBVIOUS
  <2> HIDE DEF b
  <2> QED
    BY <2>1
<1>4. ASSUME NEW n \in 0 .. Depth - 1, NEW f \in H, NEW h \in H, \A x \in Values[n] : f[x] = h[x],
             NEW v \in Values[n + 1]
      PROVE  b(f, v) = b(h, v)
  <2>1. \A x \in Parts(v) : f[x] = h[x]
    BY <1>4, PartsBelow
  <2>2. (\A x \in Parts(v) : f[x]) <=> (\A x \in Parts(v) : h[x])
    BY <2>1
  <2> QED
    BY <2>2
<1>5. \E f \in H : f = e(f)
  <2>1. g \in [H -> H]
    <3> HIDE DEF e, H
    <3> QED
      BY <1>3
  <2>2. \A n \in 0 .. Depth - 1 : \A f, h \in H :
          (\A x \in Values[n] : f[x] = h[x]) => \A x \in Values[n + 1] : g[f][x] = g[h][x]
    <3>1. \A n \in 0 .. Depth - 1 : \A x \in Values[n + 1] : x \in JSValue
      BY LevelsBuilt, LevelAbove DEF Built
    <3> HIDE DEF b, H
    <3> QED
      BY <1>4, <3>1
  <2>3. H # {} /\ \A f \in H : f = [x \in JSValue |-> f[x]]
    <3>1. [x \in JSValue |-> TRUE] \in H
      OBVIOUS
    <3> QED
      BY <3>1
  <2>4. \A f \in H : g[f] = e(f)
    OBVIOUS
  <2> HIDE DEF g, H, e
  <2>5. Recursive(Depth, Values, JSValue, H, g)
    BY <2>1, <2>2, <2>3 DEF Recursive
  <2>6. \E f \in H : f = g[f]
    BY <2>5, LevelsBuilt, FixedPoint
  <2> QED
    BY <2>4, <2>6
<1>6. Awaited = CHOOSE f : f = e(f)
  BY DEF Awaited
<1>7. Awaited = e(Awaited)
  <2> HIDE DEF e
  <2> QED
    BY <1>5, <1>6
<1> QED
  BY <1>7

\* Promises are in lists only as long as these are promises themselves.
LEMMA AwaitedValues ==
  \A v \in JSValue : ~IsPromise(v) => Awaited[v]
<1> DEFINE G == {n \in 0 .. Depth : \A v \in Values[n] : ~IsPromise(v) => Awaited[v]}
<1>1. 0 \in G
  BY DepthType, ValuesLevel
<1>2. ASSUME NEW n \in 0 .. Depth - 1, n \in G PROVE n + 1 \in G
  <2>1. ASSUME NEW v \in Values[n + 1], ~IsPromise(v) PROVE Awaited[v]
    <3>1. v \in JSValue
      BY ValuesGrow, LevelAbove
    <3>2. \A x \in Parts(v) : Awaited[x]
      BY <1>2, PartsBelow DEF NoPromises
    <3> QED
      BY <2>1, <3>1, <3>2, AwaitedIs
  <2> QED
    BY <2>1, LevelAbove
<1>3. \A n \in 0 .. Depth : n \in G
  <2> HIDE DEF G
  <2> QED
    BY <1>1, <1>2, DepthType, Upwards
<1> QED
  BY <1>3, DepthType DEF JSValue

\* What execute and executeSync hand out contains no promise at any depth, except where a
\* Map or an object was filled with promises, even while further loads come in.
THEOREM Awaiting == Spec => []ResultsAreAwaited
<1>1. IInv => ResultsAreAwaited
  BY AwaitedValues DEF IInv, Typed, ResultsAreAwaited
<1> QED
  BY <1>1, Typing, PTL

-----------------------------------------------------------------------------
(* Results are loaded.                                                     *)

\* Only pointers are waited for.
LEMMA WaitsType == \A v \in JSValue : Waits[v] \subseteq Address
<1> DEFINE G == {n \in 0 .. Depth : \A v \in Values[n] : Waits[v] \subseteq Address}
<1>1. 0 \in G
  BY DepthType, ValuesLevel
<1>2. ASSUME NEW n \in 0 .. Depth - 1, n \in G PROVE n + 1 \in G
  <2>1. ASSUME NEW v \in Values[n + 1] PROVE Waits[v] \subseteq Address
    <3>1. v \in JSValue
      BY ValuesGrow, LevelAbove
    <3>2. Waits[v] = WaitsStep(Waits, v)
      BY <3>1, WaitsIs
    <3>3. \A x \in Pend(v) : Waits[x] \subseteq Address
      BY <1>2, PendBelow
    <3>4. v.is = "load" => Needed[v.of] \subseteq Address
      BY <3>1, KnownPointers, NeededType, ConversionAssumption
    <3> QED
      BY <3>2, <3>3, <3>4 DEF WaitsStep
  <2> QED
    BY <2>1, LevelAbove
<1>3. \A n \in 0 .. Depth : n \in G
  <2> HIDE DEF G
  <2> QED
    BY <1>1, <1>2, DepthType, Upwards
<1> QED
  BY <1>3, DepthType DEF JSValue

\* What is no promise waits for nothing; what is rejected, for anything.
LEMMA WaitsOf ==
  /\ \A v \in JSValue : ~IsPromise(v) => Waits[v] = {} /\ Pend(v) = {}
  /\ \A m : Rejected \in JSValue /\ Waits[Rejected] = Address /\ Sound(m)[Rejected]
<1>1. ASSUME NEW v \in JSValue, ~IsPromise(v) PROVE Waits[v] = {} /\ Pend(v) = {}
  <2>1. Pend(v) = {}
    BY <1>1 DEF Pend, IsPromise
  <2>2. Waits[v] = WaitsStep(Waits, v)
    BY WaitsIs
  <2>3. WaitsStep(Waits, v) = {}
    BY <1>1, <2>1 DEF WaitsStep, IsPromise
  <2> QED
    BY <2>1, <2>2, <2>3
<1>2. Rejected \in JSValue
  <2>1. Depth - 1 \in 0 .. Depth - 1 /\ (Depth - 1) + 1 = Depth
    BY DepthType
  <2> QED
    BY <2>1, ValueIs DEF JSValue
<1>3. Rejected.is = "rejected" /\ Pend(Rejected) = {} /\ Parts(Rejected) = {}
  BY DEF Rejected, Value, Pend, Parts, Children
<1>4. Waits[Rejected] = Address
  <2>1. Waits[Rejected] = WaitsStep(Waits, Rejected)
    BY <1>2, WaitsIs
  <2> QED
    BY <1>3, <2>1 DEF WaitsStep
<1>5. ASSUME NEW m PROVE Sound(m)[Rejected]
  <2>1. Sound(m)[Rejected] = SoundStep(Sound(m), Rejected, m)
    BY <1>2, SoundIs
  <2> QED
    BY <1>3, <2>1 DEF SoundStep
<1> QED
  BY <1>1, <1>2, <1>4, <1>5

\* A list, a Map or an object is sound if its parts are.
LEMMA SoundWhole ==
  ASSUME NEW m, NEW v \in JSValue, v.is \in {"array", "Map", "object"}, \A x \in Parts(v) : Sound(m)[x]
  PROVE  Sound(m)[v]
<1>1. Sound(m)[v] = SoundStep(Sound(m), v, m)
  BY SoundIs
<1>2. Pend(v) = {}
  BY WaitsOf DEF IsPromise
<1> QED
  BY <1>1, <1>2 DEF SoundStep

\* A value without parts is sound.
LEMMA SoundAtom ==
  ASSUME NEW m, NEW v \in JSValue, v.is \in AtomKinds \cup {"load"}
  PROVE  Sound(m)[v]
<1>1. Sound(m)[v] = SoundStep(Sound(m), v, m)
  BY SoundIs
<1>2. Pend(v) = {} /\ Parts(v) = {} /\ v.is \notin {"reference", "pointed", "binding"}
  BY DEF Pend, Parts, Children, AtomKinds
<1> QED
  BY <1>1, <1>2 DEF SoundStep

\* A pointer is sound once all that it needs is in memory.
LEMMA SoundPointed ==
  ASSUME NEW m, NEW a, Pointed(a) \in JSValue, Needed[a] \subseteq m
  PROVE  Sound(m)[Pointed(a)]
<1> DEFINE v == Pointed(a)
<1>1. Sound(m)[v] = SoundStep(Sound(m), v, m)
  BY SoundIs
<1>2. v.is = "pointed" /\ v.of = a /\ Pend(v) = {} /\ Parts(v) = {}
  BY DEF Pointed, Value, Pend, Parts, Children
<1> HIDE DEF v
<1>3. Sound(m)[v]
  BY <1>1, <1>2 DEF SoundStep
<1> QED
  BY <1>3 DEF v

\* A promise for values waits for what they wait for.
LEMMA WaitsPending ==
  ASSUME NEW v \in JSValue, v.is \in {"binding", "all"}
  PROVE  Waits[v] = UNION {Waits[x] : x \in Pend(v)}
<1>1. Waits[v] = WaitsStep(Waits, v)
  BY WaitsIs
<1> QED
  BY <1>1 DEF WaitsStep

\* A pointer is sound whose content is, if that waits for all that the pointer needs.
LEMMA BindSound ==
  ASSUME NEW m, NEW n \in 0 .. Depth - 1, NEW a \in Known(n + 1), NEW v \in Values[n],
         Sound(m)[v], Needed[a] \subseteq m \cup Waits[v]
  PROVE  Bind(a, v) \in JSValue /\ Sound(m)[Bind(a, v)] /\ Waits[v] \subseteq Waits[Bind(a, v)]
<1>1. v \in JSValue /\ v # Thrown
  BY ValuesGrow, ValueKinds, LevelAbove
<1>2. Bind(a, v) \in JSValue
  <2>1. Bind(a, v) \in Values[n + 1]
    BY <1>1, BindType
  <2> QED
    BY <2>1, ValuesGrow, LevelAbove
<1>3. CASE v = Rejected
  <2>1. Bind(a, v) = v
    BY <1>3, Settled DEF Bind
  <2> QED
    BY <1>2, <2>1
<1>4. CASE v # Rejected /\ Pending(v)
  <2> DEFINE w == Value("binding", <<a, v>>)
  <2>1. Bind(a, v) = w
    BY <1>1, <1>4 DEF Bind
  <2>2. w.is = "binding" /\ w.of[1] = a /\ w.of[2] = v /\ Pend(w) = {v} /\ Parts(w) = {}
    BY DEF Value, Pend, Parts, Children
  <2> HIDE DEF w
  <2>3. w \in JSValue
    BY <1>2, <2>1
  <2>4. Waits[w] = Waits[v]
    <3>1. Waits[w] = UNION {Waits[x] : x \in Pend(w)}
      BY <2>2, <2>3, WaitsPending
    <3> QED
      BY <2>2, <3>1
  <2>5. Sound(m)[w] = SoundStep(Sound(m), w, m)
    BY <2>3, SoundIs
  <2>6. Sound(m)[w]
    BY <2>2, <2>5 DEF SoundStep
  <2> QED
    BY <2>1, <2>3, <2>4, <2>6
<1>5. CASE v # Rejected /\ ~Pending(v)
  <2>1. Bind(a, v) = Pointed(a)
    BY <1>1, <1>5 DEF Bind
  <2>2. ~IsPromise(v)
    BY <1>5, Settled, ValueKinds, LevelAbove
  <2>3. Waits[v] = {}
    BY <1>1, <2>2, WaitsOf
  <2>4. Needed[a] \subseteq m
    BY <2>3
  <2>5. Sound(m)[Pointed(a)]
    BY <1>2, <2>1, <2>4, SoundPointed
  <2> QED
    BY <1>2, <2>1, <2>3, <2>5
<1> QED
  BY <1>3, <1>4, <1>5

\* A list of sound values is sound, and waits for what they wait for.
LEMMA AllSound ==
  ASSUME NEW m, NEW n \in 0 .. Depth - 1, NEW vs \in Seq(Values[n]), \A i \in DOMAIN vs : Sound(m)[vs[i]],
         NEW w, w = PromiseAllOrSync(vs)
  PROVE  w \in JSValue /\ Sound(m)[w] /\ \A i \in DOMAIN vs : Waits[vs[i]] \subseteq Waits[w]
<1>1. PICK S : S = Values[n]
  OBVIOUS
<1>2. \A i \in DOMAIN vs : vs[i] \in S /\ vs[i] \in JSValue /\ vs[i] # Thrown
  <2>1. \A x \in S : x \in JSValue /\ x # Thrown
    BY <1>1, ValuesGrow, ValueKinds, LevelAbove
  <2>2. \A i \in DOMAIN vs : vs[i] \in S
    BY <1>1
  <2> QED
    BY <2>1, <2>2
<1>3. w \in JSValue
  <2>1. vs \in Seq(Values[n] \cup {Thrown})
    OBVIOUS
  <2>2. w \in Values[n + 1]
    BY <2>1, AllType
  <2> QED
    BY <2>2, ValuesGrow, LevelAbove
<1>4. CASE \E i \in DOMAIN vs : vs[i] = Rejected
  <2>1. w = Rejected
    BY <1>2, <1>4 DEF PromiseAllOrSync
  <2>2. \A i \in DOMAIN vs : Waits[vs[i]] \subseteq Address
    BY <1>2, WaitsType
  <2> QED
    BY <2>1, <2>2, WaitsOf
<1>5. CASE (\A i \in DOMAIN vs : vs[i] # Rejected) /\ \E i \in DOMAIN vs : Pending(vs[i])
  <2>1. w = Value("all", vs)
    BY <1>2, <1>5 DEF PromiseAllOrSync
  <2>2. w.is = "all" /\ Pend(w) = {vs[i] : i \in DOMAIN vs} /\ Parts(w) = {}
    BY <2>1 DEF Value, Pend, Parts, Children
  <2>3. Waits[w] = UNION {Waits[x] : x \in Pend(w)}
    BY <1>3, <2>2, WaitsPending
  <2>4. \A i \in DOMAIN vs : Waits[vs[i]] \subseteq Waits[w]
    BY <2>2, <2>3
  <2>5. Sound(m)[w] = SoundStep(Sound(m), w, m)
    BY <1>3, SoundIs
  <2>6. \A x \in Pend(w) \cup Parts(w) : Sound(m)[x]
    BY <2>2
  <2> QED
    BY <1>3, <2>2, <2>4, <2>5, <2>6 DEF SoundStep
<1>6. CASE (\A i \in DOMAIN vs : vs[i] # Rejected) /\ \A i \in DOMAIN vs : ~Pending(vs[i])
  <2>1. w = Value("array", vs)
    BY <1>2, <1>6 DEF PromiseAllOrSync
  <2>2. w.is = "array" /\ Parts(w) \subseteq {vs[i] : i \in DOMAIN vs}
    BY <2>1 DEF Value, Parts, Children
  <2>3. \A x \in Parts(w) : Sound(m)[x]
    BY <2>2
  <2>4. Sound(m)[w]
    BY <1>3, <2>2, <2>3, SoundWhole
  <2>5. \A i \in DOMAIN vs : ~IsPromise(vs[i])
    BY <1>1, <1>2, <1>6, Settled, ValueKinds, LevelAbove
  <2>6. \A i \in DOMAIN vs : Waits[vs[i]] = {}
    BY <1>2, <2>5, WaitsOf
  <2> QED
    BY <1>3, <2>4, <2>6
<1> QED
  BY <1>4, <1>5, <1>6

\* The values in S that may be inside a sound Map or object.
SoundIn(m, S) == {x \in Entered(S) : x.is # "promise" => Sound(m)[x]}

\* What is sound may be stored in a sound Map.
LEMMA StoredSound ==
  ASSUME NEW m, NEW n \in 0 .. Depth, NEW v \in Values[n], Sound(m)[v]
  PROVE  Stored(v) \in SoundIn(m, Values[n])
<1>1. Stored(v) \in Entered(Values[n])
  BY StoredType
<1>2. Stored(v).is # "promise" => Stored(v) = v
  BY DEF Stored, Value
<1> QED
  BY <1>1, <1>2 DEF SoundIn

\* Maps and objects are sound that contain only what may be inside them.
LEMMA MapWhole ==
  ASSUME NEW m, NEW n \in 0 .. Depth - 1, NEW S, S = Values[n]
  PROVE  /\ \A es \in Seq(SoundIn(m, S) \X SoundIn(m, S)) :
              Value("Map", es) \in JSValue /\ Sound(m)[Value("Map", es)]
         /\ \A ps \in Seq(Payload \X SoundIn(m, S)) :
              Value("object", ps) \in JSValue /\ Sound(m)[Value("object", ps)]
<1>1. SoundIn(m, S) \subseteq Entered(S)
  BY DEF SoundIn
<1>2. \A x \in SoundIn(m, S) : x.is # "promise" => Sound(m)[x]
  BY DEF SoundIn
<1>3. ASSUME NEW es \in Seq(SoundIn(m, S) \X SoundIn(m, S))
      PROVE  Value("Map", es) \in JSValue /\ Sound(m)[Value("Map", es)]
  <2> DEFINE w == Value("Map", es)
  <2>1. es \in Seq(Entered(S) \X Entered(S))
    BY <1>1, PairsGrow
  <2>2. w \in JSValue
    BY <2>1, ValueIs, ValuesGrow, LevelAbove
  <2>3. w.is = "Map" /\ w.of = es
    BY DEF Value
  <2>4. Children(w) \subseteq SoundIn(m, S)
    <3>1. Children(w) = {es[i][1] : i \in DOMAIN es} \cup {es[i][2] : i \in DOMAIN es}
      BY <2>3 DEF Children
    <3>2. \A i \in DOMAIN es : es[i][1] \in SoundIn(m, S) /\ es[i][2] \in SoundIn(m, S)
      OBVIOUS
    <3> QED
      BY <3>1, <3>2
  <2>5. \A x \in Parts(w) : Sound(m)[x]
    BY <1>2, <2>4 DEF Parts
  <2> HIDE DEF w
  <2>6. Sound(m)[w]
    BY <2>2, <2>3, <2>5, SoundWhole
  <2> QED
    BY <2>2, <2>6 DEF w
<1>4. ASSUME NEW ps \in Seq(Payload \X SoundIn(m, S))
      PROVE  Value("object", ps) \in JSValue /\ Sound(m)[Value("object", ps)]
  <2> DEFINE w == Value("object", ps)
  <2>1. ps \in Seq(Payload \X Entered(S))
    BY <1>1, PairsGrow
  <2>2. w \in JSValue
    BY <2>1, ValueIs, ValuesGrow, LevelAbove
  <2>3. w.is = "object" /\ w.of = ps
    BY DEF Value
  <2>4. Children(w) \subseteq SoundIn(m, S)
    <3>1. Children(w) = {ps[i][2] : i \in DOMAIN ps}
      BY <2>3 DEF Children
    <3>2. \A i \in DOMAIN ps : ps[i][2] \in SoundIn(m, S)
      OBVIOUS
    <3> QED
      BY <3>1, <3>2
  <2>5. \A x \in Parts(w) : Sound(m)[x]
    BY <1>2, <2>4 DEF Parts
  <2> HIDE DEF w
  <2>6. Sound(m)[w]
    BY <2>2, <2>3, <2>5, SoundWhole
  <2> QED
    BY <2>2, <2>6 DEF w
<1> QED
  BY <1>3, <1>4

\* Those that are made from sound values are.
LEMMA MapSound ==
  ASSUME NEW m, NEW n \in 0 .. Depth - 1, NEW T, T = {x \in Values[n] \cup {Thrown} : x # Thrown => Sound(m)[x]}
  PROVE  /\ \A es \in Seq(T \X T) : MapOf(es) # Thrown => Sound(m)[MapOf(es)]
         /\ \A ps \in Seq(Payload \X T) : ObjectOf(ps) # Thrown => Sound(m)[ObjectOf(ps)]
<1>1. PICK S, E : S = Values[n] /\ E = SoundIn(m, S)
  OBVIOUS
<1>2. \A x \in T : x # Thrown => Stored(x) \in E
  BY <1>1, StoredSound, LevelAbove
<1>3. ASSUME NEW es \in Seq(T \X T), MapOf(es) # Thrown PROVE Sound(m)[MapOf(es)]
  <2> DEFINE st == [i \in DOMAIN es |-> <<Stored(es[i][1]), Stored(es[i][2])>>]
  <2>1. ~ \E i \in DOMAIN es : Thrown \in {es[i][1], es[i][2]}
    BY <1>3 DEF MapOf
  <2>2. MapOf(es) = Value("Map", SetEntries(st))
    BY <2>1 DEF MapOf
  <2>3. \A i \in DOMAIN es : es[i][1] \in T /\ es[i][2] \in T /\ es[i][1] # Thrown /\ es[i][2] # Thrown
    <3>1. \A i \in DOMAIN es : es[i][1] \in T /\ es[i][2] \in T
      OBVIOUS
    <3> QED
      BY <2>1, <3>1
  <2>4. \A i \in DOMAIN es : Stored(es[i][1]) \in E /\ Stored(es[i][2]) \in E
    BY <1>2, <2>3
  <2>5. DOMAIN es = 1 .. Len(es) /\ Len(es) \in Nat
    OBVIOUS
  <2>6. st \in Seq(E \X E)
    BY <2>4, <2>5
  <2> HIDE DEF st
  <2>7. SetEntries(st) \in Seq(E \X E)
    BY <2>6, SetEntriesIs
  <2> QED
    BY <1>1, <2>2, <2>7, MapWhole
<1>4. ASSUME NEW ps \in Seq(Payload \X T), ObjectOf(ps) # Thrown PROVE Sound(m)[ObjectOf(ps)]
  <2> DEFINE st == [i \in DOMAIN ps |-> <<ps[i][1], Stored(ps[i][2])>>]
  <2>1. ~ \E i \in DOMAIN ps : ps[i][2] = Thrown
    BY <1>4 DEF ObjectOf
  <2>2. ObjectOf(ps) = Value("object", st)
    BY <2>1 DEF ObjectOf
  <2>3. \A i \in DOMAIN ps : ps[i][1] \in Payload /\ ps[i][2] \in T /\ ps[i][2] # Thrown
    <3>1. \A i \in DOMAIN ps : ps[i][1] \in Payload /\ ps[i][2] \in T
      OBVIOUS
    <3> QED
      BY <2>1, <3>1
  <2>4. \A i \in DOMAIN ps : Stored(ps[i][2]) \in E
    BY <1>2, <2>3
  <2>5. DOMAIN ps = 1 .. Len(ps) /\ Len(ps) \in Nat
    OBVIOUS
  <2>6. st \in Seq(Payload \X E)
    BY <2>3, <2>4, <2>5
  <2> HIDE DEF st
  <2> QED
    BY <1>1, <2>2, <2>6, MapWhole
<1> QED
  BY <1>3, <1>4

\* A sequence whose elements are in V is a sequence over V.
LEMMA Narrower ==
  ASSUME NEW T, NEW V, NEW s \in Seq(T), \A i \in DOMAIN s : s[i] \in V
  PROVE  s \in Seq(V)
OBVIOUS

\* What container d is resolved to, w, is sound, and waits for all that d needs.
Ready(m, d, w) == w # Thrown => Sound(m)[w] /\ Needed[d] \subseteq m \cup Waits[w]

\* Pointers are ready: the address itself is waited for until it is in memory, then its content is.
LEMMA PointerReady ==
  ASSUME NEW m, NEW n \in 0 .. Depth - 1, NEW a \in Known(n + 1), NEW f,
         f[Content[a]] \in Values[n] \cup {Thrown}, Ready(m, Content[a], f[Content[a]]),
         NEW w, w = ResolvePointerAddress(f, a, m)
  PROVE  Ready(m, a, w)
<1>1. a \in Address /\ a \in Containers[n + 1] /\ Content[a] \in Containers[n]
  BY ContainerParts DEF Known
<1>2. a \in DIFValueContainer
  BY <1>1, ContainersGrow, LevelAbove
<1>3. Needed[a] = {a} \cup Needed[Content[a]]
  BY <1>1, <1>2, NeededIs DEF NeededStep
<1>4. CASE a \notin m
  <2>1. w = Value("load", a)
    BY <1>4 DEF ResolvePointerAddress
  <2>2. w \in JSValue
    <3>1. w \in Values[n + 1]
      BY <2>1, ValueIs
    <3> QED
      BY <3>1, ValuesGrow, LevelAbove
  <2>3. w.is = "load" /\ w.of = a
    BY <2>1 DEF Value
  <2>4. Waits[w] = WaitsStep(Waits, w)
    BY <2>2, WaitsIs
  <2>5. Needed[a] \subseteq Waits[w]
    BY <2>3, <2>4 DEF WaitsStep
  <2> QED
    BY <2>2, <2>3, <2>5, SoundAtom DEF Ready
<1>5. CASE a \in m /\ f[Content[a]] # Thrown
  <2>1. PICK v : v = f[Content[a]]
    OBVIOUS
  <2>2. v \in Values[n] /\ Sound(m)[v] /\ Needed[Content[a]] \subseteq m \cup Waits[v]
    BY <1>5, <2>1 DEF Ready
  <2>3. Needed[a] \subseteq m \cup Waits[v]
    BY <1>3, <1>5, <2>2
  <2>4. w = Bind(a, v)
    BY <1>5, <2>1 DEF ResolvePointerAddress
  <2>5. Sound(m)[w] /\ Waits[v] \subseteq Waits[w]
    BY <2>2, <2>3, <2>4, BindSound
  <2> QED
    BY <2>3, <2>5 DEF Ready
<1>6. CASE a \in m /\ f[Content[a]] = Thrown
  BY <1>6, Settled DEF ResolvePointerAddress, Bind, Ready
<1> QED
  BY <1>4, <1>5, <1>6

\* If what is inside a container is resolved so, so is the container.
LEMMA ResolveStepSound ==
  ASSUME NEW n \in 0 .. Depth - 1, NEW d \in Containers[n + 1], NEW m, NEW f,
         \A x \in Containers[n] : f[x] \in Values[n] \cup {Thrown} /\ Ready(m, x, f[x])
  PROVE  Ready(m, d, ResolveStep(f, d, m))
<1>1. PICK S, V : S = Containers[n] /\ V = Values[n]
  OBVIOUS
<1>2. CASE d \in Address
  <2>1. d \in Known(n + 1) /\ Content[d] \in Containers[n]
    BY <1>2, ContainerParts DEF Known
  <2>2. ResolveStep(f, d, m) = ResolvePointerAddress(f, d, m)
    BY <1>2 DEF ResolveStep
  <2> QED
    BY <2>1, <2>2, PointerReady
<1>3. CASE d \notin Address
  <2>1. PICK w : w = ResolveDIFValue(f, d) /\ w = ResolveStep(f, d, m)
    BY <1>3 DEF ResolveStep
  <2>2. d \in DIFValues(S) /\ d \in DIFValueContainer
    BY <1>1, <1>3, ContainerParts, ContainersGrow, LevelAbove
  <2>3. PICK T : T = {x \in Values[n] \cup {Thrown} : x # Thrown => Sound(m)[x]}
    OBVIOUS
  <2>4. \A x \in S : f[x] \in T
    BY <1>1, <2>3 DEF Ready
  <2>5. InferredType(d) # "list" => Needed[d] = {}
    <3>1. InferredType(d) # "list" => Elements(d) = {}
      BY DEF Elements
    <3>2. Needed[d] = UNION {Needed[x] : x \in Elements(d)}
      BY <1>3, <2>2, NeededIs DEF NeededStep
    <3> QED
      BY <3>1, <3>2
  <2>6. w \in JSValue \cup {Thrown}
    <3>1. w \in Values[n + 1] \cup {Thrown}
      BY <2>1, ResolveStepType
    <3> QED
      BY <3>1, ValuesGrow, LevelAbove
  <2>7. \/ /\ InferredType(d) # "list" /\ AtomKind(d) \in AtomKinds /\ w = Value(AtomKind(d), d.value.of)
        \/ w = Thrown
        \/ InferredType(d) = "list" /\ d.value.of \in Seq(S) /\ w = PromiseAllOrSync(EachElement(f, d.value.of))
        \/ InferredType(d) = "map" /\ PairsIn(d.value.of) \in Seq(S \X S)
            /\ w = MapOf(EachEntry(f, PairsIn(d.value.of)))
        \/ InferredType(d) = "map" /\ d.value.of \in Seq(Payload \X S) /\ w = MapOf(TextEntries(f, d.value.of))
        \/ InferredType(d) = "object" /\ d.value.of \in Seq(Payload \X S)
            /\ w = ObjectOf(EachProperty(f, d.value.of))
    BY <1>1, <2>1, <2>2, ResolveCases
  <2>8. CASE InferredType(d) # "list" /\ AtomKind(d) \in AtomKinds /\ w = Value(AtomKind(d), d.value.of)
    <3>1. w.is = AtomKind(d)
      BY <2>8 DEF Value
    <3>2. w # Thrown => w \in JSValue /\ w.is \in AtomKinds
      BY <2>6, <2>8, <3>1
    <3> QED
      BY <2>1, <2>5, <2>8, <3>2, SoundAtom DEF Ready
  <2>9. CASE w = Thrown
    BY <2>1, <2>9 DEF Ready
  <2>10. CASE InferredType(d) = "list" /\ d.value.of \in Seq(S)
               /\ w = PromiseAllOrSync(EachElement(f, d.value.of))
    <3>1. PICK vs : vs = EachElement(f, d.value.of)
      OBVIOUS
    <3>2. DOMAIN vs = DOMAIN d.value.of /\ \A i \in DOMAIN vs : vs[i] = f[d.value.of[i]] /\ d.value.of[i] \in S
      BY <2>10, <3>1 DEF EachElement
    <3>3. ASSUME w # Thrown PROVE Sound(m)[w] /\ Needed[d] \subseteq m \cup Waits[w]
      <4>1. \A i \in DOMAIN vs : vs[i] # Thrown
        BY <2>10, <3>1, <3>3 DEF PromiseAllOrSync
      <4>2. \A i \in DOMAIN vs : vs[i] \in V /\ Sound(m)[vs[i]]
             /\ Needed[d.value.of[i]] \subseteq m \cup Waits[vs[i]]
        BY <1>1, <3>2, <4>1 DEF Ready
      <4>3. vs \in Seq(T)
        BY <2>4, <2>10, <3>1, EachIn
      <4>5. vs \in Seq(Values[n])
        BY <1>1, <4>2, <4>3, Narrower
      <4>6. Sound(m)[w] /\ \A i \in DOMAIN vs : Waits[vs[i]] \subseteq Waits[w]
        BY <2>10, <3>1, <4>2, <4>5, AllSound
      <4>7. Needed[d] = UNION {Needed[x] : x \in Elements(d)}
        BY <1>3, <2>2, NeededIs DEF NeededStep
      <4>8. Elements(d) = {d.value.of[i] : i \in DOMAIN vs}
        BY <1>3, <2>10, <3>2 DEF Elements
      <4>9. \A i \in DOMAIN vs : Needed[d.value.of[i]] \subseteq m \cup Waits[w]
        BY <4>2, <4>6
      <4> QED
        BY <4>6, <4>7, <4>8, <4>9
    <3> QED
      BY <2>1, <3>3 DEF Ready
  <2>11. CASE InferredType(d) = "map" /\ PairsIn(d.value.of) \in Seq(S \X S)
               /\ w = MapOf(EachEntry(f, PairsIn(d.value.of)))
    <3>1. EachEntry(f, PairsIn(d.value.of)) \in Seq(T \X T)
      BY <2>4, <2>11, EachIn
    <3>3. w # Thrown => Sound(m)[w]
      BY <2>3, <2>11, <3>1, MapSound
    <3> QED
      BY <2>1, <2>5, <2>11, <3>3 DEF Ready
  <2>12. CASE InferredType(d) = "map" /\ d.value.of \in Seq(Payload \X S)
               /\ w = MapOf(TextEntries(f, d.value.of))
    <3>1. ASSUME S # {}, NEW t \in Payload PROVE Value("text", t) \in T
      <4>1. n # 0
        BY <1>1, <3>1, ContainersLevel
      <4>2. n - 1 \in 0 .. Depth - 1 /\ (n - 1) + 1 = n
        BY <4>1, DepthType
      <4>3. Value("text", t) \in Values[(n - 1) + 1] /\ Value("text", t).is = "text"
        BY <4>2, ValueIs DEF AtomKinds, Value
      <4>4. Value("text", t) \in JSValue
        BY <4>2, <4>3, ValuesGrow, LevelAbove
      <4>5. Sound(m)[Value("text", t)]
        BY <4>3, <4>4, SoundAtom DEF AtomKinds
      <4> QED
        BY <2>3, <4>2, <4>3, <4>5
    <3>2. TextEntries(f, d.value.of) \in Seq(T \X T)
      BY <2>4, <2>12, <3>1, TextEntriesIn
    <3>3. w # Thrown => Sound(m)[w]
      BY <2>3, <2>12, <3>2, MapSound
    <3> QED
      BY <2>1, <2>5, <2>12, <3>3 DEF Ready
  <2>13. CASE InferredType(d) = "object" /\ d.value.of \in Seq(Payload \X S)
               /\ w = ObjectOf(EachProperty(f, d.value.of))
    <3>1. EachProperty(f, d.value.of) \in Seq(Payload \X T)
      BY <2>4, <2>13, EachIn
    <3>3. w # Thrown => Sound(m)[w]
      BY <2>3, <2>13, <3>1, MapSound
    <3> QED
      BY <2>1, <2>5, <2>13, <3>3 DEF Ready
  <2> QED
    BY <2>7, <2>8, <2>9, <2>10, <2>11, <2>12, <2>13
<1> QED
  BY <1>2, <1>3

\* What a container is resolved to refers only to what is in memory, or is waited for.
LEMMA ResolveSound ==
  ASSUME NEW m
  PROVE  \A d \in DIFValueContainer : Ready(m, d, Resolver(m)[d])
<1> DEFINE G == {n \in 0 .. Depth : \A d \in Containers[n] : Ready(m, d, Resolver(m)[d])}
<1>1. 0 \in G
  BY DepthType, ContainersLevel
<1>2. ASSUME NEW n \in 0 .. Depth - 1, n \in G PROVE n + 1 \in G
  <2>1. \A d \in Containers[n + 1] : d \in DIFValueContainer
    BY ContainersGrow, LevelAbove
  <2>2. \A x \in Containers[n] : Resolver(m)[x] \in Values[n] \cup {Thrown}
    BY ResolveType, LevelAbove
  <2>3. \A d \in Containers[n + 1] : Ready(m, d, ResolveStep(Resolver(m), d, m))
    BY <1>2, <2>2, ResolveStepSound
  <2>4. \A d \in Containers[n + 1] : Ready(m, d, Resolver(m)[d])
    BY <2>1, <2>3, ResolverIs
  <2> QED
    BY <2>4, LevelAbove
<1>3. \A n \in 0 .. Depth : n \in G
  <2> HIDE DEF G
  <2> QED
    BY <1>1, <1>2, DepthType, Upwards
<1> QED
  BY <1>3, DepthType DEF DIFValueContainer

\* Settling v to w, with k in memory, keeps it sound and loses nothing that was waited for.
Carries(k, v, w) == Sound(k)[w] /\ Waits[v] \subseteq k \cup Waits[w]

\* The promise of a load.
LEMMA ArrivedSound ==
  ASSUME NEW k, NEW n \in 0 .. Depth - 1, NEW a \in Known(n + 1), NEW l, l => a \in k,
         NEW w, w = Arrived(a, l, k)
  PROVE  Sound(k)[w] /\ Needed[a] \subseteq k \cup Waits[w]
<1>1. a \in Address /\ Content[a] \in Containers[n] /\ Content[a] \in DIFValueContainer
       /\ a \in DIFValueContainer
  <2>1. a \in Address /\ a \in Containers[n + 1] /\ Content[a] \in Containers[n]
    BY ContainerParts DEF Known
  <2> QED
    BY <2>1, ContainersGrow, LevelAbove
<1>2. Needed[a] = {a} \cup Needed[Content[a]] /\ Needed[a] \subseteq Address
  BY <1>1, NeededIs, NeededType DEF NeededStep
<1>3. PICK u : u = ResolveDIFValueContainer(Content[a], k)
  OBVIOUS
<1>4. u = Resolver(k)[Content[a]] /\ u \in Values[n] \cup {Thrown}
  <2>1. u = Resolver(k)[Content[a]]
    BY <1>1, <1>3, ResolveType
  <2> QED
    BY <1>1, <2>1, ResolveType, LevelAbove
<1>5. CASE ~l \/ u = Thrown
  <2>1. w = Rejected
    BY <1>3, <1>5, Settled DEF Arrived, Caught, Bind
  <2> QED
    BY <1>2, <2>1, WaitsOf
<1>6. CASE l /\ u # Thrown
  <2>1. Sound(k)[u] /\ Needed[Content[a]] \subseteq k \cup Waits[u] /\ u \in Values[n]
    BY <1>1, <1>4, <1>6, ResolveSound DEF Ready
  <2>2. Needed[a] \subseteq k \cup Waits[u]
    BY <1>2, <1>6, <2>1
  <2>3. Bind(a, u) \in JSValue /\ Sound(k)[Bind(a, u)] /\ Waits[u] \subseteq Waits[Bind(a, u)]
    BY <2>1, <2>2, BindSound
  <2>4. Bind(a, u) # Thrown
    BY <2>3, ValueKinds, DepthType DEF JSValue
  <2>5. w = Bind(a, u)
    BY <1>3, <1>6, <2>4 DEF Arrived, Caught
  <2> QED
    BY <2>2, <2>3, <2>5
<1> QED
  BY <1>5, <1>6

\* What is inside a sound Map or object stays so.
LEMMA EnteredSound ==
  ASSUME NEW m, NEW k, NEW n \in 0 .. Depth, NEW S, S = Values[n], NEW f, Keeps(f, S),
         \A x \in S : Sound(m)[x] => Sound(k)[f[x]],
         NEW x \in SoundIn(m, S)
  PROVE  SettleEntered(f, x) \in SoundIn(k, S)
<1>1. x \in Entered(S) /\ (x.is # "promise" => Sound(m)[x])
  BY DEF SoundIn
<1>2. SettleEntered(f, x) \in Entered(S)
  BY <1>1, EnteredIn
<1>3. CASE x.is = "promise"
  <2>1. SettleEntered(f, x).is = "promise"
    BY <1>3 DEF SettleEntered, Value
  <2> QED
    BY <1>2, <2>1 DEF SoundIn
<1>4. CASE x.is # "promise"
  <2>1. x \in S
    BY <1>1, <1>4, EnteredCases
  <2>2. Sound(k)[f[x]] /\ SettleEntered(f, x) = f[x]
    BY <1>1, <1>4, <2>1 DEF SettleEntered
  <2> QED
    BY <1>2, <2>2 DEF SoundIn
<1> QED
  BY <1>3, <1>4

\* The entries of a sound Map, and the properties of a sound object, are sound.
LEMMA SoundEntries ==
  ASSUME NEW m, NEW v \in JSValue, Sound(m)[v], NEW S
  PROVE  /\ v.is = "Map" /\ v.of \in Seq(Entered(S) \X Entered(S)) => v.of \in Seq(SoundIn(m, S) \X SoundIn(m, S))
         /\ v.is = "object" /\ v.of \in Seq(Payload \X Entered(S)) => v.of \in Seq(Payload \X SoundIn(m, S))
<1>1. \A x \in Parts(v) : Sound(m)[x]
  BY SoundIs DEF SoundStep
<1>2. \A x \in Entered(S) : x \in Children(v) => x \in SoundIn(m, S)
  BY <1>1 DEF Parts, SoundIn
<1>3. ASSUME v.is = "Map", v.of \in Seq(Entered(S) \X Entered(S)) PROVE v.of \in Seq(SoundIn(m, S) \X SoundIn(m, S))
  <2>1. \A i \in DOMAIN v.of : v.of[i][1] \in Children(v) /\ v.of[i][2] \in Children(v)
    BY <1>3 DEF Children
  <2>2. \A i \in DOMAIN v.of : /\ v.of[i] = <<v.of[i][1], v.of[i][2]>>
                               /\ v.of[i][1] \in Entered(S) /\ v.of[i][2] \in Entered(S)
    BY <1>3
  <2>3. ASSUME NEW i \in DOMAIN v.of PROVE v.of[i] \in SoundIn(m, S) \X SoundIn(m, S)
    <3>1. v.of[i][1] \in SoundIn(m, S) /\ v.of[i][2] \in SoundIn(m, S)
      BY <1>2, <2>1, <2>2
    <3> QED
      BY <2>2, <3>1
  <2> QED
    BY <1>3, <2>3, Narrower
<1>4. ASSUME v.is = "object", v.of \in Seq(Payload \X Entered(S)) PROVE v.of \in Seq(Payload \X SoundIn(m, S))
  <2>1. \A i \in DOMAIN v.of : v.of[i][2] \in Children(v)
    BY <1>4 DEF Children
  <2>2. \A i \in DOMAIN v.of : /\ v.of[i] = <<v.of[i][1], v.of[i][2]>>
                               /\ v.of[i][1] \in Payload /\ v.of[i][2] \in Entered(S)
    BY <1>4
  <2>3. \A i \in DOMAIN v.of : v.of[i] \in Payload \X SoundIn(m, S)
    BY <1>2, <2>1, <2>2
  <2> QED
    BY <1>4, <2>3, Narrower
<1> QED
  BY <1>3, <1>4

\* If what is inside a value is settled so, so is the value.
LEMMA SettleStepSound ==
  ASSUME NEW m, NEW k, m \subseteq k, NEW a, NEW l, l => a \in k,
         NEW n \in 0 .. Depth - 1, NEW v \in Values[n + 1], Sound(m)[v],
         NEW f, Keeps(f, Values[n]), \A x \in Values[n] : Sound(m)[x] => Carries(k, x, f[x])
  PROVE  Carries(k, v, SettleWith(f, v, a, l, k))
<1>1. PICK S, w : S = Values[n] /\ w = SettleWith(f, v, a, l, k)
  OBVIOUS
<1>2. v \in JSValue /\ w \in JSValue
  <2>1. w \in Values[n + 1]
    BY <1>1, SettleStepType
  <2> QED
    BY <2>1, ValuesGrow, LevelAbove
<1>3. SoundStep(Sound(m), v, m) /\ Waits[v] = WaitsStep(Waits, v)
  BY <1>2, SoundIs, WaitsIs
<1>4. \A x \in Pend(v) \cup Parts(v) : Sound(m)[x]
  BY <1>3 DEF SoundStep
<1>5. \A x \in S : Sound(m)[x] => f[x] \in S /\ Sound(k)[f[x]] /\ Waits[x] \subseteq k \cup Waits[f[x]]
  BY <1>1 DEF Keeps, Carries
<1>6. \A x \in S : x.is # "promise"
  BY <1>1, ValueKinds, LevelAbove
<1>7. CASE v.is = "load" /\ v.of = a /\ a \in Known(n + 1) /\ w = Arrived(a, l, k)
  <2>1. Waits[v] = Needed[a]
    <3>1. Pend(v) = {}
      BY <1>7 DEF Pend
    <3> QED
      BY <1>3, <1>7, <3>1 DEF WaitsStep
  <2> QED
    BY <1>1, <1>7, <2>1, ArrivedSound DEF Carries
<1>8. CASE v.is = "binding" /\ v.of \in Known(n + 1) \X (S \ NoPromises(S)) /\ w = Bind(v.of[1], f[v.of[2]])
  <2>1. PICK b, x : b = v.of[1] /\ x = v.of[2] /\ b \in Known(n + 1) /\ x \in S
    BY <1>8
  <2>2. Pend(v) = {x} /\ Needed[b] \subseteq m \cup Waits[x]
    BY <1>3, <1>8, <2>1 DEF Pend, SoundStep
  <2>3. f[x] \in S /\ Sound(k)[f[x]] /\ Waits[x] \subseteq k \cup Waits[f[x]]
    BY <1>4, <1>5, <2>1, <2>2
  <2>4. Waits[v] = Waits[x]
    <3>1. Waits[v] = UNION {Waits[y] : y \in Pend(v)}
      BY <1>2, <1>8, WaitsPending
    <3> QED
      BY <2>2, <3>1
  <2>5. Needed[b] \subseteq k \cup Waits[f[x]]
    BY <2>2, <2>3
  <2>6. Sound(k)[w] /\ Waits[f[x]] \subseteq Waits[w]
    <3>1. w = Bind(b, f[x]) /\ f[x] \in Values[n]
      BY <1>1, <1>8, <2>1, <2>3
    <3>2. Sound(k)[Bind(b, f[x])] /\ Waits[f[x]] \subseteq Waits[Bind(b, f[x])]
      BY <2>1, <2>3, <2>5, <3>1, BindSound
    <3> QED
      BY <3>1, <3>2
  <2>7. Waits[v] \subseteq k \cup Waits[w]
    BY <2>3, <2>4, <2>6
  <2> QED
    BY <1>1, <2>6, <2>7 DEF Carries
<1>9. CASE v.is = "all" /\ v.of \in Seq(S) /\ w = PromiseAllOrSync(EachElement(f, v.of))
  <2>1. PICK vs : vs = EachElement(f, v.of)
    OBVIOUS
  <2>2. Pend(v) = {v.of[i] : i \in DOMAIN v.of} /\ \A i \in DOMAIN v.of : v.of[i] \in S
    BY <1>9 DEF Pend
  <2>3. DOMAIN vs = DOMAIN v.of /\ \A i \in DOMAIN vs : vs[i] = f[v.of[i]]
    BY <2>1 DEF EachElement
  <2>4. \A i \in DOMAIN vs : vs[i] \in S /\ Sound(k)[vs[i]] /\ Waits[v.of[i]] \subseteq k \cup Waits[vs[i]]
    BY <1>4, <1>5, <2>2, <2>3
  <2>5. vs \in Seq(S)
    <3>1. \A x \in S : f[x] \in S
      BY <1>1 DEF Keeps
    <3> QED
      BY <1>9, <2>1, <3>1, EachIn
  <2>6. Sound(k)[w] /\ \A i \in DOMAIN vs : Waits[vs[i]] \subseteq Waits[w]
    BY <1>1, <1>9, <2>1, <2>4, <2>5, AllSound
  <2>7. Waits[v] = UNION {Waits[x] : x \in Pend(v)}
    BY <1>2, <1>9, WaitsPending
  <2>8. \A i \in DOMAIN v.of : Waits[v.of[i]] \subseteq k \cup Waits[w]
    BY <2>3, <2>4, <2>6
  <2>9. Waits[v] \subseteq k \cup Waits[w]
    BY <2>2, <2>7, <2>8
  <2> QED
    BY <1>1, <2>6, <2>9 DEF Carries
<1>10. ASSUME v.is \in {"array", "Map", "object"} PROVE Waits[v] = {}
  BY <1>2, <1>10, WaitsOf DEF IsPromise
<1>11. CASE v.is = "array" /\ v.of \in Seq(NoPromises(S)) /\ w = Value("array", EachElement(f, v.of))
  <2>1. \A i \in DOMAIN v.of : v.of[i] \in S
    BY <1>11 DEF NoPromises
  <2>2. \A i \in DOMAIN v.of : v.of[i] \in Parts(v)
    BY <1>6, <1>11, <2>1 DEF Parts, Children
  <2>3. \A i \in DOMAIN v.of : Sound(k)[f[v.of[i]]]
    BY <1>4, <1>5, <2>1, <2>2
  <2>4. w.is = "array" /\ Parts(w) \subseteq {f[v.of[i]] : i \in DOMAIN v.of}
    BY <1>11 DEF Value, Parts, Children, EachElement
  <2>5. Sound(k)[w]
    <3>1. \A x \in Parts(w) : Sound(k)[x]
      BY <2>3, <2>4
    <3> QED
      BY <1>2, <2>4, <3>1, SoundWhole
  <2> QED
    BY <1>1, <1>10, <1>11, <2>5 DEF Carries
<1>12. \A x \in SoundIn(m, S) : SettleEntered(f, x) \in SoundIn(k, S)
  BY <1>1, <1>5, EnteredSound, LevelAbove
<1>13. CASE v.is = "Map" /\ v.of \in Seq(Entered(S) \X Entered(S)) /\ w = Value("Map", EnteredEntries(f, v.of))
  <2>1. v.of \in Seq(SoundIn(m, S) \X SoundIn(m, S))
    BY <1>2, <1>13, SoundEntries
  <2>2. EnteredEntries(f, v.of) \in Seq(SoundIn(k, S) \X SoundIn(k, S))
    <3>1. \A i \in DOMAIN v.of : v.of[i][1] \in SoundIn(m, S) /\ v.of[i][2] \in SoundIn(m, S)
      BY <2>1
    <3>2. DOMAIN v.of = 1 .. Len(v.of) /\ Len(v.of) \in Nat
      BY <2>1
    <3>3. \A i \in DOMAIN v.of : SettleEntered(f, v.of[i][1]) \in SoundIn(k, S)
           /\ SettleEntered(f, v.of[i][2]) \in SoundIn(k, S)
      BY <1>12, <3>1
    <3> QED
      BY <3>2, <3>3 DEF EnteredEntries
  <2>3. Sound(k)[w]
    BY <1>1, <1>13, <2>2, MapWhole
  <2> QED
    BY <1>1, <1>10, <1>13, <2>3 DEF Carries
<1>14. CASE v.is = "object" /\ v.of \in Seq(Payload \X Entered(S))
             /\ w = Value("object", EnteredProperties(f, v.of))
  <2>1. v.of \in Seq(Payload \X SoundIn(m, S))
    BY <1>2, <1>14, SoundEntries
  <2>2. EnteredProperties(f, v.of) \in Seq(Payload \X SoundIn(k, S))
    <3>1. \A i \in DOMAIN v.of : v.of[i][1] \in Payload /\ v.of[i][2] \in SoundIn(m, S)
      BY <2>1
    <3>2. DOMAIN v.of = 1 .. Len(v.of) /\ Len(v.of) \in Nat
      BY <2>1
    <3>3. \A i \in DOMAIN v.of : SettleEntered(f, v.of[i][2]) \in SoundIn(k, S)
      BY <1>12, <3>1
    <3> QED
      BY <3>1, <3>2, <3>3 DEF EnteredProperties
  <2>3. Sound(k)[w]
    BY <1>1, <1>14, <2>2, MapWhole
  <2> QED
    BY <1>1, <1>10, <1>14, <2>3 DEF Carries
<1>15. CASE v.is \in AtomKinds \cup {"reference", "pointed", "load", "rejected"} /\ w = v
  <2>1. CASE v.is \in AtomKinds \cup {"load"}
    BY <1>1, <1>2, <1>15, <2>1, SoundAtom DEF Carries
  <2>2. CASE v.is = "rejected"
    <3>1. v = Rejected
      BY <2>2, ValueKinds, LevelAbove
    <3> QED
      BY <1>1, <1>15, <3>1, WaitsOf DEF Carries
  <2>3. CASE v.is \in {"reference", "pointed"}
    <3>1. Needed[v.of] \subseteq k /\ Pend(v) = {} /\ Parts(v) = {}
      BY <1>3, <2>3 DEF SoundStep, Pend, Parts, Children
    <3>2. Sound(k)[v] = SoundStep(Sound(k), v, k)
      BY <1>2, SoundIs
    <3>3. Sound(k)[v]
      BY <2>3, <3>1, <3>2 DEF SoundStep
    <3> QED
      BY <1>1, <1>15, <3>3 DEF Carries
  <2> QED
    BY <1>15, <2>1, <2>2, <2>3
<1>16. SettledByKind(n, S, v, a, l, k, f)
  BY <1>1, SettleCases
<1> QED
  BY <1>1, <1>7, <1>8, <1>9, <1>11, <1>13, <1>14, <1>15, <1>16 DEF SettledByKind

\* Settling keeps values sound as the memory grows.
LEMMA SettleSound ==
  ASSUME NEW m, NEW k, m \subseteq k, NEW a, NEW l, l => a \in k
  PROVE  \A v \in JSValue : Sound(m)[v] => Sound(k)[Settle(v, a, l, k)]
<1> DEFINE F == Settler(a, l, k)
           G == {n \in 0 .. Depth : \A v \in Values[n] : Sound(m)[v] => Carries(k, v, F[v])}
<1>1. 0 \in G
  BY DepthType, ValuesLevel
<1>2. ASSUME NEW n \in 0 .. Depth - 1, n \in G PROVE n + 1 \in G
  <2>1. Keeps(F, Values[n])
    BY SettleType, LevelAbove
  <2>2. \A v \in Values[n + 1] : F[v] = SettleWith(F, v, a, l, k)
    BY SettlerIs, ValuesGrow, LevelAbove
  <2>3. \A x \in Values[n] : Sound(m)[x] => Carries(k, x, F[x])
    BY <1>2
  <2> HIDE DEF F
  <2>4. \A v \in Values[n + 1] : Sound(m)[v] => Carries(k, v, SettleWith(F, v, a, l, k))
    BY <2>1, <2>3, SettleStepSound
  <2>5. \A v \in Values[n + 1] : Sound(m)[v] => Carries(k, v, F[v])
    BY <2>2, <2>4
  <2> QED
    BY <2>5, LevelAbove
<1>3. \A n \in 0 .. Depth : n \in G
  <2> HIDE DEF G
  <2> QED
    BY <1>1, <1>2, DepthType, Upwards
<1>4. \A v \in JSValue : Sound(m)[v] => Carries(k, v, F[v])
  BY <1>3, DepthType DEF JSValue
<1>5. \A v \in JSValue : F[v] = Settle(v, a, l, k)
  BY SettleType
<1> QED
  BY <1>4, <1>5 DEF Carries

\* A sound value that is no promise mentions only pointers that are in memory, with what
\* they need.
LEMMA SoundIsLoaded ==
  ASSUME NEW m
  PROVE  \A v \in JSValue : ~IsPromise(v) /\ Sound(m)[v] => \A a \in Mentioned[v] : Needed[a] \subseteq m
<1> DEFINE IsLoaded(v) == ~IsPromise(v) /\ Sound(m)[v] => \A a \in Mentioned[v] : Needed[a] \subseteq m
           G == {n \in 0 .. Depth : \A v \in Values[n] : IsLoaded(v)}
<1>1. 0 \in G
  BY DepthType, ValuesLevel
<1>2. ASSUME NEW n \in 0 .. Depth - 1, n \in G PROVE n + 1 \in G
  <2>1. ASSUME NEW v \in Values[n + 1], ~IsPromise(v), Sound(m)[v], NEW a \in Mentioned[v]
        PROVE  Needed[a] \subseteq m
    <3>1. v \in JSValue
      BY ValuesGrow, LevelAbove
    <3>2. (v.is \in {"reference", "pointed"} => Needed[v.of] \subseteq m) /\ \A x \in Parts(v) : Sound(m)[x]
      BY <2>1, <3>1, SoundIs DEF SoundStep
    <3>3. a \in (IF v.is \in {"reference", "pointed"} THEN {v.of} ELSE {}) \cup UNION {Mentioned[x] : x \in Parts(v)}
      BY <2>1, <3>1, MentionedIs
    <3>4. \A x \in Parts(v) : x \in Values[n] /\ ~IsPromise(x)
      BY PartsBelow DEF NoPromises
    <3>5. \A x \in Parts(v) : \A b \in Mentioned[x] : Needed[b] \subseteq m
      BY <1>2, <3>2, <3>4
    <3> QED
      BY <3>2, <3>3, <3>5
  <2> QED
    BY <2>1, LevelAbove
<1>3. \A n \in 0 .. Depth : n \in G
  <2> HIDE DEF G
  <2> QED
    BY <1>1, <1>2, DepthType, Upwards
<1> QED
  BY <1>3, DepthType DEF JSValue

\* What a call has got is sound.
SoundCalls == \A c \in Call : calls[c].value # Thrown => Sound(memory)[calls[c].value]

\* What the core returns is resolved to something sound.
LEMMA ResultSound ==
  ASSUME NEW given \in Given \cup {NoValue}, Accepted(given), NEW d \in Returned(given),
         NEW v, v = ResultValue(d), v # Thrown
  PROVE  Sound(memory)[v]
<1>1. v \in JSValue
  BY ResultType
<1>2. CASE d = NoResult
  <2>1. v.is = "undefined"
    BY <1>2 DEF ResultValue, Value
  <2> QED
    BY <1>1, <2>1, SoundAtom DEF AtomKinds
<1>3. CASE d # NoResult
  <2>1. d \in DIFValueContainer
    BY <1>3, ResultType
  <2>2. v = Resolver(memory)[d]
    BY <1>3, <2>1, ResolveType DEF ResultValue
  <2> QED
    BY <2>1, <2>2, ResolveSound DEF Ready
<1> QED
  BY <1>2, <1>3

\* Every step keeps what calls have got sound.
LEMMA SoundNext == IInv /\ SoundCalls /\ [Next]_vars => SoundCalls'
<1> SUFFICES ASSUME IInv, SoundCalls, [Next]_vars PROVE SoundCalls'
  OBVIOUS
<1>1. /\ calls = [c \in Call |-> calls[c]]
      /\ \A c \in Call : Typed(calls[c])
      /\ \A c \in Call : calls[c].value # Thrown => Sound(memory)[calls[c].value]
  BY DEF IInv, SoundCalls
<1>2. ASSUME NEW c \in Call, NEW r, r.value # Thrown => Sound(memory)[r.value],
             calls' = [calls EXCEPT ![c] = r], UNCHANGED memory
      PROVE  SoundCalls'
  <2>1. \A x \in Call : calls'[x] = IF x = c THEN r ELSE calls[x]
    BY <1>1, <1>2
  <2>2. memory' = memory
    BY <1>2
  <2>3. \A x \in Call : calls'[x].value # Thrown => Sound(memory)[calls'[x].value]
    BY <1>1, <1>2, <2>1
  <2>4. \A x \in Call : calls'[x].value # Thrown => Sound(memory')[calls'[x].value]
    BY <2>2, <2>3
  <2> QED
    BY <2>4 DEF SoundCalls
<1>3. ASSUME NEW a \in Address, NEW l, Continue(a, l, memory'), memory \subseteq memory', l => a \in memory'
      PROVE  SoundCalls'
  <2>1. ASSUME NEW x \in Call, calls'[x].value # Thrown PROVE Sound(memory')[calls'[x].value]
    <3>1. PICK v, k : v = calls[x].value /\ k = memory'
      OBVIOUS
    <3>2. calls'[x].value = Settle(v, a, l, k)
      <4>1. calls[x] \in [step : Step, given : Given \cup {NoValue}, value : JSValue \cup {Thrown}]
        BY <1>1 DEF Typed
      <4> QED
        BY <1>3, <3>1, <4>1 DEF Continue
    <3>3. v # Thrown
      BY <2>1, <3>2 DEF Settle
    <3>4. v \in JSValue /\ Sound(memory)[v]
      BY <1>1, <3>1, <3>3 DEF Typed
    <3>5. Sound(k)[Settle(v, a, l, k)]
      BY <1>3, <3>1, <3>4, SettleSound
    <3> QED
      BY <3>1, <3>2, <3>5
  <2> QED
    BY <2>1 DEF SoundCalls
<1>4. ASSUME NEW c \in Call, NEW given \in Given \cup {NoValue}, Execute(c, given) PROVE SoundCalls'
  <2> DEFINE r == [step |-> IF Accepted(given) THEN "core" ELSE "rejected", given |-> given, value |-> Thrown]
  <2>1. r.value = Thrown
    OBVIOUS
  <2>2. calls' = [calls EXCEPT ![c] = r] /\ UNCHANGED memory
    BY <1>4 DEF Execute
  <2> HIDE DEF r
  <2> QED
    BY <1>2, <2>1, <2>2
<1>5. ASSUME NEW c \in Call, NEW given \in Given \cup {NoValue}, ExecuteSync(c, given) PROVE SoundCalls'
  <2>1. Accepted(given)
    BY <1>5 DEF ExecuteSync
  <2>2. PICK d \in Returned(given) :
          calls' = [calls EXCEPT ![c] =
            [step |-> SyncOutcome(ResultValue(d)), given |-> given, value |-> ResultValue(d)]]
    BY <1>5 DEF ExecuteSync
  <2>3. PICK v, s : v = ResultValue(d) /\ s = SyncOutcome(ResultValue(d))
    OBVIOUS
  <2>4. v # Thrown => Sound(memory)[v]
    BY <2>1, <2>3, ResultSound
  <2> DEFINE r == [step |-> s, given |-> given, value |-> v]
  <2>5. r.value # Thrown => Sound(memory)[r.value]
    BY <2>4
  <2>6. calls' = [calls EXCEPT ![c] = r] /\ UNCHANGED memory
    BY <1>5, <2>2, <2>3 DEF ExecuteSync
  <2> HIDE DEF r
  <2> QED
    BY <1>2, <2>5, <2>6
<1>6. ASSUME NEW c \in Call, CoreReturns(c) PROVE SoundCalls'
  <2>1. /\ calls[c] \in [step : Step, given : Given \cup {NoValue}, value : JSValue \cup {Thrown}]
        /\ Accepted(calls[c].given) /\ calls[c].given \in Given \cup {NoValue}
    BY <1>1, <1>6 DEF CoreReturns, Typed
  <2>2. PICK d \in Returned(calls[c].given) :
          calls' = [calls EXCEPT ![c].step = Outcome(ResultValue(d)), ![c].value = ResultValue(d)]
    BY <1>6 DEF CoreReturns
  <2>3. PICK v, s : v = ResultValue(d) /\ s = Outcome(ResultValue(d))
    OBVIOUS
  <2>4. v # Thrown => Sound(memory)[v]
    BY <2>1, <2>3, ResultSound
  <2> DEFINE r == [step |-> s, given |-> calls[c].given, value |-> v]
  <2>5. r.value # Thrown => Sound(memory)[r.value]
    BY <2>4
  <2>6. calls' = [calls EXCEPT ![c] = r]
    <3>1. calls' = [calls EXCEPT ![c] = [calls[c] EXCEPT !.step = s, !.value = v]]
      BY <1>1, <2>2, <2>3
    <3>2. [calls[c] EXCEPT !.step = s, !.value = v] = r
      BY <2>1, StepAndValue
    <3> QED
      BY <3>1, <3>2
  <2>7. UNCHANGED memory
    BY <1>6 DEF CoreReturns
  <2> HIDE DEF r
  <2> QED
    BY <1>2, <2>5, <2>6, <2>7
<1>7. ASSUME NEW c \in Call, CoreFails(c) PROVE SoundCalls'
  <2>1. calls[c] \in [step : Step, given : Given \cup {NoValue}, value : JSValue \cup {Thrown}]
    BY <1>1 DEF Typed
  <2>2. PICK r : r = [calls[c] EXCEPT !.step = "rejected"]
    OBVIOUS
  <2>3. r.value = calls[c].value
    BY <2>1, <2>2
  <2>4. calls' = [calls EXCEPT ![c] = r] /\ UNCHANGED memory
    BY <1>1, <1>7, <2>2 DEF CoreFails
  <2> QED
    BY <1>1, <1>2, <2>3, <2>4
<1>8. ASSUME NEW c \in Call, Forget(c) PROVE SoundCalls'
  <2>1. Idle.value = Thrown
    BY DEF Idle
  <2>2. calls' = [calls EXCEPT ![c] = Idle] /\ UNCHANGED memory
    BY <1>8 DEF Forget
  <2> QED
    BY <1>2, <2>1, <2>2
<1>9. ASSUME NEW a \in Address, Arrives(a) PROVE SoundCalls'
  <2>1. memory' = memory \cup {a} /\ Continue(a, TRUE, memory')
    BY <1>9 DEF Arrives
  <2> QED
    BY <1>3, <2>1
<1>10. ASSUME NEW a \in Address, LoadFails(a) PROVE SoundCalls'
  <2>1. memory' = memory /\ Continue(a, FALSE, memory')
    BY <1>10 DEF LoadFails
  <2> QED
    BY <1>3, <2>1
<1>11. CASE UNCHANGED vars
  BY <1>1, <1>11 DEF vars, SoundCalls
<1> QED
  BY <1>4, <1>5, <1>6, <1>7, <1>8, <1>9, <1>10, <1>11 DEF Next

\* What calls have got is sound, whatever has been loaded and whatever has failed.
LEMMA Soundness == Spec => []SoundCalls
<1>1. Init => SoundCalls
  BY DEF Init, Idle, SoundCalls
<1> QED
  BY <1>1, SoundNext, Typing, PTL DEF Spec

\* When a result has been handed out, the core has in memory every pointer it refers to and
\* those that their contents refer to in turn, in whatever order the loads came in, and
\* however many calls wait for them.
THEOREM Loading == Spec => []ResultsAreLoaded
<1>1. IInv /\ SoundCalls => ResultsAreLoaded
  <2> SUFFICES ASSUME IInv, SoundCalls, NEW c \in Call, calls[c].step = "fulfilled"
               PROVE  Loaded(calls[c].value)
    BY DEF ResultsAreLoaded
  <2>1. calls[c].value \in JSValue /\ ~IsPromise(calls[c].value)
    BY DEF IInv, Typed
  <2>2. calls[c].value # Thrown
    BY <2>1, ValueKinds, DepthType DEF JSValue
  <2>3. Sound(memory)[calls[c].value]
    BY <2>2 DEF SoundCalls
  <2> QED
    BY <2>1, <2>3, SoundIsLoaded DEF Loaded
<1> QED
  BY <1>1, Typing, Soundness, PTL

-----------------------------------------------------------------------------
(* What a value becomes that goes through the core and back.               *)

\* The entries of a Map whose keys are texts, as properties.
TextProperties(f, es) == [i \in DOMAIN es |-> <<es[i][1].of, f[es[i][2]]>>]

\* One step of Normal.
NormalStep(f, v) ==
  CASE v.is = "array" -> Value("array", EachElement(f, v.of))
    [] v.is = "Map" ->
         IF \A i \in DOMAIN v.of : v.of[i][1].is = "text"
         THEN Value("object", [i \in DOMAIN v.of |-> <<v.of[i][1].of, f[v.of[i][2]]>>])
         ELSE Value("Map", EachEntry(f, v.of))
    [] v.is = "object" -> Value("object", EachProperty(f, v.of))
    [] v.is = "reference" -> Pointed(v.of)
    [] OTHER -> v

\* All keys of the entries are texts.
TextKeyed(es) == \A i \in DOMAIN es : es[i][1].is = "text"

\* It goes by the kind of a value whose parts are in S.
NormalByKind(n, S, v, f) ==
  \/ v.is = "array" /\ v.of \in Seq(S) /\ NormalStep(f, v) = Value("array", EachElement(f, v.of))
  \/ /\ v.is = "Map" /\ v.of \in Seq(S \X S) /\ Distinct(v.of) /\ TextKeyed(v.of)
     /\ NormalStep(f, v) = Value("object", TextProperties(f, v.of))
  \/ /\ v.is = "Map" /\ v.of \in Seq(S \X S) /\ Distinct(v.of) /\ ~TextKeyed(v.of)
     /\ NormalStep(f, v) = Value("Map", EachEntry(f, v.of))
  \/ v.is = "object" /\ v.of \in Seq(Payload \X S) /\ NormalStep(f, v) = Value("object", EachProperty(f, v.of))
  \/ v.is = "reference" /\ v.of \in Known(n + 1) /\ NormalStep(f, v) = Pointed(v.of)
  \/ v.is \in AtomKinds /\ v.of \in Payload /\ NormalStep(f, v) = v

\* There is no other way for a value to come back.
LEMMA NormalCases ==
  ASSUME NEW n \in 0 .. Depth - 1, NEW v \in PlainValues[n + 1], NEW f
  PROVE  NormalByKind(n, PlainValues[n], v, f)
<1>1. PICK S : S = PlainValues[n]
  OBVIOUS
<1>2. \/ v.is \in AtomKinds /\ v.of \in Payload
      \/ v.is = "reference" /\ v.of \in Known(n + 1)
      \/ v.is = "array" /\ v.of \in Seq(S)
      \/ v.is = "Map" /\ v.of \in Seq(S \X S) /\ Distinct(v.of)
      \/ v.is = "object" /\ v.of \in Seq(Payload \X S)
  BY <1>1, PlainCases
<1>3. CASE v.is \in AtomKinds /\ v.of \in Payload
  <2>1. NormalStep(f, v) = v
    BY <1>3 DEF NormalStep, AtomKinds
  <2> QED
    BY <1>3, <2>1 DEF NormalByKind
<1>4. CASE v.is = "reference" /\ v.of \in Known(n + 1)
  <2>1. NormalStep(f, v) = Pointed(v.of)
    BY <1>4 DEF NormalStep
  <2> QED
    BY <1>4, <2>1 DEF NormalByKind
<1>5. CASE v.is = "array" /\ v.of \in Seq(S)
  <2>1. NormalStep(f, v) = Value("array", EachElement(f, v.of))
    BY <1>5 DEF NormalStep
  <2> QED
    BY <1>1, <1>5, <2>1 DEF NormalByKind
<1>6. CASE v.is = "Map" /\ v.of \in Seq(S \X S) /\ Distinct(v.of)
  <2>1. NormalStep(f, v) = IF TextKeyed(v.of) THEN Value("object", TextProperties(f, v.of))
                           ELSE Value("Map", EachEntry(f, v.of))
    BY <1>6 DEF NormalStep, TextKeyed, TextProperties
  <2> QED
    BY <1>1, <1>6, <2>1 DEF NormalByKind
<1>7. CASE v.is = "object" /\ v.of \in Seq(Payload \X S)
  <2>1. NormalStep(f, v) = Value("object", EachProperty(f, v.of))
    BY <1>7 DEF NormalStep
  <2> QED
    BY <1>1, <1>7, <2>1 DEF NormalByKind
<1> QED
  BY <1>2, <1>3, <1>4, <1>5, <1>6, <1>7

\* The content of a text is what is written.
LEMMA TextOf ==
  ASSUME NEW n \in 0 .. Depth, NEW v \in PlainValues[n], v.is = "text"
  PROVE  v.of \in Payload
<1>1. PICK k \in 0 .. Depth - 1 : v \in PlainValues[k + 1]
  BY LevelOf, PlainLevel
<1> QED
  BY <1>1, PlainCases

\* The entries of a Map with texts as keys, as properties.
LEMMA TextPropertiesIn ==
  ASSUME NEW n \in 0 .. Depth, NEW S, S = PlainValues[n], NEW es \in Seq(S \X S), TextKeyed(es),
         NEW T, NEW f, \A x \in S : f[x] \in T
  PROVE  TextProperties(f, es) \in Seq(Payload \X T)
<1>1. \A i \in DOMAIN es : es[i][1] \in S /\ es[i][2] \in S
  OBVIOUS
<1>2. \A i \in DOMAIN es : es[i][1].of \in Payload /\ f[es[i][2]] \in T
  BY <1>1, TextOf DEF TextKeyed
<1>3. DOMAIN es = 1 .. Len(es) /\ Len(es) \in Nat
  OBVIOUS
<1> QED
  BY <1>2, <1>3 DEF TextProperties

\* What comes back is of the level of the value, and no promise.
LEMMA NormalStepType ==
  ASSUME NEW n \in 0 .. Depth - 1, NEW v \in PlainValues[n + 1],
         NEW f, \A x \in PlainValues[n] : f[x] \in NoPromises(Values[n])
  PROVE  NormalStep(f, v) \in NoPromises(Values[n + 1])
<1>1. PICK S, V, T, w : S = PlainValues[n] /\ V = Values[n] /\ T = NoPromises(V) /\ w = NormalStep(f, v)
  OBVIOUS
<1>2. \A x \in S : f[x] \in T
  BY <1>1
<1>3. T \subseteq Entered(V)
  BY <1>1 DEF Entered
<1>4. Seq(T \X T) \subseteq Seq(Entered(V) \X Entered(V))
       /\ Seq(Payload \X T) \subseteq Seq(Payload \X Entered(V))
  BY <1>3, PairsGrow
<1>5. ASSUME NEW k \in {"array", "Map", "object"}, NEW x, Value(k, x) \in Values[n + 1], w = Value(k, x)
      PROVE  w \in NoPromises(Values[n + 1])
  BY <1>5 DEF NoPromises, IsPromise, Value
<1>6. CASE v.is = "array" /\ v.of \in Seq(S) /\ w = Value("array", EachElement(f, v.of))
  <2>1. EachElement(f, v.of) \in Seq(T)
    BY <1>2, <1>6, EachIn
  <2>2. Value("array", EachElement(f, v.of)) \in Values[n + 1]
    BY <1>1, <2>1, ValueIs
  <2> QED
    BY <1>1, <1>5, <1>6, <2>2
<1>7. CASE v.is = "Map" /\ v.of \in Seq(S \X S) /\ TextKeyed(v.of)
            /\ w = Value("object", TextProperties(f, v.of))
  <2>1. TextProperties(f, v.of) \in Seq(Payload \X T)
    BY <1>1, <1>2, <1>7, TextPropertiesIn, LevelAbove
  <2>2. Value("object", TextProperties(f, v.of)) \in Values[n + 1]
    BY <1>1, <1>4, <2>1, ValueIs
  <2> QED
    BY <1>1, <1>5, <1>7, <2>2
<1>8. CASE v.is = "Map" /\ v.of \in Seq(S \X S) /\ w = Value("Map", EachEntry(f, v.of))
  <2>1. EachEntry(f, v.of) \in Seq(T \X T)
    BY <1>2, <1>8, EachIn
  <2>2. Value("Map", EachEntry(f, v.of)) \in Values[n + 1]
    BY <1>1, <1>4, <2>1, ValueIs
  <2> QED
    BY <1>1, <1>5, <1>8, <2>2
<1>9. CASE v.is = "object" /\ v.of \in Seq(Payload \X S) /\ w = Value("object", EachProperty(f, v.of))
  <2>1. EachProperty(f, v.of) \in Seq(Payload \X T)
    BY <1>2, <1>9, EachIn
  <2>2. Value("object", EachProperty(f, v.of)) \in Values[n + 1]
    BY <1>1, <1>4, <2>1, ValueIs
  <2> QED
    BY <1>1, <1>5, <1>9, <2>2
<1>10. CASE w = v
  <2>1. v \in NoPromises(Values[n + 1])
    BY PlainIsResult, LevelAbove
  <2> QED
    BY <1>1, <1>10, <2>1
<1>12. CASE v.of \in Known(n + 1) /\ w = Pointed(v.of)
  <2>1. w \in Values[n + 1]
    BY <1>1, <1>12, ValueIs
  <2> QED
    BY <1>1, <1>12, <2>1 DEF NoPromises, IsPromise, Pointed, Value
<1>11. NormalByKind(n, S, v, f)
  BY <1>1, NormalCases
<1> QED
  BY <1>1, <1>6, <1>7, <1>8, <1>9, <1>10, <1>11, <1>12 DEF NormalByKind

\* They depend on what is made of the level below.
LEMMA TextPropertiesSame ==
  ASSUME NEW S, NEW f, NEW h, Agree(f, h, S)
  PROVE  \A es \in Seq(S \X S) : TextProperties(f, es) = TextProperties(h, es)
<1>1. ASSUME NEW es \in Seq(S \X S) PROVE TextProperties(f, es) = TextProperties(h, es)
  <2>1. \A i \in DOMAIN es : f[es[i][2]] = h[es[i][2]]
    BY DEF Agree
  <2> QED
    BY <2>1 DEF TextProperties
<1> QED
  BY <1>1

\* It depends on what is made of the level below.
LEMMA NormalStepSame ==
  ASSUME NEW n \in 0 .. Depth - 1, NEW v \in PlainValues[n + 1], NEW f, NEW h, Agree(f, h, PlainValues[n])
  PROVE  NormalStep(f, v) = NormalStep(h, v)
<1>1. PICK S : S = PlainValues[n]
  OBVIOUS
<1>2. Agree(f, h, S)
  BY <1>1
<1>3. \A xs \in Seq(S) : EachElement(f, xs) = EachElement(h, xs)
  BY <1>2, EachElementSame
<1>4. \A es \in Seq(S \X S) : EachEntry(f, es) = EachEntry(h, es)
  BY <1>2, EachEntrySame
<1>5. \A es \in Seq(S \X S) : TextProperties(f, es) = TextProperties(h, es)
  BY <1>2, TextPropertiesSame
<1>6. \A ps \in Seq(Payload \X S) : EachProperty(f, ps) = EachProperty(h, ps)
  BY <1>2, EachPropertySame
<1>7. NormalByKind(n, S, v, f) /\ NormalByKind(n, S, v, h)
  BY <1>1, NormalCases
<1> QED
  BY <1>3, <1>4, <1>5, <1>6, <1>7 DEF NormalByKind, AtomKinds

\* The equation of Normal.
LEMMA NormalIs ==
  \A v \in PlainValues[Depth] : Normal[v] = NormalStep(Normal, v)
<1> DEFINE H == {f \in [PlainValues[Depth] -> JSValue] :
                  \A n \in 0 .. Depth : \A x \in PlainValues[n] : f[x] \in NoPromises(Values[n])}
           b(f, v) == NormalStep(f, v)
           e(f) == [v \in PlainValues[Depth] |-> b(f, v)]
           g == [f \in H |-> e(f)]
<1>3. ASSUME NEW f \in H PROVE e(f) \in H
  <2>1. \A n \in 0 .. Depth - 1 : \A x \in PlainValues[n + 1] : b(f, x) \in NoPromises(Values[n + 1])
    <3> SUFFICES ASSUME NEW n \in 0 .. Depth - 1, NEW x \in PlainValues[n + 1]
                 PROVE  NormalStep(f, x) \in NoPromises(Values[n + 1])
      OBVIOUS
    <3>1. \A y \in PlainValues[n] : f[y] \in NoPromises(Values[n])
      BY LevelAbove
    <3> QED
      BY <3>1, NormalStepType
  <2>2. \A n \in 0 .. Depth : \A x \in PlainValues[n] : x \in PlainValues[Depth]
    BY PlainGrow
  <2> HIDE DEF b
  <2>3. \A n \in 0 .. Depth : \A x \in PlainValues[n] : b(f, x) \in NoPromises(Values[n])
    BY <2>1, LevelOf, PlainLevel
  <2>4. \A x \in PlainValues[Depth] : b(f, x) \in JSValue
    BY <2>3, DepthType DEF JSValue, NoPromises
  <2> QED
    BY <2>2, <2>3, <2>4
<1>4. ASSUME NEW n \in 0 .. Depth - 1, NEW f \in H, NEW h \in H, \A x \in PlainValues[n] : f[x] = h[x],
             NEW v \in PlainValues[n + 1]
      PROVE  b(f, v) = b(h, v)
  <2>1. Agree(f, h, PlainValues[n])
    BY <1>4 DEF Agree
  <2> QED
    BY <2>1, NormalStepSame
<1>5. \E f \in H : f = e(f)
  <2>1. g \in [H -> H]
    <3> HIDE DEF e, H
    <3> QED
      BY <1>3
  <2>2. \A n \in 0 .. Depth - 1 : \A f, h \in H :
          (\A x \in PlainValues[n] : f[x] = h[x]) => \A x \in PlainValues[n + 1] : g[f][x] = g[h][x]
    <3>1. \A n \in 0 .. Depth - 1 : \A x \in PlainValues[n + 1] : x \in PlainValues[Depth]
      BY LevelsBuilt, LevelAbove DEF Built
    <3> HIDE DEF b, H
    <3> QED
      BY <1>4, <3>1
  <2>3. H # {} /\ \A f \in H : f = [x \in PlainValues[Depth] |-> f[x]]
    <3>1. [x \in PlainValues[Depth] |-> x] \in H
      BY PlainIsResult, PlainGrow, DepthType DEF JSValue, NoPromises
    <3> QED
      BY <3>1
  <2>4. \A f \in H : g[f] = e(f)
    OBVIOUS
  <2> HIDE DEF g, H, e
  <2>5. Recursive(Depth, PlainValues, PlainValues[Depth], H, g)
    BY <2>1, <2>2, <2>3 DEF Recursive
  <2>6. \E f \in H : f = g[f]
    BY <2>5, LevelsBuilt, FixedPoint
  <2> QED
    BY <2>4, <2>6
<1>6. Normal = CHOOSE f : f = e(f)
  BY DEF Normal, NormalStep
<1>7. Normal = e(Normal)
  <2> HIDE DEF e
  <2> QED
    BY <1>5, <1>6
<1> QED
  BY <1>7

\* It is a value without promises.
LEMMA NormalType ==
  \A n \in 0 .. Depth : \A v \in PlainValues[n] : Normal[v] \in NoPromises(Values[n])
<1> DEFINE G == {n \in 0 .. Depth : \A v \in PlainValues[n] : Normal[v] \in NoPromises(Values[n])}
<1>1. 0 \in G
  BY DepthType, PlainLevel
<1>2. ASSUME NEW n \in 0 .. Depth - 1, n \in G PROVE n + 1 \in G
  <2>1. \A v \in PlainValues[n + 1] : v \in PlainValues[Depth]
    BY PlainGrow, LevelAbove
  <2>2. \A v \in PlainValues[n + 1] : NormalStep(Normal, v) \in NoPromises(Values[n + 1])
    BY <1>2, NormalStepType
  <2>3. \A v \in PlainValues[n + 1] : Normal[v] \in NoPromises(Values[n + 1])
    BY <2>1, <2>2, NormalIs
  <2> QED
    BY <2>3, LevelAbove
<1>3. \A n \in 0 .. Depth : n \in G
  <2> HIDE DEF G
  <2> QED
    BY <1>1, <1>2, DepthType, Upwards
<1> QED
  BY <1>3

\* Keys that are different keys remain so.
LEMMA NormalKeys ==
  ASSUME NEW n \in 0 .. Depth, NEW x \in PlainValues[n], NEW y \in PlainValues[n], SameKey(Normal[x], Normal[y])
  PROVE  SameKey(x, y)
<1>1. ASSUME NEW v \in PlainValues[n], Normal[v].is \notin {"array", "Map", "object", "promise"}
      PROVE  \/ v = Reference(Normal[v].of) /\ Normal[v].is = "pointed"
             \/ v = Normal[v] /\ v.is \in AtomKinds
  <2>1. PICK k \in 0 .. Depth - 1 : v \in PlainValues[k + 1]
    BY LevelOf, PlainLevel
  <2>2. Normal[v] = NormalStep(Normal, v) /\ v = Value(v.is, v.of)
    BY <2>1, NormalIs, PlainGrow, PlainCases
  <2>3. NormalByKind(k, PlainValues[k], v, Normal)
    BY <2>1, NormalCases
  <2>4. \A c \in {"array", "Map", "object"} : \A x2 : Normal[v] # Value(c, x2)
    BY <1>1 DEF Value
  <2>5. CASE v.is = "reference" /\ Normal[v] = Pointed(v.of)
    BY <2>2, <2>5 DEF Reference, Pointed, Value
  <2>6. CASE v.is \in AtomKinds /\ Normal[v] = v
    BY <2>6
  <2> QED
    BY <2>2, <2>3, <2>4, <2>5, <2>6 DEF NormalByKind
<1>2. Normal[x] = Normal[y] /\ Normal[x].is \notin {"array", "Map", "object", "promise"}
  BY DEF SameKey
<1>3. x = y /\ x.is \notin {"array", "Map", "object", "promise"}
  <2>1. \A a : Reference(a).is = "reference"
    BY DEF Reference, Value
  <2> QED
    BY <1>1, <1>2, <2>1 DEF AtomKinds
<1> QED
  BY <1>3 DEF SameKey

\* Once all that a container needs is in memory, resolving it takes no promise.
LEMMA ResolveStepNow ==
  ASSUME NEW n \in 0 .. Depth - 1, NEW d \in Containers[n + 1], NEW m, Needed[d] \subseteq m,
         NEW f, \A x \in Containers[n] : Needed[x] \subseteq m => ~IsPromise(f[x])
  PROVE  ~IsPromise(ResolveStep(f, d, m))
<1>1. PICK S, w : S = Containers[n] /\ w = ResolveStep(f, d, m)
  OBVIOUS
<1>2. d \in DIFValueContainer
  BY ContainersGrow, LevelAbove
<1>3. ~IsPromise(Thrown) /\ \A k \in AtomKinds \cup {"pointed", "array", "Map", "object"} : \A x : ~IsPromise(Value(k, x))
  BY DEF IsPromise, Thrown, Value, AtomKinds
<1>4. CASE d \in Address
  <2>1. Needed[d] = {d} \cup Needed[Content[d]] /\ Content[d] \in Containers[n]
    BY <1>2, <1>4, NeededIs, ContainerParts DEF NeededStep
  <2>2. PICK v : v = f[Content[d]]
    OBVIOUS
  <2>3. ~IsPromise(v)
    BY <2>1, <2>2
  <2>4. w = Bind(d, v)
    BY <1>1, <1>4, <2>1, <2>2 DEF ResolveStep, ResolvePointerAddress
  <2>5. v # Rejected
    BY <2>3 DEF Rejected, IsPromise, Value
  <2>6. w = Thrown \/ w = Value("pointed", d)
    BY <2>3, <2>4, <2>5 DEF Bind, Pending, Pointed
  <2> QED
    BY <1>1, <1>3, <2>6
<1>5. CASE d \notin Address
  <2>1. w = ResolveDIFValue(f, d) /\ d \in DIFValues(S)
    BY <1>1, <1>5, ContainerParts DEF ResolveStep
  <2>2. \/ AtomKind(d) \in AtomKinds /\ w = Value(AtomKind(d), d.value.of)
        \/ w = Thrown
        \/ InferredType(d) = "list" /\ d.value.of \in Seq(S) /\ w = PromiseAllOrSync(EachElement(f, d.value.of))
        \/ w = MapOf(EachEntry(f, PairsIn(d.value.of)))
        \/ w = MapOf(TextEntries(f, d.value.of))
        \/ w = ObjectOf(EachProperty(f, d.value.of))
    BY <1>1, <2>1, ResolveCases
  <2>3. CASE AtomKind(d) \in AtomKinds /\ w = Value(AtomKind(d), d.value.of)
    BY <1>1, <1>3, <2>3
  <2>4. CASE w = Thrown
    BY <1>1, <1>3, <2>4
  <2>5. CASE InferredType(d) = "list" /\ d.value.of \in Seq(S)
              /\ w = PromiseAllOrSync(EachElement(f, d.value.of))
    <3>1. PICK vs : vs = EachElement(f, d.value.of)
      OBVIOUS
    <3>2. DOMAIN vs = DOMAIN d.value.of /\ \A i \in DOMAIN vs : vs[i] = f[d.value.of[i]] /\ d.value.of[i] \in S
      BY <2>5, <3>1 DEF EachElement
    <3>3. Needed[d] = UNION {Needed[x] : x \in Elements(d)} /\ Elements(d) = {d.value.of[i] : i \in DOMAIN vs}
      BY <1>2, <1>5, <2>5, <3>2, NeededIs DEF NeededStep, Elements
    <3>4. \A i \in DOMAIN vs : Needed[d.value.of[i]] \subseteq m
      BY <3>3
    <3>5. \A i \in DOMAIN vs : ~IsPromise(vs[i])
      BY <1>1, <3>2, <3>4
    <3>6. \A i \in DOMAIN vs : vs[i] # Rejected /\ ~Pending(vs[i])
      BY <3>5 DEF Pending, Rejected, IsPromise, Value
    <3>7. w = Thrown \/ w = Value("array", vs)
      BY <2>5, <3>1, <3>6 DEF PromiseAllOrSync
    <3> QED
      BY <1>1, <1>3, <3>7
  <2>6. \A es : ~IsPromise(MapOf(es))
    BY <1>3 DEF MapOf
  <2>7. \A ps : ~IsPromise(ObjectOf(ps))
    BY <1>3 DEF ObjectOf
  <2> QED
    BY <1>1, <2>2, <2>3, <2>4, <2>5, <2>6, <2>7
<1> QED
  BY <1>4, <1>5

\* So at every level.
LEMMA ResolveNow ==
  ASSUME NEW m
  PROVE  \A d \in DIFValueContainer : Needed[d] \subseteq m => ~IsPromise(Resolver(m)[d])
<1> DEFINE G == {n \in 0 .. Depth : \A d \in Containers[n] : Needed[d] \subseteq m => ~IsPromise(Resolver(m)[d])}
<1>1. 0 \in G
  BY DepthType, ContainersLevel
<1>2. ASSUME NEW n \in 0 .. Depth - 1, n \in G PROVE n + 1 \in G
  <2>1. \A d \in Containers[n + 1] : d \in DIFValueContainer
    BY ContainersGrow, LevelAbove
  <2>2. \A d \in Containers[n + 1] : Needed[d] \subseteq m => ~IsPromise(ResolveStep(Resolver(m), d, m))
    BY <1>2, ResolveStepNow
  <2>3. \A d \in Containers[n + 1] : Needed[d] \subseteq m => ~IsPromise(Resolver(m)[d])
    BY <2>1, <2>2, ResolverIs
  <2> QED
    BY <2>3, LevelAbove
<1>3. \A n \in 0 .. Depth : n \in G
  <2> HIDE DEF G
  <2> QED
    BY <1>1, <1>2, DepthType, Upwards
<1> QED
  BY <1>3, DepthType DEF DIFValueContainer

\* The address of a pointer in memory is resolved to its value.
LEMMA PointerNow ==
  ASSUME NEW m, NEW a \in Address, Needed[a] \subseteq m
  PROVE  Resolver(m)[a] \in {Thrown, Pointed(a)}
<1>1. a \in DIFValueContainer
  BY ConversionAssumption
<1>2. PICK n \in 0 .. Depth - 1 : a \in Containers[n + 1]
  BY <1>1, LevelOf, ContainersLevel, DepthType DEF DIFValueContainer
<1>3. Content[a] \in DIFValueContainer
  BY <1>2, ContainerParts, ContainersGrow, LevelAbove
<1>4. PICK v : v = Resolver(m)[Content[a]]
  OBVIOUS
<1>5. Needed[a] = {a} \cup Needed[Content[a]]
  BY <1>1, NeededIs DEF NeededStep
<1>6. ~IsPromise(v)
  BY <1>3, <1>4, <1>5, ResolveNow
<1>7. Resolver(m)[a] = Bind(a, v)
  BY <1>1, <1>4, <1>5, ResolverIs DEF ResolveStep, ResolvePointerAddress
<1>8. v # Rejected /\ ~Pending(v)
  BY <1>6 DEF Rejected, IsPromise, Value, Pending
<1> QED
  BY <1>7, <1>8 DEF Bind

\* What the core hands back, by what it was given.
LEMMA TypesOf ==
  ASSUME NEW n \in 0 .. Depth - 1, NEW S, S = Containers[n]
  PROVE  /\ \A xs \in Seq(S) : InferredType(Untyped(JSON("array", xs))) = "list"
         /\ \A es \in Seq(S \X S) : es # <<>> => InferredType(Untyped(ArrayOfPairs(es))) = "map"
         /\ \A es : InferredType(ConvertMap(es)) = "map"
         /\ \A ps : InferredType(Untyped(JSON("object", ps))) = "object"
<1>1. \A d \in S : ~IsArray(d)
  <2>1. ASSUME NEW d \in S PROVE ~IsArray(d)
    <3>1. PICK k \in 0 .. Depth - 1 : d \in Containers[k + 1]
      BY LevelOf, LevelAbove, ContainersLevel
    <3>2. d \in Address \/ d \in DIFValues(Containers[k])
      BY <3>1, ContainerParts
    <3>3. \A x \in DIFValues(Containers[k]) : DOMAIN x = {"type", "value"}
      BY DEF DIFValues
    <3> QED
      BY <3>2, <3>3 DEF IsArray
  <2> QED
    BY <2>1
<1>2. ASSUME NEW xs \in Seq(S) PROVE InferredType(Untyped(JSON("array", xs))) = "list"
  <2>1. xs # <<>> => ~IsArray(Head(xs))
    BY <1>1
  <2> QED
    BY <2>1 DEF InferredType, Untyped, Container, JSON
<1>3. ASSUME NEW es \in Seq(S \X S), es # <<>> PROVE InferredType(Untyped(ArrayOfPairs(es))) = "map"
  <2>1. PICK ps : ps = [i \in DOMAIN es |-> JSON("array", es[i])]
    OBVIOUS
  <2>2. DOMAIN es = 1 .. Len(es) /\ Len(es) \in Nat /\ 1 \in DOMAIN es
    BY <1>3
  <2>3. es[1] \in S \X S
    BY <2>2
  <2>4. JSON("array", es[1]) \in PairsOf(S)
    BY <2>3 DEF PairsOf, JSON
  <2>5. JSON("array", es[1]) \notin Address
    BY <2>4, ContainerIs
  <2>6. IsArray(JSON("array", es[1]))
    BY <2>5 DEF IsArray, JSON
  <2>7. ps # <<>> /\ Head(ps) = JSON("array", es[1])
    <3>1. ps[1] = JSON("array", es[1])
      BY <2>1, <2>2
    <3>2. 1 \in DOMAIN ps
      BY <2>1, <2>2
    <3> QED
      BY <3>1, <3>2
  <2>8. Untyped(ArrayOfPairs(es)) = Untyped(JSON("array", ps))
    BY <2>1 DEF ArrayOfPairs
  <2> QED
    BY <2>6, <2>7, <2>8 DEF InferredType, Untyped, Container, JSON
<1>4. \A es : InferredType(ConvertMap(es)) = "map"
  BY DEF InferredType, ConvertMap, Container
<1>5. \A ps : InferredType(Untyped(JSON("object", ps))) = "object"
  BY DEF InferredType, Untyped, Container, JSON
<1> QED
  BY <1>2, <1>3, <1>4, <1>5

\* A value over the level n is a container that is no address.
LEMMA ContainerOf ==
  ASSUME NEW n \in 0 .. Depth - 1, NEW d \in DIFValues(Containers[n])
  PROVE  d \in DIFValueContainer /\ d \notin Address
<1>1. d \in Containers[n + 1] /\ d \notin Address
  BY ContainerIs
<1> QED
  BY <1>1, ContainersGrow, LevelAbove

\* The pairs of a list of pairs.
LEMMA PairsOfArray ==
  ASSUME NEW K, NEW es \in Seq(K)
  PROVE  PairsIn([i \in DOMAIN es |-> JSON("array", es[i])]) = es
BY DEF PairsIn, JSON

\* A list, on its way through the core and back.
LEMMA ListThrough ==
  ASSUME NEW n \in 0 .. Depth - 1, NEW S, S = Containers[n], NEW cs \in Seq(S), NEW m,
         NEW d, d = Untyped(JSON("array", cs))
  PROVE  /\ Echo[d] = Untyped(JSON("array", EachElement(Echo, cs)))
         /\ Resolver(m)[d] = PromiseAllOrSync(EachElement(Resolver(m), cs))
<1>1. d \in DIFValueContainer /\ d \notin Address
  <2>1. d \in DIFValues(Containers[n])
    BY DIFValueIs DEF Untyped
  <2> QED
    BY <2>1, ContainerOf
<1>2. InferredType(d) = "list" /\ d.value.of = cs
  BY TypesOf DEF Untyped, Container, JSON
<1>3. Echo[d] = EchoWith(Echo, d) /\ Resolver(m)[d] = ResolveDIFValue(Resolver(m), d)
  BY <1>1, EchoIs, ResolverIs DEF EchoStep, ResolveStep
<1>4. EchoWith(Echo, d) = Untyped(JSON("array", EachElement(Echo, cs)))
  <2>1. d.value.json = "array"
    BY DEF Untyped, Container, JSON
  <2> HIDE DEF Echo
  <2> QED
    BY <1>2, <2>1 DEF EchoWith
<1>5. ResolveDIFValue(Resolver(m), d) = PromiseAllOrSync(EachElement(Resolver(m), cs))
  BY <1>2, KindDomain DEF ResolveDIFValue
<1> QED
  BY <1>3, <1>4, <1>5

\* An object.
LEMMA ObjectThrough ==
  ASSUME NEW n \in 0 .. Depth - 1, NEW S, S = Containers[n], NEW ps \in Seq(Payload \X S), NEW m,
         NEW d, d = Untyped(JSON("object", ps))
  PROVE  /\ Echo[d] = Untyped(JSON("object", EachProperty(Echo, ps)))
         /\ Resolver(m)[d] = ObjectOf(EachProperty(Resolver(m), ps))
<1>1. d \in DIFValueContainer /\ d \notin Address
  <2>1. d \in DIFValues(Containers[n])
    BY DIFValueIs DEF Untyped
  <2> QED
    BY <2>1, ContainerOf
<1>2. InferredType(d) = "object" /\ d.value.of = ps /\ d.value.json = "object"
  BY TypesOf DEF Untyped, Container, JSON
<1>3. Echo[d] = EchoWith(Echo, d) /\ Resolver(m)[d] = ResolveDIFValue(Resolver(m), d)
  BY <1>1, EchoIs, ResolverIs DEF EchoStep, ResolveStep
<1>4. EchoWith(Echo, d) = Untyped(JSON("object", EachProperty(Echo, ps)))
  BY <1>2 DEF EchoWith
<1>5. ResolveDIFValue(Resolver(m), d) = ObjectOf(EachProperty(Resolver(m), ps))
  BY <1>2, KindDomain DEF ResolveDIFValue
<1> QED
  BY <1>3, <1>4, <1>5

\* A Map.
LEMMA MapThrough ==
  ASSUME NEW n \in 0 .. Depth - 1, NEW S, S = Containers[n], NEW es \in Seq(S \X S)
  PROVE  Echo[ConvertMap(es)] = Untyped(IF TextKeys(es) THEN JSON("object", TextsToObject(Echo, es))
                                        ELSE ArrayOfPairs(EachEntry(Echo, es)))
<1>1. PICK d : d = ConvertMap(es)
  OBVIOUS
<1>2. d \in DIFValueContainer /\ d \notin Address
  <2>1. d \in DIFValues(Containers[n])
    BY <1>1, DIFValueIs DEF ConvertMap
  <2> QED
    BY <2>1, ContainerOf
<1>3. InferredType(d) = "map" /\ d.value.json = "array"
  BY <1>1, TypesOf DEF ConvertMap, ArrayOfPairs, Container, JSON
<1>4. PairsIn(d.value.of) = es
  <2>1. d.value.of = [i \in DOMAIN es |-> JSON("array", es[i])]
    BY <1>1 DEF ConvertMap, ArrayOfPairs, Container, JSON
  <2> QED
    BY <2>1, PairsOfArray
<1>5. Echo[d] = EchoWith(Echo, d)
  BY <1>2, EchoIs DEF EchoStep
<1>6. EchoWith(Echo, d) = Untyped(IF TextKeys(es) THEN JSON("object", TextsToObject(Echo, es))
                                  ELSE ArrayOfPairs(EachEntry(Echo, es)))
  BY <1>3, <1>4 DEF EchoWith, TextKeys
<1> QED
  BY <1>1, <1>5, <1>6

\* The pairs as which a Map comes back.
LEMMA PairsThrough ==
  ASSUME NEW n \in 0 .. Depth - 1, NEW S, S = Containers[n], NEW es \in Seq(S \X S), es # <<>>, NEW m
  PROVE  Resolver(m)[Untyped(ArrayOfPairs(es))] = MapOf(EachEntry(Resolver(m), es))
<1>1. PICK d : d = Untyped(ArrayOfPairs(es))
  OBVIOUS
<1>2. d \in DIFValueContainer /\ d \notin Address
  <2>1. d \in DIFValues(Containers[n])
    BY <1>1, DIFValueIs DEF Untyped
  <2> QED
    BY <2>1, ContainerOf
<1>3. InferredType(d) = "map" /\ d.value.json = "array"
  <2>1. InferredType(Untyped(ArrayOfPairs(es))) = "map"
    BY TypesOf
  <2>2. d.value.json = "array"
    BY <1>1 DEF Untyped, ArrayOfPairs, Container, JSON
  <2> QED
    BY <1>1, <2>1, <2>2
<1>4. PairsIn(d.value.of) = es
  <2>1. d.value.of = [i \in DOMAIN es |-> JSON("array", es[i])]
    BY <1>1 DEF Untyped, ArrayOfPairs, Container, JSON
  <2> QED
    BY <2>1, PairsOfArray
<1>5. Resolver(m)[d] = ResolveDIFValue(Resolver(m), d)
  BY <1>2, ResolverIs DEF ResolveStep
<1>6. ResolveDIFValue(Resolver(m), d) = MapOf(EachEntry(Resolver(m), es))
  BY <1>3, <1>4, KindDomain DEF ResolveDIFValue
<1> QED
  BY <1>1, <1>5, <1>6

\* A value without parts.
LEMMA AtomThrough ==
  ASSUME NEW n \in 0 .. Depth - 1, NEW v, v = Value(v.is, v.of), v.is \in AtomKinds, v.of \in Payload,
         NEW d, d = ConvertAtom(v), d # Thrown, NEW m
  PROVE  Resolver(m)[Echo[d]] = v
<1>1. d \in DIFValueContainer /\ d \notin Address
  <2>1. d \in DIFValues(Containers[n])
    BY ConvertAtomType
  <2> QED
    BY <2>1, ContainerOf
<1>2. /\ InferredType(d) \notin {"list", "map", "object", "unit"} /\ d.value.json \notin {"array", "object"}
      /\ ResolveDIFValue(Resolver(m), d) = v
  <2>1. CASE v.is \in {"null", "boolean", "number"}
    <3>1. d = Untyped(JSON(v.is, v.of))
      BY <2>1 DEF ConvertAtom
    <3>2. InferredType(d) = "primitive" /\ d.value.json = v.is /\ d.value.of = v.of
      BY <2>1, <3>1 DEF InferredType, Untyped, Container, JSON
    <3>3. PrimitiveKind(d.value.json) = v.is
      BY <2>1, <3>2 DEF PrimitiveKind
    <3> QED
      BY <2>1, <3>2, <3>3, KindDomain DEF ResolveDIFValue
  <2>2. CASE v.is = "text"
    <3>1. d = Untyped(JSON("string", v.of))
      BY <2>2 DEF ConvertAtom
    <3>2. InferredType(d) = "primitive" /\ d.value.json = "string" /\ d.value.of = v.of
      BY <3>1 DEF InferredType, Untyped, Container, JSON
    <3>3. PrimitiveKind(d.value.json) = v.is
      BY <2>2, <3>2 DEF PrimitiveKind
    <3> QED
      BY <3>2, <3>3, KindDomain DEF ResolveDIFValue
  <2>3. ASSUME NEW t \in {"undefined", "ibig", "endpoint"}, KindOfType[t] = v.is, NEW j \in {"null", "string"},
               d = Container(t, JSON(j, v.of))
        PROVE  /\ InferredType(d) \notin {"list", "map", "object", "unit"}
                   /\ d.value.json \notin {"array", "object"}
               /\ ResolveDIFValue(Resolver(m), d) = v
    <3>1. InferredType(d) = t /\ d.value.json = j /\ d.value.of = v.of
      BY <2>3 DEF InferredType, Container, JSON
    <3> QED
      BY <2>3, <3>1, KindDomain DEF ResolveDIFValue
  <2>4. KindOfType["undefined"] = "undefined" /\ KindOfType["ibig"] = "bigint"
         /\ KindOfType["endpoint"] = "endpoint"
    BY DEF KindOfType
  <2>5. CASE v.is = "undefined"
    <3>1. d = Container("undefined", JSON("null", v.of))
      BY <2>5 DEF ConvertAtom
    <3> QED
      BY <2>3, <2>4, <2>5, <3>1
  <2>6. CASE v.is = "bigint"
    <3>1. d = Container("ibig", JSON("string", v.of))
      BY <2>6 DEF ConvertAtom
    <3> QED
      BY <2>3, <2>4, <2>6, <3>1
  <2>7. CASE v.is = "endpoint"
    <3>1. d = Container("endpoint", JSON("string", v.of))
      BY <2>7 DEF ConvertAtom
    <3> QED
      BY <2>3, <2>4, <2>7, <3>1
  <2>8. CASE v.is = "function"
    BY <2>8 DEF ConvertAtom
  <2> QED
    BY <2>1, <2>2, <2>5, <2>6, <2>7, <2>8 DEF AtomKinds
<1>3. Echo[d] = d
  <2>1. EchoWith(Echo, d) = d
    BY <1>2 DEF EchoWith
  <2> QED
    BY <1>1, <2>1, EchoIs DEF EchoStep
<1>4. Resolver(m)[d] = v
  BY <1>1, <1>2, ResolverIs DEF ResolveStep
<1> QED
  BY <1>3, <1>4

\* What is sent is a text if the value is one.
LEMMA TextSent ==
  ASSUME NEW n \in 0 .. Depth, NEW v \in PlainValues[n], ConvertJSValueToDIF[v] # Thrown
  PROVE  /\ IsText(ConvertJSValueToDIF[v]) <=> v.is = "text"
         /\ v.is = "text" => ConvertJSValueToDIF[v].value.of = v.of
<1>1. PICK k \in 0 .. Depth - 1 : v \in PlainValues[k + 1]
  BY LevelOf, PlainLevel
<1>2. PICK c : c = ConvertJSValueToDIF[v]
  OBVIOUS
<1>3. c = ConvertWith(ConvertJSValueToDIF, v)
  BY <1>2, ConvertIs, PlainGrow
<1>4. ConvertedByKind(k, PlainValues[k], v, ConvertJSValueToDIF)
  BY <1>1, ConvertCases
<1>5. \/ v.is = "reference" /\ v.of \in Known(k + 1) /\ c = v.of
      \/ v.is = "array" /\ \E x : c = Untyped(JSON("array", x))
      \/ v.is = "Map" /\ \E x : c = ConvertMap(x)
      \/ v.is = "object" /\ \E x : c = Untyped(JSON("object", x))
      \/ v.is \in AtomKinds /\ v.of \in Payload /\ c = ConvertAtom(v)
  BY <1>2, <1>3, <1>4 DEF ConvertedByKind
<1>6. CASE v.is = "reference" /\ v.of \in Known(k + 1) /\ c = v.of
  BY <1>2, <1>6 DEF IsText, Known
<1>7. CASE v.is = "array" /\ \E x : c = Untyped(JSON("array", x))
  <2>1. c.value.json = "array"
    BY <1>7 DEF Untyped, Container, JSON
  <2> QED
    BY <1>2, <1>7, <2>1 DEF IsText
<1>8. CASE v.is = "Map" /\ \E x : c = ConvertMap(x)
  <2>1. c.value.json = "array"
    BY <1>8 DEF ConvertMap, ArrayOfPairs, Container, JSON
  <2> QED
    BY <1>2, <1>8, <2>1 DEF IsText
<1>9. CASE v.is = "object" /\ \E x : c = Untyped(JSON("object", x))
  <2>1. c.value.json = "object"
    BY <1>9 DEF Untyped, Container, JSON
  <2> QED
    BY <1>2, <1>9, <2>1 DEF IsText
<1>10. CASE v.is \in AtomKinds /\ v.of \in Payload /\ c = ConvertAtom(v)
  <2>1. c \notin Address
    BY <1>2, <1>10, ConvertAtomType, ContainerOf
  <2>2. CASE v.is \in {"null", "boolean", "number"}
    <3>1. c = Untyped(JSON(v.is, v.of))
      BY <1>10, <2>2 DEF ConvertAtom
    <3>2. c.value.json = v.is
      BY <3>1 DEF Untyped, Container, JSON
    <3> QED
      BY <1>2, <2>2, <3>2 DEF IsText
  <2>3. CASE v.is = "text"
    <3>1. c = Untyped(JSON("string", v.of))
      BY <1>10, <2>3 DEF ConvertAtom
    <3>2. InferredType(c) = "primitive" /\ c.value.json = "string" /\ c.value.of = v.of
      BY <3>1 DEF InferredType, Untyped, Container, JSON
    <3> QED
      BY <1>2, <2>1, <2>3, <3>2 DEF IsText
  <2>4. CASE v.is \in {"undefined", "bigint", "endpoint"}
    <3>1. \E t \in {"undefined", "ibig", "endpoint"} : \E x : c = Container(t, x)
      BY <1>10, <2>4 DEF ConvertAtom
    <3>2. InferredType(c) # "primitive"
      BY <3>1 DEF InferredType, Container
    <3> QED
      BY <1>2, <2>4, <3>2 DEF IsText
  <2>5. CASE v.is = "function"
    BY <1>2, <1>10, <2>5 DEF ConvertAtom
  <2> QED
    BY <1>10, <2>2, <2>3, <2>4, <2>5 DEF AtomKinds
<1> QED
  BY <1>5, <1>6, <1>7, <1>8, <1>9, <1>10

\* What comes back of a value.
Back(m) == [x \in PlainValues[Depth] |-> Resolver(m)[Echo[ConvertJSValueToDIF[x]]]]

\* Of the elements, entries and properties of what is sent comes back what comes back of them.
LEMMA BackEach ==
  ASSUME NEW m, NEW P, P = PlainValues[Depth]
  PROVE  /\ \A xs \in Seq(P) : EachElement(Resolver(m), EachElement(Echo, EachElement(ConvertJSValueToDIF, xs)))
                                 = EachElement(Back(m), xs)
         /\ \A es \in Seq(P \X P) : EachEntry(Resolver(m), EachEntry(Echo, EachEntry(ConvertJSValueToDIF, es)))
                                      = EachEntry(Back(m), es)
         /\ \A ps \in Seq(Payload \X P) :
              EachProperty(Resolver(m), EachProperty(Echo, EachProperty(ConvertJSValueToDIF, ps)))
                = EachProperty(Back(m), ps)
<1>1. PICK R, E, C, B : R = Resolver(m) /\ E = Echo /\ C = ConvertJSValueToDIF /\ B = Back(m)
  OBVIOUS
<1>2. \A x \in P : B[x] = R[E[C[x]]]
  BY <1>1 DEF Back
<1>3. ASSUME NEW xs \in Seq(P) PROVE EachElement(R, EachElement(E, EachElement(C, xs))) = EachElement(B, xs)
  <2>1. \A i \in DOMAIN xs : R[E[C[xs[i]]]] = B[xs[i]]
    BY <1>2
  <2> QED
    BY <2>1 DEF EachElement
<1>4. ASSUME NEW es \in Seq(P \X P) PROVE EachEntry(R, EachEntry(E, EachEntry(C, es))) = EachEntry(B, es)
  <2>1. \A i \in DOMAIN es : R[E[C[es[i][1]]]] = B[es[i][1]] /\ R[E[C[es[i][2]]]] = B[es[i][2]]
    BY <1>2
  <2>2. PICK g : g = EachEntry(E, EachEntry(C, es))
    OBVIOUS
  <2>3. DOMAIN g = DOMAIN es /\ \A i \in DOMAIN es : g[i] = <<E[C[es[i][1]]], E[C[es[i][2]]]>>
    BY <2>2 DEF EachEntry
  <2>4. EachEntry(R, g) = EachEntry(B, es)
    BY <2>1, <2>3 DEF EachEntry
  <2> QED
    BY <2>2, <2>4
<1>5. ASSUME NEW ps \in Seq(Payload \X P)
      PROVE  EachProperty(R, EachProperty(E, EachProperty(C, ps))) = EachProperty(B, ps)
  <2>1. \A i \in DOMAIN ps : R[E[C[ps[i][2]]]] = B[ps[i][2]]
    BY <1>2
  <2>2. PICK g : g = EachProperty(E, EachProperty(C, ps))
    OBVIOUS
  <2>3. DOMAIN g = DOMAIN ps /\ \A i \in DOMAIN ps : g[i] = <<ps[i][1], E[C[ps[i][2]]]>>
    BY <2>2 DEF EachProperty
  <2>4. EachProperty(R, g) = EachProperty(B, ps)
    BY <2>1, <2>3 DEF EachProperty
  <2> QED
    BY <2>2, <2>4
<1> QED
  BY <1>1, <1>3, <1>4, <1>5

\* The same of the entries of a Map that comes back as an object.
LEMMA BackTexts ==
  ASSUME NEW m, NEW n \in 0 .. Depth, NEW S, S = PlainValues[n], NEW es \in Seq(S \X S), TextKeyed(es),
         \A i \in DOMAIN es : ConvertJSValueToDIF[es[i][1]] # Thrown
  PROVE  EachProperty(Resolver(m), TextsToObject(Echo, EachEntry(ConvertJSValueToDIF, es))) = TextProperties(Back(m), es)
<1>1. PICK R, E, C, B : R = Resolver(m) /\ E = Echo /\ C = ConvertJSValueToDIF /\ B = Back(m)
  OBVIOUS
<1>2. \A i \in DOMAIN es : es[i][1] \in S /\ es[i][2] \in S
  OBVIOUS
<1>3. \A x \in S : x \in PlainValues[Depth]
  BY PlainGrow
<1>4. \A i \in DOMAIN es : B[es[i][2]] = R[E[C[es[i][2]]]]
  BY <1>1, <1>2, <1>3 DEF Back
<1>5. \A i \in DOMAIN es : C[es[i][1]].value.of = es[i][1].of
  BY <1>1, <1>2, TextSent DEF TextKeyed
<1>6. PICK c : c = EachEntry(C, es)
  OBVIOUS
<1>7. DOMAIN c = DOMAIN es /\ \A i \in DOMAIN es : c[i] = <<C[es[i][1]], C[es[i][2]]>>
  BY <1>6 DEF EachEntry
<1>8. PICK g : g = TextsToObject(E, c)
  OBVIOUS
<1>9. DOMAIN g = DOMAIN es /\ \A i \in DOMAIN es : g[i] = <<es[i][1].of, E[C[es[i][2]]]>>
  <2>1. DOMAIN g = DOMAIN c /\ \A i \in DOMAIN c : g[i] = <<c[i][1].value.of, E[c[i][2]]>>
    BY <1>8 DEF TextsToObject
  <2>2. \A i \in DOMAIN es : c[i][1] = C[es[i][1]] /\ c[i][2] = C[es[i][2]]
    BY <1>7
  <2> QED
    BY <1>5, <1>7, <2>1, <2>2
<1>10. EachProperty(R, g) = TextProperties(B, es)
  BY <1>4, <1>9 DEF EachProperty, TextProperties
<1> QED
  BY <1>1, <1>6, <1>8, <1>10

\* What comes back of a value of the level above S, by its kind.
BackByKind(n, S, v, m) ==
  \/ v.is = "array" /\ v.of \in Seq(S) /\ Back(m)[v] = PromiseAllOrSync(EachElement(Back(m), v.of))
  \/ /\ v.is = "Map" /\ v.of \in Seq(S \X S) /\ Distinct(v.of) /\ TextKeyed(v.of)
     /\ Back(m)[v] = ObjectOf(TextProperties(Back(m), v.of))
  \/ /\ v.is = "Map" /\ v.of \in Seq(S \X S) /\ Distinct(v.of) /\ ~TextKeyed(v.of)
     /\ Back(m)[v] = MapOf(EachEntry(Back(m), v.of))
  \/ v.is = "object" /\ v.of \in Seq(Payload \X S) /\ Back(m)[v] = ObjectOf(EachProperty(Back(m), v.of))
  \/ v.is = "reference" /\ v.of \in Known(n + 1) /\ Back(m)[v] = Resolver(m)[v.of]
  \/ v.is \in AtomKinds /\ v.of \in Payload /\ Back(m)[v] = v

\* There is no other way, and what is inside a value that was sent has been sent as well.
LEMMA BackCases ==
  ASSUME NEW n \in 0 .. Depth - 1, NEW v \in PlainValues[n + 1], NEW m, ConvertJSValueToDIF[v] # Thrown
  PROVE  BackByKind(n, PlainValues[n], v, m) /\ \A x \in Children(v) : ConvertJSValueToDIF[x] # Thrown
<1>1. PICK S, T, C : S = PlainValues[n] /\ T = Containers[n] /\ C = ConvertJSValueToDIF
  OBVIOUS
<1>2. v \in PlainValues[Depth] /\ C[v] = ConvertWith(C, v)
  BY <1>1, ConvertIs, PlainGrow, LevelAbove
<1>3. ConvertedByKind(n, S, v, C)
  BY <1>1, ConvertCases
<1>4. \A x \in Children(v) : C[x] # Thrown
  BY <1>1, <1>2, <1>3 DEF ConvertedByKind
<1>5. Back(m)[v] = Resolver(m)[Echo[C[v]]]
  BY <1>1, <1>2 DEF Back
<1>6. \A x \in S : x \in PlainValues[Depth] /\ C[x] \in T \cup {Thrown}
  BY <1>1, ConvertType, PlainGrow, LevelAbove
<1>7. \A x \in T : Echo[x] \in T
  BY <1>1, EchoType, LevelAbove
<1>8. PICK P : P = PlainValues[Depth]
  OBVIOUS
<1>9. Seq(S) \subseteq Seq(P) /\ Seq(Payload \X S) \subseteq Seq(Payload \X P)
       /\ Seq(S \X S) \subseteq Seq(P \X P)
  <2>1. S \subseteq P
    BY <1>6, <1>8
  <2> QED
    BY <2>1, Wider, PairsGrow
<1>10. \/ v.is = "reference" /\ v.of \in Known(n + 1) /\ C[v] = v.of
       \/ v.is = "array" /\ v.of \in Seq(S) /\ C[v] = Untyped(JSON("array", EachElement(C, v.of)))
       \/ v.is = "Map" /\ v.of \in Seq(S \X S) /\ Distinct(v.of) /\ C[v] = ConvertMap(EachEntry(C, v.of))
       \/ v.is = "object" /\ v.of \in Seq(Payload \X S) /\ C[v] = Untyped(JSON("object", EachProperty(C, v.of)))
       \/ v.is \in AtomKinds /\ v.of \in Payload /\ C[v] = ConvertAtom(v)
  BY <1>1, <1>2, <1>3 DEF ConvertedByKind
<1>11. CASE v.is = "reference" /\ v.of \in Known(n + 1) /\ C[v] = v.of
  <2>1. v.of \in Address /\ v.of \in DIFValueContainer
    BY <1>11, ConversionAssumption DEF Known
  <2>2. Echo[v.of] = v.of
    BY <2>1, EchoIs DEF EchoStep
  <2>3. Back(m)[v] = Resolver(m)[v.of]
    BY <1>5, <1>11, <2>2
  <2> QED
    BY <1>1, <1>4, <1>11, <2>3 DEF BackByKind
<1>12. CASE v.is = "array" /\ v.of \in Seq(S) /\ C[v] = Untyped(JSON("array", EachElement(C, v.of)))
  <2>1. PICK cs : cs = EachElement(C, v.of)
    OBVIOUS
  <2>2. cs \in Seq(T)
    <3>1. cs \in Seq(T \cup {Thrown})
      BY <1>6, <1>12, <2>1, EachIn
    <3>2. \A i \in DOMAIN v.of : v.of[i] \in S /\ v.of[i] \in Children(v)
      BY <1>12 DEF Children
    <3>3. DOMAIN cs = DOMAIN v.of /\ \A i \in DOMAIN cs : cs[i] = C[v.of[i]]
      BY <2>1 DEF EachElement
    <3>4. \A i \in DOMAIN cs : cs[i] \in T
      BY <1>4, <1>6, <3>2, <3>3
    <3> QED
      BY <3>1, <3>4, Narrower
  <2>3. EachElement(Echo, cs) \in Seq(T)
    BY <1>7, <2>2, EachIn
  <2>4. Echo[C[v]] = Untyped(JSON("array", EachElement(Echo, cs)))
    BY <1>1, <1>12, <2>1, <2>2, ListThrough
  <2>5. Back(m)[v] = PromiseAllOrSync(EachElement(Resolver(m), EachElement(Echo, cs)))
    BY <1>1, <1>5, <2>3, <2>4, ListThrough
  <2>6. Back(m)[v] = PromiseAllOrSync(EachElement(Back(m), v.of))
    BY <1>1, <1>8, <1>9, <1>12, <2>1, <2>5, BackEach
  <2> QED
    BY <1>1, <1>4, <1>12, <2>6 DEF BackByKind
<1>13. CASE v.is = "object" /\ v.of \in Seq(Payload \X S)
             /\ C[v] = Untyped(JSON("object", EachProperty(C, v.of)))
  <2>1. PICK cs : cs = EachProperty(C, v.of)
    OBVIOUS
  <2>2. cs \in Seq(Payload \X T)
    <3>1. cs \in Seq(Payload \X (T \cup {Thrown}))
      BY <1>6, <1>13, <2>1, EachIn
    <3>2. \A i \in DOMAIN v.of : v.of[i][1] \in Payload /\ v.of[i][2] \in S /\ v.of[i][2] \in Children(v)
      BY <1>13 DEF Children
    <3>3. DOMAIN cs = DOMAIN v.of /\ \A i \in DOMAIN cs : cs[i] = <<v.of[i][1], C[v.of[i][2]]>>
      BY <2>1 DEF EachProperty
    <3>4. \A i \in DOMAIN v.of : C[v.of[i][2]] \in T
      BY <1>4, <1>6, <3>2
    <3>5. \A i \in DOMAIN v.of : <<v.of[i][1], C[v.of[i][2]]>> \in Payload \X T
      BY <3>2, <3>4
    <3>6. ASSUME NEW i \in DOMAIN cs PROVE cs[i] \in Payload \X T
      <4>1. i \in DOMAIN v.of /\ cs[i] = <<v.of[i][1], C[v.of[i][2]]>>
        BY <3>3
      <4> QED
        BY <3>5, <4>1
    <3> QED
      BY <3>1, <3>6, Narrower
  <2>3. EachProperty(Echo, cs) \in Seq(Payload \X T)
    BY <1>7, <2>2, EachIn
  <2>4. Echo[C[v]] = Untyped(JSON("object", EachProperty(Echo, cs)))
    BY <1>1, <1>13, <2>1, <2>2, ObjectThrough
  <2>5. Back(m)[v] = ObjectOf(EachProperty(Resolver(m), EachProperty(Echo, cs)))
    BY <1>1, <1>5, <2>3, <2>4, ObjectThrough
  <2>6. Back(m)[v] = ObjectOf(EachProperty(Back(m), v.of))
    <3>1. v.of \in Seq(Payload \X P)
      BY <1>9, <1>13
    <3>2. EachProperty(Resolver(m), EachProperty(Echo, EachProperty(ConvertJSValueToDIF, v.of)))
            = EachProperty(Back(m), v.of)
      BY <1>8, <3>1, BackEach
    <3> QED
      BY <1>1, <2>1, <2>5, <3>2
  <2> QED
    BY <1>1, <1>4, <1>13, <2>6 DEF BackByKind
<1>14. CASE v.is = "Map" /\ v.of \in Seq(S \X S) /\ Distinct(v.of) /\ C[v] = ConvertMap(EachEntry(C, v.of))
  <2>1. PICK cs : cs = EachEntry(C, v.of)
    OBVIOUS
  <2>2. \A i \in DOMAIN v.of : /\ v.of[i][1] \in S /\ C[v.of[i][1]] # Thrown
                               /\ v.of[i][2] \in S /\ C[v.of[i][2]] # Thrown
    <3>1. \A i \in DOMAIN v.of : v.of[i][1] \in Children(v) /\ v.of[i][2] \in Children(v)
      BY <1>14 DEF Children
    <3>2. \A i \in DOMAIN v.of : v.of[i][1] \in S /\ v.of[i][2] \in S
      BY <1>14
    <3> QED
      BY <1>4, <3>1, <3>2
  <2>3. DOMAIN cs = DOMAIN v.of /\ \A i \in DOMAIN cs : cs[i] = <<C[v.of[i][1]], C[v.of[i][2]]>>
    BY <2>1 DEF EachEntry
  <2>4. cs \in Seq(T \X T)
    <3>1. cs \in Seq((T \cup {Thrown}) \X (T \cup {Thrown}))
      BY <1>6, <1>14, <2>1, EachIn
    <3>2. \A i \in DOMAIN v.of : C[v.of[i][1]] \in T /\ C[v.of[i][2]] \in T
      BY <1>6, <2>2
    <3>3. ASSUME NEW i \in DOMAIN cs PROVE cs[i] \in T \X T
      <4>1. i \in DOMAIN v.of /\ cs[i] = <<C[v.of[i][1]], C[v.of[i][2]]>>
        BY <2>3
      <4>2. C[v.of[i][1]] \in T /\ C[v.of[i][2]] \in T
        BY <3>2, <4>1
      <4> QED
        BY <4>1, <4>2
    <3> QED
      BY <3>1, <3>3, Narrower
  <2>5. TextKeys(cs) <=> TextKeyed(v.of)
    <3>1. \A i \in DOMAIN v.of : IsText(C[v.of[i][1]]) <=> v.of[i][1].is = "text"
      BY <1>1, <2>2, TextSent, LevelAbove
    <3> QED
      BY <2>3, <3>1 DEF TextKeys, TextKeyed
  <2>6. CASE TextKeyed(v.of)
    <3>1. Echo[C[v]] = Untyped(JSON("object", TextsToObject(Echo, cs)))
      BY <1>1, <1>14, <2>1, <2>4, <2>5, <2>6, MapThrough
    <3>2. TextsToObject(Echo, cs) \in Seq(Payload \X T)
      BY <1>1, <1>7, <2>4, <2>5, <2>6, TextsToObjectIn, LevelAbove
    <3>3. Back(m)[v] = ObjectOf(EachProperty(Resolver(m), TextsToObject(Echo, cs)))
      BY <1>1, <1>5, <3>1, <3>2, ObjectThrough
    <3>4. Back(m)[v] = ObjectOf(TextProperties(Back(m), v.of))
      BY <1>1, <1>14, <2>1, <2>2, <2>6, <3>3, BackTexts, LevelAbove
    <3> QED
      BY <1>1, <1>4, <1>14, <2>6, <3>4 DEF BackByKind
  <2>7. CASE ~TextKeyed(v.of)
    <3>1. Echo[C[v]] = Untyped(ArrayOfPairs(EachEntry(Echo, cs)))
      BY <1>1, <1>14, <2>1, <2>4, <2>5, <2>7, MapThrough
    <3>2. EachEntry(Echo, cs) \in Seq(T \X T)
      BY <1>7, <2>4, EachIn
    <3>3. EachEntry(Echo, cs) # <<>>
      <4>1. PICK i \in DOMAIN v.of : TRUE
        BY <2>7 DEF TextKeyed
      <4>2. i \in DOMAIN EachEntry(Echo, cs)
        BY <2>3, <4>1 DEF EachEntry
      <4> QED
        BY <4>2
    <3>4. Back(m)[v] = MapOf(EachEntry(Resolver(m), EachEntry(Echo, cs)))
      BY <1>1, <1>5, <3>1, <3>2, <3>3, PairsThrough
    <3>5. Back(m)[v] = MapOf(EachEntry(Back(m), v.of))
      <4>1. v.of \in Seq(P \X P)
        BY <1>9, <1>14
      <4>2. EachEntry(Resolver(m), EachEntry(Echo, EachEntry(ConvertJSValueToDIF, v.of))) = EachEntry(Back(m), v.of)
        BY <1>8, <4>1, BackEach
      <4> QED
        BY <1>1, <2>1, <3>4, <4>2
    <3> QED
      BY <1>1, <1>4, <1>14, <2>7, <3>5 DEF BackByKind
  <2> QED
    BY <2>6, <2>7
<1>15. CASE v.is \in AtomKinds /\ v.of \in Payload /\ C[v] = ConvertAtom(v)
  <2>1. v = Value(v.is, v.of)
    BY PlainCases
  <2>2. Back(m)[v] = v
    BY <1>1, <1>5, <1>15, <2>1, AtomThrough
  <2> QED
    BY <1>1, <1>4, <1>15, <2>2 DEF BackByKind
<1> QED
  BY <1>10, <1>11, <1>12, <1>13, <1>14, <1>15

\* If all that a value mentions is in memory, what comes back of it is what Normal says, or an
\* exception, as long as the same holds for what is inside it.
LEMMA BackStepNormal ==
  ASSUME NEW n \in 0 .. Depth - 1, NEW v \in PlainValues[n + 1], NEW m, ConvertJSValueToDIF[v] # Thrown,
         \A a \in Mentioned[v] : Needed[a] \subseteq m,
         \A x \in PlainValues[n] :
           ConvertJSValueToDIF[x] # Thrown /\ (\A a \in Mentioned[x] : Needed[a] \subseteq m)
             => Back(m)[x] \in {Thrown, Normal[x]}
  PROVE  Back(m)[v] \in {Thrown, Normal[v]}
<1>1. PICK S, V, B, w : S = PlainValues[n] /\ V = Values[n] /\ B = Back(m) /\ w = Back(m)[v]
  OBVIOUS
<1>2. v \in JSValue /\ v \in PlainValues[Depth] /\ v = Value(v.is, v.of)
  BY PlainIsResult, PlainGrow, ValuesGrow, LevelAbove, PlainCases DEF NoPromises
<1>3. \A x \in S : x \in V /\ ~IsPromise(x) /\ x.is # "promise" /\ Normal[x] \in NoPromises(V)
  BY <1>1, PlainIsResult, NormalType, ValueKinds, LevelAbove DEF NoPromises
<1>4. Children(v) \subseteq S
  BY <1>1, ChildrenBelow
<1>5. \A x \in Children(v) : B[x] \in {Thrown, Normal[x]}
  <2>1. \A x \in Children(v) : ConvertJSValueToDIF[x] # Thrown
    BY BackCases
  <2>2. Children(v) = Parts(v)
    BY <1>3, <1>4 DEF Parts
  <2>3. \A x \in Children(v) : Mentioned[x] \subseteq Mentioned[v]
    BY <1>2, <2>2, MentionedIs
  <2> QED
    BY <1>1, <1>4, <2>1, <2>3
<1>6. \A x \in S : Normal[x] # Thrown /\ Stored(Normal[x]) = Normal[x] /\ Normal[x] # Rejected
       /\ ~Pending(Normal[x])
  <2>1. \A y \in NoPromises(V) : y # Thrown /\ ~IsPromise(y)
    BY <1>1, ValueKinds, LevelAbove DEF NoPromises
  <2>2. \A y : ~IsPromise(y) => Stored(y) = y /\ y # Rejected /\ ~Pending(y)
    BY DEF Stored, Pending, Rejected, IsPromise, Value
  <2> QED
    BY <1>3, <2>1, <2>2
<1>7. Normal[v] = NormalStep(Normal, v) /\ NormalByKind(n, S, v, Normal)
  BY <1>1, <1>2, NormalIs, NormalCases
<1>8. BackByKind(n, S, v, m)
  BY <1>1, BackCases
<1>9. CASE v.is = "array"
  <2>1. v.of \in Seq(S) /\ w = PromiseAllOrSync(EachElement(B, v.of))
         /\ Normal[v] = Value("array", EachElement(Normal, v.of))
    BY <1>1, <1>7, <1>8, <1>9 DEF BackByKind, NormalByKind, AtomKinds
  <2>2. PICK vs : vs = EachElement(B, v.of)
    OBVIOUS
  <2>3. DOMAIN vs = DOMAIN v.of /\ \A i \in DOMAIN v.of : vs[i] = B[v.of[i]] /\ v.of[i] \in S
    BY <2>1, <2>2 DEF EachElement
  <2>4. \A i \in DOMAIN v.of : vs[i] \in {Thrown, Normal[v.of[i]]}
    BY <1>5, <1>9, <2>3 DEF Children
  <2>5. CASE \E i \in DOMAIN vs : vs[i] = Thrown
    <3>1. w = Thrown
      BY <2>1, <2>2, <2>5 DEF PromiseAllOrSync
    <3> QED
      BY <1>1, <3>1
  <2>6. CASE \A i \in DOMAIN vs : vs[i] # Thrown
    <3>1. \A i \in DOMAIN v.of : vs[i] = Normal[v.of[i]]
      BY <2>3, <2>4, <2>6
    <3>2. \A i \in DOMAIN vs : vs[i] # Rejected /\ ~Pending(vs[i])
      BY <1>6, <2>3, <3>1
    <3>3. w = Value("array", vs)
      BY <2>1, <2>2, <2>6, <3>2 DEF PromiseAllOrSync
    <3>4. vs = EachElement(Normal, v.of)
      BY <2>2, <2>3, <3>1 DEF EachElement
    <3> QED
      BY <1>1, <2>1, <3>3, <3>4
  <2> QED
    BY <2>5, <2>6
<1>10. ASSUME NEW ps, NEW qs, w = ObjectOf(ps), Normal[v] = Value("object", qs), DOMAIN ps = DOMAIN qs,
              ps = [i \in DOMAIN ps |-> <<ps[i][1], ps[i][2]>>], qs = [i \in DOMAIN qs |-> <<qs[i][1], qs[i][2]>>],
              \A i \in DOMAIN ps : ps[i][1] = qs[i][1] /\ ps[i][2] \in {Thrown, qs[i][2]}
               /\ Stored(qs[i][2]) = qs[i][2]
       PROVE  w \in {Thrown, Normal[v]}
  <2>1. CASE \E i \in DOMAIN ps : ps[i][2] = Thrown
    BY <1>10, <2>1 DEF ObjectOf
  <2>2. CASE ~ \E i \in DOMAIN ps : ps[i][2] = Thrown
    <3>1. w = Value("object", [i \in DOMAIN ps |-> <<ps[i][1], Stored(ps[i][2])>>])
      BY <1>10, <2>2 DEF ObjectOf
    <3>2. \A i \in DOMAIN ps : ps[i][1] = qs[i][1] /\ Stored(ps[i][2]) = qs[i][2]
      BY <1>10, <2>2
    <3>3. [i \in DOMAIN ps |-> <<ps[i][1], Stored(ps[i][2])>>] = [i \in DOMAIN qs |-> <<qs[i][1], qs[i][2]>>]
      BY <1>10, <3>2
    <3>4. [i \in DOMAIN ps |-> <<ps[i][1], Stored(ps[i][2])>>] = qs
      BY <1>10, <3>3
    <3> QED
      BY <1>10, <3>1, <3>4
  <2> QED
    BY <2>1, <2>2
<1>11. CASE v.is = "object"
  <2>1. v.of \in Seq(Payload \X S) /\ w = ObjectOf(EachProperty(B, v.of))
         /\ Normal[v] = Value("object", EachProperty(Normal, v.of))
    BY <1>1, <1>7, <1>8, <1>11 DEF BackByKind, NormalByKind, AtomKinds
  <2>2. PICK ps, qs : ps = EachProperty(B, v.of) /\ qs = EachProperty(Normal, v.of)
    OBVIOUS
  <2>3. /\ ps = [i \in DOMAIN v.of |-> <<v.of[i][1], B[v.of[i][2]]>>]
        /\ qs = [i \in DOMAIN v.of |-> <<v.of[i][1], Normal[v.of[i][2]]>>]
    BY <2>2 DEF EachProperty
  <2>4. \A i \in DOMAIN v.of : B[v.of[i][2]] \in {Thrown, Normal[v.of[i][2]]}
         /\ Stored(Normal[v.of[i][2]]) = Normal[v.of[i][2]]
    <3>1. \A i \in DOMAIN v.of : v.of[i][2] \in Children(v)
      BY <1>11 DEF Children
    <3> QED
      BY <1>4, <1>5, <1>6, <3>1
  <2>5. /\ DOMAIN ps = DOMAIN v.of /\ \A i \in DOMAIN v.of : ps[i][1] = v.of[i][1] /\ ps[i][2] = B[v.of[i][2]]
        /\ DOMAIN qs = DOMAIN v.of /\ \A i \in DOMAIN v.of : qs[i][1] = v.of[i][1]
            /\ qs[i][2] = Normal[v.of[i][2]]
    BY <2>3
  <2>6. ps = [i \in DOMAIN ps |-> <<ps[i][1], ps[i][2]>>] /\ qs = [i \in DOMAIN qs |-> <<qs[i][1], qs[i][2]>>]
    BY <2>3, <2>5
  <2>7. DOMAIN ps = DOMAIN qs
    BY <2>5
  <2>8. \A i \in DOMAIN ps : ps[i][1] = qs[i][1] /\ ps[i][2] \in {Thrown, qs[i][2]}
         /\ Stored(qs[i][2]) = qs[i][2]
    BY <2>4, <2>5
  <2> QED
    BY <1>1, <1>10, <2>1, <2>2, <2>6, <2>7, <2>8
<1>12. ASSUME v.is = "Map", v.of \in Seq(S \X S)
       PROVE  \A i \in DOMAIN v.of : /\ v.of[i][1] \in S /\ B[v.of[i][1]] \in {Thrown, Normal[v.of[i][1]]}
                                     /\ v.of[i][2] \in S /\ B[v.of[i][2]] \in {Thrown, Normal[v.of[i][2]]}
  <2>1. \A i \in DOMAIN v.of : v.of[i][1] \in Children(v) /\ v.of[i][2] \in Children(v)
    BY <1>12 DEF Children
  <2> QED
    BY <1>4, <1>5, <2>1
<1>13. CASE v.is = "Map" /\ TextKeyed(v.of)
  <2>1. /\ v.of \in Seq(S \X S) /\ w = ObjectOf(TextProperties(B, v.of))
        /\ Normal[v] = Value("object", TextProperties(Normal, v.of))
    BY <1>1, <1>7, <1>8, <1>13 DEF BackByKind, NormalByKind, AtomKinds
  <2>2. PICK ps, qs : ps = TextProperties(B, v.of) /\ qs = TextProperties(Normal, v.of)
    OBVIOUS
  <2>3. /\ ps = [i \in DOMAIN v.of |-> <<v.of[i][1].of, B[v.of[i][2]]>>]
        /\ qs = [i \in DOMAIN v.of |-> <<v.of[i][1].of, Normal[v.of[i][2]]>>]
    BY <2>2 DEF TextProperties
  <2>4. \A i \in DOMAIN v.of : B[v.of[i][2]] \in {Thrown, Normal[v.of[i][2]]}
         /\ Stored(Normal[v.of[i][2]]) = Normal[v.of[i][2]]
    BY <1>6, <1>12, <1>13, <2>1
  <2>5. /\ DOMAIN ps = DOMAIN v.of /\ \A i \in DOMAIN v.of : ps[i][1] = v.of[i][1].of
            /\ ps[i][2] = B[v.of[i][2]]
        /\ DOMAIN qs = DOMAIN v.of /\ \A i \in DOMAIN v.of : qs[i][1] = v.of[i][1].of
            /\ qs[i][2] = Normal[v.of[i][2]]
    BY <2>3
  <2>6. ps = [i \in DOMAIN ps |-> <<ps[i][1], ps[i][2]>>] /\ qs = [i \in DOMAIN qs |-> <<qs[i][1], qs[i][2]>>]
    BY <2>3, <2>5
  <2>7. DOMAIN ps = DOMAIN qs
    BY <2>5
  <2>8. \A i \in DOMAIN ps : ps[i][1] = qs[i][1] /\ ps[i][2] \in {Thrown, qs[i][2]}
         /\ Stored(qs[i][2]) = qs[i][2]
    BY <2>4, <2>5
  <2> QED
    BY <1>1, <1>10, <2>1, <2>2, <2>6, <2>7, <2>8
<1>14. CASE v.is = "Map" /\ ~TextKeyed(v.of)
  <2>1. /\ v.of \in Seq(S \X S) /\ Distinct(v.of) /\ w = MapOf(EachEntry(B, v.of))
        /\ Normal[v] = Value("Map", EachEntry(Normal, v.of))
    BY <1>1, <1>7, <1>8, <1>14 DEF BackByKind, NormalByKind, AtomKinds
  <2>2. PICK es, fs : es = EachEntry(B, v.of) /\ fs = EachEntry(Normal, v.of)
    OBVIOUS
  <2>3. /\ DOMAIN es = DOMAIN v.of /\ \A i \in DOMAIN v.of : es[i][1] = B[v.of[i][1]]
            /\ es[i][2] = B[v.of[i][2]]
        /\ DOMAIN fs = DOMAIN v.of /\ \A i \in DOMAIN v.of : fs[i][1] = Normal[v.of[i][1]]
            /\ fs[i][2] = Normal[v.of[i][2]]
    BY <2>2 DEF EachEntry
  <2>4. CASE \E i \in DOMAIN es : Thrown \in {es[i][1], es[i][2]}
    <3>1. w = Thrown
      BY <2>1, <2>2, <2>4 DEF MapOf
    <3> QED
      BY <1>1, <3>1
  <2>5. CASE ~ \E i \in DOMAIN es : Thrown \in {es[i][1], es[i][2]}
    <3>1. ASSUME NEW i \in DOMAIN v.of
          PROVE  /\ B[v.of[i][1]] = Normal[v.of[i][1]] /\ Stored(Normal[v.of[i][1]]) = Normal[v.of[i][1]]
                 /\ B[v.of[i][2]] = Normal[v.of[i][2]] /\ Stored(Normal[v.of[i][2]]) = Normal[v.of[i][2]]
      <4>1. /\ v.of[i][1] \in S /\ B[v.of[i][1]] \in {Thrown, Normal[v.of[i][1]]}
            /\ v.of[i][2] \in S /\ B[v.of[i][2]] \in {Thrown, Normal[v.of[i][2]]}
        BY <1>12, <1>14, <2>1
      <4>2. B[v.of[i][1]] # Thrown /\ B[v.of[i][2]] # Thrown
        BY <2>3, <2>5
      <4> QED
        BY <1>6, <4>1, <4>2
    <3>2. PICK st : st = [i \in DOMAIN es |-> <<Stored(es[i][1]), Stored(es[i][2])>>]
      OBVIOUS
    <3>3. w = Value("Map", SetEntries(st))
      BY <2>1, <2>2, <2>5, <3>2 DEF MapOf
    <3>4. \A i \in DOMAIN v.of : Stored(es[i][1]) = Normal[v.of[i][1]] /\ Stored(es[i][2]) = Normal[v.of[i][2]]
      BY <2>3, <3>1
    <3>5. st = fs
      BY <2>2, <2>3, <3>2, <3>4 DEF EachEntry
    <3>6. fs \in Seq(NoPromises(V) \X NoPromises(V))
      <4>1. \A x \in S : Normal[x] \in NoPromises(V)
        BY <1>3
      <4> QED
        BY <2>1, <2>2, <4>1, EachIn
    <3>7. Distinct(fs)
      <4>1. ASSUME NEW i \in DOMAIN fs, NEW j \in DOMAIN fs, SameKey(fs[i][1], fs[j][1]) PROVE i = j
        <5>1. v.of[i][1] \in S /\ v.of[j][1] \in S /\ i \in DOMAIN v.of /\ j \in DOMAIN v.of
          BY <1>12, <1>14, <2>1, <2>3
        <5>2. SameKey(Normal[v.of[i][1]], Normal[v.of[j][1]])
          BY <2>3, <4>1, <5>1
        <5>3. SameKey(v.of[i][1], v.of[j][1])
          BY <1>1, <5>1, <5>2, NormalKeys, LevelAbove
        <5> QED
          BY <2>1, <5>1, <5>3 DEF Distinct
      <4> QED
        BY <4>1 DEF Distinct
    <3>8. SetEntries(fs) = fs
      BY <3>6, <3>7, SetEntriesIs
    <3> QED
      BY <1>1, <2>1, <2>2, <3>3, <3>5, <3>8
  <2> QED
    BY <2>4, <2>5
<1>15. CASE v.is = "reference"
  <2>1. v.of \in Known(n + 1) /\ w = Resolver(m)[v.of] /\ Normal[v] = Pointed(v.of)
    BY <1>1, <1>7, <1>8, <1>15 DEF BackByKind, NormalByKind, AtomKinds
  <2>2. v.of \in Address
    BY <2>1 DEF Known
  <2>3. v.of \in Mentioned[v]
    BY <1>2, <1>15, MentionedIs
  <2>4. w \in {Thrown, Pointed(v.of)}
    BY <2>1, <2>2, <2>3, PointerNow
  <2> QED
    BY <1>1, <2>1, <2>4
<1>16. CASE v.is \in AtomKinds
  <2>1. w = v /\ Normal[v] = v
    BY <1>1, <1>7, <1>8, <1>16 DEF BackByKind, NormalByKind, AtomKinds
  <2> QED
    BY <1>1, <2>1
<1>17. v.is \in AtomKinds \cup {"reference", "array", "Map", "object"}
  BY <1>8 DEF BackByKind
<1> QED
  BY <1>1, <1>9, <1>11, <1>13, <1>14, <1>15, <1>16, <1>17

\* So for every value.
LEMMA BackNormal ==
  ASSUME NEW m
  PROVE  \A v \in PlainValues[Depth] :
           ConvertJSValueToDIF[v] # Thrown /\ (\A a \in Mentioned[v] : Needed[a] \subseteq m)
             => Resolver(m)[Echo[ConvertJSValueToDIF[v]]] \in {Thrown, Normal[v]}
<1> DEFINE I(v) == ConvertJSValueToDIF[v] # Thrown /\ (\A a \in Mentioned[v] : Needed[a] \subseteq m)
                     => Back(m)[v] \in {Thrown, Normal[v]}
           G == {n \in 0 .. Depth : \A v \in PlainValues[n] : I(v)}
<1>1. 0 \in G
  BY DepthType, PlainLevel
<1>2. ASSUME NEW n \in 0 .. Depth - 1, n \in G PROVE n + 1 \in G
  <2>1. \A v \in PlainValues[n + 1] : I(v)
    BY <1>2, BackStepNormal
  <2> QED
    BY <2>1, LevelAbove
<1>3. \A n \in 0 .. Depth : n \in G
  <2> HIDE DEF G
  <2> QED
    BY <1>1, <1>2, DepthType, Upwards
<1> QED
  BY <1>3, DepthType DEF Back

\* Loads make no difference to a value that comes back: it contains no promises.
LEMMA SettleNormal ==
  ASSUME NEW a, NEW l, NEW m
  PROVE  \A v \in PlainValues[Depth] : Settle(Normal[v], a, l, m) = Normal[v]
<1> DEFINE F == Settler(a, l, m)
           G == {n \in 0 .. Depth : \A v \in PlainValues[n] : F[Normal[v]] = Normal[v]}
<1>1. 0 \in G
  BY DepthType, PlainLevel
<1>2. ASSUME NEW n \in 0 .. Depth - 1, n \in G PROVE n + 1 \in G
  <2>1. ASSUME NEW v \in PlainValues[n + 1] PROVE F[Normal[v]] = Normal[v]
    <3>1. PICK S, f, w : S = PlainValues[n] /\ f = F /\ w = Normal[v]
      OBVIOUS
    <3>2. \A x \in S : f[Normal[x]] = Normal[x] /\ SettleEntered(f, Normal[x]) = Normal[x]
      <4>1. \A x \in S : f[Normal[x]] = Normal[x]
        BY <1>2, <3>1
      <4>2. \A x \in S : Normal[x].is # "promise"
        BY <3>1, NormalType, ValueKinds, LevelAbove DEF NoPromises
      <4> QED
        BY <4>1, <4>2 DEF SettleEntered
    <3>3. w \in JSValue
      BY <3>1, NormalType, ValuesGrow, LevelAbove DEF NoPromises
    <3>4. f[w] = SettleWith(f, w, a, l, m)
      BY <3>1, <3>3, SettlerIs DEF F
    <3> HIDE DEF F, G
    <3>5. w = NormalStep(Normal, v) /\ NormalByKind(n, S, v, Normal) /\ v = Value(v.is, v.of)
      BY <3>1, NormalIs, NormalCases, PlainCases, PlainGrow, LevelAbove
    <3>6. ASSUME v.of \in Seq(S) /\ w = Value("array", EachElement(Normal, v.of)) PROVE f[w] = w
      <4>1. f[w] = Value("array", EachElement(f, EachElement(Normal, v.of)))
        BY <3>4, <3>6 DEF SettleWith, Value
      <4>2. \A i \in DOMAIN v.of : v.of[i] \in S
        BY <3>6
      <4>3. EachElement(f, EachElement(Normal, v.of)) = EachElement(Normal, v.of)
        BY <3>2, <4>2 DEF EachElement
      <4> QED
        BY <3>6, <4>1, <4>3
    <3>7. ASSUME NEW ps, w = Value("object", ps), ps = [i \in DOMAIN ps |-> <<ps[i][1], ps[i][2]>>],
                 \A i \in DOMAIN ps : SettleEntered(f, ps[i][2]) = ps[i][2]
          PROVE  f[w] = w
      <4>1. f[w] = Value("object", [i \in DOMAIN ps |-> <<ps[i][1], SettleEntered(f, ps[i][2])>>])
        BY <3>4, <3>7 DEF SettleWith, Value
      <4>2. [i \in DOMAIN ps |-> <<ps[i][1], SettleEntered(f, ps[i][2])>>] = ps
        BY <3>7
      <4> QED
        BY <3>7, <4>1, <4>2
    <3>8. ASSUME v.of \in Seq(S \X S) /\ w = Value("object", TextProperties(Normal, v.of)) PROVE f[w] = w
      <4>1. \A i \in DOMAIN v.of : v.of[i][2] \in S
        BY <3>8
      <4>2. PICK ps : ps = TextProperties(Normal, v.of)
        OBVIOUS
      <4>3. /\ DOMAIN ps = DOMAIN v.of
            /\ \A i \in DOMAIN v.of : ps[i] = <<v.of[i][1].of, Normal[v.of[i][2]]>>
            /\ ps = [i \in DOMAIN ps |-> ps[i]]
        BY <4>2 DEF TextProperties
      <4>4. \A i \in DOMAIN ps : ps[i] = <<ps[i][1], ps[i][2]>> /\ ps[i][2] = Normal[v.of[i][2]]
        BY <4>3
      <4>5. ps = [i \in DOMAIN ps |-> <<ps[i][1], ps[i][2]>>]
        BY <4>3, <4>4
      <4>6. \A i \in DOMAIN ps : SettleEntered(f, ps[i][2]) = ps[i][2]
        BY <3>2, <4>1, <4>3, <4>4
      <4> QED
        BY <3>7, <3>8, <4>2, <4>5, <4>6
    <3>9. ASSUME v.of \in Seq(Payload \X S) /\ w = Value("object", EachProperty(Normal, v.of)) PROVE f[w] = w
      <4>1. \A i \in DOMAIN v.of : v.of[i][2] \in S
        BY <3>9
      <4>2. PICK ps : ps = EachProperty(Normal, v.of)
        OBVIOUS
      <4>3. /\ DOMAIN ps = DOMAIN v.of
            /\ \A i \in DOMAIN v.of : ps[i] = <<v.of[i][1], Normal[v.of[i][2]]>>
            /\ ps = [i \in DOMAIN ps |-> ps[i]]
        BY <4>2 DEF EachProperty
      <4>4. \A i \in DOMAIN ps : ps[i] = <<ps[i][1], ps[i][2]>> /\ ps[i][2] = Normal[v.of[i][2]]
        BY <4>3
      <4>5. ps = [i \in DOMAIN ps |-> <<ps[i][1], ps[i][2]>>]
        BY <4>3, <4>4
      <4>6. \A i \in DOMAIN ps : SettleEntered(f, ps[i][2]) = ps[i][2]
        BY <3>2, <4>1, <4>3, <4>4
      <4> QED
        BY <3>7, <3>9, <4>2, <4>5, <4>6
    <3>10. ASSUME v.of \in Seq(S \X S) /\ w = Value("Map", EachEntry(Normal, v.of)) PROVE f[w] = w
      <4>1. PICK es : es = EachEntry(Normal, v.of)
        OBVIOUS
      <4>2. f[w] = Value("Map", [i \in DOMAIN es |-> <<SettleEntered(f, es[i][1]), SettleEntered(f, es[i][2])>>])
        BY <3>4, <3>10, <4>1 DEF SettleWith, Value
      <4>3. \A i \in DOMAIN v.of : v.of[i][1] \in S /\ v.of[i][2] \in S
        BY <3>10
      <4>4. /\ DOMAIN es = DOMAIN v.of
            /\ \A i \in DOMAIN v.of : es[i] = <<Normal[v.of[i][1]], Normal[v.of[i][2]]>>
            /\ es = [i \in DOMAIN es |-> es[i]]
        BY <4>1 DEF EachEntry
      <4>5. \A i \in DOMAIN es : <<SettleEntered(f, es[i][1]), SettleEntered(f, es[i][2])>> = es[i]
        BY <3>2, <4>3, <4>4
      <4>6. [i \in DOMAIN es |-> <<SettleEntered(f, es[i][1]), SettleEntered(f, es[i][2])>>] = es
        BY <4>4, <4>5
      <4> QED
        BY <3>10, <4>1, <4>2, <4>6
    <3>11. ASSUME w = Pointed(v.of) PROVE f[w] = w
      BY <3>4, <3>11 DEF SettleWith, Pointed, Value
    <3>12. ASSUME v.is \in AtomKinds /\ w = v PROVE f[w] = w
      BY <3>4, <3>12 DEF SettleWith, AtomKinds
    <3>13. f[w] = w
      BY <3>5, <3>6, <3>8, <3>9, <3>10, <3>11, <3>12 DEF NormalByKind
    <3> QED
      BY <3>1, <3>13
  <2> QED
    BY <2>1, LevelAbove
<1>3. \A n \in 0 .. Depth : n \in G
  <2> HIDE DEF G
  <2> QED
    BY <1>1, <1>2, DepthType, Upwards
<1>4. \A v \in PlainValues[Depth] : F[Normal[v]] = Normal[v]
  BY <1>3, DepthType
<1>5. \A v \in PlainValues[Depth] : Normal[v] \in JSValue
  BY NormalType, DepthType DEF NoPromises, JSValue
<1> QED
  BY <1>4, <1>5, SettleType

-----------------------------------------------------------------------------
(* What is sent and handed back is the same value.                         *)

\* What the core hands back is resolved at once, to the same value, as the program could
\* only send references to what is loaded.
LEMMA ReturnedSame ==
  ASSUME NEW given \in Given, Accepted(given), Loaded(given), NEW d \in Returned(given), NEW v, v = ResultValue(d)
  PROVE  v \in {Thrown, Normal[given]}
<1>1. given \in PlainValues[Depth] /\ given # NoValue
  BY ExecutionAssumption
<1>2. d = Echo[ConvertJSValueToDIF[given]] /\ ConvertJSValueToDIF[given] # Thrown
  BY <1>1 DEF Returned, Accepted
<1>3. d \in DIFValueContainer
  <2>1. ConvertJSValueToDIF[given] \in Containers[Depth]
    BY <1>1, <1>2, ConvertType, DepthType
  <2> QED
    BY <1>2, <2>1, EchoType, DepthType DEF DIFValueContainer
<1>4. v = Resolver(memory)[d]
  <2>1. d # NoResult
    BY <1>3, ExecutionAssumption
  <2> QED
    BY <1>3, <2>1, ResolveType DEF ResultValue
<1> QED
  BY <1>1, <1>2, <1>4, BackNormal DEF Loaded

\* While the core runs the script of a call, what it was given stays loaded; once it has
\* returned, the call has got that value.
SameValue(r, m) ==
  r.given # NoValue =>
    /\ r.step = "core" => \A a \in Mentioned[r.given] : Needed[a] \subseteq m
    /\ r.step \in {"fulfilled", "resolving"} => r.value = Normal[r.given]

\* Every call returns what it was given.
SameCalls == \A c \in Call : SameValue(calls[c], memory)

\* Every step keeps what calls have got the same as what they were given.
LEMMA SameNext == IInv /\ SameCalls /\ [Next]_vars => SameCalls'
<1> SUFFICES ASSUME IInv, SameCalls, [Next]_vars PROVE SameCalls'
  OBVIOUS
<1>1. /\ calls = [c \in Call |-> calls[c]]
      /\ \A c \in Call : Typed(calls[c]) /\ SameValue(calls[c], memory)
  BY DEF IInv, SameCalls
<1>2. ASSUME NEW c \in Call, NEW r, SameValue(r, memory), calls' = [calls EXCEPT ![c] = r], UNCHANGED memory
      PROVE  SameCalls'
  <2>1. \A x \in Call : calls'[x] = IF x = c THEN r ELSE calls[x]
    BY <1>1, <1>2
  <2>2. \A x \in Call : SameValue(calls'[x], memory)
    BY <1>1, <1>2, <2>1
  <2>3. \A x \in Call : SameValue(calls'[x], memory')
    BY <1>2, <2>2
  <2> QED
    BY <2>3 DEF SameCalls
<1>3. ASSUME NEW a \in Address, NEW l, NEW m, Continue(a, l, m), memory \subseteq memory'
      PROVE  SameCalls'
  <2>1. ASSUME NEW x \in Call PROVE SameValue(calls'[x], memory')
    <3>1. PICK r, v, k : r = calls[x] /\ v = Settle(r.value, a, l, m) /\ k = memory'
      OBVIOUS
    <3>2. r \in [step : Step, given : Given \cup {NoValue}, value : JSValue \cup {Thrown}]
           /\ SameValue(r, memory)
      BY <1>1, <3>1 DEF Typed
    <3>3. PICK q : q = calls'[x]
      OBVIOUS
    <3>4. q = [r EXCEPT !.value = v, !.step = IF @ = "resolving" THEN Outcome(v) ELSE @]
      BY <1>3, <3>1, <3>3 DEF Continue
    <3>5. /\ q.given = r.given /\ q.value = v
          /\ q.step = IF r.step = "resolving" THEN Outcome(v) ELSE r.step
      BY <3>2, <3>4
    <3>6. Outcome(v) # "core"
      BY DEF Outcome
    <3>7. ASSUME r.given # NoValue, q.step = "core"
          PROVE  \A b \in Mentioned[q.given] : Needed[b] \subseteq k
      BY <1>3, <3>1, <3>2, <3>5, <3>6, <3>7 DEF SameValue
    <3>8. ASSUME r.given # NoValue, q.step \in {"fulfilled", "resolving"}
          PROVE  q.value = Normal[q.given]
      <4>1. r.step \in {"fulfilled", "resolving"}
        BY <3>5, <3>8
      <4>2. r.value = Normal[r.given] /\ r.given \in PlainValues[Depth]
        BY <3>2, <3>8, <4>1, ExecutionAssumption DEF SameValue
      <4>4. v = r.value
        BY <3>1, <4>2, SettleNormal
      <4> QED
        BY <3>5, <4>2, <4>4
    <3>9. SameValue(q, k)
      BY <3>5, <3>7, <3>8 DEF SameValue
    <3> QED
      BY <3>1, <3>3, <3>9
  <2> QED
    BY <2>1 DEF SameCalls
<1>4. ASSUME NEW c \in Call, NEW given \in Given \cup {NoValue}, Execute(c, given) PROVE SameCalls'
  <2> DEFINE r == [step |-> IF Accepted(given) THEN "core" ELSE "rejected", given |-> given, value |-> Thrown]
  <2>1. SameValue(r, memory)
    BY <1>4 DEF Execute, Obtainable, Loaded, SameValue
  <2>2. calls' = [calls EXCEPT ![c] = r] /\ UNCHANGED memory
    BY <1>4 DEF Execute
  <2> HIDE DEF r
  <2> QED
    BY <1>2, <2>1, <2>2
<1>5. ASSUME NEW c \in Call, NEW given \in Given \cup {NoValue}, ExecuteSync(c, given) PROVE SameCalls'
  <2>1. Accepted(given) /\ Obtainable(given)
    BY <1>5 DEF ExecuteSync
  <2>2. PICK d \in Returned(given) :
          calls' = [calls EXCEPT ![c] =
            [step |-> SyncOutcome(ResultValue(d)), given |-> given, value |-> ResultValue(d)]]
    BY <1>5 DEF ExecuteSync
  <2>3. PICK v, s : v = ResultValue(d) /\ s = SyncOutcome(ResultValue(d))
    OBVIOUS
  <2>4. given # NoValue => v \in {Thrown, Normal[given]}
    BY <2>1, <2>3, ReturnedSame DEF Obtainable
  <2>5. s \in {"fulfilled", "rejected"} /\ (v = Thrown => s = "rejected")
    BY <2>3 DEF SyncOutcome, Outcome
  <2> DEFINE r == [step |-> s, given |-> given, value |-> v]
  <2>6. SameValue(r, memory)
    BY <2>4, <2>5 DEF SameValue
  <2>7. calls' = [calls EXCEPT ![c] = r] /\ UNCHANGED memory
    BY <1>5, <2>2, <2>3 DEF ExecuteSync
  <2> HIDE DEF r
  <2> QED
    BY <1>2, <2>6, <2>7
<1>6. ASSUME NEW c \in Call, CoreReturns(c) PROVE SameCalls'
  <2>1. PICK given : given = calls[c].given
    OBVIOUS
  <2>2. /\ calls[c] \in [step : Step, given : Given \cup {NoValue}, value : JSValue \cup {Thrown}]
        /\ Accepted(given) /\ given \in Given \cup {NoValue}
        /\ given # NoValue => \A a \in Mentioned[given] : Needed[a] \subseteq memory
    BY <1>1, <1>6, <2>1 DEF CoreReturns, Typed, SameValue
  <2>3. PICK d \in Returned(given) :
          calls' = [calls EXCEPT ![c].step = Outcome(ResultValue(d)), ![c].value = ResultValue(d)]
    BY <1>6, <2>1 DEF CoreReturns
  <2>4. PICK v, s : v = ResultValue(d) /\ s = Outcome(ResultValue(d))
    OBVIOUS
  <2>5. given # NoValue => v \in {Thrown, Normal[given]}
    BY <2>2, <2>4, ReturnedSame DEF Loaded
  <2>6. s # "core" /\ (v = Thrown => s = "rejected")
    BY <2>4, Settled DEF Outcome
  <2> DEFINE r == [step |-> s, given |-> given, value |-> v]
  <2>7. SameValue(r, memory)
    BY <2>5, <2>6 DEF SameValue
  <2>8. calls' = [calls EXCEPT ![c] = r]
    <3>1. calls' = [calls EXCEPT ![c] = [calls[c] EXCEPT !.step = s, !.value = v]]
      BY <1>1, <2>3, <2>4
    <3>2. [calls[c] EXCEPT !.step = s, !.value = v] = r
      BY <2>1, <2>2, StepAndValue
    <3> QED
      BY <3>1, <3>2
  <2>9. UNCHANGED memory
    BY <1>6 DEF CoreReturns
  <2> HIDE DEF r
  <2> QED
    BY <1>2, <2>7, <2>8, <2>9
<1>7. ASSUME NEW c \in Call, CoreFails(c) PROVE SameCalls'
  <2>1. calls[c] \in [step : Step, given : Given \cup {NoValue}, value : JSValue \cup {Thrown}]
    BY <1>1 DEF Typed
  <2>2. PICK r : r = [calls[c] EXCEPT !.step = "rejected"]
    OBVIOUS
  <2>3. r.step = "rejected"
    BY <2>1, <2>2
  <2>4. SameValue(r, memory)
    BY <2>3 DEF SameValue
  <2>5. calls' = [calls EXCEPT ![c] = r] /\ UNCHANGED memory
    BY <1>1, <1>7, <2>2 DEF CoreFails
  <2> QED
    BY <1>2, <2>4, <2>5
<1>8. ASSUME NEW c \in Call, Forget(c) PROVE SameCalls'
  <2>1. SameValue(Idle, memory)
    BY DEF Idle, SameValue
  <2>2. calls' = [calls EXCEPT ![c] = Idle] /\ UNCHANGED memory
    BY <1>8 DEF Forget
  <2> QED
    BY <1>2, <2>1, <2>2
<1>9. ASSUME NEW a \in Address, Arrives(a) PROVE SameCalls'
  BY <1>3, <1>9 DEF Arrives
<1>10. ASSUME NEW a \in Address, LoadFails(a) PROVE SameCalls'
  BY <1>3, <1>10 DEF LoadFails
<1>11. CASE UNCHANGED vars
  BY <1>1, <1>11 DEF vars, SameCalls
<1> QED
  BY <1>4, <1>5, <1>6, <1>7, <1>8, <1>9, <1>10, <1>11 DEF Next

\* The two directions of the conversion are inverse to each other: whatever value is sent, the
\* value that comes back of it is the same, at every depth, but for Maps with texts as keys,
\* which become objects.
THEOREM Echoing == Spec => []EchoIsSame
<1>1. Init => SameCalls
  BY DEF Init, Idle, SameCalls, SameValue
<1>2. SameCalls => EchoIsSame
  BY DEF SameCalls, SameValue, EchoIsSame
<1> QED
  BY <1>1, <1>2, SameNext, Typing, PTL DEF Spec

=============================================================================
