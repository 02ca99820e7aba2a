------------------------- MODULE ListBinding_proofs -------------------------
(***************************************************************************)
(* What holds of a bound array for lists of any length and any values.     *)
(***************************************************************************)
EXTENDS ListBinding, SequenceTheorems, TLAPS

-----------------------------------------------------------------------------
(* Lists.                                                                  *)

\* Assigning an element, or past the end, makes a list.
LEMMA SetAtType ==
  ASSUME NEW s \in Seq(Element), NEW i \in Nat \ {0}, NEW v \in Element
  PROVE  /\ SetAt(s, i, v) \in Seq(Element)
         /\ Len(s) <= Len(SetAt(s, i, v))
<1> DEFINE n == IF i > Len(s) THEN i ELSE Len(s)
<1>1. n \in Nat
  OBVIOUS
<1>2. Empty \in Element
  BY DEF Element
<1>3. \A k \in 1..n : (IF k = i THEN v ELSE IF k <= Len(s) THEN s[k] ELSE Empty) \in Element
  BY <1>2
<1>4. SetAt(s, i, v) \in [1..n -> Element]
  BY <1>3 DEF SetAt
<1> QED
  BY <1>1, <1>4

LEMMA EmptiesType ==
  ASSUME NEW n \in Int
  PROVE  /\ Empties(n) \in Seq(Element)
         /\ Len(Empties(n)) = IF n > 0 THEN n ELSE 0
         /\ \A k \in 1..n : Empties(n)[k] = Empty
<1>1. Empty \in Element
  BY DEF Element
<1>2. CASE n > 0
  BY <1>1, <1>2 DEF Empties
<1>3. CASE n <= 0
  <2>1. Empties(n) = <<>>
    BY <1>3 DEF Empties
  <2> QED
    BY <1>3, <2>1
<1> QED
  BY <1>2, <1>3

\* A splice makes a list, whatever it cuts out.
LEMMA SpliceType ==
  ASSUME NEW s \in Seq(Element), NEW start \in Nat, NEW n \in Nat, NEW items \in Seq(Element)
  PROVE  Splice(s, start, n, items) \in Seq(Element)
<1> DEFINE from == Lesser(start, Len(s))
           to == Lesser(from + n, Len(s))
<1>1. from \in 0..Len(s) /\ to \in 0..Len(s)
  BY DEF Lesser
<1>2. SubSeq(s, 1, from) \in Seq(Element) /\ SubSeq(s, to + 1, Len(s)) \in Seq(Element)
  BY <1>1
<1> QED
  BY <1>2 DEF Splice

\* What a splice makes of a list that has what it cuts out.
LEMMA SpliceProperties ==
  ASSUME NEW s \in Seq(Element), NEW start \in Nat, NEW n \in Nat, NEW items \in Seq(Element),
         start + n <= Len(s)
  PROVE  /\ Len(Splice(s, start, n, items)) = Len(s) - n + Len(items)
         /\ \A k \in 1 .. Len(s) - n + Len(items) :
              Splice(s, start, n, items)[k] = IF k <= start THEN s[k]
                                              ELSE IF k <= start + Len(items) THEN items[k - start]
                                              ELSE s[k - Len(items) + n]
<1> DEFINE a == SubSeq(s, 1, start)
           b == SubSeq(s, start + n + 1, Len(s))
           ai == a \o items
<1>1. /\ a \in Seq(Element)
      /\ Len(a) = start
      /\ \A k \in 1..start : a[k] = s[k]
  BY SubSeqProperties
<1>2. /\ b \in Seq(Element)
      /\ Len(b) = Len(s) - start - n
      /\ \A k \in 1 .. Len(s) - start - n : b[k] = s[start + n + k]
  <2>1. \A k \in start + n + 1 .. Len(s) : s[k] \in Element
    OBVIOUS
  <2>2. /\ b \in Seq(Element)
        /\ Len(b) = IF start + n + 1 <= Len(s) THEN Len(s) - (start + n + 1) + 1 ELSE 0
        /\ \A k \in 1 .. Len(s) - (start + n + 1) + 1 : b[k] = s[start + n + 1 + k - 1]
    BY <2>1, SubSeqProperties
  <2> QED
    BY <2>2
<1>3. Splice(s, start, n, items) = ai \o b
  <2>1. Lesser(start, Len(s)) = start /\ Lesser(start + n, Len(s)) = start + n
    BY DEF Lesser
  <2> QED
    BY <2>1, Zenon DEF Splice
<1> HIDE DEF a, b
<1>4. /\ ai \in Seq(Element)
      /\ Len(ai) = start + Len(items)
      /\ \A k \in 1 .. start + Len(items) :
           ai[k] = IF k <= start THEN a[k] ELSE items[k - start]
  BY <1>1, ConcatProperties
<1> HIDE DEF ai
<1>5. /\ Len(ai \o b) = Len(ai) + Len(b)
      /\ \A k \in 1 .. Len(ai) + Len(b) :
           (ai \o b)[k] = IF k <= Len(ai) THEN ai[k] ELSE b[k - Len(ai)]
  BY <1>2, <1>4, ConcatProperties, SMTT(30)
<1>6. Len(ai \o b) = Len(s) - n + Len(items) /\ Len(ai) + Len(b) = Len(s) - n + Len(items)
  BY <1>2, <1>4, <1>5
<1>7. ASSUME NEW k \in 1 .. Len(s) - n + Len(items)
      PROVE  (ai \o b)[k] = IF k <= start THEN s[k]
                            ELSE IF k <= start + Len(items) THEN items[k - start]
                            ELSE s[k - Len(items) + n]
  <2>1. CASE k <= start
    BY <1>1, <1>2, <1>4, <1>5, <2>1
  <2>2. CASE ~(k <= start) /\ k <= start + Len(items)
    BY <1>2, <1>4, <1>5, <2>2, SMTT(30)
  <2>3. CASE ~(k <= start) /\ ~(k <= start + Len(items))
    <3>1. k - Len(ai) \in 1 .. Len(s) - start - n
      BY <1>4, <2>3
    <3>2. b[k - Len(ai)] = s[start + n + (k - Len(ai))]
      BY <1>2, <3>1
    <3>3. start + n + (k - Len(ai)) = k - Len(items) + n
      BY <1>4
    <3> QED
      BY <1>4, <1>5, <1>6, <2>3, <3>2, <3>3
  <2> QED
    BY <2>1, <2>2, <2>3, Zenon
<1> QED
  BY <1>3, <1>6, <1>7, Zenon

\* Filling up to a position and assigning there is assigning past the end.
LEMMA FilledSetAt ==
  ASSUME NEW s \in Seq(Element), NEW i \in Nat \ {0}, NEW v \in Element
  PROVE  SetAt(s \o Empties(i - 1 - Len(s)), i, v) = SetAt(s, i, v)
<1> DEFINE n == i - 1 - Len(s)
           e == Empties(n)
           t == s \o e
<1>1. n \in Int
  OBVIOUS
<1>2. /\ e \in Seq(Element)
      /\ Len(e) = IF n > 0 THEN n ELSE 0
      /\ \A k \in 1..n : e[k] = Empty
  BY <1>1, EmptiesType
<1> HIDE DEF e
<1>3. /\ Len(t) = Len(s) + Len(e)
      /\ \A k \in 1 .. Len(s) + Len(e) : t[k] = IF k <= Len(s) THEN s[k] ELSE e[k - Len(s)]
  BY <1>2, ConcatProperties
<1> HIDE DEF t
<1>4. \A k \in 1..Len(t) : t[k] = IF k <= Len(s) THEN s[k] ELSE Empty
  BY <1>2, <1>3
<1>5. Len(t) = IF i - 1 > Len(s) THEN i - 1 ELSE Len(s)
  BY <1>2, <1>3
<1>6. (IF i > Len(t) THEN i ELSE Len(t)) = (IF i > Len(s) THEN i ELSE Len(s))
  BY <1>5
<1>7. \A k \in 1..(IF i > Len(s) THEN i ELSE Len(s)) :
        (IF k = i THEN v ELSE IF k <= Len(t) THEN t[k] ELSE Empty)
        = (IF k = i THEN v ELSE IF k <= Len(s) THEN s[k] ELSE Empty)
  BY <1>4, <1>5
<1>8. SetAt(t, i, v) = SetAt(s, i, v)
  BY <1>6, <1>7 DEF SetAt
<1> QED
  BY <1>8 DEF t, e

\* Push: a splice at the end appends.
LEMMA SpliceAppends ==
  ASSUME NEW s \in Seq(Element), NEW v \in Element
  PROVE  Splice(s, Len(s), 0, <<v>>) = Append(s, v)
<1> DEFINE items == <<v>>
           start == Len(s)
           n == 0
           t == Splice(s, start, n, items)
           u == Append(s, v)
<1>1. items \in Seq(Element) /\ start \in Nat /\ n \in Nat /\ start + n <= Len(s)
  OBVIOUS
<1>2. /\ u \in Seq(Element)
      /\ Len(u) = Len(s) + 1
      /\ \A k \in 1 .. Len(s) + 1 : u[k] = IF k <= Len(s) THEN s[k] ELSE v
  OBVIOUS
<1>3. Len(items) = 1 /\ items[1] = v /\ start = Len(s) /\ n = 0
  OBVIOUS
<1> HIDE DEF items, u, start, n
<1>4. t \in Seq(Element)
  BY <1>1, SpliceType
<1>5. /\ Len(t) = Len(s) - n + Len(items)
      /\ \A k \in 1 .. Len(s) - n + Len(items) :
           t[k] = IF k <= start THEN s[k]
                  ELSE IF k <= start + Len(items) THEN items[k - start]
                  ELSE s[k - Len(items) + n]
  BY <1>1, SpliceProperties
<1> HIDE DEF t
<1>6. Len(t) = Len(u) /\ \A k \in 1..Len(t) : t[k] = u[k]
  BY <1>1, <1>2, <1>3, <1>5
<1>7. t = u
  BY <1>2, <1>4, <1>6, SeqEqual
<1> QED
  BY <1>7 DEF t, u, items, start, n

\* Unshift: a splice at the start prepends.
LEMMA SplicePrepends ==
  ASSUME NEW s \in Seq(Element), NEW v \in Element
  PROVE  Splice(s, 0, 0, <<v>>) = <<v>> \o s
<1> DEFINE items == <<v>>
           start == 0
           n == 0
           t == Splice(s, start, n, items)
           u == items \o s
<1>1. items \in Seq(Element) /\ start \in Nat /\ n \in Nat /\ start + n <= Len(s)
  OBVIOUS
<1>values. Len(items) = 1 /\ start = 0 /\ n = 0
  OBVIOUS
<1> HIDE DEF items, start, n
<1>2. /\ u \in Seq(Element)
      /\ Len(u) = Len(items) + Len(s)
      /\ \A k \in 1 .. Len(items) + Len(s) :
           u[k] = IF k <= Len(items) THEN items[k] ELSE s[k - Len(items)]
  BY <1>1, ConcatProperties
<1> HIDE DEF u
<1>3. t \in Seq(Element)
  BY <1>1, SpliceType
<1>4. /\ Len(t) = Len(s) - n + Len(items)
      /\ \A k \in 1 .. Len(s) - n + Len(items) :
           t[k] = IF k <= start THEN s[k]
                  ELSE IF k <= start + Len(items) THEN items[k - start]
                  ELSE s[k - Len(items) + n]
  BY <1>1, SpliceProperties
<1> HIDE DEF t
<1>5. Len(t) = Len(u) /\ \A k \in 1..Len(t) : t[k] = u[k]
  BY <1>1, <1>values, <1>2, <1>4
<1>6. t = u
  BY <1>2, <1>3, <1>5, SeqEqual
<1> QED
  BY <1>6 DEF t, u, items, start, n

\* Cutting the rest off leaves the first elements.
LEMMA SpliceCuts ==
  ASSUME NEW s \in Seq(Element), NEW n \in 0..Len(s)
  PROVE  Splice(s, n, Len(s) - n, <<>>) = SubSeq(s, 1, n)
<1> DEFINE items == <<>>
           rest == Len(s) - n
           t == Splice(s, n, rest, items)
           u == SubSeq(s, 1, n)
<1>1. items \in Seq(Element) /\ n \in Nat /\ rest \in Nat /\ n + rest <= Len(s)
  OBVIOUS
<1>2. Len(items) = 0 /\ rest = Len(s) - n
  OBVIOUS
<1> HIDE DEF items, rest
<1>3. t \in Seq(Element)
  BY <1>1, SpliceType
<1>4. /\ Len(t) = Len(s) - rest + Len(items)
      /\ \A k \in 1 .. Len(s) - rest + Len(items) :
           t[k] = IF k <= n THEN s[k]
                  ELSE IF k <= n + Len(items) THEN items[k - n]
                  ELSE s[k - Len(items) + rest]
  BY <1>1, SpliceProperties
<1> HIDE DEF t
<1>5. /\ u \in Seq(Element)
      /\ Len(u) = n
      /\ \A k \in 1..n : u[k] = s[k]
  BY SubSeqProperties
<1> HIDE DEF u
<1>6. Len(t) = Len(u) /\ \A k \in 1..Len(t) : t[k] = u[k]
  BY <1>1, <1>2, <1>4, <1>5
<1>7. t = u
  BY <1>3, <1>5, <1>6, SeqEqual
<1> QED
  BY <1>7 DEF t, u, items, rest

\* Fill: replacing a stretch by as many copies of v.
LEMMA SpliceFills ==
  ASSUME NEW s \in Seq(Element), NEW v \in Element,
         NEW first \in Nat, NEW last \in Nat, first < last, last <= Len(s)
  PROVE  Splice(s, first, last - first, Copies(last - first, v)) = Filled(s, first, last, v)
<1> DEFINE n == last - first
           items == Copies(n, v)
           t == Splice(s, first, n, items)
           u == Filled(s, first, last, v)
<1>0. n \in Nat /\ first + n <= Len(s)
  OBVIOUS
<1>values. n = last - first
  OBVIOUS
<1> HIDE DEF n
<1>1. items \in Seq(Element)
  BY <1>0 DEF Copies
<1>items. Len(items) = n /\ \A k \in 1..n : items[k] = v
  BY <1>0 DEF Copies
<1> HIDE DEF items
<1>2. t \in Seq(Element)
  BY <1>0, <1>1, SpliceType
<1>3. /\ Len(t) = Len(s) - n + Len(items)
      /\ \A k \in 1 .. Len(s) - n + Len(items) :
           t[k] = IF k <= first THEN s[k]
                  ELSE IF k <= first + Len(items) THEN items[k - first]
                  ELSE s[k - Len(items) + n]
  BY <1>0, <1>1, SpliceProperties
<1> HIDE DEF t
<1>4. \A k \in 1..Len(s) : t[k] = IF k \in first + 1 .. last THEN v ELSE s[k]
  BY <1>0, <1>values, <1>items, <1>3
<1>5. u \in [1..Len(s) -> Element]
  BY DEF Filled
<1>6. /\ u \in Seq(Element)
      /\ Len(u) = Len(s)
      /\ \A k \in 1..Len(s) : u[k] = IF k \in first + 1 .. last THEN v ELSE s[k]
  BY <1>5 DEF Filled
<1> HIDE DEF u
<1>7. Len(t) = Len(s)
  BY <1>0, <1>items, <1>3
<1>8. t = u
  BY <1>2, <1>4, <1>6, <1>7, SeqEqual
<1> QED
  BY <1>8 DEF t, u, items, n

\* Where a stretch begins and ends lies inside the list.
LEMMA PositionRange ==
  ASSUME NEW x \in Int, NEW length \in Nat
  PROVE  Position(x, length) \in 0..length
BY DEF Position, Lesser

-----------------------------------------------------------------------------
(* The type of the state.                                                  *)

LEMMA ListsType ==
  ASSUME NEW list \in Lists
  PROVE  list \in Seq(Supported) /\ list \in Seq(Element)
<1>1. PICK n \in 0..MaxLength : list \in [1..n -> Supported]
  BY DEF Lists
<1>2. n \in Nat
  BY ListBindingAssumption
<1> QED
  BY <1>1, <1>2 DEF Element

LEMMA FewType ==
  ASSUME NEW items \in Few
  PROVE  items \in Seq(Element)
<1>1. CASE items = <<>>
  BY <1>1
<1>2. ASSUME NEW v \in Supported, items = <<v>> PROVE items \in Seq(Element)
  BY <1>2 DEF Element
<1> QED
  BY <1>1, <1>2 DEF Few

LEMMA FilledType ==
  ASSUME TypeOK, NEW i \in Int
  PROVE  RuntimeFilled(i) \in Seq(Element)
<1>1. i - 1 - Len(jsList) \in Int
  BY DEF TypeOK
<1>2. Empties(i - 1 - Len(jsList)) \in Seq(Element)
  BY <1>1, EmptiesType
<1> QED
  BY <1>2 DEF TypeOK, RuntimeFilled

\* Lists that runtime and array become leave the state well-typed.
LEMMA BecomesType ==
  ASSUME TypeOK, NEW STATE r, NEW STATE a, r \in Seq(Element), a \in Seq(Element), Becomes(r, a)
  PROVE  TypeOK'
<1>1. guarded \subseteq Nat \ {0}
  BY DEF TypeOK
<1>2. DOMAIN a = 1..Len(a) /\ Len(a) \in Nat
  OBVIOUS
<1>3. StillGuarded(a) \subseteq 1..Len(a)
  <2> SUFFICES ASSUME NEW i \in StillGuarded(a) PROVE i \in 1..Len(a)
    OBVIOUS
  <2>1. i \in guarded /\ i <= Len(a)
    BY Zenon DEF StillGuarded
  <2>2. i \in Nat \ {0}
    BY <1>1, <2>1, Zenon
  <2> QED
    BY <1>2, <2>1, <2>2
<1>4. guarded' \subseteq DOMAIN jsList'
  BY <1>2, <1>3, Zenon DEF Becomes
<1> QED
  BY <1>4 DEF TypeOK, Becomes

\* The lists, the guarded positions and the assignment in progress stay well-typed
\* in every step (dif-handler.ts:1178-1412, list.ts).
THEOREM TypeCorrect == Spec => []TypeOK
<1>1. Init => TypeOK
  BY ListsType DEF Init, TypeOK
<1>2. TypeOK /\ [Next]_vars => TypeOK'
  <2> SUFFICES ASSUME TypeOK, [Next]_vars PROVE TypeOK'
    OBVIOUS
  <2> USE ListBindingAssumption
  <2>types. jsList \in Seq(Element) /\ runtimeList \in Seq(Element) /\ Supported \subseteq Element
    BY DEF TypeOK, Element
  <2>empty. <<>> \in Seq(Element) /\ Empty \in Element
    BY DEF Element
  <2>1. ASSUME NEW i \in 1..MaxLength, NEW v \in Value, AssignElement(i, v) PROVE TypeOK'
    <3>1. v \in Supported /\ i \in Nat \ {0}
      BY <2>1 DEF AssignElement
    <3>2. SetAt(RuntimeFilled(i), i, v) \in Seq(Element)
      BY <2>types, <3>1, FilledType, SetAtType
    <3>3. [index |-> i, value |-> v] \in [index: 1..MaxLength, value: Supported]
      BY <3>1
    <3> QED
      BY <2>1, <3>2, <3>3 DEF TypeOK, AssignElement
  <2>2. ASSUME NEW i \in 1..MaxLength, NEW v \in Value, AssignElementRefused(i, v) PROVE TypeOK'
    <3>1. RuntimeFilled(i) \in Seq(Element)
      BY FilledType
    <3> QED
      BY <2>2, <3>1 DEF TypeOK, AssignElementRefused
  <2>3. CASE ObserverReads
    BY <2>3 DEF TypeOK, ObserverReads
  <2>4. CASE CompleteAssignment
    <3>1. assignment \in [index: 1..MaxLength, value: Supported]
      BY <2>4 DEF TypeOK, CompleteAssignment, Idle
    <3>2. assignment.index \in Nat \ {0} /\ assignment.value \in Element
      BY <2>types, <3>1
    <3> DEFINE list == SetAt(jsList, assignment.index, assignment.value)
    <3>3. list \in Seq(Element) /\ Len(jsList) <= Len(list)
      BY <2>types, <3>2, SetAtType
    <3> HIDE DEF list
    <3>4. guarded \subseteq DOMAIN list
      BY <2>types, <3>3 DEF TypeOK
    <3>5. jsList' = list
      BY <2>4 DEF CompleteAssignment, list
    <3> QED
      BY <2>4, <3>3, <3>4, <3>5 DEF TypeOK, CompleteAssignment
  <2>5. CASE AssignmentThrows
    BY <2>5 DEF TypeOK, AssignmentThrows
  <2>6. ASSUME NEW n \in 0..MaxLength, AssignLength(n) PROVE TypeOK'
    <3>1. CASE n < Len(jsList)
      <4>1. Len(jsList) - n \in Nat /\ n \in Nat
        BY <2>types, <3>1
      <4>2. Splice(runtimeList, n, Len(jsList) - n, <<>>) \in Seq(Element)
        BY <2>types, <2>empty, <4>1, SpliceType
      <4>3. SubSeq(jsList, 1, n) \in Seq(Element)
        BY <2>types, <3>1
      <4>4. Becomes(Splice(runtimeList, n, Len(jsList) - n, <<>>), SubSeq(jsList, 1, n))
        BY <2>types, <2>6, <3>1 DEF AssignLength
      <4> QED
        BY <4>2, <4>3, <4>4, BecomesType
    <3>2. CASE n > Len(jsList)
      <4>1. n - Len(jsList) \in Int /\ n + 1 \in Int
        BY <2>types
      <4>2. RuntimeFilled(n + 1) \in Seq(Element)
        BY <4>1, FilledType
      <4>3. jsList \o Empties(n - Len(jsList)) \in Seq(Element)
        BY <2>types, <4>1, EmptiesType
      <4>4. Becomes(RuntimeFilled(n + 1), jsList \o Empties(n - Len(jsList)))
        BY <2>types, <2>6, <3>2 DEF AssignLength
      <4> QED
        BY <4>2, <4>3, <4>4, BecomesType
    <3> QED
      BY <2>6, <3>1, <3>2 DEF AssignLength
  <2>7. ASSUME NEW start \in 0..MaxLength, SpliceToEnd(start) PROVE TypeOK'
    <3>1. Len(jsList) - start \in Nat /\ start \in Nat
      BY <2>types, <2>7 DEF SpliceToEnd
    <3>2. Splice(runtimeList, start, Len(jsList) - start, <<>>) \in Seq(Element)
      BY <2>types, <2>empty, <3>1, SpliceType
    <3> QED
      BY <2>types, <2>7, <3>2, BecomesType DEF SpliceToEnd
  <2>8. ASSUME NEW v \in Supported, Push(v) PROVE TypeOK'
    <3>1. <<v>> \in Seq(Element) /\ Len(jsList) \in Nat /\ 0 \in Nat
      BY <2>types
    <3>2. Splice(runtimeList, Len(jsList), 0, <<v>>) \in Seq(Element)
      BY <2>types, <3>1, SpliceType
    <3>3. Append(jsList, v) \in Seq(Element)
      BY <2>types
    <3> QED
      BY <2>8, <3>2, <3>3, BecomesType DEF Push
  <2>9. ASSUME NEW v \in Supported, Unshift(v) PROVE TypeOK'
    <3>1. <<v>> \in Seq(Element) /\ 0 \in Nat
      BY <2>types
    <3>2. Splice(runtimeList, 0, 0, <<v>>) \in Seq(Element)
      BY <2>types, <3>1, SpliceType
    <3>3. <<v>> \o jsList \in Seq(Element)
      BY <2>types, <3>1
    <3> QED
      BY <2>9, <3>2, <3>3, BecomesType DEF Unshift
  <2>10. ASSUME NEW start \in 0..MaxLength, NEW n \in 0..MaxLength, NEW items \in Few,
                SpliceElements(start, n, items) \/ RemoteSplice(start, n, items)
         PROVE  TypeOK'
    <3>1. start \in Nat /\ n \in Nat /\ items \in Seq(Element)
      BY FewType
    <3>2. /\ Splice(runtimeList, start, n, items) \in Seq(Element)
          /\ Splice(jsList, start, n, items) \in Seq(Element)
      BY <2>types, <3>1, SpliceType
    <3> QED
      BY <2>10, <3>2, BecomesType DEF SpliceElements, RemoteSplice
  <2>11. ASSUME NEW v \in Supported, NEW from \in -MaxLength..MaxLength,
                NEW to \in -MaxLength..MaxLength, Fill(v, from, to)
         PROVE  TypeOK'
    <3> DEFINE first == Position(from, Len(jsList))
               last == Position(to, Len(jsList))
               items == Copies(last - first, v)
               filled == Filled(jsList, first, last, v)
    <3>1. first \in Nat /\ last \in Nat
      <4>1. from \in Int /\ to \in Int /\ Len(jsList) \in Nat
        BY <2>types
      <4>2. first \in 0..Len(jsList) /\ last \in 0..Len(jsList)
        BY <4>1, PositionRange, Zenon
      <4> QED
        BY <4>1, <4>2, SMT
    <3>2. Becomes(Splice(runtimeList, first, last - first, items), filled) /\ first < last
      BY <2>11 DEF Fill
    <3> HIDE DEF first, last
    <3>3. filled \in Seq(Element)
      <4>1. DOMAIN jsList = 1..Len(jsList) /\ Len(jsList) \in Nat
        BY <2>types
      <4>2. \A k \in 1..Len(jsList) :
              (IF k \in first + 1 .. last THEN v ELSE jsList[k]) \in Element
        BY <2>types
      <4>3. filled \in [1..Len(jsList) -> Element]
        BY <4>1, <4>2 DEF Filled
      <4> QED
        BY <4>1, <4>3
    <3>4. items \in Seq(Element) /\ last - first \in Nat
      BY <2>types, <3>1, <3>2 DEF Copies
    <3>5. Splice(runtimeList, first, last - first, items) \in Seq(Element)
      BY <2>types, <3>1, <3>4, SpliceType
    <3> QED
      BY <3>2, <3>3, <3>5, BecomesType
  <2>12. ASSUME NEW i \in 1..MaxLength, DeleteElement(i) PROVE TypeOK'
    <3>1. [jsList EXCEPT ![i] = Empty] \in Seq(Element)
      BY <2>types, <2>empty, <2>12 DEF DeleteElement
    <3> QED
      BY <2>types, <2>12, <3>1, BecomesType DEF DeleteElement
  <2>13. CASE ChangeObservers
    BY <2>13 DEF TypeOK, ChangeObservers
  <2>14. ASSUME NEW i \in 1..MaxLength, NEW v \in Supported, RemoteSet(i, v) PROVE TypeOK'
    <3>1. i \in Nat \ {0} /\ v \in Element
      BY <2>types
    <3>2. SetAt(runtimeList, i, v) \in Seq(Element) /\ SetAt(jsList, i, v) \in Seq(Element)
      BY <2>types, <3>1, SetAtType
    <3> QED
      BY <2>14, <3>2, BecomesType DEF RemoteSet
  <2>15. ASSUME NEW v \in Supported, RemoteAppend(v) PROVE TypeOK'
    <3>1. <<v>> \in Seq(Element) /\ Len(jsList) \in Nat /\ 0 \in Nat
      BY <2>types
    <3>2. Append(runtimeList, v) \in Seq(Element) /\ Append(jsList, v) \in Seq(Element)
      BY <2>types
    <3>3. Splice(Append(runtimeList, v), Len(jsList), 0, <<v>>) \in Seq(Element)
      BY <3>1, <3>2, SpliceType
    <3> QED
      BY <2>15, <3>2, <3>3, BecomesType DEF RemoteAppend
  <2>16. ASSUME NEW i \in 1..MaxLength, RemoteDelete(i) PROVE TypeOK'
    <3>1. i - 1 \in Nat /\ 1 \in Nat
      OBVIOUS
    <3>2. /\ Splice(runtimeList, i - 1, 1, <<>>) \in Seq(Element)
          /\ Splice(jsList, i - 1, 1, <<>>) \in Seq(Element)
      BY <2>types, <2>empty, <3>1, SpliceType
    <3> QED
      BY <2>16, <3>2, BecomesType DEF RemoteDelete
  <2>17. CASE RemoteClear
    BY <2>empty, <2>17, BecomesType DEF RemoteClear
  <2>18. ASSUME NEW list \in Lists, RemoteReplace(list) PROVE TypeOK'
    <3>1. list \in Seq(Element) /\ list \o list \in Seq(Element)
      BY ListsType
    <3> QED
      BY <2>18, <3>1 DEF TypeOK, RemoteReplace
  <2>19. CASE UNCHANGED vars
    BY <2>19 DEF TypeOK, vars
  <2>20. CASE LocalOperation
    BY <2>1, <2>2, <2>3, <2>4, <2>5, <2>6, <2>7, <2>8, <2>9, <2>10, <2>11, <2>12, <2>13, <2>20
    DEF LocalOperation
  <2>21. CASE RemoteOperation
    BY <2>10, <2>14, <2>15, <2>16, <2>17, <2>18, <2>21 DEF RemoteOperation
  <2> QED
    BY <2>19, <2>20, <2>21 DEF Next
<1> QED
  BY <1>1, <1>2, PTL DEF Spec

-----------------------------------------------------------------------------
(* Array and runtime.                                                      *)

\* When both take up the same contents, the array still holds what the runtime holds.
LEMMA BecomesMirrored ==
  ASSUME NEW STATE r, NEW STATE a, Idle, Becomes(r, a), r = a
  PROVE  Mirrored'
BY DEF Becomes, Idle, Mirrored

\* For lists of any length: an operation that is not one of Diverges takes a mirrored
\* list to a mirrored list (dif-handler.ts:1178-1412, list.ts).
THEOREM MirrorIsKept == Spec => KeepsMirror
<1>1. TypeOK /\ [Next]_vars => [Mirrored => Mirrored' \/ Diverges]_vars
  <2> SUFFICES ASSUME TypeOK, Next, Mirrored, ~Diverges PROVE Mirrored'
    OBVIOUS
  <2> USE ListBindingAssumption
  <2>types. jsList \in Seq(Element) /\ runtimeList \in Seq(Element) /\ Supported \subseteq Element
    BY DEF TypeOK, Element
  <2>same. Idle => runtimeList = jsList
    BY DEF Mirrored
  <2>1. ASSUME NEW i \in 1..MaxLength, NEW v \in Value, AssignElement(i, v) PROVE Mirrored'
    <3>1. v \in Supported /\ i \in Nat \ {0} /\ Idle
      BY <2>1 DEF AssignElement
    <3>2. SetAt(jsList \o Empties(i - 1 - Len(jsList)), i, v) = SetAt(jsList, i, v)
      BY <2>types, <3>1, FilledSetAt
    <3>3. runtimeList' = SetAt(jsList, i, v) /\ jsList' = jsList
      BY <2>1, <2>same, <3>1, <3>2, Zenon DEF AssignElement, RuntimeFilled
    <3>4. [index |-> i, value |-> v] \in [index: 1..MaxLength, value: Supported]
      BY <3>1
    <3>5. assignment' = [index |-> i, value |-> v] /\ ~Idle'
      BY <2>1, <3>4 DEF AssignElement, Idle, Supported
    <3>6. assignment'.index = i /\ assignment'.value = v
      BY <3>5
    <3> QED
      BY <3>3, <3>5, <3>6, Zenon DEF Mirrored
  <2>2. CASE ObserverReads
    BY <2>2 DEF ObserverReads, Mirrored, Idle
  <2>3. CASE CompleteAssignment
    BY <2>3 DEF CompleteAssignment, Mirrored, Idle
  <2>4. ASSUME NEW n \in 0..MaxLength, AssignLength(n) PROVE Mirrored'
    <3>1. Idle /\ runtimeList = jsList
      BY <2>4, <2>same DEF AssignLength
    <3>2. CASE n < Len(jsList)
      <4>1. n \in 0..Len(jsList)
        BY <2>types, <3>2
      <4>2. Splice(jsList, n, Len(jsList) - n, <<>>) = SubSeq(jsList, 1, n)
        BY <2>types, <4>1, SpliceCuts
      <4>3. Becomes(Splice(runtimeList, n, Len(jsList) - n, <<>>), SubSeq(jsList, 1, n))
        BY <2>types, <2>4, <3>2 DEF AssignLength
      <4> QED
        BY <3>1, <4>2, <4>3, BecomesMirrored, Zenon
    <3>3. CASE n > Len(jsList)
      <4>1. n + 1 - 1 - Len(jsList) = n - Len(jsList)
        BY <2>types
      <4>2. Becomes(RuntimeFilled(n + 1), jsList \o Empties(n - Len(jsList)))
        BY <2>types, <2>4, <3>3 DEF AssignLength
      <4>3. RuntimeFilled(n + 1) = runtimeList \o Empties(n + 1 - 1 - Len(jsList))
        BY DEF RuntimeFilled
      <4>4. RuntimeFilled(n + 1) = jsList \o Empties(n - Len(jsList))
        BY <3>1, <4>1, <4>3
      <4> QED
        BY <3>1, <4>2, <4>4, BecomesMirrored, Zenon
    <3> QED
      BY <2>4, <3>2, <3>3 DEF AssignLength
  <2>5. ASSUME NEW v \in Supported, Push(v) PROVE Mirrored'
    <3>1. Idle /\ Becomes(Splice(runtimeList, Len(jsList), 0, <<v>>), Append(jsList, v))
      BY <2>5 DEF Push
    <3>2. Splice(jsList, Len(jsList), 0, <<v>>) = Append(jsList, v)
      BY <2>types, SpliceAppends
    <3> QED
      BY <2>same, <3>1, <3>2, BecomesMirrored, Zenon
  <2>6. ASSUME NEW v \in Supported, Unshift(v) PROVE Mirrored'
    <3>1. Idle /\ Becomes(Splice(runtimeList, 0, 0, <<v>>), <<v>> \o jsList)
      BY <2>6 DEF Unshift
    <3>2. Splice(jsList, 0, 0, <<v>>) = <<v>> \o jsList
      BY <2>types, SplicePrepends
    <3> QED
      BY <2>same, <3>1, <3>2, BecomesMirrored, Zenon
  <2>7. ASSUME NEW start \in 0..MaxLength, NEW n \in 0..MaxLength, NEW items \in Few,
               SpliceElements(start, n, items) \/ RemoteSplice(start, n, items)
        PROVE  Mirrored'
    BY <2>same, <2>7, BecomesMirrored, Zenon DEF SpliceElements, RemoteSplice
  <2>8. ASSUME NEW v \in Supported, NEW from \in -MaxLength..MaxLength,
               NEW to \in -MaxLength..MaxLength, Fill(v, from, to)
        PROVE  Mirrored'
    <3> DEFINE first == Position(from, Len(jsList))
               last == Position(to, Len(jsList))
               items == Copies(last - first, v)
               filled == Filled(jsList, first, last, v)
    <3>1. first \in 0..Len(jsList) /\ last \in 0..Len(jsList)
      <4>1. from \in Int /\ to \in Int /\ Len(jsList) \in Nat
        BY <2>types
      <4> QED
        BY <4>1, PositionRange, Zenon
    <3>2. /\ Idle
          /\ Becomes(Splice(runtimeList, first, last - first, items), filled)
          /\ first < last
      BY <2>8 DEF Fill
    <3> HIDE DEF first, last
    <3>3. Splice(jsList, first, last - first, items) = filled
      <4>1. /\ first \in Nat /\ last \in Nat /\ first < last /\ last <= Len(jsList)
            /\ v \in Element
        BY <2>types, <3>1, <3>2
      <4> QED
        BY <2>types, <4>1, SpliceFills
    <3> QED
      BY <2>same, <3>2, <3>3, BecomesMirrored, Zenon
  <2>9. CASE ChangeObservers
    BY <2>9 DEF ChangeObservers, Mirrored, Idle
  <2>10. CASE LocalOperation
    <3>1. /\ \A n \in 0..MaxLength : ~SpliceToEnd(n)
          /\ \A i \in 1..MaxLength : ~DeleteElement(i)
          /\ \A i \in 1..MaxLength, v \in Value : ~AssignElementRefused(i, v)
          /\ ~AssignmentThrows
      BY DEF Diverges
    <3> QED
      BY <2>1, <2>2, <2>3, <2>4, <2>5, <2>6, <2>7, <2>8, <2>9, <2>10, <3>1 DEF LocalOperation
  <2>11. CASE RemoteOperation
    <3>1. ASSUME NEW i \in 1..MaxLength, NEW v \in Supported, RemoteSet(i, v) PROVE Mirrored'
      BY <2>same, <3>1, BecomesMirrored, Zenon DEF RemoteSet
    <3>2. ASSUME NEW i \in 1..MaxLength, RemoteDelete(i) PROVE Mirrored'
      BY <2>same, <3>2, BecomesMirrored, Zenon DEF RemoteDelete
    <3>3. CASE RemoteClear
      BY <3>3, BecomesMirrored, Zenon DEF RemoteClear
    <3> QED
      BY <2>7, <2>11, <3>1, <3>2, <3>3 DEF RemoteOperation, Diverges
  <2> QED
    BY <2>10, <2>11 DEF Next
<1>2. Spec => [][Mirrored => Mirrored' \/ Diverges]_vars
  BY <1>1, TypeCorrect, PTL DEF Spec
<1> QED
  BY <1>2 DEF KeepsMirror
=============================================================================
