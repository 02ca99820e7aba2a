---------------------------- MODULE Pipe_proofs ----------------------------
(***************************************************************************)
(* For any bytes, sizes of messages and sizes of read buffers: the         *)
(* language server takes nothing for the end but the end, and each of the  *)
(* two directions implements ByteStream.                                   *)
(***************************************************************************)
EXTENDS Pipe, SequenceTheorems, WellFoundedInduction, TLAPS

-----------------------------------------------------------------------------
(* Concatenating the chunks of a channel.  FlattenSeq is recursive; what   *)
(* it returns is found by induction on numbers, in the form that a set of  *)
(* counterexamples would have a smallest element.                          *)

\* A set of numbers that is not empty has a smallest one.
LEMMA SmallestNumber ==
  ASSUME NEW T \in SUBSET Nat, T # {}
  PROVE  \E n \in T : \A m \in T : n <= m
<1> DEFINE less == OpToRel(<, Nat)
<1>1. IsWellFoundedOn(less, Nat)
  BY NatLessThanWellFounded
<1>2. \A m, n \in Nat : m < n => <<m, n>> \in less
  BY DEF OpToRel
<1> HIDE DEF less
<1>3. PICK n \in T : \A m \in T : <<m, n>> \notin less
  BY <1>1, WFMin
<1>4. ASSUME NEW m \in T PROVE n <= m
  <2>1. m \in Nat /\ n \in Nat
    OBVIOUS
  <2>2. ~(m < n)
    BY <1>2, <1>3, <2>1
  <2> QED
    BY <2>1, <2>2
<1> QED
  BY <1>4

\* The equation by which FlattenSeq is defined, for the first n sequences of s.
Joined(f, s, i) == IF i = 1 THEN s[i] ELSE f[i - 1] \o s[i]

Joins(f, s, n) == \A i \in 1 .. n : f[i] = Joined(f, s, i)

LEMMA JoinsExists ==
  ASSUME NEW S, NEW s \in Seq(Seq(S))
  PROVE  \E f \in [1 .. Len(s) -> Seq(S)] : Joins(f, s, Len(s))
<1> DEFINE T == {n \in 0 .. Len(s) : ~ \E f \in [1 .. n -> Seq(S)] : Joins(f, s, n)}
<1>1. Len(s) \in Nat /\ \A i \in 1 .. Len(s) : s[i] \in Seq(S)
  OBVIOUS
<1>2. CASE T # {}
  <2>1. T \in SUBSET Nat
    BY <1>1
  <2>2. PICK n \in T : \A m \in T : n <= m
    <3> HIDE DEF T
    <3> QED
      BY <1>2, <2>1, SmallestNumber
  <2>3. n # 0
    <3>1. [i \in 1 .. 0 |-> <<>>] \in [1 .. 0 -> Seq(S)] /\ Joins([i \in 1 .. 0 |-> <<>>], s, 0)
      BY DEF Joins
    <3> QED
      BY <3>1
  <2>4. n \in Nat /\ n >= 1 /\ n <= Len(s) /\ n - 1 \in 0 .. Len(s) /\ ~(n <= n - 1)
    BY <1>1, <2>3
  <2>5. n - 1 \notin T
    <3> HIDE DEF T
    <3> QED
      BY <2>2, <2>4
  <2>6. PICK f \in [1 .. n - 1 -> Seq(S)] : Joins(f, s, n - 1)
    BY <2>4, <2>5
  <2> DEFINE g == [i \in 1 .. n |-> IF i < n THEN f[i] ELSE Joined(f, s, n)]
  <2>7. Joined(f, s, n) \in Seq(S)
    <3>1. CASE n = 1
      BY <3>1, <1>1, <2>4 DEF Joined
    <3>2. CASE n # 1
      <4>1. n - 1 \in 1 .. n - 1 /\ n \in 1 .. Len(s)
        BY <3>2, <2>4, <1>1
      <4>2. f[n - 1] \in Seq(S) /\ s[n] \in Seq(S)
        BY <1>1, <2>6, <4>1
      <4> QED
        BY <3>2, <4>2, ConcatProperties DEF Joined
    <3> QED
      BY <3>1, <3>2
  <2>8. \A i \in 1 .. n : i = n \/ i \in 1 .. n - 1
    BY <2>4
  <2>9. \A i \in 1 .. n - 1 : g[i] = f[i] /\ f[i] \in Seq(S)
    BY <2>4, <2>6
  <2>10. g \in [1 .. n -> Seq(S)] /\ g[n] = Joined(f, s, n)
    BY <2>4, <2>7, <2>8, <2>9
  <2> HIDE DEF g
  <2>11. Joins(g, s, n)
    <3>1. \A i \in 1 .. n : i # 1 => i - 1 \in 1 .. n - 1
      BY <2>4
    <3>2. \A i \in 1 .. n : Joined(g, s, i) = Joined(f, s, i)
      BY <2>9, <3>1 DEF Joined
    <3> QED
      BY <2>6, <2>8, <2>9, <2>10, <3>2 DEF Joins
  <2> QED
    BY <2>2, <2>10, <2>11
<1>3. CASE T = {}
  <2>1. Len(s) \in 0 .. Len(s)
    BY <1>1
  <2> QED
    BY <1>3, <2>1
<1> QED
  BY <1>2, <1>3

LEMMA JoinsUnique ==
  ASSUME NEW s, NEW n \in Nat, NEW f, NEW g, Joins(f, s, n), Joins(g, s, n)
  PROVE  \A i \in 1 .. n : f[i] = g[i]
<1> DEFINE T == {i \in 1 .. n : f[i] # g[i]}
<1>1. ASSUME T # {} PROVE FALSE
  <2>1. T \in SUBSET Nat
    OBVIOUS
  <2>2. PICK i \in T : \A j \in T : i <= j
    <3> HIDE DEF T
    <3> QED
      BY <1>1, <2>1, SmallestNumber
  <2>3. i \in 1 .. n /\ f[i] # g[i]
    OBVIOUS
  <2>4. i # 1
    BY <2>3 DEF Joins, Joined
  <2>5. i - 1 \in 1 .. n /\ ~(i <= i - 1)
    BY <2>3, <2>4
  <2>6. f[i - 1] = g[i - 1]
    <3>1. i - 1 \notin T
      <4> HIDE DEF T
      <4> QED
        BY <2>2, <2>5
    <3> QED
      BY <2>5, <3>1
  <2> QED
    BY <2>3, <2>4, <2>6 DEF Joins, Joined
<1> QED
  BY <1>1

\* FlattenSeq by that equation.
LEMMA FlattenJoins ==
  ASSUME NEW S, NEW s \in Seq(Seq(S)), s # <<>>, NEW f, Joins(f, s, Len(s))
  PROVE  FlattenSeq(s) = f[Len(s)]
<1> DEFINE e(g) == [i \in 1 .. Len(s) |-> IF i = 1 THEN s[i] ELSE g[i - 1] \o s[i]]
           flatten == CHOOSE g : g = e(g)
<1>1. Len(s) \in Nat /\ Len(s) # 0 /\ Len(s) \in 1 .. Len(s)
  OBVIOUS
<1>2. FlattenSeq(s) = flatten[Len(s)]
  BY <1>1 DEF FlattenSeq
<1>3. PICK g \in [1 .. Len(s) -> Seq(S)] : Joins(g, s, Len(s))
  BY JoinsExists
<1>4. g = e(g)
  BY <1>3 DEF Joins, Joined
<1>5. flatten = e(flatten)
  <2> HIDE DEF e
  <2> QED
    BY <1>4
<1> HIDE DEF flatten
<1>6. Joins(flatten, s, Len(s))
  BY <1>5 DEF Joins, Joined
<1> QED
  BY <1>1, <1>2, <1>6, JoinsUnique

LEMMA FlattenType ==
  ASSUME NEW S, NEW s \in Seq(Seq(S))
  PROVE  FlattenSeq(s) \in Seq(S)
<1>1. CASE s = <<>>
  BY <1>1 DEF FlattenSeq
<1>2. CASE s # <<>>
  <2>1. PICK f \in [1 .. Len(s) -> Seq(S)] : Joins(f, s, Len(s))
    BY JoinsExists
  <2>2. Len(s) \in 1 .. Len(s)
    BY <1>2
  <2>3. f[Len(s)] \in Seq(S)
    BY <2>1, <2>2, Zenon
  <2>4. FlattenSeq(s) = f[Len(s)]
    BY <1>2, <2>1, FlattenJoins
  <2> QED
    BY <2>3, <2>4
<1> QED
  BY <1>1, <1>2

\* What is appended comes last.
LEMMA FlattenAppend ==
  ASSUME NEW S, NEW s \in Seq(Seq(S)), NEW c \in Seq(S)
  PROVE  FlattenSeq(Append(s, c)) = FlattenSeq(s) \o c
<1> DEFINE t == Append(s, c)
           n == Len(s)
<1>1. /\ t \in Seq(Seq(S)) /\ t # <<>> /\ Len(t) = n + 1 /\ n \in Nat
      /\ \A i \in 1 .. n : t[i] = s[i]
      /\ t[n + 1] = c
  <2> DEFINE Q == Seq(S)
  <2>1. s \in Seq(Q) /\ c \in Q
    OBVIOUS
  <2> HIDE DEF Q
  <2>2. /\ t \in Seq(Q) /\ t # <<>> /\ Len(t) = n + 1 /\ n \in Nat
        /\ \A i \in 1 .. n : t[i] = s[i]
        /\ t[n + 1] = c
    BY <2>1, AppendProperties
  <2> QED
    BY <2>2 DEF Q
<1> HIDE DEF t
<1>2. PICK f \in [1 .. Len(t) -> Seq(S)] : Joins(f, t, Len(t))
  BY <1>1, JoinsExists
<1>3. FlattenSeq(t) = f[n + 1]
  BY <1>1, <1>2, FlattenJoins
<1>4. f[n + 1] = Joined(f, t, n + 1)
  BY <1>1, <1>2 DEF Joins
<1>5. CASE n = 0
  <2>1. FlattenSeq(s) = <<>>
    BY <1>5 DEF FlattenSeq
  <2>2. f[n + 1] = c
    BY <1>1, <1>4, <1>5 DEF Joined
  <2> QED
    BY <1>3, <2>1, <2>2 DEF t
<1>6. CASE n # 0
  <2>1. Joins(f, s, n)
    <3>1. \A i \in 1 .. n : i \in 1 .. Len(t) /\ Joined(f, t, i) = Joined(f, s, i)
      BY <1>1 DEF Joined
    <3> QED
      BY <1>2, <3>1 DEF Joins
  <2>2. s # <<>>
    BY <1>6
  <2>3. FlattenSeq(s) = f[n]
    BY <2>1, <2>2, FlattenJoins
  <2>4. f[n + 1] = f[n] \o c
    BY <1>1, <1>4, <1>6 DEF Joined
  <2> QED
    BY <1>3, <2>3, <2>4 DEF t
<1> QED
  BY <1>5, <1>6

\* The sums f of the sequences behind c, with c before each.
Shifted(c, f, n) == [i \in 1 .. n + 1 |-> IF i = 1 THEN c ELSE c \o f[i - 1]]

LEMMA JoinsShifted ==
  ASSUME NEW S, NEW n \in Nat, NEW s, NEW t, NEW c \in Seq(S), s[1] = c,
         \A i \in 1 .. n : t[i] = s[i + 1] /\ t[i] \in Seq(S),
         NEW f \in [1 .. n -> Seq(S)], Joins(f, t, n)
  PROVE  Joins(Shifted(c, f, n), s, n + 1)
<1> DEFINE g == Shifted(c, f, n)
<1>1. \A i \in 1 .. n + 1 : g[i] = IF i = 1 THEN c ELSE c \o f[i - 1]
  BY DEF Shifted
<1> HIDE DEF g
<1>2. \A x, y, z \in Seq(S) : (x \o y) \o z = x \o (y \o z)
  BY ONLY ConcatAssociative, SMTT(30)
<1>3. ASSUME NEW k \in 1 .. n PROVE g[k + 1] = g[k] \o s[k + 1]
  <2>1. k \in 1 .. n + 1 /\ k + 1 \in 1 .. n + 1 /\ k + 1 # 1 /\ (k + 1) - 1 = k
    OBVIOUS
  <2>2. g[k + 1] = c \o f[k]
    BY <1>1, <2>1, Zenon
  <2>3. f[k] = Joined(f, t, k) /\ t[k] = s[k + 1]
    BY Zenon DEF Joins
  <2>4. CASE k = 1
    <3>1. f[k] = s[k + 1] /\ g[k] = c
      BY <1>1, <2>1, <2>3, <2>4, Zenon DEF Joined
    <3> QED
      BY <2>2, <3>1, Zenon
  <2>5. CASE k # 1
    <3>1. k - 1 \in 1 .. n
      BY <2>5
    <3>2. f[k] = f[k - 1] \o t[k] /\ g[k] = c \o f[k - 1]
      BY <1>1, <2>1, <2>3, <2>5, Zenon DEF Joined
    <3>3. f[k - 1] \in Seq(S) /\ t[k] \in Seq(S)
      BY <3>1, Zenon
    <3>4. (c \o f[k - 1]) \o t[k] = c \o (f[k - 1] \o t[k])
      BY <1>2, <3>3, Zenon
    <3> QED
      BY <2>2, <2>3, <3>2, <3>4, Zenon
  <2> QED
    BY <2>4, <2>5
<1>4. ASSUME NEW i \in 1 .. n + 1 PROVE g[i] = Joined(g, s, i)
  <2>1. CASE i = 1
    BY <1>1, <2>1, Zenon DEF Joined
  <2>2. CASE i # 1
    <3>1. PICK k \in 1 .. n : i = k + 1 /\ i - 1 = k
      <4>1. i - 1 \in 1 .. n /\ i = (i - 1) + 1
        BY <2>2
      <4> QED
        BY <4>1, Zenon
    <3>2. Joined(g, s, i) = g[k] \o s[k + 1]
      BY <2>2, <3>1, Zenon DEF Joined
    <3> QED
      BY <1>3, <3>1, <3>2, Zenon
  <2> QED
    BY <2>1, <2>2, Zenon
<1> QED
  BY <1>4, Zenon DEF Joins, g

\* What is at the head comes first.
LEMMA FlattenHead ==
  ASSUME NEW S, NEW s \in Seq(Seq(S)), s # <<>>
  PROVE  FlattenSeq(s) = Head(s) \o FlattenSeq(Tail(s))
<1> DEFINE t == Tail(s)
           n == Len(t)
           c == Head(s)
<1>1. /\ t \in Seq(Seq(S)) /\ Len(s) = n + 1 /\ n \in Nat /\ c \in Seq(S)
      /\ \A i \in 1 .. n : t[i] = s[i + 1]
      /\ s[1] = c
  OBVIOUS
<1>2. PICK f \in [1 .. n -> Seq(S)] : Joins(f, t, n)
  BY <1>1, JoinsExists
<1> HIDE DEF t, c
<1> DEFINE g == Shifted(c, f, n)
<1>3. Joins(g, s, n + 1)
  <2>1. \A i \in 1 .. n : t[i] = s[i + 1] /\ t[i] \in Seq(S)
    BY <1>1
  <2>2. n \in Nat /\ c \in Seq(S) /\ s[1] = c
    BY <1>1
  <2> HIDE DEF n
  <2> QED
    BY <1>2, <2>1, <2>2, JoinsShifted
<1>4. FlattenSeq(s) = g[n + 1]
  <2> HIDE DEF g
  <2> QED
    BY <1>1, <1>3, FlattenJoins
<1>5. CASE n = 0
  <2>1. FlattenSeq(t) = <<>>
    BY <1>1, <1>5 DEF FlattenSeq
  <2>2. g[n + 1] = c /\ c \o <<>> = c
    BY <1>1, <1>5 DEF Shifted
  <2> QED
    BY <1>4, <2>1, <2>2 DEF t, c
<1>6. CASE n # 0
  <2>1. t # <<>>
    BY <1>6
  <2>2. FlattenSeq(t) = f[n]
    BY <1>1, <1>2, <2>1, FlattenJoins
  <2>3. g[n + 1] = c \o f[n]
    <3>1. n + 1 \in 1 .. n + 1 /\ n + 1 # 1 /\ (n + 1) - 1 = n
      BY <1>1, <1>6
    <3> QED
      BY <3>1, Zenon DEF Shifted
  <2> QED
    BY <1>4, <2>2, <2>3 DEF t, c
<1> QED
  BY <1>5, <1>6

-----------------------------------------------------------------------------
(* The end.                                                                *)

\* No chunk on the way to the server is empty.
NoneEmpty ==
  /\ toServer \in Seq(Seq(Byte) \ {<<>>})
  /\ buffer \in Seq(Byte)
  /\ pos \in Nat
  /\ function \in BOOLEAN

Inv == NoneEmpty /\ EndIsTrue

\* A chunk is a sequence of bytes, and one of at least one byte is not empty.
LEMMA ChunksType ==
  ASSUME NEW from \in Nat, NEW to \in Nat, NEW c \in Chunks(from, to)
  PROVE  c \in Seq(Byte) /\ (from > 0 => c # <<>>)
<1>1. PICK n \in from..to : c \in [1..n -> Byte]
  BY DEF Chunks
<1>2. n \in Nat /\ c \in Seq(Byte) /\ Len(c) = n
  BY <1>1
<1> QED
  BY <1>2

\* A copy from a chunk that has bytes left moves on and is no end.
LEMMA CopyMoves ==
  ASSUME NEW from \in Seq(Byte), NEW p \in Nat, p < Len(from), NEW n \in 1..MaxRead, Copy(from, p, n)
  PROVE  /\ buffer' = from /\ pos' \in Nat
         /\ server' = "runs"
         /\ function' = function
BY PipeAssumption DEF Copy, Count, Advanced

LEMMA NoneEmptyInvariance ==
  ASSUME ~EmptyMessages
  PROVE  Spec => []Inv
<1>1. Init => Inv
  BY DEF Init, Inv, NoneEmpty, EndIsTrue, UsedUp
<1>2. Inv /\ [Next]_vars => Inv'
  <2> SUFFICES ASSUME Inv, [Next]_vars PROVE Inv'
    OBVIOUS
  <2>1. ASSUME NEW chunk \in Chunks(0, MaxChunk), SendToRust(chunk) PROVE Inv'
    <3>1. chunk \in Seq(Byte) /\ chunk # <<>>
      BY <2>1, ChunksType, PipeAssumption DEF SendToRust
    <3>2. Append(toServer, chunk) \in Seq(Seq(Byte) \ {<<>>})
      BY <3>1 DEF Inv, NoneEmpty
    <3> QED
      BY <2>1, <3>2 DEF SendToRust, Inv, NoneEmpty, EndIsTrue, UsedUp
  <2>2. CASE DropFunction
    BY <2>2 DEF DropFunction, Inv, NoneEmpty, EndIsTrue, UsedUp
  <2>3. ASSUME NEW n \in 1..MaxRead, PollBuffered(n) PROVE Inv'
    <3>1. buffer' = buffer /\ pos' \in Nat /\ server' = "runs" /\ function' = function
      BY <2>3, CopyMoves DEF PollBuffered, UsedUp, Inv, NoneEmpty
    <3>2. toServer' = toServer
      BY <2>3 DEF PollBuffered
    <3> QED
      BY <3>1, <3>2 DEF Inv, NoneEmpty, EndIsTrue, UsedUp
  <2>4. ASSUME NEW n \in 1..MaxRead, PollNext(n) PROVE Inv'
    <3> DEFINE chunk == Head(toServer)
    <3>1. toServer # <<>> /\ Copy(chunk, 0, n) /\ toServer' = Tail(toServer)
      BY <2>4 DEF PollNext
    <3>2. chunk \in Seq(Byte) /\ chunk # <<>> /\ Tail(toServer) \in Seq(Seq(Byte) \ {<<>>})
      BY <3>1 DEF Inv, NoneEmpty
    <3> HIDE DEF chunk
    <3>3. 0 \in Nat /\ 0 < Len(chunk)
      BY <3>2
    <3>4. buffer' = chunk /\ pos' \in Nat /\ server' = "runs" /\ function' = function
      BY <3>1, <3>2, <3>3, CopyMoves
    <3> QED
      BY <3>1, <3>2, <3>4 DEF Inv, NoneEmpty, EndIsTrue, UsedUp
  <2>5. CASE PollEmpty
    BY <2>5 DEF PollEmpty, Inv, NoneEmpty, EndIsTrue, UsedUp
  <2>6. CASE ServerStops
    BY <2>6 DEF ServerStops, Inv, NoneEmpty, EndIsTrue, UsedUp
  <2>10. CASE ServerReturns
    BY <2>10 DEF ServerReturns, incoming, Inv, NoneEmpty, EndIsTrue, UsedUp
  <2>7. CASE UNCHANGED <<toServer, buffer, pos, server, function>>
    BY <2>7 DEF Inv, NoneEmpty, EndIsTrue, UsedUp
  <2>8. ASSUME NEW chunk \in Chunks(1, MaxChunk), PollWrite(chunk) PROVE Inv'
    BY <2>7, <2>8 DEF PollWrite, incoming
  <2>9. CASE Forward \/ ForwardingEnds
    BY <2>7, <2>9 DEF Forward, ForwardingEnds, incoming
  <2> QED
    BY <2>1, <2>2, <2>3, <2>4, <2>5, <2>6, <2>7, <2>8, <2>9, <2>10 DEF Next, Poll, vars
<1> QED
  BY <1>1, <1>2, PTL DEF Spec

\* When the program sends no empty string, a read of 0 bytes, after which the server
\* ends, is the end: the program has dropped the function and all it sent was read
\* (rs-lib/src/lsp/io.rs:54-77).
THEOREM OnlyTheEndEnds ==
  ASSUME ~EmptyMessages
  PROVE  Spec => []EndIsTrue
<1>1. Inv => EndIsTrue
  BY DEF Inv
<1> QED
  BY <1>1, NoneEmptyInvariance, PTL

-----------------------------------------------------------------------------
(* Types.                                                                  *)

\* The forwarding task outlives the Writer.
TypeInv ==
  /\ toServer \in Seq(Chunks(0, MaxChunk)) /\ toJS \in Seq(Chunks(1, MaxChunk))
  /\ buffer \in Chunks(0, MaxChunk) /\ read \in Chunks(0, MaxChunk) /\ shown \in Chunks(0, MaxChunk)
  /\ pos \in 0 .. Len(buffer)
  /\ asleep \in BOOLEAN /\ function \in BOOLEAN /\ forwards \in BOOLEAN
  /\ server \in {"runs", "ended", "returned", "stopped"}
  /\ Serves => forwards

LEMMA ChunksAre ==
  ASSUME NEW from \in Nat, NEW to \in Nat, NEW c
  PROVE  c \in Chunks(from, to) <=> c \in Seq(Byte) /\ Len(c) \in from .. to
<1>1. ASSUME c \in Chunks(from, to) PROVE c \in Seq(Byte) /\ Len(c) \in from .. to
  <2>1. PICK n \in from .. to : c \in [1 .. n -> Byte]
    BY <1>1 DEF Chunks
  <2>2. n \in Nat /\ c \in Seq(Byte) /\ Len(c) = n
    BY <2>1
  <2> QED
    BY <2>2
<1>2. ASSUME c \in Seq(Byte), Len(c) \in from .. to PROVE c \in Chunks(from, to)
  <2>1. c \in [1 .. Len(c) -> Byte]
    BY <1>2
  <2> QED
    BY <1>2, <2>1 DEF Chunks
<1> QED
  BY <1>1, <1>2

LEMMA PieceType ==
  ASSUME NEW S, NEW s \in Seq(S), NEW p \in 0 .. Len(s), NEW k \in 0 .. Len(s) - p
  PROVE  SubSeq(s, p + 1, p + k) \in Seq(S) /\ Len(SubSeq(s, p + 1, p + k)) = k
<1>1. Len(s) \in Nat /\ p \in Nat /\ k \in Nat /\ p + k <= Len(s)
  OBVIOUS
<1>2. \A i \in p + 1 .. p + k : s[i] \in S
  BY <1>1
<1>3. p + 1 \in Int /\ p + k \in Int
  BY <1>1
<1>4. /\ SubSeq(s, p + 1, p + k) \in Seq(S)
      /\ Len(SubSeq(s, p + 1, p + k)) = IF p + 1 <= p + k THEN (p + k) - (p + 1) + 1 ELSE 0
  BY <1>2, <1>3, SubSeqProperties
<1> QED
  BY <1>1, <1>4

\* A copy moves within the chunk, takes at most as much as there is, and takes the
\* bytes that come next.
LEMMA CopyTypes ==
  ASSUME NEW from \in Chunks(0, MaxChunk), NEW p \in 0 .. Len(from), NEW n \in 1 .. MaxRead,
         Copy(from, p, n)
  PROVE  /\ buffer' = from /\ read' \in Chunks(0, MaxChunk) /\ pos' \in 0 .. Len(from)
         /\ server' \in {"runs", "ended"}
         /\ pos' \in p .. Len(from) /\ read' = SubSeq(from, p + 1, pos')
         /\ p < Len(from) => p < pos' /\ server' = "runs"
<1> DEFINE k == Count(from, p, n)
<1>1. from \in Seq(Byte) /\ Len(from) \in 0 .. MaxChunk /\ MaxChunk \in Nat
  BY ChunksAre, PipeAssumption
<1>2. k \in 0 .. Len(from) - p /\ (p < Len(from) => k > 0)
  BY <1>1 DEF Count
<1>3. /\ buffer' = from /\ pos' = p + k /\ read' = SubSeq(from, p + 1, p + k)
      /\ server' = IF k = 0 THEN "ended" ELSE "runs"
  BY DEF Copy, Advanced, Copied
<1> HIDE DEF k
<1>4. k \in 0 .. Len(from) - p /\ p \in 0 .. Len(from) /\ from \in Seq(Byte)
  BY <1>1, <1>2
<1>5. read' \in Seq(Byte) /\ Len(read') = k
  BY <1>3, <1>4, PieceType
<1>6. Len(read') \in 0 .. MaxChunk
  BY <1>1, <1>2, <1>5
<1>7. read' \in Chunks(0, MaxChunk)
  BY <1>1, <1>5, <1>6, ChunksAre
<1> QED
  BY <1>1, <1>2, <1>3, <1>7

LEMMA StepKeepsTypes ==
  ASSUME TypeInv, [Next]_vars
  PROVE  TypeInv'
<1>1. ASSUME NEW chunk \in Chunks(0, MaxChunk), SendToRust(chunk) PROVE TypeInv'
  <2>1. Append(toServer, chunk) \in Seq(Chunks(0, MaxChunk))
    BY DEF TypeInv
  <2> QED
    BY <1>1, <2>1 DEF SendToRust, outgoing, TypeInv, Serves
<1>2. ASSUME NEW chunk \in Chunks(1, MaxChunk), PollWrite(chunk) PROVE TypeInv'
  <2>1. Append(toJS, chunk) \in Seq(Chunks(1, MaxChunk))
    BY DEF TypeInv
  <2> QED
    BY <1>2, <2>1 DEF PollWrite, incoming, TypeInv, Serves
<1>3. ASSUME NEW n \in 1 .. MaxRead, PollBuffered(n) PROVE TypeInv'
  <2>1. Copy(buffer, pos, n) /\ UNCHANGED toServer
    BY <1>3 DEF PollBuffered
  <2>2. /\ buffer' = buffer /\ read' \in Chunks(0, MaxChunk) /\ pos' \in 0 .. Len(buffer)
        /\ server' \in {"runs", "ended"}
    BY <2>1, CopyTypes DEF TypeInv
  <2> QED
    BY <1>3, <2>1, <2>2 DEF PollBuffered, Polls, Copy, outgoing, TypeInv, Serves
<1>4. ASSUME NEW n \in 1 .. MaxRead, PollNext(n) PROVE TypeInv'
  <2> DEFINE chunk == Head(toServer)
  <2>1. /\ toServer # <<>> /\ Copy(chunk, 0, n) /\ toServer' = Tail(toServer)
        /\ server = "runs" /\ UNCHANGED <<asleep, function>> /\ UNCHANGED outgoing
    BY <1>4 DEF PollNext, Polls, Copy
  <2>2. chunk \in Chunks(0, MaxChunk) /\ Tail(toServer) \in Seq(Chunks(0, MaxChunk))
    BY <2>1, HeadTailProperties DEF TypeInv
  <2> HIDE DEF chunk
  <2>3. 0 \in 0 .. Len(chunk)
    BY <2>2, ChunksAre, PipeAssumption
  <2>4. /\ buffer' = chunk /\ read' \in Chunks(0, MaxChunk) /\ pos' \in 0 .. Len(chunk)
        /\ server' \in {"runs", "ended"}
    BY <2>1, <2>2, <2>3, CopyTypes
  <2> QED
    BY <2>1, <2>2, <2>4 DEF outgoing, TypeInv, Serves
<1>5. CASE PollEmpty
  BY <1>5 DEF PollEmpty, Polls, outgoing, TypeInv, Serves
<1>6. CASE DropFunction
  BY <1>6 DEF DropFunction, outgoing, TypeInv, Serves
<1>7. CASE ServerStops
  BY <1>7 DEF ServerStops, outgoing, TypeInv, Serves
<1>11. CASE ServerReturns
  BY <1>11 DEF ServerReturns, incoming, outgoing, TypeInv, Serves
<1>8. CASE Forward
  <2> DEFINE chunk == Head(toJS)
  <2>1. chunk \in Chunks(1, MaxChunk) /\ Tail(toJS) \in Seq(Chunks(1, MaxChunk))
    BY <1>8, HeadTailProperties DEF TypeInv, Forward
  <2>2. shown' = chunk /\ toJS' = Tail(toJS)
    BY <1>8 DEF Forward
  <2> HIDE DEF chunk
  <2>3. chunk \in Chunks(0, MaxChunk)
    BY <2>1, ChunksAre, PipeAssumption
  <2> QED
    BY <1>8, <2>1, <2>2, <2>3 DEF Forward, incoming, TypeInv, Serves
<1>9. CASE ForwardingEnds
  BY <1>9 DEF ForwardingEnds, incoming, TypeInv, Serves
<1>10. CASE UNCHANGED vars
  BY <1>10 DEF vars, TypeInv, Serves
<1> QED
  BY <1>1, <1>2, <1>3, <1>4, <1>5, <1>6, <1>7, <1>8, <1>9, <1>10, <1>11 DEF Next, Poll

LEMMA TypeInvariance == Spec => []TypeInv
<1>1. Init => TypeInv
  <2> SUFFICES ASSUME Init PROVE TypeInv
    OBVIOUS
  <2>1. <<>> \in Seq(Byte) /\ Len(<<>>) \in 0 .. MaxChunk
    BY PipeAssumption
  <2>2. <<>> \in Chunks(0, MaxChunk)
    BY <2>1, ChunksAre, PipeAssumption
  <2>3. toServer \in Seq(Chunks(0, MaxChunk)) /\ toJS \in Seq(Chunks(1, MaxChunk))
    BY DEF Init
  <2>4. pos \in 0 .. Len(buffer)
    BY DEF Init
  <2> QED
    BY <2>2, <2>3, <2>4, Zenon DEF Init, TypeInv
<1> QED
  BY <1>1, StepKeepsTypes, PTL DEF Spec

\* What either side has of the other's bytes are chunks of at least no and at most
\* MaxChunk bytes, and the reader's position is within its buffer, however messages,
\* reads and the ends of server and program interleave.
THEOREM TypeCorrect == Spec => []TypeOK
<1>1. TypeInv => TypeOK
  <2> SUFFICES ASSUME TypeInv PROVE TypeOK
    OBVIOUS
  <2>1. \A c \in ToSet(toServer) : c \in Chunks(0, MaxChunk)
    BY DEF TypeInv, ToSet
  <2>2. \A c \in ToSet(toJS) : c \in Chunks(0, MaxChunk)
    <3>1. \A c \in ToSet(toJS) : c \in Chunks(1, MaxChunk)
      BY DEF TypeInv, ToSet
    <3> QED
      BY <3>1, ChunksAre, PipeAssumption
  <2> QED
    BY <2>1, <2>2 DEF TypeInv, TypeOK
<1> QED
  BY <1>1, TypeInvariance, PTL

-----------------------------------------------------------------------------
(* What ByteStream does with a sequence of bytes.                          *)

LEMMA LongerByConcat ==
  ASSUME NEW S, NEW x \in Seq(S), NEW c \in Seq(S), c # <<>>
  PROVE  IsStrictPrefix(x, x \o c)
<1>1. /\ x \o c \in Seq(S) /\ Len(x \o c) = Len(x) + Len(c)
      /\ \A i \in 1 .. Len(x) + Len(c) : (x \o c)[i] = IF i <= Len(x) THEN x[i] ELSE c[i - Len(x)]
  BY ConcatProperties
<1>2. Len(x) \in Nat /\ Len(c) \in Nat /\ Len(c) > 0
  BY LenProperties, EmptySeq
<1> DEFINE y == x \o c
<1> HIDE DEF y
<1>3. y \in Seq(S) /\ Len(y) > Len(x) /\ \A i \in 1 .. Len(x) : y[i] = x[i]
  BY <1>1, <1>2 DEF y
<1>4. SubSeq(x, 1, Len(x)) = SubSeq(y, 1, Len(x))
  BY <1>2, <1>3
<1>5. IsPrefix(x, y) /\ x # y
  BY <1>2, <1>3, <1>4 DEF IsPrefix
<1> QED
  BY <1>5 DEF IsStrictPrefix, y

\* What is left of a sequence after its first k elements.
LEMMA RestOf ==
  ASSUME NEW S, NEW x \in Seq(S), NEW k \in 0 .. Len(x), NEW m, m = Len(x) - k
  PROVE  /\ SubSeq(x, k + 1, Len(x)) \in Seq(S) /\ Len(SubSeq(x, k + 1, Len(x))) = m /\ m \in Nat
         /\ \A i \in 1 .. m : SubSeq(x, k + 1, Len(x))[i] = x[k + i]
<1> DEFINE n == Len(x)
           left == SubSeq(x, k + 1, Len(x))
<1>1. n \in Nat /\ k \in Nat /\ k <= n
  BY LenProperties
<1>2. \A i \in k + 1 .. n : x[i] \in S
  BY <1>1
<1>3. k + 1 \in Int /\ n \in Int
  BY <1>1
<1>4. /\ left \in Seq(S) /\ Len(left) = IF k + 1 <= n THEN n - (k + 1) + 1 ELSE 0
      /\ \A i \in 1 .. n - (k + 1) + 1 : left[i] = x[(k + 1) + i - 1]
  BY <1>2, <1>3, SubSeqProperties
<1> HIDE DEF left
<1>5. Len(left) = m /\ m \in Nat /\ \A i \in 1 .. m : left[i] = x[k + i]
  BY <1>1, <1>4
<1> QED
  BY <1>4, <1>5 DEF left

\* What is taken of x are its first elements, and what is left the others.
Takes(x, taken, left) ==
  \E n \in 1 .. Len(x) : taken = SubSeq(x, 1, n) /\ left = SubSeq(x, n + 1, Len(x))

After(c, p) == SubSeq(c, p + 1, Len(c))

\* Taking the next bytes of a chunk of which p are gone, with others behind it.
LEMMA TakeFromChunk ==
  ASSUME NEW S, NEW c \in Seq(S), NEW rest \in Seq(S),
         NEW p \in 0 .. Len(c), NEW q \in 0 .. Len(c), p < q
  PROVE  Takes(After(c, p) \o rest, SubSeq(c, p + 1, q), After(c, q) \o rest)
<1> DEFINE unread == SubSeq(c, p + 1, Len(c))
           left == SubSeq(c, q + 1, Len(c))
           x == unread \o rest
           n == Len(c)
           r == Len(rest)
<1>1. n \in Nat /\ r \in Nat /\ p \in Nat /\ q \in Nat /\ p < q /\ q <= n
  BY LenProperties
<1>2. /\ unread \in Seq(S) /\ Len(unread) = n - p
      /\ \A i \in 1 .. n - p : unread[i] = c[p + i]
  BY RestOf
<1>3. /\ left \in Seq(S) /\ Len(left) = n - q
      /\ \A i \in 1 .. n - q : left[i] = c[q + i]
  <2>1. q \in 0 .. Len(c)
    BY <1>1
  <2> QED
    BY <2>1, RestOf
<1> HIDE DEF unread, left
<1>4. /\ x \in Seq(S) /\ Len(x) = n - p + r
      /\ \A i \in 1 .. n - p + r : x[i] = IF i <= n - p THEN unread[i] ELSE rest[i - (n - p)]
  <2>1. /\ x \in Seq(S) /\ Len(x) = Len(unread) + Len(rest)
        /\ \A i \in 1 .. Len(unread) + Len(rest) :
             x[i] = IF i <= Len(unread) THEN unread[i] ELSE rest[i - Len(unread)]
    BY <1>2, ConcatProperties
  <2> HIDE DEF x
  <2> QED
    BY <1>1, <1>2, <2>1
<1> HIDE DEF x
<1>5. q - p \in 1 .. Len(x)
  BY <1>1, <1>4
<1>6. SubSeq(c, p + 1, q) = SubSeq(x, 1, q - p)
  <2>1. \A i \in 1 .. q - p : x[i] = c[p + i]
    BY <1>1, <1>2, <1>4
  <2>2. SubSeq(c, p + 1, q) = [i \in 1 .. q - p |-> c[p + i]]
    BY <1>1
  <2>3. SubSeq(x, 1, q - p) = [i \in 1 .. q - p |-> x[i]]
    BY <1>1, <1>4
  <2> QED
    BY <2>1, <2>2, <2>3
<1>7. left \o rest = SubSeq(x, q - p + 1, Len(x))
  <2> DEFINE k == q - p
             m == n - q + r
             y == SubSeq(x, k + 1, Len(x))
             z == left \o rest
  <2>1. /\ z \in Seq(S) /\ Len(z) = m
        /\ \A i \in 1 .. m : z[i] = IF i <= n - q THEN left[i] ELSE rest[i - (n - q)]
    <3>1. /\ z \in Seq(S) /\ Len(z) = Len(left) + Len(rest)
          /\ \A i \in 1 .. Len(left) + Len(rest) :
               z[i] = IF i <= Len(left) THEN left[i] ELSE rest[i - Len(left)]
      BY <1>3, ConcatProperties
    <3> HIDE DEF z
    <3> QED
      BY <1>1, <1>3, <3>1
  <2>2. k \in 0 .. Len(x) /\ m = Len(x) - k /\ m \in Nat /\ x \in Seq(S)
    BY <1>1, <1>4
  <2>3. y \in Seq(S) /\ Len(y) = m /\ \A i \in 1 .. m : y[i] = x[k + i]
    <3> HIDE DEF k, m
    <3> QED
      BY <2>2, RestOf, SMTT(30)
  <2> HIDE DEF y, z
  <2>4. ASSUME NEW i \in 1 .. m PROVE y[i] = z[i]
    <3>1. k + i \in 1 .. n - p + r /\ i \in 1 .. m
      BY <1>1
    <3>2. y[i] = x[k + i]
      BY <2>3, <3>1, Zenon
    <3>3. CASE i <= n - q
      <4>1. k + i <= n - p /\ k + i \in 1 .. n - p /\ p + (k + i) = q + i /\ i \in 1 .. n - q
        BY <1>1, <3>3
      <4> HIDE DEF k
      <4>2. y[i] = c[p + (k + i)]
        BY <1>2, <1>4, <3>1, <3>2, <4>1
      <4>3. z[i] = c[q + i]
        BY <1>3, <2>1, <3>3, <4>1
      <4> QED
        BY <4>1, <4>2, <4>3
    <3>4. CASE ~(i <= n - q)
      <4>1. ~(k + i <= n - p) /\ (k + i) - (n - p) = i - (n - q)
        BY <1>1, <3>4
      <4> HIDE DEF k
      <4>2. y[i] = rest[i - (n - q)]
        BY <1>4, <3>1, <3>2, <4>1
      <4> QED
        BY <2>1, <3>4, <4>2
    <3> QED
      BY <3>3, <3>4
  <2>5. y = z
    <3> HIDE DEF m
    <3> QED
      BY <2>1, <2>3, <2>4, SeqEqual
  <2> QED
    BY <2>5 DEF y, z
<1>8. Takes(x, SubSeq(c, p + 1, q), left \o rest)
  BY <1>5, <1>6, <1>7, Zenon DEF Takes
<1> QED
  BY <1>8, Zenon DEF x, unread, left, After

-----------------------------------------------------------------------------
(* To the program.                                                         *)

\* What the channel to the program holds.
Outgoing == FlattenSeq(toJS)

LEMMA ChannelsOfBytes ==
  ASSUME TypeInv
  PROVE  /\ toServer \in Seq(Seq(Byte)) /\ toJS \in Seq(Seq(Byte))
         /\ FlattenSeq(toServer) \in Seq(Byte) /\ FlattenSeq(toJS) \in Seq(Byte)
         /\ buffer \in Seq(Byte) /\ pos \in 0 .. Len(buffer)
<1>1. Chunks(0, MaxChunk) \subseteq Seq(Byte) /\ Chunks(1, MaxChunk) \subseteq Seq(Byte)
  BY ChunksAre, PipeAssumption
<1> DEFINE Q == Seq(Byte)
           C0 == Chunks(0, MaxChunk)
           C1 == Chunks(1, MaxChunk)
<1>2. toServer \in Seq(C0) /\ toJS \in Seq(C1) /\ C0 \subseteq Q /\ C1 \subseteq Q /\ buffer \in Q
  BY <1>1 DEF TypeInv
<1> HIDE DEF Q, C0, C1
<1>3. toServer \in Seq(Q) /\ toJS \in Seq(Q)
  BY <1>2
<1>4. toServer \in Seq(Seq(Byte)) /\ toJS \in Seq(Seq(Byte))
  BY <1>3 DEF Q
<1> QED
  BY <1>2, <1>4, FlattenType, Zenon DEF Q, TypeInv

\* A chunk that is written is put behind what the channel holds.
LEMMA WriteIsPut ==
  ASSUME TypeInv, NEW chunk \in Chunks(1, MaxChunk), PollWrite(chunk)
  PROVE  IsStrictPrefix(Outgoing, Outgoing')
<1>1. chunk \in Seq(Byte) /\ chunk # <<>>
  BY ChunksType, PipeAssumption
<1>2. toJS' = Append(toJS, chunk)
  BY DEF PollWrite
<1>3. Outgoing' = Outgoing \o chunk
  BY <1>1, <1>2, ChannelsOfBytes, FlattenAppend DEF Outgoing
<1> QED
  BY <1>1, <1>3, ChannelsOfBytes, LongerByConcat DEF Outgoing

\* Taking all of a chunk that has others behind it.
LEMMA TakeChunk ==
  ASSUME NEW S, NEW c \in Seq(S), NEW rest \in Seq(S), c # <<>>
  PROVE  Takes(c \o rest, c, rest)
<1> DEFINE q == Len(c)
<1>1. q \in Nat /\ 0 < q
  BY EmptySeq
<1>2. SubSeq(c, 0 + 1, q) = c /\ After(c, 0) = c
  BY <1>1 DEF After
<1>3. After(c, q) \o rest = rest
  <2>1. After(c, q) = <<>>
    BY <1>1 DEF After
  <2>2. <<>> \o rest = rest
    OBVIOUS
  <2> QED
    BY <2>1, <2>2
<1>4. 0 \in 0 .. Len(c) /\ q \in 0 .. Len(c) /\ 0 < q
  BY <1>1
<1>5. Takes(After(c, 0) \o rest, SubSeq(c, 0 + 1, q), After(c, q) \o rest)
  BY <1>4, TakeFromChunk, Zenon
<1> QED
  BY <1>2, <1>3, <1>5, Zenon

\* A chunk that is forwarded is what the channel held first.
LEMMA ForwardIsTake ==
  ASSUME TypeInv, Forward
  PROVE  Takes(Outgoing, shown', Outgoing')
<1> DEFINE c == Head(toJS)
           rest == FlattenSeq(Tail(toJS))
           Q == Seq(Byte)
<1>1. toJS # <<>> /\ shown' = c /\ toJS' = Tail(toJS)
  BY DEF Forward
<1>2. c \in Chunks(1, MaxChunk)
  BY <1>1, HeadTailProperties DEF TypeInv
<1>3. c \in Seq(Byte) /\ c # <<>>
  <2> HIDE DEF c
  <2>1. 1 \in Nat /\ 1 > 0 /\ MaxChunk \in Nat
    BY PipeAssumption
  <2> QED
    BY <1>2, <2>1, ChunksType
<1>4. Tail(toJS) \in Seq(Seq(Byte))
  <2>1. toJS \in Seq(Q)
    BY ChannelsOfBytes
  <2> HIDE DEF Q
  <2>2. Tail(toJS) \in Seq(Q)
    BY <1>1, <2>1, HeadTailProperties
  <2> QED
    BY <2>2 DEF Q
<1>5. rest \in Seq(Byte)
  BY <1>4, FlattenType
<1>6. Outgoing = c \o rest /\ Outgoing' = rest
  BY <1>1, ChannelsOfBytes, FlattenHead DEF Outgoing
<1> HIDE DEF c, rest
<1>7. Takes(c \o rest, c, rest)
  BY <1>3, <1>5, TakeChunk
<1> QED
  BY <1>1, <1>6, <1>7, Zenon DEF c, rest

ToProgramNext ==
  \/ ToProgram!Put \/ ToProgram!Take \/ ToProgram!Close \/ ToProgram!End \/ ToProgram!Leave

LEMMA ToProgramStep ==
  ASSUME TypeInv, [Next]_vars
  PROVE  [ToProgramNext]_ToProgram!vars
<1>1. ASSUME NEW chunk \in Chunks(1, MaxChunk), PollWrite(chunk) PROVE ToProgram!Put
  <2>1. IsStrictPrefix(Outgoing, Outgoing')
    BY <1>1, WriteIsPut
  <2>2. Serves /\ forwards /\ UNCHANGED <<server, shown, forwards>>
    BY <1>1 DEF PollWrite, TypeInv
  <2> QED
    BY <2>1, <2>2 DEF ToProgram!Put, ToProgram!IsStrictPrefix, ToProgram!IsPrefix,
                      IsStrictPrefix, IsPrefix, Outgoing, Serves
<1>2. CASE Forward
  <2>1. \E n \in 1 .. Len(Outgoing) :
          /\ shown' = SubSeq(Outgoing, 1, n)
          /\ Outgoing' = SubSeq(Outgoing, n + 1, Len(Outgoing))
    BY <1>2, ForwardIsTake DEF Takes
  <2>2. forwards /\ UNCHANGED <<server, forwards>>
    BY <1>2 DEF Forward
  <2> QED
    BY <2>1, <2>2 DEF ToProgramNext, ToProgram!Take, Outgoing, Serves
<1>3. CASE ForwardingEnds
  <2>1. Outgoing = <<>>
    BY <1>3 DEF ForwardingEnds, Outgoing, FlattenSeq
  <2> QED
    BY <1>3, <2>1 DEF ForwardingEnds, ToProgramNext, ToProgram!End, Outgoing, Serves
<1>4. ASSUME Serves \/ server' = server, UNCHANGED outgoing
      PROVE  [ToProgramNext]_ToProgram!vars
  BY <1>4 DEF ToProgramNext, ToProgram!Close, ToProgram!vars, outgoing, Serves
<1>5. ASSUME NEW chunk \in Chunks(0, MaxChunk), SendToRust(chunk)
      PROVE  [ToProgramNext]_ToProgram!vars
  BY <1>4, <1>5 DEF SendToRust
<1>6. CASE Poll
  BY <1>4, <1>6 DEF Poll, PollEmpty, PollBuffered, PollNext, Polls, Copy, Serves
<1>7. CASE DropFunction \/ ServerReturns \/ ServerStops
  BY <1>4, <1>7 DEF DropFunction, ServerReturns, ServerStops, Serves
<1>8. CASE UNCHANGED vars
  BY <1>4, <1>8 DEF vars, outgoing
<1> QED
  BY <1>1, <1>2, <1>3, <1>5, <1>6, <1>7, <1>8 DEF Next, ToProgramNext

\* What the server writes reaches the program's callback as written, in order and once,
\* and the task that forwards it ends only when all of it was forwarded, however the
\* server cuts what it writes and whenever it goes (rs-lib/src/lsp/mod.rs:25-32,
\* rs-lib/src/lsp/io.rs:15-23).
THEOREM ToProgramImplemented == Spec => ToProgram!Spec
<1>1. Init => ToProgram!Init
  BY DEF Init, ToProgram!Init, FlattenSeq, Serves
<1>2. TypeInv /\ [Next]_vars => [ToProgramNext]_ToProgram!vars
  BY ToProgramStep
<1> QED
  BY <1>1, <1>2, TypeInvariance, PTL DEF Spec, ToProgram!Spec, ToProgramNext

-----------------------------------------------------------------------------
(* To the server.                                                          *)

\* What the Reader has left of its chunk, and what is on the way to the server.
Unread == After(buffer, pos)
Underway == Unread \o FlattenSeq(toServer)
Incoming == IF server = "stopped" THEN <<>> ELSE Underway

LEMMA UnderwayType ==
  ASSUME TypeInv
  PROVE  Unread \in Seq(Byte) /\ Underway \in Seq(Byte)
<1> DEFINE k == pos
<1>1. buffer \in Seq(Byte) /\ k \in 0 .. Len(buffer) /\ FlattenSeq(toServer) \in Seq(Byte)
  BY ChannelsOfBytes
<1>2. Unread \in Seq(Byte)
  BY <1>1, RestOf DEF Unread, After
<1> QED
  BY <1>1, <1>2 DEF Underway

\* A reader that has used up its chunk has nothing of it left.
LEMMA NothingUnread ==
  ASSUME TypeInv, UsedUp
  PROVE  Unread = <<>> /\ Underway = FlattenSeq(toServer)
<1>1. buffer \in Seq(Byte) /\ pos \in 0 .. Len(buffer) /\ FlattenSeq(toServer) \in Seq(Byte)
  BY ChannelsOfBytes
<1>2. pos = Len(buffer) /\ Len(buffer) \in Nat
  BY <1>1 DEF UsedUp
<1>3. Unread = <<>>
  BY <1>1, <1>2 DEF Unread, After
<1> QED
  BY <1>1, <1>3 DEF Underway

LEMMA SendIsPut ==
  ASSUME TypeInv, NEW chunk \in Chunks(0, MaxChunk), chunk # <<>>, SendToRust(chunk)
  PROVE  IsStrictPrefix(Underway, Underway')
<1> DEFINE f == FlattenSeq(toServer)
<1>1. chunk \in Seq(Byte)
  BY ChunksType, PipeAssumption
<1>2. toServer' = Append(toServer, chunk) /\ UNCHANGED <<buffer, pos>>
  BY DEF SendToRust
<1>3. toServer \in Seq(Seq(Byte)) /\ f \in Seq(Byte)
  BY ChannelsOfBytes
<1>4. FlattenSeq(toServer') = f \o chunk
  BY <1>1, <1>2, <1>3, FlattenAppend
<1>5. Underway' = Unread \o (f \o chunk)
  BY <1>2, <1>4 DEF Underway, Unread
<1>6. Underway' = Underway \o chunk
  <2>1. Unread \o (f \o chunk) = (Unread \o f) \o chunk
    <3> DEFINE u == Unread
    <3> HIDE DEF u, f
    <3>1. u \in Seq(Byte)
      BY UnderwayType DEF u
    <3> QED
      BY ONLY <1>1, <1>3, <3>1, ConcatAssociative, SMTT(30)
  <2> QED
    BY <1>5, <2>1 DEF Underway
<1> QED
  BY <1>1, <1>6, UnderwayType, LongerByConcat

\* A copy from a chunk of which p bytes are gone, with the bytes of rest behind it.
LEMMA CopyTakes ==
  ASSUME NEW from \in Chunks(0, MaxChunk), NEW p \in 0 .. Len(from), p < Len(from),
         NEW n \in 1 .. MaxRead, Copy(from, p, n),
         NEW rest \in Seq(Byte), FlattenSeq(toServer') = rest,
         Underway = After(from, p) \o rest
  PROVE  Takes(Underway, read', Underway') /\ server' = "runs"
<1> DEFINE q == pos'
<1>1. from \in Seq(Byte)
  BY ChunksAre, PipeAssumption
<1>2. /\ buffer' = from /\ read' = SubSeq(from, p + 1, q) /\ server' = "runs"
      /\ q \in 0 .. Len(from) /\ p < q
  BY CopyTypes
<1>3. Underway' = After(from, q) \o rest
  BY <1>2 DEF Underway, Unread, After
<1> HIDE DEF q
<1>4. Takes(After(from, p) \o rest, SubSeq(from, p + 1, q), After(from, q) \o rest)
  BY <1>1, <1>2, TakeFromChunk
<1> QED
  BY <1>2, <1>3, <1>4, Zenon

LEMMA PollBufferedTakes ==
  ASSUME TypeInv, NEW n \in 1 .. MaxRead, PollBuffered(n)
  PROVE  Takes(Underway, read', Underway') /\ server' = "runs"
<1>1. Copy(buffer, pos, n) /\ toServer' = toServer
  BY DEF PollBuffered
<1>2. buffer \in Chunks(0, MaxChunk) /\ pos \in 0 .. Len(buffer) /\ pos < Len(buffer)
  BY ChannelsOfBytes DEF PollBuffered, UsedUp, TypeInv
<1>3. FlattenSeq(toServer) \in Seq(Byte) /\ FlattenSeq(toServer') = FlattenSeq(toServer)
  BY <1>1, ChannelsOfBytes
<1> QED
  BY <1>1, <1>2, <1>3, CopyTakes DEF Underway, Unread

LEMMA PollNextTakes ==
  ASSUME TypeInv, Inv, NEW n \in 1 .. MaxRead, PollNext(n)
  PROVE  Takes(Underway, read', Underway') /\ server' = "runs"
<1> DEFINE c == Head(toServer)
           rest == FlattenSeq(Tail(toServer))
           p == 0
           Q == Seq(Byte)
<1>1. toServer # <<>> /\ Copy(c, p, n) /\ toServer' = Tail(toServer) /\ UsedUp
  BY DEF PollNext
<1>2. c \in Chunks(0, MaxChunk)
  BY <1>1, HeadTailProperties DEF TypeInv
<1>3. c # <<>>
  <2> DEFINE R == Seq(Byte) \ {<<>>}
  <2>1. toServer \in Seq(R)
    BY DEF Inv, NoneEmpty
  <2>2. c \in R
    <3> HIDE DEF R
    <3> QED
      BY <1>1, <2>1, HeadTailProperties
  <2> QED
    BY <2>2
<1>4. Tail(toServer) \in Seq(Seq(Byte))
  <2>1. toServer \in Seq(Q)
    BY ChannelsOfBytes
  <2> HIDE DEF Q
  <2>2. Tail(toServer) \in Seq(Q)
    BY <1>1, <2>1, HeadTailProperties
  <2> QED
    BY <2>2 DEF Q
<1>5. rest \in Seq(Byte) /\ FlattenSeq(toServer') = rest
  BY <1>1, <1>4, FlattenType
<1>6. Underway = c \o rest
  BY <1>1, ChannelsOfBytes, FlattenHead, NothingUnread
<1> HIDE DEF c, rest
<1>7. c \in Seq(Byte) /\ Len(c) \in Nat /\ Len(c) > 0
  <2>1. c \in Seq(Byte)
    BY <1>2, ChunksAre, PipeAssumption
  <2> QED
    BY <1>3, <2>1, EmptySeq
<1>8. c = After(c, p) /\ p \in 0 .. Len(c) /\ p < Len(c)
  BY <1>7 DEF After
<1> HIDE DEF p
<1>9. Underway = After(c, p) \o rest
  BY <1>6, <1>8, Zenon
<1> QED
  BY <1>1, <1>2, <1>5, <1>8, <1>9, CopyTakes

ToServerNext ==
  \/ ToServer!Put \/ ToServer!Take \/ ToServer!Close \/ ToServer!End \/ ToServer!Leave

LEMMA ToServerStep ==
  ASSUME ~EmptyMessages, TypeInv, Inv, [Next]_vars
  PROVE  [ToServerNext]_ToServer!vars
<1> USE DEF ToServer!vars
<1>1. ASSUME NEW chunk \in Chunks(0, MaxChunk), SendToRust(chunk) PROVE ToServer!Put
  <2>1. IsStrictPrefix(Underway, Underway')
    BY <1>1, SendIsPut DEF SendToRust
  <2>2. function /\ server = "runs" /\ UNCHANGED <<read, server, function>>
    BY <1>1 DEF SendToRust
  <2> QED
    BY <2>1, <2>2 DEF ToServer!Put, ToServer!IsStrictPrefix, ToServer!IsPrefix,
                      IsStrictPrefix, IsPrefix, Underway, Unread, After
<1>2. ASSUME NEW n \in 1 .. MaxRead, PollBuffered(n) \/ PollNext(n) PROVE ToServer!Take
  <2>1. Takes(Underway, read', Underway') /\ server' = "runs"
    BY <1>2, PollBufferedTakes, PollNextTakes
  <2>2. server = "runs" /\ function' = function
    BY <1>2 DEF PollBuffered, PollNext, Polls, Copy
  <2> QED
    BY <2>1, <2>2 DEF ToServer!Take, Takes, Underway, Unread, After
<1>3. CASE PollEmpty
  <2>1. /\ server = "runs" /\ UsedUp /\ toServer = <<>>
        /\ server' = IF function THEN "runs" ELSE "ended"
        /\ UNCHANGED <<toServer, buffer, pos, read, function>>
    BY <1>3 DEF PollEmpty, Polls
  <2>2. Underway = <<>>
    BY <2>1, NothingUnread DEF FlattenSeq
  <2>3. CASE function
    BY <2>1, <2>3
  <2>4. CASE ~function
    BY <2>1, <2>2, <2>4 DEF ToServerNext, ToServer!End, Underway, Unread, After
  <2> QED
    BY <2>3, <2>4
<1>4. CASE DropFunction
  BY <1>4 DEF DropFunction, ToServerNext, ToServer!Close
<1>5. CASE ServerStops
  BY <1>5 DEF ServerStops, ToServerNext, ToServer!Leave
<1>9. CASE ServerReturns
  BY <1>9 DEF ServerReturns, incoming, Underway, Unread, After
<1>6. CASE UNCHANGED <<toServer, buffer, pos, read, server, function>>
  BY <1>6
<1>7. ASSUME NEW chunk \in Chunks(1, MaxChunk), PollWrite(chunk)
      PROVE  [ToServerNext]_ToServer!vars
  BY <1>6, <1>7 DEF PollWrite, incoming
<1>8. CASE Forward \/ ForwardingEnds \/ UNCHANGED vars
  BY <1>6, <1>8 DEF Forward, ForwardingEnds, incoming, vars
<1> QED
  BY <1>1, <1>2, <1>3, <1>4, <1>5, <1>7, <1>8, <1>9 DEF Next, Poll, ToServerNext

\* When the program sends no empty string, the server reads what it sends as it was
\* sent, in order and once, however large its reads are, and sees the end only when the
\* program has dropped the function and all was read (rs-lib/src/lsp/mod.rs:34-38,
\* rs-lib/src/lsp/io.rs:54-77).
THEOREM ToServerImplemented ==
  ASSUME ~EmptyMessages
  PROVE  Spec => ToServer!Spec
<1>1. Init => ToServer!Init
  <2> SUFFICES ASSUME Init PROVE ToServer!Init
    OBVIOUS
  <2>1. SubSeq(buffer, pos + 1, Len(buffer)) = <<>> /\ FlattenSeq(toServer) = <<>>
    BY DEF Init, FlattenSeq
  <2>2. <<>> \o <<>> = <<>>
    OBVIOUS
  <2> QED
    BY <2>1, <2>2, Zenon DEF Init, ToServer!Init
<1>2. TypeInv /\ Inv /\ [Next]_vars => [ToServerNext]_ToServer!vars
  BY ToServerStep
<1> QED
  BY <1>1, <1>2, TypeInvariance, NoneEmptyInvariance, PTL DEF Spec, ToServer!Spec, ToServerNext

\* Both directions of the connection keep what ByteStream promises, for any bytes,
\* sizes of messages, of reads and of writes, when the program sends no empty string.
THEOREM ByteStreamsImplemented ==
  ASSUME ~EmptyMessages
  PROVE  Spec => ImplementsByteStreams
BY ToServerImplemented, ToProgramImplemented DEF ImplementsByteStreams
=============================================================================
