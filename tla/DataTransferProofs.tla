------------------------- MODULE DataTransferProofs -------------------------
(***************************************************************************)
(* Theorems about DataTransfer: no data that is rejected is forgotten, the *)
(* sender takes no more than the receiver has room for, and the two ends   *)
(* of a connection implement what BytePipe promises.                       *)
(*                                                                         *)
(* The proofs follow the bytes.  Whatever lies in a buffer, in the list of *)
(* data to send again or in the packet under way is a piece of the bytes   *)
(* written, and every byte that was taken is in one of these places or     *)
(* before the reader's offset.                                             *)
(***************************************************************************)
EXTENDS DataTransfer, SequenceTheorems, LongArithProofs

\* A piece of the first n bytes.
Entries == [data : Seq(Nat), offset : Nat]
EndOf(e) == e.offset + Len(e.data)
IsPiece(e, n) ==
  e \in Entries /\ e.data = Bytes(e.offset + 1, Len(e.data)) /\ e.data # <<>> /\ EndOf(e) <= n

\* Chunks that follow each other from one offset to another.
IsCut(cut, chunks, from, to) ==
  /\ cut \in [0 .. Len(chunks) -> from .. to]
  /\ cut[0] = from /\ cut[Len(chunks)] = to
  /\ \A i \in 1 .. Len(chunks) :
       cut[i - 1] < cut[i] /\ chunks[i] = Bytes(cut[i - 1] + 1, cut[i] - cut[i - 1])
Chain(chunks, from, to) == \E cut \in [0 .. Len(chunks) -> from .. to] : IsCut(cut, chunks, from, to)

IsMap(f, R) == DOMAIN f \subseteq Streams /\ f \in [DOMAIN f -> R]

Types ==
  /\ loop \in {"idle", "tick", "waiting", "backoff"} /\ sending \in BOOLEAN
  /\ stage \in {"none", "path", "handling", "answered"} /\ failure \in {"none", "flow"}
  /\ life \in [Streams -> {"open", "ending", "removed"}]
  /\ status \in [Streams -> {"open", "ended", "removed"}]
  /\ queuedCloses \subseteq Streams /\ dropped \subseteq Streams
  /\ {written, outgoingOffset, remoteMaxOffset, readOffset, maxOffset} \subseteq [Streams -> Nat]
  /\ connectionMax \in Int
  /\ response = [code |-> response.code, connectionMax |-> response.connectionMax,
                 limits |-> response.limits]
  /\ response.connectionMax \in Int /\ IsMap(response.limits, Int) /\ IsMap(announced, Int)
  /\ {readable, got} \subseteq [Streams -> Seq(Nat)] /\ reading \in [Streams -> BOOLEAN]
  /\ outgoing \in [Streams -> Seq(Seq(Nat))]
  /\ {toRetry, incoming} \subseteq [Streams -> Seq(Entries)]
  /\ IsMap(request.data, Entries) /\ request.closes \subseteq Streams

\* What is in the buffers.
Held(s) ==
  /\ Chain(outgoing[s], outgoingOffset[s], written[s])
  /\ \A i \in 1 .. Len(toRetry[s]) : IsPiece(toRetry[s][i], outgoingOffset[s])
  /\ \A i \in 1 .. Len(incoming[s]) : IsPiece(incoming[s][i], outgoingOffset[s])
  /\ s \in DOMAIN request.data => IsPiece(request.data[s], outgoingOffset[s])

\* What has been read.
ReadUp(s) ==
  /\ got[s] = Bytes(1, Len(got[s])) /\ readable[s] = Bytes(Len(got[s]) + 1, Len(readable[s]))
  /\ Len(got[s]) + Len(readable[s]) = readOffset[s]
  /\ s \in Flowing => readable[s] = <<>>
  /\ readOffset[s] <= outgoingOffset[s] /\ maxOffset[s] <= outgoingOffset[s]

\* The entries of the sorter.
InOrder(s) ==
  \A i, j \in 1 .. Len(incoming[s]) : i < j => incoming[s][i].offset <= incoming[s][j].offset
NoneAt(entries, o) == entries = <<>> \/ entries[1].offset # o
NextIsRead(s) == reading[s] \/ status[s] # "open" => NoneAt(incoming[s], readOffset[s])

\* The window of a stream.
WindowKept(s) ==
  /\ outgoingOffset[s] <= remoteMaxOffset[s]
  /\ remoteMaxOffset[s] <= Len(got[s]) + HighWaterMark
  /\ s \in DOMAIN response.limits => response.limits[s] <= Len(got[s]) + HighWaterMark
  /\ s \in DOMAIN announced => announced[s] <= Len(got[s]) + HighWaterMark

\* Where a byte can be.
In(e, b) == e.offset < b /\ b <= EndOf(e)
Received(s, b) == b <= readOffset[s] \/ \E i \in 1 .. Len(incoming[s]) : In(incoming[s][i], b)
Waits(s, b) == \E i \in 1 .. Len(toRetry[s]) : In(toRetry[s][i], b)
UnderWay(s, b) == s \in DOMAIN request.data /\ In(request.data[s], b)
Somewhere(s) ==
  s \notin dropped =>
    /\ \A b \in 1 .. outgoingOffset[s] : Received(s, b) \/ Waits(s, b) \/ UnderWay(s, b)
    /\ stage \in {"handling", "answered"} =>
         \A b \in 1 .. outgoingOffset[s] : UnderWay(s, b) => Received(s, b)

\* The packet under way, and the ends of streams.
Flight ==
  /\ stage = "none" => DOMAIN request.data = {} /\ request.closes = {}
  /\ stage # "none" => loop = "waiting"
  /\ request.closes \cap DOMAIN request.data = {}
Endings(s) ==
  /\ s \in queuedCloses \cup request.closes \cup dropped \/ status[s] # "open" => life[s] = "removed"
  /\ life[s] = "removed" => outgoing[s] = <<>>
  /\ life[s] = "removed" /\ s \notin dropped => toRetry[s] = <<>>
  /\ s \in DOMAIN request.data => status[s] = "open"

Good(s) == Held(s) /\ ReadUp(s) /\ InOrder(s) /\ NextIsRead(s) /\ WindowKept(s) /\ Somewhere(s) /\ Endings(s)
IInv == Types /\ Flight /\ \A s \in Streams : Good(s)

\* The window of the connection, while its offsets count every stream.
Room == SumFunctionOnSet([s \in Streams |-> Len(got[s])], Streams) + PeerBufferSize
ConnectionKept ==
  Existing = Streams =>
    /\ connectionMax <= Room /\ response.connectionMax <= Room
    /\ SumFunctionOnSet(outgoingOffset, Streams) <= Room
-----------------------------------------------------------------------------
(* Bytes, and chunks of them.                                               *)

\* Bytes is a sequence of consecutive numbers.
LEMMA BytesAre ==
  ASSUME NEW a \in Nat, NEW n \in Nat
  PROVE  /\ Bytes(a, n) \in Seq(Nat) /\ Len(Bytes(a, n)) = n /\ DOMAIN Bytes(a, n) = 1 .. n
         /\ \A i \in 1 .. n : Bytes(a, n)[i] = a + i - 1
<1>1. Bytes(a, n) \in [1 .. n -> Nat]
  BY DEF Bytes
<1>2. Bytes(a, n) \in Seq(Nat)
  BY <1>1, SeqDef
<1>3. Len(Bytes(a, n)) = n
  BY <1>1, <1>2, LenProperties
<1> QED BY <1>1, <1>2, <1>3 DEF Bytes

\* Bytes that follow on each other are bytes.
LEMMA BytesJoin ==
  ASSUME NEW a \in Nat, NEW m \in Nat, NEW n \in Nat
  PROVE  Bytes(a, m) \o Bytes(a + m, n) = Bytes(a, m + n)
<1> DEFINE x == Bytes(a, m)
           y == Bytes(a + m, n)
           z == Bytes(a, m + n)
<1>1. /\ x \in Seq(Nat) /\ Len(x) = m /\ \A i \in 1 .. m : x[i] = a + i - 1
      /\ y \in Seq(Nat) /\ Len(y) = n /\ \A i \in 1 .. n : y[i] = a + m + i - 1
      /\ z \in Seq(Nat) /\ Len(z) = m + n /\ \A i \in 1 .. m + n : z[i] = a + i - 1
  <2>1. a + m \in Nat /\ m + n \in Nat
    OBVIOUS
  <2>2. /\ x \in Seq(Nat) /\ Len(x) = m /\ \A i \in 1 .. m : x[i] = a + i - 1
    BY BytesAre
  <2>3. /\ y \in Seq(Nat) /\ Len(y) = n /\ \A i \in 1 .. n : y[i] = a + m + i - 1
    BY <2>1, BytesAre
  <2>4. /\ z \in Seq(Nat) /\ Len(z) = m + n /\ \A i \in 1 .. m + n : z[i] = a + i - 1
    BY <2>1, BytesAre
  <2> QED BY <2>2, <2>3, <2>4
<1> HIDE DEF x, y, z
<1>2. /\ x \o y \in Seq(Nat) /\ Len(x \o y) = m + n
      /\ \A i \in 1 .. m + n : (x \o y)[i] = IF i <= m THEN x[i] ELSE y[i - m]
  BY <1>1, ConcatProperties
<1>3. \A i \in 1 .. m + n : (x \o y)[i] = z[i]
  <2> TAKE i \in 1 .. m + n
  <2>1. CASE i <= m
    BY <2>1, <1>1, <1>2
  <2>2. CASE ~ (i <= m)
    <3>1. i - m \in 1 .. n /\ i \in 1 .. m + n /\ ~ (i <= m)
      BY <2>2
    <3>2. (x \o y)[i] = y[i - m]
      BY <3>1, <1>2
    <3>3. y[i - m] = a + m + (i - m) - 1
      BY <3>1, <1>1
    <3>4. z[i] = a + i - 1
      BY <1>1
    <3>5. a + m + (i - m) - 1 = a + i - 1
      BY <3>1
    <3> QED BY <3>2, <3>3, <3>4, <3>5
  <2> QED BY <2>1, <2>2
<1>4. x \o y = z
  BY <1>1, <1>2, <1>3, SeqEqual
<1> QED BY <1>4 DEF x, y, z

\* A part of bytes is bytes.
LEMMA BytesPart ==
  ASSUME NEW a \in Nat, NEW n \in Nat, NEW i \in Nat \ {0}, NEW j \in Nat, i - 1 <= j, j <= n
  PROVE  SubSeq(Bytes(a, n), i, j) = Bytes(a + (i - 1), j - (i - 1))
<1> DEFINE x == Bytes(a, n)
           y == SubSeq(x, i, j)
           z == Bytes(a + (i - 1), j - (i - 1))
<1>1. /\ x \in Seq(Nat) /\ Len(x) = n /\ \A k \in 1 .. n : x[k] = a + k - 1
      /\ z \in Seq(Nat) /\ Len(z) = j - (i - 1) /\ \A k \in 1 .. j - (i - 1) : z[k] = a + (i - 1) + k - 1
  <2>1. a + (i - 1) \in Nat /\ j - (i - 1) \in Nat
    OBVIOUS
  <2>2. /\ x \in Seq(Nat) /\ Len(x) = n /\ \A k \in 1 .. n : x[k] = a + k - 1
    BY BytesAre
  <2>3. /\ z \in Seq(Nat) /\ Len(z) = j - (i - 1)
        /\ \A k \in 1 .. j - (i - 1) : z[k] = a + (i - 1) + k - 1
    BY <2>1, BytesAre
  <2> QED BY <2>2, <2>3
<1>2. \A k \in i .. j : x[k] \in Nat
  BY <1>1
<1> HIDE DEF x, z
<1>3. /\ y \in Seq(Nat) /\ Len(y) = IF i <= j THEN j - i + 1 ELSE 0
      /\ \A k \in 1 .. j - i + 1 : y[k] = x[i + k - 1]
  BY <1>2, SubSeqProperties
<1> HIDE DEF y
<1>4. Len(y) = Len(z)
  BY <1>1, <1>3
<1>5. \A k \in 1 .. Len(y) : y[k] = z[k]
  <2> TAKE k \in 1 .. Len(y)
  <2>1. k \in 1 .. j - i + 1 /\ k \in 1 .. j - (i - 1) /\ i + k - 1 \in 1 .. n
    BY <1>1, <1>3, <1>4
  <2>2. y[k] = x[i + k - 1] /\ x[i + k - 1] = a + (i + k - 1) - 1
    BY <2>1, <1>1, <1>3
  <2>3. z[k] = a + (i - 1) + k - 1
    BY <2>1, <1>1
  <2> QED BY <2>2, <2>3
<1>6. y = z
  BY <1>1, <1>3, <1>4, <1>5, SeqEqual
<1> QED BY <1>6 DEF x, y, z

\* No bytes.
LEMMA NoBytes == ASSUME NEW a \in Nat PROVE Bytes(a, 0) = <<>>
<1>1. Bytes(a, 0) \in Seq(Nat) /\ Len(Bytes(a, 0)) = 0
  BY BytesAre
<1> QED BY <1>1, EmptySeq

\* The first bytes of bytes, and the others.
LEMMA BytesTaken ==
  ASSUME NEW a \in Nat, NEW n \in Nat, NEW k \in Nat, k <= n
  PROVE  Take(Bytes(a, n), k) = Bytes(a, k)
<1>0. 1 \in Nat \ {0} /\ 1 - 1 <= k
  OBVIOUS
<1>1. SubSeq(Bytes(a, n), 1, k) = Bytes(a + (1 - 1), k - (1 - 1))
  BY <1>0, BytesPart, Zenon
<1>2. a + (1 - 1) = a /\ k - (1 - 1) = k
  OBVIOUS
<1> QED BY <1>1, <1>2 DEF Take

LEMMA BytesDropped ==
  ASSUME NEW a \in Nat, NEW n \in Nat, NEW k \in Nat, k <= n
  PROVE  Drop(Bytes(a, n), k) = Bytes(a + k, n - k)
<1>1. k + 1 \in Nat \ {0} /\ (k + 1) - 1 <= n /\ n <= n /\ (k + 1) - 1 = k
  OBVIOUS
<1>2. SubSeq(Bytes(a, n), k + 1, n) = Bytes(a + ((k + 1) - 1), n - ((k + 1) - 1))
  BY <1>1, BytesPart, Zenon
<1>3. Len(Bytes(a, n)) = n
  BY BytesAre
<1> QED BY <1>1, <1>2, <1>3 DEF Drop

\* The greatest of a few numbers.
LEMMA MaxIsGreatest ==
  ASSUME NEW n \in Nat, NEW S \in SUBSET (0 .. n), S # {}
  PROVE  Max(S) \in S /\ \A x \in S : x <= Max(S)
<1>1. \E x \in S : \A y \in S : x >= y
  <2> DEFINE D == {n - x : x \in S}
  <2>4. \A y \in S : y \in Nat /\ n - y \in Nat
    <3>1. \A y \in S : y \in 0 .. n
      OBVIOUS
    <3> QED BY <3>1
  <2>0. D \in SUBSET Nat /\ D # {}
    BY <2>4
  <2>1. PICK d \in D : \A e \in D : d <= e
    <3> HIDE DEF D
    <3> QED BY <2>0, LeastNumber
  <2>2. PICK x \in S : d = n - x
    BY <2>1
  <2>3. \A y \in S : d <= n - y
    BY <2>1
  <2> QED BY <2>2, <2>3, <2>4
<1> QED BY <1>1 DEF Max

\* The least of them.
LEMMA MinIsLeast ==
  ASSUME NEW S \in SUBSET Nat, S # {}
  PROVE  Min(S) \in S /\ \A x \in S : Min(S) <= x
<1>1. \E x \in S : \A y \in S : x <= y
  BY LeastNumber
<1> QED BY <1>1 DEF Min

\* What a cut says, number by number.
LEMMA CutIs ==
  ASSUME NEW chunks \in Seq(Seq(Nat)), NEW from \in Nat, NEW to \in Nat, NEW cut, IsCut(cut, chunks, from, to)
  PROVE  /\ \A i \in 0 .. Len(chunks) : cut[i] \in Nat /\ from <= cut[i] /\ cut[i] <= to
         /\ cut[0] = from /\ cut[Len(chunks)] = to /\ Len(chunks) \in Nat
         /\ \A i \in 1 .. Len(chunks) :
              /\ i - 1 \in 0 .. Len(chunks) /\ i \in 0 .. Len(chunks)
              /\ cut[i - 1] < cut[i] /\ chunks[i] = Bytes(cut[i - 1] + 1, cut[i] - cut[i - 1])
              /\ chunks[i] \in Seq(Nat) /\ Len(chunks[i]) = cut[i] - cut[i - 1]
<1>1. Len(chunks) \in Nat
  OBVIOUS
<1>2. \A i \in 0 .. Len(chunks) : cut[i] \in from .. to
  BY DEF IsCut
<1>3. \A i \in 0 .. Len(chunks) : cut[i] \in Nat /\ from <= cut[i] /\ cut[i] <= to
  <2> TAKE i \in 0 .. Len(chunks)
  <2>1. cut[i] \in from .. to
    BY <1>2
  <2> QED BY <2>1
<1>4. ASSUME NEW i \in 1 .. Len(chunks)
      PROVE  /\ i - 1 \in 0 .. Len(chunks) /\ i \in 0 .. Len(chunks)
             /\ cut[i - 1] < cut[i] /\ chunks[i] = Bytes(cut[i - 1] + 1, cut[i] - cut[i - 1])
             /\ chunks[i] \in Seq(Nat) /\ Len(chunks[i]) = cut[i] - cut[i - 1]
  <2>1. i - 1 \in 0 .. Len(chunks) /\ i \in 0 .. Len(chunks)
    BY <1>1
  <2>2. cut[i - 1] < cut[i] /\ chunks[i] = Bytes(cut[i - 1] + 1, cut[i] - cut[i - 1])
    BY DEF IsCut
  <2>3. cut[i - 1] \in Nat /\ cut[i] \in Nat
    BY <1>3, <2>1
  <2> DEFINE a == cut[i - 1] + 1
             m == cut[i] - cut[i - 1]
  <2>4. a \in Nat /\ m \in Nat
    BY <2>2, <2>3
  <2>5. Bytes(a, m) \in Seq(Nat) /\ Len(Bytes(a, m)) = m
    <3> HIDE DEF a, m
    <3> QED BY <2>4, BytesAre
  <2> QED BY <2>1, <2>2, <2>5
<1>5. cut[0] = from /\ cut[Len(chunks)] = to
  BY DEF IsCut
<1> QED BY <1>1, <1>3, <1>4, <1>5

\* The bytes of chunks that follow each other.
LEMMA ChainFlattened ==
  ASSUME NEW chunks \in Seq(Seq(Nat)), NEW from \in Nat, NEW to \in Nat, NEW cut, IsCut(cut, chunks, from, to)
  PROVE  FlattenSeq(chunks) = Bytes(from + 1, to - from)
<1> DEFINE n == Len(chunks)
           F(f) == [i \in 1 .. n |-> IF i = 1 THEN chunks[i] ELSE f[i - 1] \o chunks[i]]
           w == [i \in 1 .. n |-> Bytes(from + 1, cut[i] - from)]
<1>1. /\ n \in Nat /\ cut[0] = from /\ cut[n] = to
      /\ \A i \in 0 .. n : cut[i] \in Nat /\ from <= cut[i] /\ cut[i] <= to
      /\ \A i \in 1 .. n : /\ i - 1 \in 0 .. n /\ i \in 0 .. n
                           /\ cut[i - 1] < cut[i] /\ chunks[i] = Bytes(cut[i - 1] + 1, cut[i] - cut[i - 1])
  BY CutIs
<1>2. CASE n = 0
  <2>1. chunks = <<>> /\ from = to
    BY <1>1, <1>2, EmptySeq
  <2> QED BY <2>1, <1>2, NoBytes DEF FlattenSeq
<1>3. CASE n # 0
  <2>1. w = F(w)
    <3>1. ASSUME NEW i \in 1 .. n
          PROVE  w[i] = IF i = 1 THEN chunks[i] ELSE w[i - 1] \o chunks[i]
      <4>1. CASE i = 1
        BY <4>1, <1>1
      <4>2. CASE i # 1
        <5>1. i - 1 \in 1 .. n /\ i - 1 \in 0 .. n /\ i \in 0 .. n
          BY <4>2, <1>1
        <5> DEFINE a == cut[i - 1] - from
                   b == cut[i] - cut[i - 1]
        <5>0. cut[i - 1] \in Nat /\ cut[i] \in Nat /\ from <= cut[i - 1] /\ cut[i - 1] < cut[i]
          BY <5>1, <1>1
        <5>2. a \in Nat /\ b \in Nat /\ from + 1 \in Nat /\ from + 1 + a = cut[i - 1] + 1 /\ a + b = cut[i] - from
          <6>1. \A x, y \in Nat : from <= x /\ x < y =>
                  /\ x - from \in Nat /\ y - x \in Nat /\ from + 1 \in Nat
                  /\ from + 1 + (x - from) = x + 1 /\ (x - from) + (y - x) = y - from
            OBVIOUS
          <6> QED BY <6>1, <5>0
        <5>3. Bytes(from + 1, a) \o Bytes(from + 1 + a, b) = Bytes(from + 1, a + b)
          BY <5>2, BytesJoin
        <5>4. w[i - 1] = Bytes(from + 1, a) /\ chunks[i] = Bytes(from + 1 + a, b) /\ w[i] = Bytes(from + 1, a + b)
          BY <5>1, <5>2, <1>1
        <5> QED BY <5>3, <5>4, <4>2
      <4> QED BY <4>1, <4>2
    <3> QED BY <3>1, Zenon
  <2> DEFINE f == CHOOSE g : g = F(g)
  <2>2. f = F(f)
    <3> HIDE DEF w, F
    <3> QED BY <2>1
  <2>3. FlattenSeq(chunks) = f[n]
    BY <1>3 DEF FlattenSeq
  <2> HIDE DEF f
  <2>4. f[n] = w[n]
    <3> DEFINE Bad == {i \in 1 .. n : f[i] # w[i]}
    <3>1. SUFFICES ASSUME Bad # {} PROVE FALSE
      <4>1. n \in 1 .. n
        BY <1>3, <1>1
      <4> QED BY <4>1
    <3>2. Bad \in SUBSET Nat
      OBVIOUS
    <3>3. PICK i \in Bad : \A j \in Bad : i <= j
      <4> HIDE DEF Bad
      <4> QED BY <3>1, <3>2, LeastNumber
    <3>4. i \in 1 .. n /\ f[i] # w[i]
      BY <3>3
    <3>5. f[i] = (IF i = 1 THEN chunks[i] ELSE f[i - 1] \o chunks[i])
      <4>1. f[i] = F(f)[i]
        BY <2>2
      <4> QED BY <4>1, <3>4
    <3>6. w[i] = (IF i = 1 THEN chunks[i] ELSE w[i - 1] \o chunks[i])
      <4>1. w[i] = F(w)[i]
        BY <2>1
      <4> HIDE DEF w
      <4> QED BY <4>1, <3>4
    <3>7. i # 1 => f[i - 1] = w[i - 1]
      <4> HAVE i # 1
      <4>1. i - 1 \in 1 .. n /\ ~ (i <= i - 1)
        BY <3>4
      <4>2. i - 1 \notin Bad
        BY <4>1, <3>3
      <4> QED BY <4>1, <4>2
    <3> HIDE DEF w
    <3> QED BY <3>4, <3>5, <3>6, <3>7
  <2>5. w[n] = Bytes(from + 1, to - from)
    BY <1>1, <1>3
  <2> QED BY <2>3, <2>4, <2>5
<1> QED BY <1>2, <1>3

\* What rises at every step rises.
LEMMA Rises ==
  ASSUME NEW n \in Nat, NEW cut, \A i \in 0 .. n : cut[i] \in Nat,
         \A i \in 1 .. n : cut[i - 1] < cut[i]
  PROVE  \A i, j \in 0 .. n : i <= j => cut[i] <= cut[j]
<1> TAKE i \in 0 .. n
<1> DEFINE Bad == {j \in 0 .. n : i <= j /\ ~ (cut[i] <= cut[j])}
<1> SUFFICES ASSUME Bad # {} PROVE FALSE
  OBVIOUS
<1>1. Bad \in SUBSET Nat
  OBVIOUS
<1>2. PICK j \in Bad : \A k \in Bad : j <= k
  <2> HIDE DEF Bad
  <2> QED BY <1>1, LeastNumber
<1>3. j \in 0 .. n /\ i <= j /\ ~ (cut[i] <= cut[j]) /\ i \in Nat /\ j \in Nat
  BY <1>2
<1>4. cut[i] \in Nat /\ cut[j] \in Nat
  BY <1>3
<1>5. i # j
  BY <1>3, <1>4
<1>6. j - 1 \in 0 .. n /\ j \in 1 .. n /\ i <= j - 1 /\ ~ (j <= j - 1)
  BY <1>3, <1>5
<1>7. cut[i] <= cut[j - 1]
  <2>1. j - 1 \notin Bad
    BY <1>2, <1>6
  <2> QED BY <2>1, <1>6
<1>8. cut[j - 1] < cut[j] /\ cut[j - 1] \in Nat
  BY <1>6
<1> QED BY <1>3, <1>4, <1>7, <1>8

\* The first chunks follow each other as well.
LEMMA ChainFront ==
  ASSUME NEW chunks \in Seq(Seq(Nat)), NEW from \in Nat, NEW to \in Nat, NEW cut, IsCut(cut, chunks, from, to),
         NEW k \in 0 .. Len(chunks)
  PROVE  FlattenSeq(SubSeq(chunks, 1, k)) = Bytes(from + 1, cut[k] - from)
<1> DEFINE front == SubSeq(chunks, 1, k)
           c == [i \in 0 .. k |-> cut[i]]
<1>1. /\ Len(chunks) \in Nat /\ cut[0] = from
      /\ \A i \in 0 .. Len(chunks) : cut[i] \in Nat /\ from <= cut[i]
      /\ \A i \in 1 .. Len(chunks) :
           cut[i - 1] < cut[i] /\ chunks[i] = Bytes(cut[i - 1] + 1, cut[i] - cut[i - 1])
  BY CutIs
<1>2. k \in Nat /\ k <= Len(chunks)
  BY <1>1
<1>3. front \in Seq(Seq(Nat)) /\ Len(front) = k /\ \A i \in 1 .. k : front[i] = chunks[i]
  <2>1. \A i \in 1 .. k : chunks[i] \in Seq(Nat)
    BY <1>1, <1>2, ElementOfSeq
  <2>2. /\ front \in Seq(Seq(Nat)) /\ Len(front) = IF 1 <= k THEN k - 1 + 1 ELSE 0
        /\ \A i \in 1 .. k - 1 + 1 : front[i] = chunks[1 + i - 1]
    BY <2>1, <1>2, SubSeqProperties
  <2> QED BY <2>2, <1>2
<1>4. \A i, j \in 0 .. Len(chunks) : i <= j => cut[i] <= cut[j]
  BY <1>1, Rises
<1>5. \A i \in 0 .. k : c[i] = cut[i] /\ i \in 0 .. Len(chunks) /\ cut[i] \in from .. cut[k]
  <2> TAKE i \in 0 .. k
  <2>1. i \in 0 .. Len(chunks) /\ i <= k
    BY <1>2
  <2>2. cut[i] \in Nat /\ from <= cut[i] /\ cut[i] <= cut[k] /\ cut[k] \in Nat
    BY <2>1, <1>1, <1>4
  <2> QED BY <2>1, <2>2
<1>6. IsCut(c, front, from, cut[k])
  <2>1. c \in [0 .. Len(front) -> from .. cut[k]]
    BY <1>3, <1>5
  <2>2. c[0] = from /\ c[Len(front)] = cut[k]
    BY <1>1, <1>2, <1>3
  <2>3. ASSUME NEW i \in 1 .. Len(front)
        PROVE  c[i - 1] < c[i] /\ front[i] = Bytes(c[i - 1] + 1, c[i] - c[i - 1])
    <3>1. i \in 1 .. k /\ i \in 1 .. Len(chunks) /\ i - 1 \in 0 .. k /\ i \in 0 .. k
      BY <1>2, <1>3
    <3>2. front[i] = chunks[i] /\ c[i - 1] = cut[i - 1] /\ c[i] = cut[i]
      BY <3>1, <1>3
    <3> QED BY <3>1, <3>2, <1>1
  <2> HIDE DEF c, front
  <2> QED BY <2>1, <2>2, <2>3 DEF IsCut
<1>7. cut[k] \in Nat
  BY <1>1
<1> HIDE DEF c, front
<1>8. FlattenSeq(front) = Bytes(from + 1, cut[k] - from)
  BY <1>3, <1>6, <1>7, ChainFlattened
<1> QED BY <1>8 DEF front

\* A tail of chunks that follow each other, from any place in the first of them.
LEMMA ChainRest ==
  ASSUME NEW chunks \in Seq(Seq(Nat)), NEW from \in Nat, NEW to \in Nat, NEW cut, IsCut(cut, chunks, from, to),
         NEW k \in 1 .. Len(chunks), NEW at \in Nat, cut[k - 1] <= at, at < cut[k],
         NEW rest, rest = <<Bytes(at + 1, cut[k] - at)>> \o Drop(chunks, k)
  PROVE  rest \in Seq(Seq(Nat)) /\ Chain(rest, at, to)
<1> DEFINE n == Len(chunks)
           c == [i \in 0 .. n - k + 1 |-> IF i = 0 THEN at ELSE cut[k + i - 1]]
           head == <<Bytes(at + 1, cut[k] - at)>>
           tail == Drop(chunks, k)
<1>1. /\ n \in Nat /\ cut[n] = to
      /\ \A i \in 0 .. n : cut[i] \in Nat /\ from <= cut[i] /\ cut[i] <= to
      /\ \A i \in 1 .. n :
           cut[i - 1] < cut[i] /\ chunks[i] = Bytes(cut[i - 1] + 1, cut[i] - cut[i - 1])
  BY CutIs
<1>2. k \in Nat /\ 1 <= k /\ k <= n /\ cut[k] \in Nat /\ cut[k] <= to
  BY <1>1
<1>3. \A i, j \in 0 .. n : i <= j => cut[i] <= cut[j]
  BY <1>1, Rises
<1>4. head \in Seq(Seq(Nat)) /\ Len(head) = 1 /\ head[1] = Bytes(at + 1, cut[k] - at)
  <2>1. at + 1 \in Nat /\ cut[k] - at \in Nat
    BY <1>2
  <2> DEFINE b == Bytes(at + 1, cut[k] - at)
  <2>2. b \in Seq(Nat)
    BY <2>1, BytesAre
  <2> HIDE DEF b
  <2>3. <<b>> \in Seq(Seq(Nat)) /\ Len(<<b>>) = 1 /\ <<b>>[1] = b
    BY <2>2
  <2> QED BY <2>3 DEF b
<1>5. tail \in Seq(Seq(Nat)) /\ Len(tail) = n - k /\ \A i \in 1 .. n - k : tail[i] = chunks[k + i]
  <2>1. \A i \in k + 1 .. n : chunks[i] \in Seq(Nat)
    <3> TAKE i \in k + 1 .. n
    <3>1. i \in 1 .. Len(chunks)
      BY <1>2
    <3> QED BY <3>1, ElementOfSeq
  <2>2. k + 1 \in Int /\ n \in Int
    BY <1>1, <1>2
  <2>3. /\ SubSeq(chunks, k + 1, n) \in Seq(Seq(Nat))
        /\ Len(SubSeq(chunks, k + 1, n)) = IF k + 1 <= n THEN n - (k + 1) + 1 ELSE 0
        /\ \A i \in 1 .. n - (k + 1) + 1 : SubSeq(chunks, k + 1, n)[i] = chunks[k + 1 + i - 1]
    BY <2>1, <2>2, SubSeqProperties
  <2>4. tail = SubSeq(chunks, k + 1, n)
    BY DEF Drop
  <2> HIDE DEF tail
  <2>5. Len(tail) = n - k
    BY <2>3, <2>4, <1>2, <1>1
  <2>6. ASSUME NEW i \in 1 .. n - k PROVE tail[i] = chunks[k + i]
    <3>1. i \in 1 .. n - (k + 1) + 1 /\ k + 1 + i - 1 = k + i
      BY <1>1, <1>2
    <3> QED BY <3>1, <2>3, <2>4
  <2> QED BY <2>3, <2>4, <2>5, <2>6
<1> HIDE DEF head, tail
<1>6. /\ rest \in Seq(Seq(Nat)) /\ Len(rest) = 1 + (n - k)
      /\ \A i \in 1 .. 1 + (n - k) : rest[i] = IF i <= 1 THEN head[i] ELSE tail[i - 1]
  <2>1. rest = head \o tail
    BY DEF head, tail
  <2>2. /\ head \o tail \in Seq(Seq(Nat)) /\ Len(head \o tail) = Len(head) + Len(tail)
        /\ \A i \in 1 .. Len(head) + Len(tail) :
             (head \o tail)[i] = IF i <= Len(head) THEN head[i] ELSE tail[i - Len(head)]
    <3>1. head \in Seq(Seq(Nat)) /\ tail \in Seq(Seq(Nat))
      BY <1>4, <1>5
    <3> QED BY ONLY <3>1, ConcatProperties
  <2>3. Len(head) = 1 /\ Len(tail) = n - k
    BY <1>4, <1>5
  <2> QED BY <2>1, <2>2, <2>3
<1>7. \A i \in 0 .. n - k + 1 : c[i] = (IF i = 0 THEN at ELSE cut[k + i - 1]) /\ c[i] \in at .. to
  <2> TAKE i \in 0 .. n - k + 1
  <2>1. CASE i = 0
    <3>1. at <= to
      BY <1>2
    <3> QED BY <2>1, <3>1, <1>2
  <2>2. CASE i # 0
    <3>1. k + i - 1 \in 0 .. n /\ k \in 0 .. n /\ k <= k + i - 1 /\ n \in 0 .. n
      BY <2>2, <1>1, <1>2
    <3>2. cut[k] <= cut[k + i - 1] /\ cut[k + i - 1] \in Nat /\ cut[k + i - 1] <= to
      BY <3>1, <1>1, <1>3
    <3> QED BY <2>2, <3>2, <1>2
  <2> QED BY <2>1, <2>2
<1>8. IsCut(c, rest, at, to)
  <2>1. c \in [0 .. Len(rest) -> at .. to]
    <3>1. 0 .. Len(rest) = 0 .. n - k + 1
      BY <1>6, <1>1, <1>2
    <3> QED BY <3>1, <1>7
  <2>2. c[0] = at /\ c[Len(rest)] = to
    <3>1. 0 \in 0 .. n - k + 1 /\ Len(rest) \in 0 .. n - k + 1 /\ Len(rest) # 0 /\ k + Len(rest) - 1 = n
      <4>1. Len(rest) = 1 + (n - k) /\ n \in Nat /\ k \in Nat /\ 1 <= k /\ k <= n
        BY <1>6, <1>1, <1>2
      <4> QED BY ONLY <4>1
    <3> QED BY <3>1, <1>7, <1>1
  <2>3. ASSUME NEW i \in 1 .. Len(rest)
        PROVE  c[i - 1] < c[i] /\ rest[i] = Bytes(c[i - 1] + 1, c[i] - c[i - 1])
    <3>1. i \in 1 .. 1 + (n - k) /\ i \in 0 .. n - k + 1 /\ i - 1 \in 0 .. n - k + 1 /\ i # 0
      <4>1. i \in 1 .. 1 + (n - k) /\ n \in Nat /\ k \in Nat /\ 1 <= k /\ k <= n
        BY <1>6, <1>1, <1>2
      <4> QED BY ONLY <4>1
    <3>2. CASE i = 1
      <4>1. c[i - 1] = at /\ c[i] = cut[k] /\ rest[i] = head[1]
        BY <3>1, <3>2, <1>6, <1>7, <1>2
      <4> QED BY <4>1, <1>4
    <3>3. CASE i # 1
      <4>1. ~ (i <= 1) /\ i - 1 # 0 /\ i - 1 \in 1 .. n - k /\ k + (i - 1) \in 1 .. n
            /\ k + (i - 1) - 1 = k + i - 1 - 1 /\ k + (i - 1) = k + i - 1
        BY <3>1, <3>3, <1>1, <1>2
      <4>2. c[i - 1] = cut[k + (i - 1) - 1] /\ c[i] = cut[k + (i - 1)] /\ rest[i] = chunks[k + (i - 1)]
        BY <3>1, <4>1, <1>5, <1>6, <1>7
      <4> DEFINE j == k + (i - 1)
      <4>3. cut[j - 1] < cut[j] /\ chunks[j] = Bytes(cut[j - 1] + 1, cut[j] - cut[j - 1])
        BY <4>1, <1>1
      <4> HIDE DEF c
      <4> QED BY <4>2, <4>3
    <3> QED BY <3>2, <3>3
  <2> HIDE DEF c
  <2> QED BY <2>1, <2>2, <2>3 DEF IsCut
<1>9. c \in [0 .. Len(rest) -> at .. to]
  BY <1>8 DEF IsCut
<1> HIDE DEF c
<1> QED BY <1>6, <1>8, <1>9 DEF Chain

\* DataQueue.read takes bytes from the front, at most as many as asked for, and leaves the rest.
LEMMA QueueReads ==
  ASSUME NEW queue \in Seq(Seq(Nat)), NEW from \in Nat, NEW to \in Nat, Chain(queue, from, to),
         NEW n \in Nat
  PROVE  /\ DOMAIN QueueRead(queue, n) = {"data", "queue"}
         /\ \E m \in Nat : /\ m <= n /\ from + m <= to
                           /\ QueueRead(queue, n).data = Bytes(from + 1, m)
                           /\ QueueRead(queue, n).queue \in Seq(Seq(Nat))
                           /\ Chain(QueueRead(queue, n).queue, from + m, to)
                           /\ queue = <<>> => QueueRead(queue, n).queue = <<>>
<1> DEFINE L == Len(queue)
           Chunks(k) == FlattenSeq(SubSeq(queue, 1, k))
           S == {k \in 0 .. L : Len(Chunks(k)) <= n}
           whole == Max(S)
           part == Take(queue[whole + 1], n - Len(Chunks(whole)))
           r == QueueRead(queue, n)
<1>1. PICK cut : IsCut(cut, queue, from, to)
  BY DEF Chain
<1>2. /\ L \in Nat /\ cut[0] = from /\ cut[L] = to
      /\ \A i \in 0 .. L : cut[i] \in Nat /\ from <= cut[i] /\ cut[i] <= to
      /\ \A i \in 1 .. L : /\ cut[i - 1] < cut[i] /\ queue[i] = Bytes(cut[i - 1] + 1, cut[i] - cut[i - 1])
                           /\ queue[i] \in Seq(Nat) /\ Len(queue[i]) = cut[i] - cut[i - 1]
  BY <1>1, CutIs
<1>3. \A k \in 0 .. L : Chunks(k) = Bytes(from + 1, cut[k] - from) /\ Len(Chunks(k)) = cut[k] - from
  <2> TAKE k \in 0 .. L
  <2>1. Chunks(k) = Bytes(from + 1, cut[k] - from)
    BY <1>1, ChainFront
  <2>2. from + 1 \in Nat /\ cut[k] - from \in Nat
    BY <1>2
  <2> DEFINE m == cut[k] - from
             a == from + 1
  <2>3. Len(Bytes(a, m)) = m
    <3>1. a \in Nat /\ m \in Nat
      BY <2>2
    <3> HIDE DEF a, m
    <3> QED BY <3>1, BytesAre
  <2> QED BY <2>1, <2>3
<1>4. r = IF whole = L THEN [data |-> Chunks(whole), queue |-> <<>>]
          ELSE [data |-> Chunks(whole) \o part,
                queue |-> <<Drop(queue[whole + 1], Len(part))>> \o Drop(queue, whole + 1)]
  BY DEF QueueRead
<1>5. whole \in S /\ \A k \in S : k <= whole
  <2>1. S \in SUBSET (0 .. L)
    OBVIOUS
  <2>2. 0 \in S
    <3>1. 0 \in 0 .. L
      BY <1>2
    <3>2. Len(Chunks(0)) = 0
      BY <1>2, <1>3, <3>1
    <3> HIDE DEF Chunks
    <3> QED BY <3>1, <3>2
  <2> HIDE DEF S
  <2> QED BY <2>1, <2>2, <1>2, MaxIsGreatest
<1> HIDE DEF Chunks
<1>6. whole \in 0 .. L /\ Chunks(whole) = Bytes(from + 1, cut[whole] - from) /\ cut[whole] - from <= n
      /\ Len(Chunks(whole)) = cut[whole] - from
  <2>1. whole \in 0 .. L /\ Len(Chunks(whole)) <= n
    BY <1>5
  <2> HIDE DEF whole
  <2> QED BY <2>1, <1>3
<1>7. \A k \in 0 .. L : k <= whole \/ cut[k] - from > n
  <2> TAKE k \in 0 .. L
  <2>1. CASE k \in S
    BY <2>1, <1>5
  <2>2. CASE k \notin S
    <3>1. ~ (Len(Chunks(k)) <= n)
      BY <2>2
    <3>2. cut[k] - from \in Int
      BY <1>2
    <3> HIDE DEF whole
    <3> QED BY <3>1, <3>2, <1>3
  <2> HIDE DEF S, whole
  <2> QED BY <2>1, <2>2
<1> HIDE DEF whole, S, r
<1>8. cut[whole] \in Nat /\ from <= cut[whole] /\ cut[whole] <= to /\ whole \in Nat
  BY <1>2, <1>6
<1>9. CASE whole = L
  <2>1. r = [data |-> Chunks(whole), queue |-> <<>>]
    BY <1>4, <1>9
  <2> DEFINE m == to - from
             c == [i \in 0 .. 0 |-> to]
  <2>2. cut[whole] = to
    BY <1>2, <1>9
  <2>3. m \in Nat /\ m <= n /\ from + m = to
    BY <2>2, <1>6, <1>8
  <2>4. Chain(<<>>, to, to)
    <3>1. Len(<<>>) = 0 /\ 1 .. 0 = {} /\ c \in [0 .. 0 -> to .. to] /\ c[0] = to
      OBVIOUS
    <3>2. IsCut(c, <<>>, to, to)
      <4> HIDE DEF c
      <4> QED BY <3>1 DEF IsCut
    <3> HIDE DEF c
    <3> QED BY <3>1, <3>2 DEF Chain
  <2>5. r.data = Bytes(from + 1, m) /\ r.queue = <<>> /\ DOMAIN r = {"data", "queue"}
    BY <2>1, <2>2, <1>6
  <2>6. <<>> \in Seq(Seq(Nat))
    BY EmptySeq
  <2>7. Chain(<<>>, from + m, to)
    BY <2>3, <2>4
  <2> HIDE DEF m
  <2>8. \E k \in Nat : /\ k <= n /\ from + k <= to /\ r.data = Bytes(from + 1, k)
                       /\ r.queue \in Seq(Seq(Nat)) /\ Chain(r.queue, from + k, to)
                       /\ queue = <<>> => r.queue = <<>>
    <3>1. from + m <= to
      BY <2>3
    <3> QED BY <2>3, <2>5, <2>6, <2>7, <3>1
  <2> QED BY <2>5, <2>8 DEF r
<1>10. CASE whole # L
  <2> DEFINE w == whole + 1
             room == n - (cut[whole] - from)
             size == cut[w] - cut[whole]
             rest == <<Bytes(from + n + 1, cut[w] - (from + n))>> \o Drop(queue, w)
  <2>1. w \in 1 .. L /\ w - 1 = whole /\ w \in 0 .. L /\ w \in Nat /\ ~ (w <= whole)
    BY <1>2, <1>6, <1>10
  <2>2. cut[whole] < cut[w] /\ queue[w] = Bytes(cut[whole] + 1, size) /\ cut[w] \in Nat /\ cut[w] <= to
    BY <2>1, <1>2
  <2>3. cut[w] - from > n
    BY <2>1, <1>7
  <2>4. /\ room \in Nat /\ size \in Nat /\ room < size /\ cut[whole] + room = from + n
        /\ cut[whole] \in Nat /\ cut[w] \in Nat /\ cut[whole] + 1 + room = from + n + 1
        /\ size - room = cut[w] - (from + n)
    <3>1. \A x, y \in Nat : from <= x /\ x - from <= n /\ x < y /\ y - from > n =>
            /\ n - (x - from) \in Nat /\ y - x \in Nat /\ n - (x - from) < y - x
            /\ x + (n - (x - from)) = from + n /\ x + 1 + (n - (x - from)) = from + n + 1
            /\ (y - x) - (n - (x - from)) = y - (from + n)
      OBVIOUS
    <3>2. /\ cut[whole] \in Nat /\ cut[w] \in Nat /\ from <= cut[whole] /\ cut[whole] - from <= n
          /\ cut[whole] < cut[w] /\ cut[w] - from > n
      BY <2>2, <2>3, <1>6, <1>8
    <3> HIDE DEF w
    <3> QED BY <3>1, <3>2
  <2>4a. room \in Nat /\ size \in Nat /\ room <= size /\ cut[whole] + 1 \in Nat
    <3> HIDE DEF room, size, w
    <3> QED BY <2>4
  <2>5. part = Bytes(cut[whole] + 1, room) /\ Len(part) = room
    <3> DEFINE a == cut[whole] + 1
    <3>1. part = Take(Bytes(a, size), room)
      BY <2>2, <1>6
    <3>2. a \in Nat /\ size \in Nat /\ room \in Nat /\ room <= size
      BY <2>4a
    <3> HIDE DEF a, room, size
    <3>3. part = Bytes(a, room)
      BY <3>1, <3>2, BytesTaken
    <3>4. Len(Bytes(a, room)) = room
      BY <3>2, BytesAre
    <3> QED BY <3>3, <3>4 DEF a
  <2>6. Chunks(whole) \o part = Bytes(from + 1, n)
    <3> DEFINE b == cut[whole] - from
               a == from + 1
    <3>1. a \in Nat /\ b \in Nat /\ a + b = cut[whole] + 1 /\ b + room = n
      BY <1>8, <1>6
    <3> HIDE DEF a, b, room
    <3>2. Bytes(a, b) \o Bytes(a + b, room) = Bytes(a, b + room)
      <4>1. a \in Nat /\ b \in Nat /\ room \in Nat
        BY <3>1, <2>4a
      <4> QED BY ONLY <4>1, BytesJoin
    <3>3. Chunks(whole) = Bytes(a, b) /\ part = Bytes(a + b, room)
      BY <3>1, <2>5, <1>6 DEF a, b
    <3> QED BY <3>1, <3>2, <3>3 DEF a
  <2>7. Drop(queue[w], Len(part)) = Bytes(from + n + 1, cut[w] - (from + n))
    <3> DEFINE a == cut[whole] + 1
    <3>1. a \in Nat /\ size \in Nat /\ room \in Nat /\ room <= size
      BY <2>4a
    <3>2. Drop(queue[w], Len(part)) = Drop(Bytes(a, size), room)
      BY <2>2, <2>5
    <3>3. a + room = from + n + 1 /\ size - room = cut[w] - (from + n)
      BY <2>4
    <3> HIDE DEF a, room, size
    <3>4. Drop(Bytes(a, size), room) = Bytes(a + room, size - room)
      BY <3>1, BytesDropped
    <3> QED BY <3>2, <3>3, <3>4
  <2>8. r.data = Bytes(from + 1, n) /\ r.queue = rest /\ DOMAIN r = {"data", "queue"}
    <3>1. r = [data |-> Bytes(from + 1, n), queue |-> rest]
      BY <1>4, <1>10, <2>6, <2>7
    <3> HIDE DEF rest
    <3> QED BY <3>1
  <2>9. rest \in Seq(Seq(Nat)) /\ Chain(rest, from + n, to)
    <3>1. from + n \in Nat /\ cut[w - 1] <= from + n /\ from + n < cut[w]
      <4>1. cut[whole] <= from + n
        BY <2>4
      <4>2. from + n < cut[w]
        BY <2>3, <2>4
      <4> QED BY <2>1, <4>1, <4>2
    <3> HIDE DEF w
    <3> QED BY <1>1, <2>1, <3>1, ChainRest
  <2>10. from + n <= to /\ n <= n
    BY <2>2, <2>3
  <2>11. queue # <<>>
    BY <2>1
  <2> HIDE DEF rest
  <2> QED BY <2>8, <2>9, <2>10, <2>11 DEF r
<1> QED BY <1>9, <1>10
-----------------------------------------------------------------------------
(* The sorter.                                                              *)

\* What a piece is.
LEMMA PieceIs ==
  ASSUME NEW e, NEW n \in Nat, IsPiece(e, n)
  PROVE  /\ e.offset \in Nat /\ e.data \in Seq(Nat) /\ Len(e.data) \in Nat /\ Len(e.data) > 0
         /\ EndOf(e) \in Nat /\ e.offset < EndOf(e) /\ EndOf(e) <= n
         /\ EndOf(e) = e.offset + Len(e.data)
         /\ e.data = Bytes(e.offset + 1, Len(e.data))
<1>1. e.offset \in Nat /\ e.data \in Seq(Nat) /\ e.data # <<>>
  BY DEF IsPiece, Entries
<1>2. Len(e.data) \in Nat /\ Len(e.data) > 0
  BY <1>1, EmptySeq
<1> QED BY <1>1, <1>2 DEF IsPiece, EndOf

\* What has been pushed, and what has been read.
IsPushed(r, entries, e) ==
  /\ r \in Seq(Entries)
  /\ \A i, j \in 1 .. Len(r) : i < j => r[i].offset <= r[j].offset
  /\ \A i \in 1 .. Len(r) : r[i] = e \/ \E j \in 1 .. Len(entries) : r[i] = entries[j]
  /\ \A j \in 1 .. Len(entries) : \E i \in 1 .. Len(r) : r[i] = entries[j]
  /\ \E i \in 1 .. Len(r) : r[i] = e
IsRead(r, entries, bound, from, size) ==
  \E n \in 0 .. Len(entries) : \E m \in Nat :
    /\ r.data = Bytes(from + 1, m) /\ r.entries = Drop(entries, n)
    /\ \A i \in 1 .. n : from <= entries[i].offset /\ EndOf(entries[i]) <= from + m
    /\ n = 0 => m = 0
    /\ n # 0 => from + m <= bound
    /\ \/ n = Len(entries)
       \/ entries[n + 1].offset # from + m
       \/ n # 0 /\ m >= size

\* An entry is put among the others, in order of the offsets.
LEMMA SorterPushes ==
  ASSUME NEW entries \in Seq(Entries), NEW e \in Entries,
         \A i, j \in 1 .. Len(entries) : i < j => entries[i].offset <= entries[j].offset,
         NEW r, r = SorterPush(entries, e)
  PROVE  IsPushed(r, entries, e)
<1> DEFINE n == Len(entries)
           S == {i \in DOMAIN entries : entries[i].offset > e.offset}
           p == Min(S \cup {n + 1})
           a == SubSeq(entries, 1, p - 1)
           b == SubSeq(entries, p, n)
<1>1. n \in Nat /\ DOMAIN entries = 1 .. n /\ \A i \in 1 .. n : entries[i] \in Entries /\ entries[i].offset \in Nat
  <2>1. n \in Nat /\ DOMAIN entries = 1 .. n
    BY LenProperties
  <2>2. \A i \in 1 .. n : entries[i] \in Entries
    BY ElementOfSeq
  <2> QED BY <2>1, <2>2 DEF Entries
<1>2. e.offset \in Nat
  BY DEF Entries
<1>3. p \in S \cup {n + 1} /\ \A i \in S \cup {n + 1} : p <= i
  <2>1. S \cup {n + 1} \in SUBSET Nat /\ S \cup {n + 1} # {}
    BY <1>1
  <2> HIDE DEF S
  <2> QED BY <2>1, MinIsLeast
<1>4. p \in 1 .. n + 1 /\ p \in Nat
  BY <1>1, <1>3
<1>5. \A i \in 1 .. n : i < p => entries[i].offset <= e.offset
  <2> TAKE i \in 1 .. n
  <2> HAVE i < p
  <2>1. i \notin S
    <3>1. i \in Nat /\ ~ (p <= i)
      <4> HIDE DEF p, S
      <4> QED BY <1>1, <1>4
    <3> HIDE DEF p, S
    <3> QED BY <3>1, <1>3
  <2> HIDE DEF p
  <2> QED BY <2>1, <1>1, <1>2
<1>6. p \in 1 .. n => e.offset < entries[p].offset
  <2> HAVE p \in 1 .. n
  <2>1. p \in S
    BY <1>3, <1>1
  <2> HIDE DEF p
  <2> QED BY <2>1, <1>1, <1>2
<1>7. r = (a \o <<e>>) \o b
  BY DEF SorterPush, InsertAt
<1> HIDE DEF p, S
<1>8. a \in Seq(Entries) /\ Len(a) = p - 1 /\ \A i \in 1 .. p - 1 : a[i] = entries[i]
  <2>1. \A i \in 1 .. p - 1 : entries[i] \in Entries
    BY <1>1, <1>4
  <2>2. p - 1 \in Int
    BY <1>4
  <2>3. /\ a \in Seq(Entries) /\ Len(a) = IF 1 <= p - 1 THEN p - 1 - 1 + 1 ELSE 0
        /\ \A i \in 1 .. p - 1 - 1 + 1 : a[i] = entries[1 + i - 1]
    BY <2>1, <2>2, SubSeqProperties
  <2> HIDE DEF a
  <2> QED BY <2>3, <1>4
<1>9. b \in Seq(Entries) /\ Len(b) = n + 1 - p /\ \A i \in 1 .. n + 1 - p : b[i] = entries[p + i - 1]
  <2>1. \A i \in p .. n : entries[i] \in Entries
    BY <1>1, <1>4
  <2>2. n \in Int /\ p \in Int
    BY <1>1, <1>4
  <2>3. /\ b \in Seq(Entries) /\ Len(b) = IF p <= n THEN n - p + 1 ELSE 0
        /\ \A i \in 1 .. n - p + 1 : b[i] = entries[p + i - 1]
    BY <2>1, <2>2, SubSeqProperties
  <2> HIDE DEF b
  <2> QED BY <2>3, <1>4, <1>1
<1> HIDE DEF a, b
<1>10. a \o <<e>> \in Seq(Entries) /\ Len(a \o <<e>>) = p
       /\ \A i \in 1 .. p : (a \o <<e>>)[i] = IF i <= p - 1 THEN a[i] ELSE e
  <2>1. <<e>> \in Seq(Entries) /\ Len(<<e>>) = 1 /\ <<e>>[1] = e
    OBVIOUS
  <2>2. /\ a \o <<e>> \in Seq(Entries) /\ Len(a \o <<e>>) = Len(a) + Len(<<e>>)
        /\ \A i \in 1 .. Len(a) + Len(<<e>>) :
             (a \o <<e>>)[i] = IF i <= Len(a) THEN a[i] ELSE <<e>>[i - Len(a)]
    BY <2>1, <1>8, ConcatProperties
  <2>3. Len(a) + Len(<<e>>) = p
    BY <2>1, <1>8, <1>4
  <2>4. ASSUME NEW i \in 1 .. p PROVE (a \o <<e>>)[i] = IF i <= p - 1 THEN a[i] ELSE e
    <3>1. CASE i <= p - 1
      BY <3>1, <2>2, <2>3, <1>8
    <3>2. CASE ~ (i <= p - 1)
      <4>1. i - Len(a) = 1 /\ i \in 1 .. Len(a) + Len(<<e>>) /\ ~ (i <= Len(a))
        BY <3>2, <2>3, <1>8, <1>4
      <4> QED BY <4>1, <3>2, <2>1, <2>2
    <3> QED BY <3>1, <3>2
  <2> QED BY <2>2, <2>3, <2>4
<1> DEFINE c == a \o <<e>>
<1> HIDE DEF c
<1>11. r \in Seq(Entries) /\ Len(r) = n + 1
       /\ \A i \in 1 .. n + 1 : r[i] = IF i <= p THEN c[i] ELSE b[i - p]
  <2>1. /\ c \in Seq(Entries) /\ Len(c) = p /\ r = c \o b
    BY <1>7, <1>10 DEF c
  <2>2. /\ c \o b \in Seq(Entries) /\ Len(c \o b) = Len(c) + Len(b)
        /\ \A i \in 1 .. Len(c) + Len(b) : (c \o b)[i] = IF i <= Len(c) THEN c[i] ELSE b[i - Len(c)]
    BY <2>1, <1>9, ConcatProperties
  <2>3. Len(c) + Len(b) = n + 1 /\ Len(c) = p
    BY <2>1, <1>9, <1>4, <1>1
  <2> QED BY <2>1, <2>2, <2>3
<1>12. \A i \in 1 .. n + 1 : r[i] = IF i < p THEN entries[i] ELSE IF i = p THEN e ELSE entries[i - 1]
  <2> TAKE i \in 1 .. n + 1
  <2>1. CASE i < p
    <3>1. i \in 1 .. p /\ i <= p - 1 /\ i \in 1 .. p - 1 /\ i <= p
      BY <2>1, <1>4
    <3> QED BY <3>1, <2>1, <1>8, <1>10, <1>11 DEF c
  <2>2. CASE i = p
    <3>1. i \in 1 .. p /\ ~ (i <= p - 1) /\ i <= p /\ ~ (i < p)
      BY <2>2, <1>4
    <3> QED BY <3>1, <2>2, <1>10, <1>11 DEF c
  <2>3. CASE i > p
    <3>1. ~ (i <= p) /\ i - p \in 1 .. n + 1 - p /\ p + (i - p) - 1 = i - 1 /\ ~ (i < p) /\ i # p
      BY <2>3, <1>4, <1>1
    <3>2. r[i] = b[i - p] /\ b[i - p] = entries[p + (i - p) - 1]
      BY <3>1, <1>9, <1>11
    <3> QED BY <3>1, <3>2
  <2>4. i \in Nat /\ p \in Nat
    BY <1>4, <1>1
  <2> QED BY <2>1, <2>2, <2>3, <2>4
<1> HIDE DEF c
<1>13. ASSUME NEW i \in 1 .. Len(r), NEW j \in 1 .. Len(r), i < j
       PROVE  r[i].offset <= r[j].offset
  <2>0. i \in 1 .. n + 1 /\ j \in 1 .. n + 1 /\ n \in Nat /\ p \in Nat /\ i \in Nat /\ j \in Nat
    BY <1>1, <1>4, <1>11
  <2>1. CASE j < p
    <3>1. i < p /\ i \in 1 .. n /\ j \in 1 .. n
      BY <2>0, <2>1, <1>13, <1>4
    <3> QED BY <3>1, <2>0, <2>1, <1>12, <1>13
  <2>2. CASE j = p
    <3>1. i < p /\ i \in 1 .. n /\ ~ (j < p)
      BY <2>0, <2>2, <1>13, <1>4
    <3> QED BY <3>1, <2>0, <2>2, <1>5, <1>12
  <2>3. CASE j > p
    <3>1. ~ (j < p) /\ j # p /\ j - 1 \in 1 .. n /\ p <= j - 1 /\ p \in 1 .. n
      BY <2>0, <2>3, <1>4
    <3>2. r[j] = entries[j - 1]
      BY <3>1, <2>0, <1>12
    <3>3. entries[p].offset <= entries[j - 1].offset
      <4>1. CASE p = j - 1
        BY <4>1, <3>1, <1>1
      <4>2. CASE p # j - 1
        <5>1. p < j - 1
          BY <4>2, <3>1, <2>0
        <5> QED BY <5>1, <3>1
      <4> QED BY <4>1, <4>2
    <3>4. entries[p].offset \in Nat /\ entries[j - 1].offset \in Nat /\ e.offset < entries[p].offset
      BY <3>1, <1>1, <1>6
    <3>5. CASE i < p
      <4>1. i \in 1 .. n /\ r[i] = entries[i] /\ entries[i].offset <= e.offset /\ entries[i].offset \in Nat
        BY <3>5, <3>1, <2>0, <1>1, <1>5, <1>12
      <4> QED BY <4>1, <3>2, <3>3, <3>4, <1>2
    <3>6. CASE i = p
      <4>1. r[i] = e
        BY <3>6, <2>0, <1>12
      <4> QED BY <4>1, <3>2, <3>3, <3>4, <1>2
    <3>7. CASE i > p
      <4>1. i - 1 \in 1 .. n /\ i - 1 < j - 1 /\ ~ (i < p) /\ i # p
        BY <3>7, <2>0, <1>13, <1>4
      <4>2. r[i] = entries[i - 1]
        BY <4>1, <2>0, <1>12
      <4> QED BY <4>1, <4>2, <3>1, <3>2
    <3> QED BY <3>5, <3>6, <3>7, <2>0
  <2> QED BY <2>0, <2>1, <2>2, <2>3
<1>14. ASSUME NEW i \in 1 .. Len(r)
       PROVE  r[i] = e \/ \E j \in 1 .. Len(entries) : r[i] = entries[j]
  <2>0. i \in 1 .. n + 1 /\ n \in Nat /\ p \in 1 .. n + 1
    BY <1>1, <1>4, <1>11
  <2>1. CASE i < p
    <3>1. i \in 1 .. n /\ r[i] = entries[i]
      BY <2>0, <2>1, <1>12
    <3> QED BY <3>1
  <2>2. CASE i = p
    BY <2>0, <2>2, <1>12
  <2>3. CASE i > p
    <3>1. i - 1 \in 1 .. n /\ ~ (i < p) /\ i # p
      BY <2>0, <2>3
    <3>2. r[i] = entries[i - 1]
      BY <3>1, <2>0, <1>12
    <3> QED BY <3>1, <3>2
  <2> QED BY <2>0, <2>1, <2>2, <2>3
<1>15. ASSUME NEW j \in 1 .. Len(entries)
       PROVE  \E i \in 1 .. Len(r) : r[i] = entries[j]
  <2>1. CASE j < p
    <3>1. j \in 1 .. n + 1 /\ j \in 1 .. Len(r)
      BY <1>1, <1>11
    <3> QED BY <3>1, <2>1, <1>12
  <2>2. CASE ~ (j < p)
    <3>1. j + 1 \in 1 .. n + 1 /\ j + 1 \in 1 .. Len(r) /\ ~ (j + 1 < p) /\ j + 1 # p /\ (j + 1) - 1 = j
      BY <2>2, <1>1, <1>4, <1>11
    <3>2. r[j + 1] = entries[(j + 1) - 1]
      BY <3>1, <1>12
    <3> QED BY <3>1, <3>2
  <2> QED BY <2>1, <2>2
<1>16. p \in 1 .. Len(r) /\ r[p] = e
  BY <1>4, <1>11, <1>12
<1> HIDE DEF n, S, p, a, b
<1> QED BY <1>11, <1>13, <1>14, <1>15, <1>16 DEF IsPushed, n

\* What is read goes on from the reader's place without a gap, and reading stops only at an
\* entry that does not, or when as much has been read as was asked for.
LEMMA SorterReads ==
  ASSUME NEW entries \in Seq(Entries), NEW bound \in Nat, NEW from \in Nat, NEW size \in Int,
         \A i \in 1 .. Len(entries) : IsPiece(entries[i], bound),
         NEW r, r = SorterRead(entries, from, size)
  PROVE  IsRead(r, entries, bound, from, size)
<1> DEFINE L == Len(entries)
           UpTo(i) == EntryEnd(entries, from, i)
           S == {k \in 0 .. L :
                   /\ InLine(entries, from, k)
                   /\ \A i \in 1 .. k : i = 1 \/ UpTo(i - 1) - from < size}
           n == Max(S)
           chunks == [i \in 1 .. n |-> entries[i].data]
           cut == [i \in 0 .. n |-> UpTo(i)]
<1>1. L \in Nat
  OBVIOUS
<1>2. \A i \in 1 .. L : /\ entries[i].offset \in Nat /\ entries[i].data \in Seq(Nat)
                        /\ Len(entries[i].data) \in Nat /\ Len(entries[i].data) > 0
                        /\ entries[i].data = Bytes(entries[i].offset + 1, Len(entries[i].data))
                        /\ EndOf(entries[i]) = entries[i].offset + Len(entries[i].data)
                        /\ EndOf(entries[i]) \in Nat /\ EndOf(entries[i]) <= bound
  <2> TAKE i \in 1 .. L
  <2>1. IsPiece(entries[i], bound)
    OBVIOUS
  <2> QED BY <2>1, PieceIs
<1>3. r = [data |-> FlattenSeq(chunks), entries |-> Drop(entries, n)]
  BY DEF SorterRead
<1>4. n \in S /\ \A k \in S : k <= n
  <2>1. S \in SUBSET (0 .. L)
    OBVIOUS
  <2>2. 0 \in S
    <3>1. 0 \in 0 .. L /\ 1 .. 0 = {}
      BY <1>1
    <3> QED BY <3>1 DEF InLine
  <2> HIDE DEF S
  <2> QED BY <2>1, <2>2, <1>1, MaxIsGreatest
<1>5. n \in 0 .. L /\ n \in Nat /\ n <= L
      /\ \A i \in 1 .. n : entries[i].offset = UpTo(i - 1) /\ (i = 1 \/ UpTo(i - 1) - from < size)
  <2> HIDE DEF n
  <2> QED BY <1>1, <1>4 DEF InLine
<1> HIDE DEF n
<1>6. \A i \in 0 .. n : UpTo(i) \in Nat /\ (i # 0 => UpTo(i) = EndOf(entries[i]) /\ UpTo(i) <= bound)
  <2> TAKE i \in 0 .. n
  <2>1. CASE i = 0
    BY <2>1 DEF EntryEnd
  <2>2. CASE i # 0
    <3>1. i \in 1 .. L
      BY <2>2, <1>1, <1>5
    <3> QED BY <3>1, <2>2, <1>2 DEF EntryEnd
  <2> QED BY <2>1, <2>2
<1>7. \A i \in 1 .. n : UpTo(i - 1) < UpTo(i) /\ entries[i].data = Bytes(UpTo(i - 1) + 1, UpTo(i) - UpTo(i - 1))
  <2> TAKE i \in 1 .. n
  <2>1. i \in 1 .. L /\ i # 0
    BY <1>1, <1>5
  <2>2. UpTo(i) = entries[i].offset + Len(entries[i].data) /\ entries[i].offset = UpTo(i - 1)
    <3>1. entries[i].offset = UpTo(i - 1)
      BY <1>5
    <3> QED BY <3>1, <2>1 DEF EntryEnd
  <2>3. entries[i].offset \in Nat /\ Len(entries[i].data) \in Nat /\ Len(entries[i].data) > 0
        /\ entries[i].data = Bytes(entries[i].offset + 1, Len(entries[i].data))
    BY <2>1, <1>2
  <2> HIDE DEF UpTo
  <2>4. UpTo(i) - UpTo(i - 1) = Len(entries[i].data)
    BY <2>2, <2>3
  <2> QED BY <2>2, <2>3, <2>4
<1> DEFINE to == UpTo(n)
           m == to - from
<1> HIDE DEF UpTo
<1>8. \A i \in 0 .. n : cut[i] = UpTo(i) /\ cut[i] \in Nat
  BY <1>6
<1>9. \A i \in 1 .. n : cut[i - 1] < cut[i]
  <2> TAKE i \in 1 .. n
  <2>1. i \in 0 .. n /\ i - 1 \in 0 .. n
    BY <1>5
  <2> QED BY <2>1, <1>7, <1>8
<1>10. \A i, j \in 0 .. n : i <= j => cut[i] <= cut[j]
  <2> HIDE DEF cut
  <2> QED BY <1>5, <1>8, <1>9, Rises
<1>11. \A i \in 0 .. n : from <= UpTo(i) /\ UpTo(i) <= to
  <2> TAKE i \in 0 .. n
  <2>1. 0 \in 0 .. n /\ n \in 0 .. n /\ 0 <= i /\ i <= n
    BY <1>5
  <2>2. cut[0] <= cut[i] /\ cut[i] <= cut[n]
    BY <2>1, <1>10
  <2>3. UpTo(0) = from
    BY DEF UpTo, EntryEnd
  <2> QED BY <2>1, <2>2, <2>3, <1>8
<1>12. to \in Nat /\ from <= to /\ m \in Nat /\ from + m = to
  <2>1. n \in 0 .. n
    BY <1>5
  <2> QED BY <2>1, <1>6, <1>11
<1>13. chunks \in Seq(Seq(Nat)) /\ Len(chunks) = n
  <2>1. \A i \in 1 .. n : i \in 1 .. L
    BY <1>1, <1>5
  <2>2. chunks \in [1 .. n -> Seq(Nat)]
    BY <2>1, <1>2
  <2> HIDE DEF chunks
  <2>3. chunks \in Seq(Seq(Nat))
    BY <2>2, <1>5, SeqDef
  <2> QED BY <2>2, <2>3, <1>5, LenProperties
<1>14. IsCut(cut, chunks, from, to)
  <2>1. cut \in [0 .. Len(chunks) -> from .. to]
    <3>1. \A i \in 0 .. n : UpTo(i) \in from .. to
      BY <1>6, <1>11, <1>12
    <3> QED BY <3>1, <1>13
  <2>2. cut[0] = from /\ cut[Len(chunks)] = to
    <3>1. 0 \in 0 .. n /\ n \in 0 .. n /\ UpTo(0) = from
      BY <1>5 DEF UpTo, EntryEnd
    <3> QED BY <3>1, <1>8, <1>13
  <2>3. ASSUME NEW i \in 1 .. Len(chunks)
        PROVE  cut[i - 1] < cut[i] /\ chunks[i] = Bytes(cut[i - 1] + 1, cut[i] - cut[i - 1])
    <3>1. i \in 1 .. n /\ i \in 0 .. n /\ i - 1 \in 0 .. n
      BY <1>5, <1>13
    <3>2. chunks[i] = entries[i].data
      BY <3>1
    <3>3. cut[i] = UpTo(i) /\ cut[i - 1] = UpTo(i - 1)
      BY <3>1, <1>8
    <3> HIDE DEF cut, chunks
    <3> QED BY <3>1, <3>2, <3>3, <1>7
  <2> HIDE DEF cut, chunks
  <2> QED BY <2>1, <2>2, <2>3 DEF IsCut
<1>15. r.data = Bytes(from + 1, m) /\ r.entries = Drop(entries, n)
  <2>1. FlattenSeq(chunks) = Bytes(from + 1, to - from)
    <3> HIDE DEF cut, chunks, to
    <3> QED BY <1>12, <1>13, <1>14, ChainFlattened
  <2> QED BY <2>1, <1>3
<1>16. ASSUME NEW i \in 1 .. n PROVE from <= entries[i].offset /\ EndOf(entries[i]) <= from + m
  <2>1. i \in 0 .. n /\ i - 1 \in 0 .. n /\ i # 0
    BY <1>5
  <2>2. entries[i].offset = UpTo(i - 1) /\ EndOf(entries[i]) = UpTo(i)
    BY <2>1, <1>5, <1>6
  <2> QED BY <2>1, <2>2, <1>11, <1>12
<1>17. (n = 0 => m = 0) /\ (n # 0 => from + m <= bound)
  <2>1. n = 0 => to = from
    BY DEF UpTo, EntryEnd
  <2>2. n # 0 => to <= bound
    <3>1. n \in 0 .. n
      BY <1>5
    <3> QED BY <3>1, <1>6
  <2> QED BY <2>1, <2>2, <1>12
<1>18. n = L \/ entries[n + 1].offset # from + m \/ (n # 0 /\ m >= size)
  <2>1. SUFFICES ASSUME n # L, entries[n + 1].offset = from + m, n = 0 \/ m < size
                 PROVE  FALSE
    BY <1>12
  <2>2. n + 1 \in 0 .. L /\ ~ (n + 1 <= n)
    BY <2>1, <1>1, <1>5
  <2>3. ASSUME NEW i \in 1 .. n + 1
        PROVE  entries[i].offset = UpTo(i - 1) /\ (i = 1 \/ UpTo(i - 1) - from < size)
    <3>1. CASE i \in 1 .. n
      BY <3>1, <1>5
    <3>2. CASE i = n + 1
      <4>1. i - 1 = n
        BY <3>2, <1>5
      <4>2. n = 0 => i = 1
        BY <3>2
      <4> QED BY <3>2, <4>1, <4>2, <2>1, <1>12
    <3>3. i \in 1 .. n \/ i = n + 1
      BY <1>5
    <3> QED BY <3>1, <3>2, <3>3
  <2>4. n + 1 \in S
    BY <2>2, <2>3 DEF InLine, UpTo
  <2> HIDE DEF S
  <2> QED BY <2>2, <2>4, <1>4
<1> HIDE DEF m
<1> QED BY <1>5, <1>12, <1>15, <1>16, <1>17, <1>18 DEF IsRead

\* There is something to read exactly when the first entry is at the reader's place.
LEMMA SorterHas ==
  ASSUME NEW entries \in Seq(Entries), NEW bound \in Nat, NEW from \in Nat,
         \A i \in 1 .. Len(entries) : IsPiece(entries[i], bound)
  PROVE  /\ ByteLength(entries, from) \in Nat
         /\ ByteLength(entries, from) > 0 <=> ~ NoneAt(entries, from)
<1> DEFINE L == Len(entries)
           UpTo(i) == EntryEnd(entries, from, i)
           S == {k \in 0 .. L : InLine(entries, from, k)}
           n == Max(S)
           cut == [i \in 0 .. n |-> UpTo(i)]
<1>1. L \in Nat /\ (L = 0 <=> entries = <<>>)
  BY EmptySeq
<1>2. ByteLength(entries, from) = UpTo(n) - from
  BY DEF ByteLength
<1>3. ASSUME NEW i \in 1 .. L
      PROVE  /\ UpTo(i) = entries[i].offset + Len(entries[i].data) /\ UpTo(i) \in Nat
             /\ entries[i].offset \in Nat /\ entries[i].offset < UpTo(i)
  <2>1. IsPiece(entries[i], bound)
    OBVIOUS
  <2>2. /\ entries[i].offset \in Nat /\ Len(entries[i].data) \in Nat /\ Len(entries[i].data) > 0
    BY <2>1, PieceIs
  <2>3. UpTo(i) = entries[i].offset + Len(entries[i].data)
    BY DEF EntryEnd
  <2> HIDE DEF UpTo
  <2> QED BY <2>2, <2>3
<1>4. UpTo(0) = from
  BY DEF EntryEnd
<1>5. n \in S /\ \A k \in S : k <= n
  <2>1. S \in SUBSET (0 .. L)
    OBVIOUS
  <2>2. 0 \in S
    <3>1. 0 \in 0 .. L /\ 1 .. 0 = {}
      BY <1>1
    <3> QED BY <3>1 DEF InLine
  <2> HIDE DEF S
  <2> QED BY <2>1, <2>2, <1>1, MaxIsGreatest
<1>6. n \in 0 .. L /\ n \in Nat /\ n <= L /\ \A i \in 1 .. n : entries[i].offset = UpTo(i - 1)
  <2> HIDE DEF n
  <2> QED BY <1>1, <1>5 DEF InLine
<1>7. 1 \in S <=> ~ NoneAt(entries, from)
  <2>1. 1 \in 0 .. L <=> entries # <<>>
    BY <1>1
  <2>2. InLine(entries, from, 1) <=> entries[1].offset = UpTo(0)
    <3>1. \A i \in 1 .. 1 : i = 1 /\ i - 1 = 0
      OBVIOUS
    <3>2. 1 \in 1 .. 1
      OBVIOUS
    <3> QED BY <3>1, <3>2 DEF InLine
  <2> HIDE DEF UpTo
  <2> QED BY <2>1, <2>2, <1>4 DEF NoneAt
<1>8. n > 0 <=> ~ NoneAt(entries, from)
  <2>1. 1 \in S => 1 <= n
    BY <1>5
  <2>2. n > 0 => 1 \in S
    <3> SUFFICES ASSUME n > 0 PROVE 1 \in S
      OBVIOUS
    <3>1. 1 \in 1 .. n /\ 1 \in 0 .. L /\ \A i \in 1 .. 1 : i \in 1 .. n
      BY <1>1, <1>6
    <3> HIDE DEF n
    <3> QED BY <3>1, <1>6 DEF InLine
  <2> HIDE DEF n, S
  <2> QED BY <2>1, <2>2, <1>6, <1>7
<1> HIDE DEF n, UpTo, S
<1>9. \A i \in 0 .. n : cut[i] = UpTo(i) /\ cut[i] \in Nat
  <2> TAKE i \in 0 .. n
  <2>1. i = 0 \/ i \in 1 .. L
    BY <1>6
  <2> QED BY <2>1, <1>3, <1>4
<1>10. ASSUME NEW i \in 1 .. n PROVE cut[i - 1] < cut[i]
  <2>1. i \in 1 .. L /\ i \in 0 .. n /\ i - 1 \in 0 .. n
    BY <1>6
  <2>2. cut[i - 1] = UpTo(i - 1) /\ cut[i] = UpTo(i)
    BY <2>1, <1>9
  <2> QED BY <2>1, <2>2, <1>3, <1>6
<1>11. \A i, j \in 0 .. n : i <= j => cut[i] <= cut[j]
  <2> HIDE DEF cut
  <2> QED BY <1>6, <1>9, <1>10, Rises
<1>12. UpTo(n) \in Nat /\ (n = 0 => UpTo(n) = from) /\ (n > 0 => from < UpTo(n))
  <2>1. n \in 0 .. n /\ cut[n] = UpTo(n) /\ UpTo(n) \in Nat
    BY <1>6, <1>9
  <2>2. ASSUME n > 0 PROVE from < UpTo(n)
    <3>1. 1 \in 1 .. n /\ 1 \in 0 .. n /\ 0 \in 0 .. n /\ 1 - 1 = 0 /\ 1 <= n
      BY <1>6, <2>2
    <3>2. cut[0] < cut[1] /\ cut[1] <= cut[n] /\ cut[0] = from /\ cut[1] \in Nat
      BY <3>1, <2>1, <1>4, <1>9, <1>10, <1>11
    <3> HIDE DEF cut
    <3> QED BY <3>2, <2>1
  <2> QED BY <2>1, <2>2, <1>4
<1> QED BY <1>2, <1>6, <1>8, <1>12
-----------------------------------------------------------------------------
(* The packets.                                                             *)

\* Bytes with their offset are a piece.
LEMMA PieceOfBytes ==
  ASSUME NEW a \in Nat, NEW m \in Nat, m > 0, NEW n \in Nat, a + m <= n
  PROVE  LET e == Entry(Bytes(a + 1, m), a)
         IN  IsPiece(e, n) /\ e \in Entries /\ e.offset = a /\ Len(e.data) = m /\ EndOf(e) = a + m
<1> DEFINE b == Bytes(a + 1, m)
           e == Entry(b, a)
<1>1. a + 1 \in Nat
  OBVIOUS
<1>2. b \in Seq(Nat) /\ Len(b) = m
  BY <1>1, BytesAre
<1>3. b = Bytes(a + 1, Len(b))
  BY <1>2
<1>4. b # <<>>
  BY <1>2, EmptySeq
<1> HIDE DEF b
<1>5. e.data = b /\ e.offset = a /\ e \in Entries
  BY <1>2 DEF Entry, Entries
<1> HIDE DEF e
<1>6. IsPiece(e, n) /\ Len(e.data) = m /\ EndOf(e) = a + m
  BY <1>2, <1>3, <1>4, <1>5 DEF IsPiece, EndOf
<1> QED BY <1>5, <1>6 DEF b, e

\* A piece that is split is two pieces.
LEMMA PieceSplit ==
  ASSUME NEW e, NEW bound \in Nat, IsPiece(e, bound), NEW n \in Nat, n > 0, n <= Len(e.data),
         NEW f, f = Entry(Take(e.data, n), e.offset)
  PROVE  /\ IsPiece(f, bound) /\ f.offset = e.offset /\ Len(f.data) = n /\ EndOf(f) = e.offset + n
         /\ n < Len(e.data) =>
              /\ IsPiece(Rest(e, n), bound) /\ Rest(e, n).offset = e.offset + n
              /\ EndOf(Rest(e, n)) = EndOf(e)
<1> DEFINE a == e.offset
           m == Len(e.data)
<1>1. /\ a \in Nat /\ m \in Nat /\ m > 0 /\ e.data = Bytes(a + 1, m)
      /\ EndOf(e) = a + m /\ a + m <= bound
  BY PieceIs
<1> HIDE DEF a, m
<1>2. n <= m /\ a + 1 \in Nat
  BY <1>1 DEF m
<1>3. Take(e.data, n) = Bytes(a + 1, n)
  BY <1>1, <1>2, BytesTaken
<1>4. a + n <= bound
  BY <1>1, <1>2
<1>5. IsPiece(f, bound) /\ f.offset = a /\ Len(f.data) = n /\ EndOf(f) = a + n
  <2>1. f = Entry(Bytes(a + 1, n), a)
    BY <1>3 DEF a
  <2> QED BY <2>1, <1>1, <1>4, PieceOfBytes
<1>6. ASSUME n < m
      PROVE  IsPiece(Rest(e, n), bound) /\ Rest(e, n).offset = a + n /\ EndOf(Rest(e, n)) = EndOf(e)
  <2>1. Drop(e.data, n) = Bytes(a + 1 + n, m - n)
    BY <1>1, <1>2, BytesDropped
  <2> DEFINE c == a + n
             k == m - n
  <2>2. /\ c \in Nat /\ k \in Nat /\ k > 0 /\ c + k <= bound /\ a + 1 + n = c + 1 /\ c + k = a + m
    BY <1>1, <1>2, <1>6
  <2> HIDE DEF c, k
  <2>3. Rest(e, n) = Entry(Bytes(c + 1, k), c)
    BY <2>1, <2>2 DEF Rest, a, c, k
  <2>4. IsPiece(Entry(Bytes(c + 1, k), c), bound) /\ Entry(Bytes(c + 1, k), c).offset = c
        /\ EndOf(Entry(Bytes(c + 1, k), c)) = c + k
    BY <2>2, PieceOfBytes
  <2> QED BY <2>2, <2>3, <2>4, <1>1 DEF c
<1> QED BY <1>5, <1>6 DEF a, m

\* The bytes that a packet may take of a stream: the ones given up are in the frame or are
\* still to be sent again.
Offered(a, s, size) ==
  /\ a.queue \in Seq(Seq(Nat)) /\ Chain(a.queue, a.offset, written[s])
  /\ outgoing[s] = <<>> => a.queue = <<>>
  /\ a.offset \in Nat /\ outgoingOffset[s] <= a.offset /\ a.offset <= remoteMaxOffset[s]
  /\ a.retry \in Seq(Entries) /\ \A i \in 1 .. Len(a.retry) : IsPiece(a.retry[i], a.offset)
  /\ toRetry[s] = <<>> => a.retry = <<>>
  /\ a.frame.data # <<>> => IsPiece(a.frame, a.offset)
  /\ Len(a.frame.data) \in Nat /\ Len(a.frame.data) <= size
  /\ a.offset - outgoingOffset[s] <= Len(a.frame.data)
  /\ \A b \in 1 .. a.offset : Waits(s, b) \/ b > outgoingOffset[s] =>
       In(a.frame, b) \/ \E i \in 1 .. Len(a.retry) : In(a.retry[i], b)

LEMMA AgainOffered ==
  ASSUME NEW s \in Streams, NEW size \in Nat \ {0}, Types, Held(s), WindowKept(s), toRetry[s] # <<>>
  PROVE  Offered(DataAgain(s, size), s, size)
<1> DEFINE q == toRetry[s]
           N == outgoingOffset[s]
           first == Head(q)
           rest == Tail(q)
           n == Least(size, Len(first.data))
           f == Entry(Take(first.data, n), first.offset)
           retry == IF n < Len(first.data) THEN <<Rest(first, n)>> \o rest ELSE rest
           a == DataAgain(s, size)
<1>1. a = [frame |-> f, queue |-> outgoing[s], offset |-> N, retry |-> retry]
  BY DEF DataAgain
<1>2. q \in Seq(Entries) /\ q # <<>> /\ N \in Nat /\ \A i \in 1 .. Len(q) : IsPiece(q[i], N)
  BY DEF Types, Held
<1>3. /\ outgoing[s] \in Seq(Seq(Nat)) /\ Chain(outgoing[s], N, written[s])
      /\ remoteMaxOffset[s] \in Nat /\ N <= remoteMaxOffset[s]
  BY DEF Types, Held, WindowKept
<1> HIDE DEF q, N
<1>4. /\ first \in Entries /\ rest \in Seq(Entries) /\ Len(rest) = Len(q) - 1 /\ Len(q) \in Nat
      /\ \A i \in 1 .. Len(rest) : rest[i] = q[i + 1]
      /\ first = q[1] /\ 1 \in 1 .. Len(q)
  <2>1. /\ first \in Entries /\ rest \in Seq(Entries) /\ Len(rest) = Len(q) - 1
        /\ \A i \in 1 .. Len(rest) : rest[i] = q[i + 1]
    BY <1>2, HeadTailProperties
  <2>2. Len(q) \in Nat \ {0}
    BY <1>2, EmptySeq
  <2>3. first = q[1]
    BY <1>2
  <2> QED BY <2>1, <2>2, <2>3
<1>5. IsPiece(first, N) /\ \A i \in 1 .. Len(rest) : IsPiece(rest[i], N)
  <2>1. \A i \in 1 .. Len(rest) : i + 1 \in 1 .. Len(q)
    BY <1>4
  <2> QED BY <2>1, <1>2, <1>4
<1>6. Len(first.data) \in Nat /\ Len(first.data) > 0 /\ EndOf(first) = first.offset + Len(first.data)
      /\ first.offset \in Nat
  BY <1>2, <1>5, PieceIs
<1>7. n \in Nat /\ n > 0 /\ n <= Len(first.data) /\ n <= size
  BY <1>6 DEF Least
<1> HIDE DEF first, rest, n
<1>8. /\ IsPiece(f, N) /\ f.offset = first.offset /\ Len(f.data) = n /\ EndOf(f) = first.offset + n
      /\ n < Len(first.data) => /\ IsPiece(Rest(first, n), N) /\ Rest(first, n).offset = first.offset + n
                                /\ EndOf(Rest(first, n)) = EndOf(first)
  <2> HIDE DEF f
  <2>1. f = Entry(Take(first.data, n), first.offset)
    BY DEF f
  <2> QED BY <2>1, <1>2, <1>5, <1>7, PieceSplit
<1> HIDE DEF f
<1>9. /\ retry \in Seq(Entries) /\ \A i \in 1 .. Len(retry) : IsPiece(retry[i], N)
      /\ \A i \in 1 .. Len(rest) : \E j \in 1 .. Len(retry) : retry[j] = rest[i]
      /\ n < Len(first.data) => \E j \in 1 .. Len(retry) : retry[j] = Rest(first, n)
  <2>1. CASE n < Len(first.data)
    <3> DEFINE h == Rest(first, n)
    <3>1. h \in Entries /\ IsPiece(h, N)
      BY <2>1, <1>8 DEF IsPiece
    <3> HIDE DEF h
    <3>2. <<h>> \in Seq(Entries) /\ Len(<<h>>) = 1 /\ <<h>>[1] = h
      BY <3>1
    <3>3. /\ <<h>> \o rest \in Seq(Entries) /\ Len(<<h>> \o rest) = Len(<<h>>) + Len(rest)
          /\ \A i \in 1 .. Len(<<h>>) + Len(rest) :
               (<<h>> \o rest)[i] = IF i <= Len(<<h>>) THEN <<h>>[i] ELSE rest[i - Len(<<h>>)]
      BY <3>2, <1>4, ConcatProperties
    <3> DEFINE g == <<h>> \o rest
    <3>4. g \in Seq(Entries) /\ Len(g) = 1 + Len(rest) /\ Len(rest) \in Nat
          /\ \A i \in 1 .. 1 + Len(rest) : g[i] = IF i <= 1 THEN h ELSE rest[i - 1]
      <4>1. \A i \in 1 .. 1 + Len(rest) : i <= 1 => <<h>>[i] = h
        BY <3>2
      <4>2. Len(rest) \in Nat
        BY <1>4
      <4> QED BY <3>2, <3>3, <4>1, <4>2
    <3> HIDE DEF g
    <3>5. \A i \in 1 .. Len(g) : IsPiece(g[i], N)
      <4> TAKE i \in 1 .. Len(g)
      <4>1. CASE i <= 1
        BY <4>1, <3>1, <3>4
      <4>2. CASE ~ (i <= 1)
        <5>1. i - 1 \in 1 .. Len(rest)
          BY <4>2, <3>4
        <5> QED BY <4>2, <5>1, <3>4, <1>5
      <4> QED BY <4>1, <4>2
    <3>6. ASSUME NEW i \in 1 .. Len(rest) PROVE \E j \in 1 .. Len(g) : g[j] = rest[i]
      <4>1. i + 1 \in 1 .. Len(g) /\ ~ (i + 1 <= 1) /\ (i + 1) - 1 = i
        BY <3>4
      <4>2. g[i + 1] = rest[(i + 1) - 1]
        BY <4>1, <3>4
      <4> QED BY <4>1, <4>2
    <3>7. 1 \in 1 .. Len(g) /\ g[1] = h
      BY <3>4
    <3>8. retry = g
      BY <2>1 DEF g, h
    <3> HIDE DEF retry
    <3> QED BY <3>4, <3>5, <3>6, <3>7, <3>8 DEF h
  <2>2. CASE ~ (n < Len(first.data))
    <3>1. retry = rest
      BY <2>2
    <3> HIDE DEF retry
    <3> QED BY <3>1, <2>2, <1>4, <1>5
  <2> QED BY <2>1, <2>2
<1> HIDE DEF retry
<1>10. ASSUME NEW b \in 1 .. N, \E i \in 1 .. Len(q) : In(q[i], b)
       PROVE  In(f, b) \/ \E i \in 1 .. Len(retry) : In(retry[i], b)
  <2>1. PICK i \in 1 .. Len(q) : In(q[i], b)
    BY <1>10
  <2>2. CASE i = 1
    <3>1. b \in Nat /\ first.offset < b /\ b <= EndOf(first)
      BY <2>1, <2>2, <1>4, <1>2 DEF In
    <3>2. CASE b <= first.offset + n
      BY <3>1, <3>2, <1>8 DEF In
    <3>3. CASE ~ (b <= first.offset + n)
      <4>1. n < Len(first.data) /\ first.offset + n < b
        BY <3>1, <3>3, <1>6, <1>7
      <4>2. In(Rest(first, n), b)
        BY <4>1, <3>1, <1>8 DEF In
      <4> QED BY <4>1, <4>2, <1>9
    <3> QED BY <3>2, <3>3
  <2>3. CASE i # 1
    <3>1. i - 1 \in 1 .. Len(rest) /\ (i - 1) + 1 = i
      BY <2>3, <1>4
    <3>2. rest[i - 1] = q[i]
      BY <3>1, <1>4
    <3> QED BY <2>1, <3>1, <3>2, <1>9
  <2> QED BY <2>2, <2>3
<1>11. /\ a.frame = f /\ a.queue = outgoing[s] /\ a.offset = N /\ a.retry = retry
  BY <1>1
<1> HIDE DEF a
<1>12. \A b \in 1 .. N : ~ (b > N)
  BY <1>2
<1>13. \A b : Waits(s, b) => \E i \in 1 .. Len(q) : In(q[i], b)
  BY DEF Waits, q
<1>14. N - N <= Len(f.data) /\ N <= N /\ Len(f.data) <= size /\ Len(f.data) \in Nat
  BY <1>2, <1>7, <1>8
<1>15. \A b \in 1 .. N : Waits(s, b) \/ b > N => In(f, b) \/ \E i \in 1 .. Len(retry) : In(retry[i], b)
  BY <1>10, <1>12, <1>13
<1>16. Offered(a, s, size)
  <2>1. toRetry[s] # <<>>
    OBVIOUS
  <2>2. outgoingOffset[s] = N
    BY DEF N
  <2> QED BY <2>1, <2>2, <1>2, <1>3, <1>8, <1>9, <1>11, <1>14, <1>15 DEF Offered
<1> QED BY <1>16 DEF a

LEMMA NewOffered ==
  ASSUME NEW s \in Streams, NEW size \in Nat \ {0}, Types, Held(s), WindowKept(s), toRetry[s] = <<>>
  PROVE  Offered(NewData(s, size), s, size)
<1> DEFINE q == outgoing[s]
           N == outgoingOffset[s]
           W == written[s]
           n == Least(size, remoteMaxOffset[s] - N)
           r == QueueRead(q, n)
           a == NewData(s, size)
<1>1. a = [frame |-> Entry(r.data, N), queue |-> r.queue, offset |-> N + Len(r.data), retry |-> toRetry[s]]
  BY DEF NewData
<1>2. q \in Seq(Seq(Nat)) /\ N \in Nat /\ W \in Nat /\ Chain(q, N, W)
      /\ remoteMaxOffset[s] \in Nat /\ N <= remoteMaxOffset[s]
  BY DEF Types, Held, WindowKept
<1>3. n \in Nat /\ n <= size /\ N + n <= remoteMaxOffset[s]
  BY <1>2 DEF Least
<1> HIDE DEF q, N, W, n
<1>4. PICK m \in Nat : /\ m <= n /\ N + m <= W /\ r.data = Bytes(N + 1, m)
                       /\ r.queue \in Seq(Seq(Nat)) /\ Chain(r.queue, N + m, W)
                       /\ q = <<>> => r.queue = <<>>
  BY <1>2, <1>3, QueueReads
<1>5. N + 1 \in Nat /\ N + m \in Nat /\ N + m <= N + m
  BY <1>2
<1>6. Len(r.data) = m
  BY <1>4, <1>5, BytesAre
<1> DEFINE f == Entry(r.data, N)
<1>7. a.frame = f /\ a.queue = r.queue /\ a.offset = N + m /\ a.retry = <<>>
  BY <1>1, <1>6
<1>8. f.data = r.data /\ f.offset = N /\ EndOf(f) = N + m
  BY <1>6 DEF Entry, EndOf
<1>9. f.data # <<>> => IsPiece(f, N + m)
  <2> HAVE f.data # <<>>
  <2>1. m > 0
    <3>1. m = 0 => r.data = <<>>
      BY <1>4, <1>5, NoBytes
    <3> QED BY <3>1, <1>8
  <2>2. f = Entry(Bytes(N + 1, m), N)
    BY <1>4
  <2> HIDE DEF f
  <2> QED BY <2>1, <2>2, <1>2, <1>5, PieceOfBytes
<1> HIDE DEF f, a, r
<1>10. ASSUME NEW b \in 1 .. N + m, Waits(s, b) \/ b > N
       PROVE  In(f, b)
  <2>1. ~ Waits(s, b)
    BY DEF Waits
  <2>2. b \in Nat /\ N < b /\ b <= N + m
    BY <2>1, <1>10, <1>5, <1>2
  <2> QED BY <2>2, <1>8 DEF In
<1>11. N + m <= remoteMaxOffset[s] /\ N <= N + m /\ N + m - N <= m /\ m <= size
  BY <1>2, <1>3, <1>4
<1>12. <<>> \in Seq(Entries) /\ \A i \in 1 .. Len(<<>>) : FALSE
  OBVIOUS
<1>13. Offered(a, s, size)
  <2>1. N = outgoingOffset[s] /\ W = written[s] /\ q = outgoing[s]
    BY DEF N, W, q
  <2>2. a.queue \in Seq(Seq(Nat)) /\ Chain(a.queue, a.offset, written[s]) /\ (outgoing[s] = <<>> => a.queue = <<>>)
    BY <2>1, <1>4, <1>7
  <2>3. a.offset \in Nat /\ outgoingOffset[s] <= a.offset /\ a.offset <= remoteMaxOffset[s]
    BY <2>1, <1>5, <1>7, <1>11
  <2>4. a.retry \in Seq(Entries) /\ a.retry = <<>> /\ \A i \in 1 .. Len(a.retry) : IsPiece(a.retry[i], a.offset)
    BY <1>7, <1>12
  <2>5. a.frame.data # <<>> => IsPiece(a.frame, a.offset)
    BY <1>7, <1>9
  <2>6. Len(a.frame.data) = m /\ m \in Nat /\ m <= size /\ a.offset - outgoingOffset[s] <= m
    BY <2>1, <1>2, <1>6, <1>7, <1>8, <1>11
  <2>7. \A b \in 1 .. a.offset : Waits(s, b) \/ b > outgoingOffset[s] => In(a.frame, b)
    BY <2>1, <1>7, <1>10
  <2> QED BY <2>2, <2>3, <2>4, <2>5, <2>6, <2>7 DEF Offered
<1> QED BY <1>13 DEF a

\* _getAvailableDataToSend.
LEMMA DataOffered ==
  ASSUME NEW s \in Streams, NEW size \in Nat \ {0}, Types, Held(s), WindowKept(s)
  PROVE  Offered(AvailableData[s][size], s, size)
<1>1. AvailableData[s][size] = IF toRetry[s] # <<>> THEN DataAgain(s, size) ELSE NewData(s, size)
  BY DEF AvailableData
<1>2. CASE toRetry[s] # <<>>
  BY <1>1, <1>2, AgainOffered
<1>3. CASE toRetry[s] = <<>>
  BY <1>1, <1>3, NewOffered
<1> QED BY <1>2, <1>3

\* What a packet holds when the streams up to an id have added to it: what each offered, no
\* more than there was room for.
Offset(p) == [s \in Streams |-> IF s \in DOMAIN p.taken THEN p.taken[s].offset ELSE outgoingOffset[s]]
Room0 == Least(PacketSize, Window)
Packed(p, i) ==
  /\ p.left \in Int /\ DOMAIN p.taken \subseteq Existing \cap 1 .. i
  /\ \A s \in DOMAIN p.taken : \E size \in Nat \ {0} : Offered(p.taken[s], s, size) /\ p.taken[s].frame.data # <<>>
  /\ DOMAIN p.taken = {} \/ p.left >= 0
  /\ SumFunctionOnSet(Offset(p), Streams) + p.left <= SumFunctionOnSet(outgoingOffset, Streams) + Room0
Ready == Types /\ \A s \in Streams : Held(s) /\ WindowKept(s)

\* A sum of which one term changes.
LEMMA SumChange ==
  ASSUME NEW S, IsFiniteSet(S), NEW x \in S, NEW f, NEW g,
         \A s \in S : f[s] \in Int /\ g[s] \in Int,
         \A s \in S \ {x} : g[s] = f[s]
  PROVE  /\ SumFunctionOnSet(f, S) \in Int /\ SumFunctionOnSet(g, S) \in Int
         /\ SumFunctionOnSet(g, S) = SumFunctionOnSet(f, S) + (g[x] - f[x])
<1> DEFINE T == S \ {x}
<1>1. IsFiniteSet(T) /\ T \subseteq S
  BY FS_RemoveElement
<1>2. SumFunctionOnSet(f, S) = f[x] + SumFunctionOnSet(f, T)
  BY SumWithout
<1>3. SumFunctionOnSet(g, S) = g[x] + SumFunctionOnSet(g, T)
  BY SumWithout
<1>4. SumFunctionOnSet(f, T) \in Int /\ SumFunctionOnSet(f, T) = SumFunctionOnSet(g, T)
  <2>1. \A s \in T : f[s] \in Int /\ f[s] = g[s]
    OBVIOUS
  <2> HIDE DEF T
  <2> QED BY <1>1, <2>1, SumSame, SumIsInt
<1>5. f[x] \in Int /\ g[x] \in Int
  OBVIOUS
<1> HIDE DEF T
<1> QED BY <1>2, <1>3, <1>4, <1>5

\* The constants.
LEMMA Sizes ==
  /\ MaxWritten \in Nat /\ HighWaterMark \in Nat /\ PacketSize \in Nat /\ Overhead \in Nat
  /\ BufferSize \in Nat /\ PeerBufferSize \in Nat /\ Header \in Nat /\ Header <= Overhead
  /\ IsFiniteSet(Streams) /\ Streams \subseteq Nat \ {0}
BY DataAssumption

\* One stream more.
LEMMA FrameTaken ==
  ASSUME Ready, Room0 \in Int, NEW p, NEW i \in Nat \ {0}, Packed(p, i - 1)
  PROVE  Packed(TakeFrame(p, i), i)
<1> DEFINE a == AvailableData[i][p.left - Overhead]
           q == TakeFrame(p, i)
           left == p.left - Len(a.frame.data) - Header
           taken == [t \in DOMAIN p.taken \cup {i} |-> IF t = i THEN a ELSE p.taken[t]]
<1>1. /\ p.left \in Int /\ DOMAIN p.taken \subseteq Existing /\ DOMAIN p.taken \subseteq 1 .. i - 1
      /\ \A s \in DOMAIN p.taken : \E size \in Nat \ {0} : Offered(p.taken[s], s, size) /\ p.taken[s].frame.data # <<>>
      /\ DOMAIN p.taken = {} \/ p.left >= 0
      /\ SumFunctionOnSet(Offset(p), Streams) + p.left <= SumFunctionOnSet(outgoingOffset, Streams) + Room0
  BY DEF Packed
<1>2. DOMAIN p.taken \subseteq 1 .. i
  <2>1. 1 .. i - 1 \subseteq 1 .. i
    OBVIOUS
  <2> QED BY <2>1, <1>1
<1>3. CASE i \notin Existing \/ p.left <= Overhead \/ a.frame.data = <<>>
  <2>1. q = p
    BY <1>3 DEF TakeFrame
  <2> QED BY <2>1, <1>1, <1>2 DEF Packed
<1>4. CASE ~ (i \notin Existing \/ p.left <= Overhead \/ a.frame.data = <<>>)
  <2>1. q = [left |-> left, taken |-> taken]
    BY <1>4 DEF TakeFrame
  <2>2. i \in Existing /\ i \in Streams /\ ~ (p.left <= Overhead) /\ a.frame.data # <<>>
    BY <1>4 DEF Existing
  <2> DEFINE size == p.left - Overhead
  <2>3. size \in Nat \ {0} /\ Overhead \in Nat /\ Header \in Nat /\ Header <= Overhead
    BY <2>2, <1>1, Sizes
  <2>4. Offered(a, i, size)
    <3>1. a = AvailableData[i][size]
      OBVIOUS
    <3>2. Types /\ Held(i) /\ WindowKept(i)
      BY <2>2 DEF Ready
    <3> HIDE DEF a, size
    <3>3. Offered(AvailableData[i][size], i, size)
      BY <2>2, <2>3, <3>2, DataOffered
    <3> QED BY <3>1, <3>3
  <2>5. /\ Len(a.frame.data) \in Nat /\ Len(a.frame.data) <= size /\ a.offset \in Nat
        /\ a.offset - outgoingOffset[i] <= Len(a.frame.data) /\ outgoingOffset[i] \in Nat
    <3>1. outgoingOffset[i] \in Nat
      BY <2>2 DEF Ready, Types
    <3> HIDE DEF a, size
    <3> QED BY <3>1, <2>4 DEF Offered
  <2>6. left \in Int /\ left >= 0
    <3> DEFINE l == Len(a.frame.data)
               x == p.left
    <3>1. l \in Nat /\ l <= x - Overhead /\ x \in Int
      BY <2>5, <1>1
    <3>2. left = x - l - Header
      OBVIOUS
    <3> HIDE DEF l, x, left
    <3> QED BY <3>1, <3>2, <2>3
  <2>7. i \notin DOMAIN p.taken
    <3>1. i \notin 1 .. i - 1
      OBVIOUS
    <3> QED BY <3>1, <1>1
  <2>8. DOMAIN taken = DOMAIN p.taken \cup {i} /\ taken[i] = a
        /\ \A t \in DOMAIN p.taken : taken[t] = p.taken[t]
    <3> HIDE DEF a
    <3> QED BY <2>7
  <2>9. q.left = left /\ q.taken = taken
    BY <2>1
  <2> HIDE DEF a, q, left, taken, size
  <2>10. i \in 1 .. i
    OBVIOUS
  <2>11. DOMAIN q.taken \subseteq Existing \cap 1 .. i
    BY <2>2, <2>8, <2>9, <2>10, <1>1, <1>2
  <2>12. \A s \in DOMAIN q.taken : \E z \in Nat \ {0} : Offered(q.taken[s], s, z) /\ q.taken[s].frame.data # <<>>
    <3> TAKE s \in DOMAIN q.taken
    <3>1. CASE s = i
      BY <3>1, <2>2, <2>3, <2>4, <2>8, <2>9
    <3>2. CASE s # i
      <4>1. s \in DOMAIN p.taken /\ q.taken[s] = p.taken[s]
        BY <3>2, <2>8, <2>9
      <4> QED BY <4>1, <1>1
    <3> QED BY <3>1, <3>2
  <2>13. SumFunctionOnSet(Offset(q), Streams) + q.left <= SumFunctionOnSet(outgoingOffset, Streams) + Room0
    <3> DEFINE f == Offset(p)
               g == Offset(q)
    <3>1. \A s \in Streams : f[s] \in Int
      <4> TAKE s \in Streams
      <4>1. CASE s \in DOMAIN p.taken
        <5>1. f[s] = p.taken[s].offset
          BY <4>1 DEF Offset
        <5> QED BY <4>1, <5>1, <1>1 DEF Offered
      <4>2. CASE s \notin DOMAIN p.taken
        BY <4>2 DEF Offset, Ready, Types
      <4> QED BY <4>1, <4>2
    <3>2. \A s \in Streams \ {i} : g[s] = f[s]
      BY <2>8, <2>9 DEF Offset
    <3>3. g[i] = a.offset /\ f[i] = outgoingOffset[i]
      BY <2>2, <2>7, <2>8, <2>9 DEF Offset
    <3>4. \A s \in Streams : g[s] \in Int
      <4> HIDE DEF f, g
      <4> QED BY <3>1, <3>2, <3>3, <2>5
    <3> HIDE DEF f, g
    <3>5. /\ SumFunctionOnSet(f, Streams) \in Int
          /\ SumFunctionOnSet(g, Streams) = SumFunctionOnSet(f, Streams) + (g[i] - f[i])
      BY <3>1, <3>2, <3>4, <2>2, Sizes, SumChange
    <3>6. SumFunctionOnSet(outgoingOffset, Streams) \in Int
      BY Sizes, SumIsInt DEF Ready, Types
    <3>7. SumFunctionOnSet(f, Streams) + p.left <= SumFunctionOnSet(outgoingOffset, Streams) + Room0
      BY <1>1 DEF f
    <3> DEFINE A == SumFunctionOnSet(f, Streams)
               B == SumFunctionOnSet(g, Streams)
               C == SumFunctionOnSet(outgoingOffset, Streams)
               d == a.offset - outgoingOffset[i]
               l == Len(a.frame.data)
    <3>8. A \in Int /\ C \in Int /\ B = A + d /\ A + p.left <= C + Room0 /\ d <= l /\ l \in Nat /\ d \in Int
          /\ q.left = p.left - l - Header
      BY <3>3, <3>5, <3>6, <3>7, <2>5, <2>9 DEF left
    <3>9. B + q.left <= C + Room0
      <4> HIDE DEF A, B, C, d, l
      <4> QED BY <3>8, <2>3, <1>1
    <3> QED BY <3>9 DEF g
  <2>14. q.left \in Int /\ (DOMAIN q.taken = {} \/ q.left >= 0)
    BY <2>6, <2>9
  <2>15. Packed(q, i)
    BY <2>11, <2>12, <2>13, <2>14 DEF Packed
  <2> QED BY <2>15 DEF q
<1> QED BY <1>3, <1>4

\* The ids of the streams run up to LastId.
LEMMA LastIdIs == LastId \in Nat /\ \A s \in Streams : s \in 1 .. LastId
<1> DEFINE S == Streams \cup {0}
<1>1. S \subseteq Nat /\ S # {}
  BY Sizes
<1>2. IsFiniteSet(S)
  BY Sizes, FS_AddElement
<1>3. PICK n \in S : \A x \in S : x <= n
  <2> HIDE DEF S
  <2> QED BY <1>1, <1>2, LargestNumber
<1>4. n \in Nat /\ S \in SUBSET (0 .. n)
  <2>1. \A x \in S : x \in Nat /\ n \in Nat
    BY <1>1
  <2> HIDE DEF S
  <2> QED BY <2>1, <1>3
<1>5. Max(S) \in S /\ \A x \in S : x <= Max(S)
  <2> HIDE DEF S
  <2> QED BY <1>1, <1>4, MaxIsGreatest
<1>6. LastId = Max(S)
  BY DEF LastId
<1>7. \A s \in Streams : s \in Nat \ {0} /\ s \in S
  BY Sizes
<1>8. Max(S) \in Nat
  BY <1>1, <1>5
<1> DEFINE m == Max(S)
<1>9. \A s \in Streams : s \in Nat \ {0} /\ s <= m
  BY <1>5, <1>7
<1> HIDE DEF S, m
<1>10. m \in Nat /\ LastId = m
  BY <1>6, <1>8 DEF m
<1> QED BY <1>9, <1>10

\* The recursion over the streams is well defined.
LEMMA PacketIs ==
  /\ Packet[0] = [left |-> Room0, taken |-> [t \in {} |-> 0]]
  /\ \A i \in 1 .. LastId : Packet[i] = TakeFrame(Packet[i - 1], i)
<1> DEFINE none == [left |-> Room0, taken |-> [t \in {} |-> 0]]
           Does(g, k) == g = [i \in 0 .. k |-> IF i = 0 THEN none ELSE TakeFrame(g[i - 1], i)]
           Bad == {k \in 0 .. LastId : ~ \E g : Does(g, k)}
<1>0. LastId \in Nat
  BY LastIdIs
<1> HIDE DEF none
<1>1. Bad = {}
  <2> SUFFICES ASSUME Bad # {} PROVE FALSE
    OBVIOUS
  <2>1. Bad \in SUBSET Nat
    BY <1>0
  <2>2. PICK k \in Bad : \A j \in Bad : k <= j
    <3> HIDE DEF Bad
    <3> QED BY <2>1, LeastNumber
  <2>3. k \in 0 .. LastId /\ k \in Nat /\ ~ \E g : Does(g, k)
    BY <2>1, <2>2
  <2>4. CASE k = 0
    <3> DEFINE g == [i \in 0 .. 0 |-> none]
    <3>1. \A i \in 0 .. 0 : i = 0
      OBVIOUS
    <3>2. g = [i \in 0 .. 0 |-> IF i = 0 THEN none ELSE TakeFrame(g[i - 1], i)]
      BY <3>1
    <3> QED BY <3>2, <2>3, <2>4
  <2>5. CASE k # 0
    <3>1. k - 1 \in 0 .. LastId /\ k - 1 \in Nat /\ ~ (k <= k - 1)
      BY <1>0, <2>3, <2>5
    <3>2. PICK g : Does(g, k - 1)
      <4>1. k - 1 \notin Bad
        BY <2>2, <3>1
      <4> QED BY <4>1, <3>1
    <3>3. \A i \in 0 .. k - 1 : g[i] = IF i = 0 THEN none ELSE TakeFrame(g[i - 1], i)
      BY <3>2
    <3> DEFINE h == [i \in 0 .. k |-> IF i = k THEN TakeFrame(g[k - 1], k) ELSE g[i]]
    <3>4. ASSUME NEW i \in 0 .. k
          PROVE  h[i] = IF i = 0 THEN none ELSE TakeFrame(h[i - 1], i)
      <4>1. CASE i = 0
        BY <4>1, <3>1, <3>3, <2>5
      <4>2. CASE i # 0
        <5>1. i - 1 \in 0 .. k - 1 /\ i - 1 \in 0 .. k /\ i - 1 # k
          BY <4>2, <2>3
        <5>2. h[i - 1] = g[i - 1]
          BY <5>1
        <5>3. CASE i = k
          BY <5>2, <5>3, <4>2
        <5>4. CASE i # k
          <6>1. i \in 0 .. k - 1
            BY <5>4, <2>3
          <6> QED BY <6>1, <5>2, <5>4, <4>2, <3>3
        <5> QED BY <5>3, <5>4
      <4> QED BY <4>1, <4>2
    <3>5. h = [i \in 0 .. k |-> IF i = 0 THEN none ELSE TakeFrame(h[i - 1], i)]
      <4>1. h = [i \in 0 .. k |-> h[i]]
        OBVIOUS
      <4> HIDE DEF h
      <4> QED BY <3>4, <4>1
    <3> HIDE DEF h
    <3> QED BY <3>5, <2>3
  <2> QED BY <2>4, <2>5
<1>2. \E g : Does(g, LastId)
  <2>1. LastId \in 0 .. LastId
    BY <1>0
  <2> QED BY <1>1, <2>1
<1>3. Packet = CHOOSE g : Does(g, LastId)
  BY DEF Packet, none, Room0
<1>4. Does(Packet, LastId)
  <2> HIDE DEF Does
  <2> QED BY <1>2, <1>3
<1>5. \A i \in 0 .. LastId : Packet[i] = IF i = 0 THEN none ELSE TakeFrame(Packet[i - 1], i)
  BY <1>4
<1>6. 0 \in 0 .. LastId /\ \A i \in 1 .. LastId : i \in 0 .. LastId /\ i # 0
  BY <1>0
<1> QED BY <1>5, <1>6 DEF none

\* What a packet takes.
LEMMA DataFramesAre ==
  ASSUME Ready, connectionMax \in Int
  PROVE  \E p : /\ DataFrames = p.taken /\ DOMAIN p.taken \subseteq Existing
                /\ \A s \in DOMAIN p.taken : \E size \in Nat \ {0} :
                     Offered(p.taken[s], s, size) /\ p.taken[s].frame.data # <<>>
                /\ DOMAIN p.taken # {} =>
                     SumFunctionOnSet(Offset(p), Streams) <= SumFunctionOnSet(outgoingOffset, Streams) + Window
<1>1. LastId \in Nat
  BY LastIdIs
<1>2. Existing \subseteq Streams /\ \A s \in Streams : outgoingOffset[s] \in Int
  BY DEF Existing, Ready, Types
<1>3. IsFiniteSet(Existing)
  BY <1>2, Sizes, FS_Subset
<1>4. Window \in Int
  <2>1. SumFunctionOnSet(outgoingOffset, Existing) \in Int
    BY <1>2, <1>3, SumIsInt
  <2> QED BY <2>1 DEF Window
<1>5. Room0 \in Int /\ Room0 <= Window
  BY <1>4, Sizes DEF Room0, Least
<1> DEFINE Bad == {i \in 0 .. LastId : ~ Packed(Packet[i], i)}
<1>6. Bad = {}
  <2> SUFFICES ASSUME Bad # {} PROVE FALSE
    OBVIOUS
  <2>1. Bad \in SUBSET Nat
    BY <1>1
  <2>2. PICK i \in Bad : \A j \in Bad : i <= j
    <3> HIDE DEF Bad
    <3> QED BY <2>1, LeastNumber
  <2>3. i \in 0 .. LastId /\ i \in Nat /\ ~ Packed(Packet[i], i)
    BY <2>1, <2>2
  <2>4. CASE i = 0
    <3> DEFINE p == [left |-> Room0, taken |-> [t \in {} |-> 0]]
    <3>1. p.left = Room0 /\ DOMAIN p.taken = {}
      OBVIOUS
    <3> HIDE DEF p
    <3>2. \A s \in Streams : outgoingOffset[s] \in Int /\ outgoingOffset[s] = Offset(p)[s]
      BY <3>1, <1>2 DEF Offset
    <3>3. SumFunctionOnSet(outgoingOffset, Streams) = SumFunctionOnSet(Offset(p), Streams)
      BY <3>2, Sizes, SumSame
    <3>4. SumFunctionOnSet(outgoingOffset, Streams) \in Int
      BY <1>2, Sizes, SumIsInt
    <3>5. Packed(p, 0)
      BY <3>1, <3>3, <3>4, <1>5 DEF Packed
    <3> QED BY <3>5, <2>3, <2>4, PacketIs DEF p
  <2>5. CASE i # 0
    <3>1. i \in 1 .. LastId /\ i \in Nat \ {0} /\ i - 1 \in 0 .. LastId /\ ~ (i <= i - 1)
      BY <1>1, <2>3, <2>5
    <3>2. Packed(Packet[i - 1], i - 1)
      <4>1. i - 1 \notin Bad
        BY <2>2, <3>1
      <4> QED BY <4>1, <3>1
    <3>3. Packet[i] = TakeFrame(Packet[i - 1], i)
      BY <3>1, PacketIs
    <3> DEFINE p == Packet[i - 1]
    <3>4. Packed(TakeFrame(p, i), i)
      <4>1. Packed(p, i - 1)
        BY <3>2
      <4> HIDE DEF p
      <4> QED BY <4>1, <3>1, <1>5, FrameTaken
    <3> QED BY <3>3, <3>4, <2>3
  <2> QED BY <2>4, <2>5
<1> DEFINE p == Packet[LastId]
<1>7. Packed(p, LastId)
  <2>1. LastId \in 0 .. LastId
    BY <1>1
  <2> QED BY <2>1, <1>6
<1>8. DataFrames = p.taken
  BY DEF DataFrames
<1> HIDE DEF p
<1>9. /\ p.left \in Int /\ DOMAIN p.taken \subseteq Existing
      /\ \A s \in DOMAIN p.taken : \E size \in Nat \ {0} :
           Offered(p.taken[s], s, size) /\ p.taken[s].frame.data # <<>>
      /\ DOMAIN p.taken = {} \/ p.left >= 0
      /\ SumFunctionOnSet(Offset(p), Streams) + p.left <= SumFunctionOnSet(outgoingOffset, Streams) + Room0
  BY <1>7 DEF Packed
<1>10. ASSUME DOMAIN p.taken # {}
       PROVE  SumFunctionOnSet(Offset(p), Streams) <= SumFunctionOnSet(outgoingOffset, Streams) + Window
  <2>1. SumFunctionOnSet(outgoingOffset, Streams) \in Int
    BY <1>2, Sizes, SumIsInt
  <2>2. \A s \in Streams : Offset(p)[s] \in Int
    <3> TAKE s \in Streams
    <3>1. CASE s \in DOMAIN p.taken
      <4>1. Offset(p)[s] = p.taken[s].offset
        BY <3>1 DEF Offset
      <4> QED BY <4>1, <3>1, <1>9 DEF Offered
    <3>2. CASE s \notin DOMAIN p.taken
      BY <3>2, <1>2 DEF Offset
    <3> QED BY <3>1, <3>2
  <2>3. SumFunctionOnSet(Offset(p), Streams) \in Int
    BY <2>2, Sizes, SumIsInt
  <2> DEFINE A == SumFunctionOnSet(Offset(p), Streams)
             B == SumFunctionOnSet(outgoingOffset, Streams)
             l == p.left
  <2>4. A \in Int /\ B \in Int /\ l \in Int /\ l >= 0 /\ A + l <= B + Room0
    BY <2>1, <2>3, <1>9, <1>10
  <2> HIDE DEF A, B, l
  <2>5. A <= B + Window
    BY <2>4, <1>4, <1>5
  <2> QED BY <2>5 DEF A, B
<1> QED BY <1>8, <1>9, <1>10
-----------------------------------------------------------------------------
(* The steps.                                                               *)

\* What a step may do to a stream, as the application at the other end sees it.
Onward(s) ==
  /\ readOffset[s] <= readOffset'[s] /\ Len(got[s]) <= Len(got'[s])
  /\ Lost(s) => Lost(s)'
  /\ status[s] # "open" => readOffset'[s] = readOffset[s] /\ status'[s] # "open"
  /\ status'[s] # "open" => status[s] # "open" \/ (life[s] = "removed" /\ s \notin DOMAIN request.data
                                                      /\ NoneAt(incoming[s], readOffset[s]))
Keeps(s) == Good(s)' /\ Onward(s)

\* A piece of some bytes is one of more bytes.
LEMMA PieceOfMore ==
  ASSUME NEW e, NEW m \in Nat, NEW n \in Nat, m <= n, IsPiece(e, m)
  PROVE  IsPiece(e, n)
<1>1. EndOf(e) \in Nat /\ EndOf(e) <= m
  BY PieceIs
<1>2. EndOf(e) <= n
  BY <1>1
<1> QED BY <1>2 DEF IsPiece

\* No chunks go nowhere.
LEMMA NoChain == ASSUME NEW n \in Nat PROVE Chain(<<>>, n, n)
<1> DEFINE c == [i \in 0 .. 0 |-> n]
<1>1. c \in [0 .. 0 -> n .. n] /\ c[0] = n
  OBVIOUS
<1>2. Len(<<>>) = 0 /\ 1 .. 0 = {}
  OBVIOUS
<1> HIDE DEF c
<1>3. IsCut(c, <<>>, n, n)
  BY <1>1, <1>2 DEF IsCut
<1> QED BY <1>1, <1>2, <1>3 DEF Chain

\* In the first state there is nothing anywhere.
LEMMA InitGood == Init => IInv
<1> SUFFICES ASSUME Init PROVE IInv
  OBVIOUS
<1>1. NoRequest.data = [s \in {} |-> Entry(<<>>, 0)] /\ NoRequest.closes = {} /\ DOMAIN NoRequest.data = {}
  BY DEF NoRequest
<1>2. NoLimits = [s \in {} |-> 0] /\ DOMAIN NoLimits = {} /\ NoResponse.limits = NoLimits /\ NoResponse.connectionMax = 0
  BY DEF NoLimits, NoResponse
<1>3. <<>> \in Seq(Nat) /\ <<>> \in Seq(Entries) /\ <<>> \in Seq(Seq(Nat)) /\ Len(<<>>) = 0 /\ 1 .. 0 = {}
  OBVIOUS
<1>4. Types
  <2>1. Zero \in [Streams -> Nat] /\ [s \in Streams |-> HighWaterMark] \in [Streams -> Nat]
    BY Sizes DEF Zero
  <2>2. Empty \in [Streams -> Seq(Nat)] /\ Empty \in [Streams -> Seq(Entries)] /\ Empty \in [Streams -> Seq(Seq(Nat))]
    BY <1>3 DEF Empty
  <2>3. IsMap(request.data, Entries) /\ request.closes \subseteq Streams
    BY <1>1 DEF Init, IsMap
  <2>4. IsMap(response.limits, Int) /\ IsMap(announced, Int) /\ response.connectionMax \in Int
    BY <1>2 DEF Init, IsMap
  <2>5. response = [code |-> response.code, connectionMax |-> response.connectionMax, limits |-> response.limits]
    BY DEF Init, NoResponse
  <2>6. BufferSize \in Int
    BY Sizes
  <2> QED BY <2>1, <2>2, <2>3, <2>4, <2>5, <2>6 DEF Init, Types
<1>5. Flight
  BY <1>1 DEF Init, Flight
<1>6. ASSUME NEW s \in Streams
      PROVE  Good(s)
  <2>1. /\ outgoing[s] = <<>> /\ toRetry[s] = <<>> /\ incoming[s] = <<>> /\ readable[s] = <<>> /\ got[s] = <<>>
        /\ written[s] = 0 /\ outgoingOffset[s] = 0 /\ readOffset[s] = 0 /\ maxOffset[s] = 0
        /\ remoteMaxOffset[s] = HighWaterMark /\ life[s] = "open" /\ status[s] = "open"
        /\ queuedCloses = {} /\ dropped = {} /\ request = NoRequest /\ response = NoResponse /\ announced = NoLimits
    BY DEF Init, Empty, Zero
  <2>2. Chain(<<>>, 0, 0)
    BY NoChain
  <2>3. Held(s)
    BY <2>1, <2>2, <1>1, <1>3 DEF Held
  <2>4. Bytes(1, 0) = <<>> /\ Bytes(0 + 1, 0) = <<>>
    BY NoBytes
  <2>5. ReadUp(s)
    BY <2>1, <2>4, <1>3 DEF ReadUp
  <2>6. InOrder(s) /\ NextIsRead(s)
    BY <2>1, <1>3 DEF InOrder, NextIsRead, NoneAt
  <2>7. WindowKept(s)
    BY <2>1, <1>2, <1>3, Sizes DEF WindowKept
  <2>8. Somewhere(s)
    BY <2>1, <1>3, <1>1 DEF Somewhere
  <2>9. Endings(s)
    BY <2>1, <1>1 DEF Endings
  <2> QED BY <2>3, <2>5, <2>6, <2>7, <2>8, <2>9 DEF Good
<1> QED BY <1>4, <1>5, <1>6 DEF IInv

\* A step that leaves the reader alone.
LEMMA ReaderSame ==
  ASSUME NEW s \in Streams, Types, ReadUp(s), InOrder(s), NextIsRead(s), UNCHANGED bufferVars,
         status'[s] # "open" => status[s] # "open",
         outgoingOffset'[s] \in Nat, outgoingOffset[s] <= outgoingOffset'[s]
  PROVE  ReadUp(s)' /\ InOrder(s)' /\ NextIsRead(s)' /\ (Clogged(s) => Clogged(s)')
         /\ readOffset[s] <= readOffset'[s] /\ Len(got[s]) <= Len(got'[s])
<1>1. /\ incoming' = incoming /\ readOffset' = readOffset /\ maxOffset' = maxOffset
      /\ readable' = readable /\ reading' = reading /\ got' = got
  BY DEF bufferVars
<1>2. /\ readOffset[s] \in Nat /\ maxOffset[s] \in Nat /\ outgoingOffset[s] \in Nat /\ Len(got[s]) \in Nat
  BY DEF Types
<1>3. readOffset[s] <= outgoingOffset'[s] /\ maxOffset[s] <= outgoingOffset'[s]
  BY <1>2 DEF ReadUp
<1>4. ReadUp(s)'
  BY <1>1, <1>3 DEF ReadUp
<1>5. Clogged(s)' <=> Clogged(s)
  BY <1>1 DEF Clogged
<1>6. InOrder(s)' /\ NextIsRead(s)'
  BY <1>1, <1>5 DEF InOrder, NextIsRead
<1> QED BY <1>1, <1>2, <1>4, <1>5, <1>6

\* A step after which no buffer and no packet of data has changed.
LEMMA NothingMoves ==
  ASSUME IInv, NEW s \in Streams, UNCHANGED <<written, queueVars, bufferVars, dropped>>,
         request'.data = request.data, status'[s] # "open" => status[s] # "open",
         stage' = stage \/ (stage = "none" /\ stage' = "none") \/ (stage = "handling" /\ stage' = "answered")
  PROVE  /\ Held(s)' /\ ReadUp(s)' /\ InOrder(s)' /\ NextIsRead(s)' /\ Somewhere(s)'
         /\ (Lost(s) => Lost(s)') /\ readOffset[s] <= readOffset'[s] /\ Len(got[s]) <= Len(got'[s])
<1>1. Types /\ Good(s)
  BY DEF IInv
<1>2. /\ written' = written /\ outgoing' = outgoing /\ toRetry' = toRetry /\ outgoingOffset' = outgoingOffset
      /\ incoming' = incoming /\ readOffset' = readOffset /\ dropped' = dropped /\ UNCHANGED bufferVars
  BY DEF queueVars, bufferVars
<1>3. outgoingOffset'[s] \in Nat /\ outgoingOffset[s] <= outgoingOffset'[s]
  <2>1. outgoingOffset[s] \in Nat
    BY <1>1 DEF Types
  <2> QED BY <2>1, <1>2
<1>4. /\ ReadUp(s)' /\ InOrder(s)' /\ NextIsRead(s)' /\ (Clogged(s) => Clogged(s)')
      /\ readOffset[s] <= readOffset'[s] /\ Len(got[s]) <= Len(got'[s])
  BY <1>1, <1>2, <1>3, ReaderSame DEF Good
<1>5. Held(s)'
  BY <1>1, <1>2 DEF Good, Held
<1>6. Somewhere(s)'
  <2>1. \A b : /\ Received(s, b)' <=> Received(s, b)
               /\ Waits(s, b)' <=> Waits(s, b)
               /\ UnderWay(s, b)' <=> UnderWay(s, b)
    BY <1>2 DEF Received, Waits, UnderWay
  <2> QED BY <2>1, <1>1, <1>2 DEF Good, Somewhere
<1> QED BY <1>4, <1>5, <1>6, <1>2 DEF Lost

\* Node's end() begins.
LEMMA EndKeeps ==
  ASSUME IInv, NEW t \in Streams, End(t)
  PROVE  IInv' /\ \A s \in Streams : Onward(s)
<1>1. /\ life[t] = "open" /\ life' = [life EXCEPT ![t] = "ending"]
      /\ UNCHANGED <<written, queueVars, bufferVars, dropped>>
      /\ request' = request /\ stage' = stage /\ response' = response /\ status' = status
      /\ loop' = loop /\ sending' = sending /\ queuedCloses' = queuedCloses /\ dropped' = dropped
      /\ written' = written /\ outgoingOffset' = outgoingOffset /\ remoteMaxOffset' = remoteMaxOffset
      /\ readOffset' = readOffset /\ maxOffset' = maxOffset /\ connectionMax' = connectionMax
      /\ announced' = announced /\ readable' = readable /\ reading' = reading /\ got' = got /\ outgoing' = outgoing
      /\ toRetry' = toRetry /\ incoming' = incoming /\ failure' = failure
  BY DEF End, loopVars, queueVars, windowVars, bufferVars, peerVars
<1>2. Types'
  BY <1>1 DEF IInv, Types
<1>3. Flight'
  BY <1>1 DEF IInv, Flight
<1>4. ASSUME NEW s \in Streams
      PROVE  Good(s)' /\ Onward(s)
  <2>1. /\ Held(s)' /\ ReadUp(s)' /\ InOrder(s)' /\ NextIsRead(s)' /\ Somewhere(s)'
        /\ (Lost(s) => Lost(s)') /\ readOffset[s] <= readOffset'[s] /\ Len(got[s]) <= Len(got'[s])
    BY <1>1, NothingMoves
  <2>2. WindowKept(s)'
    BY <1>1 DEF IInv, Good, WindowKept
  <2>3. Endings(s)'
    <3>1. life'[s] = "removed" <=> life[s] = "removed"
      BY <1>1 DEF IInv, Types
    <3> QED BY <1>1, <3>1 DEF IInv, Good, Endings
  <2> QED BY <1>1, <2>1, <2>2, <2>3 DEF Good, Onward
<1> QED BY <1>2, <1>3, <1>4 DEF IInv

\* How much there is for a stream's reader.
LEMMA LengthIs ==
  ASSUME NEW s \in Streams, Types, Held(s)
  PROVE  /\ ByteLength(incoming[s], readOffset[s]) \in Nat /\ Len(readable[s]) \in Nat
         /\ ReadableLength(s) \in Nat /\ Len(readable[s]) <= ReadableLength(s)
         /\ Left(s) <=> ~ NoneAt(incoming[s], readOffset[s])
<1>1. /\ incoming[s] \in Seq(Entries) /\ outgoingOffset[s] \in Nat /\ readOffset[s] \in Nat /\ readable[s] \in Seq(Nat)
      /\ \A i \in 1 .. Len(incoming[s]) : IsPiece(incoming[s][i], outgoingOffset[s])
  BY DEF Types, Held
<1>2. Len(readable[s]) \in Nat
  BY <1>1, LenProperties
<1>3. /\ ByteLength(incoming[s], readOffset[s]) \in Nat
      /\ ByteLength(incoming[s], readOffset[s]) > 0 <=> ~ NoneAt(incoming[s], readOffset[s])
  BY <1>1, SorterHas
<1> DEFINE b == ByteLength(incoming[s], readOffset[s])
           r == Len(readable[s])
<1>4. ReadableLength(s) = r + b /\ b \in Nat /\ r \in Nat
  BY <1>2, <1>3 DEF ReadableLength
<1> HIDE DEF b, r
<1>5. ReadableLength(s) \in Nat /\ r <= ReadableLength(s)
  BY <1>4
<1> QED BY <1>2, <1>3, <1>5 DEF Left, r

\* The limits that the receiver gives out.
LEMMA MaxDataIs ==
  ASSUME IInv
  PROVE  /\ IsMap(MaxData, Int)
         /\ \A s \in DOMAIN MaxData : s \in Streams /\ MaxData[s] <= Len(got[s]) + HighWaterMark
<1>1. ASSUME NEW s \in Streams
      PROVE  Acceptable(s) <= Len(got[s]) + HighWaterMark /\ Acceptable(s) \in Int
  <2> DEFINE o == readOffset[s]
             g == Len(got[s])
             r == Len(readable[s])
             l == ReadableLength(s)
             a == Acceptable(s)
  <2>0. Types /\ Held(s)
    BY DEF IInv, Good
  <2>1. o \in Nat /\ g \in Nat /\ r \in Nat /\ l \in Nat /\ r <= l
    <3>1. readOffset \in [Streams -> Nat] /\ got[s] \in Seq(Nat)
      BY <2>0 DEF Types
    <3>2. g \in Nat
      BY <3>1, LenProperties
    <3> QED BY <3>1, <3>2, <2>0, LengthIs
  <2>2. g + r = o
    BY DEF IInv, Good, ReadUp
  <2>3. a = o + HighWaterMark - l
    BY DEF Acceptable
  <2> HIDE DEF o, g, r, l, a
  <2>4. a <= g + HighWaterMark /\ a \in Int
    BY <2>1, <2>2, <2>3, Sizes
  <2> QED BY <2>4 DEF g, a
<1> DEFINE D == {t \in Streams : status[t] = "open"}
           f == [s \in D |-> Acceptable(s)]
<1>2. MaxData = f
  BY DEF MaxData
<1>3. DOMAIN f \subseteq Streams /\ f \in [D -> Int] /\ DOMAIN f = D
  BY <1>1
<1>4. \A s \in D : f[s] <= Len(got[s]) + HighWaterMark
  BY <1>1
<1> HIDE DEF f, D
<1> QED BY <1>2, <1>3, <1>4 DEF IsMap

\* Limits that are taken raise the windows, and not too far.
LEMMA LimitsTaken ==
  ASSUME IInv, NEW limits, IsMap(limits, Int), TakeLimits(limits),
         \A s \in DOMAIN limits : limits[s] <= Len(got[s]) + HighWaterMark
  PROVE  /\ remoteMaxOffset' \in [Streams -> Nat]
         /\ \A s \in Streams : outgoingOffset[s] <= remoteMaxOffset'[s]
                               /\ remoteMaxOffset'[s] <= Len(got[s]) + HighWaterMark
<1>1. remoteMaxOffset' = [s \in Streams |-> IF s \in Raised(limits) THEN limits[s] ELSE remoteMaxOffset[s]]
  BY DEF TakeLimits
<1>2. \A s \in Raised(limits) : s \in DOMAIN limits /\ limits[s] \in Int /\ limits[s] > remoteMaxOffset[s]
  BY DEF Raised, IsMap
<1>3. ASSUME NEW s \in Streams
      PROVE  /\ remoteMaxOffset'[s] \in Nat /\ outgoingOffset[s] <= remoteMaxOffset'[s]
             /\ remoteMaxOffset'[s] <= Len(got[s]) + HighWaterMark
  <2>1. /\ remoteMaxOffset[s] \in Nat /\ outgoingOffset[s] \in Nat /\ Len(got[s]) \in Nat
        /\ outgoingOffset[s] <= remoteMaxOffset[s] /\ remoteMaxOffset[s] <= Len(got[s]) + HighWaterMark
    BY DEF IInv, Types, Good, WindowKept
  <2>2. CASE s \in Raised(limits)
    <3>1. remoteMaxOffset'[s] = limits[s] /\ limits[s] \in Int /\ limits[s] > remoteMaxOffset[s]
          /\ limits[s] <= Len(got[s]) + HighWaterMark
      BY <1>1, <1>2, <2>2
    <3> QED BY <3>1, <2>1
  <2>3. CASE s \notin Raised(limits)
    BY <1>1, <2>1, <2>3
  <2> QED BY <2>2, <2>3
<1>4. remoteMaxOffset' \in [Streams -> Nat]
  <2>1. \A s \in Streams : (IF s \in Raised(limits) THEN limits[s] ELSE remoteMaxOffset[s]) \in Nat
    BY <1>1, <1>3
  <2> QED BY <1>1, <2>1
<1> QED BY <1>3, <1>4

\* A stream is closed.
LEMMA FinishKeeps ==
  ASSUME IInv, NEW t \in Streams, Finish(t)
  PROVE  IInv' /\ \A s \in Streams : Onward(s)
<1>1. /\ life[t] = "ending" /\ life' = [life EXCEPT ![t] = "removed"] /\ outgoing[t] = <<>>
      /\ dropped' = (IF toRetry[t] = <<>> THEN dropped ELSE dropped \cup {t})
      /\ queuedCloses' = queuedCloses \cup {t} /\ sending' = TRUE
      /\ loop' = (IF loop = "idle" THEN "tick" ELSE loop)
      /\ UNCHANGED <<written, queueVars, bufferVars>>
      /\ request' = request /\ stage' = stage /\ response' = response /\ status' = status
      /\ written' = written /\ outgoingOffset' = outgoingOffset /\ remoteMaxOffset' = remoteMaxOffset
      /\ readOffset' = readOffset /\ maxOffset' = maxOffset /\ connectionMax' = connectionMax
      /\ announced' = announced /\ readable' = readable /\ reading' = reading /\ got' = got /\ outgoing' = outgoing
      /\ toRetry' = toRetry /\ incoming' = incoming /\ failure' = failure
  BY DEF Finish, AllTaken, startSendLoop, queueVars, windowVars, bufferVars, peerVars
<1>2. Types'
  <2>1. dropped' \subseteq Streams /\ queuedCloses' \subseteq Streams
    BY <1>1 DEF IInv, Types
  <2>2. life' \in [Streams -> {"open", "ending", "removed"}]
    BY <1>1 DEF IInv, Types
  <2>3. loop' \in {"idle", "tick", "waiting", "backoff"} /\ sending' \in BOOLEAN
    BY <1>1 DEF IInv, Types
  <2>4. /\ stage' \in {"none", "path", "handling", "answered"} /\ failure' \in {"none", "flow"}
        /\ status' \in [Streams -> {"open", "ended", "removed"}]
        /\ {written', outgoingOffset', remoteMaxOffset', readOffset', maxOffset'} \subseteq [Streams -> Nat]
        /\ connectionMax' \in Int
    BY <1>1 DEF IInv, Types
  <2>5. /\ response' = [code |-> response'.code, connectionMax |-> response'.connectionMax,
                        limits |-> response'.limits]
        /\ response'.connectionMax \in Int /\ IsMap(response.limits, Int)' /\ IsMap(announced, Int)'
    BY <1>1 DEF IInv, Types
  <2>6. /\ {readable', got'} \subseteq [Streams -> Seq(Nat)] /\ outgoing' \in [Streams -> Seq(Seq(Nat))]
        /\ reading' \in [Streams -> BOOLEAN]
        /\ {toRetry', incoming'} \subseteq [Streams -> Seq(Entries)]
        /\ IsMap(request.data, Entries)' /\ request'.closes \subseteq Streams
    BY <1>1 DEF IInv, Types
  <2> QED BY <2>1, <2>2, <2>3, <2>4, <2>5, <2>6 DEF Types
<1>3. Flight'
  BY <1>1 DEF IInv, Flight
<1>4. ASSUME NEW s \in Streams
      PROVE  Good(s)' /\ Onward(s)
  <2>0. Types /\ Good(s)
    BY DEF IInv
  <2>1. Held(s)'
    BY <1>1, <2>0 DEF Good, Held
  <2>2. outgoingOffset'[s] \in Nat /\ outgoingOffset[s] <= outgoingOffset'[s]
    <3>1. outgoingOffset[s] \in Nat
      BY <2>0 DEF Types
    <3> QED BY <3>1, <1>1
  <2>3. /\ ReadUp(s)' /\ InOrder(s)' /\ NextIsRead(s)' /\ (Clogged(s) => Clogged(s)')
        /\ readOffset[s] <= readOffset'[s] /\ Len(got[s]) <= Len(got'[s])
    BY <1>1, <2>0, <2>2, ReaderSame DEF Good
  <2>4. Somewhere(s)'
    <3>1. \A b : /\ Received(s, b)' <=> Received(s, b)
                 /\ Waits(s, b)' <=> Waits(s, b)
                 /\ UnderWay(s, b)' <=> UnderWay(s, b)
      BY <1>1 DEF Received, Waits, UnderWay
    <3>2. s \notin dropped' => s \notin dropped
      BY <1>1
    <3> QED BY <3>1, <3>2, <2>0, <1>1 DEF Good, Somewhere
  <2>5. WindowKept(s)'
    BY <1>1, <2>0 DEF Good, WindowKept
  <2>6. Endings(s)'
    <3>1. life'[s] = IF s = t THEN "removed" ELSE life[s]
      BY <1>1, <2>0 DEF Types
    <3> QED BY <1>1, <3>1, <2>0 DEF Good, Endings
  <2>7. Lost(s) => Lost(s)'
    BY <1>1, <2>3 DEF Lost
  <2> QED BY <1>1, <2>1, <2>3, <2>4, <2>5, <2>6, <2>7 DEF Good, Onward
<1> QED BY <1>2, <1>3, <1>4 DEF IInv

\* The wait after a temporary error ends.
LEMMA BackoffKeeps ==
  ASSUME IInv, BackoffOver
  PROVE  IInv' /\ \A s \in Streams : Onward(s)
<1>1. loop = "backoff" /\ loop' \in {"idle", "tick", "waiting", "backoff"}
  BY DEF BackoffOver
<1>2. /\ UNCHANGED <<written, queueVars, bufferVars, dropped>>
      /\ request' = request /\ stage' = stage /\ response' = response /\ status' = status /\ life' = life
      /\ sending' = sending /\ queuedCloses' = queuedCloses /\ dropped' = dropped
      /\ written' = written /\ outgoingOffset' = outgoingOffset /\ remoteMaxOffset' = remoteMaxOffset
      /\ readOffset' = readOffset /\ maxOffset' = maxOffset /\ connectionMax' = connectionMax
      /\ announced' = announced /\ readable' = readable /\ reading' = reading /\ got' = got /\ outgoing' = outgoing
      /\ toRetry' = toRetry /\ incoming' = incoming /\ failure' = failure
  BY DEF BackoffOver, queueVars, windowVars, bufferVars, peerVars
<1>3. Types'
  BY <1>1, <1>2 DEF IInv, Types
<1>4. Flight'
  BY <1>1, <1>2 DEF IInv, Flight
<1>5. ASSUME NEW s \in Streams
      PROVE  Good(s)' /\ Onward(s)
  <2>1. /\ Held(s)' /\ ReadUp(s)' /\ InOrder(s)' /\ NextIsRead(s)' /\ Somewhere(s)'
        /\ (Lost(s) => Lost(s)') /\ readOffset[s] <= readOffset'[s] /\ Len(got[s]) <= Len(got'[s])
    BY <1>2, NothingMoves
  <2>2. WindowKept(s)' /\ Endings(s)'
    BY <1>2 DEF IInv, Good, WindowKept, Endings
  <2> QED BY <1>2, <2>1, <2>2 DEF Good, Onward
<1> QED BY <1>3, <1>4, <1>5 DEF IInv

\* The answer to a packet.
LEMMA RespondKeeps ==
  ASSUME IInv, Respond
  PROVE  IInv' /\ \A s \in Streams : Onward(s)
<1>1. /\ UNCHANGED <<written, queueVars, bufferVars, dropped>> /\ stage = "handling" /\ stage' = "answered"
      /\ request' = request /\ loop' = loop /\ status' = status /\ life' = life
      /\ sending' = sending /\ queuedCloses' = queuedCloses /\ dropped' = dropped
      /\ written' = written /\ outgoingOffset' = outgoingOffset /\ remoteMaxOffset' = remoteMaxOffset
      /\ readOffset' = readOffset /\ maxOffset' = maxOffset /\ connectionMax' = connectionMax
      /\ announced' = announced /\ readable' = readable /\ reading' = reading /\ got' = got /\ outgoing' = outgoing
      /\ toRetry' = toRetry /\ incoming' = incoming /\ failure' = failure
  BY DEF Respond, loopVars, queueVars, windowVars, bufferVars, peerVars
<1>2. \/ response' = [response EXCEPT !.code = "fulfill", !.limits = MaxData]
      \/ response' = [response EXCEPT !.code = "F99", !.limits = NoLimits]
  BY DEF Respond
<1>3. response = [code |-> response.code, connectionMax |-> response.connectionMax, limits |-> response.limits]
      /\ response.connectionMax \in Int
  BY DEF IInv, Types
<1>4. /\ response' = [code |-> response'.code, connectionMax |-> response'.connectionMax, limits |-> response'.limits]
      /\ response'.connectionMax = response.connectionMax
      /\ response'.limits = MaxData \/ response'.limits = NoLimits
  BY <1>2, <1>3
<1>5. IsMap(NoLimits, Int) /\ DOMAIN NoLimits = {}
  BY DEF IsMap, NoLimits
<1>6. IsMap(response'.limits, Int) /\ \A s \in DOMAIN response'.limits :
        response'.limits[s] <= Len(got[s]) + HighWaterMark
  BY <1>4, <1>5, MaxDataIs
<1>7. Types'
  <2>1. IsMap(response.limits, Int)' /\ response'.connectionMax \in Int
    BY <1>3, <1>4, <1>6 DEF IsMap
  <2> QED BY <1>1, <1>4, <2>1 DEF IInv, Types
<1>8. Flight'
  BY <1>1 DEF IInv, Flight
<1>9. ASSUME NEW s \in Streams
      PROVE  Good(s)' /\ Onward(s)
  <2>1. /\ Held(s)' /\ ReadUp(s)' /\ InOrder(s)' /\ NextIsRead(s)' /\ Somewhere(s)'
        /\ (Lost(s) => Lost(s)') /\ readOffset[s] <= readOffset'[s] /\ Len(got[s]) <= Len(got'[s])
    BY <1>1, NothingMoves
  <2>2. WindowKept(s)'
    <3>1. s \in DOMAIN response'.limits => response'.limits[s] <= Len(got'[s]) + HighWaterMark
      <4>1. Len(got[s]) + HighWaterMark \in Nat
        BY Sizes DEF IInv, Types
      <4> QED BY <4>1, <1>1, <1>6
    <3> QED BY <1>1, <3>1 DEF IInv, Good, WindowKept
  <2>3. Endings(s)'
    BY <1>1 DEF IInv, Good, Endings
  <2> QED BY <1>1, <2>1, <2>2, <2>3 DEF Good, Onward
<1> QED BY <1>7, <1>8, <1>9 DEF IInv

\* A stream of the receiver that has ended is removed.
LEMMA RemoveKeeps ==
  ASSUME IInv, NEW t \in Streams, RemovePeer(t)
  PROVE  IInv' /\ \A s \in Streams : Onward(s)
<1>1. /\ UNCHANGED <<written, queueVars, bufferVars, dropped>> /\ stage' = stage
      /\ status[t] = "ended" /\ status' = [status EXCEPT ![t] = "removed"]
      /\ request' = request /\ loop' = loop /\ life' = life /\ response' = response
      /\ sending' = sending /\ queuedCloses' = queuedCloses /\ dropped' = dropped
      /\ written' = written /\ outgoingOffset' = outgoingOffset /\ remoteMaxOffset' = remoteMaxOffset
      /\ readOffset' = readOffset /\ maxOffset' = maxOffset /\ connectionMax' = connectionMax
      /\ announced' = announced /\ readable' = readable /\ reading' = reading /\ got' = got /\ outgoing' = outgoing
      /\ toRetry' = toRetry /\ incoming' = incoming /\ failure' = failure
  BY DEF RemovePeer, loopVars, queueVars, windowVars, bufferVars, peerVars
<1>2. Types'
  BY <1>1 DEF IInv, Types
<1>3. Flight'
  BY <1>1 DEF IInv, Flight
<1>4. ASSUME NEW s \in Streams
      PROVE  Good(s)' /\ Onward(s)
  <2>3. status'[s] # "open" <=> status[s] # "open"
    <3>1. status'[s] = IF s = t THEN "removed" ELSE status[s]
      BY <1>1 DEF IInv, Types
    <3> QED BY <1>1, <3>1
  <2>1. /\ Held(s)' /\ ReadUp(s)' /\ InOrder(s)' /\ NextIsRead(s)' /\ Somewhere(s)'
        /\ (Lost(s) => Lost(s)') /\ readOffset[s] <= readOffset'[s] /\ Len(got[s]) <= Len(got'[s])
    BY <1>1, <2>3, NothingMoves
  <2>2. WindowKept(s)'
    BY <1>1 DEF IInv, Good, WindowKept
  <2>4. Endings(s)'
    BY <1>1, <2>3 DEF IInv, Good, Endings
  <2> QED BY <1>1, <2>1, <2>2, <2>3, <2>4 DEF Good, Onward
<1> QED BY <1>2, <1>3, <1>4 DEF IInv

\* The receiver sends its limits.
LEMMA AnnounceKeeps ==
  ASSUME IInv, Announce
  PROVE  IInv' /\ \A s \in Streams : Onward(s)
<1>1. /\ UNCHANGED <<written, queueVars, bufferVars, dropped>> /\ stage' = stage /\ status' = status
      /\ request' = request /\ loop' = loop /\ life' = life /\ response' = response
      /\ sending' = sending /\ queuedCloses' = queuedCloses /\ dropped' = dropped
      /\ written' = written /\ outgoingOffset' = outgoingOffset /\ remoteMaxOffset' = remoteMaxOffset
      /\ readOffset' = readOffset /\ maxOffset' = maxOffset /\ connectionMax' = connectionMax
      /\ readable' = readable /\ reading' = reading /\ got' = got /\ outgoing' = outgoing
      /\ toRetry' = toRetry /\ incoming' = incoming /\ failure' = failure /\ announced' = MaxData
  BY DEF Announce, loopVars, queueVars, windowVars, bufferVars
<1>2. Types'
  <2>1. IsMap(announced, Int)'
    BY <1>1, MaxDataIs DEF IsMap
  <2> QED BY <1>1, <2>1 DEF IInv, Types
<1>3. Flight'
  BY <1>1 DEF IInv, Flight
<1>4. ASSUME NEW s \in Streams
      PROVE  Good(s)' /\ Onward(s)
  <2>1. /\ Held(s)' /\ ReadUp(s)' /\ InOrder(s)' /\ NextIsRead(s)' /\ Somewhere(s)'
        /\ (Lost(s) => Lost(s)') /\ readOffset[s] <= readOffset'[s] /\ Len(got[s]) <= Len(got'[s])
    BY <1>1, NothingMoves
  <2>2. WindowKept(s)'
    <3>1. s \in DOMAIN announced' => announced'[s] <= Len(got'[s]) + HighWaterMark
      <4>1. Len(got[s]) + HighWaterMark \in Nat
        BY Sizes DEF IInv, Types
      <4> QED BY <4>1, <1>1, MaxDataIs
    <3> QED BY <1>1, <3>1 DEF IInv, Good, WindowKept
  <2>3. Endings(s)'
    BY <1>1 DEF IInv, Good, Endings
  <2> QED BY <1>1, <2>1, <2>2, <2>3 DEF Good, Onward
<1> QED BY <1>2, <1>3, <1>4 DEF IInv

\* They reach the sender.
LEMMA AnnouncedKeeps ==
  ASSUME IInv, AnnouncementArrives
  PROVE  IInv' /\ \A s \in Streams : Onward(s)
<1>1. /\ UNCHANGED <<written, queueVars, bufferVars, dropped>> /\ stage' = stage /\ status' = status
      /\ request' = request /\ life' = life /\ response' = response
      /\ queuedCloses' = queuedCloses /\ dropped' = dropped
      /\ written' = written /\ outgoingOffset' = outgoingOffset
      /\ readOffset' = readOffset /\ maxOffset' = maxOffset /\ connectionMax' = connectionMax
      /\ readable' = readable /\ reading' = reading /\ got' = got /\ outgoing' = outgoing
      /\ toRetry' = toRetry /\ incoming' = incoming /\ failure' = failure /\ announced' = NoLimits
      /\ TakeLimits(announced)
  BY DEF AnnouncementArrives, PeerGoesOn, queueVars, bufferVars
<1>2. /\ loop' \in {"idle", "tick", "waiting", "backoff"} /\ sending' \in BOOLEAN
      /\ loop = "waiting" => loop' = loop
  <2>1. loop \in {"idle", "tick", "waiting", "backoff"} /\ sending \in BOOLEAN
    BY DEF IInv, Types
  <2> QED BY <2>1 DEF AnnouncementArrives, startSendLoop
<1>3. /\ remoteMaxOffset' \in [Streams -> Nat]
      /\ \A s \in Streams : outgoingOffset[s] <= remoteMaxOffset'[s]
                            /\ remoteMaxOffset'[s] <= Len(got[s]) + HighWaterMark
  <2>1. IsMap(announced, Int) /\ \A s \in DOMAIN announced : s \in Streams
    BY DEF IInv, Types, IsMap
  <2>2. \A s \in DOMAIN announced : announced[s] <= Len(got[s]) + HighWaterMark
    BY <2>1 DEF IInv, Good, WindowKept
  <2> QED BY <1>1, <2>1, <2>2, LimitsTaken
<1>4. IsMap(NoLimits, Int) /\ DOMAIN NoLimits = {}
  BY DEF IsMap, NoLimits
<1>5. Types'
  <2>1. IsMap(announced, Int)'
    BY <1>1, <1>4 DEF IsMap
  <2> QED BY <1>1, <1>2, <1>3, <2>1 DEF IInv, Types
<1>6. Flight'
  BY <1>1, <1>2 DEF IInv, Flight
<1>7. ASSUME NEW s \in Streams
      PROVE  Good(s)' /\ Onward(s)
  <2>1. /\ Held(s)' /\ ReadUp(s)' /\ InOrder(s)' /\ NextIsRead(s)' /\ Somewhere(s)'
        /\ (Lost(s) => Lost(s)') /\ readOffset[s] <= readOffset'[s] /\ Len(got[s]) <= Len(got'[s])
    BY <1>1, NothingMoves
  <2>2. WindowKept(s)'
    BY <1>1, <1>3, <1>4 DEF IInv, Good, WindowKept
  <2>3. Endings(s)'
    BY <1>1 DEF IInv, Good, Endings
  <2> QED BY <1>1, <2>1, <2>2, <2>3 DEF Good, Onward
<1> QED BY <1>5, <1>6, <1>7 DEF IInv

\* They are refused on their way.
LEMMA RefusedKeeps ==
  ASSUME IInv, AnnouncementRefused
  PROVE  IInv' /\ \A s \in Streams : Onward(s)
<1>1. /\ UNCHANGED <<written, queueVars, bufferVars, dropped>> /\ stage' = stage /\ status' = status
      /\ request' = request /\ loop' = loop /\ life' = life /\ response' = response
      /\ sending' = sending /\ queuedCloses' = queuedCloses /\ dropped' = dropped
      /\ written' = written /\ outgoingOffset' = outgoingOffset /\ remoteMaxOffset' = remoteMaxOffset
      /\ readOffset' = readOffset /\ maxOffset' = maxOffset /\ connectionMax' = connectionMax
      /\ readable' = readable /\ reading' = reading /\ got' = got /\ outgoing' = outgoing
      /\ toRetry' = toRetry /\ incoming' = incoming /\ failure' = failure /\ announced' = NoLimits
  BY DEF AnnouncementRefused, PeerGoesOn, loopVars, queueVars, windowVars, bufferVars
<1>2. IsMap(NoLimits, Int) /\ DOMAIN NoLimits = {}
  BY DEF IsMap, NoLimits
<1>3. Types'
  <2>1. IsMap(announced, Int)'
    BY <1>1, <1>2 DEF IsMap
  <2> QED BY <1>1, <2>1 DEF IInv, Types
<1>4. Flight'
  BY <1>1 DEF IInv, Flight
<1>5. ASSUME NEW s \in Streams
      PROVE  Good(s)' /\ Onward(s)
  <2>1. /\ Held(s)' /\ ReadUp(s)' /\ InOrder(s)' /\ NextIsRead(s)' /\ Somewhere(s)'
        /\ (Lost(s) => Lost(s)') /\ readOffset[s] <= readOffset'[s] /\ Len(got[s]) <= Len(got'[s])
    BY <1>1, NothingMoves
  <2>2. WindowKept(s)'
    BY <1>1, <1>2 DEF IInv, Good, WindowKept
  <2>3. Endings(s)'
    BY <1>1 DEF IInv, Good, Endings
  <2> QED BY <1>1, <2>1, <2>2, <2>3 DEF Good, Onward
<1> QED BY <1>3, <1>4, <1>5 DEF IInv

\* Chunks that follow each other, and one more.
LEMMA ChainLonger ==
  ASSUME NEW chunks \in Seq(Seq(Nat)), NEW from \in Nat, NEW to \in Nat, Chain(chunks, from, to),
         NEW n \in Nat, n > 0
  PROVE  /\ Bytes(to + 1, n) \in Seq(Nat)
         /\ Chain(Append(chunks, Bytes(to + 1, n)), from, to + n)
<1> DEFINE L == Len(chunks)
           b == Bytes(to + 1, n)
           q == Append(chunks, b)
<1>1. PICK cut : IsCut(cut, chunks, from, to)
  BY DEF Chain
<1>2. /\ \A i \in 0 .. L : cut[i] \in Nat /\ from <= cut[i] /\ cut[i] <= to
      /\ cut[0] = from /\ cut[L] = to /\ L \in Nat
      /\ \A i \in 1 .. L : /\ i - 1 \in 0 .. L /\ i \in 0 .. L /\ cut[i - 1] < cut[i]
                           /\ chunks[i] = Bytes(cut[i - 1] + 1, cut[i] - cut[i - 1])
  BY <1>1, CutIs
<1>3. to + 1 \in Nat /\ b \in Seq(Nat)
  <2>1. to + 1 \in Nat
    OBVIOUS
  <2> QED BY <2>1, BytesAre
<1> HIDE DEF L
<1>4. Len(q) = L + 1 /\ q[L + 1] = b /\ \A i \in 1 .. L : q[i] = chunks[i]
  <2> HIDE DEF b
  <2> QED BY <1>3, AppendProperties DEF L
<1> DEFINE c == [i \in 0 .. L + 1 |-> IF i = L + 1 THEN to + n ELSE cut[i]]
<1>5. \A i \in 0 .. L : i \in 0 .. L + 1 /\ i # L + 1 /\ c[i] = cut[i]
  BY <1>2
<1>6. L + 1 \in 0 .. L + 1 /\ c[L + 1] = to + n /\ L \in 0 .. L /\ 0 \in 0 .. L
  BY <1>2
<1>7. from <= to /\ to <= to + n /\ to + n \in Nat
  BY <1>2, <1>6
<1>8. ASSUME NEW i \in 0 .. L + 1
      PROVE  c[i] \in from .. to + n
  <2>1. CASE i = L + 1
    BY <2>1, <1>6, <1>7
  <2>2. CASE i # L + 1
    <3>1. i \in 0 .. L
      BY <2>2, <1>2
    <3>2. c[i] = cut[i] /\ cut[i] \in Nat /\ from <= cut[i] /\ cut[i] <= to
      BY <3>1, <1>2, <1>5
    <3> QED BY <3>2, <1>7
  <2> QED BY <2>1, <2>2
<1>9. c \in [0 .. L + 1 -> from .. to + n]
  <2>1. c = [i \in 0 .. L + 1 |-> c[i]]
    OBVIOUS
  <2> HIDE DEF c
  <2> QED BY <1>8, <2>1
<1>10. ASSUME NEW i \in 1 .. L + 1
       PROVE  c[i - 1] < c[i] /\ q[i] = Bytes(c[i - 1] + 1, c[i] - c[i - 1])
  <2>1. CASE i = L + 1
    <3>1. i - 1 = L /\ c[i - 1] = to /\ c[i] = to + n
      BY <2>1, <1>2, <1>5, <1>6
    <3>2. to < to + n /\ (to + n) - to = n
      OBVIOUS
    <3> QED BY <3>1, <3>2, <1>4, <2>1
  <2>2. CASE i # L + 1
    <3>1. i \in 1 .. L /\ i - 1 \in 0 .. L /\ i \in 0 .. L
      BY <2>2, <1>2
    <3> HIDE DEF c
    <3> QED BY <3>1, <1>2, <1>4, <1>5
  <2> QED BY <2>1, <2>2
<1> HIDE DEF c, q
<1>11. c[0] = from /\ c[L + 1] = to + n
  BY <1>2, <1>5, <1>6
<1>12. IsCut(c, q, from, to + n)
  BY <1>4, <1>9, <1>10, <1>11 DEF IsCut
<1>13. Chain(q, from, to + n)
  BY <1>4, <1>9, <1>12 DEF Chain
<1> QED BY <1>3, <1>13 DEF q

\* stream.write.
LEMMA WriteKeeps ==
  ASSUME IInv, NEW t \in Streams, NEW n \in ChunkSizes, Write(t, n)
  PROVE  IInv' /\ \A s \in Streams : Onward(s)
<1>1. /\ UNCHANGED bufferVars /\ stage' = stage /\ status' = status /\ request' = request /\ life' = life
      /\ response' = response /\ queuedCloses' = queuedCloses /\ dropped' = dropped
      /\ outgoingOffset' = outgoingOffset /\ remoteMaxOffset' = remoteMaxOffset
      /\ readOffset' = readOffset /\ maxOffset' = maxOffset /\ connectionMax' = connectionMax
      /\ toRetry' = toRetry /\ incoming' = incoming /\ failure' = failure
      /\ readable' = readable /\ reading' = reading /\ got' = got /\ announced' = announced /\ life[t] = "open"
  BY DEF Write, windowVars, bufferVars, peerVars
<1>2. /\ outgoing' = [outgoing EXCEPT ![t] = Append(@, Bytes(written[t] + 1, n))]
      /\ written' = [written EXCEPT ![t] = @ + n]
  BY DEF Write
<1>3. n \in Nat /\ n > 0
  BY DataAssumption
<1>4. /\ loop' \in {"idle", "tick", "waiting", "backoff"} /\ sending' \in BOOLEAN
      /\ loop = "waiting" => loop' = loop
  <2>1. loop \in {"idle", "tick", "waiting", "backoff"}
    BY DEF IInv, Types
  <2> QED BY <2>1 DEF Write, startSendLoop
<1>5. outgoing \in [Streams -> Seq(Seq(Nat))] /\ written \in [Streams -> Nat] /\ outgoingOffset \in [Streams -> Nat]
  BY DEF IInv, Types
<1>6. ASSUME NEW s \in Streams
      PROVE  /\ outgoing'[s] \in Seq(Seq(Nat)) /\ written'[s] \in Nat
             /\ Chain(outgoing'[s], outgoingOffset[s], written'[s])
             /\ life[s] = "removed" => outgoing'[s] = outgoing[s]
  <2>1. outgoing[s] \in Seq(Seq(Nat)) /\ written[s] \in Nat /\ outgoingOffset[s] \in Nat
    BY <1>5
  <2>2. Chain(outgoing[s], outgoingOffset[s], written[s])
    BY DEF IInv, Good, Held
  <2>3. CASE s = t
    <3>1. outgoing'[s] = Append(outgoing[s], Bytes(written[s] + 1, n)) /\ written'[s] = written[s] + n
      BY <1>2, <1>5, <2>3
    <3>2. /\ Bytes(written[s] + 1, n) \in Seq(Nat)
          /\ Chain(Append(outgoing[s], Bytes(written[s] + 1, n)), outgoingOffset[s], written[s] + n)
      BY <2>1, <2>2, <1>3, ChainLonger
    <3>3. Append(outgoing[s], Bytes(written[s] + 1, n)) \in Seq(Seq(Nat)) /\ written[s] + n \in Nat
      BY <3>2, <2>1, <1>3
    <3> QED BY <3>1, <3>2, <3>3, <2>3, <1>1
  <2>4. CASE s # t
    BY <1>2, <1>5, <2>1, <2>2, <2>4
  <2> QED BY <2>3, <2>4
<1>7. outgoing' \in [Streams -> Seq(Seq(Nat))] /\ written' \in [Streams -> Nat]
  <2>1. outgoing' = [s \in Streams |-> outgoing'[s]] /\ written' = [s \in Streams |-> written'[s]]
    BY <1>2, <1>5
  <2> QED BY <2>1, <1>6
<1>8. Types'
  BY <1>1, <1>4, <1>7 DEF IInv, Types
<1>9. Flight'
  BY <1>1, <1>4 DEF IInv, Flight
<1>10. ASSUME NEW s \in Streams
       PROVE  Good(s)' /\ Onward(s)
  <2>0. Types /\ Good(s)
    BY DEF IInv
  <2>1. Held(s)'
    BY <1>1, <1>6, <2>0 DEF Good, Held
  <2>2. outgoingOffset'[s] \in Nat /\ outgoingOffset[s] <= outgoingOffset'[s]
    BY <1>1, <1>5
  <2>3. /\ ReadUp(s)' /\ InOrder(s)' /\ NextIsRead(s)' /\ (Clogged(s) => Clogged(s)')
        /\ readOffset[s] <= readOffset'[s] /\ Len(got[s]) <= Len(got'[s])
    BY <1>1, <2>0, <2>2, ReaderSame DEF Good
  <2>4. Somewhere(s)'
    <3>1. \A b : /\ Received(s, b)' <=> Received(s, b)
                 /\ Waits(s, b)' <=> Waits(s, b)
                 /\ UnderWay(s, b)' <=> UnderWay(s, b)
      BY <1>1 DEF Received, Waits, UnderWay
    <3> QED BY <3>1, <2>0, <1>1 DEF Good, Somewhere
  <2>5. WindowKept(s)'
    BY <1>1, <2>0 DEF Good, WindowKept
  <2>6. Endings(s)'
    BY <1>1, <1>6, <2>0 DEF Good, Endings
  <2> QED BY <1>1, <2>1, <2>3, <2>4, <2>5, <2>6 DEF Good, Onward, Lost
<1> QED BY <1>8, <1>9, <1>10 DEF IInv

\* A packet that is done with.
LEMMA SettledIs ==
  ASSUME Settled
  PROVE  /\ stage' = "none" /\ DOMAIN request'.data = {} /\ request'.closes = {} /\ IsMap(request.data, Entries)'
         /\ response'.connectionMax = 0 /\ DOMAIN response'.limits = {} /\ IsMap(response.limits, Int)'
         /\ response' = [code |-> response'.code, connectionMax |-> response'.connectionMax,
                         limits |-> response'.limits]
<1>1. /\ request' = [data |-> [s \in {} |-> Entry(<<>>, 0)], closes |-> {}, money |-> FALSE, shut |-> request.shut]
      /\ response' = [code |-> "none", connectionMax |-> 0, limits |-> [s \in {} |-> 0]] /\ stage' = "none"
  BY DEF Settled, NoRequest, NoResponse, NoLimits
<1> QED BY <1>1 DEF IsMap

\* The data of a rejected packet is to be sent again.
LEMMA UndoneIs ==
  ASSUME IInv, stage # "none", Undone, Settled, UNCHANGED <<life, status, written, outgoing, outgoingOffset, bufferVars>>
  PROVE  /\ toRetry' \in [Streams -> Seq(Entries)] /\ dropped' \subseteq Streams /\ queuedCloses' \subseteq Streams
         /\ \A s \in Streams : Held(s)' /\ Somewhere(s)' /\ Endings(s)' /\ (s \in dropped => s \in dropped')
<1>0. Types /\ Flight /\ \A s \in Streams : Good(s)
  BY DEF IInv
<1>1. /\ stage' = "none" /\ DOMAIN request'.data = {} /\ request'.closes = {}
  BY SettledIs
<1>2. /\ toRetry' = [s \in Streams |-> IF s \in DOMAIN request.data \cap Existing
                                       THEN Append(toRetry[s], request.data[s]) ELSE toRetry[s]]
      /\ dropped' = dropped \cup (DOMAIN request.data \ Existing)
      /\ queuedCloses' = queuedCloses \cup request.closes
  BY DEF Undone
<1>3. /\ life' = life /\ status' = status /\ written' = written /\ outgoing' = outgoing
      /\ outgoingOffset' = outgoingOffset /\ incoming' = incoming /\ readOffset' = readOffset
  BY DEF bufferVars
<1>4. /\ toRetry \in [Streams -> Seq(Entries)] /\ dropped \subseteq Streams /\ queuedCloses \subseteq Streams
      /\ DOMAIN request.data \subseteq Streams /\ request.closes \subseteq Streams
      /\ \A s \in DOMAIN request.data : request.data[s] \in Entries
  BY <1>0 DEF Types, IsMap
<1>5. dropped' \subseteq Streams /\ queuedCloses' \subseteq Streams
  BY <1>2, <1>4
<1>6. ASSUME NEW s \in Streams
      PROVE  /\ toRetry'[s] \in Seq(Entries)
             /\ \A i \in 1 .. Len(toRetry'[s]) : IsPiece(toRetry'[s][i], outgoingOffset[s])
             /\ \A b : Waits(s, b) => Waits(s, b)'
             /\ s \in Existing => \A b : UnderWay(s, b) => Waits(s, b)'
             /\ s \notin Existing => toRetry'[s] = toRetry[s]
  <2> DEFINE q == toRetry[s]
             e == request.data[s]
             r == toRetry'[s]
  <2>1. q \in Seq(Entries) /\ \A i \in 1 .. Len(q) : IsPiece(q[i], outgoingOffset[s])
    BY <1>0, <1>4 DEF Good, Held
  <2>2. CASE s \in DOMAIN request.data \cap Existing
    <3>1. e \in Entries /\ IsPiece(e, outgoingOffset[s]) /\ r = Append(q, e)
      BY <1>0, <1>2, <1>4, <2>2 DEF Good, Held
    <3> HIDE DEF q, e, r
    <3>2. Len(q) \in Nat
      BY <2>1
    <3>3. r \in Seq(Entries) /\ Len(r) = Len(q) + 1 /\ r[Len(q) + 1] = e /\ \A i \in 1 .. Len(q) : r[i] = q[i]
      BY <2>1, <3>1, AppendProperties
    <3>4. ASSUME NEW i \in 1 .. Len(r)
          PROVE  IsPiece(r[i], outgoingOffset[s])
      <4>1. CASE i = Len(q) + 1
        BY <3>1, <3>3, <4>1
      <4>2. CASE i # Len(q) + 1
        <5>1. i \in 1 .. Len(q)
          BY <3>2, <3>3, <4>2
        <5> QED BY <5>1, <2>1, <3>3
      <4> QED BY <4>1, <4>2
    <3>5. /\ \A i \in 1 .. Len(q) : i \in 1 .. Len(r)
          /\ Len(q) + 1 \in 1 .. Len(r)
      BY <3>2, <3>3
    <3>6. \A b : (\E i \in 1 .. Len(q) : In(q[i], b)) => \E i \in 1 .. Len(r) : In(r[i], b)
      BY <3>3, <3>5
    <3>7. \A b : In(e, b) => \E i \in 1 .. Len(r) : In(r[i], b)
      BY <3>3, <3>5
    <3> QED BY <2>2, <3>3, <3>4, <3>6, <3>7 DEF Waits, UnderWay, q, e, r
  <2>3. CASE s \notin DOMAIN request.data \cap Existing
    <3>1. r = q
      BY <1>2, <2>3
    <3>2. s \in Existing => \A b : ~ UnderWay(s, b)
      BY <2>3 DEF UnderWay
    <3> QED BY <3>1, <3>2, <2>1 DEF Waits
  <2> QED BY <2>2, <2>3
<1>7. toRetry' \in [Streams -> Seq(Entries)]
  <2>1. toRetry' = [s \in Streams |-> toRetry'[s]]
    BY <1>2
  <2> QED BY <2>1, <1>6
<1>8. ASSUME NEW s \in Streams
      PROVE  Held(s)' /\ Somewhere(s)' /\ Endings(s)' /\ (s \in dropped => s \in dropped')
  <2>1. Held(s)'
    BY <1>0, <1>1, <1>3, <1>6 DEF Good, Held
  <2>2. Somewhere(s)'
    <3> SUFFICES ASSUME s \notin dropped', NEW b \in 1 .. outgoingOffset[s]
                 PROVE  Received(s, b)' \/ Waits(s, b)'
      BY <1>1, <1>3 DEF Somewhere
    <3>1. s \notin dropped /\ (s \in DOMAIN request.data => s \in Existing)
      BY <1>2
    <3>2. Received(s, b) \/ Waits(s, b) \/ UnderWay(s, b)
      BY <3>1, <1>0 DEF Good, Somewhere
    <3>3. Received(s, b) => Received(s, b)'
      BY <1>3 DEF Received
    <3>4. UnderWay(s, b) => s \in DOMAIN request.data
      BY DEF UnderWay
    <3> QED BY <3>1, <3>2, <3>3, <3>4, <1>6
  <2>3. Endings(s)'
    <3>1. s \notin Existing <=> life[s] = "removed"
      BY DEF Existing
    <3> QED BY <1>0, <1>1, <1>2, <1>3, <1>6, <3>1 DEF Good, Endings
  <2> QED BY <2>1, <2>2, <2>3, <1>2
<1> QED BY <1>5, <1>7, <1>8

\* A packet that a connector refuses for the time being.
LEMMA TemporaryKeeps ==
  ASSUME IInv, TemporaryError
  PROVE  IInv' /\ \A s \in Streams : Onward(s)
<1>1. /\ stage = "path" /\ Settled /\ Undone
      /\ UNCHANGED <<life, status, written, outgoing, outgoingOffset, bufferVars>>
      /\ loop' = "backoff" /\ sending' = sending /\ life' = life /\ status' = status /\ written' = written
      /\ outgoingOffset' = outgoingOffset /\ remoteMaxOffset' = remoteMaxOffset
      /\ readOffset' = readOffset /\ maxOffset' = maxOffset /\ connectionMax' = connectionMax
      /\ incoming' = incoming /\ failure' = failure /\ outgoing' = outgoing
      /\ readable' = readable /\ reading' = reading /\ got' = got /\ announced' = announced
  BY DEF TemporaryError, windowVars, bufferVars, peerVars
<1>2. /\ stage' = "none" /\ DOMAIN request'.data = {} /\ request'.closes = {} /\ IsMap(request.data, Entries)'
      /\ response'.connectionMax = 0 /\ DOMAIN response'.limits = {} /\ IsMap(response.limits, Int)'
      /\ response' = [code |-> response'.code, connectionMax |-> response'.connectionMax,
                      limits |-> response'.limits]
  BY <1>1, SettledIs
<1>3. /\ toRetry' \in [Streams -> Seq(Entries)] /\ dropped' \subseteq Streams /\ queuedCloses' \subseteq Streams
      /\ \A s \in Streams : Held(s)' /\ Somewhere(s)' /\ Endings(s)' /\ (s \in dropped => s \in dropped')
  BY <1>1, UndoneIs
<1>4. Types'
  BY <1>1, <1>2, <1>3 DEF IInv, Types
<1>5. Flight'
  BY <1>2 DEF Flight
<1>6. ASSUME NEW s \in Streams
      PROVE  Good(s)' /\ Onward(s)
  <2>0. Types /\ Good(s)
    BY DEF IInv
  <2>1. outgoingOffset'[s] \in Nat /\ outgoingOffset[s] <= outgoingOffset'[s]
    BY <1>1, <2>0 DEF Types
  <2>2. /\ ReadUp(s)' /\ InOrder(s)' /\ NextIsRead(s)' /\ (Clogged(s) => Clogged(s)')
        /\ readOffset[s] <= readOffset'[s] /\ Len(got[s]) <= Len(got'[s])
    BY <1>1, <2>0, <2>1, ReaderSame DEF Good
  <2>3. WindowKept(s)'
    BY <1>1, <1>2, <2>0 DEF Good, WindowKept
  <2> QED BY <1>1, <1>3, <2>2, <2>3 DEF Good, Onward, Lost
<1> QED BY <1>4, <1>5, <1>6 DEF IInv

\* The answer to a packet.
LEMMA AnsweredKeeps ==
  ASSUME IInv, Answered
  PROVE  IInv' /\ \A s \in Streams : Onward(s)
<1>0. Types /\ Flight /\ \A s \in Streams : Good(s)
  BY DEF IInv
<1>1. /\ stage = "answered" /\ Settled /\ TakeLimits(response.limits)
      /\ UNCHANGED <<life, status, written, outgoing, outgoingOffset, bufferVars>>
      /\ life' = life /\ status' = status /\ written' = written /\ outgoingOffset' = outgoingOffset
      /\ readOffset' = readOffset /\ maxOffset' = maxOffset /\ outgoing' = outgoing
      /\ incoming' = incoming /\ failure' = failure
      /\ readable' = readable /\ reading' = reading /\ got' = got /\ announced' = announced
  BY DEF Answered, bufferVars, peerVars
<1>2. /\ stage' = "none" /\ DOMAIN request'.data = {} /\ request'.closes = {} /\ IsMap(request.data, Entries)'
      /\ response'.connectionMax = 0 /\ DOMAIN response'.limits = {} /\ IsMap(response.limits, Int)'
      /\ response' = [code |-> response'.code, connectionMax |-> response'.connectionMax,
                      limits |-> response'.limits]
  BY <1>1, SettledIs
<1>3. /\ remoteMaxOffset' \in [Streams -> Nat]
      /\ \A s \in Streams : outgoingOffset[s] <= remoteMaxOffset'[s]
                            /\ remoteMaxOffset'[s] <= Len(got[s]) + HighWaterMark
  <2>1. IsMap(response.limits, Int) /\ \A s \in DOMAIN response.limits : s \in Streams
    BY <1>0 DEF Types, IsMap
  <2>2. \A s \in DOMAIN response.limits : response.limits[s] <= Len(got[s]) + HighWaterMark
    BY <2>1, <1>0 DEF Good, WindowKept
  <2> QED BY <1>1, <2>1, <2>2, LimitsTaken
<1>4. connectionMax' \in Int
  BY <1>0, Sizes DEF Answered, TakeConnectionMax, Types
<1>5. loop' \in {"idle", "tick", "waiting", "backoff"} /\ sending' \in BOOLEAN
  <2>1. sending \in BOOLEAN
    BY <1>0 DEF Types
  <2>2. sending' \in BOOLEAN
    BY <2>1 DEF Answered
  <2> QED BY <2>2 DEF Answered, LoopOn
<1>6. /\ toRetry' \in [Streams -> Seq(Entries)] /\ dropped' \subseteq Streams /\ queuedCloses' \subseteq Streams
      /\ \A s \in Streams : Held(s)' /\ Somewhere(s)' /\ Endings(s)' /\ (s \in dropped => s \in dropped')
  <2>1. CASE response.code = "fulfill"
    <3>1. toRetry' = toRetry /\ dropped' = dropped /\ queuedCloses' = queuedCloses
      BY <2>1 DEF Answered
    <3>2. ASSUME NEW s \in Streams
          PROVE  Held(s)' /\ Somewhere(s)' /\ Endings(s)'
      <4>1. Held(s)'
        BY <1>0, <1>1, <1>2, <3>1 DEF Good, Held
      <4>2. Somewhere(s)'
        <5> SUFFICES ASSUME s \notin dropped, NEW b \in 1 .. outgoingOffset[s]
                     PROVE  Received(s, b)' \/ Waits(s, b)'
          BY <1>1, <1>2, <3>1 DEF Somewhere
        <5>1. (Received(s, b) \/ Waits(s, b) \/ UnderWay(s, b)) /\ (UnderWay(s, b) => Received(s, b))
          BY <1>0, <1>1 DEF Good, Somewhere
        <5> QED BY <5>1, <1>1, <3>1 DEF Received, Waits
      <4>3. Endings(s)'
        BY <1>0, <1>1, <1>2, <3>1 DEF Good, Endings
      <4> QED BY <4>1, <4>2, <4>3
    <3> QED BY <3>1, <3>2, <1>0 DEF Types
  <2>2. CASE response.code # "fulfill"
    <3>1. Undone /\ stage # "none"
      BY <1>1, <2>2 DEF Answered
    <3> QED BY <3>1, <1>1, UndoneIs
  <2> QED BY <2>1, <2>2
<1>7. Types'
  BY <1>0, <1>1, <1>2, <1>3, <1>4, <1>5, <1>6 DEF Types
<1>8. Flight'
  BY <1>2 DEF Flight
<1>9. ASSUME NEW s \in Streams
      PROVE  Good(s)' /\ Onward(s)
  <2>0. Types /\ Good(s)
    BY <1>0
  <2>1. outgoingOffset'[s] \in Nat /\ outgoingOffset[s] <= outgoingOffset'[s]
    BY <1>1, <2>0 DEF Types
  <2>2. /\ ReadUp(s)' /\ InOrder(s)' /\ NextIsRead(s)' /\ (Clogged(s) => Clogged(s)')
        /\ readOffset[s] <= readOffset'[s] /\ Len(got[s]) <= Len(got'[s])
    BY <1>1, <2>0, <2>1, ReaderSame DEF Good
  <2>3. WindowKept(s)'
    BY <1>1, <1>2, <1>3, <2>0 DEF Good, WindowKept
  <2> QED BY <1>1, <1>6, <2>2, <2>3 DEF Good, Onward, Lost
<1> QED BY <1>7, <1>8, <1>9 DEF IInv

\* A packet is filled.
LEMMA SendKeeps ==
  ASSUME IInv, NEW money \in BOOLEAN, loadAndSendPacket(money)
  PROVE  IInv' /\ \A s \in Streams : Onward(s)
<1>0. Types /\ Flight /\ (\A s \in Streams : Good(s)) /\ Ready /\ connectionMax \in Int
  BY DEF IInv, Good, Ready, Types
<1>1. PICK p : /\ DataFrames = p.taken /\ DOMAIN p.taken \subseteq Existing
               /\ \A s \in DOMAIN p.taken : \E size \in Nat \ {0} :
                    Offered(p.taken[s], s, size) /\ p.taken[s].frame.data # <<>>
  BY <1>0, DataFramesAre
<1> DEFINE taken == p.taken
           empty == DOMAIN taken = {} /\ queuedCloses = {} /\ ~money
<1>2. /\ loop = "tick" /\ queuedCloses' = {} /\ sending' = (sending /\ ~empty)
      /\ request' = [data |-> [s \in DOMAIN taken |-> taken[s].frame],
                     closes |-> queuedCloses, money |-> money, shut |-> Window <= Overhead]
      /\ outgoing' = [s \in Streams |-> IF s \in DOMAIN taken THEN taken[s].queue ELSE outgoing[s]]
      /\ toRetry' = [s \in Streams |-> IF s \in DOMAIN taken THEN taken[s].retry ELSE toRetry[s]]
      /\ outgoingOffset' = [s \in Streams |-> IF s \in DOMAIN taken THEN taken[s].offset
                                              ELSE outgoingOffset[s]]
      /\ (empty /\ loop' = "idle" /\ stage' = "none") \/ (loop' = "waiting" /\ stage' = "path")
  BY <1>1 DEF loadAndSendPacket
<1>3. /\ UNCHANGED bufferVars /\ life' = life /\ status' = status /\ written' = written
      /\ remoteMaxOffset' = remoteMaxOffset /\ connectionMax' = connectionMax /\ response' = response
      /\ readOffset' = readOffset /\ maxOffset' = maxOffset /\ dropped' = dropped
      /\ incoming' = incoming /\ failure' = failure /\ readable' = readable /\ reading' = reading /\ got' = got /\ announced' = announced
  BY DEF loadAndSendPacket, windowVars, bufferVars, peerVars
<1>4. stage = "none" /\ DOMAIN request.data = {}
  BY <1>0, <1>2 DEF Flight, Types
<1>5. /\ request'.data = [s \in DOMAIN taken |-> taken[s].frame] /\ DOMAIN request'.data = DOMAIN taken
      /\ request'.closes = queuedCloses /\ DOMAIN taken \subseteq Existing
  BY <1>1, <1>2
<1>6. ASSUME NEW s \in DOMAIN taken
      PROVE  /\ s \in Streams /\ life[s] # "removed" /\ request'.data[s] = taken[s].frame
             /\ outgoing'[s] = taken[s].queue /\ toRetry'[s] = taken[s].retry /\ outgoingOffset'[s] = taken[s].offset
             /\ \E size \in Nat \ {0} : Offered(taken[s], s, size)
             /\ taken[s].frame.data # <<>>
  <2>1. s \in Existing
    BY <1>5
  <2>2. s \in Streams /\ life[s] # "removed"
    BY <2>1 DEF Existing
  <2> QED BY <2>2, <1>1, <1>2, <1>5
<1> HIDE DEF taken
<1>7. ASSUME NEW s \in Streams, s \notin DOMAIN taken
      PROVE  /\ outgoing'[s] = outgoing[s] /\ toRetry'[s] = toRetry[s] /\ outgoingOffset'[s] = outgoingOffset[s]
             /\ s \notin DOMAIN request'.data
  BY <1>2, <1>5, <1>7
<1>8. ASSUME NEW s \in Streams
      PROVE  /\ outgoing'[s] \in Seq(Seq(Nat)) /\ toRetry'[s] \in Seq(Entries) /\ outgoingOffset'[s] \in Nat
             /\ outgoingOffset[s] \in Nat /\ outgoingOffset[s] <= outgoingOffset'[s]
             /\ outgoingOffset'[s] <= remoteMaxOffset[s]
             /\ s \in DOMAIN taken => taken[s].frame \in Entries
             /\ Chain(outgoing'[s], outgoingOffset'[s], written[s])
             /\ \A i \in 1 .. Len(toRetry'[s]) : IsPiece(toRetry'[s][i], outgoingOffset'[s])
             /\ s \in DOMAIN request'.data => IsPiece(request'.data[s], outgoingOffset'[s])
             /\ \A b \in 1 .. outgoingOffset'[s] :
                  Waits(s, b) \/ b > outgoingOffset[s] => Waits(s, b)' \/ UnderWay(s, b)'
             /\ life[s] = "removed" => outgoing'[s] = outgoing[s] /\ toRetry'[s] = toRetry[s]
  <2>0. /\ outgoing[s] \in Seq(Seq(Nat)) /\ toRetry[s] \in Seq(Entries) /\ outgoingOffset[s] \in Nat
        /\ remoteMaxOffset[s] \in Nat
    BY <1>0 DEF Types
  <2>1. CASE s \in DOMAIN taken
    <3> DEFINE a == taken[s]
    <3>1. PICK size \in Nat \ {0} : Offered(a, s, size) /\ a.frame.data # <<>>
      BY <1>6, <2>1
    <3>2. /\ a.queue \in Seq(Seq(Nat)) /\ Chain(a.queue, a.offset, written[s])
          /\ a.offset \in Nat /\ outgoingOffset[s] <= a.offset /\ a.offset <= remoteMaxOffset[s]
          /\ a.retry \in Seq(Entries) /\ \A i \in 1 .. Len(a.retry) : IsPiece(a.retry[i], a.offset)
          /\ IsPiece(a.frame, a.offset)
          /\ \A b \in 1 .. a.offset : Waits(s, b) \/ b > outgoingOffset[s] =>
               In(a.frame, b) \/ \E i \in 1 .. Len(a.retry) : In(a.retry[i], b)
      BY <3>1 DEF Offered
    <3>3. a.frame \in Entries
      BY <3>2 DEF IsPiece
    <3>4. /\ outgoing'[s] = a.queue /\ toRetry'[s] = a.retry /\ outgoingOffset'[s] = a.offset
          /\ request'.data[s] = a.frame /\ s \in DOMAIN request'.data /\ life[s] # "removed"
      BY <1>5, <1>6, <2>1
    <3>5. \A b \in 1 .. outgoingOffset'[s] : Waits(s, b) \/ b > outgoingOffset[s] => Waits(s, b)' \/ UnderWay(s, b)'
      <4> HIDE DEF a
      <4> QED BY <3>2, <3>4 DEF Waits, UnderWay
    <3> QED BY <2>0, <3>2, <3>3, <3>4, <3>5
  <2>2. CASE s \notin DOMAIN taken
    <3>1. \A b \in 1 .. outgoingOffset'[s] : Waits(s, b) \/ b > outgoingOffset[s] => Waits(s, b)'
      <4>1. \A b : Waits(s, b) => Waits(s, b)'
        BY <1>7, <2>2 DEF Waits
      <4>2. \A b \in 1 .. outgoingOffset'[s] : ~ (b > outgoingOffset[s])
        BY <1>7, <2>0, <2>2
      <4> QED BY <4>1, <4>2
    <3>2. outgoingOffset[s] <= remoteMaxOffset[s] /\ Chain(outgoing[s], outgoingOffset[s], written[s])
          /\ \A i \in 1 .. Len(toRetry[s]) : IsPiece(toRetry[s][i], outgoingOffset[s])
      BY <1>0 DEF Good, WindowKept, Held
    <3> QED BY <1>7, <2>0, <2>2, <3>1, <3>2
  <2> QED BY <2>1, <2>2
<1>9. Types'
  <2>1. /\ outgoing' = [s \in Streams |-> outgoing'[s]] /\ toRetry' = [s \in Streams |-> toRetry'[s]]
        /\ outgoingOffset' = [s \in Streams |-> outgoingOffset'[s]]
    BY <1>2
  <2>2. /\ outgoing' \in [Streams -> Seq(Seq(Nat))] /\ toRetry' \in [Streams -> Seq(Entries)]
        /\ outgoingOffset' \in [Streams -> Nat]
    BY <2>1, <1>8
  <2>3. IsMap(request.data, Entries)'
    <3>1. DOMAIN taken \subseteq Streams /\ \A s \in DOMAIN taken : taken[s].frame \in Entries
      BY <1>6, <1>8
    <3> QED BY <3>1, <1>5 DEF IsMap
  <2>4. request'.closes \subseteq Streams /\ queuedCloses' \subseteq Streams
    BY <1>0, <1>2, <1>5 DEF Types
  <2>5. loop' \in {"idle", "tick", "waiting", "backoff"} /\ stage' \in {"none", "path", "handling", "answered"}
        /\ sending' \in BOOLEAN
    BY <1>2, <1>0 DEF Types
  <2> QED BY <2>2, <2>3, <2>4, <2>5, <1>0, <1>3 DEF Types
<1>10. Flight'
  <2>1. stage' = "none" => DOMAIN request'.data = {} /\ request'.closes = {}
    BY <1>2, <1>5
  <2>2. stage' # "none" => loop' = "waiting"
    BY <1>2
  <2>3. request'.closes \cap DOMAIN request'.data = {}
    <3>1. \A s \in queuedCloses : s \in Streams /\ life[s] = "removed"
      BY <1>0 DEF Types, Good, Endings
    <3> QED BY <3>1, <1>5, <1>6
  <2> QED BY <2>1, <2>2, <2>3 DEF Flight
<1>11. ASSUME NEW s \in Streams
       PROVE  Good(s)' /\ Onward(s)
  <2>0. Types /\ Good(s)
    BY <1>0
  <2>1. /\ ReadUp(s)' /\ InOrder(s)' /\ NextIsRead(s)' /\ (Clogged(s) => Clogged(s)')
        /\ readOffset[s] <= readOffset'[s] /\ Len(got[s]) <= Len(got'[s])
    BY <1>3, <1>8, <2>0, ReaderSame DEF Good
  <2>2. Held(s)'
    <3>1. \A i \in 1 .. Len(incoming[s]) : IsPiece(incoming[s][i], outgoingOffset'[s])
      BY <1>8, <2>0, PieceOfMore DEF Good, Held
    <3> QED BY <3>1, <1>3, <1>8 DEF Held
  <2>3. WindowKept(s)'
    BY <1>3, <1>8, <2>0 DEF Good, WindowKept
  <2>4. Somewhere(s)'
    <3>1. stage' \notin {"handling", "answered"}
      BY <1>2
    <3> SUFFICES ASSUME s \notin dropped, NEW b \in 1 .. outgoingOffset'[s]
                 PROVE  Received(s, b)' \/ Waits(s, b)' \/ UnderWay(s, b)'
      BY <3>1, <1>3 DEF Somewhere
    <3>2. CASE b > outgoingOffset[s]
      BY <3>2, <1>8
    <3>3. CASE ~ (b > outgoingOffset[s])
      <4>1. b \in 1 .. outgoingOffset[s]
        BY <3>3, <1>8
      <4>2. Received(s, b) \/ Waits(s, b)
        BY <4>1, <1>4, <2>0 DEF Good, Somewhere, UnderWay
      <4>3. Received(s, b) => Received(s, b)'
        BY <1>3 DEF Received
      <4> QED BY <4>2, <4>3, <1>8
    <3> QED BY <3>2, <3>3
  <2>5. Endings(s)'
    <3>1. s \in DOMAIN request'.data => status[s] = "open"
      BY <1>5, <1>6, <2>0 DEF Good, Endings, Types
    <3> QED BY <3>1, <1>2, <1>3, <1>5, <1>8, <2>0 DEF Good, Endings
  <2>6. status[s] # "open" => readOffset'[s] = readOffset[s] /\ status'[s] # "open"
    BY <1>3
  <2> QED BY <1>3, <2>1, <2>2, <2>3, <2>4, <2>5, <2>6 DEF Good, Onward, Lost
<1> QED BY <1>9, <1>10, <1>11 DEF IInv

\* What is left when the front of a sequence has gone.
IsRest(q, r, n) ==
  /\ Len(q) = Len(r) - n
  /\ \A i \in 1 .. Len(q) : n + i \in 1 .. Len(r) /\ q[i] = r[n + i]
  /\ \A j \in 1 .. Len(r) : j > n => j - n \in 1 .. Len(q) /\ q[j - n] = r[j]

LEMMA DropIs ==
  ASSUME NEW S, NEW r \in Seq(S), NEW n \in 0 .. Len(r), NEW q, q = Drop(r, n)
  PROVE  q \in Seq(S) /\ IsRest(q, r, n)
<1> DEFINE L == Len(r)
<1>1. L \in Nat /\ n \in Nat /\ n <= L
  BY LenProperties
<1>2. \A i \in n + 1 .. L : r[i] \in S
  <2>1. \A i \in n + 1 .. L : i \in 1 .. L
    BY <1>1
  <2> QED BY <2>1, ElementOfSeq
<1>3. q = SubSeq(r, n + 1, L)
  BY DEF Drop
<1> HIDE DEF L
<1>4. n + 1 \in Int /\ L \in Int
  BY <1>1
<1>5. /\ q \in Seq(S) /\ Len(q) = IF n + 1 <= L THEN L - (n + 1) + 1 ELSE 0
      /\ \A i \in 1 .. L - (n + 1) + 1 : q[i] = r[(n + 1) + i - 1]
  BY <1>2, <1>3, <1>4, SubSeqProperties
<1>6. Len(q) = L - n
  BY <1>1, <1>5
<1>7. ASSUME NEW i \in 1 .. Len(q)
      PROVE  n + i \in 1 .. L /\ q[i] = r[n + i]
  <2>1. i \in 1 .. L - (n + 1) + 1 /\ (n + 1) + i - 1 = n + i /\ n + i \in 1 .. L
    BY <1>1, <1>6
  <2> QED BY <2>1, <1>5
<1>8. ASSUME NEW j \in 1 .. L, j > n
      PROVE  j - n \in 1 .. Len(q) /\ q[j - n] = r[j]
  <2>1. j - n \in 1 .. Len(q) /\ n + (j - n) = j
    BY <1>1, <1>6, <1>8
  <2> QED BY <2>1, <1>7
<1> QED BY <1>5, <1>6, <1>7, <1>8 DEF L, IsRest

\* What is in the sorter, and read, after a call of _read.
HasRead(x, r, N, o) ==
  \E m \in Nat :
    /\ x.data = Bytes(o + 1, m) /\ o + m <= N
    /\ x.entries \in Seq(Entries) /\ \A i \in 1 .. Len(x.entries) : IsPiece(x.entries[i], N)
    /\ \A i, j \in 1 .. Len(x.entries) : i < j => x.entries[i].offset <= x.entries[j].offset
    /\ (\E i \in 1 .. Len(r) : r[i].offset < o)
         => m = 0 /\ \E i \in 1 .. Len(x.entries) : x.entries[i].offset < o
    /\ \A b \in Nat : (\E i \in 1 .. Len(r) : In(r[i], b))
         => b <= o + m \/ \E i \in 1 .. Len(x.entries) : In(x.entries[i], b)

\* Entries of the sorter: pieces of the bytes that were taken, in order.
Sorted(r, N) ==
  /\ r \in Seq(Entries) /\ \A i \in 1 .. Len(r) : IsPiece(r[i], N)
  /\ \A i, j \in 1 .. Len(r) : i < j => r[i].offset <= r[j].offset

\* What is read goes on from the reader's place, the rest stays in order, and nothing is
\* forgotten.  Nothing is read only when nothing is there.
LEMMA SorterGives ==
  ASSUME NEW N \in Nat, NEW o \in Nat, o <= N, NEW size \in Int, NEW r, Sorted(r, N),
         NEW x, x = SorterRead(r, o, size)
  PROVE  HasRead(x, r, N, o) /\ (x.data = <<>> => NoneAt(x.entries, o))
<1>7. /\ r \in Seq(Entries) /\ \A i \in 1 .. Len(r) : IsPiece(r[i], N)
      /\ \A i, j \in 1 .. Len(r) : i < j => r[i].offset <= r[j].offset
  BY DEF Sorted
<1>8. IsRead(x, r, N, o, size)
  BY <1>7, SorterReads
<1>9. PICK n \in 0 .. Len(r), m \in Nat :
        /\ x.data = Bytes(o + 1, m) /\ x.entries = Drop(r, n)
        /\ \A i \in 1 .. n : o <= r[i].offset /\ EndOf(r[i]) <= o + m
        /\ n = 0 => m = 0
        /\ n # 0 => o + m <= N
        /\ \/ n = Len(r)
           \/ r[n + 1].offset # o + m
           \/ n # 0 /\ m >= size
  BY <1>8 DEF IsRead
<1> DEFINE new == x.entries
<1>10. /\ new \in Seq(Entries) /\ Len(new) = Len(r) - n
       /\ \A i \in 1 .. Len(new) : n + i \in 1 .. Len(r) /\ new[i] = r[n + i]
       /\ \A j \in 1 .. Len(r) : j > n => j - n \in 1 .. Len(new) /\ new[j - n] = r[j]
  <2>1. new \in Seq(Entries) /\ IsRest(new, r, n)
    BY <1>7, <1>9, DropIs
  <2> QED BY <2>1 DEF IsRest
<1> HIDE DEF new
<1>11. Len(r) \in Nat /\ n \in Nat /\ n <= Len(r) /\ Len(new) \in Nat
  BY <1>7, <1>10
<1>12. o + m <= N /\ o + m \in Nat
  BY <1>9
<1>13. \A i \in 1 .. Len(new) : IsPiece(new[i], N)
  BY <1>7, <1>10
<1>15. ASSUME NEW i \in 1 .. Len(new), NEW j \in 1 .. Len(new), i < j
       PROVE  new[i].offset <= new[j].offset
  <2>1. n + i \in 1 .. Len(r) /\ n + j \in 1 .. Len(r) /\ n + i < n + j
    BY <1>10, <1>11, <1>15
  <2> QED BY <2>1, <1>7, <1>10
<1>16. ASSUME x.data = <<>> PROVE NoneAt(new, o)
  <2>1. m = 0
    <3>1. o + 1 \in Nat
      OBVIOUS
    <3>2. Len(Bytes(o + 1, m)) = m
      BY <3>1, BytesAre
    <3> QED BY <3>2, <1>9, <1>16
  <2>2. n = 0
    <3> SUFFICES ASSUME n # 0 PROVE FALSE
      OBVIOUS
    <3>1. 1 \in 1 .. n /\ 1 \in 1 .. Len(r)
      BY <1>11
    <3>2. IsPiece(r[1], N)
      BY <3>1, <1>7
    <3>3. r[1].offset \in Nat /\ EndOf(r[1]) \in Nat /\ r[1].offset < EndOf(r[1])
      BY <3>2, PieceIs
    <3>4. o <= r[1].offset /\ EndOf(r[1]) <= o + m
      BY <3>1, <1>9
    <3> QED BY <3>3, <3>4, <2>1
  <2>3. n = Len(r) => new = <<>>
    BY <2>2, <1>10, <1>11, EmptySeq
  <2>4. new # <<>> => 1 \in 1 .. Len(new)
    BY <1>10, <1>11, EmptySeq
  <2>5. new # <<>> => new[1] = r[n + 1]
    BY <2>4, <1>10
  <2>6. o + m = o
    BY <2>1
  <2> QED BY <2>2, <2>3, <2>5, <2>6, <1>9 DEF NoneAt
<1>17. ASSUME \E i \in 1 .. Len(r) : r[i].offset < o
       PROVE  m = 0 /\ \E i \in 1 .. Len(new) : new[i].offset < o
  <2>1. PICK i \in 1 .. Len(r) : r[i].offset < o
    BY <1>17
  <2>2. n = 0
    <3> SUFFICES ASSUME n # 0 PROVE FALSE
      OBVIOUS
    <3>1. 1 \in 1 .. n /\ 1 \in 1 .. Len(r)
      BY <1>11
    <3>2. o <= r[1].offset /\ r[1].offset <= r[i].offset
      <4>1. i = 1 \/ 1 < i
        OBVIOUS
      <4>2. r[1].offset \in Nat
        BY <3>1, <1>7, PieceIs
      <4> QED BY <3>1, <4>1, <4>2, <1>7, <1>9
    <3>3. r[1].offset \in Nat /\ r[i].offset \in Nat
      BY <3>1, <1>7, PieceIs
    <3> QED BY <3>2, <3>3, <2>1
  <2>3. i > n /\ i - n = i
    BY <2>2
  <2>4. i \in 1 .. Len(new) /\ new[i] = r[i]
    BY <2>3, <1>10
  <2> QED BY <2>1, <2>2, <2>4, <1>9
<1>18. ASSUME NEW b \in Nat, \E i \in 1 .. Len(r) : In(r[i], b)
       PROVE  b <= o + m \/ \E i \in 1 .. Len(new) : In(new[i], b)
  <2>1. PICK j \in 1 .. Len(r) : In(r[j], b)
    BY <1>18
  <2>2. CASE j > n
    BY <2>1, <2>2, <1>10
  <2>3. CASE ~ (j > n)
    <3>1. j \in 1 .. n
      BY <2>3, <1>11
    <3>2. EndOf(r[j]) <= o + m /\ b <= EndOf(r[j]) /\ EndOf(r[j]) \in Nat
      BY <2>1, <3>1, <1>7, <1>9, PieceIs DEF In
    <3> QED BY <3>2, <1>12
  <2> QED BY <2>2, <2>3
<1>19. HasRead(x, r, N, o)
  BY <1>9, <1>10, <1>12, <1>13, <1>15, <1>17, <1>18 DEF HasRead, new
<1> QED BY <1>16, <1>19 DEF new

\* What is in a stream's sorter.
LEMMA SorterIs ==
  ASSUME IInv, NEW s \in Streams
  PROVE  /\ outgoingOffset[s] \in Nat /\ readOffset[s] \in Nat /\ readOffset[s] <= outgoingOffset[s]
         /\ Sorted(incoming[s], outgoingOffset[s])
         /\ Clogged(s) <=> \E i \in 1 .. Len(incoming[s]) : incoming[s][i].offset < readOffset[s]
<1>1. /\ outgoingOffset[s] \in Nat /\ readOffset[s] \in Nat /\ readOffset[s] <= outgoingOffset[s]
      /\ incoming[s] \in Seq(Entries)
  BY DEF IInv, Types, Good, ReadUp
<1>2. Sorted(incoming[s], outgoingOffset[s])
  BY <1>1 DEF IInv, Good, Held, InOrder, Sorted
<1>3. DOMAIN incoming[s] = 1 .. Len(incoming[s])
  BY <1>1, LenProperties
<1> QED BY <1>1, <1>2, <1>3 DEF Clogged

\* ... and what Node's call of _read gets of it.
LEMMA MoreIs ==
  ASSUME IInv, NEW s \in Streams
  PROVE  HasRead(More(s), incoming[s], outgoingOffset[s], readOffset[s])
<1> DEFINE N == outgoingOffset[s]
           o == readOffset[s]
           r == incoming[s]
           x == More(s)
<1>1. N \in Nat /\ o \in Nat /\ o <= N /\ Sorted(r, N)
  BY SorterIs
<1>2. x = SorterRead(r, o, HighWaterMark) /\ HighWaterMark \in Int
  BY Sizes DEF More
<1> HIDE DEF N, o, r, x
<1>3. HasRead(x, r, N, o)
  BY <1>1, <1>2, SorterGives
<1> QED BY <1>3 DEF N, o, r, x

\* The data of a packet is among the entries that _pushIncomingData reads.
LEMMA PushedIs ==
  ASSUME IInv, NEW s \in Streams, s \in DOMAIN request.data
  PROVE  LET r == SorterPush(incoming[s], request.data[s])
         IN  /\ HasRead(Pushed(s), r, outgoingOffset[s], readOffset[s])
             /\ Pushed(s).data = <<>> => NoneAt(Pushed(s).entries, readOffset[s])
             /\ IsPushed(r, incoming[s], request.data[s])
<1> DEFINE N == outgoingOffset[s]
           o == readOffset[s]
           q == incoming[s]
           e == request.data[s]
           r == SorterPush(q, e)
           size == HighWaterMark - (Len(readable[s]) + ByteLength(r, o))
           x == Pushed(s)
<1>1. N \in Nat /\ o \in Nat /\ o <= N /\ Sorted(q, N)
  BY SorterIs
<1>2. e \in Entries /\ IsPiece(e, N)
  BY DEF IInv, Types, IsMap, Good, Held
<1>3. Len(readable[s]) \in Nat
  <2>1. readable[s] \in Seq(Nat)
    BY DEF IInv, Types
  <2> QED BY <2>1, LenProperties
<1>4. x = SorterRead(r, o, size)
  BY DEF Pushed
<1> HIDE DEF N, o, q, e, x
<1>5. IsPushed(r, q, e)
  BY <1>1, <1>2, SorterPushes DEF Sorted
<1>6. Sorted(r, N)
  BY <1>1, <1>2, <1>5 DEF Sorted, IsPushed
<1>7. ByteLength(r, o) \in Nat
  <2> HIDE DEF r
  <2> QED BY <1>1, <1>6, SorterHas DEF Sorted
<1>8. size \in Int
  <2> DEFINE a == Len(readable[s])
             b == ByteLength(r, o)
  <2>1. a \in Nat /\ b \in Nat
    BY <1>3, <1>7
  <2> HIDE DEF a, b
  <2>2. HighWaterMark - (a + b) \in Int
    BY <2>1, Sizes
  <2> QED BY <2>2 DEF a, b
<1>9. HasRead(x, r, N, o) /\ (x.data = <<>> => NoneAt(x.entries, o))
  <2> HIDE DEF r, size
  <2> QED BY <1>1, <1>4, <1>6, <1>8, SorterGives
<1> QED BY <1>5, <1>9 DEF N, o, q, e, x

\* Where data goes that was read: to Node's buffer, to a reader with a 'data' handler, or to one
\* that takes the buffer with it.
GoesTo(s, data) ==
  \/ s \notin Flowing /\ readable'[s] = readable[s] \o data /\ got'[s] = got[s]
  \/ s \in Flowing /\ readable'[s] = readable[s] /\ got'[s] = got[s] \o data
  \/ s \notin Flowing /\ readable'[s] = <<>> /\ got'[s] = got[s] \o readable[s] \o data

\* What the reader has then.
LEMMA GoesOn ==
  ASSUME IInv, NEW s \in Streams, NEW m \in Nat, GoesTo(s, Bytes(readOffset[s] + 1, m))
  PROVE  /\ readable'[s] \in Seq(Nat) /\ got'[s] \in Seq(Nat) /\ Len(got[s]) <= Len(got'[s])
         /\ got'[s] = Bytes(1, Len(got'[s]))
         /\ readable'[s] = Bytes(Len(got'[s]) + 1, Len(readable'[s]))
         /\ Len(got'[s]) + Len(readable'[s]) = readOffset[s] + m
         /\ s \in Flowing => readable'[s] = <<>>
<1> DEFINE g == got[s]
           r == readable[s]
           k == Len(g)
           d == Len(r)
           o == readOffset[s]
           data == Bytes(o + 1, m)
           h == got'[s]
           q == readable'[s]
<1>1. /\ g \in Seq(Nat) /\ r \in Seq(Nat) /\ o \in Nat
      /\ g = Bytes(1, k) /\ r = Bytes(k + 1, d) /\ k + d = o
      /\ s \in Flowing => r = <<>>
  BY DEF IInv, Types, Good, ReadUp
<1>2. k \in Nat /\ d \in Nat
  BY <1>1, LenProperties
<1>3. \/ s \notin Flowing /\ q = r \o data /\ h = g
      \/ s \in Flowing /\ q = r /\ h = g \o data
      \/ s \notin Flowing /\ q = <<>> /\ h = g \o r \o data
  BY DEF GoesTo
<1> HIDE DEF g, r, k, d, o, data, h, q
<1>4. /\ 1 \in Nat /\ k + 1 \in Nat /\ o + 1 \in Nat /\ 1 + k = k + 1 /\ 1 + o = o + 1 /\ (k + 1) + d = o + 1
      /\ d + m \in Nat /\ o + m \in Nat /\ k + (d + m) = o + m /\ k <= o + m /\ k <= k /\ o + m + 1 \in Nat
  BY <1>1, <1>2
<1>5. data = Bytes(o + 1, m)
  BY DEF data
<1>6. /\ h \in Seq(Nat) /\ q \in Seq(Nat) /\ k <= Len(h)
      /\ h = Bytes(1, Len(h)) /\ q = Bytes(Len(h) + 1, Len(q))
      /\ Len(h) + Len(q) = o + m
      /\ s \in Flowing => q = <<>>
  <2>1. CASE s \notin Flowing /\ q = r \o data /\ h = g
    <3> DEFINE c == d + m
    <3>1. q = Bytes(k + 1, c)
      <4>1. Bytes(k + 1, d) \o Bytes((k + 1) + d, m) = Bytes(k + 1, d + m)
        <5>1. k + 1 \in Nat /\ d \in Nat /\ m \in Nat
          BY <1>2, <1>4
        <5> QED BY ONLY <5>1, BytesJoin
      <4> QED BY <4>1, <2>1, <1>1, <1>4, <1>5
    <3>2. c \in Nat /\ k + c = o + m
      BY <1>4
    <3> HIDE DEF c
    <3>3. Len(q) = c /\ q \in Seq(Nat)
      BY <3>1, <3>2, <1>4, BytesAre
    <3>4. Len(h) = k
      BY <2>1 DEF k
    <3> QED BY <3>1, <3>2, <3>3, <3>4, <2>1, <1>1, <1>4
  <2>2. CASE s \in Flowing /\ q = r /\ h = g \o data
    <3>1. r = <<>> /\ d = 0
      BY <2>2, <1>1 DEF d
    <3>2. k = o
      BY <3>1, <1>1, <1>2
    <3> DEFINE c == o + m
    <3>3. h = Bytes(1, c)
      <4>1. Bytes(1, o) \o Bytes(1 + o, m) = Bytes(1, o + m)
        <5>1. 1 \in Nat /\ o \in Nat /\ m \in Nat
          BY <1>1
        <5> QED BY ONLY <5>1, BytesJoin
      <4> QED BY <4>1, <3>2, <2>2, <1>1, <1>4, <1>5
    <3>4. c \in Nat /\ c + 0 = o + m /\ c + 1 \in Nat /\ k <= c
      BY <1>4
    <3> HIDE DEF c
    <3>5. Len(h) = c /\ h \in Seq(Nat)
      BY <3>3, <3>4, BytesAre
    <3>6. q = <<>> /\ Len(q) = 0 /\ q = Bytes(c + 1, 0) /\ q \in Seq(Nat)
      BY <3>1, <3>4, <2>2, NoBytes
    <3> QED BY <3>3, <3>4, <3>5, <3>6, <2>2
  <2>3. CASE s \notin Flowing /\ q = <<>> /\ h = g \o r \o data
    <3> DEFINE c == o + m
    <3>1. g \o r = Bytes(1, o)
      <4>1. Bytes(1, k) \o Bytes(1 + k, d) = Bytes(1, k + d)
        <5>1. 1 \in Nat /\ k \in Nat /\ d \in Nat
          BY <1>2
        <5> QED BY ONLY <5>1, BytesJoin
      <4> QED BY <4>1, <1>1, <1>4
    <3>2. h = Bytes(1, c)
      <4>1. Bytes(1, o) \o Bytes(1 + o, m) = Bytes(1, o + m)
        <5>1. 1 \in Nat /\ o \in Nat /\ m \in Nat
          BY <1>1
        <5> QED BY ONLY <5>1, BytesJoin
      <4> QED BY <4>1, <3>1, <2>3, <1>4, <1>5
    <3>4. c \in Nat /\ c + 0 = o + m /\ c + 1 \in Nat /\ k <= c
      BY <1>4
    <3> HIDE DEF c
    <3>5. Len(h) = c /\ h \in Seq(Nat)
      BY <3>2, <3>4, BytesAre
    <3>6. q = <<>> /\ Len(q) = 0 /\ q = Bytes(c + 1, 0) /\ q \in Seq(Nat)
      BY <3>4, <2>3, NoBytes
    <3> QED BY <3>2, <3>4, <3>5, <3>6, <2>3
  <2> QED BY <2>1, <2>2, <2>3, <1>3
<1> QED BY <1>6 DEF g, k, o, h, q

\* What reading does to a stream.
Reads(s) ==
  /\ incoming'[s] \in Seq(Entries) /\ readOffset'[s] \in Nat /\ maxOffset'[s] \in Nat
  /\ readable'[s] \in Seq(Nat) /\ got'[s] \in Seq(Nat)
  /\ \A i \in 1 .. Len(incoming'[s]) : IsPiece(incoming'[s][i], outgoingOffset[s])
  /\ ReadUp(s)' /\ InOrder(s)' /\ (Clogged(s) => Clogged(s)')
  /\ readOffset[s] <= readOffset'[s] /\ Len(got[s]) <= Len(got'[s])
  /\ \A b \in Nat : Received(s, b) => Received(s, b)'

LEMMA StreamReads ==
  ASSUME IInv, NEW s \in Streams, NEW r, NEW x, HasRead(x, r, outgoingOffset[s], readOffset[s]),
         \A i \in 1 .. Len(incoming[s]) : \E j \in 1 .. Len(r) : r[j] = incoming[s][i],
         incoming'[s] = x.entries, readOffset'[s] = readOffset[s] + Len(x.data), GoesTo(s, x.data),
         maxOffset'[s] \in Nat, maxOffset'[s] <= outgoingOffset[s], outgoingOffset' = outgoingOffset
  PROVE  /\ Reads(s)
         /\ x.data = <<>> => readOffset'[s] = readOffset[s]
         /\ \A b \in Nat : (\E j \in 1 .. Len(r) : In(r[j], b)) => Received(s, b)'
<1> DEFINE o == readOffset[s]
           N == outgoingOffset[s]
           q == incoming[s]
           new == x.entries
<1>1. o \in Nat /\ N \in Nat /\ o <= N /\ (Clogged(s) <=> \E i \in 1 .. Len(q) : q[i].offset < o)
  BY SorterIs
<1>2. PICK m \in Nat :
        /\ x.data = Bytes(o + 1, m) /\ o + m <= N
        /\ new \in Seq(Entries) /\ \A i \in 1 .. Len(new) : IsPiece(new[i], N)
        /\ \A i, j \in 1 .. Len(new) : i < j => new[i].offset <= new[j].offset
        /\ (\E i \in 1 .. Len(r) : r[i].offset < o)
             => m = 0 /\ \E i \in 1 .. Len(new) : new[i].offset < o
        /\ \A b \in Nat : (\E i \in 1 .. Len(r) : In(r[i], b))
             => b <= o + m \/ \E i \in 1 .. Len(new) : In(new[i], b)
  BY DEF HasRead
<1>3. Len(x.data) = m
  <2>1. o + 1 \in Nat
    BY <1>1
  <2> QED BY <2>1, <1>2, BytesAre
<1>4. readOffset'[s] = o + m /\ incoming'[s] = new
  BY <1>3
<1>5. GoesTo(s, Bytes(o + 1, m))
  BY <1>2
<1>6. /\ readable'[s] \in Seq(Nat) /\ got'[s] \in Seq(Nat) /\ Len(got[s]) <= Len(got'[s])
      /\ got'[s] = Bytes(1, Len(got'[s]))
      /\ readable'[s] = Bytes(Len(got'[s]) + 1, Len(readable'[s]))
      /\ Len(got'[s]) + Len(readable'[s]) = o + m
      /\ s \in Flowing => readable'[s] = <<>>
  BY <1>5, GoesOn
<1> HIDE DEF new
<1>7. DOMAIN new = 1 .. Len(new) /\ DOMAIN incoming'[s] = 1 .. Len(new)
  BY <1>2, <1>4, LenProperties
<1>8. Clogged(s) => Clogged(s)'
  <2> SUFFICES ASSUME Clogged(s) PROVE Clogged(s)'
    OBVIOUS
  <2>1. PICK i \in 1 .. Len(q) : q[i].offset < o
    BY <1>1
  <2>2. \E j \in 1 .. Len(r) : r[j].offset < o
    BY <2>1
  <2>3. m = 0 /\ \E j \in 1 .. Len(new) : new[j].offset < o
    BY <2>2, <1>2
  <2>4. o + m = o
    BY <2>3, <1>1
  <2> QED BY <2>3, <2>4, <1>4, <1>7 DEF Clogged
<1> HIDE DEF o, N
<1>9. \A b \in Nat : (\E j \in 1 .. Len(r) : In(r[j], b)) => Received(s, b)'
  BY <1>2, <1>4 DEF Received
<1>10. \A b \in Nat : Received(s, b) => Received(s, b)'
  <2> SUFFICES ASSUME NEW b \in Nat, Received(s, b) PROVE Received(s, b)'
    OBVIOUS
  <2>1. CASE b <= o
    <3>1. b <= o + m
      BY <2>1, <1>1
    <3> QED BY <3>1, <1>4 DEF Received
  <2>2. CASE \E i \in 1 .. Len(q) : In(q[i], b)
    BY <2>2, <1>9
  <2> QED BY <2>1, <2>2 DEF Received, o
<1>11. ReadUp(s)'
  <2>1. readOffset'[s] <= outgoingOffset'[s] /\ maxOffset'[s] <= outgoingOffset'[s]
    BY <1>2, <1>4 DEF N
  <2> QED BY <2>1, <1>4, <1>6 DEF ReadUp
<1>12. InOrder(s)'
  BY <1>2, <1>4 DEF InOrder
<1>13. readOffset'[s] \in Nat /\ o <= readOffset'[s]
  BY <1>1, <1>4
<1>14. x.data = <<>> => readOffset'[s] = o
  BY <1>1, <1>3, <1>4
<1> QED BY <1>2, <1>4, <1>6, <1>8, <1>9, <1>10, <1>11, <1>12, <1>13, <1>14 DEF Reads, o, N

\* A stream of which nothing is read.
LEMMA StreamRests ==
  ASSUME IInv, NEW s \in Streams, outgoingOffset' = outgoingOffset,
         incoming'[s] = incoming[s], readOffset'[s] = readOffset[s], maxOffset'[s] = maxOffset[s],
         readable'[s] = readable[s], got'[s] = got[s]
  PROVE  Reads(s)
<1>1. Types /\ Good(s)
  BY DEF IInv
<1>2. /\ incoming[s] \in Seq(Entries) /\ readOffset[s] \in Nat /\ maxOffset[s] \in Nat
      /\ readable[s] \in Seq(Nat) /\ got[s] \in Seq(Nat) /\ Len(got[s]) \in Nat
  BY <1>1 DEF Types
<1>3. ReadUp(s)' /\ InOrder(s)' /\ (Clogged(s)' <=> Clogged(s))
  BY <1>1 DEF Good, ReadUp, InOrder, Clogged
<1>4. \A b \in Nat : Received(s, b) => Received(s, b)'
  BY DEF Received
<1> QED BY <1>1, <1>2, <1>3, <1>4 DEF Good, Held, Reads

\* A stream whose buffer is full has nothing left that goes on: the sender has not been told that
\* it may send more.
LEMMA FullHasAll ==
  ASSUME IInv, NEW s \in Streams, Full(s)
  PROVE  NoneAt(incoming[s], readOffset[s])
<1> SUFFICES ASSUME incoming[s] # <<>>, incoming[s][1].offset = readOffset[s] PROVE FALSE
  BY DEF NoneAt
<1> DEFINE g == Len(got[s])
           d == Len(readable[s])
           o == readOffset[s]
           w == remoteMaxOffset[s]
           N == outgoingOffset[s]
           e == incoming[s][1]
<1>1. incoming[s] \in Seq(Entries) /\ got[s] \in Seq(Nat) /\ readable[s] \in Seq(Nat)
      /\ o \in Nat /\ w \in Nat /\ N \in Nat
  BY DEF IInv, Types
<1>2. g \in Nat /\ d \in Nat /\ 1 \in 1 .. Len(incoming[s])
  BY <1>1, EmptySeq
<1>3. g + d = o /\ N <= w /\ w <= g + HighWaterMark
  BY DEF IInv, Good, ReadUp, WindowKept
<1>4. d >= HighWaterMark
  BY DEF Full
<1>5. IsPiece(e, N)
  BY <1>2 DEF IInv, Good, Held
<1>6. e.offset \in Nat /\ EndOf(e) \in Nat /\ e.offset < EndOf(e) /\ EndOf(e) <= N /\ e.offset = o
  BY <1>1, <1>5, PieceIs
<1> HIDE DEF g, d, o, w, N, e
<1> QED BY <1>1, <1>2, <1>3, <1>4, <1>6, Sizes

\* Nothing waits for a call of _read.
LEMMA NoneIsDue ==
  ASSUME IInv, NEW s \in Streams, ~ Due(s)
  PROVE  NoneAt(incoming[s], readOffset[s])
<1>1. Types /\ Held(s) /\ NextIsRead(s)
  BY DEF IInv, Good
<1>2. Left(s) <=> ~ NoneAt(incoming[s], readOffset[s])
  BY <1>1, LengthIs
<1>3. CASE Full(s)
  BY <1>3, FullHasAll
<1> QED BY <1>1, <1>2, <1>3 DEF Due, NextIsRead

\* Streams that are read from keep the invariant, and so does a packet whose data they get.
LEMMA ReadingKeeps ==
  ASSUME IInv, /\ queuedCloses' = queuedCloses /\ life' = life /\ written' = written /\ outgoing' = outgoing
               /\ toRetry' = toRetry /\ outgoingOffset' = outgoingOffset /\ remoteMaxOffset' = remoteMaxOffset
               /\ announced' = announced /\ dropped' = dropped /\ request' = request
               /\ response'.limits = response.limits,
         NEW s \in Streams, Reads(s), NextIsRead(s)',
         \/ stage' = stage
         \/ stage = "path" /\ stage' = "handling" /\ \A b \in Nat : UnderWay(s, b) => Received(s, b)',
         status'[s] # "open" => status[s] # "open" \/ s \in request.closes,
         status'[s] # "open" => NoneAt(incoming[s], readOffset[s]),
         status[s] # "open" => readOffset'[s] = readOffset[s] /\ status'[s] # "open"
  PROVE  Keeps(s)
<1>0. Types /\ Flight /\ Good(s)
  BY DEF IInv
<1>1. /\ readOffset[s] \in Nat /\ outgoingOffset[s] \in Nat /\ remoteMaxOffset[s] \in Nat
      /\ Len(got[s]) \in Nat
      /\ s \in DOMAIN response.limits => response.limits[s] \in Int
      /\ s \in DOMAIN announced => announced[s] \in Int
  BY <1>0 DEF Types, IsMap
<1>2. /\ \A i \in 1 .. Len(incoming'[s]) : IsPiece(incoming'[s][i], outgoingOffset[s])
      /\ ReadUp(s)' /\ InOrder(s)' /\ (Clogged(s) => Clogged(s)')
      /\ readOffset[s] <= readOffset'[s] /\ Len(got[s]) <= Len(got'[s])
      /\ \A b \in Nat : Received(s, b) => Received(s, b)'
      /\ got'[s] \in Seq(Nat)
  BY DEF Reads
<1>3. Held(s)'
  BY <1>0, <1>2 DEF Good, Held
<1>4. WindowKept(s)'
  <2>1. \A x \in Int : x <= Len(got[s]) + HighWaterMark => x <= Len(got'[s]) + HighWaterMark
    <3> DEFINE g == Len(got[s])
               h == Len(got'[s])
    <3>1. g \in Nat /\ h \in Nat /\ g <= h
      BY <1>1, <1>2
    <3> HIDE DEF g, h
    <3>2. \A x \in Int : x <= g + HighWaterMark => x <= h + HighWaterMark
      BY <3>1, Sizes
    <3> QED BY <3>2 DEF g, h
  <2> QED BY <1>0, <1>1, <2>1 DEF Good, WindowKept
<1>5. Somewhere(s)'
  <2>1. \A b : (Waits(s, b) => Waits(s, b)') /\ (UnderWay(s, b)' <=> UnderWay(s, b))
    BY DEF Waits, UnderWay
  <2>2. \A b \in 1 .. outgoingOffset[s] : b \in Nat
    OBVIOUS
  <2> SUFFICES ASSUME s \notin dropped, NEW b \in 1 .. outgoingOffset[s]
               PROVE  /\ Received(s, b)' \/ Waits(s, b)' \/ UnderWay(s, b)'
                      /\ stage' \in {"handling", "answered"} => (UnderWay(s, b)' => Received(s, b)')
    BY DEF Somewhere
  <2>3. Received(s, b) \/ Waits(s, b) \/ UnderWay(s, b)
    BY <1>0 DEF Good, Somewhere
  <2>4. Received(s, b) => Received(s, b)'
    BY <2>2, <1>2
  <2>5. stage' \in {"handling", "answered"} => (UnderWay(s, b) => Received(s, b)')
    <3>1. CASE stage' = stage
      <4>1. stage \in {"handling", "answered"} => (UnderWay(s, b) => Received(s, b))
        BY <1>0 DEF Good, Somewhere
      <4> QED BY <4>1, <3>1, <2>4
    <3>2. CASE \A c \in Nat : UnderWay(s, c) => Received(s, c)'
      BY <3>2, <2>2
    <3> QED BY <3>1, <3>2
  <2> QED BY <2>1, <2>3, <2>4, <2>5
<1>6. s \in request.closes => life[s] = "removed" /\ s \notin DOMAIN request.data
  BY <1>0 DEF Flight, Good, Endings
<1>7. Endings(s)'
  <2>1. s \in DOMAIN request.data => status'[s] = "open"
    BY <1>6, <1>0 DEF Good, Endings
  <2> QED BY <1>0, <1>6, <2>1 DEF Good, Endings
<1> QED BY <1>2, <1>3, <1>4, <1>5, <1>6, <1>7 DEF Good, Keeps, Onward, Lost

\* What Give gives a stream.
LEMMA GiveIs ==
  ASSUME NEW reads, Give(reads), NEW s \in Streams
  PROVE  /\ s \in DOMAIN reads =>
              /\ incoming'[s] = reads[s].entries /\ readOffset'[s] = readOffset[s] + Len(reads[s].data)
              /\ GoesTo(s, reads[s].data)
              /\ reads[s].data = <<>> => reading'[s] = reading[s]
              /\ reads[s].data # <<>> => (reading'[s] <=> Rests(s)')
         /\ s \notin DOMAIN reads =>
              /\ incoming'[s] = incoming[s] /\ readOffset'[s] = readOffset[s]
              /\ readable'[s] = readable[s] /\ got'[s] = got[s] /\ (reading'[s] = reading[s])
<1>1. /\ incoming'[s] = IF s \in DOMAIN reads THEN reads[s].entries ELSE incoming[s]
      /\ readOffset'[s] = IF s \in DOMAIN reads THEN readOffset[s] + Len(reads[s].data) ELSE readOffset[s]
      /\ readable'[s] = IF s \in DOMAIN reads \ Flowing THEN readable[s] \o reads[s].data ELSE readable[s]
      /\ got'[s] = IF s \in DOMAIN reads \cap Flowing THEN got[s] \o reads[s].data ELSE got[s]
  BY DEF Give
<1>2. reading'[s] = IF s \in DOMAIN reads /\ reads[s].data # <<>> THEN Rests(s)' ELSE reading[s]
  BY Zenon DEF Give
<1> QED BY <1>1, <1>2 DEF GoesTo

\* Its types.
LEMMA GiveTypes ==
  ASSUME IInv, NEW reads, Give(reads), \A s \in Streams : Reads(s)
  PROVE  /\ incoming' \in [Streams -> Seq(Entries)] /\ readOffset' \in [Streams -> Nat]
         /\ readable' \in [Streams -> Seq(Nat)] /\ got' \in [Streams -> Seq(Nat)]
         /\ reading' \in [Streams -> BOOLEAN]
<1>1. /\ incoming' = [s \in Streams |-> incoming'[s]] /\ readOffset' = [s \in Streams |-> readOffset'[s]]
      /\ readable' = [s \in Streams |-> readable'[s]] /\ got' = [s \in Streams |-> got'[s]]
  BY DEF Give
<1>2. \A s \in Streams : /\ incoming'[s] \in Seq(Entries) /\ readOffset'[s] \in Nat
                         /\ readable'[s] \in Seq(Nat) /\ got'[s] \in Seq(Nat)
  BY DEF Reads
<1>3. reading' \in [Streams -> BOOLEAN]
  <2>1. reading' = [s \in Streams |-> IF s \in DOMAIN reads /\ reads[s].data # <<>> THEN Rests(s)' ELSE reading[s]]
    BY Zenon DEF Give
  <2>2. \A s \in Streams : (IF s \in DOMAIN reads /\ reads[s].data # <<>> THEN Rests(s)' ELSE reading[s]) \in BOOLEAN
    <3>1. \A s \in Streams : reading[s] \in BOOLEAN
      BY DEF IInv, Types
    <3>2. \A s : Rests(s)' \in BOOLEAN
      BY Zenon DEF Rests
    <3> QED BY <3>1, <3>2
  <2> QED BY <2>1, <2>2
<1> QED BY <1>1, <1>2, <1>3

\* A stream of which _read has found nothing more.
LEMMA RestsIsRead ==
  ASSUME NEW s \in Streams, Types, Reads(s), outgoingOffset' = outgoingOffset,
         reading'[s] => Rests(s)', status'[s] = "open"
  PROVE  NextIsRead(s)'
<1>1. /\ incoming'[s] \in Seq(Entries) /\ readOffset'[s] \in Nat /\ outgoingOffset[s] \in Nat
      /\ \A i \in 1 .. Len(incoming'[s]) : IsPiece(incoming'[s][i], outgoingOffset[s])
  BY DEF Types, Reads
<1>2. ByteLength(incoming'[s], readOffset'[s]) > 0 <=> ~ NoneAt(incoming'[s], readOffset'[s])
  BY <1>1, SorterHas
<1> QED BY <1>2 DEF Rests, Left, NextIsRead

\* A call that does not come to _read.
LEMMA NothingRead ==
  ASSUME IInv, NEW s \in Streams, NEW x, x.data = <<>>, x.entries = incoming[s]
  PROVE  HasRead(x, incoming[s], outgoingOffset[s], readOffset[s])
<1> DEFINE N == outgoingOffset[s]
           o == readOffset[s]
           r == incoming[s]
<1>1. N \in Nat /\ o \in Nat /\ o <= N /\ Sorted(r, N)
  BY SorterIs
<1>2. x.entries = r
  OBVIOUS
<1> HIDE DEF N, o, r
<1>3. 0 \in Nat /\ x.data = Bytes(o + 1, 0) /\ o + 0 = o
  BY <1>1, NoBytes
<1>4. HasRead(x, r, N, o)
  BY <1>1, <1>2, <1>3 DEF HasRead, Sorted
<1> QED BY <1>4 DEF N, o, r

\* A stream whose data is the packet's.
LEMMA DataArrives ==
  ASSUME IInv, Arrive, NEW s \in Arriving
  PROVE  /\ Reads(s) /\ NextIsRead(s)' /\ \A b \in Nat : UnderWay(s, b) => Received(s, b)'
<1>1. /\ s \in Streams /\ status[s] = "open" /\ s \in DOMAIN request.data
      /\ outgoingOffset' = outgoingOffset /\ request' = request
  <2>1. DOMAIN request.data \subseteq Streams
    BY DEF IInv, Types, IsMap
  <2> QED BY <2>1 DEF Arriving, Arrive, queueVars, loopVars
<1>2. Types /\ Good(s) /\ Flight
  BY <1>1 DEF IInv
<1> DEFINE e == request.data[s]
           q == incoming[s]
           r == SorterPush(q, e)
           x == Pushed(s)
           reads == [t \in Arriving |-> Pushed(t)]
<1>3. /\ HasRead(x, r, outgoingOffset[s], readOffset[s])
      /\ x.data = <<>> => NoneAt(x.entries, readOffset[s])
      /\ IsPushed(r, q, e)
  BY <1>1, PushedIs
<1>4. Give(reads)
  BY DEF Arrive
<1>5. DOMAIN reads = Arriving /\ reads[s] = x
  OBVIOUS
<1>6. /\ incoming'[s] = x.entries /\ readOffset'[s] = readOffset[s] + Len(x.data)
      /\ GoesTo(s, x.data)
      /\ x.data = <<>> => reading'[s] = reading[s]
      /\ x.data # <<>> => (reading'[s] <=> Rests(s)')
  <2> HIDE DEF x, reads
  <2> QED BY <1>1, <1>4, <1>5, GiveIs
<1>7. maxOffset'[s] \in Nat /\ maxOffset'[s] <= outgoingOffset[s]
  <2>1. maxOffset[s] \in Nat /\ maxOffset[s] <= outgoingOffset[s] /\ outgoingOffset[s] \in Nat
    BY <1>1, <1>2 DEF Types, Good, ReadUp
  <2>2. IsPiece(e, outgoingOffset[s])
    BY <1>1, <1>2 DEF Good, Held
  <2>3. EndOf(e) \in Nat /\ EndOf(e) <= outgoingOffset[s]
    BY <2>1, <2>2, PieceIs
  <2>4. maxOffset'[s] = maxOffset[s] \/ maxOffset'[s] = EndOf(e)
    BY <1>1 DEF Arrive, EndOf
  <2> QED BY <2>1, <2>3, <2>4
<1>8. /\ \A i \in 1 .. Len(q) : \E j \in 1 .. Len(r) : r[j] = q[i]
      /\ \E j \in 1 .. Len(r) : r[j] = e
  BY <1>3 DEF IsPushed
<1>9. /\ Reads(s)
      /\ x.data = <<>> => readOffset'[s] = readOffset[s]
      /\ \A b \in Nat : (\E j \in 1 .. Len(r) : In(r[j], b)) => Received(s, b)'
  <2> HIDE DEF x, r, q
  <2>1. \A i \in 1 .. Len(incoming[s]) : \E j \in 1 .. Len(r) : r[j] = incoming[s][i]
    BY <1>8 DEF q
  <2> QED BY <1>1, <1>3, <1>6, <1>7, <2>1, StreamReads
<1>10. status'[s] = "open"
  <2>1. s \notin request.closes
    BY <1>1, <1>2 DEF Flight
  <2> QED BY <1>1, <2>1 DEF Arrive
<1>11. NextIsRead(s)'
  <2>1. CASE x.data = <<>>
    <3>1. NoneAt(incoming'[s], readOffset'[s])
      BY <1>3, <1>6, <1>9, <2>1
    <3> QED BY <3>1 DEF NextIsRead
  <2>2. CASE x.data # <<>>
    <3>1. reading'[s] => Rests(s)'
      BY <1>6, <2>2, Zenon
    <3> QED BY <1>1, <1>2, <1>9, <1>10, <3>1, RestsIsRead
  <2> QED BY <2>1, <2>2
<1>12. ASSUME NEW b \in Nat, UnderWay(s, b) PROVE Received(s, b)'
  <2> HIDE DEF r
  <2>1. \E j \in 1 .. Len(r) : In(r[j], b)
    BY <1>8, <1>12 DEF UnderWay
  <2> QED BY <2>1, <1>9
<1> QED BY <1>9, <1>11, <1>12

\* A stream with no data in it.
LEMMA NoDataArrives ==
  ASSUME IInv, Arrive, NEW s \in Streams, s \notin Arriving
  PROVE  /\ Reads(s) /\ NextIsRead(s)' /\ readOffset'[s] = readOffset[s]
         /\ NoneAt(incoming[s], readOffset[s]) /\ \A b \in Nat : UnderWay(s, b) => Received(s, b)'
<1>1. /\ outgoingOffset' = outgoingOffset /\ ~ Due(s) /\ maxOffset'[s] = maxOffset[s]
  BY DEF Arrive, queueVars
<1> DEFINE reads == [t \in Arriving |-> Pushed(t)]
<1>2. Give(reads) /\ DOMAIN reads = Arriving
  BY DEF Arrive
<1>3. /\ incoming'[s] = incoming[s] /\ readOffset'[s] = readOffset[s]
      /\ readable'[s] = readable[s] /\ got'[s] = got[s]
  <2> HIDE DEF reads
  <2> QED BY <1>2, GiveIs
<1>4. NoneAt(incoming[s], readOffset[s])
  BY <1>1, NoneIsDue
<1>5. NextIsRead(s)'
  BY <1>3, <1>4 DEF NextIsRead
<1>6. Reads(s)
  BY <1>1, <1>3, StreamRests
<1>7. ~ UnderWay(s, 0) /\ \A b \in Nat : ~ UnderWay(s, b)
  <2>1. s \notin DOMAIN request.data
    BY DEF Arriving, IInv, Good, Endings
  <2> QED BY <2>1 DEF UnderWay
<1> QED BY <1>3, <1>4, <1>5, <1>6, <1>7

\* A packet arrives.
LEMMA ArriveKeeps ==
  ASSUME IInv, Arrive
  PROVE  IInv' /\ \A s \in Streams : Onward(s)
<1>0. Types /\ Flight /\ \A s \in Streams : Good(s)
  BY DEF IInv
<1>1. /\ stage = "path" /\ stage' = "handling" /\ request' = request /\ loop' = loop /\ sending' = sending
      /\ queuedCloses' = queuedCloses /\ life' = life /\ written' = written /\ outgoing' = outgoing
      /\ toRetry' = toRetry /\ outgoingOffset' = outgoingOffset /\ remoteMaxOffset' = remoteMaxOffset
      /\ connectionMax' = connectionMax /\ announced' = announced /\ dropped' = dropped
  BY DEF Arrive, loopVars, queueVars, windowVars
<1>2. /\ response' = [response EXCEPT !.connectionMax = ConnectionAcceptable]
      /\ status' = [s \in Streams |-> IF s \in request.closes /\ status[s] = "open" THEN "ended" ELSE status[s]]
      /\ failure' \in {"none", "flow"} /\ maxOffset' = [s \in Streams |-> maxOffset'[s]]
      /\ Give([s \in Arriving |-> Pushed(s)])
  BY DEF Arrive
<1>3. ASSUME NEW s \in Streams
      PROVE  /\ Reads(s) /\ NextIsRead(s)' /\ \A b \in Nat : UnderWay(s, b) => Received(s, b)'
             /\ s \notin Arriving => readOffset'[s] = readOffset[s] /\ NoneAt(incoming[s], readOffset[s])
  BY DataArrives, NoDataArrives
<1>4. ConnectionAcceptable \in Int
  <2> DEFINE f == [s \in Streams |-> ReadableLength(s)]
             K == {s \in Streams : status[s] # "removed"}
  <2>1. /\ IsFiniteSet(K) /\ \A s \in K : readOffset[s] \in Int /\ f[s] \in Int
    <3>1. IsFiniteSet(K)
      BY Sizes, FS_Subset
    <3>2. \A s \in Streams : ReadableLength(s) \in Nat
      BY <1>0, LengthIs DEF Good
    <3> QED BY <3>1, <3>2, <1>0 DEF Types
  <2>2. ConnectionAcceptable = SumFunctionOnSet(readOffset, K) - SumFunctionOnSet(f, K) + PeerBufferSize
    BY DEF ConnectionAcceptable, Kept
  <2> HIDE DEF f, K
  <2>3. SumFunctionOnSet(readOffset, K) \in Int /\ SumFunctionOnSet(f, K) \in Int
    BY <2>1, SumIsInt
  <2> QED BY <2>2, <2>3, Sizes
<1>5. /\ response' = [code |-> response'.code, connectionMax |-> response'.connectionMax,
                      limits |-> response'.limits]
      /\ response'.connectionMax = ConnectionAcceptable /\ response'.limits = response.limits
  <2>1. response = [code |-> response.code, connectionMax |-> response.connectionMax, limits |-> response.limits]
    BY <1>0 DEF Types
  <2> QED BY <1>2, <2>1
<1>6. Types'
  <2>1. /\ incoming' \in [Streams -> Seq(Entries)] /\ readOffset' \in [Streams -> Nat]
        /\ readable' \in [Streams -> Seq(Nat)] /\ got' \in [Streams -> Seq(Nat)]
        /\ reading' \in [Streams -> BOOLEAN]
    BY <1>2, <1>3, GiveTypes
  <2>2. maxOffset' \in [Streams -> Nat]
    <3>1. \A s \in Streams : maxOffset'[s] \in Nat
      BY <1>3 DEF Reads
    <3> QED BY <1>2, <3>1
  <2>3. status' \in [Streams -> {"open", "ended", "removed"}]
    BY <1>0, <1>2 DEF Types
  <2>4. response'.connectionMax \in Int /\ IsMap(response.limits, Int)'
    BY <1>0, <1>4, <1>5 DEF Types, IsMap
  <2> QED BY <1>0, <1>1, <1>2, <1>5, <2>1, <2>2, <2>3, <2>4 DEF Types
<1>7. Flight'
  BY <1>0, <1>1 DEF Flight
<1>8. ASSUME NEW s \in Streams
      PROVE  Keeps(s)
  <2>1. /\ status'[s] # "open" => status[s] # "open" \/ s \in request.closes
        /\ status[s] # "open" => status'[s] # "open"
    BY <1>0, <1>2 DEF Types
  <2>2. s \in request.closes \/ status[s] # "open" => s \notin Arriving
    BY <1>0 DEF Arriving, Flight
  <2>3. status'[s] # "open" => NoneAt(incoming[s], readOffset[s])
    BY <1>3, <2>1, <2>2
  <2>4. status[s] # "open" => readOffset'[s] = readOffset[s] /\ status'[s] # "open"
    BY <1>3, <2>1, <2>2
  <2> QED BY <1>1, <1>3, <1>5, <2>1, <2>3, <2>4, ReadingKeeps
<1> QED BY <1>6, <1>7, <1>8 DEF IInv, Keeps

\* Node calls _read.
LEMMA ReadMoreKeeps ==
  ASSUME IInv, NEW t \in Streams, ReadMore(t)
  PROVE  IInv' /\ \A s \in Streams : Onward(s)
<1>0. Types /\ Flight /\ \A s \in Streams : Good(s)
  BY DEF IInv
<1> DEFINE reads == [u \in {t} |-> More(u)]
<1>1. /\ stage' = stage /\ status' = status /\ request' = request /\ loop' = loop /\ life' = life
      /\ response' = response /\ sending' = sending /\ queuedCloses' = queuedCloses /\ dropped' = dropped
      /\ written' = written /\ outgoingOffset' = outgoingOffset /\ remoteMaxOffset' = remoteMaxOffset
      /\ maxOffset' = maxOffset /\ connectionMax' = connectionMax
      /\ outgoing' = outgoing /\ toRetry' = toRetry /\ failure' = failure
      /\ announced' = announced /\ status[t] = "open" /\ ~ reading[t] /\ Give(reads)
  BY DEF ReadMore, Due, loopVars, queueVars, windowVars
<1>2. DOMAIN reads = {t} /\ reads[t] = More(t)
  OBVIOUS
<1> HIDE DEF reads
<1>3. ASSUME NEW s \in Streams
      PROVE  Reads(s) /\ NextIsRead(s)' /\ (status[s] # "open" => readOffset'[s] = readOffset[s])
  <2>1. CASE s = t
    <3>1. /\ incoming'[s] = More(s).entries /\ readOffset'[s] = readOffset[s] + Len(More(s).data)
          /\ GoesTo(s, More(s).data)
          /\ More(s).data = <<>> => reading'[s] = reading[s]
          /\ More(s).data # <<>> => (reading'[s] <=> Rests(s)')
      BY <1>1, <1>2, <2>1, GiveIs
    <3>2. HasRead(More(s), incoming[s], outgoingOffset[s], readOffset[s])
      BY MoreIs
    <3>3. maxOffset'[s] \in Nat /\ maxOffset'[s] <= outgoingOffset[s]
      BY <1>0, <1>1 DEF Types, Good, ReadUp
    <3>4. Reads(s)
      BY <1>1, <3>1, <3>2, <3>3, StreamReads
    <3>5. reading'[s] => Rests(s)'
      BY <1>1, <2>1, <3>1, Zenon
    <3>6. NextIsRead(s)'
      BY <1>0, <1>1, <2>1, <3>4, <3>5, RestsIsRead
    <3> QED BY <1>1, <2>1, <3>4, <3>6
  <2>2. CASE s # t
    <3>1. /\ incoming'[s] = incoming[s] /\ readOffset'[s] = readOffset[s]
          /\ readable'[s] = readable[s] /\ got'[s] = got[s] /\ reading'[s] = reading[s]
      BY <1>1, <1>2, <2>2, GiveIs
    <3>2. Reads(s)
      BY <1>1, <3>1, StreamRests
    <3>3. NextIsRead(s)'
      BY <1>0, <1>1, <3>1 DEF Good, NextIsRead
    <3> QED BY <3>1, <3>2, <3>3
  <2> QED BY <2>1, <2>2
<1>4. Types'
  <2>1. /\ incoming' \in [Streams -> Seq(Entries)] /\ readOffset' \in [Streams -> Nat]
        /\ readable' \in [Streams -> Seq(Nat)] /\ got' \in [Streams -> Seq(Nat)]
        /\ reading' \in [Streams -> BOOLEAN]
    BY <1>1, <1>3, GiveTypes
  <2> QED BY <1>0, <1>1, <2>1 DEF Types
<1>5. Flight'
  BY <1>0, <1>1 DEF Flight
<1>6. ASSUME NEW s \in Streams PROVE Keeps(s)
  <2>1. status[s] # "open" => NoneAt(incoming[s], readOffset[s])
    BY <1>0 DEF Good, NextIsRead
  <2> QED BY <1>1, <1>3, <2>1, ReadingKeeps
<1> QED BY <1>4, <1>5, <1>6 DEF IInv, Keeps

\* stream.read.
LEMMA ReadKeeps ==
  ASSUME IInv, NEW t \in Streams, Read(t)
  PROVE  IInv' /\ \A s \in Streams : Onward(s)
<1>0. Types /\ Flight /\ \A s \in Streams : Good(s)
  BY DEF IInv
<1> DEFINE calls == ~ reading[t] /\ status[t] = "open"
           more == IF calls THEN More(t) ELSE [data |-> <<>>, entries |-> incoming[t]]
<1>1. /\ stage' = stage /\ status' = status /\ request' = request /\ loop' = loop /\ life' = life
      /\ response' = response /\ sending' = sending /\ queuedCloses' = queuedCloses /\ dropped' = dropped
      /\ written' = written /\ outgoingOffset' = outgoingOffset /\ remoteMaxOffset' = remoteMaxOffset
      /\ maxOffset' = maxOffset /\ connectionMax' = connectionMax
      /\ outgoing' = outgoing /\ toRetry' = toRetry /\ failure' = failure
      /\ announced' = announced
  BY DEF Read, loopVars, queueVars, windowVars
<1>2. /\ t \notin Flowing
      /\ incoming' = [incoming EXCEPT ![t] = more.entries]
      /\ readOffset' = [readOffset EXCEPT ![t] = @ + Len(more.data)]
      /\ readable' = [readable EXCEPT ![t] = <<>>]
      /\ got' = [got EXCEPT ![t] = @ \o readable[t] \o more.data]
  BY DEF Read
<1>3. \/ calls /\ Rests(t)' /\ reading' = [reading EXCEPT ![t] = TRUE]
      \/ ~ (calls /\ Rests(t)') /\ reading' = reading
  BY DEF Read
<1>4. /\ incoming \in [Streams -> Seq(Entries)] /\ readOffset \in [Streams -> Nat]
      /\ readable \in [Streams -> Seq(Nat)] /\ got \in [Streams -> Seq(Nat)]
      /\ reading \in [Streams -> BOOLEAN]
  BY <1>0 DEF Types
<1> HIDE DEF more
<1>5. ASSUME NEW s \in Streams, s # t
      PROVE  /\ Reads(s) /\ NextIsRead(s)' /\ readOffset'[s] = readOffset[s]
  <2>1. /\ incoming'[s] = incoming[s] /\ readOffset'[s] = readOffset[s]
        /\ readable'[s] = readable[s] /\ got'[s] = got[s]
    BY <1>2, <1>4, <1>5
  <2>2. reading'[s] = reading[s]
    BY <1>3, <1>4, <1>5
  <2>3. Reads(s)
    BY <1>1, <2>1, StreamRests
  <2>4. NextIsRead(s)'
    BY <1>0, <1>1, <2>1, <2>2 DEF Good, NextIsRead
  <2> QED BY <2>1, <2>3, <2>4
<1>6. /\ incoming'[t] = more.entries /\ readOffset'[t] = readOffset[t] + Len(more.data)
      /\ GoesTo(t, more.data)
  BY <1>2, <1>4 DEF GoesTo
<1>7. maxOffset'[t] \in Nat /\ maxOffset'[t] <= outgoingOffset[t]
  BY <1>0, <1>1 DEF Types, Good, ReadUp
<1> DEFINE goal == Reads(t) /\ NextIsRead(t)' /\ (status[t] # "open" => readOffset'[t] = readOffset[t])
<1>8. ASSUME calls PROVE goal
  <2>1. more = More(t)
    BY <1>8 DEF more
  <2>2. HasRead(more, incoming[t], outgoingOffset[t], readOffset[t])
    BY <2>1, MoreIs
  <2>3. Reads(t)
    BY <1>1, <1>6, <1>7, <2>2, StreamReads
  <2>4. reading'[t] => Rests(t)'
    <3>1. reading'[t] => calls /\ Rests(t)'
      BY <1>3, <1>4, <1>8, Zenon
    <3> QED BY <3>1
  <2>5. NextIsRead(t)'
    <3>1. status'[t] = "open" /\ outgoingOffset' = outgoingOffset
      BY <1>1, <1>8
    <3> QED BY <1>0, <2>3, <2>4, <3>1, RestsIsRead
  <2> QED BY <1>8, <2>3, <2>5
<1>9. ASSUME ~ calls PROVE goal
  <2>1. more.data = <<>> /\ more.entries = incoming[t]
    BY <1>9 DEF more
  <2>2. readOffset[t] \in Nat /\ readOffset'[t] = readOffset[t] /\ incoming'[t] = incoming[t]
    BY <1>4, <1>6, <2>1
  <2>3. reading'[t] = reading[t]
    BY <1>3, <1>9, Zenon
  <2>4. NextIsRead(t)'
    BY <1>0, <1>1, <2>2, <2>3 DEF Good, NextIsRead
  <2>5. HasRead(more, incoming[t], outgoingOffset[t], readOffset[t])
    BY <2>1, NothingRead
  <2>6. Reads(t)
    <3>1. outgoingOffset' = outgoingOffset
      BY <1>1
    <3> QED BY <1>6, <1>7, <2>5, <3>1, StreamReads
  <2> QED BY <2>2, <2>4, <2>6
<1>10. Reads(t) /\ NextIsRead(t)' /\ (status[t] # "open" => readOffset'[t] = readOffset[t])
  BY <1>8, <1>9
<1>11. Types'
  <2>1. /\ incoming' = [s \in Streams |-> incoming'[s]] /\ readOffset' = [s \in Streams |-> readOffset'[s]]
        /\ readable' = [s \in Streams |-> readable'[s]] /\ got' = [s \in Streams |-> got'[s]]
    BY <1>2, <1>4
  <2>2. \A s \in Streams : /\ incoming'[s] \in Seq(Entries) /\ readOffset'[s] \in Nat
                           /\ readable'[s] \in Seq(Nat) /\ got'[s] \in Seq(Nat)
    BY <1>5, <1>10 DEF Reads
  <2>3. /\ incoming' \in [Streams -> Seq(Entries)] /\ readOffset' \in [Streams -> Nat]
        /\ readable' \in [Streams -> Seq(Nat)] /\ got' \in [Streams -> Seq(Nat)]
    BY <2>1, <2>2
  <2>4. reading' \in [Streams -> BOOLEAN]
    BY <1>3, <1>4
  <2> QED BY <1>0, <1>1, <2>3, <2>4 DEF Types
<1>12. Flight'
  BY <1>0, <1>1 DEF Flight
<1>13. ASSUME NEW s \in Streams PROVE Keeps(s)
  <2>1. status[s] # "open" => NoneAt(incoming[s], readOffset[s])
    BY <1>0 DEF Good, NextIsRead
  <2>2. Reads(s) /\ NextIsRead(s)' /\ (status[s] # "open" => readOffset'[s] = readOffset[s])
    BY <1>5, <1>10
  <2> QED BY <1>1, <2>1, <2>2, ReadingKeeps
<1> QED BY <1>11, <1>12, <1>13 DEF IInv, Keeps

\* A step that changes nothing.
LEMMA StutterKeeps ==
  ASSUME IInv, UNCHANGED vars
  PROVE  IInv' /\ \A s \in Streams : Onward(s)
<1>1. /\ UNCHANGED <<written, queueVars, bufferVars, dropped>>
      /\ stage' = stage /\ request' = request /\ loop' = loop /\ response' = response
      /\ status' = status /\ life' = life /\ sending' = sending /\ queuedCloses' = queuedCloses
      /\ dropped' = dropped /\ written' = written /\ outgoingOffset' = outgoingOffset
      /\ remoteMaxOffset' = remoteMaxOffset /\ readOffset' = readOffset /\ maxOffset' = maxOffset
      /\ connectionMax' = connectionMax /\ announced' = announced /\ readable' = readable /\ reading' = reading /\ got' = got
      /\ outgoing' = outgoing /\ toRetry' = toRetry /\ incoming' = incoming /\ failure' = failure
  BY DEF vars, loopVars, queueVars, windowVars, bufferVars, peerVars
<1>2. Types'
  BY <1>1 DEF IInv, Types
<1>3. Flight'
  BY <1>1 DEF IInv, Flight
<1>4. ASSUME NEW s \in Streams
      PROVE  Good(s)' /\ Onward(s)
  <2>1. /\ Held(s)' /\ ReadUp(s)' /\ InOrder(s)' /\ NextIsRead(s)' /\ Somewhere(s)'
        /\ (Lost(s) => Lost(s)') /\ readOffset[s] <= readOffset'[s] /\ Len(got[s]) <= Len(got'[s])
    BY <1>1, NothingMoves
  <2>2. WindowKept(s)' /\ Endings(s)'
    BY <1>1 DEF IInv, Good, WindowKept, Endings
  <2> QED BY <1>1, <2>1, <2>2 DEF Good, Onward
<1> QED BY <1>2, <1>3, <1>4 DEF IInv

\* Every step keeps the invariant.
LEMMA NextKeeps ==
  ASSUME IInv, [Next]_vars
  PROVE  IInv' /\ \A s \in Streams : Onward(s)
<1>1. CASE \E money \in BOOLEAN : loadAndSendPacket(money)
  BY <1>1, SendKeeps
<1>2. CASE Answered
  BY <1>2, AnsweredKeeps
<1>3. CASE BackoffOver
  BY <1>3, BackoffKeeps
<1>4. CASE \E s \in Streams : Finish(s)
  BY <1>4, FinishKeeps
<1>5. CASE Arrive
  BY <1>5, ArriveKeeps
<1>6. CASE Respond
  BY <1>6, RespondKeeps
<1>7. CASE Announce
  BY <1>7, AnnounceKeeps
<1>8. CASE AnnouncementArrives
  BY <1>8, AnnouncedKeeps
<1>9. CASE \E s \in Streams : RemovePeer(s)
  BY <1>9, RemoveKeeps
<1>10. CASE \E s \in Streams : Read(s)
  BY <1>10, ReadKeeps
<1>16. CASE \E s \in Streams : ReadMore(s)
  BY <1>16, ReadMoreKeeps
<1>11. CASE \E s \in Streams : End(s)
  BY <1>11, EndKeeps
<1>12. CASE \E s \in Streams : \E n \in ChunkSizes : Write(s, n)
  BY <1>12, WriteKeeps
<1>13. CASE TemporaryError
  BY <1>13, TemporaryKeeps
<1>14. CASE AnnouncementRefused
  BY <1>14, RefusedKeeps
<1>15. CASE UNCHANGED vars
  BY <1>15, StutterKeeps
<1> QED BY <1>1, <1>2, <1>3, <1>4, <1>5, <1>6, <1>7, <1>8, <1>9, <1>10, <1>11, <1>12, <1>13, <1>14, <1>15, <1>16
        DEF Next, SenderStep, PathStep, PeerStep, Writing, Failing

\* In every reachable state the invariant holds.
THEOREM IInvHolds == Spec => []IInv
<1>1. IInv /\ [Next]_vars => IInv'
  BY NextKeeps
<1> QED BY <1>1, InitGood, PTL DEF Spec
-----------------------------------------------------------------------------
(* Nothing is forgotten.                                                    *)

\* The bytes of a piece.
LEMMA PieceHas ==
  ASSUME NEW e, NEW n \in Nat, IsPiece(e, n), NEW b \in Nat, In(e, b)
  PROVE  b \in Range(e.data)
<1> DEFINE a == e.offset
           m == Len(e.data)
           f == e.data
<1>1. a \in Nat /\ m \in Nat /\ f = Bytes(a + 1, m) /\ a < b /\ b <= a + m
  BY PieceIs DEF In
<1> HIDE DEF a, m, f
<1>2. a + 1 \in Nat /\ b - a \in 1 .. m /\ (a + 1) + (b - a) - 1 = b
  BY <1>1
<1>3. DOMAIN f = 1 .. m /\ f[b - a] = (a + 1) + (b - a) - 1
  BY <1>1, <1>2, BytesAre
<1>4. b - a \in DOMAIN f /\ f[b - a] = b
  BY <1>2, <1>3
<1> QED BY <1>4 DEF Range, f

\* Whatever is rejected is sent again: while a stream is there, every byte that was taken from
\* its queue has been read, lies in the receiver's buffer, waits to be sent again or is under way
\* (undoRejectedPacket, returnRejectedData).
THEOREM NothingForgottenHolds == Spec => []NothingForgotten
<1>1. ASSUME IInv PROVE NothingForgotten
  <2> SUFFICES ASSUME NEW s \in Existing, NEW b \in 1 .. outgoingOffset[s]
               PROVE  \/ b <= readOffset[s]
                      \/ \E i \in DOMAIN incoming[s] : b \in Range(incoming[s][i].data)
                      \/ \E i \in DOMAIN toRetry[s] : b \in Range(toRetry[s][i].data)
                      \/ stage # "none" /\ s \in DOMAIN request.data /\ b \in Range(request.data[s].data)
    BY DEF NothingForgotten, Accounted
  <2>1. s \in Streams /\ life[s] # "removed" /\ b \in Nat
    BY DEF Existing
  <2>2. Good(s) /\ Types /\ Flight
    BY <2>1, <1>1 DEF IInv
  <2>3. s \notin dropped
    BY <2>1, <2>2 DEF Good, Endings
  <2>4. Received(s, b) \/ Waits(s, b) \/ UnderWay(s, b)
    BY <2>2, <2>3 DEF Good, Somewhere
  <2>5. /\ outgoingOffset[s] \in Nat
        /\ DOMAIN incoming[s] = 1 .. Len(incoming[s]) /\ DOMAIN toRetry[s] = 1 .. Len(toRetry[s])
    <3>1. incoming[s] \in Seq(Entries) /\ toRetry[s] \in Seq(Entries) /\ outgoingOffset[s] \in Nat
      BY <2>1, <2>2 DEF Types
    <3> QED BY <3>1, LenProperties
  <2>6. CASE Received(s, b)
    BY <2>1, <2>2, <2>5, <2>6, PieceHas DEF Good, Held, Received
  <2>7. CASE Waits(s, b)
    BY <2>1, <2>2, <2>5, <2>7, PieceHas DEF Good, Held, Waits
  <2>8. CASE UnderWay(s, b)
    <3>1. stage # "none"
      BY <2>2, <2>8 DEF Flight, UnderWay
    <3> QED BY <3>1, <2>1, <2>2, <2>5, <2>8, PieceHas DEF Good, Held, UnderWay
  <2> QED BY <2>4, <2>6, <2>7, <2>8
<1>2. IInv => NothingForgotten
  BY <1>1
<1> QED BY <1>2, IInvHolds, PTL
-----------------------------------------------------------------------------
(* The limits.                                                              *)

\* As long as no stream is removed the connection's limit leaves no more room than what its
\* readers have read makes.
LEMMA RoomIs ==
  ASSUME IInv, Existing = Streams
  PROVE  ConnectionAcceptable <= Room /\ ConnectionAcceptable \in Int
<1>1. \A s \in Streams : life[s] # "removed"
  BY DEF Existing
<1>2. Kept = Streams
  BY <1>1 DEF Kept, IInv, Good, Endings
<1> DEFINE f == [s \in Streams |-> Len(got[s])]
           g == [s \in Streams |-> Len(readable[s])]
           h == [s \in Streams |-> ReadableLength(s)]
           a == SumFunctionOnSet(f, Streams)
           b == SumFunctionOnSet(g, Streams)
           d == SumFunctionOnSet(h, Streams)
           c == SumFunctionOnSet(readOffset, Streams)
<1>3. ASSUME NEW s \in Streams
      PROVE  /\ f[s] \in Int /\ g[s] \in Int /\ h[s] \in Int /\ g[s] <= h[s]
             /\ readOffset[s] = f[s] + g[s]
  <2>1. Types /\ Held(s) /\ Len(got[s]) + Len(readable[s]) = readOffset[s]
    BY DEF IInv, Good, ReadUp
  <2>2. got[s] \in Seq(Nat)
    BY <2>1 DEF Types
  <2>3. Len(got[s]) \in Nat
    BY <2>2, LenProperties
  <2>4. ReadableLength(s) \in Nat /\ Len(readable[s]) \in Nat /\ Len(readable[s]) <= ReadableLength(s)
    BY <2>1, LengthIs
  <2>5. f[s] = Len(got[s]) /\ g[s] = Len(readable[s]) /\ h[s] = ReadableLength(s)
    OBVIOUS
  <2> DEFINE u == Len(got[s])
             v == Len(readable[s])
             w == ReadableLength(s)
  <2>6. /\ u \in Nat /\ v \in Nat /\ w \in Nat /\ v <= w /\ u + v = readOffset[s]
        /\ f[s] = u /\ g[s] = v /\ h[s] = w
    BY <2>1, <2>3, <2>4, <2>5
  <2> HIDE DEF f, g, h, u, v, w
  <2>7. f[s] \in Int /\ g[s] \in Int /\ h[s] \in Int /\ g[s] <= h[s]
    BY ONLY <2>6
  <2>8. readOffset[s] = f[s] + g[s]
    BY ONLY <2>6
  <2> QED BY <2>7, <2>8
<1>4. a \in Int /\ b \in Int /\ d \in Int /\ c = a + b /\ b <= d
  <2> HIDE DEF f, g, h
  <2>1. IsFiniteSet(Streams)
    BY Sizes
  <2>2. a \in Int
    BY <1>3, <2>1, SumIsInt
  <2>3. b \in Int
    BY <1>3, <2>1, SumIsInt
  <2>4. d \in Int
    BY <1>3, <2>1, SumIsInt
  <2>5. c = a + b
    BY <1>3, <2>1, SumPlus
  <2>6. b <= d
    BY <1>3, <2>1, SumAtMost
  <2> QED BY <2>2, <2>3, <2>4, <2>5, <2>6
<1>5. ConnectionAcceptable = c - d + PeerBufferSize /\ Room = a + PeerBufferSize
  BY <1>2 DEF ConnectionAcceptable, Room
<1> HIDE DEF a, b, c, d
<1> QED BY <1>4, <1>5, Sizes

\* It only grows.
LEMMA RoomGrows ==
  ASSUME IInv, IInv', \A s \in Streams : Onward(s)
  PROVE  Room \in Int /\ Room' \in Int /\ Room <= Room' /\ 0 <= Room /\ PeerBufferSize <= Room
<1> DEFINE f == [s \in Streams |-> Len(got[s])]
           g == [s \in Streams |-> Len(got'[s])]
           z == [s \in Streams |-> 0]
           a == SumFunctionOnSet(f, Streams)
           b == SumFunctionOnSet(g, Streams)
<1>1. \A s \in Streams : f[s] \in Nat /\ g[s] \in Nat /\ f[s] <= g[s]
  <2>1. got \in [Streams -> Seq(Nat)] /\ got' \in [Streams -> Seq(Nat)]
    BY DEF IInv, Types
  <2>2. \A s \in Streams : Len(got[s]) \in Nat /\ Len(got'[s]) \in Nat /\ Len(got[s]) <= Len(got'[s])
    BY <2>1 DEF Onward
  <2> QED BY <2>2
<1>2. \A s \in Streams : f[s] \in Int /\ g[s] \in Int /\ f[s] <= g[s]
  <2> HIDE DEF f, g
  <2> QED BY <1>1
<1>3. a \in Nat /\ b \in Nat /\ a <= b
  <2> HIDE DEF f, g
  <2> QED BY <1>1, <1>2, Sizes, SumIsNat, SumAtMost
<1>4. Room = a + PeerBufferSize /\ Room' = b + PeerBufferSize
  BY DEF Room
<1> HIDE DEF a, b
<1> QED BY <1>3, <1>4, Sizes

\* A stream that is removed does not come back.
LEMMA NoneComesBack ==
  ASSUME IInv, [Next]_vars
  PROVE  Existing' = Streams => Existing = Streams
<1>1. life \in [Streams -> {"open", "ending", "removed"}]
  BY DEF IInv, Types
<1>2. \A s \in Streams : life[s] = "removed" => life'[s] = "removed"
  <2>1. CASE life' = life
    BY <2>1
  <2>2. CASE \E t \in Streams : End(t)
    BY <2>2, <1>1 DEF End
  <2>3. CASE \E t \in Streams : Finish(t)
    BY <2>3, <1>1 DEF Finish
  <2>4. life' = life \/ (\E t \in Streams : End(t)) \/ (\E t \in Streams : Finish(t))
    BY DEF Next, SenderStep, PathStep, PeerStep, Writing, Failing, loadAndSendPacket, Answered, BackoffOver,
           Arrive, Respond, ReadMore, RemovePeer, Read, Announce, AnnouncementArrives, AnnouncementRefused, Write,
           TemporaryError, vars
  <2> QED BY <2>1, <2>2, <2>3, <2>4
<1> QED BY <1>2 DEF Existing

\* The steps that do not touch the connection's window.
LEMMA WindowAlone ==
  ASSUME IInv, IInv', \A s \in Streams : Onward(s), [Next]_vars, ConnectionKept,
         outgoingOffset' = outgoingOffset, connectionMax' = connectionMax,
         response'.connectionMax = response.connectionMax \/ response'.connectionMax = 0
  PROVE  ConnectionKept'
<1>1. Room \in Int /\ Room' \in Int /\ Room <= Room' /\ 0 <= Room
  BY RoomGrows
<1>2. Existing' = Streams => Existing = Streams
  BY NoneComesBack
<1>3. connectionMax \in Int /\ response.connectionMax \in Int /\ SumFunctionOnSet(outgoingOffset, Streams) \in Int
  <2>1. \A s \in Streams : outgoingOffset[s] \in Int
    BY DEF IInv, Types
  <2>2. SumFunctionOnSet(outgoingOffset, Streams) \in Int
    BY <2>1, Sizes, SumIsInt
  <2> QED BY <2>2 DEF IInv, Types
<1>4. ASSUME Existing' = Streams
      PROVE  /\ connectionMax' <= Room' /\ response'.connectionMax <= Room'
             /\ SumFunctionOnSet(outgoingOffset, Streams) <= Room'
  <2>1. connectionMax <= Room /\ response.connectionMax <= Room /\ SumFunctionOnSet(outgoingOffset, Streams) <= Room
    BY <1>2, <1>4 DEF ConnectionKept
  <2> QED BY <1>1, <1>3, <2>1
<1> QED BY <1>4 DEF ConnectionKept

\* A packet takes no more than the connection's window leaves.
LEMMA WindowOfSend ==
  ASSUME IInv, IInv', \A s \in Streams : Onward(s), NEW money \in BOOLEAN, loadAndSendPacket(money),
         ConnectionKept
  PROVE  ConnectionKept'
<1>0. Ready /\ connectionMax \in Int /\ response.connectionMax \in Int /\ \A s \in Streams : outgoingOffset[s] \in Int
  BY DEF IInv, Good, Ready, Types
<1>1. /\ life' = life /\ connectionMax' = connectionMax /\ response' = response
      /\ got' = got
      /\ outgoingOffset' = [s \in Streams |-> IF s \in DOMAIN DataFrames THEN DataFrames[s].offset
                                              ELSE outgoingOffset[s]]
  BY DEF loadAndSendPacket, windowVars, bufferVars
<1>2. Existing' = Existing /\ Room' = Room
  BY <1>1 DEF Existing, Room
<1>3. PICK p : /\ DataFrames = p.taken
               /\ DOMAIN p.taken # {} =>
                    SumFunctionOnSet(Offset(p), Streams) <= SumFunctionOnSet(outgoingOffset, Streams) + Window
  BY <1>0, DataFramesAre
<1>4. Offset(p) = outgoingOffset'
  BY <1>1, <1>3 DEF Offset
<1>5. ASSUME Existing = Streams
      PROVE  SumFunctionOnSet(outgoingOffset', Streams) <= Room
  <2> DEFINE a == SumFunctionOnSet(outgoingOffset, Streams)
             b == SumFunctionOnSet(outgoingOffset', Streams)
  <2>1. a \in Int
    BY <1>0, Sizes, SumIsInt
  <2>2. Window = connectionMax - a
    BY <1>5 DEF Window
  <2>3. a <= Room /\ connectionMax <= Room
    BY <1>5 DEF ConnectionKept
  <2>4. CASE DOMAIN p.taken # {}
    <3>1. b <= a + Window
      BY <1>3, <1>4, <2>4
    <3>2. a + Window = connectionMax
      <4> HIDE DEF a
      <4> QED BY <2>1, <2>2, <1>0
    <3>3. b \in Int /\ Room \in Int
      <4>1. \A s \in Streams : outgoingOffset'[s] \in Int
        BY DEF IInv, Types
      <4> QED BY <4>1, Sizes, SumIsInt, RoomGrows
    <3>4. b <= connectionMax
      BY <3>1, <3>2
    <3> HIDE DEF a, b
    <3>5. b <= Room
      BY <3>3, <3>4, <2>3, <1>0
    <3> QED BY <3>5 DEF b
  <2>5. CASE DOMAIN p.taken = {}
    <3>1. \A s \in Streams : outgoingOffset[s] \in Int /\ outgoingOffset[s] = outgoingOffset'[s]
      BY <1>0, <1>1, <1>3, <2>5
    <3>2. a = b
      BY <3>1, Sizes, SumSame
    <3> QED BY <3>2, <2>3
  <2> QED BY <2>4, <2>5
<1> QED BY <1>1, <1>2, <1>5 DEF ConnectionKept

\* The connection's window is taken from an answer.
LEMMA WindowOfAnswer ==
  ASSUME BufferSize <= PeerBufferSize, IInv, IInv', \A s \in Streams : Onward(s), Answered,
         ConnectionKept
  PROVE  ConnectionKept'
<1>1. /\ life' = life /\ got' = got /\ outgoingOffset' = outgoingOffset
      /\ response'.connectionMax = 0
      /\ connectionMax' = connectionMax \/ connectionMax' = response.connectionMax
  BY SettledIs DEF Answered, bufferVars, TakeConnectionMax
<1>2. Existing' = Existing /\ Room' = Room
  BY <1>1 DEF Existing, Room
<1>3. 0 <= Room
  BY RoomGrows
<1> QED BY <1>1, <1>2, <1>3 DEF ConnectionKept

\* The connection's limit goes into the answer of a packet that arrives.
LEMMA WindowOfArrival ==
  ASSUME IInv, IInv', \A s \in Streams : Onward(s), Arrive, ConnectionKept
  PROVE  ConnectionKept'
<1>1. /\ life' = life /\ outgoingOffset' = outgoingOffset /\ connectionMax' = connectionMax
      /\ response' = [response EXCEPT !.connectionMax = ConnectionAcceptable]
  BY DEF Arrive, loopVars, queueVars, windowVars
<1>2. Existing' = Existing
  BY <1>1 DEF Existing
<1>3. SUFFICES ASSUME Existing = Streams
               PROVE  /\ connectionMax' <= Room' /\ response'.connectionMax <= Room'
                      /\ SumFunctionOnSet(outgoingOffset, Streams) <= Room'
  BY <1>1, <1>2 DEF ConnectionKept
<1>4. Room \in Int /\ Room' \in Int /\ Room <= Room'
  BY RoomGrows
<1>5. response'.connectionMax \in Int /\ response'.connectionMax <= Room
  <2>1. ConnectionAcceptable <= Room /\ ConnectionAcceptable \in Int
    BY <1>3, RoomIs
  <2>2. response = [code |-> response.code, connectionMax |-> response.connectionMax, limits |-> response.limits]
    BY DEF IInv, Types
  <2> QED BY <1>1, <2>1, <2>2
<1>6. connectionMax \in Int /\ connectionMax <= Room /\ SumFunctionOnSet(outgoingOffset, Streams) <= Room
      /\ \A s \in Streams : outgoingOffset[s] \in Int
  BY <1>3 DEF ConnectionKept, IInv, Types
<1>7. SumFunctionOnSet(outgoingOffset, Streams) \in Int
  BY <1>6, Sizes, SumIsInt
<1> QED BY <1>1, <1>4, <1>5, <1>6, <1>7

\* Every step keeps the window.
LEMMA WindowKeeps ==
  ASSUME BufferSize <= PeerBufferSize, IInv, [Next]_vars, ConnectionKept
  PROVE  ConnectionKept'
<1>0. IInv' /\ \A s \in Streams : Onward(s)
  BY NextKeeps
<1>1. CASE \E money \in BOOLEAN : loadAndSendPacket(money)
  BY <1>0, <1>1, WindowOfSend
<1>2. CASE Answered
  BY <1>0, <1>2, WindowOfAnswer
<1>3. CASE Arrive
  BY <1>0, <1>3, WindowOfArrival
<1>4. CASE TemporaryError
  <2>1. /\ outgoingOffset' = outgoingOffset /\ connectionMax' = connectionMax
        /\ response'.connectionMax = 0
    BY <1>4, SettledIs DEF TemporaryError, windowVars
  <2> QED BY <1>0, <2>1, WindowAlone
<1>5. CASE Respond
  <2>1. /\ outgoingOffset' = outgoingOffset /\ connectionMax' = connectionMax
        /\ \/ response' = [response EXCEPT !.code = "fulfill", !.limits = MaxData]
           \/ response' = [response EXCEPT !.code = "F99", !.limits = NoLimits]
    BY <1>5 DEF Respond, windowVars, queueVars
  <2>2. response = [code |-> response.code, connectionMax |-> response.connectionMax, limits |-> response.limits]
    BY DEF IInv, Types
  <2>3. response'.connectionMax = response.connectionMax
    BY <2>1, <2>2
  <2> QED BY <1>0, <2>1, <2>3, WindowAlone
<1>6. CASE /\ outgoingOffset' = outgoingOffset /\ connectionMax' = connectionMax
           /\ response' = response
  BY <1>0, <1>6, WindowAlone
<1>7. CASE UNCHANGED vars
  BY <1>6, <1>7 DEF vars, queueVars, windowVars
<1>8. CASE BackoffOver \/ Announce \/ AnnouncementArrives \/ AnnouncementRefused
  BY <1>6, <1>8 DEF BackoffOver, Announce, AnnouncementArrives, AnnouncementRefused, PeerGoesOn, queueVars, windowVars
<1>9. CASE \E s \in Streams : Finish(s) \/ ReadMore(s) \/ RemovePeer(s) \/ Read(s) \/ End(s) \/ \E n \in ChunkSizes : Write(s, n)
  BY <1>6, <1>9 DEF Finish, ReadMore, RemovePeer, Read, End, Write, queueVars, windowVars
<1> QED BY <1>1, <1>2, <1>3, <1>4, <1>5, <1>7, <1>8, <1>9 DEF Next, SenderStep, PathStep, PeerStep, Writing, Failing

\* At first nothing has been sent.
LEMMA WindowAtFirst ==
  ASSUME BufferSize <= PeerBufferSize
  PROVE  Init => ConnectionKept
<1> SUFFICES ASSUME Init PROVE ConnectionKept
  OBVIOUS
<1>1. /\ connectionMax = BufferSize /\ response.connectionMax = 0
      /\ outgoingOffset = [s \in Streams |-> 0] /\ got = [s \in Streams |-> <<>>]
  BY DEF Init, NoResponse, Zero, Empty
<1> DEFINE f == [s \in Streams |-> Len(got[s])]
           a == SumFunctionOnSet(f, Streams)
           b == SumFunctionOnSet(outgoingOffset, Streams)
<1>2. \A s \in Streams : f[s] \in Int /\ outgoingOffset[s] = f[s] /\ f[s] = outgoingOffset[s] /\ f[s] \in Nat
  BY <1>1
<1>3. a = b /\ a \in Nat
  <2> HIDE DEF f
  <2>1. a \in Nat
    BY <1>2, Sizes, SumIsNat
  <2>2. a = b
    BY <1>2, Sizes, SumSame
  <2> QED BY <2>1, <2>2
<1>4. Room = a + PeerBufferSize
  BY DEF Room
<1> HIDE DEF a
<1>5. connectionMax <= Room /\ response.connectionMax <= Room /\ a <= Room
  BY <1>1, <1>3, <1>4, Sizes
<1> QED BY <1>1, <1>3, <1>5 DEF ConnectionKept

\* The sender never takes more into its packets than the receiver has room for besides what its
\* application has read: on no stream (_getIncomingOffsets, _remoteMaxOffset), and not on the
\* connection while no stream has been removed, whose data its offsets forget
\* (connection.ts:1623), if the receiver buffers at least as much as the sender takes it to
\* (maxBufferedData, of which each end knows its own).
THEOREM RoomKeptHolds ==
  ASSUME BufferSize <= PeerBufferSize
  PROVE  Spec => []RoomKept
<1>1. Init => ConnectionKept
  BY WindowAtFirst
<1>2. IInv /\ [Next]_vars /\ ConnectionKept => ConnectionKept'
  BY WindowKeeps
<1>3. ASSUME IInv, ConnectionKept PROVE RoomKept
  <2>1. ASSUME NEW s \in Streams PROVE StreamHasRoom(s)
    <3> DEFINE g == Len(got[s])
    <3>1. got[s] \in Seq(Nat)
      BY <1>3 DEF IInv, Types
    <3>2. g \in Nat
      BY <3>1, LenProperties
    <3>3. outgoingOffset[s] \in Nat /\ remoteMaxOffset[s] \in Nat
      BY <1>3 DEF IInv, Types
    <3>4. outgoingOffset[s] <= remoteMaxOffset[s] /\ remoteMaxOffset[s] <= g + HighWaterMark
      BY <1>3 DEF IInv, Good, WindowKept
    <3> HIDE DEF g
    <3>5. outgoingOffset[s] <= g + HighWaterMark
      BY <3>2, <3>3, <3>4, Sizes
    <3> QED BY <3>5 DEF StreamHasRoom, g
  <2>2. Existing = Streams => ConnectionHasRoom
    BY <1>3 DEF ConnectionKept, Room, ConnectionHasRoom
  <2> QED BY <2>1, <2>2 DEF RoomKept
<1>4. IInv /\ ConnectionKept => RoomKept
  BY <1>3
<1> QED BY <1>1, <1>2, <1>4, IInvHolds, PTL DEF Spec
-----------------------------------------------------------------------------
(* Why a receiver destroys the connection.                                  *)

\* With nothing left in the sorters the limits are what the readers have read and a buffer.
LEMMA LimitsWithoutRest ==
  ASSUME IInv, Existing = Streams, \A s \in Streams : ~ Left(s)
  PROVE  /\ ConnectionAcceptable = Room
         /\ \A s \in Streams : Acceptable(s) = Len(got[s]) + HighWaterMark
<1>1. \A s \in Streams : life[s] # "removed"
  BY DEF Existing
<1>2. Kept = Streams
  BY <1>1 DEF Kept, IInv, Good, Endings
<1> DEFINE f == [s \in Streams |-> Len(got[s])]
           h == [s \in Streams |-> ReadableLength(s)]
           a == SumFunctionOnSet(f, Streams)
           d == SumFunctionOnSet(h, Streams)
           c == SumFunctionOnSet(readOffset, Streams)
<1>3. ASSUME NEW s \in Streams
      PROVE  /\ f[s] \in Int /\ h[s] \in Int /\ readOffset[s] = f[s] + h[s]
             /\ Acceptable(s) = Len(got[s]) + HighWaterMark
  <2>1. Types /\ Held(s) /\ Len(got[s]) + Len(readable[s]) = readOffset[s]
    BY DEF IInv, Good, ReadUp
  <2>2. got[s] \in Seq(Nat)
    BY <2>1 DEF Types
  <2> DEFINE u == Len(got[s])
             v == Len(readable[s])
             w == ByteLength(incoming[s], readOffset[s])
  <2>3. u \in Nat
    BY <2>2, LenProperties
  <2>4. w \in Nat /\ v \in Nat
    BY <2>1, LengthIs
  <2>5. ~ (w > 0)
    BY DEF Left
  <2>6. ReadableLength(s) = v + w /\ Acceptable(s) = readOffset[s] + HighWaterMark - ReadableLength(s)
    BY DEF ReadableLength, Acceptable
  <2>7. f[s] = u /\ h[s] = ReadableLength(s) /\ u + v = readOffset[s]
    BY <2>1
  <2> HIDE DEF f, h, u, v, w
  <2>8. ReadableLength(s) = v
    BY <2>4, <2>5, <2>6
  <2>9. Acceptable(s) = u + HighWaterMark
    BY <2>3, <2>4, <2>6, <2>7, <2>8, Sizes
  <2> QED BY <2>3, <2>4, <2>7, <2>8, <2>9 DEF u
<1>4. a \in Int /\ d \in Int /\ c = a + d
  <2> HIDE DEF f, h
  <2>1. \A s \in Streams : f[s] \in Int /\ h[s] \in Int /\ readOffset[s] = f[s] + h[s]
    BY <1>3
  <2>2. a \in Int
    BY <2>1, Sizes, SumIsInt
  <2>3. d \in Int
    BY <2>1, Sizes, SumIsInt
  <2>4. c = a + d
    <3>1. \A s \in Streams : f[s] \in Int /\ h[s] \in Int /\ readOffset[s] = f[s] + h[s]
      BY <1>3
    <3>2. IsFiniteSet(Streams)
      BY Sizes
    <3> QED BY <3>1, <3>2, SumPlus
  <2> QED BY <2>2, <2>3, <2>4
<1>5. ConnectionAcceptable = c - d + PeerBufferSize /\ Room = a + PeerBufferSize
  BY <1>2 DEF ConnectionAcceptable, Room
<1> HIDE DEF a, c, d
<1>6. ConnectionAcceptable = Room
  BY <1>4, <1>5, Sizes
<1> QED BY <1>3, <1>6

\* No data that has arrived is past them.
WithoutRest == Existing = Streams /\ \A s \in Streams : ~ Left(s)
WithinLimits ==
  /\ \A s \in Streams : ~ (maxOffset[s] > Acceptable(s))
  /\ ~ (SumFunctionOnSet(maxOffset, Kept) > ConnectionAcceptable)

LEMMA NothingPast == IInv /\ ConnectionKept /\ WithoutRest => WithinLimits
<1> SUFFICES ASSUME IInv, ConnectionKept, Existing = Streams, \A s \in Streams : ~ Left(s)
               PROVE  WithinLimits
  BY DEF WithoutRest
<1>1. /\ ConnectionAcceptable = Room
      /\ \A s \in Streams : Acceptable(s) = Len(got[s]) + HighWaterMark
  BY LimitsWithoutRest
<1>2. ASSUME NEW s \in Streams
      PROVE  /\ maxOffset[s] \in Nat /\ outgoingOffset[s] \in Nat /\ maxOffset[s] <= outgoingOffset[s]
             /\ remoteMaxOffset[s] \in Nat /\ outgoingOffset[s] <= remoteMaxOffset[s]
             /\ remoteMaxOffset[s] <= Len(got[s]) + HighWaterMark /\ Len(got[s]) \in Nat
  <2>1. got[s] \in Seq(Nat)
    BY DEF IInv, Types
  <2>2. Len(got[s]) \in Nat
    BY <2>1, LenProperties
  <2> QED BY <2>2 DEF IInv, Good, Types, ReadUp, WindowKept
<1>3. ASSUME NEW s \in Streams PROVE ~ (maxOffset[s] > Acceptable(s))
  <2> DEFINE u == Len(got[s])
  <2>1. Acceptable(s) = u + HighWaterMark /\ u \in Nat /\ remoteMaxOffset[s] <= u + HighWaterMark
    BY <1>1, <1>2
  <2> HIDE DEF u
  <2> QED BY <1>2, <2>1, Sizes
<1>4. Kept = Streams
  BY DEF Existing, Kept, IInv, Good, Endings
<1> DEFINE a == SumFunctionOnSet(maxOffset, Streams)
           b == SumFunctionOnSet(outgoingOffset, Streams)
<1>5. a \in Int /\ b \in Int /\ a <= b
  <2>1. \A s \in Streams : maxOffset[s] \in Int /\ outgoingOffset[s] \in Int /\ maxOffset[s] <= outgoingOffset[s]
    BY <1>2
  <2> QED BY <2>1, Sizes, SumIsInt, SumAtMost
<1>6. b <= Room
  BY DEF ConnectionKept
<1>7. Room \in Int
  BY <1>1, RoomIs
<1> HIDE DEF a, b
<1>8. ~ (a > Room)
  BY <1>5, <1>6, <1>7
<1> QED BY <1>1, <1>3, <1>4, <1>8 DEF a, WithinLimits

\* The receiver destroys the connection for flow control only when a sorter has something left
\* that could be read, or a stream has been removed, if it buffers at least as much as the sender
\* takes it to.
THEOREM CutOffForCauseHolds ==
  ASSUME BufferSize <= PeerBufferSize
  PROVE  Spec => []CutOffForCause
<1>1. Init => CutOffForCause
  BY DEF Init, CutOffForCause
<1>2. ASSUME IInv, ConnectionKept, CutOffForCause, [Next]_vars
      PROVE  CutOffForCause'
  <2>1. IInv' /\ ConnectionKept'
    BY <1>2, NextKeeps, WindowKeeps
  <2>2. CASE Arrive
    <3> SUFFICES ASSUME failure' = "flow", Existing' = Streams, \A s \in Streams : ~ Left(s)'
                 PROVE  FALSE
      BY DEF CutOffForCause
    <3>1. /\ \A s \in Streams : ~ (maxOffset'[s] > Acceptable(s)')
          /\ ~ (SumFunctionOnSet(maxOffset', Kept') > ConnectionAcceptable')
      <4>1. IInv' /\ ConnectionKept' /\ WithoutRest' => WithinLimits'
        BY NothingPast, PTL
      <4>2. WithoutRest'
        BY DEF WithoutRest
      <4> QED BY <2>1, <4>1, <4>2 DEF WithinLimits
    <3>2. DOMAIN request.data \subseteq Streams
      BY <1>2 DEF IInv, Types, IsMap
    <3>3. \/ \E s \in DOMAIN request.data : maxOffset'[s] > Acceptable(s)'
          \/ SumFunctionOnSet(maxOffset', Kept) > ConnectionAcceptable'
      BY <2>2 DEF Arrive
    <3>4. Kept = Streams /\ Kept' = Streams
      <4>1. Existing = Streams
        BY <1>2, NoneComesBack
      <4> QED BY <1>2, <2>1, <4>1 DEF Existing, Kept, IInv, Good, Endings
    <3> QED BY <3>1, <3>2, <3>3, <3>4
  <2>3. CASE UNCHANGED vars
    BY <1>2, <2>3 DEF vars, CutOffForCause, Left, Existing, bufferVars
  <2>4. CASE failure' = failure /\ failure = "none"
    BY <2>4 DEF CutOffForCause
  <2>5. Arrive \/ UNCHANGED vars \/ (failure' = failure /\ failure = "none")
    BY <1>2 DEF Next, SenderStep, PathStep, PeerStep, Writing, Failing, loadAndSendPacket, Answered, BackoffOver,
           Respond, ReadMore, RemovePeer, Read, Announce, AnnouncementArrives, AnnouncementRefused, PeerGoesOn,
           Write, End, Finish, TemporaryError
  <2> QED BY <2>2, <2>3, <2>4, <2>5
<1>3. IInv /\ ConnectionKept /\ CutOffForCause /\ [Next]_vars => CutOffForCause'
  BY <1>2
<1>4. Init => ConnectionKept
  BY WindowAtFirst
<1>5. IInv /\ [Next]_vars /\ ConnectionKept => ConnectionKept'
  BY WindowKeeps
<1> QED BY <1>1, <1>3, <1>4, <1>5, IInvHolds, PTL DEF Spec
-----------------------------------------------------------------------------
(* The promise of a stream.                                                 *)

\* Chunks do not go back, and no chunks go nowhere.
LEMMA ChainGoesOn ==
  ASSUME NEW chunks \in Seq(Seq(Nat)), NEW from \in Nat, NEW to \in Nat, Chain(chunks, from, to)
  PROVE  from <= to /\ (chunks = <<>> => from = to)
<1>1. PICK cut : IsCut(cut, chunks, from, to)
  BY DEF Chain
<1>2. /\ \A i \in 0 .. Len(chunks) : cut[i] \in Nat /\ from <= cut[i] /\ cut[i] <= to
      /\ cut[0] = from /\ cut[Len(chunks)] = to /\ Len(chunks) \in Nat
  BY <1>1, CutIs
<1>3. 0 \in 0 .. Len(chunks)
  BY <1>2
<1>4. chunks = <<>> => Len(chunks) = 0
  OBVIOUS
<1> QED BY <1>2, <1>3, <1>4

\* When the queues of a stream are empty and it has not lost anything all has been read.
LEMMA AllThere ==
  ASSUME IInv, NEW s \in Streams, life[s] = "removed", s \notin DOMAIN request.data, ~ Lost(s),
         NoneAt(incoming[s], readOffset[s])
  PROVE  readOffset[s] = written[s]
<1>1. /\ readOffset[s] \in Nat /\ outgoingOffset[s] \in Nat /\ written[s] \in Nat
      /\ outgoing[s] \in Seq(Seq(Nat)) /\ incoming[s] \in Seq(Entries)
  BY DEF IInv, Types
<1>2. s \notin dropped /\ ~ Clogged(s)
  BY DEF Lost
<1>3. /\ outgoing[s] = <<>> /\ toRetry[s] = <<>> /\ readOffset[s] <= outgoingOffset[s]
      /\ Chain(outgoing[s], outgoingOffset[s], written[s])
      /\ \A i \in 1 .. Len(incoming[s]) : IsPiece(incoming[s][i], outgoingOffset[s])
      /\ \A i, j \in 1 .. Len(incoming[s]) : i < j => incoming[s][i].offset <= incoming[s][j].offset
  BY <1>2 DEF IInv, Good, Endings, ReadUp, Held, InOrder
<1>4. outgoingOffset[s] = written[s]
  BY <1>1, <1>3, ChainGoesOn
<1>5. readOffset[s] = outgoingOffset[s]
  <2> SUFFICES ASSUME readOffset[s] < outgoingOffset[s] PROVE FALSE
    BY <1>1, <1>3
  <2> DEFINE b == readOffset[s] + 1
  <2>1. b \in 1 .. outgoingOffset[s] /\ ~ (b <= readOffset[s])
    BY <1>1
  <2>2. ~ Waits(s, b) /\ ~ UnderWay(s, b)
    <3>1. 1 .. Len(toRetry[s]) = {}
      BY <1>3
    <3> QED BY <3>1 DEF Waits, UnderWay
  <2>3. Received(s, b)
    <3> HIDE DEF b
    <3> QED BY <1>2, <2>1, <2>2 DEF IInv, Good, Somewhere
  <2>4. PICK i \in 1 .. Len(incoming[s]) : In(incoming[s][i], b)
    BY <2>1, <2>3 DEF Received
  <2>5. i \in DOMAIN incoming[s] /\ incoming[s][i].offset \in Nat
    <3>1. IsPiece(incoming[s][i], outgoingOffset[s])
      BY <1>3
    <3> QED BY <3>1, <1>1, PieceIs, LenProperties
  <2>6. ~ (incoming[s][i].offset < readOffset[s]) /\ incoming[s][i].offset < readOffset[s] + 1
    BY <1>2, <2>4, <2>5 DEF Clogged, In
  <2>7. incoming[s][i].offset = readOffset[s]
    BY <2>5, <2>6, <1>1
  <2>8. 1 \in 1 .. Len(incoming[s]) /\ incoming[s] # <<>> /\ (i = 1 \/ 1 < i)
    <3>1. Len(incoming[s]) \in Nat
      BY <1>1, LenProperties
    <3> QED BY <3>1, <2>4
  <2>9. incoming[s][1].offset <= readOffset[s] /\ incoming[s][1].offset \in Nat
    <3>1. IsPiece(incoming[s][1], outgoingOffset[s])
      BY <2>8, <1>3
    <3>2. incoming[s][1].offset \in Nat
      BY <3>1, <1>1, PieceIs
    <3>3. 1 < i => incoming[s][1].offset <= incoming[s][i].offset
      BY <2>8, <1>3
    <3> QED BY <3>2, <3>3, <2>7, <2>8
  <2>10. ~ (incoming[s][1].offset < readOffset[s])
    <3>1. 1 \in DOMAIN incoming[s]
      BY <2>8, <1>1, LenProperties
    <3> QED BY <3>1, <1>2 DEF Clogged
  <2>11. incoming[s][1].offset = readOffset[s]
    BY <2>9, <2>10, <1>1
  <2> QED BY <2>8, <2>11 DEF NoneAt
<1> QED BY <1>4, <1>5

\* The first bytes are a prefix of more of them.
LEMMA BytesPrefix ==
  ASSUME NEW w \in Nat, NEW k \in Nat, k <= w
  PROVE  /\ SubSeq(Bytes(1, w), 1, k) = Bytes(1, k) /\ Len(Bytes(1, k)) = k /\ Len(Bytes(1, w)) = w
         /\ Pipe!IsPrefixOf(Bytes(1, k), Bytes(1, w))
<1>1. 1 \in Nat
  OBVIOUS
<1>2. Len(Bytes(1, k)) = k /\ Len(Bytes(1, w)) = w
  BY <1>1, BytesAre
<1>3. SubSeq(Bytes(1, w), 1, k) = Bytes(1, k)
  BY <1>1, BytesTaken DEF Take
<1> QED BY <1>2, <1>3 DEF Pipe!IsPrefixOf

\* A write is a write of the pipe.
LEMMA WriteMaps ==
  ASSUME IInv, IInv', NEW t \in Streams, NEW n \in ChunkSizes, Write(t, n)
  PROVE  Pipe!Write(t)
<1>1. n \in Nat /\ written[t] \in Nat /\ written \in [Streams -> Nat]
  BY DataAssumption DEF IInv, Types
<1>2. /\ written' = [written EXCEPT ![t] = @ + n] /\ readOffset' = readOffset /\ got' = got
      /\ incoming' = incoming /\ dropped' = dropped /\ status' = status /\ life[t] = "open"
  BY DEF Write, bufferVars
<1> DEFINE w == [s \in Streams |-> Bytes(1, written[s])]
           v == [s \in Streams |-> Bytes(1, written'[s])]
           e == [s \in Streams |-> status[s] # "open"]
           f == [s \in Streams |-> Lost(s)]
<1>3. Pipe!IsPrefixOf(w[t], v[t])
  <2> DEFINE a == written[t]
             b == written'[t]
  <2>1. a \in Nat /\ b \in Nat /\ a <= b
    BY <1>1, <1>2
  <2>2. w[t] = Bytes(1, a) /\ v[t] = Bytes(1, b)
    OBVIOUS
  <2> HIDE DEF a, b, w, v
  <2> QED BY <2>1, <2>2, BytesPrefix
<1>4. ~ e[t]
  BY <1>2 DEF IInv, Good, Endings
<1>5. \A s \in Streams \ {t} : v[s] = w[s]
  BY <1>1, <1>2
<1>6. f = [s \in Streams |-> Lost(s)'] /\ e = [s \in Streams |-> status'[s] # "open"]
  BY <1>2 DEF Lost, Clogged
<1> QED BY <1>2, <1>3, <1>4, <1>5, <1>6 DEF Pipe!Write

\* Any other step is an arrival.
LEMMA OtherMaps ==
  ASSUME IInv, IInv', \A s \in Streams : Onward(s), written' = written
  PROVE  Pipe!Arrive
<1> DEFINE w == [s \in Streams |-> Bytes(1, written[s])]
           e == [s \in Streams |-> status[s] # "open"]
           d == [s \in Streams |-> status'[s] # "open"]
           f == [s \in Streams |-> Lost(s)]
           h == [s \in Streams |-> Lost(s)']
<1>1. ASSUME NEW s \in Streams
      PROVE  /\ readOffset[s] <= readOffset'[s] /\ readOffset'[s] <= Len(w[s])
             /\ Pipe!IsPrefixOf(got[s], got'[s]) /\ Pipe!IsPrefixOf(got'[s], SubSeq(w[s], 1, readOffset'[s]))
             /\ e[s] => readOffset'[s] = readOffset[s] /\ d[s]
             /\ d[s] => e[s] \/ f[s] \/ readOffset'[s] = Len(w[s])
             /\ f[s] => h[s]
  <2> DEFINE W == written[s]
             o == readOffset[s]
             p == readOffset'[s]
             k == Len(got[s])
             m == Len(got'[s])
  <2>1. /\ o \in Nat /\ p \in Nat /\ W \in Nat /\ o <= p
        /\ status[s] # "open" => p = o /\ status'[s] # "open"
    BY DEF IInv, Types, Onward
  <2>2. k \in Nat /\ m \in Nat /\ k <= m /\ got[s] = Bytes(1, k) /\ got'[s] = Bytes(1, m)
    <3>1. got \in [Streams -> Seq(Nat)] /\ got' \in [Streams -> Seq(Nat)]
      BY DEF IInv, Types
    <3>2. k \in Nat /\ m \in Nat
      BY <3>1
    <3> QED BY <3>2 DEF IInv, Good, ReadUp, Onward
  <2>3. m <= p /\ p <= W
    <3> DEFINE r == Len(readable'[s])
               N == outgoingOffset'[s]
    <3>1. r \in Nat /\ N \in Nat
      <4>1. readable' \in [Streams -> Seq(Nat)] /\ outgoingOffset' \in [Streams -> Nat]
        BY DEF IInv, Types
      <4> QED BY <4>1
    <3>2. m + r = p /\ p <= N
      BY DEF IInv, Good, ReadUp
    <3>3. N <= W
      <4>1. Chain(outgoing'[s], outgoingOffset'[s], written'[s])
        BY DEF IInv, Good, Held
      <4>2. outgoing'[s] \in Seq(Seq(Nat)) /\ written'[s] \in Nat /\ outgoingOffset'[s] \in Nat
        BY DEF IInv, Types
      <4>3. outgoingOffset'[s] <= written'[s]
        BY <4>1, <4>2, ChainGoesOn
      <4> QED BY <4>3
    <3> HIDE DEF r, N, m, p, W
    <3> QED BY <3>1, <3>2, <3>3, <2>1, <2>2
  <2>4. w[s] = Bytes(1, W)
    OBVIOUS
  <2>5. status'[s] # "open" => status[s] # "open" \/ Lost(s) \/ o = W
    BY AllThere DEF Onward
  <2>6. Lost(s) => Lost(s)'
    BY DEF Onward
  <2>7. /\ e[s] <=> status[s] # "open"
        /\ d[s] <=> status'[s] # "open"
        /\ f[s] <=> Lost(s)
        /\ h[s] <=> Lost(s)'
    OBVIOUS
  <2> HIDE DEF W, o, p, k, m, w, e, d, f, h
  <2>8. Len(w[s]) = W /\ SubSeq(w[s], 1, p) = Bytes(1, p)
    BY <2>1, <2>3, <2>4, BytesPrefix
  <2>9. Pipe!IsPrefixOf(got[s], got'[s]) /\ Pipe!IsPrefixOf(got'[s], SubSeq(w[s], 1, p))
    BY <2>1, <2>2, <2>3, <2>8, BytesPrefix
  <2>10. (status'[s] # "open") => (status[s] # "open" \/ Lost(s) \/ p = W)
    BY <2>1, <2>3, <2>5
  <2>11. /\ e[s] => p = o /\ d[s]
         /\ d[s] => e[s] \/ f[s] \/ p = Len(w[s])
         /\ f[s] => h[s]
    BY <2>1, <2>6, <2>7, <2>8, <2>10
  <2> QED BY <2>1, <2>3, <2>8, <2>9, <2>11 DEF o, p
<1>2. w = [s \in Streams |-> Bytes(1, written'[s])]
  OBVIOUS
<1> HIDE DEF w, e, d, f, h
<1> QED BY <1>1, <1>2 DEF Pipe!Arrive, w, e, d, f, h

\* The steps that are not writes leave what is written alone.
LEMMA WritesAlone == ASSUME [Next]_vars
                     PROVE  written' = written \/ \E s \in Streams : \E n \in ChunkSizes : Write(s, n)
BY DEF Next, SenderStep, PathStep, PeerStep, Writing, Failing, loadAndSendPacket, Answered, BackoffOver, Finish,
       End, Arrive, Respond, ReadMore, RemovePeer, Read, Announce, AnnouncementArrives, AnnouncementRefused, TemporaryError,
       vars

\* The two ends of a connection, the packets between them with all their rejections, and the two
\* kinds of flow control implement what a Node stream promises: bytes arrive in order and once,
\* and the reader sees the end after all of them, unless the stream has lost some.
THEOREM DataImplementsPipe == Spec => Implements
<1>1. Init => Pipe!Init
  <2> SUFFICES ASSUME Init PROVE Pipe!Init
    OBVIOUS
  <2>1. /\ written = [s \in Streams |-> 0] /\ readOffset = [s \in Streams |-> 0]
        /\ got = [s \in Streams |-> <<>>] /\ incoming = [s \in Streams |-> <<>>]
        /\ status = [s \in Streams |-> "open"] /\ dropped = {}
    BY DEF Init, Zero, Empty
  <2>2. Bytes(1, 0) = <<>>
    BY NoBytes
  <2>3. [s \in Streams |-> Bytes(1, written[s])] = [s \in Streams |-> <<>>]
    BY <2>1, <2>2
  <2>4. [s \in Streams |-> status[s] # "open"] = [s \in Streams |-> FALSE]
    BY <2>1
  <2>5. \A s \in Streams : Lost(s) = FALSE
    BY <2>1 DEF Lost, Clogged
  <2>6. [s \in Streams |-> Lost(s)] = [s \in Streams |-> FALSE]
    BY <2>5
  <2> QED BY <2>1, <2>3, <2>4, <2>6 DEF Pipe!Init
<1>2. IInv /\ [Next]_vars => [Pipe!Next]_(Pipe!vars)
  <2> SUFFICES ASSUME IInv, [Next]_vars PROVE Pipe!Next
    OBVIOUS
  <2>1. IInv' /\ \A s \in Streams : Onward(s)
    BY NextKeeps
  <2>2. CASE written' = written
    <3>1. Pipe!Arrive
      BY <2>1, <2>2, OtherMaps
    <3> QED BY <3>1 DEF Pipe!Next
  <2>3. CASE \E s \in Streams : \E n \in ChunkSizes : Write(s, n)
    <3>1. \E s \in Streams : Pipe!Write(s)
      BY <2>1, <2>3, WriteMaps
    <3> QED BY <3>1 DEF Pipe!Next
  <2> QED BY <2>2, <2>3, WritesAlone
<1> QED BY <1>1, <1>2, IInvHolds, PTL DEF Spec, Implements, Pipe!Spec
=============================================================================
