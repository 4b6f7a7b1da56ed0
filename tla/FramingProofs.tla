--------------------------- MODULE FramingProofs ---------------------------
(***************************************************************************)
(* The byte stream implements the channel of whole messages, for every     *)
(* width of a size, all messages, any capacity of the socket and any       *)
(* number of messages, however the bytes are split and whoever goes away.  *)
(* That a size survives its conversion to bytes and back is a hypothesis.  *)
(***************************************************************************)
EXTENDS Framing, SequenceTheorems, TLAPS

-----------------------------------------------------------------------------
(* Sequences *)

\* The two parts of a sequence make it up.
LEMMA TakeDrop ==
    ASSUME NEW S, NEW s \in Seq(S), NEW k \in 0 .. Len(s)
    PROVE  /\ Take(s, k) \in Seq(S) /\ Len(Take(s, k)) = k
           /\ Drop(s, k) \in Seq(S) /\ Len(Drop(s, k)) = Len(s) - k
           /\ Take(s, k) \o Drop(s, k) = s
  <1>1. \A i \in 1 .. Len(s) : s[i] \in S
    BY ElementOfSeq
  <1>2. /\ Take(s, k) \in Seq(S) /\ Len(Take(s, k)) = k
        /\ \A i \in 1 .. k : Take(s, k)[i] = s[i]
    BY <1>1, SubSeqProperties DEF Take
  <1>3. /\ Drop(s, k) \in Seq(S) /\ Len(Drop(s, k)) = Len(s) - k
        /\ \A i \in 1 .. Len(s) - k : Drop(s, k)[i] = s[k + i]
    BY <1>1, SubSeqProperties DEF Drop
  <1>4. Take(s, k) \o Drop(s, k) = s
    <2> DEFINE a == Take(s, k)
               b == Drop(s, k)
    <2> HIDE DEF a, b
    <2>1. /\ a \o b \in Seq(S) /\ Len(a \o b) = Len(s)
          /\ \A i \in 1 .. Len(s) : (a \o b)[i] = IF i <= k THEN a[i] ELSE b[i - k]
      BY <1>2, <1>3, ConcatProperties DEF a, b
    <2>2. \A i \in 1 .. Len(s) : (a \o b)[i] = s[i]
      BY <1>2, <1>3, <2>1 DEF a, b
    <2> QED
      BY <2>1, <2>2, SeqEqual DEF a, b
  <1> QED
    BY <1>2, <1>3, <1>4

\* A sequence has one first part of a given length.
LEMMA SplitOnce ==
    ASSUME NEW S, NEW a \in Seq(S), NEW b \in Seq(S), NEW c \in Seq(S), NEW d \in Seq(S),
           Len(a) = Len(c), a \o b = c \o d
    PROVE  a = c /\ b = d
  <1>1. a = c
    <2>1. \A i \in 1 .. Len(a) : a[i] = (a \o b)[i] /\ c[i] = (c \o d)[i]
      BY ConcatProperties
    <2> QED
      BY <2>1, SeqEqual
  <1> QED
    BY <1>1, ConcatSimplifications

\* The parts of a concatenation.
LEMMA TakeDropConcat ==
    ASSUME NEW S, NEW a \in Seq(S), NEW b \in Seq(S)
    PROVE  Take(a \o b, Len(a)) = a /\ Drop(a \o b, Len(a)) = b
  <1>1. a \o b \in Seq(S) /\ Len(a) \in 0 .. Len(a \o b)
    BY ConcatProperties, LenProperties
  <1> DEFINE k == Len(a)
  <1>2. /\ Take(a \o b, k) \in Seq(S) /\ Len(Take(a \o b, k)) = k
        /\ Drop(a \o b, k) \in Seq(S)
        /\ Take(a \o b, k) \o Drop(a \o b, k) = a \o b
    BY <1>1, TakeDrop
  <1> QED
    BY <1>2, SplitOnce

\* What is dropped when an element comes in at the end, and one more at the
\* front.
LEMMA DropMore ==
    ASSUME NEW S, NEW s \in Seq(S), NEW k \in 0 .. Len(s)
    PROVE  /\ \A x \in S : Drop(Append(s, x), k) = Append(Drop(s, k), x)
           /\ k < Len(s) => Drop(s, k) # <<>> /\ Drop(s, k + 1) = Tail(Drop(s, k))
  <1>1. Drop(s, k) \in Seq(S) /\ Len(Drop(s, k)) = Len(s) - k
    BY TakeDrop
  <1>2. \A i \in 1 .. Len(s) : s[i] \in S
    BY ElementOfSeq
  <1>3. \A i \in 1 .. Len(s) - k : Drop(s, k)[i] = s[k + i]
    BY <1>2, SubSeqProperties DEF Drop
  <1>4. ASSUME NEW x \in S
        PROVE  Drop(Append(s, x), k) = Append(Drop(s, k), x)
    <2>1. /\ Append(s, x) \in Seq(S) /\ Len(Append(s, x)) = Len(s) + 1
          /\ \A i \in 1 .. Len(s) : Append(s, x)[i] = s[i]
          /\ Append(s, x)[Len(s) + 1] = x
      OBVIOUS
    <2>2. /\ Append(Drop(s, k), x) \in Seq(S) /\ Len(Append(Drop(s, k), x)) = Len(s) - k + 1
          /\ \A i \in 1 .. Len(s) - k : Append(Drop(s, k), x)[i] = Drop(s, k)[i]
          /\ Append(Drop(s, k), x)[Len(s) - k + 1] = x
      BY <1>1
    <2>3. /\ Drop(Append(s, x), k) \in Seq(S) /\ Len(Drop(Append(s, x), k)) = Len(s) + 1 - k
          /\ \A i \in 1 .. Len(s) + 1 - k : Drop(Append(s, x), k)[i] = Append(s, x)[k + i]
      <3>1. \A i \in 1 .. Len(s) + 1 : Append(s, x)[i] \in S
        BY <2>1, ElementOfSeq
      <3> QED
        BY <2>1, <3>1, SubSeqProperties DEF Drop
    <2> DEFINE a == Drop(Append(s, x), k)
               b == Append(Drop(s, k), x)
    <2>4. ASSUME NEW i \in 1 .. Len(s) + 1 - k
          PROVE  a[i] = b[i]
      <3>1. a[i] = Append(s, x)[k + i]
        BY <2>3
      <3>2. CASE i \in 1 .. Len(s) - k
        <4>1. b[i] = s[k + i]
          BY <1>3, <2>2, <3>2
        <4>2. k + i \in 1 .. Len(s)
          BY <3>2
        <4> QED
          BY <2>1, <3>1, <4>1, <4>2
      <3>3. CASE i = Len(s) - k + 1
        <4>1. k + i = Len(s) + 1
          BY <3>3
        <4> QED
          BY <2>1, <2>2, <3>1, <3>3, <4>1
      <3>4. i \in 1 .. Len(s) - k \/ i = Len(s) - k + 1
        <4>1. Len(s) \in Nat
          BY LenProperties
        <4> QED
          BY <4>1
      <3> QED
        BY <3>2, <3>3, <3>4, Zenon
    <2>5. a \in Seq(S) /\ b \in Seq(S) /\ Len(a) = Len(b) /\ Len(a) = Len(s) + 1 - k
      BY <2>2, <2>3
    <2> HIDE DEF a, b
    <2>6. a = b
      BY <2>4, <2>5, SeqEqual
    <2> QED
      BY <2>6 DEF a, b
  <1>5. ASSUME k < Len(s)
        PROVE  Drop(s, k) # <<>> /\ Drop(s, k + 1) = Tail(Drop(s, k))
    <2>1. Drop(s, k) # <<>>
      BY <1>1, <1>5, EmptySeq
    <2>2. /\ Drop(s, k + 1) \in Seq(S) /\ Len(Drop(s, k + 1)) = Len(s) - (k + 1)
          /\ \A i \in 1 .. Len(s) - (k + 1) : Drop(s, k + 1)[i] = s[k + 1 + i]
      BY <1>2, <1>5, SubSeqProperties DEF Drop
    <2>3. /\ Tail(Drop(s, k)) \in Seq(S) /\ Len(Tail(Drop(s, k))) = Len(s) - k - 1
          /\ \A i \in 1 .. Len(s) - k - 1 : Tail(Drop(s, k))[i] = Drop(s, k)[i + 1]
      BY <1>1, <2>1, HeadTailProperties
    <2>4. \A i \in 1 .. Len(s) - (k + 1) : Drop(s, k + 1)[i] = Tail(Drop(s, k))[i]
      BY <1>3, <1>5, <2>2, <2>3
    <2> DEFINE a == Drop(s, k + 1)
               b == Tail(Drop(s, k))
    <2>5. a \in Seq(S) /\ b \in Seq(S) /\ Len(a) = Len(b) /\ Len(a) = Len(s) - (k + 1)
      BY <2>2, <2>3
    <2>6. \A i \in 1 .. Len(a) : a[i] = b[i]
      BY <2>4, <2>5
    <2> HIDE DEF a, b
    <2>7. a = b
      BY <2>5, <2>6, SeqEqual
    <2> QED
      BY <2>1, <2>7 DEF a, b
  <1> QED
    BY <1>4, <1>5

\* The smaller of two numbers.
LEMMA MinFacts ==
    ASSUME NEW a \in Int, NEW b \in Int
    PROVE  /\ Min({a, b}) \in Int /\ Min({a, b}) <= a /\ Min({a, b}) <= b
           /\ Min({a, b}) = a \/ Min({a, b}) = b
           /\ a <= b => Min({a, b}) = a
  <1>1. \E x \in {a, b} : \A y \in {a, b} : x =< y
    OBVIOUS
  <1> QED
    BY <1>1 DEF Min
-----------------------------------------------------------------------------
(* The encodings of messages *)

\* x is the encodings of the messages of T, one after the other, and then y.
Chain(T, x, y) ==
    \E s \in [Nat -> Seq(Byte)] :
        /\ s[0] = x /\ s[Len(T)] = y
        /\ \A i \in 1 .. Len(T) : s[i - 1] = Encode(T[i]) \o s[i]

\* The encoding of m without its end, which is left.
Part(y, m, left) ==
    /\ left # <<>>
    /\ \E a \in Seq(Byte) : m = a \o left /\ y = PutUint64(Len(m)) \o a

\* Brackets do not matter.
LEMMA Brackets ==
    ASSUME NEW a \in Seq(Byte), NEW b \in Seq(Byte), NEW c \in Seq(Byte)
    PROVE  (a \o b) \o c = a \o (b \o c)
  OBVIOUS

\* A string of bytes is split in one way.
LEMMA SplitBytes ==
    \A a, b, c, d \in Seq(Byte) : Len(a) = Len(c) /\ a \o b = c \o d => a = c /\ b = d
  BY SplitOnce

\* A size has HeaderLen bytes.
LEMMA HeaderFacts ==
    ASSUME NEW n \in Sizes
    PROVE  PutUint64(n) \in Seq(Byte) /\ Len(PutUint64(n)) = HeaderLen
  <1>1. HeaderLen \in Nat
    BY BytesAssumption
  <1>2. \A i \in 1 .. HeaderLen : (n \div Base ^ (i - 1)) % Base \in Byte
    BY BytesAssumption DEF Byte, Sizes
  <1> QED
    BY <1>1, <1>2 DEF PutUint64

\* A message and its encoding.
LEMMA EncodeFacts ==
    ASSUME NEW m \in Message
    PROVE  /\ m \in Seq(Byte) /\ Len(m) \in Sizes
           /\ Encode(m) \in Seq(Byte) /\ Len(Encode(m)) = HeaderLen + Len(m)
  <1>1. m \in Seq(Byte) /\ Len(m) \in Sizes
    BY MessageAssumption
  <1> QED
    BY <1>1, HeaderFacts, ConcatProperties DEF Encode

\* No messages.
LEMMA ChainEmpty ==
    ASSUME NEW x \in Seq(Byte)
    PROVE  /\ Chain(<<>>, x, x)
           /\ \A y : Chain(<<>>, x, y) => x = y
  <1>1. Chain(<<>>, x, x)
    <2> DEFINE s == [i \in Nat |-> x]
    <2>1. s \in [Nat -> Seq(Byte)] /\ s[0] = x
      OBVIOUS
    <2>2. Len(<<>>) = 0
      OBVIOUS
    <2>3. \A i \in 1 .. 0 : s[i - 1] = Encode(<<>>[i]) \o s[i]
      OBVIOUS
    <2> HIDE DEF s
    <2> QED
      BY <2>1, <2>2, <2>3 DEF Chain
  <1> QED
    BY <1>1 DEF Chain

\* More bytes come in at the end.
LEMMA ChainExtend ==
    ASSUME NEW T \in Seq(Message), NEW x \in Seq(Byte), NEW y \in Seq(Byte), Chain(T, x, y),
           NEW z \in Seq(Byte)
    PROVE  Chain(T, x \o z, y \o z)
  <1>0. \A e, v \in Seq(Byte) : (e \o v) \o z = e \o (v \o z)
    OBVIOUS
  <1>1. PICK s \in [Nat -> Seq(Byte)] :
               /\ s[0] = x /\ s[Len(T)] = y
               /\ \A i \in 1 .. Len(T) : s[i - 1] = Encode(T[i]) \o s[i]
    BY DEF Chain
  <1> DEFINE u == [i \in Nat |-> s[i] \o z]
  <1>2. u \in [Nat -> Seq(Byte)]
    BY ConcatProperties
  <1>3. Len(T) \in Nat
    BY LenProperties
  <1>4. u[0] = x \o z /\ u[Len(T)] = y \o z
    BY <1>1, <1>3
  <1>5. ASSUME NEW i \in 1 .. Len(T)
        PROVE  u[i - 1] = Encode(T[i]) \o u[i]
    <2>1. i \in Nat /\ i - 1 \in Nat /\ T[i] \in Message
      BY <1>3, ElementOfSeq
    <2>2. Encode(T[i]) \in Seq(Byte)
      BY <2>1, EncodeFacts
    <2>3. (Encode(T[i]) \o s[i]) \o z = Encode(T[i]) \o (s[i] \o z)
      <3>1. s[i] \in Seq(Byte)
        BY <2>1
      <3> QED
        BY <1>0, <2>2, <3>1, Zenon
    <2> QED
      BY <1>1, <2>1, <2>3
  <1> HIDE DEF u
  <1> QED
    BY <1>2, <1>4, <1>5 DEF Chain

\* The rest has become a whole message.
LEMMA ChainAppend ==
    ASSUME NEW T \in Seq(Message), NEW x \in Seq(Byte), NEW m \in Message, Chain(T, x, Encode(m))
    PROVE  Chain(Append(T, m), x, <<>>)
  <1>1. PICK n \in Nat : n = Len(T)
    BY LenProperties
  <1>2. PICK s \in [Nat -> Seq(Byte)] :
               /\ s[0] = x /\ s[n] = Encode(m)
               /\ \A i \in 1 .. n : s[i - 1] = Encode(T[i]) \o s[i]
    BY <1>1 DEF Chain
  <1>3. /\ Len(Append(T, m)) = n + 1 /\ Append(T, m)[n + 1] = m
        /\ \A i \in 1 .. n : Append(T, m)[i] = T[i]
    BY <1>1
  <1> DEFINE u == [s EXCEPT ![n + 1] = <<>>]
  <1>4. u \in [Nat -> Seq(Byte)]
    BY EmptySeq
  <1>5. u[0] = x /\ u[n + 1] = <<>> /\ u[n] = Encode(m)
    BY <1>2
  <1>6. ASSUME NEW i \in 1 .. n + 1
        PROVE  u[i - 1] = Encode(Append(T, m)[i]) \o u[i]
    <2>1. CASE i = n + 1
      <3>1. Encode(m) \o <<>> = Encode(m)
        BY EncodeFacts, ConcatEmptySeq
      <3>2. i - 1 = n
        BY <2>1
      <3> HIDE DEF u
      <3> QED
        BY <1>3, <1>5, <2>1, <3>1, <3>2
    <2>2. CASE i \in 1 .. n
      <3>1. /\ i \in Nat /\ i # n + 1
            /\ i - 1 \in Nat /\ i - 1 # n + 1
        BY <2>2
      <3>2. u[i] = s[i] /\ u[i - 1] = s[i - 1]
        BY <3>1
      <3> HIDE DEF u
      <3> QED
        BY <1>2, <1>3, <2>2, <3>2
    <2>3. i = n + 1 \/ i \in 1 .. n
      OBVIOUS
    <2> QED
      BY <2>1, <2>2, <2>3, Zenon
  <1> HIDE DEF u
  <1> QED
    BY <1>3, <1>4, <1>5, <1>6 DEF Chain

\* The first message comes first.
LEMMA ChainTail ==
    ASSUME NEW T \in Seq(Message), NEW x \in Seq(Byte), NEW y, Chain(T, x, y), T # <<>>
    PROVE  \E z \in Seq(Byte) : x = Encode(Head(T)) \o z /\ Chain(Tail(T), z, y)
  <1>1. PICK s \in [Nat -> Seq(Byte)] :
               /\ s[0] = x /\ s[Len(T)] = y
               /\ \A i \in 1 .. Len(T) : s[i - 1] = Encode(T[i]) \o s[i]
    BY DEF Chain
  <1>2. Len(T) \in Nat /\ Len(T) > 0 /\ Head(T) = T[1]
    BY EmptySeq
  <1>3. /\ Len(Tail(T)) = Len(T) - 1
        /\ \A i \in 1 .. Len(T) - 1 : Tail(T)[i] = T[i + 1]
    BY HeadTailProperties
  <1>4. x = Encode(Head(T)) \o s[1]
    <2>1. 1 \in 1 .. Len(T) /\ 1 - 1 = 0
      BY <1>2
    <2>2. s[1 - 1] = Encode(T[1]) \o s[1]
      BY <1>1, <2>1, Zenon
    <2> QED
      BY <1>1, <1>2, <2>1, <2>2
  <1> DEFINE u == [i \in Nat |-> s[i + 1]]
  <1>5. u \in [Nat -> Seq(Byte)]
    OBVIOUS
  <1>6. u[0] = s[1] /\ u[Len(T) - 1] = y
    BY <1>1, <1>2
  <1>7. ASSUME NEW i \in 1 .. Len(T) - 1
        PROVE  u[i - 1] = Encode(Tail(T)[i]) \o u[i]
    <2>1. i + 1 \in 1 .. Len(T) /\ (i + 1) - 1 = i /\ i \in Nat /\ i - 1 \in Nat /\ (i - 1) + 1 = i
      BY <1>2
    <2>2. s[i] = Encode(T[i + 1]) \o s[i + 1]
      BY <1>1, <2>1
    <2> QED
      BY <1>3, <2>1, <2>2
  <1> HIDE DEF u
  <1>8. Chain(Tail(T), s[1], y)
    BY <1>3, <1>5, <1>6, <1>7 DEF Chain
  <1> QED
    BY <1>4, <1>8
-----------------------------------------------------------------------------
(* The inductive invariant *)

TypeInv ==
    /\ w \in [pc : {"idle", "size", "body", "gone", "reset"}, msg : Seq(Byte), left : Seq(Byte)]
    /\ w.pc \in {"size", "body"} => w.msg \in Message
    /\ w.pc = "size" => w.left = w.msg
    /\ stream \in Seq(Byte)
    /\ r \in [pc : {"size", "body", "error", "gone"}, missing : Nat, buffer : Seq(Byte)]
    /\ r.pc = "body" => r.missing > 0 /\ r.missing + Len(r.buffer) \in Sizes
    /\ sent \in Seq(Message) /\ received \in Seq(Seq(Byte)) /\ Len(received) <= Len(sent)

\* What the reader has taken of a message.
Taken == IF r.pc = "body" THEN PutUint64(r.missing + Len(r.buffer)) \o r.buffer ELSE <<>>

\* What follows the last whole message: the beginning of the one that is being
\* written, or of one that its writer did not finish.
Rest(y) ==
    /\ w.pc = "body" => Part(y, w.msg, w.left)
    /\ w.pc \in {"idle", "size"} => y = <<>>
    /\ ~WriterUp => y = <<>> \/ \E m \in Message, left \in Seq(Byte) : Part(y, m, left)

\* The reader is in step.
StepInv == ReaderUp => \E y \in Seq(Byte) : Chain(Transit, Taken \o stream, y) /\ Rest(y)

Inv == TypeInv /\ StepInv

\* What the reader has taken is a string of bytes.
LEMMA TakenFacts ==
    ASSUME TypeInv
    PROVE  Taken \in Seq(Byte) /\ Taken \o stream \in Seq(Byte)
  <1>1. Taken \in Seq(Byte)
    <2>1. CASE r.pc = "body"
      <3>1. PutUint64(r.missing + Len(r.buffer)) \in Seq(Byte) /\ r.buffer \in Seq(Byte)
        BY <2>1, HeaderFacts DEF TypeInv
      <3> QED
        BY <2>1, <3>1, ConcatProperties DEF Taken
    <2> QED
      BY <2>1, EmptySeq DEF Taken
  <1> QED
    BY <1>1, ConcatProperties DEF TypeInv

\* More bytes come in.
LEMMA MoreStream ==
    ASSUME TypeInv, NEW z \in Seq(Byte)
    PROVE  Taken \o (stream \o z) = (Taken \o stream) \o z
  <1>1. PICK b \in Seq(Byte), c \in Seq(Byte) : b = Taken /\ c = stream
    BY TakenFacts DEF TypeInv
  <1>2. (b \o c) \o z = b \o (c \o z)
    BY Brackets
  <1> QED
    BY <1>1, <1>2

\* The messages in transit.
LEMMA TransitFacts ==
    ASSUME TypeInv
    PROVE  Transit \in Seq(Message)
  <1>1. Len(received) \in 0 .. Len(sent)
    BY LenProperties DEF TypeInv
  <1>2. Drop(sent, Len(received)) \in Seq(Message)
    BY <1>1, TakeDrop DEF TypeInv
  <1> QED
    BY <1>2, EmptySeq DEF Transit

\* A beginning is shorter than its size says.
LEMMA PartFacts ==
    ASSUME NEW y, NEW m \in Message, NEW left \in Seq(Byte), Part(y, m, left)
    PROVE  \E n \in Sizes, a \in Seq(Byte) : y = PutUint64(n) \o a /\ Len(a) < n
  <1>1. PICK a \in Seq(Byte) : left # <<>> /\ m = a \o left /\ y = PutUint64(Len(m)) \o a
    BY DEF Part
  <1>2. Len(left) > 0 /\ Len(left) \in Nat /\ Len(a) \in Nat
    BY <1>1, EmptySeq, LenProperties
  <1>3. Len(m) = Len(a) + Len(left)
    BY <1>1, ConcatProperties
  <1>4. Len(m) \in Sizes
    BY EncodeFacts
  <1>5. Len(a) < Len(m)
    BY <1>2, <1>3
  <1> QED
    BY <1>1, <1>4, <1>5

\* What the reader and the stream hold begins with a size, if it is not empty:
\* that of the first message in transit or, if there is none, that of a message
\* which is not there completely.
LEMMA WhatComesNext ==
    ASSUME TypeInv, NEW x \in Seq(Byte), NEW y \in Seq(Byte), Chain(Transit, x, y), Rest(y)
    PROVE  \/ Transit = <<>> /\ x = <<>>
           \/ /\ Transit = <<>>
              /\ \E n \in Sizes, z \in Seq(Byte) : x = PutUint64(n) \o z /\ Len(z) < n
           \/ /\ Transit # <<>>
              /\ \E z \in Seq(Byte) : /\ x = PutUint64(Len(Head(Transit))) \o (Head(Transit) \o z)
                                      /\ Chain(Tail(Transit), z, y)
  <1>1. CASE Transit = <<>>
    <2>1. x = y
      BY <1>1, ChainEmpty
    <2>2. y = <<>> \/ \E m \in Message, left \in Seq(Byte) : Part(y, m, left)
      BY DEF Rest, WriterUp, TypeInv
    <2> QED
      BY <1>1, <2>1, <2>2, PartFacts
  <1>2. CASE Transit # <<>>
    <2>1. PICK m \in Message : m = Head(Transit)
      BY <1>2, TransitFacts, HeadTailProperties
    <2>2. PICK z \in Seq(Byte) : x = Encode(m) \o z /\ Chain(Tail(Transit), z, y)
      BY <1>2, <2>1, TransitFacts, ChainTail
    <2>3. m \in Seq(Byte) /\ PutUint64(Len(m)) \in Seq(Byte)
      BY EncodeFacts, HeaderFacts
    <2>4. (PutUint64(Len(m)) \o m) \o z = PutUint64(Len(m)) \o (m \o z)
      BY <2>3, Brackets, Zenon
    <2> QED
      BY <1>2, <2>1, <2>2, <2>4 DEF Encode
  <1> QED
    BY <1>1, <1>2
-----------------------------------------------------------------------------
(* Steps *)

\* A step of Channel or none.
ChannelStep == [C!Next]_(C!vars)

\* A step that changes nothing that Channel has.
LEMMA StutterStep ==
    ASSUME Transit' = Transit, received' = received, WriterUp' = WriterUp, ReaderUp' = ReaderUp
    PROVE  ChannelStep
  BY DEF ChannelStep, C!vars

\* A step of the writer that writes nothing.
LEMMA WriterFrames ==
    ASSUME StepInv, UNCHANGED <<stream, r, sent, received>>,
           \A y \in Seq(Byte) : Rest(y) => Rest(y)'
    PROVE  StepInv'
  <1>1. Transit' = Transit /\ Taken' = Taken /\ ReaderUp' = ReaderUp
    BY DEF Transit, Taken, ReaderUp
  <1> QED
    BY <1>1 DEF StepInv

\* writeToSocket or writeMsg is called.
LEMMA CallStep ==
    ASSUME Inv, NEW m \in Message, call(m)
    PROVE  Inv' /\ ChannelStep
  <1>1. TypeInv'
    BY EncodeFacts DEF Inv, TypeInv, call
  <1>2. \A y \in Seq(Byte) : Rest(y) => Rest(y)'
    BY DEF Rest, call, WriterUp
  <1>3. StepInv'
    BY <1>2, WriterFrames DEF Inv, call
  <1>4. ChannelStep
    <2>1. Transit' = Transit /\ WriterUp' = WriterUp /\ ReaderUp' = ReaderUp /\ received' = received
      BY DEF call, Transit, WriterUp, ReaderUp
    <2> QED
      BY <2>1, StutterStep
  <1> QED
    BY <1>1, <1>3, <1>4 DEF Inv

\* The writing end goes away.
LEMMA WriterGoneStep ==
    ASSUME Inv, writerGone
    PROVE  Inv' /\ ChannelStep
  <1>1. PICK pc \in {"gone", "reset"} : w' = [pc |-> pc, msg |-> <<>>, left |-> <<>>]
    BY DEF writerGone, Idle
  <1>2. TypeInv'
    BY <1>1, EmptySeq DEF Inv, TypeInv, writerGone
  <1>3. ASSUME NEW y \in Seq(Byte), Rest(y)
        PROVE  Rest(y)'
    <2>1. y = <<>> \/ \E m \in Message, left \in Seq(Byte) : Part(y, m, left)
      BY <1>3 DEF Rest, Inv, TypeInv, writerGone, WriterUp
    <2> QED
      BY <1>1, <2>1 DEF Rest
  <1>4. StepInv'
    BY <1>3, WriterFrames DEF Inv, writerGone
  <1>5. /\ Transit' = Transit /\ ReaderUp' = ReaderUp /\ received' = received
        /\ WriterUp /\ ~WriterUp'
    BY <1>1 DEF writerGone, Transit, WriterUp, ReaderUp
  <1>6. C!CloseWriter
    BY <1>5 DEF C!CloseWriter
  <1> QED
    BY <1>2, <1>4, <1>6 DEF Inv, ChannelStep, C!Next

\* One write: z goes into the stream, left is still to be written.  With the
\* last byte the message is sent.
LEMMA WriteStep ==
    ASSUME Inv, w.pc \in {"size", "body"}, ReaderUp, NEW z \in Seq(Byte), NEW left \in Seq(Byte),
           stream' = stream \o z, WriteOn(left), UNCHANGED <<direction, r, received>>,
           \A y \in Seq(Byte) : Rest(y) =>
               \E a \in Seq(Byte) : w.msg = a \o left /\ y \o z = PutUint64(Len(w.msg)) \o a
    PROVE  Inv' /\ ChannelStep
  <1>1. PICK m \in Message : m = w.msg
    BY DEF Inv, TypeInv
  <1>2. PICK y \in Seq(Byte) : Chain(Transit, Taken \o stream, y) /\ Rest(y)
    BY DEF Inv, StepInv
  <1>3. PICK a \in Seq(Byte) : m = a \o left /\ y \o z = PutUint64(Len(m)) \o a
    BY <1>1, <1>2
  <1>4. stream' \in Seq(Byte)
    BY ConcatProperties DEF Inv, TypeInv
  <1>5. Taken' = Taken /\ ReaderUp' /\ r' = r /\ received' = received
    BY DEF Taken, ReaderUp
  <1>6. Taken \o stream' = (Taken \o stream) \o z
    BY MoreStream DEF Inv
  <1>7. y \o z \in Seq(Byte) /\ Chain(Transit, Taken \o stream', y \o z)
    BY <1>2, <1>6, ChainExtend, TakenFacts, TransitFacts, ConcatProperties DEF Inv
  <1>8. WriterUp
    BY DEF WriterUp
  <1>9. CASE left = <<>>
    <2>1. w' = Idle /\ sent' = Append(sent, m)
      BY <1>1, <1>9 DEF WriteOn
    <2>2. Len(received) \in 0 .. Len(sent)
      BY LenProperties DEF Inv, TypeInv
    <2>3. sent' \in Seq(Message) /\ Len(sent') = Len(sent) + 1
      BY <2>1 DEF Inv, TypeInv
    <2>4. TypeInv'
      BY <1>4, <1>5, <2>1, <2>2, <2>3, EmptySeq DEF Inv, TypeInv, Idle
    <2>5. Transit' = Append(Transit, m)
      <3>1. Drop(Append(sent, m), Len(received)) = Append(Drop(sent, Len(received)), m)
        BY <2>2, DropMore DEF Inv, TypeInv
      <3> QED
        BY <1>5, <2>1, <3>1 DEF Transit, ReaderUp
    <2>6. y \o z = Encode(m)
      BY <1>3, <1>9, ConcatEmptySeq DEF Encode
    <2>7. Chain(Append(Transit, m), Taken \o stream', <<>>)
      <3>1. (Taken \o stream) \o z \in Seq(Byte)
        BY TakenFacts, ConcatProperties DEF Inv
      <3> QED
        BY <1>6, <1>7, <2>6, <3>1, ChainAppend, TransitFacts DEF Inv
    <2>8. Rest(<<>>)'
      BY <2>1 DEF Rest, Idle, WriterUp
    <2>9. StepInv'
      BY <1>5, <2>5, <2>7, <2>8, EmptySeq DEF StepInv
    <2>10. C!Send(m)
      BY <1>5, <1>8, <2>1, <2>5 DEF C!Send, WriterUp, Idle
    <2> QED
      BY <2>4, <2>9, <2>10 DEF Inv, ChannelStep, C!Next
  <1>10. CASE left # <<>>
    <2>1. w' = [w EXCEPT !.pc = "body", !.left = left] /\ sent' = sent
      BY <1>10 DEF WriteOn
    <2>2. w'.pc = "body" /\ w'.msg = m /\ w'.left = left
      BY <1>1, <2>1 DEF Inv, TypeInv
    <2>3. TypeInv'
      BY <1>4, <1>5, <2>1, <2>2 DEF Inv, TypeInv
    <2>4. Transit' = Transit
      BY <1>5, <2>1 DEF Transit
    <2>5. Part(y \o z, m, left)
      BY <1>3, <1>10 DEF Part
    <2>6. Rest(y \o z)'
      BY <2>2, <2>5 DEF Rest, WriterUp
    <2>7. StepInv'
      BY <1>5, <1>7, <2>4, <2>6 DEF StepInv
    <2>8. WriterUp' = WriterUp /\ ReaderUp' = ReaderUp
      BY <1>5, <1>8, <2>2 DEF WriterUp, ReaderUp
    <2> QED
      BY <1>5, <2>3, <2>4, <2>7, <2>8, StutterStep DEF Inv
  <1> QED
    BY <1>9, <1>10

\* The size is written.
LEMMA WriteSizeStep ==
    ASSUME Inv, writeSize
    PROVE  Inv' /\ ChannelStep
  <1>1. w.msg \in Message /\ w.left = w.msg /\ w.pc = "size"
    BY DEF Inv, TypeInv, writeSize
  <1> DEFINE z == PutUint64(Len(w.msg))
  <1>2. z \in Seq(Byte) /\ w.msg \in Seq(Byte)
    BY <1>1, EncodeFacts, HeaderFacts
  <1>3. ASSUME NEW y \in Seq(Byte), Rest(y)
        PROVE  \E a \in Seq(Byte) : w.msg = a \o w.left /\ y \o z = PutUint64(Len(w.msg)) \o a
    <2>1. y = <<>>
      BY <1>1, <1>3 DEF Rest
    <2>2. w.msg = <<>> \o w.left /\ <<>> \o z = z /\ z \o <<>> = z
      BY <1>1, <1>2, ConcatEmptySeq
    <2> QED
      BY <2>1, <2>2, EmptySeq
  <1>4. /\ stream' = stream \o z /\ WriteOn(w.left) /\ ReaderUp
        /\ UNCHANGED <<direction, r, received>>
    BY DEF writeSize
  <1> HIDE DEF z
  <1> QED
    BY <1>1, <1>2, <1>3, <1>4, WriteStep

\* A piece of the body is written.
LEMMA WriteBodyStep ==
    ASSUME Inv, writeBody
    PROVE  Inv' /\ ChannelStep
  <1>1. w.msg \in Message /\ w.left \in Seq(Byte) /\ w.pc = "body"
    BY DEF Inv, TypeInv, writeBody
  <1>2. PICK k \in 1 .. Min({Len(w.left), SockCap - Len(stream)}) :
            /\ stream' = stream \o Take(w.left, k)
            /\ WriteOn(Drop(w.left, k))
    BY DEF writeBody
  <1>3. k \in 0 .. Len(w.left)
    <2>1. PICK a \in Int, b \in Int : a = Len(w.left) /\ b = SockCap - Len(stream)
      <3>1. Len(w.left) \in Nat
        BY <1>1, LenProperties
      <3>2. Len(stream) \in Nat
        BY LenProperties DEF Inv, TypeInv
      <3>3. Len(w.left) \in Int /\ SockCap - Len(stream) \in Int
        BY <3>1, <3>2, BoundsAssumption
      <3> QED
        BY <3>3, Zenon
    <2>2. PICK n \in Int : n = Min({a, b}) /\ n <= a
      BY MinFacts, Zenon
    <2> QED
      BY <2>1, <2>2
  <1> DEFINE z == Take(w.left, k)
             left == Drop(w.left, k)
  <1>4. z \in Seq(Byte) /\ left \in Seq(Byte) /\ z \o left = w.left
    BY <1>1, <1>3, TakeDrop
  <1>5. stream' = stream \o z /\ WriteOn(left)
    BY <1>2
  <1>6. ReaderUp /\ UNCHANGED <<direction, r, received>>
    BY DEF writeBody
  <1> HIDE DEF z, left
  <1>7. ASSUME NEW y \in Seq(Byte), Rest(y)
        PROVE  \E a \in Seq(Byte) : w.msg = a \o left /\ y \o z = PutUint64(Len(w.msg)) \o a
    <2>1. PICK b \in Seq(Byte) : w.msg = b \o w.left /\ y = PutUint64(Len(w.msg)) \o b
      BY <1>1, <1>7 DEF Rest, Part
    <2>2. PICK h \in Seq(Byte) : h = PutUint64(Len(w.msg))
      BY <1>1, EncodeFacts, HeaderFacts
    <2>3. (h \o b) \o z = h \o (b \o z)
      BY <1>4, Brackets, Zenon
    <2>4. b \o (z \o left) = (b \o z) \o left
      BY <1>4, Brackets, Zenon
    <2>5. b \o z \in Seq(Byte)
      BY <1>4, ConcatProperties
    <2> QED
      BY <1>4, <2>1, <2>2, <2>3, <2>4, <2>5
  <1> QED
    BY <1>1, <1>4, <1>5, <1>6, <1>7, WriteStep

\* The sizes that are written can be told apart.
LEMMA SizesDiffer ==
    ASSUME RoundTrip, NEW n \in Sizes, NEW k \in Sizes, PutUint64(n) = PutUint64(k)
    PROVE  n = k
  BY DEF RoundTrip

\* A step of the reader in a message that is not complete afterwards.
LEMMA ReaderFrames ==
    ASSUME StepInv, ReaderUp, ReaderUp', (Taken \o stream)' = Taken \o stream,
           UNCHANGED <<w, sent, received>>
    PROVE  StepInv' /\ ChannelStep
  <1>1. Transit' = Transit /\ WriterUp' = WriterUp /\ ReaderUp' = ReaderUp /\ received' = received
    BY DEF Transit, WriterUp, ReaderUp
  <1>2. \A y \in Seq(Byte) : Rest(y) => Rest(y)'
    BY DEF Rest, WriterUp
  <1> QED
    BY <1>1, <1>2, StutterStep DEF StepInv

\* The reader returns the first message in transit.
LEMMA ReceiveStep ==
    ASSUME TypeInv, ReaderUp, Transit # <<>>, NEW y \in Seq(Byte), NEW z \in Seq(Byte),
           Chain(Tail(Transit), z, y), Rest(y), stream' = z, r' = Reading,
           received' = Append(received, Head(Transit)), UNCHANGED <<direction, w, sent>>
    PROVE  Inv' /\ ChannelStep
  <1>1. Transit = Drop(sent, Len(received)) /\ Transit' = Drop(sent, Len(received'))
    BY DEF Transit, ReaderUp, Reading
  <1>2. Len(received) \in 0 .. Len(sent)
    BY LenProperties DEF TypeInv
  <1>3. Len(received) < Len(sent)
    <2>1. Len(Transit) = Len(sent) - Len(received)
      <3>1. sent \in Seq(Message)
        BY DEF TypeInv
      <3>2. \A k \in 0 .. Len(sent) : Len(Drop(sent, k)) = Len(sent) - k
        BY <3>1, TakeDrop
      <3> QED
        BY <1>1, <1>2, <3>2
    <2>2. Len(Transit) \in Nat /\ Len(Transit) # 0
      BY TransitFacts, EmptySeq
    <2> QED
      BY <1>2, <2>1, <2>2
  <1>4. Head(Transit) \in Seq(Byte)
    BY TransitFacts, HeadTailProperties, EncodeFacts
  <1>5. received' \in Seq(Seq(Byte)) /\ Len(received') = Len(received) + 1
    BY <1>4 DEF TypeInv
  <1>6. Transit' = Tail(Transit)
    BY <1>1, <1>2, <1>3, <1>5, DropMore DEF TypeInv
  <1>7. TypeInv'
    <2>1. Reading \in [pc : {"size", "body", "error", "gone"}, missing : Nat, buffer : Seq(Byte)]
      BY EmptySeq DEF Reading
    <2>2. Len(received') <= Len(sent)
      BY <1>2, <1>3, <1>5
    <2> QED
      BY <1>5, <2>1, <2>2 DEF TypeInv, Reading
  <1>8. Rest(y)'
    BY DEF Rest, WriterUp
  <1>9. Taken' = <<>> /\ ReaderUp'
    BY DEF Taken, ReaderUp, Reading
  <1>10. <<>> \o z = z
    BY ConcatEmptySeq
  <1>11. StepInv'
    BY <1>6, <1>8, <1>9, <1>10 DEF StepInv
  <1>12. C!Receive
    BY <1>6, <1>9 DEF C!Receive, WriterUp
  <1> QED
    BY <1>7, <1>11, <1>12 DEF Inv, ChannelStep, C!Next

\* The size is read.  It is never short, since a size is written at once.
LEMMA ReadSizeStep ==
    ASSUME Inv, RoundTrip, readSize
    PROVE  Inv' /\ ChannelStep
  <1>1. r.pc = "size" /\ ReaderUp /\ stream \in Seq(Byte) /\ stream # <<>>
    BY DEF Inv, TypeInv, readSize, ReaderUp
  <1>2. Taken \o stream = stream
    BY <1>1, ConcatEmptySeq DEF Taken
  <1>3. PICK y \in Seq(Byte) : Chain(Transit, stream, y) /\ Rest(y)
    BY <1>1, <1>2 DEF Inv, StepInv
  <1>4. PICK n \in Sizes, b \in Seq(Byte) :
            /\ stream = PutUint64(n) \o b
            /\ \/ Transit = <<>> /\ Len(b) < n
               \/ /\ Transit # <<>> /\ n = Len(Head(Transit))
                  /\ \E z \in Seq(Byte) : b = Head(Transit) \o z /\ Chain(Tail(Transit), z, y)
    <2>1. CASE Transit = <<>>
      BY <1>1, <1>3, <2>1, WhatComesNext DEF Inv
    <2>2. CASE Transit # <<>>
      <3>1. PICK z \in Seq(Byte) : /\ stream = PutUint64(Len(Head(Transit))) \o (Head(Transit) \o z)
                                   /\ Chain(Tail(Transit), z, y)
        BY <1>1, <1>3, <2>2, WhatComesNext DEF Inv
      <3>2. Head(Transit) \in Seq(Byte) /\ Len(Head(Transit)) \in Sizes
        BY <2>2, TransitFacts, HeadTailProperties, EncodeFacts DEF Inv
      <3>3. Head(Transit) \o z \in Seq(Byte)
        BY <3>2, ConcatProperties
      <3> QED
        BY <2>2, <3>1, <3>2, <3>3
    <2> QED
      BY <2>1, <2>2
  <1>5. PICK h \in Seq(Byte) : h = PutUint64(n) /\ Len(h) = HeaderLen
    BY HeaderFacts
  <1>6. /\ Len(stream) >= HeaderLen /\ Len(stream) \in Nat
        /\ Take(stream, HeaderLen) = h /\ Drop(stream, HeaderLen) = b
    <2>1. Len(stream) = Len(h) + Len(b) /\ Len(h) \in Nat /\ Len(b) \in Nat
      BY <1>4, <1>5, ConcatProperties, LenProperties
    <2>2. Take(h \o b, Len(h)) = h /\ Drop(h \o b, Len(h)) = b
      BY TakeDropConcat
    <2> QED
      BY <1>4, <1>5, <2>1, <2>2
  <1>7. Min({HeaderLen, Len(stream)}) = HeaderLen
    <2>1. HeaderLen \in Int /\ Len(stream) \in Int /\ HeaderLen <= Len(stream)
      BY <1>6, BytesAssumption
    <2>2. \A i, j \in Int : i <= j => Min({i, j}) = i
      BY MinFacts
    <2> QED
      BY <2>1, <2>2, Zenon
  <1>8. Uint64(h) = n
    BY <1>5 DEF RoundTrip
  <1>9. stream' = b /\ ReadOn(n, <<>>) /\ UNCHANGED <<direction, w, sent>>
    BY <1>6, <1>7, <1>8, BytesAssumption DEF readSize
  <1>10. n \in Nat
    BY DEF Sizes
  <1>11. CASE n = 0
    <2>1. r' = Reading /\ received' = Append(received, <<>>)
      BY <1>9, <1>11 DEF ReadOn
    <2>2. ~(Len(b) < n)
      <3>1. Len(b) \in Nat
        BY LenProperties
      <3> QED
        BY <1>11, <3>1
    <2>3. Transit # <<>> /\ Len(Head(Transit)) = 0
      BY <1>4, <1>11, <2>2, Zenon
    <2>4. Head(Transit) = <<>>
      BY <2>3, TransitFacts, HeadTailProperties, EncodeFacts, EmptySeq DEF Inv
    <2>5. PICK z \in Seq(Byte) : b = Head(Transit) \o z /\ Chain(Tail(Transit), z, y)
      BY <1>4, <2>3
    <2>6. b = z
      BY <2>4, <2>5, ConcatEmptySeq
    <2> QED
      BY <1>1, <1>3, <1>9, <2>1, <2>3, <2>4, <2>5, <2>6, ReceiveStep DEF Inv
  <1>12. CASE n # 0
    <2>1. r' = [pc |-> "body", missing |-> n, buffer |-> <<>>] /\ received' = received
      BY <1>9, <1>12 DEF ReadOn
    <2>2. n + Len(<<>>) = n
      BY <1>10
    <2>3. TypeInv'
      BY <1>9, <1>10, <1>12, <2>1, <2>2, EmptySeq DEF Inv, TypeInv
    <2>4. h \o <<>> = h
      BY ConcatEmptySeq
    <2>5. Taken' = h
      BY <1>5, <2>1, <2>2, <2>4 DEF Taken
    <2>6. (Taken \o stream)' = Taken \o stream
      BY <1>2, <1>4, <1>5, <1>9, <2>5
    <2>7. ReaderUp'
      BY <2>1 DEF ReaderUp
    <2> QED
      BY <1>1, <1>9, <2>1, <2>3, <2>6, <2>7, ReaderFrames DEF Inv
  <1> QED
    BY <1>11, <1>12

\* The end of the body is not in the stream when no message is complete, and
\* nothing else is read as the body when one is.
LEMMA BodyFacts ==
    ASSUME Inv, RoundTrip, r.pc = "body", NEW y \in Seq(Byte), Rest(y),
           Chain(Transit, Taken \o stream, y)
    PROVE  \/ Transit = <<>> /\ Len(stream) < r.missing
           \/ /\ Transit # <<>> /\ r.missing + Len(r.buffer) = Len(Head(Transit))
              /\ \E z \in Seq(Byte) : /\ r.buffer \o stream = Head(Transit) \o z
                                      /\ Chain(Tail(Transit), z, y)
  <1>1. PICK k \in Sizes : k = r.missing + Len(r.buffer)
    BY DEF Inv, TypeInv
  <1>2. PICK h \in Seq(Byte), b \in Seq(Byte), c \in Seq(Byte) :
            h = PutUint64(k) /\ b = r.buffer /\ c = stream /\ Len(h) = HeaderLen
    BY HeaderFacts DEF Inv, TypeInv
  <1>3. Taken \o stream = h \o (b \o c) /\ b \o c \in Seq(Byte)
    <2>1. Taken \o stream = (h \o b) \o c
      BY <1>1, <1>2 DEF Taken
    <2>2. (h \o b) \o c = h \o (b \o c) /\ b \o c \in Seq(Byte)
      BY Brackets, ConcatProperties
    <2> QED
      BY <2>1, <2>2
  <1>4. /\ Len(b \o c) = Len(b) + Len(c) /\ Len(b) \in Nat /\ Len(c) \in Nat
        /\ r.missing \in Nat
    BY ConcatProperties, LenProperties DEF Inv, TypeInv
  <1>5. Taken \o stream # <<>>
    <2>1. h # <<>>
      BY <1>2, BytesAssumption, EmptySeq
    <2> QED
      BY <1>3, <2>1, ConcatEqualIffEmpty
  <1>6. CASE Transit = <<>>
    <2>1. PICK n \in Sizes, a \in Seq(Byte) : Taken \o stream = PutUint64(n) \o a /\ Len(a) < n
      BY <1>5, <1>6, WhatComesNext, TakenFacts DEF Inv
    <2>2. /\ PutUint64(n) \in Seq(Byte) /\ Len(h) = Len(PutUint64(n))
          /\ h \o (b \o c) = PutUint64(n) \o a
      BY <1>2, <1>3, <2>1, HeaderFacts
    <2>3. h = PutUint64(n) /\ b \o c = a
      BY <1>3, <2>2, SplitBytes, Zenon
    <2>4. n = k
      BY <1>2, <2>3, SizesDiffer
    <2>5. Len(b) + Len(c) < r.missing + Len(b)
      BY <1>1, <1>2, <1>4, <2>1, <2>3, <2>4
    <2> QED
      BY <1>2, <1>4, <1>6, <2>5
  <1>7. CASE Transit # <<>>
    <2>1. PICK m \in Message : m = Head(Transit)
      BY <1>7, TransitFacts, HeadTailProperties DEF Inv
    <2>2. PICK z \in Seq(Byte) : /\ Taken \o stream = PutUint64(Len(m)) \o (m \o z)
                                 /\ Chain(Tail(Transit), z, y)
      BY <1>7, <2>1, WhatComesNext, TakenFacts DEF Inv
    <2>3. m \in Seq(Byte) /\ Len(m) \in Sizes
      BY EncodeFacts
    <2>4. /\ PutUint64(Len(m)) \in Seq(Byte) /\ m \o z \in Seq(Byte)
          /\ Len(h) = Len(PutUint64(Len(m)))
          /\ h \o (b \o c) = PutUint64(Len(m)) \o (m \o z)
      <3>1. PutUint64(Len(m)) \in Seq(Byte) /\ Len(PutUint64(Len(m))) = HeaderLen
        BY <2>3, HeaderFacts
      <3>2. m \o z \in Seq(Byte)
        BY <2>3, ConcatProperties
      <3> QED
        BY <1>2, <1>3, <2>2, <3>1, <3>2, Zenon
    <2>5. h = PutUint64(Len(m)) /\ b \o c = m \o z
      BY <1>3, <2>4, SplitBytes, Zenon
    <2>6. Len(m) = k
      BY <1>2, <2>3, <2>5, SizesDiffer
    <2> QED
      BY <1>1, <1>2, <1>7, <2>1, <2>2, <2>5, <2>6
  <1> QED
    BY <1>6, <1>7

\* A piece of the body is read.
LEMMA ReadBodyStep ==
    ASSUME Inv, RoundTrip, readBody
    PROVE  Inv' /\ ChannelStep
  <1>1. r.pc = "body" /\ ReaderUp /\ stream \in Seq(Byte) /\ r.buffer \in Seq(Byte) /\ r.missing \in Nat
    BY DEF Inv, TypeInv, readBody, ReaderUp
  <1>2. PICK y \in Seq(Byte) : Chain(Transit, Taken \o stream, y) /\ Rest(y)
    BY <1>1 DEF Inv, StepInv
  <1>3. PICK k \in Nat : /\ k = Min({r.missing, Len(stream)})
                         /\ k <= r.missing /\ k <= Len(stream)
    <2>1. \A i, j \in Nat : Min({i, j}) \in Nat /\ Min({i, j}) <= i /\ Min({i, j}) <= j
      BY MinFacts
    <2>2. Len(stream) \in Nat
      BY <1>1, LenProperties
    <2> QED
      BY <1>1, <2>1, <2>2
  <1>4. PICK a \in Seq(Byte), b \in Seq(Byte), c \in Seq(Byte) :
            /\ a = r.buffer /\ b = Take(stream, k) /\ c = Drop(stream, k)
            /\ Len(b) = k /\ stream = b \o c
    <2>1. k \in 0 .. Len(stream)
      BY <1>1, <1>3, LenProperties
    <2> QED
      BY <1>1, <2>1, TakeDrop
  <1>5. stream' = c /\ ReadOn(r.missing - k, a \o b) /\ UNCHANGED <<direction, w, sent>>
    BY <1>3, <1>4 DEF readBody
  <1>6. /\ a \o b \in Seq(Byte) /\ Len(a \o b) = Len(a) + k /\ Len(a) \in Nat
        /\ (a \o b) \o c = a \o (b \o c)
    <2>1. a \o b \in Seq(Byte) /\ Len(a \o b) = Len(a) + Len(b) /\ Len(a) \in Nat
      BY ConcatProperties, LenProperties
    <2>2. (a \o b) \o c = a \o (b \o c)
      BY Brackets, Zenon
    <2> QED
      BY <1>4, <2>1, <2>2
  <1>7. r.missing + Len(a) \in Sizes /\ (r.missing - k) + Len(a \o b) = r.missing + Len(a)
    BY <1>1, <1>3, <1>4, <1>6 DEF Inv, TypeInv
  <1>8. CASE r.missing = k
    <2>1. r' = Reading /\ received' = Append(received, a \o b)
      BY <1>5, <1>8 DEF ReadOn
    <2>2. ~(Len(stream) < r.missing)
      BY <1>1, <1>3, <1>8, LenProperties
    <2>3. PICK z \in Seq(Byte) :
            /\ Transit # <<>> /\ r.missing + Len(a) = Len(Head(Transit))
            /\ a \o stream = Head(Transit) \o z /\ Chain(Tail(Transit), z, y)
      BY <1>1, <1>2, <1>4, <2>2, BodyFacts
    <2>4. Head(Transit) \in Seq(Byte)
      BY <2>3, TransitFacts, HeadTailProperties, EncodeFacts DEF Inv
    <2>5. (a \o b) \o c = Head(Transit) \o z
      BY <1>4, <1>6, <2>3, Zenon
    <2>6. Len(a \o b) = Len(Head(Transit))
      BY <1>6, <1>8, <2>3
    <2>7. a \o b = Head(Transit) /\ c = z
      BY <1>6, <2>4, <2>5, <2>6, SplitBytes, Zenon
    <2> QED
      BY <1>1, <1>2, <1>5, <2>1, <2>3, <2>7, ReceiveStep DEF Inv
  <1>9. CASE r.missing # k
    <2>1. r.missing - k \in Nat /\ r.missing - k > 0
      BY <1>1, <1>3, <1>9
    <2>2. /\ r' = [pc |-> "body", missing |-> r.missing - k, buffer |-> a \o b]
          /\ received' = received
      BY <1>5, <2>1 DEF ReadOn
    <2>3. TypeInv'
      BY <1>5, <1>6, <1>7, <2>1, <2>2 DEF Inv, TypeInv
    <2>4. (Taken \o stream)' = Taken \o stream
      <3>1. PICK h \in Seq(Byte) : h = PutUint64(r.missing + Len(a))
        BY <1>7, HeaderFacts
      <3>2. Taken = h \o a /\ Taken' = h \o (a \o b)
        BY <1>1, <1>4, <1>7, <2>2, <3>1 DEF Taken
      <3>3. (h \o (a \o b)) \o c = (h \o a) \o (b \o c)
        <4>1. (h \o a) \o (b \o c) = h \o (a \o (b \o c))
          <5>1. b \o c \in Seq(Byte)
            BY ConcatProperties
          <5> QED
            BY <5>1, Brackets, Zenon
        <4>2. (h \o (a \o b)) \o c = h \o ((a \o b) \o c)
          BY <1>6, Brackets, Zenon
        <4> QED
          BY <1>6, <4>1, <4>2, Zenon
      <3> QED
        BY <1>4, <1>5, <3>2, <3>3
    <2>5. ReaderUp'
      BY <2>2 DEF ReaderUp
    <2> QED
      BY <1>1, <1>5, <2>2, <2>3, <2>4, <2>5, ReaderFrames DEF Inv
  <1> QED
    BY <1>8, <1>9

\* The end of the stream.  No message is lost: all that were sent have been
\* returned by then.
LEMMA ReadEofStep ==
    ASSUME Inv, RoundTrip, readEof
    PROVE  Inv' /\ ChannelStep
  <1>1. /\ r.pc \in {"size", "body"} /\ ReaderUp /\ ~WriterUp /\ stream = <<>>
        /\ r' = [r EXCEPT !.pc = "error"] /\ UNCHANGED <<direction, w, stream, sent, received>>
    BY DEF readEof, AtEof, ReaderUp
  <1>2. r'.pc = "error" /\ ~ReaderUp'
    BY <1>1 DEF Inv, TypeInv, ReaderUp
  <1>3. Inv'
    BY <1>1, <1>2 DEF Inv, TypeInv, StepInv
  <1>4. PICK y \in Seq(Byte) : Chain(Transit, Taken \o stream, y) /\ Rest(y)
    BY <1>1 DEF Inv, StepInv
  <1>5. Transit = <<>>
    <2>1. CASE r.pc = "size"
      <3>1. Taken \o stream = <<>>
        BY <1>1, <2>1, EmptySeq, ConcatEmptySeq DEF Taken
      <3> SUFFICES ASSUME Transit # <<>> PROVE FALSE
        OBVIOUS
      <3>2. PICK m \in Message : m = Head(Transit)
        BY TransitFacts, HeadTailProperties DEF Inv
      <3>3. PICK z \in Seq(Byte) : Taken \o stream = Encode(m) \o z
        BY <1>4, <3>2, ChainTail, TakenFacts, TransitFacts DEF Inv
      <3>4. Encode(m) \in Seq(Byte) /\ Len(Encode(m)) > 0
        BY EncodeFacts, BytesAssumption, LenProperties
      <3>5. Encode(m) # <<>>
        BY <3>4, EmptySeq
      <3> QED
        BY <3>1, <3>3, <3>4, <3>5, ConcatEqualIffEmpty
    <2>2. CASE r.pc = "body"
      <3> SUFFICES ASSUME Transit # <<>> PROVE FALSE
        OBVIOUS
      <3>1. PICK z \in Seq(Byte) : /\ r.missing + Len(r.buffer) = Len(Head(Transit))
                                   /\ r.buffer \o stream = Head(Transit) \o z
        BY <1>4, <2>2, BodyFacts
      <3>2. PICK m \in Seq(Byte), b \in Seq(Byte) : m = Head(Transit) /\ b = r.buffer
        BY TransitFacts, HeadTailProperties, EncodeFacts DEF Inv, TypeInv
      <3>3. b \o <<>> = b
        BY ConcatEmptySeq
      <3>4. Len(b) = Len(m) + Len(z) /\ Len(b) \in Nat /\ Len(m) \in Nat /\ Len(z) \in Nat
        <4>1. b = m \o z
          BY <1>1, <3>1, <3>2, <3>3
        <4> QED
          BY <4>1, ConcatProperties, LenProperties
      <3>5. r.missing \in Nat /\ r.missing > 0
        BY <2>2 DEF Inv, TypeInv
      <3> QED
        BY <3>1, <3>2, <3>4, <3>5
    <2> QED
      BY <1>1, <2>1, <2>2
  <1>6. Transit' = Transit /\ WriterUp' = WriterUp
    BY <1>1, <1>2 DEF Transit, WriterUp, ReaderUp
  <1>7. C!Eof
    BY <1>1, <1>2, <1>5, <1>6 DEF C!Eof
  <1> QED
    BY <1>3, <1>7 DEF ChannelStep, C!Next

\* The reading end goes away.
LEMMA ReaderGoneStep ==
    ASSUME Inv, readerGone
    PROVE  Inv' /\ ChannelStep
  <1>1. /\ r' = [pc |-> "gone", missing |-> 0, buffer |-> <<>>] /\ stream' = <<>>
        /\ ReaderUp /\ UNCHANGED <<direction, w, sent, received>>
    BY DEF readerGone, Reading
  <1>2. Inv'
    BY <1>1, EmptySeq DEF Inv, TypeInv, StepInv, ReaderUp
  <1>3. Transit' = <<>> /\ ~ReaderUp' /\ WriterUp' = WriterUp
    BY <1>1 DEF Transit, ReaderUp, WriterUp
  <1>4. C!CloseReader
    BY <1>1, <1>3 DEF C!CloseReader
  <1> QED
    BY <1>2, <1>4 DEF ChannelStep, C!Next

\* The byte stream implements the channel of whole messages: they arrive once,
\* in the order in which they were written and whole, and the end of the
\* stream is seen only after all of them, however writes and reads split the
\* bytes and wherever an end goes away.
THEOREM ImplementsChannel ==
    ASSUME RoundTrip
    PROVE  Spec => ChannelSpec
  <1>1. Init => Inv /\ C!Init
    <2> SUFFICES ASSUME Init PROVE Inv /\ C!Init
      OBVIOUS
    <2>1. TypeInv
      BY EmptySeq DEF Init, TypeInv, Idle, Reading
    <2>2. Transit = <<>> /\ Taken = <<>> /\ Taken \o stream = <<>>
      BY DEF Init, Transit, Drop, Taken, Reading
    <2>3. Rest(<<>>) /\ WriterUp /\ ReaderUp
      BY DEF Init, Rest, Idle, Reading, WriterUp, ReaderUp
    <2>4. StepInv
      BY <2>2, <2>3, ChainEmpty, EmptySeq DEF StepInv
    <2>5. C!Init
      BY <2>2, <2>3 DEF C!Init, Init
    <2> QED
      BY <2>1, <2>4, <2>5 DEF Inv
  <1>2. Inv /\ [Next]_vars => Inv' /\ ChannelStep
    <2> SUFFICES ASSUME Inv, [Next]_vars PROVE Inv' /\ ChannelStep
      OBVIOUS
    <2>1. CASE UNCHANGED vars
      <3>1. UNCHANGED <<direction, w, stream, r, sent, received>>
        BY <2>1 DEF vars
      <3>2. Inv'
        BY <3>1 DEF Inv, TypeInv, StepInv, Rest, Taken, Transit, ReaderUp, WriterUp
      <3>3. ChannelStep
        BY <3>1, StutterStep DEF Transit, ReaderUp, WriterUp
      <3> QED
        BY <3>2, <3>3
    <2> QED
      BY <2>1, CallStep, WriteSizeStep, WriteBodyStep, WriterGoneStep, ReadSizeStep, ReadBodyStep,
         ReadEofStep, ReaderGoneStep DEF Next, Writer, Reader
  <1> QED
    BY <1>1, <1>2, PTL DEF Spec, ChannelSpec, C!Spec, ChannelStep
=============================================================================
