------------------------------ MODULE Framing ------------------------------
(***************************************************************************)
(* A message on a socket is its size in HeaderLen bytes, least significant *)
(* byte first, and its body.  writeToSocket and readFromSocket (Utils.cc)  *)
(* do this for the clients, writeMsg and readMsg (client.go) for the       *)
(* router.  This module is one direction of one socket: direction          *)
(* "toRouter" has writeToSocket and readMsg at its ends, "toClient" has    *)
(* writeMsg and readFromSocket.                                            *)
(*                                                                         *)
(* The kernel is a bounded stream of bytes.  A read returns what there is, *)
(* up to what was asked for.  The size goes into the stream at once, a     *)
(* body in pieces.  Either end may go away between any two steps.          *)
(***************************************************************************)
EXTENDS Integers, SequencesExt, FiniteSetsExt

CONSTANTS Base,         \* the number of values of a byte
          HeaderLen,    \* sizeof(uint64_t)
          Message,      \* the bodies that are sent
          SockCap,      \* bound: bytes in the stream
          MaxMsgs       \* bound: messages sent

Byte == 0 .. Base - 1
Sizes == 0 .. Base ^ HeaderLen - 1

ASSUME BytesAssumption == Base \in Nat \ {0, 1} /\ HeaderLen \in Nat \ {0}
ASSUME MessageAssumption == \A m \in Message : m \in Seq(Byte) /\ Len(m) \in Sizes
ASSUME BoundsAssumption == SockCap \in Nat /\ SockCap >= HeaderLen /\ MaxMsgs \in Nat

\* The bytes of a size, and back: what write(&sz) and read(&size) do on a
\* little endian machine, and binary.LittleEndian in the router.
PutUint64(n) == [i \in 1 .. HeaderLen |-> (n \div Base ^ (i - 1)) % Base]

Uint64(s) == MapThenSumSet(LAMBDA i : s[i] * Base ^ (i - 1), 1 .. HeaderLen)

\* A size survives its conversion to bytes and back.
RoundTrip == \A n \in Sizes : Uint64(PutUint64(n)) = n

VARIABLES direction,    \* "toRouter" or "toClient"
          w,            \* the writer: where it is, its message, the bytes left
          stream,       \* the bytes in the socket
          r,            \* the reader: where it is, bytes missing, its buffer
          sent,         \* history: the messages that were written completely
          received      \* history: the messages that the reader returned

vars == <<direction, w, stream, r, sent, received>>

Idle == [pc |-> "idle", msg |-> <<>>, left |-> <<>>]
Reading == [pc |-> "size", missing |-> 0, buffer |-> <<>>]

Init ==
    /\ direction \in {"toRouter", "toClient"}
    /\ w = Idle
    /\ stream = <<>>
    /\ r = Reading
    /\ sent = <<>>
    /\ received = <<>>

Take(s, k) == SubSeq(s, 1, k)
Drop(s, k) == SubSeq(s, k + 1, Len(s))

WriterUp == w.pc \in {"idle", "size", "body"}
ReaderUp == r.pc \in {"size", "body"}
-----------------------------------------------------------------------------
(* writeToSocket and writeMsg *)

call(m) ==
    /\ w.pc = "idle"
    /\ Len(sent) < MaxMsgs
    /\ w' = [pc |-> "size", msg |-> m, left |-> m]
    /\ UNCHANGED <<direction, stream, r, sent, received>>

\* The call goes on with what is left of the body, or returns success.
WriteOn(left) ==
    IF left = <<>>
    THEN w' = Idle /\ sent' = Append(sent, w.msg)
    ELSE w' = [w EXCEPT !.pc = "body", !.left = left] /\ UNCHANGED sent

writeSize ==
    /\ w.pc = "size"
    /\ ReaderUp
    /\ Len(stream) + HeaderLen <= SockCap
    /\ stream' = stream \o PutUint64(Len(w.msg))
    /\ WriteOn(w.left)
    /\ UNCHANGED <<direction, r, received>>

\* One write of the body.
writeBody ==
    /\ w.pc = "body"
    /\ ReaderUp
    /\ \E k \in 1 .. Min({Len(w.left), SockCap - Len(stream)}) :
         /\ stream' = stream \o Take(w.left, k)
         /\ WriteOn(Drop(w.left, k))
    /\ UNCHANGED <<direction, r, received>>

\* The writing end is gone: it was closed after a message, a write to a
\* socket without a reader has failed (in a client SIGPIPE ends the process,
\* in the router writeMsg returns an error), or its process has ended.  In the
\* router log.Fatalf of one goroutine ends the process while another is
\* anywhere in writeMsg.  If it has not read all that came from the other
\* side, the kernel makes the end of the stream a "reset" for the reader.
writerGone ==
    /\ WriterUp
    /\ \E pc \in {"gone", "reset"} : w' = [Idle EXCEPT !.pc = pc]
    /\ UNCHANGED <<direction, stream, r, sent, received>>
-----------------------------------------------------------------------------
(* readFromSocket and readMsg; when one call has returned a message the next
   one follows. *)

\* The call goes on until nothing is missing, then returns its buffer.
ReadOn(missing, buffer) ==
    IF missing = 0
    THEN r' = Reading /\ received' = Append(received, buffer)
    ELSE /\ r' = [pc |-> "body", missing |-> missing, buffer |-> buffer]
         /\ UNCHANGED received

readSize ==
    /\ r.pc = "size"
    /\ stream # <<>>
    /\ stream' = Drop(stream, Min({HeaderLen, Len(stream)}))
    /\ IF Len(stream) < HeaderLen
       THEN r' = [r EXCEPT !.pc = "error"] /\ UNCHANGED received
       ELSE ReadOn(Uint64(Take(stream, HeaderLen)), <<>>)
    /\ UNCHANGED <<direction, w, sent>>

\* Mistake: the last byte is left in the stream.
readBodyShort ==
    LET k == Min({r.missing - 1, Len(stream)})
    IN  /\ r.pc = "body"
        /\ stream # <<>>
        /\ stream' = Drop(stream, k)
        /\ ReadOn(r.missing - k, r.buffer \o Take(stream, k))
        /\ UNCHANGED <<direction, w, sent>>

\* Mistake: each read asks for the whole body.
readBodyGreedy ==
    LET k == Min({r.missing + Len(r.buffer), Len(stream)})
    IN  /\ r.pc = "body"
        /\ stream # <<>>
        /\ stream' = Drop(stream, k)
        /\ ReadOn(Max({r.missing - k, 0}), r.buffer \o Take(stream, k))
        /\ UNCHANGED <<direction, w, sent>>

\* Mistake: a short read is taken for the whole body.
readBodyOnce ==
    LET k == Min({r.missing, Len(stream)})
    IN  /\ r.pc = "body"
        /\ stream # <<>>
        /\ stream' = Drop(stream, k)
        /\ ReadOn(0, r.buffer \o Take(stream, k))
        /\ UNCHANGED <<direction, w, sent>>

\* One read of the body.
readBody ==
    LET k == Min({r.missing, Len(stream)})
    IN  /\ r.pc = "body"
        /\ stream # <<>>
        /\ stream' = Drop(stream, k)
        /\ ReadOn(r.missing - k, r.buffer \o Take(stream, k))
        /\ UNCHANGED <<direction, w, sent>>

AtEof == ~WriterUp /\ stream = <<>>

\* Mistake: the router's reader, too, takes the end of the stream in a body
\* for a read of no bytes.
readEofAtSizeOnly ==
    /\ AtEof
    /\ r.pc = "size"
    /\ r' = [r EXCEPT !.pc = "error"]
    /\ UNCHANGED <<direction, w, stream, sent, received>>

\* The end of the stream is an error where the size is read.  In a body it is
\* one for io.ReadFull.  In readFromSocket read returns -1 after a reset; else
\* it returns 0, nothing changes and the loop goes round for ever.
readEof ==
    /\ AtEof
    /\ r.pc = "size" \/ (r.pc = "body" /\ (direction = "toRouter" \/ w.pc = "reset"))
    /\ r' = [r EXCEPT !.pc = "error"]
    /\ UNCHANGED <<direction, w, stream, sent, received>>

\* The reader closes its end or its process ends.
readerGone ==
    /\ ReaderUp
    /\ r' = [Reading EXCEPT !.pc = "gone"]
    /\ stream' = <<>>
    /\ UNCHANGED <<direction, w, sent, received>>
-----------------------------------------------------------------------------
Writer == writeSize \/ writeBody
Reader == readSize \/ readBody \/ readEof

Next ==
    \/ \E m \in Message : call(m)
    \/ Writer \/ writerGone
    \/ Reader \/ readerGone

Spec == Init /\ [][Next]_vars

\* A call that can go on does; nobody has to send or to go away.
FairSpec == Spec /\ WF_vars(Writer) /\ WF_vars(Reader)
-----------------------------------------------------------------------------
(* Properties *)

\* The messages that were written completely and not returned yet.
Transit == IF r.pc = "gone" THEN <<>> ELSE Drop(sent, Len(received))

\* Framing implements Channel: a message is sent when its last byte is
\* written and received when the reader returns it, whatever the pieces in
\* which it travels; a message that its writer did not finish is never seen.
C == INSTANCE Channel WITH transit <- Transit, writerUp <- WriterUp,
                           readerUp <- ReaderUp

ChannelSpec == C!Spec

Encode(m) == PutUint64(Len(m)) \o m

\* The reader is never out of step: what it has taken of a message and what is
\* in the stream are together the encodings of the messages in transit and
\* the part of the next that is written.
InStep ==
    ReaderUp =>
        LET taken   == IF r.pc = "body"
                       THEN PutUint64(r.missing + Len(r.buffer)) \o r.buffer ELSE <<>>
            whole   == FlattenSeq([i \in 1 .. Len(Transit) |-> Encode(Transit[i])])
            written == IF w.pc = "body"
                       THEN Take(Encode(w.msg), HeaderLen + Len(w.msg) - Len(w.left))
                       ELSE <<>>
        IN  IF WriterUp
            THEN taken \o stream = whole \o written
            ELSE IsPrefix(whole, taken \o stream)

\* A message that was written completely is returned by the reader, unless
\* the reader goes away.
Delivered ==
    \A n \in 1 .. MaxMsgs :
        (Len(sent) >= n) ~> (Len(received) >= n \/ r.pc = "gone")

\* readFromSocket goes round its loop for ever.
Spinning == direction = "toClient" /\ AtEof /\ w.pc = "gone" /\ r.pc = "body"

\* The reader learns that the writer is gone, except that readFromSocket does
\* not when the writer went in the middle of a message.
EofIsSeen == ~WriterUp ~> (~ReaderUp \/ Spinning)
-----------------------------------------------------------------------------
(* What the documentation says and the code does not do *)

\* readFromSocket: "@return 0 on success; -1 on failure".
ReadReturns == ~WriterUp ~> ~ReaderUp
=============================================================================
