--------------------------- MODULE EncryptedConn ---------------------------
(***************************************************************************)
(* One direction of an encrypted connection (sflang/src/encconn.rs):       *)
(* EncryptedWriter at one end, EncryptedReader at the other, and tcpRead   *)
(* of builtins_tcp.rs above it.                                            *)
(*                                                                         *)
(* A byte has Base values (256 in the code).  A frame of txdef or txdee is *)
(* its length in two bytes, random bytes one of which is the key, and each *)
(* byte plus the password, its place and the key; txdee adds two random    *)
(* bytes at the end.  txde has no frames: the place counts on for the      *)
(* whole stream.                                                           *)
(*                                                                         *)
(* The network keeps order and delivers bytes when it likes; a reader with *)
(* a timeout may give up in the middle of a frame, and what read_exact has *)
(* taken by then is gone.                                                  *)
(***************************************************************************)
EXTENDS Naturals, Sequences

CONSTANTS
  Base,      \* values of a byte
  Code,      \* the password
  AddLen,    \* txdef: random bytes at the head of a frame
  EncIndex,  \* txdef: which of them is the key, from 0
  Writes,    \* what the writer may write at a time
  Chunk,     \* bytes a read asks for
  MaxWrites  \* bound: writes

VARIABLES
  method,    \* "txdef", "txdee" or "txde"
  sent,      \* what was written, in the clear
  writes,    \* number of writes
  cut,       \* a write was longer than its length field can say
  empty,     \* a frame without data was written
  closed,    \* the writer has closed
  flight,    \* bytes on the way
  wire,      \* bytes that have arrived
  read_buf,  \* decrypted and not handed out yet
  read_pos,  \* txde: bytes read so far
  received,  \* what the reads returned
  broken,    \* a timeout has taken a part of a frame
  outcome    \* of the reads: "data", "end" (Ok(0), tcpRead: undefined) or "error"

vars == <<method, sent, writes, cut, empty, closed, flight, wire, read_buf, read_pos,
          received, broken, outcome>>

-----------------------------------------------------------------------------
(* Frames and streams of bytes. *)

Byte == 0 .. Base - 1

\* (As if the sum of two bytes wrapped one too late.)
BugAdd(a, b) == IF a + b <= Base THEN a + b ELSE a + b - Base
\* u8::wrapping_add and wrapping_sub.
Add(a, b) == IF a + b < Base THEN a + b ELSE a + b - Base
Sub(a, b) == IF b <= a THEN a - b ELSE a + Base - b

\* The byte at place i, from 1, under key k.
CodeAt(i) == Code[((i - 1) % Len(Code)) + 1]
Encrypted(b, i, k) == Add(Add(Add(b, CodeAt(i)), i % Base), k)
Decrypted(b, i, k) == Sub(Sub(Sub(b, CodeAt(i)), i % Base), k)

\* Random bytes before and after the data, and the place of the key, from 1.
HeadLen(m) == IF m = "txdef" THEN AddLen ELSE 2
TailLen(m) == IF m = "txdef" THEN 0 ELSE 2
KeyAt(m)   == IF m = "txdef" THEN EncIndex + 1 ELSE 2

\* What two bytes can say of a length: the rest is cut off.
MaxLength == Base * Base - 1
TotalLen(m, data) == HeadLen(m) + Len(data) + TailLen(m)
LengthBytes(n) == <<(n \div Base) % Base, n % Base>>
LengthOf(hi, lo) == hi * Base + lo

\* The frame of data under the random bytes head and tail, without its length.
Body(m, data, head, tail) ==
  head \o [i \in 1 .. Len(data) |-> Encrypted(data[i], i, head[KeyAt(m)])] \o tail
Frame(m, data, head, tail) ==
  LengthBytes(TotalLen(m, data)) \o Body(m, data, head, tail)

\* The data of a body of n bytes.
DataOf(m, body) ==
  [i \in 1 .. Len(body) - HeadLen(m) - TailLen(m) |->
     Decrypted(body[HeadLen(m) + i], i, body[KeyAt(m)])]

\* txde: n bytes have gone before.
StreamOf(data, n) == [i \in 1 .. Len(data) |-> Encrypted(data[i], n + i, 0)]
PlainOf(bytes, n) == [i \in 1 .. Len(bytes) |-> Decrypted(bytes[i], n + i, 0)]

-----------------------------------------------------------------------------
Framed == method # "txde"

Init ==
  /\ method \in {"txdef", "txdee", "txde"}
  /\ sent = <<>> /\ writes = 0 /\ cut = FALSE /\ empty = FALSE /\ closed = FALSE
  /\ flight = <<>> /\ wire = <<>>
  /\ read_buf = <<>> /\ read_pos = 0 /\ received = <<>>
  /\ broken = FALSE /\ outcome = "data"

\* The random bytes of a frame; only the key matters to the reader.
Heads == {[i \in 1 .. HeadLen(method) |-> k] : k \in Byte}
Tail2 == [i \in 1 .. TailLen(method) |-> 0]

Write(data) ==
  /\ ~closed /\ writes < MaxWrites
  /\ writes' = writes + 1
  /\ sent' = sent \o data
  /\ IF Framed
     THEN /\ \E head \in Heads : flight' = flight \o Frame(method, data, head, Tail2)
          /\ cut' = (cut \/ TotalLen(method, data) > MaxLength)
          /\ empty' = (empty \/ data = <<>>)
     ELSE /\ flight' = flight \o StreamOf(data, Len(sent))
          /\ UNCHANGED <<cut, empty>>
  /\ UNCHANGED <<method, closed, wire, read_buf, read_pos, received, broken, outcome>>

Close ==
  /\ ~closed
  /\ closed' = TRUE
  /\ UNCHANGED <<method, sent, writes, cut, empty, flight, wire, read_buf, read_pos, received, broken, outcome>>

Arrive(n) ==
  /\ n \in 1 .. Len(flight)
  /\ wire' = wire \o SubSeq(flight, 1, n)
  /\ flight' = SubSeq(flight, n + 1, Len(flight))
  /\ UNCHANGED <<method, sent, writes, cut, empty, closed, read_buf, read_pos, received, broken, outcome>>

-----------------------------------------------------------------------------
(* The reader; after an error or the end nobody reads on. *)

Min2(a, b) == IF a <= b THEN a ELSE b
Reading == outcome = "data"
Arrived == flight = <<>>  \* nothing is on its way any more

\* A read hands out Chunk bytes at most and keeps the rest of the frame.
HandOut(data) ==
  /\ received' = received \o SubSeq(data, 1, Min2(Chunk, Len(data)))
  /\ read_buf' = SubSeq(data, Min2(Chunk, Len(data)) + 1, Len(data))

ReadBuffered ==
  /\ Reading /\ read_buf # <<>>
  /\ HandOut(read_buf)
  /\ UNCHANGED <<method, sent, writes, cut, empty, closed, flight, wire, read_pos, broken, outcome>>

\* The length of the frame at hand, its bytes all there or not.
FrameLen == LengthOf(wire[1], wire[2])
NextFrame == Reading /\ Framed /\ read_buf = <<>> /\ Len(wire) >= 2
TooShort == FrameLen < HeadLen(method) + TailLen(method)
Incomplete == IF Len(wire) < 2 THEN TRUE ELSE ~TooShort /\ Len(wire) < 2 + FrameLen

ReadFrame ==
  /\ NextFrame /\ ~TooShort /\ Len(wire) >= 2 + FrameLen
  /\ LET data == DataOf(method, SubSeq(wire, 3, 2 + FrameLen))
     IN /\ HandOut(data)
        /\ outcome' = IF data = <<>> THEN "end" ELSE "data"
  /\ wire' = SubSeq(wire, 3 + FrameLen, Len(wire))
  /\ UNCHANGED <<method, sent, writes, cut, empty, closed, flight, read_pos, broken>>

\* A length that no frame has, or the end of the stream where a frame is expected:
\* read_exact reports the latter as an error even between two frames.
ReadFails ==
  /\ Reading /\ Framed /\ read_buf = <<>>
  /\ \/ Len(wire) >= 2 /\ TooShort
     \/ closed /\ Arrived /\ Incomplete
  /\ outcome' = "error"
  /\ UNCHANGED <<method, sent, writes, cut, empty, closed, flight, wire, read_buf, read_pos, received, broken>>

\* tcpSetTimeout: an incomplete frame is given up; the script may try again.
ReadTimesOut ==
  /\ Reading /\ Framed /\ read_buf = <<>> /\ wire # <<>>
  /\ Incomplete
  /\ broken' = TRUE
  /\ wire' = <<>>
  /\ UNCHANGED <<method, sent, writes, cut, empty, closed, flight, read_buf, read_pos, received, outcome>>

\* txde: what is there, at most Chunk bytes.
\* (As if the reader counted places per read.)
BugPlace == 0
Place    == read_pos

ReadStream ==
  /\ Reading /\ ~Framed /\ wire # <<>>
  /\ LET n == Min2(Chunk, Len(wire))
     IN /\ received' = received \o PlainOf(SubSeq(wire, 1, n), Place)
        /\ read_pos' = read_pos + n
        /\ wire' = SubSeq(wire, n + 1, Len(wire))
  /\ UNCHANGED <<method, sent, writes, cut, empty, closed, flight, read_buf, broken, outcome>>

ReadEnd ==
  /\ Reading /\ ~Framed /\ wire = <<>> /\ closed /\ Arrived
  /\ outcome' = "end"
  /\ UNCHANGED <<method, sent, writes, cut, empty, closed, flight, wire, read_buf, read_pos, received, broken>>

Next ==
  \/ \E data \in Writes : Write(data)
  \/ Close
  \/ \E n \in 1 .. Len(flight) : Arrive(n)
  \/ ReadBuffered \/ ReadFrame \/ ReadFails \/ ReadTimesOut \/ ReadStream \/ ReadEnd

Spec == Init /\ [][Next]_vars

-----------------------------------------------------------------------------
\* Every variable keeps to its type.
TypeOK ==
  /\ method \in {"txdef", "txdee", "txde"}
  /\ sent \in Seq(Byte) /\ received \in Seq(Byte) /\ read_buf \in Seq(Byte)
  /\ flight \in Seq(Byte) /\ wire \in Seq(Byte)
  /\ writes \in 0 .. MaxWrites /\ read_pos \in Nat
  /\ cut \in BOOLEAN /\ empty \in BOOLEAN /\ closed \in BOOLEAN /\ broken \in BOOLEAN
  /\ outcome \in {"data", "end", "error"}

IsPrefixOf(s, t) == Len(s) <= Len(t) /\ s = SubSeq(t, 1, Len(s))

\* The reader gets what was written, in order, however the network cuts it, as long as
\* each write fits its length field and no timeout fell into a frame.  It is told the
\* end of the stream only at an empty write or, without frames, at the close, and an
\* error only at the close.
StreamIntact ==
  ~cut /\ ~broken =>
    /\ IsPrefixOf(received \o read_buf, sent)
    /\ outcome = "end" => empty \/ (closed /\ received = sent)
    /\ outcome = "error" => closed /\ received = sent
=============================================================================
