-------------------------- MODULE ChildOutputProofs --------------------------
(***************************************************************************)
(* Proofs about module ChildOutput, for bytes of any size, any payload     *)
(* cap, any set of frames that fit the reader's buffer, any bytes that are *)
(* unreadable, and any number of writes: however the child's output is cut *)
(* into reads, reader_main delivers the frames that were written, and      *)
(* nothing else.                                                           *)
(***************************************************************************)
EXTENDS ChildOutput, FrameCodecProofs

Size(f) == 1 + f.form + Len(f.payload)
Bytes(f) == FrameBytes(f.flag, f.payload, f.form)
Message(f) == [flag |-> f.flag, payload |-> f.payload]

\* The stream has these bytes behind its first e.
Holds(e, bytes, n) == e + n <= Len(stream) /\ \A j \in 1 .. n : stream[e + j] = bytes[j]

-----------------------------------------------------------------------------
(* The inductive invariant. *)

Messages == [flag : {RELIABLE, UNRELIABLE}, payload : Seq(Byte)]

Types ==
    /\ TypeOK
    /\ delivered \in Seq(Messages)
    /\ sent \in Seq(Messages)

\* What was decoded, what is buffered and what is in the pipe is the stream.
Conserved ==
    /\ Len(stream) = taken + Len(buf) + Len(pipe)
    /\ \A j \in 1 .. Len(buf) : stream[taken + j] = buf[j]
    /\ \A j \in 1 .. Len(pipe) : stream[taken + Len(buf) + j] = pipe[j]

\* The frames written lie one behind the other from the start of the stream;
\* the i-th ends at ends[i].
Written(ends) ==
    /\ ends \in [0 .. Len(sent) -> Nat]
    /\ ends[0] = 0
    /\ \A i \in 1 .. Len(sent) :
          \E f \in Frames :
             /\ sent[i] = Message(f)
             /\ ends[i] = ends[i - 1] + Size(f)
             /\ Holds(ends[i - 1], Bytes(f), Size(f))

\* Behind them is nothing, or something unreadable, or a part of a frame of a
\* child that is gone.
Behind(e) ==
    /\ e <= Len(stream)
    /\ ~spoiled => e = Len(stream)
    /\ spoiled => \/ \E g \in Garbage : Holds(e, g, Len(g))
                  \/ /\ ~childOpen
                     /\ \E f \in Frames :
                           /\ Len(stream) - e < Size(f)
                           /\ Holds(e, Bytes(f), Len(stream) - e)

\* The frames delivered are the first ones, and exactly their bytes were taken.
Taken(ends) ==
    /\ Len(delivered) <= Len(sent)
    /\ taken = ends[Len(delivered)]
    /\ \A i \in 1 .. Len(delivered) : delivered[i] = sent[i]

Framed == \E ends : Written(ends) /\ Behind(ends[Len(sent)]) /\ Taken(ends)

\* The reader waits for bytes only when its buffer has no verdict; it begins
\* with an empty one.
Waits ==
    /\ rpc = "start" => buf = << >>
    /\ rpc = "read" => wtd_frame_decode(buf).st = INCOMPLETE

\* A reader that ends, although nothing failed and nothing but frames was
\* written, has seen the end of the stream and has delivered all of it.
Ended ==
    rpc \in {"done", "returned"} /\ ~failed /\ ~spoiled =>
        ~childOpen /\ Len(delivered) = Len(sent)

IInv ==
    /\ Types
    /\ Conserved
    /\ Framed
    /\ Waits
    /\ Ended

-----------------------------------------------------------------------------
(* What the decoder makes of the three things that can lie at the front.   *)

\* The assumption on the frames, in the words of the codec's lemmas.
LEMMA FramesAreFrames ==
    ASSUME NEW f \in Frames
    PROVE  /\ IsFrame(f.flag, f.payload, f.form)
           /\ f.form \in Nat /\ Len(f.payload) \in Nat
           /\ Size(f) \in Nat /\ Size(f) >= 2 /\ Size(f) <= READ_BUF_SIZE
           /\ Bytes(f) \in Seq(Byte) /\ Len(Bytes(f)) = Size(f)
<1>1. IsFrame(f.flag, f.payload, f.form) /\ 1 + f.form + Len(f.payload) <= READ_BUF_SIZE
  BY ChildAssumption DEF IsFrame
<1>2. f.form \in Nat /\ f.form >= 1 /\ Len(f.payload) \in Nat
  BY <1>1 DEF IsFrame
<1>3. Bytes(f) \in Seq(Byte) /\ Len(Bytes(f)) = Size(f)
  BY <1>1, FrameBytesAre DEF Bytes, Size
<1> QED
  BY <1>1, <1>2, <1>3 DEF Size

\* The buffer's size is a number.
LEMMA RoomIs == READ_BUF_SIZE \in Nat /\ READ_BUF_SIZE > 0
BY CodecAssumption DEF READ_BUF_SIZE

\* A buffer that begins like unreadable bytes never decodes to a frame,
\* however much of them it holds.
LEMMA NeverAFrame ==
    ASSUME NEW g \in Seq(Byte), Unreadable(g),
           NEW c \in Seq(Byte), Len(c) <= READ_BUF_SIZE,
           \A j \in 1 .. Len(c) : j <= Len(g) => c[j] = g[j]
    PROVE  wtd_frame_decode(c).st # OK
<1> SUFFICES ASSUME wtd_frame_decode(c).st = OK PROVE FALSE
  OBVIOUS
<1> DEFINE k == HeadForm(c)
           n == HeadLength(c)
<1>1. /\ 1 + k + n <= Len(c) /\ n \in Nat /\ n <= MaxPayload /\ c[1] \in {RELIABLE, UNRELIABLE}
      /\ Len(c) >= 2 /\ Len(c) \in Nat
  BY DecodeBounds, CodecAssumption
<1>2. k \in Nat /\ k >= 1
  BY HeadFormIs
<1>3. Len(g) >= 1 /\ Len(g) \in Nat
  BY DEF Unreadable
<1>4. c[1] = g[1]
  BY <1>1, <1>3
<1>5. /\ Len(g) >= 2
      /\ varint_decode(Tail(g)).len # 0
      /\ \/ varint_decode(Tail(g)).value > MaxPayload
         \/ 1 + varint_decode(Tail(g)).len + varint_decode(Tail(g)).value > READ_BUF_SIZE
  BY <1>1, <1>4 DEF Unreadable
<1>6. c[2] = g[2]
  BY <1>1, <1>5
<1>7. HeadForm(g) = k
  BY <1>6 DEF HeadForm
<1>8. varint_decode(Tail(g)) =
         IF Len(g) < 1 + HeadForm(g) THEN [len |-> 0, value |-> 0]
         ELSE [len |-> HeadForm(g), value |-> HeadLength(g)]
  BY <1>5, HeadVarint
<1>9. ~(Len(g) < 1 + HeadForm(g))
  BY <1>5, <1>8
<1>10. varint_decode(Tail(g)).len = k /\ varint_decode(Tail(g)).value = HeadLength(g)
  BY <1>7, <1>8, <1>9
<1>11. HeadLength(g) = n
  <2>1. /\ \A i \in 1 .. k : Tail(g)[i] \in Nat /\ Tail(g)[i] = g[i + 1]
        /\ Len(g) >= 1 + k
    <3>1. Len(g) >= 1 + HeadForm(g)
      BY <1>2, <1>3, <1>7, <1>9
    <3> QED
      BY <1>7, <3>1, HeadLengthIs
  <2>2. Len(c) >= 1 + HeadForm(c)
    BY <1>1, <1>2
  <2>3. \A i \in 1 .. k : Tail(c)[i] \in Nat /\ Tail(c)[i] = c[i + 1]
    BY <2>2, HeadLengthIs
  <2>4. \A i \in 1 .. k : c[i + 1] = g[i + 1]
    <3> HIDE DEF k, n
    <3> QED
      BY <1>1, <1>2, <1>3, <2>1, <2>2 DEF k
  <2>5. \A i \in 1 .. k : Tail(g)[i] \in Nat /\ Tail(g)[i] = Tail(c)[i]
    BY <2>1, <2>3, <2>4
  <2>6. BigEndian(Tail(g), k) = BigEndian(Tail(c), k)
    BY <1>2, <2>5, ValueAgree
  <2> QED
    BY <1>7, <2>6 DEF HeadLength
<1> HIDE DEF k, n
<1> QED
  BY <1>1, <1>2, <1>5, <1>10, <1>11, RoomIs, CodecAssumption

\* While a written frame is not yet delivered, the buffer begins with it: the
\* decoder returns it as soon as all of it was read, and waits before.
LEMMA NextFrame ==
    ASSUME Types, Conserved, NEW ends, Written(ends), Taken(ends), Len(delivered) < Len(sent)
    PROVE  \E f \in Frames :
              /\ sent[Len(delivered) + 1] = Message(f)
              /\ ends[Len(delivered) + 1] = taken + Size(f)
              /\ taken + Size(f) <= Len(stream)
              /\ Len(buf) >= Size(f) =>
                    wtd_frame_decode(buf) = [st |-> OK, consumed |-> Size(f),
                                             flag |-> f.flag, payload |-> f.payload]
              /\ Len(buf) < Size(f) => wtd_frame_decode(buf).st = INCOMPLETE
<1> DEFINE d == Len(delivered)
<1>1. d \in Nat /\ Len(sent) \in Nat /\ d < Len(sent) /\ taken \in Nat /\ taken = ends[d]
  BY DEF Types, Messages, TypeOK, Taken
<1>2. d + 1 \in 1 .. Len(sent) /\ (d + 1) - 1 = d
  <2> HIDE DEF d
  <2> QED
    BY <1>1
<1>3. PICK f \in Frames : /\ sent[d + 1] = Message(f)
                          /\ ends[d + 1] = ends[(d + 1) - 1] + Size(f)
                          /\ Holds(ends[(d + 1) - 1], Bytes(f), Size(f))
  BY <1>2 DEF Written
<1>4. ends[d + 1] = taken + Size(f) /\ Holds(taken, Bytes(f), Size(f))
  BY <1>1, <1>2, <1>3
<1>5. /\ taken + Size(f) <= Len(stream)
      /\ \A j \in 1 .. Size(f) : stream[taken + j] = Bytes(f)[j]
  BY <1>4 DEF Holds
<1>6. buf \in Seq(Byte) /\ Len(buf) \in Nat
  BY DEF Types, TypeOK
<1>7. \A j \in 1 .. Len(buf) : stream[taken + j] = buf[j]
  BY DEF Conserved
<1>8. IsFrame(f.flag, f.payload, f.form) /\ Size(f) \in Nat
  BY FramesAreFrames
<1>9. ASSUME Len(buf) >= Size(f)
      PROVE  wtd_frame_decode(buf) = [st |-> OK, consumed |-> Size(f),
                                      flag |-> f.flag, payload |-> f.payload]
  <2>1. \A j \in 1 .. Size(f) : buf[j] = Bytes(f)[j]
    BY <1>5, <1>6, <1>7, <1>8, <1>9
  <2> QED
    BY <1>6, <1>8, <1>9, <2>1, WholeFrame DEF Size, Bytes
<1>10. ASSUME Len(buf) < Size(f) PROVE wtd_frame_decode(buf).st = INCOMPLETE
  <2>1. \A j \in 1 .. Len(buf) : buf[j] = Bytes(f)[j]
    BY <1>5, <1>6, <1>7, <1>8, <1>10
  <2> QED
    BY <1>6, <1>8, <1>10, <2>1, PartOfFrame DEF Size, Bytes
<1> QED
  BY <1>3, <1>4, <1>5, <1>9, <1>10

\* When every written frame is delivered, no other is found, and without
\* anything but frames in the stream the buffer is empty.
LEMMA NoOtherFrame ==
    ASSUME Types, Conserved, NEW ends, Behind(ends[Len(sent)]), Taken(ends),
           Len(delivered) = Len(sent)
    PROVE  /\ wtd_frame_decode(buf).st # OK
           /\ ~spoiled => wtd_frame_decode(buf).st = INCOMPLETE
<1>1. /\ taken \in Nat /\ taken = ends[Len(sent)] /\ Len(stream) \in Nat
      /\ buf \in Seq(Byte) /\ Len(buf) \in Nat /\ Len(buf) <= READ_BUF_SIZE
      /\ Len(pipe) \in Nat /\ spoiled \in BOOLEAN
  BY DEF Types, TypeOK, Taken
<1>2. /\ Len(stream) = taken + Len(buf) + Len(pipe)
      /\ \A j \in 1 .. Len(buf) : stream[taken + j] = buf[j]
  BY DEF Conserved
<1>3. Len(buf) <= Len(stream) - taken
  BY <1>1, <1>2
<1>4. Behind(taken)
  BY <1>1
<1>5. ASSUME ~spoiled PROVE wtd_frame_decode(buf).st = INCOMPLETE
  <2>1. Len(buf) < 1
    BY <1>1, <1>2, <1>4, <1>5 DEF Behind
  <2> QED
    BY <2>1 DEF wtd_frame_decode, Undecoded
<1>6. ASSUME NEW g \in Garbage, Holds(taken, g, Len(g))
      PROVE  wtd_frame_decode(buf).st # OK
  <2>1. g \in Seq(Byte) /\ Unreadable(g)
    BY ChildAssumption
  <2>2. \A j \in 1 .. Len(buf) : j <= Len(g) => buf[j] = g[j]
    <3> SUFFICES ASSUME NEW j \in 1 .. Len(buf), j <= Len(g) PROVE buf[j] = g[j]
      OBVIOUS
    <3>1. j \in 1 .. Len(g)
      BY <2>1
    <3> QED
      BY <1>2, <1>6, <3>1 DEF Holds
  <2> QED
    BY <1>1, <2>1, <2>2, NeverAFrame
<1>7. ASSUME NEW f \in Frames, Len(stream) - taken < Size(f),
             Holds(taken, Bytes(f), Len(stream) - taken)
      PROVE  wtd_frame_decode(buf).st # OK
  <2>1. Len(buf) < Size(f)
    BY <1>1, <1>3, <1>7, FramesAreFrames
  <2>2. \A j \in 1 .. Len(buf) : buf[j] = Bytes(f)[j]
    <3> SUFFICES ASSUME NEW j \in 1 .. Len(buf) PROVE buf[j] = Bytes(f)[j]
      OBVIOUS
    <3>1. j \in 1 .. Len(stream) - taken
      BY <1>1, <1>3
    <3> QED
      BY <1>2, <1>7, <3>1 DEF Holds
  <2>3. IsFrame(f.flag, f.payload, f.form)
    BY FramesAreFrames
  <2>4. wtd_frame_decode(buf).st = INCOMPLETE
    BY <1>1, <2>1, <2>2, <2>3, PartOfFrame DEF Size, Bytes
  <2> QED
    BY <2>4 DEF OK, INCOMPLETE
<1>8. ASSUME spoiled PROVE wtd_frame_decode(buf).st # OK
  BY <1>4, <1>6, <1>7, <1>8 DEF Behind
<1> QED
  BY <1>1, <1>5, <1>8 DEF OK, INCOMPLETE

-----------------------------------------------------------------------------
(* The child writes. *)

\* The elements of a sequence to which bytes were appended.
LEMMA Appended ==
    ASSUME NEW s \in Seq(Byte), NEW b \in Seq(Byte)
    PROVE  /\ s \o b \in Seq(Byte)
           /\ Len(s \o b) = Len(s) + Len(b)
           /\ \A j \in 1 .. Len(s) : (s \o b)[j] = s[j]
           /\ \A j \in 1 .. Len(b) : (s \o b)[Len(s) + j] = b[j]
<1>1. Len(s) \in Nat /\ Len(b) \in Nat
  OBVIOUS
<1>2. /\ s \o b \in Seq(Byte) /\ Len(s \o b) = Len(s) + Len(b)
      /\ \A i \in 1 .. Len(s) + Len(b) :
            (s \o b)[i] = IF i <= Len(s) THEN s[i] ELSE b[i - Len(s)]
  BY ConcatProperties, Zenon
<1>3. ASSUME NEW j \in 1 .. Len(s) PROVE (s \o b)[j] = s[j]
  BY <1>1, <1>2
<1>4. ASSUME NEW j \in 1 .. Len(b) PROVE (s \o b)[Len(s) + j] = b[j]
  <2>1. /\ Len(s) + j \in 1 .. Len(s) + Len(b)
        /\ ~(Len(s) + j <= Len(s)) /\ (Len(s) + j) - Len(s) = j
    BY <1>1
  <2> QED
    BY <1>2, <2>1
<1> QED
  BY <1>2, <1>3, <1>4

\* What the stream holds it still holds when more is written.
LEMMA StillHolds ==
    ASSUME stream \in Seq(Byte), NEW b \in Seq(Byte), stream' = stream \o b,
           NEW e \in Nat, NEW n \in Nat, NEW x, Holds(e, x, n)
    PROVE  Holds(e, x, n)'
<1>1. /\ Len(stream') = Len(stream) + Len(b)
      /\ \A j \in 1 .. Len(stream) : stream'[j] = stream[j]
  BY Appended
<1>2. Len(stream) \in Nat /\ Len(b) \in Nat
  OBVIOUS
<1>3. e + n <= Len(stream) /\ \A j \in 1 .. n : stream[e + j] = x[j]
  BY DEF Holds
<1>4. e + n <= Len(stream')
  BY <1>1, <1>2, <1>3
<1>5. ASSUME NEW j \in 1 .. n PROVE stream'[e + j] = x[j]
  <2>1. e + j \in 1 .. Len(stream)
    BY <1>2, <1>3
  <2> QED
    BY <1>1, <1>3, <2>1
<1> QED
  BY <1>4, <1>5 DEF Holds

\* The bytes just written lie behind the others.
LEMMA HoldsTheNew ==
    ASSUME stream \in Seq(Byte), NEW b \in Seq(Byte), stream' = stream \o b,
           NEW e, e = Len(stream)
    PROVE  Holds(e, b, Len(b))'
<1>1. /\ Len(stream') = Len(stream) + Len(b)
      /\ \A j \in 1 .. Len(b) : stream'[Len(stream) + j] = b[j]
  BY Appended
<1>2. Len(stream) \in Nat /\ Len(b) \in Nat
  OBVIOUS
<1> QED
  BY <1>1, <1>2 DEF Holds

\* The frames written before stay where they are.
LEMMA StillWritten ==
    ASSUME stream \in Seq(Byte), sent \in Seq(Messages), NEW b \in Seq(Byte),
           stream' = stream \o b, NEW ends, Written(ends),
           NEW i \in 1 .. Len(sent)
    PROVE  \E f \in Frames :
              /\ sent[i] = Message(f)
              /\ ends[i] = ends[i - 1] + Size(f)
              /\ Holds(ends[i - 1], Bytes(f), Size(f))'
<1>1. PICK f \in Frames : /\ sent[i] = Message(f)
                          /\ ends[i] = ends[i - 1] + Size(f)
                          /\ Holds(ends[i - 1], Bytes(f), Size(f))
  BY DEF Written
<1>2. Len(sent) \in Nat
  OBVIOUS
<1>3. i - 1 \in 0 .. Len(sent)
  BY <1>2
<1>4. ends[i - 1] \in Nat
  BY <1>3 DEF Written
<1>5. Size(f) \in Nat
  BY FramesAreFrames
<1>6. Holds(ends[i - 1], Bytes(f), Size(f))'
  BY <1>1, <1>4, <1>5, StillHolds
<1> QED
  BY <1>1, <1>6

\* No byte is lost or moved by a write.
LEMMA ConservedByWrite ==
    ASSUME Types, Conserved, NEW b \in Seq(Byte),
           stream' = stream \o b, pipe' = pipe \o b, UNCHANGED <<buf, taken>>
    PROVE  Conserved' /\ stream' \in Seq(Byte) /\ pipe' \in Seq(Byte)
           /\ Len(stream') >= Len(stream)
<1>1. /\ stream \in Seq(Byte) /\ pipe \in Seq(Byte) /\ Len(stream) \in Nat /\ Len(pipe) \in Nat
      /\ Len(buf) \in Nat /\ taken \in Nat /\ Len(b) \in Nat
  BY DEF Types, TypeOK
<1>2. /\ Len(stream) = taken + Len(buf) + Len(pipe)
      /\ \A j \in 1 .. Len(buf) : stream[taken + j] = buf[j]
      /\ \A j \in 1 .. Len(pipe) : stream[taken + Len(buf) + j] = pipe[j]
  BY DEF Conserved
<1>3. /\ stream' \in Seq(Byte) /\ Len(stream') = Len(stream) + Len(b)
      /\ \A j \in 1 .. Len(stream) : stream'[j] = stream[j]
      /\ \A j \in 1 .. Len(b) : stream'[Len(stream) + j] = b[j]
  BY <1>1, Appended
<1>4. /\ pipe' \in Seq(Byte) /\ Len(pipe') = Len(pipe) + Len(b)
      /\ \A j \in 1 .. Len(pipe) : pipe'[j] = pipe[j]
      /\ \A j \in 1 .. Len(b) : pipe'[Len(pipe) + j] = b[j]
  BY <1>1, Appended
<1>5. Len(stream') = taken + Len(buf) + Len(pipe') /\ Len(stream') >= Len(stream)
  BY <1>1, <1>2, <1>3, <1>4
<1>6. ASSUME NEW j \in 1 .. Len(buf) PROVE stream'[taken + j] = buf[j]
  <2>1. taken + j \in 1 .. Len(stream)
    BY <1>1, <1>2
  <2> QED
    BY <1>2, <1>3, <2>1
<1>7. ASSUME NEW j \in 1 .. Len(pipe') PROVE stream'[taken + Len(buf) + j] = pipe'[j]
  <2>1. CASE j <= Len(pipe)
    <3>1. j \in 1 .. Len(pipe) /\ taken + Len(buf) + j \in 1 .. Len(stream)
      BY <1>1, <1>2, <2>1
    <3> QED
      BY <1>2, <1>3, <1>4, <3>1
  <2>2. CASE ~(j <= Len(pipe))
    <3> DEFINE i == j - Len(pipe)
    <3>1. i \in 1 .. Len(b) /\ Len(pipe) + i = j /\ Len(stream) + i = taken + Len(buf) + j
      BY <1>1, <1>2, <1>4, <2>2
    <3> HIDE DEF i
    <3>2. stream'[Len(stream) + i] = b[i] /\ pipe'[Len(pipe) + i] = b[i]
      BY <1>3, <1>4, <3>1
    <3> QED
      BY <3>1, <3>2
  <2> QED
    BY <2>1, <2>2
<1>8. Conserved'
  BY <1>5, <1>6, <1>7 DEF Conserved
<1> QED
  BY <1>3, <1>4, <1>5, <1>8

\* A write leaves alone what the reader has: the invariant's parts about the
\* reader only have to be looked at for what the write does to its frames.
LEMMA WriteKeeps ==
    ASSUME IInv, NEW b \in Seq(Byte), Write(b),
           sent' \in Seq(Messages), spoiled' \in BOOLEAN, childOpen' \in BOOLEAN
    PROVE  Types' /\ Conserved' /\ Waits'
<1>1. /\ Types /\ Conserved /\ Waits
      /\ stream' = stream \o b /\ pipe' = pipe \o b
      /\ UNCHANGED <<rpc, buf, delivered, output_eof, failed, taken>>
      /\ writes < MaxWrites /\ writes' = writes + 1
  BY DEF IInv, Write, readerVars
<1>2. Conserved' /\ stream' \in Seq(Byte) /\ pipe' \in Seq(Byte) /\ Len(stream') >= Len(stream)
  BY <1>1, ConservedByWrite
<1>3. writes' \in 0 .. MaxWrites
  BY <1>1, ChildAssumption DEF Types, TypeOK
<1>4. taken' \in 0 .. Len(stream')
  BY <1>1, <1>2 DEF Types, TypeOK
<1>5. TypeOK'
  BY <1>1, <1>2, <1>3, <1>4 DEF Types, TypeOK
<1>6. Types'
  BY <1>1, <1>5 DEF Types
<1>7. Waits'
  BY <1>1 DEF Waits
<1> QED
  BY <1>2, <1>6, <1>7

\* What spoiled the stream stays behind the frames while the child goes on.
LEMMA StillSpoiled ==
    ASSUME stream \in Seq(Byte), NEW b \in Seq(Byte), stream' = stream \o b,
           NEW e \in Nat, Behind(e), spoiled, childOpen, spoiled'
    PROVE  Behind(e)'
<1>1. PICK g \in Garbage : Holds(e, g, Len(g))
  BY DEF Behind
<1>2. g \in Seq(Byte) /\ Len(g) \in Nat
  BY ChildAssumption
<1>3. Holds(e, g, Len(g))'
  BY <1>1, <1>2, StillHolds
<1>4. e <= Len(stream')
  <2>1. Len(stream') \in Nat
    BY Appended
  <2>2. e + Len(g) <= Len(stream')
    BY <1>3 DEF Holds
  <2> QED
    BY <1>2, <2>1, <2>2
<1> QED
  BY <1>3, <1>4 DEF Behind

\* A write behind the frames that is no frame of the invariant's list.
LEMMA SpoilingWrite ==
    ASSUME IInv, NEW b \in Seq(Byte), Write(b), UNCHANGED sent, spoiled',
           childOpen' \in BOOLEAN,
           \A e \in Nat : ~spoiled /\ e = Len(stream) => Behind(e)'
    PROVE  IInv'
<1>1. /\ Types /\ stream \in Seq(Byte) /\ sent \in Seq(Messages) /\ spoiled \in BOOLEAN
      /\ stream' = stream \o b /\ UNCHANGED <<sent, delivered, taken>> /\ childOpen
  BY DEF IInv, Types, TypeOK, Write, readerVars
<1>2. PICK ends : Written(ends) /\ Behind(ends[Len(sent)]) /\ Taken(ends)
  BY DEF IInv, Framed
<1>3. Written(ends)'
  <2>1. \A i \in 1 .. Len(sent) :
           \E f \in Frames :
              /\ sent[i] = Message(f)
              /\ ends[i] = ends[i - 1] + Size(f)
              /\ Holds(ends[i - 1], Bytes(f), Size(f))'
    BY <1>1, <1>2, StillWritten
  <2> QED
    BY <1>1, <1>2, <2>1 DEF Written
<1>4. Taken(ends)'
  BY <1>1, <1>2 DEF Taken
<1>5. PICK e \in Nat : e = ends[Len(sent)]
  <2>1. Len(sent) \in Nat
    BY <1>1
  <2>2. Len(sent) \in 0 .. Len(sent)
    BY <2>1
  <2>3. ends[Len(sent)] \in Nat
    BY <1>2, <2>2 DEF Written
  <2> QED
    BY <2>3
<1>6. Behind(e)'
  <2>1. CASE spoiled
    BY <1>1, <1>2, <1>5, <2>1, StillSpoiled
  <2>2. CASE ~spoiled
    BY <1>2, <1>5, <2>2 DEF Behind
  <2> QED
    BY <1>1, <2>1, <2>2
<1>7. Behind(ends[Len(sent)])'
  <2>1. e = ends[Len(sent')]
    BY <1>1, <1>5
  <2> QED
    BY <1>6, <2>1
<1>8. Framed'
  BY <1>3, <1>4, <1>7 DEF Framed
<1>9. Types' /\ Conserved' /\ Waits'
  BY <1>1, WriteKeeps
<1>10. Ended'
  BY DEF Ended
<1> QED
  BY <1>8, <1>9, <1>10 DEF IInv

\* Bytes that are no frame.
LEMMA GarbageStep ==
    ASSUME IInv, NEW g \in Garbage, ChildGarbage(g)
    PROVE  IInv'
<1>1. g \in Seq(Byte)
  BY ChildAssumption
<1>2. Write(g) /\ spoiled' = TRUE /\ UNCHANGED <<childOpen, sent>> /\ stream' = stream \o g
  BY DEF ChildGarbage, Write
<1>3. stream \in Seq(Byte) /\ childOpen \in BOOLEAN
  BY DEF IInv, Types, TypeOK
<1>4. ASSUME NEW e \in Nat, e = Len(stream) PROVE Behind(e)'
  <2>1. Holds(e, g, Len(g))'
    BY <1>1, <1>2, <1>3, <1>4, HoldsTheNew
  <2>2. Len(stream') = Len(stream) + Len(g) /\ Len(g) \in Nat
    BY <1>1, <1>2, <1>3, Appended
  <2> QED
    BY <1>2, <1>4, <2>1, <2>2 DEF Behind
<1> QED
  BY <1>1, <1>2, <1>3, <1>4, SpoilingWrite

\* The child dies in the middle of a frame.
LEMMA DiesStep ==
    ASSUME IInv, NEW f \in Frames, NEW n \in 1 .. Len(f.payload) + f.form, ChildDies(f, n)
    PROVE  IInv'
<1> DEFINE b == SubSeq(Bytes(f), 1, n)
<1>1. /\ f.form \in Nat /\ Len(f.payload) \in Nat /\ Bytes(f) \in Seq(Byte)
      /\ Len(Bytes(f)) = 1 + f.form + Len(f.payload) /\ Size(f) = 1 + f.form + Len(f.payload)
  BY FramesAreFrames DEF Size
<1>2. n \in Nat /\ n >= 1 /\ n < Size(f) /\ n <= Len(Bytes(f))
  BY <1>1
<1>3. b \in Seq(Byte) /\ Len(b) = n /\ \A j \in 1 .. n : b[j] = Bytes(f)[j]
  <2>1. 1 \in Int /\ n \in Int /\ \A i \in 1 .. n : Bytes(f)[i] \in Byte
    BY <1>1, <1>2
  <2>2. /\ b \in Seq(Byte)
        /\ Len(b) = IF 1 <= n THEN n - 1 + 1 ELSE 0
        /\ \A i \in 1 .. n - 1 + 1 : b[i] = Bytes(f)[1 + i - 1]
    BY <2>1, SubSeqProperties
  <2> HIDE DEF b
  <2> QED
    BY <1>2, <2>2
<1>4. /\ Write(b) /\ spoiled' = TRUE /\ childOpen' = FALSE /\ UNCHANGED sent
      /\ stream' = stream \o b
  BY DEF ChildDies, Write, Bytes
<1>5. stream \in Seq(Byte)
  BY DEF IInv, Types, TypeOK
<1> HIDE DEF b
<1>6. ASSUME NEW e \in Nat, e = Len(stream) PROVE Behind(e)'
  <2>1. Holds(e, b, Len(b))'
    BY <1>3, <1>4, <1>5, <1>6, HoldsTheNew
  <2>2. Len(stream') = e + n
    BY <1>3, <1>4, <1>5, <1>6, Appended
  <2>3. Len(stream') - e = n /\ e <= Len(stream')
    BY <1>2, <1>6, <2>2
  <2>4. Holds(e, Bytes(f), n)'
    BY <1>3, <2>1 DEF Holds
  <2>5. Len(stream') - e < Size(f) /\ Holds(e, Bytes(f), Len(stream) - e)'
    <3>1. e + (Len(stream') - e) <= Len(stream')
             /\ \A j \in 1 .. Len(stream') - e : stream'[e + j] = Bytes(f)[j]
      BY <1>6, <2>2, <2>3, <2>4 DEF Holds
    <3> QED
      BY <1>2, <2>3, <2>4
  <2> QED
    BY <1>4, <2>3, <2>5 DEF Behind
<1> QED
  BY <1>3, <1>4, <1>6, SpoilingWrite

\* A whole frame: behind the others while nothing spoiled the stream, lost on
\* the reader afterwards.
LEMMA FrameStep ==
    ASSUME IInv, NEW f \in Frames, ChildFrame(f)
    PROVE  IInv'
<1> DEFINE m == Len(sent)
<1>1. /\ Write(Bytes(f)) /\ UNCHANGED <<childOpen, spoiled>>
      /\ sent' = (IF spoiled THEN sent ELSE Append(sent, Message(f)))
      /\ stream' = stream \o Bytes(f) /\ UNCHANGED <<rpc, failed, delivered, taken>> /\ childOpen
  BY DEF ChildFrame, Write, readerVars, Bytes, Message
<1>2. /\ Bytes(f) \in Seq(Byte) /\ Len(Bytes(f)) = Size(f) /\ Size(f) \in Nat
      /\ Message(f) \in Messages
  BY FramesAreFrames DEF Message, Messages, IsFrame
<1>3. /\ stream \in Seq(Byte) /\ sent \in Seq(Messages) /\ spoiled \in BOOLEAN
      /\ childOpen \in BOOLEAN /\ Len(stream) \in Nat
  BY DEF IInv, Types, TypeOK
<1>4. CASE spoiled
  BY <1>1, <1>2, <1>3, <1>4, SpoilingWrite
<1>5. CASE ~spoiled
  <2>1. /\ sent' = Append(sent, Message(f)) /\ ~spoiled'
        /\ sent' \in Seq(Messages) /\ Len(sent') = m + 1 /\ m \in Nat
        /\ sent'[m + 1] = Message(f) /\ \A i \in 1 .. m : sent'[i] = sent[i]
    BY <1>1, <1>2, <1>3, <1>5
  <2>2. PICK ends : Written(ends) /\ Behind(ends[m]) /\ Taken(ends)
    BY DEF IInv, Framed
  <2>3. /\ ends \in [0 .. m -> Nat] /\ ends[0] = 0 /\ ends[m] = Len(stream)
    BY <1>5, <2>2 DEF Written, Behind
  <2>4. \A i \in 1 .. m :
           \E h \in Frames :
              /\ sent[i] = Message(h)
              /\ ends[i] = ends[i - 1] + Size(h)
              /\ Holds(ends[i - 1], Bytes(h), Size(h))'
    BY <1>1, <1>2, <1>3, <2>2, StillWritten
  <2> DEFINE e == [i \in 0 .. m + 1 |-> IF i = m + 1 THEN Len(stream) + Size(f) ELSE ends[i]]
  <2>5. PICK x : x = e
    OBVIOUS
  <2>6. /\ x \in [0 .. m + 1 -> Nat] /\ x[m + 1] = Len(stream) + Size(f)
        /\ \A i \in 0 .. m : x[i] = ends[i]
    <3>1. \A i \in 0 .. m + 1 : i # m + 1 => i \in 0 .. m
      BY <2>1
    <3>2. \A i \in 0 .. m : i \in 0 .. m + 1 /\ i # m + 1
      BY <2>1
    <3>3. Len(stream) + Size(f) \in Nat /\ m + 1 \in 0 .. m + 1
      BY <1>2, <1>3, <2>1
    <3> HIDE DEF m
    <3> QED
      BY <2>3, <2>5, <3>1, <3>2, <3>3
  <2>8. PICK s \in Nat : s = Len(stream)
    BY <1>3
  <2>9. Holds(s, Bytes(f), Size(f))'
    BY <1>1, <1>2, <1>3, <2>8, HoldsTheNew
  <2>10. ASSUME NEW i \in 1 .. m + 1
         PROVE  \E h \in Frames :
                   /\ sent'[i] = Message(h)
                   /\ x[i] = x[i - 1] + Size(h)
                   /\ Holds(x[i - 1], Bytes(h), Size(h))'
    <3>1. CASE i = m + 1
      <4>1. i - 1 = m /\ m \in 0 .. m
        BY <2>1, <3>1
      <4>2. x[i - 1] = s
        BY <2>3, <2>6, <2>8, <4>1
      <4>3. x[i] = x[i - 1] + Size(f) /\ sent'[i] = Message(f)
        BY <2>1, <2>6, <2>8, <3>1, <4>2
      <4>4. Holds(x[i - 1], Bytes(f), Size(f))'
        BY <2>9, <4>2
      <4> QED
        BY <4>3, <4>4
    <3>2. CASE i # m + 1
      <4>1. i \in 1 .. m /\ i \in 0 .. m /\ i - 1 \in 0 .. m
        BY <2>1, <3>2
      <4>2. PICK h \in Frames : /\ sent[i] = Message(h)
                                /\ ends[i] = ends[i - 1] + Size(h)
                                /\ Holds(ends[i - 1], Bytes(h), Size(h))'
        BY <2>4, <4>1
      <4>3. x[i] = ends[i] /\ x[i - 1] = ends[i - 1] /\ sent'[i] = sent[i]
        BY <2>1, <2>6, <4>1
      <4> QED
        BY <4>2, <4>3
    <3> QED
      BY <3>1, <3>2
  <2>11. Written(x)'
    <3>1. x[0] = 0
      BY <2>1, <2>3, <2>6
    <3> QED
      BY <2>1, <2>6, <2>10, <3>1 DEF Written
  <2>12. Behind(x[Len(sent)])'
    <3>1. x[Len(sent')] = Len(stream')
      <4>1. Len(stream \o Bytes(f)) = Len(stream) + Len(Bytes(f))
        BY <1>2, <1>3, Appended
      <4>2. Len(stream') = Len(stream) + Size(f)
        BY <1>1, <1>2, <4>1
      <4> QED
        BY <2>1, <2>6, <4>2
    <3>2. Len(stream') \in Nat
      BY <1>1, <1>2, <1>3, Appended
    <3> QED
      BY <2>1, <3>1, <3>2 DEF Behind
  <2>13. Taken(x)'
    <3>1. Len(delivered) \in Nat
      BY DEF IInv, Types
    <3>2. Len(delivered) <= m /\ taken = ends[Len(delivered)]
          /\ \A i \in 1 .. Len(delivered) : delivered[i] = sent[i]
      BY <2>2 DEF Taken
    <3>3. Len(delivered) <= m + 1 /\ Len(delivered) \in 0 .. m
          /\ \A i \in 1 .. Len(delivered) : i \in 1 .. m
      BY <2>1, <3>1, <3>2
    <3> QED
      BY <1>1, <2>1, <2>6, <3>2, <3>3 DEF Taken
  <2>14. Framed'
    BY <2>11, <2>12, <2>13 DEF Framed
  <2>15. Types' /\ Conserved' /\ Waits'
    BY <1>1, <1>2, <1>3, <2>1, WriteKeeps
  <2>16. Ended'
    BY <1>1, <1>5 DEF Ended, IInv
  <2> QED
    BY <2>14, <2>15, <2>16 DEF IInv
<1> QED
  BY <1>3, <1>4, <1>5

\* The child closes its end.
LEMMA ClosesStep ==
    ASSUME IInv, ChildCloses
    PROVE  IInv'
<1>1. /\ childOpen' = FALSE /\ childOpen
      /\ UNCHANGED <<writes, sent, spoiled, stream, pipe, rpc, buf, delivered, output_eof, failed, taken>>
  BY DEF ChildCloses, readerVars
<1>2. Types'
  BY <1>1 DEF IInv, Types, TypeOK
<1>3. Conserved'
  BY <1>1 DEF IInv, Conserved
<1>4. Framed'
  <2>1. PICK ends : Written(ends) /\ Behind(ends[Len(sent)]) /\ Taken(ends)
    BY DEF IInv, Framed
  <2>2. Written(ends)'
    BY <1>1, <2>1 DEF Written, Holds
  <2>3. Behind(ends[Len(sent)])'
    BY <1>1, <2>1 DEF Behind, Holds
  <2>4. Taken(ends)'
    BY <1>1, <2>1 DEF Taken
  <2> QED
    BY <2>2, <2>3, <2>4 DEF Framed
<1>5. Waits' /\ Ended'
  BY <1>1 DEF IInv, Waits, Ended
<1> QED
  BY <1>2, <1>3, <1>4, <1>5 DEF IInv

-----------------------------------------------------------------------------
(* The reader. *)

\* The invariant's parts about the stream do not depend on where the reader is.
LEMMA FramedStays ==
    ASSUME Framed, UNCHANGED <<childVars, delivered, taken>>
    PROVE  Framed'
<1>1. UNCHANGED <<writes, sent, spoiled, stream, childOpen, delivered, taken>>
  BY DEF childVars
<1>2. PICK ends : Written(ends) /\ Behind(ends[Len(sent)]) /\ Taken(ends)
  BY DEF Framed
<1>3. Written(ends)'
  BY <1>1, <1>2 DEF Written, Holds
<1>4. Behind(ends[Len(sent)])'
  BY <1>1, <1>2 DEF Behind, Holds
<1>5. Taken(ends)'
  BY <1>1, <1>2 DEF Taken
<1> QED
  BY <1>3, <1>4, <1>5 DEF Framed

\* A reader that waits holds no frame that is not delivered, so when nothing
\* is left in the pipe, or its buffer is full, it has delivered them all.
LEMMA NothingLeft ==
    ASSUME IInv, rpc = "read", pipe = << >> \/ Len(buf) >= READ_BUF_SIZE
    PROVE  Len(delivered) = Len(sent)
<1>1. Types /\ Conserved /\ wtd_frame_decode(buf).st = INCOMPLETE
  BY DEF IInv, Waits
<1>2. PICK ends : Written(ends) /\ Taken(ends)
  BY DEF IInv, Framed
<1>3. /\ Len(delivered) \in Nat /\ Len(sent) \in Nat /\ Len(delivered) <= Len(sent)
      /\ Len(buf) \in Nat /\ taken \in Nat /\ Len(stream) \in Nat
      /\ Len(stream) = taken + Len(buf) + Len(pipe)
  BY <1>1, <1>2 DEF Types, TypeOK, Conserved, Taken
<1> SUFFICES ASSUME Len(delivered) < Len(sent) PROVE FALSE
  BY <1>3
<1>4. PICK f \in Frames :
         /\ taken + Size(f) <= Len(stream)
         /\ Len(buf) >= Size(f) =>
               wtd_frame_decode(buf) = [st |-> OK, consumed |-> Size(f),
                                        flag |-> f.flag, payload |-> f.payload]
  BY <1>1, <1>2, NextFrame
<1>5. Size(f) \in Nat /\ Size(f) <= READ_BUF_SIZE
  BY FramesAreFrames
<1>6. Len(buf) >= Size(f)
  <2>1. CASE pipe = << >>
    <3>1. Len(pipe) = 0
      BY <2>1
    <3> QED
      BY <1>3, <1>4, <1>5, <3>1
  <2>2. CASE Len(buf) >= READ_BUF_SIZE
    BY <1>3, <1>5, <2>2, RoomIs
  <2> QED
    BY <2>1, <2>2
<1> QED
  BY <1>1, <1>4, <1>6 DEF OK, INCOMPLETE

\* The steps that take and read nothing.
LEMMA IdleStep ==
    ASSUME IInv, UNCHANGED <<childVars, pipe, buf, delivered, taken>>,
           rpc' \in {"start", "read", "decode", "done", "returned"},
           output_eof' \in BOOLEAN, failed' \in BOOLEAN
    PROVE  Types' /\ Conserved' /\ Framed'
<1>1. Types'
  BY DEF childVars, IInv, Types, TypeOK
<1>2. Conserved'
  BY DEF childVars, IInv, Conserved
<1>3. Framed'
  BY FramedStays DEF IInv
<1> QED
  BY <1>1, <1>2, <1>3

\* The buffer is allocated, or not.
LEMMA StartStep ==
    ASSUME IInv, NEW allocated \in BOOLEAN, Start(allocated)
    PROVE  IInv'
<1>1. /\ UNCHANGED <<childVars, pipe, buf, delivered, output_eof, taken>>
      /\ rpc = "start" /\ rpc' = (IF allocated THEN "read" ELSE "done") /\ failed' = ~allocated
  BY DEF Start
<1>2. output_eof \in BOOLEAN /\ buf = << >>
  BY <1>1 DEF IInv, Types, TypeOK, Waits
<1>3. Types' /\ Conserved' /\ Framed'
  BY <1>1, <1>2, IdleStep
<1>4. wtd_frame_decode(buf).st = INCOMPLETE
  <2>1. Len(buf) < 1
    BY <1>2
  <2> QED
    BY <2>1 DEF wtd_frame_decode, Undecoded
<1>5. Waits'
  BY <1>1, <1>4 DEF Waits
<1>6. Ended'
  BY <1>1 DEF Ended
<1> QED
  BY <1>3, <1>5, <1>6 DEF IInv

\* The buffer is full of what is no frame.
LEMMA BufferFullStep ==
    ASSUME IInv, BufferFull
    PROVE  IInv'
<1>1. /\ UNCHANGED <<childVars, pipe, buf, delivered, output_eof, failed, taken>>
      /\ rpc = "read" /\ rpc' = "done" /\ Len(buf) >= READ_BUF_SIZE
  BY DEF BufferFull
<1>2. output_eof \in BOOLEAN /\ failed \in BOOLEAN
  BY DEF IInv, Types, TypeOK
<1>3. Types' /\ Conserved' /\ Framed'
  BY <1>1, <1>2, IdleStep
<1>4. Waits'
  BY <1>1 DEF Waits
<1>5. spoiled
  <2> SUFFICES ASSUME ~spoiled PROVE FALSE
    BY DEF IInv, Types, TypeOK
  <2>1. Len(delivered) = Len(sent)
    BY <1>1, NothingLeft
  <2>2. PICK ends : Behind(ends[Len(sent)]) /\ Taken(ends)
    BY DEF IInv, Framed
  <2>3. taken = Len(stream)
    BY <2>1, <2>2 DEF Behind, Taken
  <2>4. /\ taken \in Nat /\ Len(buf) \in Nat /\ Len(pipe) \in Nat
        /\ Len(stream) = taken + Len(buf) + Len(pipe)
    BY DEF IInv, Types, TypeOK, Conserved
  <2> QED
    BY <1>1, <2>3, <2>4, RoomIs
<1>6. Ended'
  BY <1>1, <1>5 DEF Ended, childVars
<1> QED
  BY <1>3, <1>4, <1>6 DEF IInv

\* The end of the stream.
LEMMA ReadEofStep ==
    ASSUME IInv, ReadEof
    PROVE  IInv'
<1>1. /\ UNCHANGED <<childVars, pipe, buf, delivered, output_eof, failed, taken>>
      /\ rpc = "read" /\ rpc' = "done" /\ pipe = << >> /\ ~childOpen
  BY DEF ReadEof
<1>2. output_eof \in BOOLEAN /\ failed \in BOOLEAN
  BY DEF IInv, Types, TypeOK
<1>3. Types' /\ Conserved' /\ Framed'
  BY <1>1, <1>2, IdleStep
<1>4. Waits'
  BY <1>1 DEF Waits
<1>5. Len(delivered) = Len(sent)
  BY <1>1, NothingLeft
<1>6. Ended'
  BY <1>1, <1>5 DEF Ended, childVars
<1> QED
  BY <1>3, <1>4, <1>6 DEF IInv

\* A read fails.
LEMMA ReadErrorStep ==
    ASSUME IInv, ReadError
    PROVE  IInv'
<1>1. /\ UNCHANGED <<childVars, pipe, buf, delivered, output_eof, taken>>
      /\ rpc = "read" /\ rpc' = "done" /\ failed' = TRUE
  BY DEF ReadError
<1>2. output_eof \in BOOLEAN
  BY DEF IInv, Types, TypeOK
<1>3. Types' /\ Conserved' /\ Framed'
  BY <1>1, <1>2, IdleStep
<1>4. Waits' /\ Ended'
  BY <1>1 DEF Waits, Ended
<1> QED
  BY <1>3, <1>4 DEF IInv

\* The reader reports the end.
LEMMA DoneStep ==
    ASSUME IInv, Done
    PROVE  IInv'
<1>1. /\ UNCHANGED <<childVars, pipe, buf, delivered, failed, taken>>
      /\ rpc = "done" /\ rpc' = "returned" /\ output_eof' = TRUE
  BY DEF Done
<1>2. failed \in BOOLEAN
  BY DEF IInv, Types, TypeOK
<1>3. Types' /\ Conserved' /\ Framed'
  BY <1>1, <1>2, IdleStep
<1>4. Waits' /\ Ended'
  BY <1>1 DEF Waits, Ended, IInv, childVars
<1> QED
  BY <1>3, <1>4 DEF IInv

\* A sequence cut in two.
LEMMA Cut ==
    ASSUME NEW s \in Seq(Byte), NEW n \in Nat, n <= Len(s)
    PROVE  /\ SubSeq(s, 1, n) \in Seq(Byte) /\ Len(SubSeq(s, 1, n)) = n
           /\ \A j \in 1 .. n : SubSeq(s, 1, n)[j] = s[j]
           /\ SubSeq(s, n + 1, Len(s)) \in Seq(Byte)
           /\ Len(SubSeq(s, n + 1, Len(s))) = Len(s) - n
           /\ \A j \in 1 .. Len(s) - n : SubSeq(s, n + 1, Len(s))[j] = s[n + j]
<1> DEFINE a == SubSeq(s, 1, n)
           b == SubSeq(s, n + 1, Len(s))
<1>1. Len(s) \in Nat /\ \A i \in 1 .. Len(s) : s[i] \in Byte
  OBVIOUS
<1>2. 1 \in Int /\ n \in Int /\ \A i \in 1 .. n : s[i] \in Byte
  BY <1>1
<1>3. /\ a \in Seq(Byte)
      /\ Len(a) = IF 1 <= n THEN n - 1 + 1 ELSE 0
      /\ \A i \in 1 .. n - 1 + 1 : a[i] = s[1 + i - 1]
  BY <1>2, SubSeqProperties
<1>4. n + 1 \in Int /\ Len(s) \in Int /\ \A i \in n + 1 .. Len(s) : s[i] \in Byte
  BY <1>1
<1>5. /\ b \in Seq(Byte)
      /\ Len(b) = IF n + 1 <= Len(s) THEN Len(s) - (n + 1) + 1 ELSE 0
      /\ \A i \in 1 .. Len(s) - (n + 1) + 1 : b[i] = s[n + 1 + i - 1]
  BY <1>4, SubSeqProperties
<1> HIDE DEF a, b
<1>6. Len(a) = n /\ \A j \in 1 .. n : a[j] = s[j]
  BY <1>3
<1>7. Len(b) = Len(s) - n
  BY <1>1, <1>5
<1>8. ASSUME NEW j \in 1 .. Len(s) - n PROVE b[j] = s[n + j]
  <2>1. j \in 1 .. Len(s) - (n + 1) + 1 /\ n + 1 + j - 1 = n + j
    BY <1>1
  <2> QED
    BY <1>5, <2>1
<1> QED
  BY <1>3, <1>5, <1>6, <1>7, <1>8 DEF a, b

\* The front of the pipe moves behind what is buffered.
LEMMA ReadStep ==
    ASSUME IInv, NEW n \in 1 .. Readable, Read(n)
    PROVE  IInv'
<1> DEFINE a == SubSeq(pipe, 1, n)
           b == SubSeq(pipe, n + 1, Len(pipe))
<1>1. /\ UNCHANGED <<childVars, delivered, output_eof, failed, taken>>
      /\ rpc' = "decode" /\ buf' = buf \o a /\ pipe' = b /\ rpc = "read"
  BY DEF Read
<1>2. /\ buf \in Seq(Byte) /\ pipe \in Seq(Byte) /\ Len(buf) \in Nat /\ Len(pipe) \in Nat
      /\ taken \in Nat /\ Len(buf) <= READ_BUF_SIZE
  BY DEF IInv, Types, TypeOK
<1>3. /\ Len(stream) = taken + Len(buf) + Len(pipe)
      /\ \A j \in 1 .. Len(buf) : stream[taken + j] = buf[j]
      /\ \A j \in 1 .. Len(pipe) : stream[taken + Len(buf) + j] = pipe[j]
  BY DEF IInv, Conserved
<1>4. n \in Nat /\ n <= Len(pipe) /\ Len(buf) + n <= READ_BUF_SIZE
  BY <1>2, RoomIs DEF Readable
<1>5. /\ a \in Seq(Byte) /\ Len(a) = n /\ \A j \in 1 .. n : a[j] = pipe[j]
      /\ b \in Seq(Byte) /\ Len(b) = Len(pipe) - n
      /\ \A j \in 1 .. Len(pipe) - n : b[j] = pipe[n + j]
  BY <1>2, <1>4, Cut
<1> HIDE DEF a, b
<1>6. /\ buf' \in Seq(Byte) /\ Len(buf') = Len(buf) + Len(a)
      /\ \A j \in 1 .. Len(buf) : buf'[j] = buf[j]
      /\ \A j \in 1 .. Len(a) : buf'[Len(buf) + j] = a[j]
  <2>1. buf \in Seq(Byte) /\ a \in Seq(Byte)
    BY <1>2, <1>5
  <2>2. buf' = buf \o a
    BY <1>1
  <2> QED
    BY <2>1, <2>2, Appended
<1>7. Len(buf') = Len(buf) + n /\ Len(pipe') = Len(pipe) - n
  BY <1>1, <1>5, <1>6
<1>8. Types'
  <2>1. buf' \in Seq(Byte) /\ Len(buf') <= READ_BUF_SIZE /\ pipe' \in Seq(Byte)
    BY <1>1, <1>4, <1>5, <1>6, <1>7
  <2> QED
    BY <1>1, <2>1 DEF IInv, Types, TypeOK, childVars
<1>9. Conserved'
  <2>1. stream' = stream /\ taken' = taken
    BY <1>1 DEF childVars
  <2>2. Len(stream) = taken + Len(buf') + Len(pipe')
    BY <1>2, <1>3, <1>4, <1>7
  <2>3. ASSUME NEW j \in 1 .. Len(buf') PROVE stream[taken + j] = buf'[j]
    <3>1. CASE j <= Len(buf)
      <4>1. j \in 1 .. Len(buf)
        BY <1>2, <3>1
      <4> QED
        BY <1>3, <1>6, <4>1
    <3>2. CASE ~(j <= Len(buf))
      <4> DEFINE i == j - Len(buf)
      <4>1. /\ i \in 1 .. n /\ i \in 1 .. Len(pipe) /\ Len(buf) + i = j
            /\ taken + Len(buf) + i = taken + j
        BY <1>2, <1>4, <1>7, <3>2
      <4> HIDE DEF i
      <4>2. buf'[Len(buf) + i] = a[i] /\ a[i] = pipe[i]
        BY <1>5, <1>6, <4>1
      <4>3. stream[taken + Len(buf) + i] = pipe[i]
        BY <1>3, <4>1
      <4> QED
        BY <4>1, <4>2, <4>3
    <3> QED
      BY <3>1, <3>2
  <2>4. ASSUME NEW j \in 1 .. Len(pipe') PROVE stream[taken + Len(buf') + j] = pipe'[j]
    <3>1. /\ j \in 1 .. Len(pipe) - n /\ n + j \in 1 .. Len(pipe)
          /\ taken + Len(buf) + (n + j) = taken + Len(buf') + j
      BY <1>2, <1>4, <1>7
    <3>2. stream[taken + Len(buf) + (n + j)] = pipe[n + j]
      BY <1>3, <3>1
    <3> QED
      BY <1>1, <1>5, <3>1, <3>2
  <2> QED
    BY <2>1, <2>2, <2>3, <2>4 DEF Conserved
<1>10. Framed'
  BY <1>1, FramedStays DEF IInv
<1>11. Waits' /\ Ended'
  BY <1>1 DEF Waits, Ended
<1> QED
  BY <1>8, <1>9, <1>10, <1>11 DEF IInv

\* A frame is taken off the front of the buffer: it is the next one written.
LEMMA FrameTaken ==
    ASSUME IInv, Decode, wtd_frame_decode(buf).st = OK
    PROVE  IInv'
<1> DEFINE d == wtd_frame_decode(buf)
           m == Len(delivered)
           r == Rest(d.consumed)
<1>1. rpc = "decode" /\ UNCHANGED <<childVars, pipe, output_eof, failed>>
  BY DEF Decode
<1>2. /\ delivered' = Append(delivered, [flag |-> d.flag, payload |-> d.payload])
      /\ buf' = r /\ taken' = taken + d.consumed /\ rpc' = "decode"
  <2>1. IF d.st = INCOMPLETE THEN TRUE
        ELSE /\ delivered' = Append(delivered, [flag |-> d.flag, payload |-> d.payload])
             /\ buf' = r /\ taken' = taken + d.consumed /\ rpc' = AfterFrame
    BY Zenon DEF Decode, OK, INCOMPLETE
  <2> QED
    BY <2>1 DEF OK, INCOMPLETE, AfterFrame
<1>3. PICK ends : Written(ends) /\ Behind(ends[Len(sent)]) /\ Taken(ends)
  BY DEF IInv, Framed
<1>4. /\ buf \in Seq(Byte) /\ pipe \in Seq(Byte) /\ Len(buf) \in Nat /\ Len(pipe) \in Nat
      /\ taken \in Nat /\ Len(stream) \in Nat /\ Len(buf) <= READ_BUF_SIZE
      /\ m \in Nat /\ Len(sent) \in Nat /\ m <= Len(sent)
      /\ sent \in Seq(Messages) /\ delivered \in Seq(Messages)
  BY <1>3 DEF IInv, Types, TypeOK, Taken
<1>5. m < Len(sent)
  <2> SUFFICES ASSUME m = Len(sent) PROVE FALSE
    BY <1>4
  <2> QED
    BY <1>3, NoOtherFrame DEF IInv
<1>6. PICK f \in Frames :
         /\ sent[m + 1] = Message(f)
         /\ ends[m + 1] = taken + Size(f)
         /\ taken + Size(f) <= Len(stream)
         /\ Len(buf) >= Size(f) => d = [st |-> OK, consumed |-> Size(f),
                                        flag |-> f.flag, payload |-> f.payload]
         /\ Len(buf) < Size(f) => d.st = INCOMPLETE
  BY <1>3, <1>5, NextFrame DEF IInv
<1>7. Size(f) \in Nat /\ Message(f) \in Messages /\ Len(f.payload) <= MaxPayload
  BY FramesAreFrames DEF Message, Messages, IsFrame
<1>8. Len(buf) >= Size(f)
  BY <1>4, <1>6, <1>7 DEF OK, INCOMPLETE
<1>9. d.consumed = Size(f) /\ [flag |-> d.flag, payload |-> d.payload] = Message(f)
  BY <1>6, <1>8 DEF Message
<1>10. /\ r \in Seq(Byte) /\ Len(r) = Len(buf) - Size(f)
       /\ \A j \in 1 .. Len(buf) - Size(f) : r[j] = buf[Size(f) + j]
  BY <1>4, <1>7, <1>8, <1>9, Cut DEF Rest
<1>11. /\ delivered' = Append(delivered, Message(f)) /\ buf' = r /\ taken' = taken + Size(f)
  BY <1>2, <1>9
<1> HIDE DEF d, r
<1>12. /\ delivered' \in Seq(Messages) /\ Len(delivered') = m + 1
       /\ delivered'[m + 1] = Message(f) /\ \A i \in 1 .. m : delivered'[i] = delivered[i]
  BY <1>4, <1>7, <1>11
<1>13. Types'
  <2>1. taken' \in 0 .. Len(stream)
    BY <1>4, <1>6, <1>7, <1>11
  <2>2. Len(buf') <= READ_BUF_SIZE
    BY <1>4, <1>7, <1>10, <1>11, RoomIs
  <2>3. ASSUME NEW i \in 1 .. Len(delivered')
        PROVE  /\ delivered'[i].flag \in {RELIABLE, UNRELIABLE}
               /\ Len(delivered'[i].payload) <= MaxPayload
    <3>1. CASE i = m + 1
      <4>1. delivered'[i] = Message(f)
        BY <1>12, <3>1
      <4>2. Message(f).payload = f.payload /\ Message(f).flag \in {RELIABLE, UNRELIABLE}
        BY <1>7 DEF Message, Messages
      <4> QED
        BY <1>7, <4>1, <4>2
    <3>2. CASE i # m + 1
      <4>1. i \in 1 .. m
        BY <1>4, <1>12, <3>2
      <4>2. delivered'[i] = delivered[i]
        BY <1>12, <4>1
      <4> QED
        BY <4>1, <4>2 DEF IInv, Types, TypeOK
    <3> QED
      BY <3>1, <3>2
  <2>4. TypeOK'
    BY <1>1, <1>2, <1>10, <1>11, <2>1, <2>2, <2>3 DEF IInv, Types, TypeOK, childVars
  <2> QED
    BY <1>1, <1>12, <2>4 DEF IInv, Types, childVars
<1>14. Conserved'
  <2>1. /\ Len(stream) = taken + Len(buf) + Len(pipe)
        /\ \A j \in 1 .. Len(buf) : stream[taken + j] = buf[j]
        /\ \A j \in 1 .. Len(pipe) : stream[taken + Len(buf) + j] = pipe[j]
    BY DEF IInv, Conserved
  <2>2. stream' = stream /\ pipe' = pipe /\ Len(buf') = Len(buf) - Size(f)
    BY <1>1, <1>10, <1>11 DEF childVars
  <2>3. Len(stream) = taken' + Len(buf') + Len(pipe) /\ taken' + Len(buf') = taken + Len(buf)
    BY <1>4, <1>7, <1>11, <2>1, <2>2
  <2>4. ASSUME NEW j \in 1 .. Len(buf') PROVE stream[taken' + j] = buf'[j]
    <3>0. PICK z, l : z = Size(f) /\ l = Len(buf)
      OBVIOUS
    <3>a. /\ z \in Nat /\ l \in Nat /\ taken \in Nat /\ j \in 1 .. l - z
          /\ taken' = taken + z
      BY <1>4, <1>7, <1>11, <2>2, <3>0
    <3>b. z + j \in 1 .. l /\ taken + (z + j) = (taken + z) + j
      BY <3>a
    <3>1. /\ j \in 1 .. Len(buf) - Size(f) /\ Size(f) + j \in 1 .. Len(buf)
          /\ taken + (Size(f) + j) = taken' + j
      BY <3>0, <3>a, <3>b, Zenon
    <3>2. stream[taken + (Size(f) + j)] = buf[Size(f) + j]
      BY <2>1, <3>1, Zenon
    <3> QED
      BY <1>10, <1>11, <3>1, <3>2, Zenon
  <2> QED
    BY <2>1, <2>2, <2>3, <2>4 DEF Conserved
<1>15. Framed'
  <2>1. Written(ends)' /\ Behind(ends[Len(sent)])'
    BY <1>1, <1>3 DEF childVars, Written, Behind, Holds
  <2>2. Taken(ends)'
    <3>1. ASSUME NEW i \in 1 .. m + 1 PROVE delivered'[i] = sent[i]
      <4>1. CASE i = m + 1
        BY <1>6, <1>12, <4>1
      <4>2. CASE i # m + 1
        <5>1. i \in 1 .. m
          BY <1>4, <4>2
        <5> QED
          BY <1>3, <1>12, <5>1 DEF Taken
      <4> QED
        BY <4>1, <4>2
    <3>2. Len(delivered') = m + 1 /\ m + 1 <= Len(sent) /\ taken' = ends[m + 1] /\ sent' = sent
      BY <1>1, <1>4, <1>5, <1>6, <1>11, <1>12 DEF childVars
    <3> QED
      BY <3>1, <3>2 DEF Taken
  <2> QED
    BY <2>1, <2>2 DEF Framed
<1>16. Waits' /\ Ended'
  BY <1>2 DEF Waits, Ended
<1> QED
  BY <1>13, <1>14, <1>15, <1>16 DEF IInv

\* One turn of the inner loop.
LEMMA DecodeStep ==
    ASSUME IInv, Decode
    PROVE  IInv'
<1> DEFINE d == wtd_frame_decode(buf)
<1>1. rpc = "decode" /\ UNCHANGED <<childVars, pipe, output_eof, failed>>
  BY DEF Decode
<1>2. output_eof \in BOOLEAN /\ failed \in BOOLEAN /\ spoiled \in BOOLEAN
  BY DEF IInv, Types, TypeOK
<1>3. CASE d.st = OK
  BY <1>3, FrameTaken
<1>4. CASE d.st = INCOMPLETE
  <2>1. rpc' = "read" /\ UNCHANGED <<buf, delivered, taken>>
    BY <1>4, Zenon DEF Decode, OK, INCOMPLETE
  <2>2. Types' /\ Conserved' /\ Framed'
    BY <1>1, <1>2, <2>1, IdleStep
  <2>3. Waits' /\ Ended'
    BY <1>4, <2>1 DEF Waits, Ended
  <2> QED
    BY <2>2, <2>3 DEF IInv
<1>5. CASE d.st # OK /\ d.st # INCOMPLETE
  <2>1. rpc' = "done" /\ UNCHANGED <<buf, delivered, taken>>
    BY <1>5, Zenon DEF Decode
  <2>2. Types' /\ Conserved' /\ Framed'
    BY <1>1, <1>2, <2>1, IdleStep
  <2>3. spoiled
    <3> SUFFICES ASSUME ~spoiled PROVE FALSE
      BY <1>2
    <3>1. PICK ends : Written(ends) /\ Behind(ends[Len(sent)]) /\ Taken(ends)
      BY DEF IInv, Framed
    <3>2. Len(delivered) \in Nat /\ Len(sent) \in Nat /\ Len(delivered) <= Len(sent)
      BY <3>1 DEF IInv, Types, Taken
    <3>3. CASE Len(delivered) = Len(sent)
      BY <1>5, <3>1, <3>3, NoOtherFrame DEF IInv
    <3>4. CASE Len(delivered) < Len(sent)
      <4>1. PICK f \in Frames :
               /\ Len(buf) >= Size(f) => d = [st |-> OK, consumed |-> Size(f),
                                              flag |-> f.flag, payload |-> f.payload]
               /\ Len(buf) < Size(f) => d.st = INCOMPLETE
        BY <3>1, <3>4, NextFrame DEF IInv
      <4>2. Len(buf) \in Nat /\ Size(f) \in Nat
        BY FramesAreFrames DEF IInv, Types, TypeOK
      <4> QED
        BY <1>5, <4>1, <4>2
    <3> QED
      BY <3>2, <3>3, <3>4
  <2>4. Waits' /\ Ended'
    BY <1>1, <2>1, <2>3 DEF Waits, Ended, childVars
  <2> QED
    BY <2>2, <2>4 DEF IInv
<1> QED
  BY <1>3, <1>4, <1>5

-----------------------------------------------------------------------------
(* The theorems. *)

\* The invariant is inductive: it holds before the child wrote anything, and
\* each step of the child and of reader_main keeps it.
THEOREM ChildOutputInvariant == Spec => []IInv
<1>1. Init => IInv
  <2> SUFFICES ASSUME Init PROVE IInv
    OBVIOUS
  <2>1. /\ childOpen = TRUE /\ writes = 0 /\ pipe = << >> /\ rpc = "start" /\ buf = << >>
        /\ delivered = << >> /\ output_eof = FALSE /\ sent = << >> /\ spoiled = FALSE
        /\ failed = FALSE /\ stream = << >> /\ taken = 0
    BY DEF Init
  <2>2. << >> \in Seq(Byte) /\ << >> \in Seq(Messages)
    OBVIOUS
  <2>3. Len(<< >>) = 0
    OBVIOUS
  <2>4. Types
    <3>1. writes \in 0 .. MaxWrites
      BY <2>1, ChildAssumption
    <3>2. Len(buf) <= READ_BUF_SIZE /\ taken \in 0 .. Len(stream)
      BY <2>1, <2>3, RoomIs
    <3>3. Len(delivered) = 0 /\ 1 .. 0 = {}
      BY <2>1, <2>3
    <3>4. pipe \in Seq(Byte) /\ buf \in Seq(Byte) /\ stream \in Seq(Byte)
      BY <2>1, <2>2
    <3>5. rpc \in {"start", "read", "decode", "done", "returned"}
      BY <2>1
    <3>6. childOpen \in BOOLEAN /\ output_eof \in BOOLEAN /\ spoiled \in BOOLEAN /\ failed \in BOOLEAN
      BY <2>1
    <3>7. TypeOK
      BY <3>1, <3>2, <3>3, <3>4, <3>5, <3>6, Zenon DEF TypeOK
    <3> QED
      BY <2>1, <2>2, <3>7 DEF Types
  <2>5. Conserved
    BY <2>1, <2>3 DEF Conserved
  <2>6. Framed
    <3> DEFINE e == [i \in 0 .. 0 |-> 0]
    <3>1. Written(e)
      BY <2>1, <2>3 DEF Written
    <3>2. Behind(e[Len(sent)])
      BY <2>1, <2>3 DEF Behind
    <3>3. Taken(e)
      BY <2>1, <2>3 DEF Taken
    <3> QED
      BY <3>1, <3>2, <3>3 DEF Framed
  <2>7. Waits /\ Ended
    BY <2>1 DEF Waits, Ended
  <2> QED
    BY <2>4, <2>5, <2>6, <2>7 DEF IInv
<1>2. IInv /\ [Next]_vars => IInv'
  <2> SUFFICES ASSUME IInv, [Next]_vars PROVE IInv'
    OBVIOUS
  <2>1. ASSUME NEW f \in Frames, ChildFrame(f) PROVE IInv'
    BY <2>1, FrameStep
  <2>2. ASSUME NEW g \in Garbage, ChildGarbage(g) PROVE IInv'
    BY <2>2, GarbageStep
  <2>3. ASSUME NEW f \in Frames, NEW n \in 1 .. Len(f.payload) + f.form, ChildDies(f, n)
        PROVE  IInv'
    BY <2>3, DiesStep
  <2>4. CASE ChildCloses
    BY <2>4, ClosesStep
  <2>5. ASSUME NEW allocated \in BOOLEAN, Start(allocated) PROVE IInv'
    BY <2>5, StartStep
  <2>6. CASE BufferFull
    BY <2>6, BufferFullStep
  <2>7. ASSUME NEW n \in 1 .. Readable, Read(n) PROVE IInv'
    BY <2>7, ReadStep
  <2>8. CASE ReadEof
    BY <2>8, ReadEofStep
  <2>9. CASE ReadError
    BY <2>9, ReadErrorStep
  <2>10. CASE Decode
    BY <2>10, DecodeStep
  <2>11. CASE Done
    BY <2>11, DoneStep
  <2>12. CASE UNCHANGED vars
    <3>1. UNCHANGED <<childVars, pipe, rpc, buf, delivered, output_eof, failed, taken>>
      BY <2>12 DEF vars, readerVars
    <3>2. /\ rpc \in {"start", "read", "decode", "done", "returned"}
          /\ output_eof \in BOOLEAN /\ failed \in BOOLEAN
      BY DEF IInv, Types, TypeOK
    <3>3. Types' /\ Conserved' /\ Framed'
      BY <3>1, <3>2, IdleStep
    <3>4. Waits' /\ Ended'
      BY <3>1 DEF IInv, Waits, Ended, childVars
    <3> QED
      BY <3>3, <3>4 DEF IInv
  <2> QED
    BY <2>1, <2>2, <2>3, <2>4, <2>5, <2>6, <2>7, <2>8, <2>9, <2>10, <2>11, <2>12
       DEF Next, Child, ReaderStep, Returned
<1> QED
  BY <1>1, <1>2, PTL DEF Spec

\* reader_main keeps to its buffer: it never reads past its end, and what it
\* passes on is within the payload cap.
THEOREM TypeCorrect == Spec => []TypeOK
<1>1. IInv => TypeOK
  BY DEF IInv, Types
<1> QED
  BY <1>1, ChildOutputInvariant, PTL

\* Partial reads and the memmove of reader_main neither lose nor duplicate a
\* byte.
THEOREM NoByteIsLost == Spec => []BytesConserved
<1>1. IInv => BytesConserved
  <2> SUFFICES ASSUME IInv PROVE BytesConserved
    OBVIOUS
  <2> DEFINE r == SubSeq(stream, taken + 1, Len(stream))
             c == buf \o pipe
  <2>1. /\ stream \in Seq(Byte) /\ buf \in Seq(Byte) /\ pipe \in Seq(Byte)
        /\ taken \in Nat /\ taken <= Len(stream) /\ Len(stream) \in Nat
        /\ Len(buf) \in Nat /\ Len(pipe) \in Nat
    BY DEF IInv, Types, TypeOK
  <2>2. /\ Len(stream) = taken + Len(buf) + Len(pipe)
        /\ \A j \in 1 .. Len(buf) : stream[taken + j] = buf[j]
        /\ \A j \in 1 .. Len(pipe) : stream[taken + Len(buf) + j] = pipe[j]
    BY DEF IInv, Conserved
  <2>3. /\ r \in Seq(Byte) /\ Len(r) = Len(stream) - taken
        /\ \A j \in 1 .. Len(stream) - taken : r[j] = stream[taken + j]
    BY <2>1, Cut
  <2>4. /\ c \in Seq(Byte) /\ Len(c) = Len(buf) + Len(pipe)
        /\ \A j \in 1 .. Len(buf) : c[j] = buf[j]
        /\ \A j \in 1 .. Len(pipe) : c[Len(buf) + j] = pipe[j]
    BY <2>1, Appended
  <2> HIDE DEF r, c
  <2>5. Len(r) = Len(c)
    BY <2>1, <2>2, <2>3, <2>4
  <2>6. ASSUME NEW j \in 1 .. Len(r) PROVE r[j] = c[j]
    <3>1. r[j] = stream[taken + j]
      BY <2>3
    <3>2. CASE j <= Len(buf)
      <4>1. j \in 1 .. Len(buf)
        BY <2>1, <3>2
      <4> QED
        BY <2>2, <2>4, <3>1, <4>1
    <3>3. CASE ~(j <= Len(buf))
      <4> DEFINE i == j - Len(buf)
      <4>1. /\ i \in 1 .. Len(pipe) /\ Len(buf) + i = j
            /\ taken + Len(buf) + i = taken + j
        BY <2>1, <2>4, <2>5, <3>3
      <4> HIDE DEF i
      <4>2. c[Len(buf) + i] = pipe[i] /\ stream[taken + Len(buf) + i] = pipe[i]
        BY <2>2, <2>4, <4>1
      <4> QED
        BY <3>1, <4>1, <4>2
    <3> QED
      BY <3>2, <3>3
  <2>7. r = c
    BY <2>3, <2>4, <2>5, <2>6, SeqEqual
  <2> QED
    BY <2>7 DEF BytesConserved, r, c
<1> QED
  BY <1>1, ChildOutputInvariant, PTL

\* reader_main blocks in a read only with nothing left to decode.
THEOREM ReadsOnlyWhenIncomplete == Spec => []BlocksOnlyWhenIncomplete
<1>1. IInv => BlocksOnlyWhenIncomplete
  BY DEF IInv, Waits, BlocksOnlyWhenIncomplete
<1> QED
  BY <1>1, ChildOutputInvariant, PTL

\* However the bytes are cut into reads, the session is given the frames the
\* child wrote, in order, up to the first that is none; and all of them when
\* nothing failed and nothing else was written.
THEOREM FramesAreDelivered == Spec => []DeliversSent
<1>1. IInv => DeliversSent
  <2> SUFFICES ASSUME IInv PROVE DeliversSent
    OBVIOUS
  <2>1. PICK ends : Taken(ends)
    BY DEF IInv, Framed
  <2>2. /\ delivered \in Seq(Messages) /\ sent \in Seq(Messages)
        /\ Len(delivered) \in Nat /\ Len(sent) \in Nat /\ Len(delivered) <= Len(sent)
        /\ \A i \in 1 .. Len(delivered) : delivered[i] = sent[i]
    BY <2>1 DEF IInv, Types, Taken
  <2>3. SubSeq(delivered, 1, Len(delivered)) = SubSeq(sent, 1, Len(delivered))
    BY <2>2
  <2>4. IsPrefix(delivered, sent)
    BY <2>2, <2>3 DEF IsPrefix
  <2>5. ASSUME rpc = "returned", ~spoiled, ~failed PROVE delivered = sent
    <3>1. Len(delivered) = Len(sent)
      BY <2>5 DEF IInv, Ended
    <3> QED
      BY <2>2, <3>1, SeqEqual
  <2> QED
    BY <2>4, <2>5 DEF DeliversSent
<1> QED
  BY <1>1, ChildOutputInvariant, PTL
=============================================================================
