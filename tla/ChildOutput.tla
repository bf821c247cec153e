----------------------------- MODULE ChildOutput -----------------------------
(***************************************************************************)
(* The reader thread of adapters/child_output.c, on bytes: read whatever   *)
(* the stdout pipe holds into a fixed buffer, decode as many frames as are *)
(* complete, move the rest to the front, read again; at the end of the     *)
(* stream, or of its usefulness, report EOF and return.                    *)
(*                                                                         *)
(* The child is any program: it writes frames in any varint form, may      *)
(* write bytes that are no frame, and may close or die in mid-frame. A     *)
(* read returns any part of what the pipe holds.                           *)
(***************************************************************************)
EXTENDS FrameCodec, SequencesExt

CONSTANTS
    Frames,       \* frames the child writes: [flag, payload, form]
    Garbage,      \* byte strings it writes that the reader cannot take as frames
    MaxWrites     \* bound: writes of the child

READ_BUF_SIZE == 1 + 4 + MaxPayload

\* Bytes that begin with a reserved flag, or with a length above the cap or
\* above what the buffer can hold with its header.
Unreadable(g) ==
    /\ Len(g) >= 1
    /\ \/ g[1] \notin {RELIABLE, UNRELIABLE}
       \/ /\ Len(g) >= 2
          /\ LET v == varint_decode(Tail(g))
             IN  /\ v.len # 0
                 /\ v.value > MaxPayload \/ 1 + v.len + v.value > READ_BUF_SIZE

\* The frames are those of the wire format that fit the buffer.
ASSUME ChildAssumption ==
    /\ \A f \in Frames :
          /\ f.flag \in {RELIABLE, UNRELIABLE}
          /\ f.payload \in Seq(Byte) /\ Len(f.payload) <= MaxPayload
          /\ f.form \in {1, 2, 4, 8} /\ Len(f.payload) < Limit(f.form)
          /\ 1 + f.form + Len(f.payload) <= READ_BUF_SIZE
    /\ \A g \in Garbage : g \in Seq(Byte) /\ Unreadable(g)
    /\ MaxWrites \in Nat

VARIABLES
    \* the child (external)
    childOpen,    \* it still holds its end of the pipe
    writes,
    pipe,         \* bytes written and not yet read
    \* reader_main
    rpc,
    buf,          \* buf[0 .. used)
    delivered,    \* frames passed to wtd_session_on_output, each with a wake-up
    output_eof,   \* wtd_session_on_output_eof was called, and its wake-up
    \* history
    sent,         \* frames the child wrote before anything else
    spoiled,      \* it wrote something that is no complete frame
    failed,       \* the buffer could not be allocated, or a read failed
    stream,       \* all bytes the child wrote
    taken         \* number of bytes of decoded frames

childVars == <<childOpen, writes, sent, spoiled, stream>>
readerVars == <<rpc, buf, delivered, output_eof, failed, taken>>
vars == <<childVars, pipe, readerVars>>

TypeOK ==
    /\ childOpen \in BOOLEAN
    /\ writes \in 0 .. MaxWrites
    /\ pipe \in Seq(Byte)
    /\ rpc \in {"start", "read", "decode", "done", "returned"}
    /\ buf \in Seq(Byte) /\ Len(buf) <= READ_BUF_SIZE
    /\ \A i \in 1 .. Len(delivered) :
          /\ delivered[i].flag \in {RELIABLE, UNRELIABLE}
          /\ Len(delivered[i].payload) <= MaxPayload
    /\ output_eof \in BOOLEAN
    /\ spoiled \in BOOLEAN
    /\ failed \in BOOLEAN
    /\ stream \in Seq(Byte)
    /\ taken \in 0 .. Len(stream)

Init ==
    /\ childOpen = TRUE
    /\ writes = 0
    /\ pipe = << >>
    /\ rpc = "start"
    /\ buf = << >>
    /\ delivered = << >>
    /\ output_eof = FALSE
    /\ sent = << >>
    /\ spoiled = FALSE
    /\ failed = FALSE
    /\ stream = << >>
    /\ taken = 0

-----------------------------------------------------------------------------
(* The child. *)

Write(bytes) ==
    /\ childOpen
    /\ writes < MaxWrites
    /\ writes' = writes + 1
    /\ pipe' = pipe \o bytes
    /\ stream' = stream \o bytes
    /\ UNCHANGED readerVars

\* external
ChildFrame(f) ==
    /\ Write(FrameBytes(f.flag, f.payload, f.form))
    /\ sent' = IF spoiled THEN sent ELSE Append(sent, [flag |-> f.flag, payload |-> f.payload])
    /\ UNCHANGED <<childOpen, spoiled>>

\* external
ChildGarbage(g) ==
    /\ Write(g)
    /\ spoiled' = TRUE
    /\ UNCHANGED <<childOpen, sent>>

\* external: dies after the first n bytes of a frame
ChildDies(f, n) ==
    /\ Write(SubSeq(FrameBytes(f.flag, f.payload, f.form), 1, n))
    /\ spoiled' = TRUE
    /\ childOpen' = FALSE
    /\ UNCHANGED sent

\* external
ChildCloses ==
    /\ childOpen
    /\ childOpen' = FALSE
    /\ UNCHANGED <<writes, sent, spoiled, stream, pipe, readerVars>>

Child ==
    \/ \E f \in Frames : ChildFrame(f)
    \/ \E g \in Garbage : ChildGarbage(g)
    \/ \E f \in Frames : \E n \in 1 .. Len(f.payload) + f.form : ChildDies(f, n)
    \/ ChildCloses

-----------------------------------------------------------------------------
(* reader_main. *)

\* malloc of the buffer; without it the thread only reports EOF.
Start(allocated) ==
    /\ rpc = "start"
    /\ rpc' = IF allocated THEN "read" ELSE "done"
    /\ failed' = ~allocated
    /\ UNCHANGED <<childVars, pipe, buf, delivered, output_eof, taken>>

\* No room for another byte: stop.
BufferFull ==
    /\ rpc = "read"
    /\ Len(buf) >= READ_BUF_SIZE
    /\ rpc' = "done"
    /\ UNCHANGED <<childVars, pipe, buf, delivered, output_eof, failed, taken>>

\* At most the rest of the buffer; EINTR in between only repeats the call.
Readable ==
    LET room == READ_BUF_SIZE - Len(buf) IN IF Len(pipe) < room THEN Len(pipe) ELSE room

Read(n) ==
    /\ rpc = "read"
    /\ Len(buf) < READ_BUF_SIZE
    /\ buf' = buf \o SubSeq(pipe, 1, n)
    /\ pipe' = SubSeq(pipe, n + 1, Len(pipe))
    /\ rpc' = "decode"
    /\ UNCHANGED <<childVars, delivered, output_eof, failed, taken>>

\* Faulty: a read of nothing is tried again like an interrupted one.
ReadEofRetried ==
    /\ rpc = "read"
    /\ Len(buf) < READ_BUF_SIZE
    /\ pipe = << >>
    /\ ~childOpen
    /\ UNCHANGED vars

\* read() returns 0.
ReadEof ==
    /\ rpc = "read"
    /\ Len(buf) < READ_BUF_SIZE
    /\ pipe = << >>
    /\ ~childOpen
    /\ rpc' = "done"
    /\ UNCHANGED <<childVars, pipe, buf, delivered, output_eof, failed, taken>>

\* read() fails with something other than EINTR.
ReadError ==
    /\ rpc = "read"
    /\ Len(buf) < READ_BUF_SIZE
    /\ failed' = TRUE
    /\ rpc' = "done"
    /\ UNCHANGED <<childVars, pipe, buf, delivered, output_eof, taken>>

\* Faulty: one frame per read.
AfterFrameReadAgain == "read"

\* After a frame the inner loop decodes again.
AfterFrame == "decode"

\* Faulty: the bytes behind the frame are dropped with it.
RestDropped(consumed) == << >>

\* memmove of the bytes behind the frame to the front.
Rest(consumed) == SubSeq(buf, consumed + 1, Len(buf))

\* One turn of the inner loop: a frame, not enough bytes, or a bad stream.
Decode ==
    /\ rpc = "decode"
    /\ LET d == wtd_frame_decode(buf)
       IN  CASE d.st = INCOMPLETE -> rpc' = "read" /\ UNCHANGED <<buf, delivered, taken>>
             [] d.st = OK ->
                   /\ delivered' = Append(delivered, [flag |-> d.flag, payload |-> d.payload])
                   /\ buf' = Rest(d.consumed)
                   /\ taken' = taken + d.consumed
                   /\ rpc' = AfterFrame
             [] OTHER -> rpc' = "done" /\ UNCHANGED <<buf, delivered, taken>>
    /\ UNCHANGED <<childVars, pipe, output_eof, failed>>

\* done: the EOF report and its wake-up, free(buf), return.
Done ==
    /\ rpc = "done"
    /\ output_eof' = TRUE
    /\ rpc' = "returned"
    /\ UNCHANGED <<childVars, pipe, buf, delivered, failed, taken>>

ReaderStep ==
    \/ \E allocated \in BOOLEAN : Start(allocated)
    \/ BufferFull
    \/ \E n \in 1 .. Readable : Read(n)
    \/ ReadEof
    \/ Decode
    \/ Done

\* The thread has returned; the child may go on writing to nobody.
Returned == rpc = "returned" /\ UNCHANGED vars

Next == Child \/ ReaderStep \/ ReadError \/ Returned

Spec == Init /\ [][Next]_vars

\* Fairness: the reader thread runs whenever its next step does not block. No
\* read has to fail, and nothing is assumed of the child.
FairSpec == Spec /\ WF_vars(ReaderStep)

-----------------------------------------------------------------------------
(* Properties. *)

\* However the child's output is cut into reads, what reaches the session is a
\* prefix of the frames the child wrote before anything malformed: no frame is
\* torn, invented, repeated or made of the bytes after a bad one. When the
\* child closed its output after whole frames, and no call failed, reader_main
\* returns only after delivering every one of them.
DeliversSent ==
    /\ IsPrefix(delivered, sent)
    /\ rpc = "returned" /\ ~spoiled /\ ~failed => delivered = sent

\* No byte is lost or duplicated by the partial reads and the memmove: what
\* was decoded, what is buffered and what is in the pipe is what was written.
BytesConserved == SubSeq(stream, taken + 1, Len(stream)) = buf \o pipe

\* The reader goes back to a read, where it may block for ever, only when no
\* complete frame and no verdict is left in its buffer.
BlocksOnlyWhenIncomplete == rpc = "read" => wtd_frame_decode(buf).st = INCOMPLETE

\* Once the child's end is closed, the reader reports EOF, whatever was
\* written before: wtd_child_output_stop does not wait for ever.
ReturnsAfterClose == ~childOpen ~> (rpc = "returned" /\ output_eof)
=============================================================================
