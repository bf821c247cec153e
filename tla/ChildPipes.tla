----------------------------- MODULE ChildPipes -----------------------------
(***************************************************************************)
(* The three pipes between the daemon and one child: what the network      *)
(* thread writes to its stdin (core/session.c deliver_to_child, the child  *)
(* port of adapters/transport_picoquic.c), a child that decodes frames and *)
(* answers each one, as examples/echo.c does, the reader thread behind its *)
(* stdout, and its stderr.                                                 *)
(*                                                                         *)
(* A pipe holds bytes up to its capacity. The daemon's end of stdin is     *)
(* non-blocking and the result of its write is ignored; the child's ends   *)
(* block. A byte is a record: the frame it belongs to, its place in it and *)
(* the size of that frame, which is what the header says once it is there. *)
(***************************************************************************)
EXTENDS Naturals, Sequences, SequencesExt

CONSTANTS
    Sizes,        \* sizes of the framed messages of the peer
    PIPE_BUF,     \* a write up to this size is never split (limits.h)
    InCap,        \* capacity of the stdin pipe
    OutCap,       \* capacity of the stdout pipe
    ErrCap,       \* capacity of the stderr pipe
    BUF_CAP,      \* the child's accumulator
    MaxFrames     \* bound: messages of the peer

ASSUME PipesAssumption ==
    /\ Sizes \subseteq 1 .. BUF_CAP
    /\ PIPE_BUF \in 1 .. InCap
    /\ {InCap, OutCap, ErrCap, BUF_CAP} \subseteq Nat \ {0}
    /\ MaxFrames \in Nat

VARIABLES
    \* network thread
    npc,          \* "idle", "write" (in peer_child_write), "killed" (SIGPIPE)
    sent,         \* sizes of the frames passed to the child port so far
    accepted,     \* history: frames the pipe took whole, oldest first
    torn,         \* history: the pipe took a part of a frame
    child_input_closed,
    \* kernel
    stdinPipe, stdinOpen,
    stdoutPipe,
    stderrPipe,   \* number of bytes
    \* child
    cpc,          \* "read", "decode", "reply", "err", "exited"
    in_buf,
    reply,        \* rest of out_buf
    decoded,      \* history: frames decoded; 0 is one made of torn bytes
    \* reader thread
    delivered     \* frames read completely from stdout

netVars == <<npc, sent, accepted, torn, child_input_closed>>
childVars == <<cpc, in_buf, reply, decoded>>
vars == <<netVars, stdinPipe, stdinOpen, stdoutPipe, stderrPipe, childVars, delivered>>

FrameOf(n, size) == [i \in 1 .. size |-> [frame |-> n, i |-> i, size |-> size]]

\* The frames whose last byte is among these, in order.
Completed(bytes) ==
    FlattenSeq([i \in 1 .. Len(bytes) |->
                   IF bytes[i].i = bytes[i].size THEN << bytes[i].frame >> ELSE << >>])

Least(a, b) == IF a < b THEN a ELSE b

Init ==
    /\ npc = "idle"
    /\ sent = << >> /\ accepted = << >> /\ torn = FALSE
    /\ child_input_closed = FALSE
    /\ stdinPipe = << >> /\ stdinOpen = TRUE
    /\ stdoutPipe = << >>
    /\ stderrPipe = 0
    /\ cpc = "read" /\ in_buf = << >> /\ reply = << >> /\ decoded = << >>
    /\ delivered = << >>

-----------------------------------------------------------------------------
(* Network thread. *)

\* deliver_to_child frames a message of the peer and calls the port; without
\* memory for the frame it is dropped.
Deliver(size, allocated) ==
    /\ npc = "idle"
    /\ ~child_input_closed
    /\ Len(sent) < MaxFrames
    /\ sent' = Append(sent, size)
    /\ npc' = IF allocated THEN "write" ELSE "idle"
    /\ UNCHANGED <<accepted, torn, child_input_closed, stdinPipe, stdinOpen, stdoutPipe, stderrPipe,
                   childVars, delivered>>

\* Faulty: header and payload in two writes.
TakenInTwo(size, room) ==
    IF room >= size THEN {size} ELSE IF room >= 1 THEN {1} ELSE {0}

\* Faulty: a blocking descriptor; the call waits for room.
TakenBlocking(size, room) == IF room >= size THEN {size} ELSE {}

\* How many bytes of a frame a non-blocking write may take: up to PIPE_BUF all
\* or none (EAGAIN), above it any part that there is room for.
Taken(size, room) ==
    IF size <= PIPE_BUF THEN IF room >= size THEN {size} ELSE {0}
    ELSE IF room = 0 THEN {0} ELSE 1 .. Least(size, room)

\* peer_child_write; deliver_to_child only logs what it returns.
Write(k) ==
    /\ npc = "write"
    /\ cpc # "exited"
    /\ LET n == Len(sent)
       IN  /\ stdinPipe' = stdinPipe \o SubSeq(FrameOf(n, sent[n]), 1, k)
           /\ accepted' = IF k = sent[n] THEN Append(accepted, n) ELSE accepted
           /\ torn' = (torn \/ k \in 1 .. sent[n] - 1)
    /\ npc' = "idle"
    /\ UNCHANGED <<sent, child_input_closed, stdinOpen, stdoutPipe, stderrPipe, childVars, delivered>>

\* The child is gone: SIGPIPE (see Daemon).
WriteToDead ==
    /\ npc = "write"
    /\ cpc = "exited"
    /\ npc' = "killed"
    /\ UNCHANGED <<sent, accepted, torn, child_input_closed, stdinPipe, stdinOpen, stdoutPipe,
                   stderrPipe, childVars, delivered>>

\* Faulty: remembers that the input is closed and keeps the descriptor.
CloseLatchOnly ==
    /\ npc = "idle"
    /\ ~child_input_closed
    /\ child_input_closed' = TRUE
    /\ UNCHANGED <<npc, sent, accepted, torn, stdinPipe, stdinOpen, stdoutPipe, stderrPipe,
                   childVars, delivered>>

\* The peer's FIN: wtd_session_deliver_fin and peer_child_close.
CloseInput ==
    /\ npc = "idle"
    /\ ~child_input_closed
    /\ stdinOpen' = FALSE
    /\ child_input_closed' = TRUE
    /\ UNCHANGED <<npc, sent, accepted, torn, stdinPipe, stdoutPipe, stderrPipe, childVars,
                   delivered>>

Writing == (\E k \in Taken(sent[Len(sent)], InCap - Len(stdinPipe)) : Write(k)) \/ WriteToDead

Network == (\E size \in Sizes, allocated \in BOOLEAN : Deliver(size, allocated)) \/ CloseInput

-----------------------------------------------------------------------------
(* The child: main of examples/echo.c, with a log on stderr. *)

ChildRead(k) ==
    /\ cpc = "read"
    /\ in_buf' = in_buf \o SubSeq(stdinPipe, 1, k)
    /\ stdinPipe' = SubSeq(stdinPipe, k + 1, Len(stdinPipe))
    /\ cpc' = "decode"
    /\ UNCHANGED <<netVars, stdinOpen, stdoutPipe, stderrPipe, reply, decoded, delivered>>

\* EOF on stdin, or an accumulator that is full without holding a frame.
ChildExits ==
    /\ cpc = "read"
    /\ \/ stdinPipe = << >> /\ ~stdinOpen
       \/ Len(in_buf) >= BUF_CAP
    /\ cpc' = "exited"
    /\ UNCHANGED <<netVars, stdinPipe, stdinOpen, stdoutPipe, stderrPipe, in_buf, reply, decoded,
                   delivered>>

\* The buffer begins with the bytes of one frame, in place, as far as they go.
HeadInPlace ==
    in_buf # << >> =>
        LET n == Least(in_buf[1].size, Len(in_buf))
        IN  SubSeq(in_buf, 1, n) = SubSeq(FrameOf(in_buf[1].frame, in_buf[1].size), 1, n)

HeadWhole == in_buf # << >> /\ HeadInPlace /\ Len(in_buf) >= in_buf[1].size

\* wtd_frame_decode says INCOMPLETE.
DecodeIncomplete ==
    /\ cpc = "decode"
    /\ ~HeadWhole
    /\ cpc' = "read"
    /\ UNCHANGED <<netVars, stdinPipe, stdinOpen, stdoutPipe, stderrPipe, in_buf, reply, decoded,
                   delivered>>

\* A frame of k bytes is taken from the buffer and its answer encoded.
TakeFrame(n, k) ==
    /\ decoded' = Append(decoded, n)
    /\ reply' = FrameOf(n, k)
    /\ in_buf' = SubSeq(in_buf, k + 1, Len(in_buf))
    /\ cpc' = "reply"
    /\ UNCHANGED <<netVars, stdinPipe, stdinOpen, stdoutPipe, stderrPipe, delivered>>

DecodeFrame ==
    /\ cpc = "decode"
    /\ HeadWhole
    /\ TakeFrame(in_buf[1].frame, in_buf[1].size)

\* The bytes at the head belong to different frames: any of them may be taken
\* for a frame.
DecodeTorn(k) ==
    /\ cpc = "decode"
    /\ ~HeadInPlace
    /\ TakeFrame(0, k)

\* Or for a malformed one.
DecodeError ==
    /\ cpc = "decode"
    /\ ~HeadInPlace
    /\ cpc' = "exited"
    /\ UNCHANGED <<netVars, stdinPipe, stdinOpen, stdoutPipe, stderrPipe, in_buf, reply, decoded,
                   delivered>>

\* One write of write_all on stdout, which takes any part there is room for.
ChildWrite(k) ==
    /\ cpc = "reply"
    /\ stdoutPipe' = stdoutPipe \o SubSeq(reply, 1, k)
    /\ reply' = SubSeq(reply, k + 1, Len(reply))
    /\ cpc' = IF k = Len(reply) THEN "decode" ELSE "reply"
    /\ UNCHANGED <<netVars, stdinPipe, stdinOpen, stderrPipe, in_buf, decoded, delivered>>

\* external: a child may log at any time
ChildLogs ==
    /\ cpc = "read"
    /\ cpc' = "err"
    /\ UNCHANGED <<netVars, stdinPipe, stdinOpen, stdoutPipe, stderrPipe, in_buf, reply, decoded,
                   delivered>>

\* external: the write blocks while the pipe is full
ChildLogged ==
    /\ cpc = "err"
    /\ stderrPipe < ErrCap
    /\ stderrPipe' = stderrPipe + 1
    /\ cpc' = "read"
    /\ UNCHANGED <<netVars, stdinPipe, stdinOpen, stdoutPipe, in_buf, reply, decoded, delivered>>

ChildStep ==
    \/ \E k \in 1 .. Least(Len(stdinPipe), BUF_CAP - Len(in_buf)) : ChildRead(k)
    \/ ChildExits
    \/ DecodeIncomplete \/ DecodeFrame \/ DecodeError
    \/ \E k \in 1 .. Len(in_buf) : DecodeTorn(k)
    \/ \E k \in 1 .. Least(Len(reply), OutCap - Len(stdoutPipe)) : ChildWrite(k)
    \/ ChildLogged

-----------------------------------------------------------------------------
(* The reader thread; ChildOutput has it in detail. *)

\* Faulty: reads only when a whole frame is there.
ReadableFrames ==
    IF \E i \in 1 .. Len(stdoutPipe) : stdoutPipe[i].i = stdoutPipe[i].size
    THEN Len(stdoutPipe) ELSE 0

Readable == Len(stdoutPipe)

\* Reads k bytes into its buffer and passes on the frames they complete.
ReaderReads(k) ==
    /\ delivered' = delivered \o Completed(SubSeq(stdoutPipe, 1, k))
    /\ stdoutPipe' = SubSeq(stdoutPipe, k + 1, Len(stdoutPipe))
    /\ UNCHANGED <<netVars, stdinPipe, stdinOpen, stderrPipe, childVars>>

Reader == \E k \in 1 .. Readable : ReaderReads(k)

Next == Network \/ (npc = "write" /\ Writing) \/ ChildStep \/ ChildLogs \/ Reader

Spec == Init /\ [][Next]_vars

\* Fairness: a thread or process goes on when no system call holds it. The
\* peer sends nothing, and the child logs nothing, unless it wants to.
FairSpec ==
    Spec /\ WF_vars(npc = "write" /\ Writing) /\ WF_vars(ChildStep) /\ WF_vars(Reader)

-----------------------------------------------------------------------------
(* Properties. *)

TypeOK ==
    /\ npc \in {"idle", "write", "killed"}
    /\ sent \in Seq(Sizes) /\ Len(sent) <= MaxFrames
    /\ Len(stdinPipe) <= InCap /\ Len(stdoutPipe) <= OutCap /\ stderrPipe \in 0 .. ErrCap
    /\ cpc \in {"read", "decode", "reply", "err", "exited"}
    /\ Len(in_buf) <= BUF_CAP
    /\ {stdinOpen, torn, child_input_closed} \subseteq BOOLEAN

\* A child that is too slow loses whole messages, never the boundaries between
\* them: as long as every frame fits PIPE_BUF, what the child decodes and what
\* comes back are exactly the frames the pipe took, in order, however the
\* unchecked writes fell on a full pipe.
BoundariesKept ==
    (\A n \in 1 .. Len(sent) : sent[n] <= PIPE_BUF) =>
        /\ ~torn
        /\ IsPrefix(decoded, accepted)
        /\ IsPrefix(delivered, decoded)

\* The child waits for room in a stderr that nobody reads.
StuckOnStderr == cpc = "err" /\ stderrPipe = ErrCap

\* child_process.c: "the network thread never blocks waiting for a slow child",
\* not even for one that has stopped reading for good.
NetworkNeverBlocks == (npc = "write") ~> (npc # "write")

\* Every frame the pipe took is answered and the answer read, although both
\* pipes may be full and every write and read may be partial: the daemon and
\* the child never wait for each other. Only a child that tore a frame or
\* hangs on its stderr is out of reach.
EchoDrains ==
    \A n \in 1 .. MaxFrames :
        (\E i \in 1 .. Len(accepted) : accepted[i] = n) ~>
            \/ \E i \in 1 .. Len(delivered) : delivered[i] = n
            \/ torn \/ StuckOnStderr

\* After the peer's FIN the child reads what is left in the pipe, sees the end
\* of its input and exits, and everything the pipe took has come back.
EofAfterAll ==
    child_input_closed ~>
        \/ cpc = "exited" /\ decoded = accepted /\ delivered = accepted
        \/ torn \/ StuckOnStderr

\* child_process.h: the daemon "forwards the child's stderr_fd to the daemon's
\* log". A child is not held for ever by a message on its stderr.
StderrForwarded == (cpc = "err") ~> (cpc # "err")
=============================================================================
