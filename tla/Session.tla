------------------------------- MODULE Session -------------------------------
(***************************************************************************)
(* One WebTransport session of webtransportd: the session core             *)
(* (core/session.c) between its two driven ports, as they are implemented  *)
(* by adapters/transport_picoquic.c.                                       *)
(*                                                                         *)
(* Two threads share a wtd_session_t:                                      *)
(*   - the reader thread (adapters/child_output.c) decodes the child's     *)
(*     stdout, pushes each frame on the work queue, sets output_eof at the *)
(*     end and writes one byte to the wake pipe after each of these;       *)
(*   - the network thread runs the picoquic packet loop: it takes wake     *)
(*     bytes, runs the HTTP/3 callbacks and, after either, pumps.          *)
(*                                                                         *)
(* The work queue is atomic here (module WorkQueue shows that the linked   *)
(* list under its mutex implements that); the pump is not: it is split at  *)
(* every point where the reader thread can run in between.                 *)
(***************************************************************************)
EXTENDS Naturals, Sequences

CONSTANTS
    Streams,        \* the peer's WebTransport streams, the control one aside
    ControlStream,  \* the CONNECT stream
    NoStream,       \* data_stream_id == UINT64_MAX
    MaxFrames,      \* bound: frames the child writes to its stdout
    MaxPeerEvents,  \* bound: callbacks for data and datagrams from the peer
    WakeCap,        \* bytes the non-blocking wake pipe holds (0: no pipe)
    WakeRead        \* bytes one wake-up takes out of it (8 in picoquic)

ASSUME StreamsAssumption ==
    /\ ControlStream \notin Streams
    /\ NoStream \notin Streams \cup {ControlStream}

ASSUME BoundsAssumption ==
    /\ MaxFrames \in Nat
    /\ MaxPeerEvents \in Nat
    /\ WakeCap \in Nat
    /\ WakeRead \in Nat \ {0}

RELIABLE == 0
UNRELIABLE == 1

\* A decoded child frame. The payload is abstracted to the frame's number in
\* the child's output, so that loss, duplication and reordering are visible.
Frame == [flag : {RELIABLE, UNRELIABLE}, id : 1 .. MaxFrames]

\* A message of the peer, framed for the child.
Message == [flag : {RELIABLE, UNRELIABLE}, id : 1 .. MaxPeerEvents]

FIN == 0            \* the end-of-stream mark in the log of a QUIC stream

VARIABLES
    \* reader thread
    rpc,                 \* where the reader is
    decoded,             \* frames decoded so far
    \* shared by both threads
    outbound,            \* the work queue
    output_eof,          \* the atomic flag
    wake,                \* bytes in the wake pipe
    \* network thread
    npc,                 \* where the network thread is
    batch,               \* the chain wtd_session_pump drained and still walks
    stream_fin_sent,
    child_input_closed,
    \* the peer structure of the transport adapter
    data_stream_id,
    stdin_fd,            \* is child.stdin_fd >= 0
    dgrams,              \* the outbound datagram FIFO
    dgramReady,          \* h3zero: the session asked for provide_datagram
    \* the outside
    stream,              \* what picoquic_add_to_stream took
    stopped,             \* picoquic takes nothing more on the data stream
    provided,            \* datagrams copied into a packet
    written,             \* framed messages the child's stdin pipe took
    peerFin,             \* streams the peer has finished
    peerEvents,          \* callbacks for peer data so far
    \* history
    pushed,              \* frames put on the work queue
    handed,              \* frames handed to the transport port
    posted,              \* reliable messages the pipe was ready for, with their stream
    drainEof,            \* output_eof at the last drain
    refused              \* what picoquic_add_to_stream did not take

readerVars == <<rpc, decoded>>
sharedVars == <<outbound, output_eof, wake>>
netVars == <<npc, batch, stream_fin_sent, child_input_closed>>
peerVars == <<data_stream_id, stdin_fd, dgrams, dgramReady>>
outsideVars == <<stream, stopped, provided, written, peerFin, peerEvents>>
historyVars == <<pushed, handed, posted, drainEof, refused>>
vars == <<readerVars, sharedVars, netVars, peerVars, outsideVars, historyVars>>

TypeOK ==
    /\ rpc \in {"read", "wake", "eofwake", "done"}
    /\ decoded \in 0 .. MaxFrames
    /\ outbound \in Seq(Frame)
    /\ output_eof \in BOOLEAN
    /\ wake \in 0 .. WakeCap
    /\ npc \in {"wait", "io", "drain", "send", "eof", "fin"}
    /\ batch \in Seq(Frame)
    /\ stream_fin_sent \in BOOLEAN
    /\ child_input_closed \in BOOLEAN
    /\ data_stream_id \in Streams \cup {NoStream}
    /\ stdin_fd \in BOOLEAN
    /\ dgrams \in Seq(Nat)
    /\ dgramReady \in BOOLEAN
    /\ stream \in Seq(Nat)
    /\ stopped \in BOOLEAN
    /\ provided \in Seq(Nat)
    /\ written \in Seq(Message)
    /\ peerFin \subseteq Streams
    /\ peerEvents \in 0 .. MaxPeerEvents
    /\ pushed \in Seq(Frame)
    /\ handed \in Seq(Frame)
    /\ posted \in Seq([from : Streams, id : 1 .. MaxPeerEvents])
    /\ drainEof \in BOOLEAN
    /\ refused \subseteq Nat

\* peer_create: zeroed peer, no stream bound; wtd_session_init; reader started.
Init ==
    /\ rpc = "read"
    /\ decoded = 0
    /\ outbound = << >>
    /\ output_eof = FALSE
    /\ wake = 0
    /\ npc = "wait"
    /\ batch = << >>
    /\ stream_fin_sent = FALSE
    /\ child_input_closed = FALSE
    /\ data_stream_id = NoStream
    /\ stdin_fd = TRUE
    /\ dgrams = << >>
    /\ dgramReady = FALSE
    /\ stream = << >>
    /\ stopped = FALSE
    /\ provided = << >>
    /\ written = << >>
    /\ peerFin = {}
    /\ peerEvents = 0
    /\ pushed = << >>
    /\ handed = << >>
    /\ posted = << >>
    /\ drainEof = FALSE
    /\ refused = {}

-----------------------------------------------------------------------------
(* The reader thread. *)

wtd_work_queue_push(q, f) == Append(q, f)

\* wtd_session_on_output: the frame is copied and queued, or dropped when
\* malloc fails; either way reader_main goes on to wake the network thread.
OnOutput(flag, allocated) ==
    /\ rpc = "read"
    /\ decoded < MaxFrames
    /\ decoded' = decoded + 1
    /\ LET f == [flag |-> flag, id |-> decoded + 1]
       IN  IF allocated
           THEN /\ outbound' = wtd_work_queue_push(outbound, f)
                /\ pushed' = Append(pushed, f)
           ELSE UNCHANGED <<outbound, pushed>>
    /\ rpc' = "wake"
    /\ UNCHANGED <<output_eof, wake, handed, posted, drainEof, refused>>
    /\ UNCHANGED <<netVars, peerVars, outsideVars>>

\* Faulty: no byte is written.
WakeForgotten(w) == w

\* One byte into the wake pipe, whose write end is O_NONBLOCK: when it is
\* full the byte is not written and nobody looks at the error.
WakeWritten(w) == IF w < WakeCap THEN w + 1 ELSE w

Wake ==
    /\ rpc = "wake"
    /\ wake' = WakeWritten(wake)
    /\ rpc' = "read"
    /\ UNCHANGED <<decoded, outbound, output_eof>>
    /\ UNCHANGED <<netVars, peerVars, outsideVars, historyVars>>

\* Faulty: the end is reported while frames are still buffered.
EofReportedEarly ==
    /\ rpc = "read"
    /\ output_eof' = TRUE
    /\ UNCHANGED <<rpc, decoded, outbound, wake>>
    /\ UNCHANGED <<netVars, peerVars, outsideVars, historyVars>>

\* EOF, a read error, a malformed frame or a full buffer: reader_main leaves
\* its loop by "done:", whichever it was.
OnOutputEof ==
    /\ rpc = "read"
    /\ output_eof' = TRUE
    /\ rpc' = "eofwake"
    /\ UNCHANGED <<decoded, outbound, wake>>
    /\ UNCHANGED <<netVars, peerVars, outsideVars, historyVars>>

EofWake ==
    /\ rpc = "eofwake"
    /\ wake' = WakeWritten(wake)
    /\ rpc' = "done"
    /\ UNCHANGED <<decoded, outbound, output_eof>>
    /\ UNCHANGED <<netVars, peerVars, outsideVars, historyVars>>

Reader ==
    \/ \E flag \in {RELIABLE, UNRELIABLE}, allocated \in BOOLEAN :
          OnOutput(flag, allocated)
    \/ Wake
    \/ OnOutputEof
    \/ EofWake

-----------------------------------------------------------------------------
(* The packet loop around the callbacks (picoquic): poll, then either the  *)
(* wake pipe or the sockets and timers, then the loop callback, which      *)
(* pumps every peer.                                                       *)

\* The wake pipe is readable: take up to WakeRead bytes and pump.
WakeUp ==
    /\ npc = "wait"
    /\ wake > 0
    /\ wake' = IF wake > WakeRead THEN wake - WakeRead ELSE 0
    /\ npc' = "drain"
    /\ UNCHANGED <<outbound, output_eof, batch, stream_fin_sent, child_input_closed>>
    /\ UNCHANGED <<readerVars, peerVars, outsideVars, historyVars>>

\* A turn of callbacks: poll returned for a socket or by its timeout, or the
\* sending half of a turn follows the pump that ended its receiving half. In
\* the second case nobody looked at the wake pipe in between.
BeginIo ==
    /\ npc = "wait"
    /\ npc' = "io"
    /\ UNCHANGED <<batch, stream_fin_sent, child_input_closed>>
    /\ UNCHANGED <<readerVars, sharedVars, peerVars, outsideVars, historyVars>>

\* server_loop_cb after the callbacks of this turn (after_receive, after_send):
\* pump. The pump of provide_data never runs: it needs a stream marked active
\* for sending, and nothing marks one.
LoopCallback ==
    /\ npc = "io"
    /\ npc' = "drain"
    /\ UNCHANGED <<batch, stream_fin_sent, child_input_closed>>
    /\ UNCHANGED <<readerVars, sharedVars, peerVars, outsideVars, historyVars>>

-----------------------------------------------------------------------------
(* wtd_session_pump, one step per point where the reader may intervene.    *)

\* Faulty: the list is copied and its newest frame stays behind to be sent
\* again.
DrainKeepsTail ==
    /\ npc = "drain"
    /\ batch' = outbound
    /\ outbound' = IF Len(outbound) > 1 THEN Tail(outbound) ELSE << >>
    /\ drainEof' = output_eof
    /\ npc' = "send"
    /\ UNCHANGED <<output_eof, wake, stream_fin_sent, child_input_closed>>
    /\ UNCHANGED <<pushed, handed, posted, refused>>
    /\ UNCHANGED <<readerVars, peerVars, outsideVars>>

\* The whole list, in one critical section.
PumpDrain ==
    /\ npc = "drain"
    /\ batch' = outbound
    /\ outbound' = << >>
    /\ drainEof' = output_eof
    /\ npc' = "send"
    /\ UNCHANGED <<output_eof, wake, stream_fin_sent, child_input_closed>>
    /\ UNCHANGED <<pushed, handed, posted, refused>>
    /\ UNCHANGED <<readerVars, peerVars, outsideVars>>

\* external: x for the data stream, taken or refused
picoquic_add_to_stream(x, taken) ==
    /\ stream' = IF taken THEN Append(stream, x) ELSE stream
    /\ refused' = IF taken THEN refused ELSE refused \cup {x}

\* peer_send_stream: without a bound stream it returns -1, which the pump
\* ignores; with one it returns 0, whatever picoquic said. The frame is freed
\* all the same. picoquic refuses it on a stopped stream and when it cannot
\* allocate its copy.
peer_send_stream(f, allocated) ==
    /\ IF data_stream_id = NoStream
       THEN UNCHANGED <<stream, refused>>
       ELSE picoquic_add_to_stream(f.id, allocated /\ ~stopped)
    /\ UNCHANGED <<dgrams, dgramReady>>

\* Faulty: the newest datagram first.
DatagramAtHead(f, allocated) ==
    /\ IF allocated
       THEN dgrams' = << f.id >> \o dgrams /\ dgramReady' = TRUE
       ELSE UNCHANGED <<dgrams, dgramReady>>
    /\ UNCHANGED <<stream, refused>>

\* peer_send_datagram: append to the FIFO and arm h3zero, or fail to allocate.
peer_send_datagram(f, allocated) ==
    /\ IF allocated
       THEN dgrams' = Append(dgrams, f.id) /\ dgramReady' = TRUE
       ELSE UNCHANGED <<dgrams, dgramReady>>
    /\ UNCHANGED <<stream, refused>>

\* Faulty: the test of the flag is inverted.
SendByFlagInverted(f, allocated) ==
    IF f.flag = UNRELIABLE THEN peer_send_stream(f, allocated)
                           ELSE peer_send_datagram(f, allocated)

\* The flag of a frame picks the port; the results are ignored.
SendByFlag(f, allocated) ==
    IF f.flag = RELIABLE THEN peer_send_stream(f, allocated)
                         ELSE peer_send_datagram(f, allocated)

PumpSend(allocated) ==
    /\ npc = "send"
    /\ batch # << >>
    /\ SendByFlag(Head(batch), allocated)
    /\ batch' = Tail(batch)
    /\ handed' = Append(handed, Head(batch))
    /\ UNCHANGED <<npc, stream_fin_sent, child_input_closed, data_stream_id, stdin_fd>>
    /\ UNCHANGED <<stopped, provided, written, peerFin, peerEvents, pushed, posted, drainEof>>
    /\ UNCHANGED <<readerVars, sharedVars>>

PumpBatchEnd ==
    /\ npc = "send"
    /\ batch = << >>
    /\ npc' = "eof"
    /\ UNCHANGED <<batch, stream_fin_sent, child_input_closed>>
    /\ UNCHANGED <<readerVars, sharedVars, peerVars, outsideVars, historyVars>>

\* Faulty: the FIN is not latched.
FinDueAgain == output_eof

\* Faulty: the FIN waits for the peer to close its half first.
FinDueAfterPeer == output_eof /\ ~stream_fin_sent /\ child_input_closed

\* The condition under which a pump goes on to send_fin.
FinDue == output_eof /\ ~stream_fin_sent

PumpLoadEof ==
    /\ npc = "eof"
    /\ npc' = IF FinDue THEN "fin" ELSE "wait"
    /\ UNCHANGED <<batch, stream_fin_sent, child_input_closed>>
    /\ UNCHANGED <<readerVars, sharedVars, peerVars, outsideVars, historyVars>>

\* peer_send_fin fails while no stream is bound, and is retried. With one it
\* returns 0, which is latched, although a stopped stream takes no FIN.
PumpFin ==
    /\ npc = "fin"
    /\ npc' = "wait"
    /\ IF data_stream_id = NoStream
       THEN UNCHANGED <<stream, refused, stream_fin_sent>>
       ELSE picoquic_add_to_stream(FIN, ~stopped) /\ stream_fin_sent' = TRUE
    /\ UNCHANGED <<batch, child_input_closed, stopped, provided, written, peerFin, peerEvents>>
    /\ UNCHANGED <<pushed, handed, posted, drainEof>>
    /\ UNCHANGED <<readerVars, sharedVars, peerVars>>

Pump ==
    \/ PumpDrain
    \/ \E allocated \in BOOLEAN : PumpSend(allocated)
    \/ PumpBatchEnd
    \/ PumpLoadEof
    \/ PumpFin

-----------------------------------------------------------------------------
(* wt_session_cb: the HTTP/3 events of one turn of the packet loop.        *)

\* Faulty: the two half-closes are confused, input stops when output did.
DeliverUntilFinSent(flag, nonempty, accepted) ==
    written' = IF ~stream_fin_sent /\ nonempty /\ accepted /\ stdin_fd
               THEN Append(written, [flag |-> flag, id |-> peerEvents + 1])
               ELSE written

\* deliver_to_child: nothing once the input is closed, nothing for an empty
\* message; otherwise one write() of the framed message (peer_child_write
\* refuses a closed fd). accepted = FALSE: the frame buffer could not be
\* allocated, or the non-blocking pipe did not take the frame; the session
\* looks at neither, the message is gone. (A write that takes a part of the
\* frame is not told apart from one that takes none.)
deliver_to_child(flag, nonempty, accepted) ==
    written' = IF ~child_input_closed /\ nonempty /\ accepted /\ stdin_fd
               THEN Append(written, [flag |-> flag, id |-> peerEvents + 1])
               ELSE written

\* wtd_session_deliver_fin and peer_child_close.
wtd_session_deliver_fin ==
    IF child_input_closed
    THEN UNCHANGED <<child_input_closed, stdin_fd>>
    ELSE child_input_closed' = TRUE /\ stdin_fd' = FALSE

BoundStream(s) == IF data_stream_id = NoStream THEN s ELSE data_stream_id

\* post_data and post_fin on stream s: the first stream that carries anything
\* becomes the data stream, its bytes go to the child, FIN closes its input.
PostData(s, nonempty, fin, accepted) ==
    /\ npc = "io"
    /\ peerEvents < MaxPeerEvents
    /\ s \in (Streams \cup {ControlStream}) \ peerFin
    /\ nonempty \/ fin
    /\ peerEvents' = peerEvents + 1
    /\ IF s = ControlStream
       THEN UNCHANGED <<data_stream_id, written, posted, child_input_closed, stdin_fd, peerFin>>
       ELSE /\ data_stream_id' = BoundStream(s)
            /\ deliver_to_child(RELIABLE, nonempty, accepted)
            /\ posted' = IF nonempty /\ accepted
                         THEN Append(posted, [from |-> s, id |-> peerEvents + 1])
                         ELSE posted
            /\ IF fin THEN /\ wtd_session_deliver_fin
                           /\ peerFin' = peerFin \cup {s}
                      ELSE UNCHANGED <<child_input_closed, stdin_fd, peerFin>>
    /\ UNCHANGED <<npc, batch, stream_fin_sent, dgrams, dgramReady, stream, stopped, provided>>
    /\ UNCHANGED <<pushed, handed, drainEof, refused>>
    /\ UNCHANGED <<readerVars, sharedVars>>

PostDatagram(nonempty, accepted) ==
    /\ npc = "io"
    /\ peerEvents < MaxPeerEvents
    /\ peerEvents' = peerEvents + 1
    /\ deliver_to_child(UNRELIABLE, nonempty, accepted)
    /\ UNCHANGED <<stream, stopped, provided, peerFin>>
    /\ UNCHANGED <<readerVars, sharedVars, netVars, peerVars, historyVars>>

\* The data stream takes nothing more: STOP_SENDING came for it, or it is
\* closed in both directions and deleted (a unidirectional stream of the peer
\* when its FIN has come). Of the event, if any, wt_session_cb knows nothing.
StreamStops ==
    /\ npc = "io"
    /\ data_stream_id # NoStream
    /\ ~stopped
    /\ stopped' = TRUE
    /\ UNCHANGED <<stream, provided, written, peerFin, peerEvents>>
    /\ UNCHANGED <<readerVars, sharedVars, netVars, peerVars, historyVars>>

\* Faulty: stops at the first datagram of a burst.
NotRearmed(rest) == FALSE

\* Re-armed after a datagram exactly when another one is queued.
Rearmed(rest) == rest # << >>

\* h3zero disarms the session, asks for one datagram and gets the oldest one;
\* when there is no room for it in the packet (room = FALSE) it is dropped.
\* (The datagrams of the peer are long enough for the session's ID; Connection
\* has the other case too.)
ProvideDatagram(room) ==
    /\ npc = "io"
    /\ dgramReady
    /\ dgrams # << >>
    /\ provided' = IF room THEN Append(provided, Head(dgrams)) ELSE provided
    /\ dgrams' = Tail(dgrams)
    /\ dgramReady' = Rearmed(Tail(dgrams))
    /\ UNCHANGED <<data_stream_id, stdin_fd, stream, stopped, written, peerFin, peerEvents>>
    /\ UNCHANGED <<readerVars, sharedVars, netVars, historyVars>>

Io ==
    \/ \E s \in Streams \cup {ControlStream}, nonempty, fin, accepted \in BOOLEAN :
          PostData(s, nonempty, fin, accepted)
    \/ \E nonempty, accepted \in BOOLEAN : PostDatagram(nonempty, accepted)
    \/ StreamStops
    \/ \E room \in BOOLEAN : ProvideDatagram(room)

-----------------------------------------------------------------------------
Next == Reader \/ WakeUp \/ BeginIo \/ LoopCallback \/ Pump \/ Io

\* Fairness: the network thread always finishes the turn it is in and answers
\* the wake pipe, and the reader finishes the wake-up it is in. Nothing is
\* assumed of the child, of the peer or of the poll timeout.
Fairness ==
    /\ WF_vars(WakeUp \/ LoopCallback \/ Pump)
    /\ WF_vars(Wake \/ EofWake)

Spec == Init /\ [][Next]_vars

FairSpec == Spec /\ Fairness

-----------------------------------------------------------------------------
(* Properties. *)

Ids(frames) == [i \in 1 .. Len(frames) |-> frames[i].id]
IsReliable(f) == f.flag = RELIABLE

\* The elements of s that are in S, in order. (SelectSeq, written out: the
\* proofs look into it.)
Kept(s, S) ==
    LET kept[i \in 0 .. Len(s)] ==
            IF i = 0 THEN << >>
            ELSE IF s[i] \in S THEN Append(kept[i - 1], s[i]) ELSE kept[i - 1]
    IN  kept[Len(s)]

Increasing(s) == \A i, j \in 1 .. Len(s) : i < j => s[i] < s[j]

\* No frame that wtd_session_on_output queued is lost, duplicated or overtaken
\* on its way to the transport port, whatever the reader does while the pump is
\* between two steps: work queue and batch together are one FIFO channel.
Relay == INSTANCE FrameFifo
            WITH Item <- Frame, q <- batch \o outbound, in <- pushed, out <- handed
RelayIsFifo == Relay!Spec

\* From some point of the pump's output on (the binding of a stream) the QUIC
\* stream carries every reliable frame in order, except those that picoquic
\* refused: nothing else is lost, and nothing is reordered, repeated or mixed
\* with datagrams, although peer_send_stream looks at no result.
StreamIsReliableSuffix ==
    \E k \in 0 .. Len(handed) :
        Kept(stream, Nat \ {FIN}) =
            Ids(Kept(SubSeq(handed, k + 1, Len(handed)),
                     {f \in Frame : IsReliable(f) /\ f.id \notin refused}))

\* peer_send_fin asks picoquic for the FIN at most once, and only after the
\* reader reported the end of the child's output. stream_fin_sent says just
\* that: it is latched when the FIN was taken or refused, so a send_fin that
\* failed for want of a stream is retried, and one that picoquic refused is not.
FinSound ==
    /\ \A i, j \in 1 .. Len(stream) : stream[i] = FIN /\ stream[j] = FIN => i = j
    /\ stream_fin_sent <=> FIN \in refused \/ \E i \in 1 .. Len(stream) : stream[i] = FIN
    /\ FIN \in refused => \A i \in 1 .. Len(stream) : stream[i] # FIN
    /\ stream_fin_sent => output_eof

\* When the end of the output was already known at the drain, the FIN is the
\* last thing asked of the stream: at that FIN no frame is left in the queue
\* or can still be pushed. (The reader sets output_eof after its last push.)
FinLastIfEofSeenAtDrain ==
    [][stream_fin_sent' /\ ~stream_fin_sent /\ drainEof
          => outbound = << >> /\ batch = << >> /\ rpc \in {"eofwake", "done"}]_vars

\* A queued datagram is never forgotten: as long as the FIFO is not empty
\* h3zero has been asked to come back for it, although it disarms the session
\* before every provide_datagram.
QueuedDatagramIsArmed == dgrams # << >> => dgramReady

\* Datagrams leave in the order the child wrote them, each at most once, and
\* none of them also went to the stream.
DatagramsInOrder ==
    /\ Increasing(provided \o dgrams)
    /\ \A i \in 1 .. Len(provided) : \A j \in 1 .. Len(stream) : provided[i] # stream[j]

\* What the peer sends on a stream reaches the child's stdin in order and, as
\* long as the pipe takes it, complete up to and including the message that
\* carries the FIN, unless another stream of the session was finished: that FIN
\* too closes the child's input. The end of the child's own output and the FIN
\* sent for it do not interfere.
PeerStreamDelivered ==
    /\ Increasing(Ids(written))
    /\ \A i \in 1 .. Len(posted) :
          peerFin \subseteq {posted[i].from} =>
             \E j \in 1 .. Len(written) :
                written[j] = [flag |-> RELIABLE, id |-> posted[i].id]

\* Every queued frame is handed to the transport port without the help of the
\* poll timeout: no interleaving of push, wake byte, wake-up and drain loses
\* the wake-up, even when the wake pipe is full.
EveryFrameHanded ==
    \A n \in 1 .. MaxFrames : (Len(pushed) >= n) ~> (Len(handed) >= n)

\* Once the child's output has ended and a stream is bound, in either order,
\* the FIN is asked of picoquic and latched.
FinEventually == (output_eof /\ data_stream_id # NoStream) ~> stream_fin_sent

\* transport_port.h: send_fin half-closes the data stream, "no more child
\* output". Nothing is sent on the stream after its FIN.
NothingAfterFin == \A i \in 1 .. Len(stream) : stream[i] = FIN => i = Len(stream)

\* transport_port.h: when send_stream reports that no stream is bound yet "the
\* core may retry later". A reliable frame taken off the queue is on the
\* stream, unless picoquic itself refused it.
ReliableReachesStream ==
    \A i \in 1 .. Len(handed) :
        IsReliable(handed[i]) =>
           handed[i].id \in refused \/ \E j \in 1 .. Len(stream) : stream[j] = handed[i].id

\* transport_port.h: send_fin "returns 0 once the FIN is actually emitted", and
\* session.h: stream_fin_sent is "set after the transport FIN is emitted". A
\* latched FIN is on the stream.
LatchedFinIsEmitted == stream_fin_sent => \E i \in 1 .. Len(stream) : stream[i] = FIN

=============================================================================
