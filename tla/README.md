# webtransportd in TLA+

A verification project for `webtransportd`: TLA+ modules translated from the
sources under `src/core`, `src/adapters` and `src/ports`, the example child and
the part of the vendored HTTP/3 layer that calls the adapter, TLC configurations
that check them on small instances, and TLAPS proofs of their safety properties.
`PROJECT.json` maps every definition to the lines it models.

## The system

`webtransportd` is a WebTransport server that runs one child program per
browser session and pipes bytes both ways: what the peer sends goes, framed,
to the child's stdin; frames on the child's stdout go back to the peer, on a
QUIC stream or as datagrams, as the flag of each frame says.

Threads and processes: one *network thread* (the picoquic packet loop, which
runs on the main thread and calls every callback), one *reader thread* per
session, one *child process* per session.

| Component | State | Operations | Talks to |
|---|---|---|---|
| session core (`core/session.c`) | outbound queue, `output_eof`, `child_input_closed`, `stream_fin_sent` | `deliver_stream`, `deliver_datagram`, `deliver_fin`, `pump` (network thread); `on_output`, `on_output_eof` (reader thread) | its two ports |
| work queue (`core/work_queue.c`) | mutex, head, tail, nodes | `push` (reader), `drain` (network), `destroy` | session core |
| frame codec (`core/frame.c`) | none | encode, decode, varints | reader, `deliver_to_child` |
| child output reader (`adapters/child_output.c`) | read buffer | start, the read/decode loop, stop (join) | session core, wake pipe |
| child process (`adapters/child_process.c`) | pid, three pipe ends | spawn, terminate | kernel |
| transport adapter (`adapters/transport_picoquic.c`) | peer list; per peer the data stream's id and the datagram FIFO | ports, peer create and remove, `wt_session_cb`, `server_loop_cb`, run | picoquic, h3zero, all of the above |
| HTTP/3 layer (`thirdparty/picoquic/picohttp/h3zero_common.c`) | per connection: stream contexts, stream prefixes, both with pointers to peers; the datagram poll | requests, stream data, datagrams, end of a connection | transport adapter (callbacks) |
| command line, environment, certificate (`cmdline.c`, `env.c`, `autocert.c`) | none, or what is allocated so far | build, split; build, free; generate | child process, run |
| log, main | small or none | sequential | bootstrap |

What is hard here: the reader thread runs between any two steps of the pump;
the wake-up is a byte in a non-blocking pipe; the end of the output is a flag
beside the queue, not an item in it; a stream may not be bound yet; node
addresses are recycled; pipes fill and writes are cut; teardown crosses two
threads and a process; the HTTP/3 layer keeps raw pointers to peers through
refusals and the end of a connection; children may die, hang, close early,
ignore signals or write garbage; SIGTERM comes at any time. `PROJECT.json` lists
each of these as a hazard, at its line, with the properties that cover it.

## Modules

* **FrameFifo** – what the outbound path promises: a first-in first-out channel.
* **Session** – one session. The reader thread's `OnOutput`, `Wake`,
  `OnOutputEof`, `EofWake` interleave with the network thread's wake-up, I/O
  turn and pump. `wtd_session_pump` is five actions, split where the reader can
  intervene: drain, one send per frame, end of the batch, the load of
  `output_eof`, the FIN. The callbacks `PostData`, `PostDatagram` and
  `ProvideDatagram` happen inside an I/O turn, and so does `StreamStops`: from
  then on picoquic refuses what the session sends on its data stream. Payloads
  are the frame's number, so that loss, repetition and reordering show. The queue
  is atomic here.
* **WorkQueue** – the linked list under its mutex, one action per memory access,
  with `malloc` and `free` over a small set of addresses. It justifies the
  atomic queue of Session by implementing FrameFifo.
* **FrameCodec** – the codec as operators. `Q` is the number of values of a byte
  below its two prefix bits: 64 in the code, smaller where TLC needs it.
  **FrameWire** feeds it every byte string, **VarintWire** every form of chosen
  lengths, one byte at a time.
* **ChildOutput** – `reader_main` on bytes: partial reads, the fixed buffer, the
  decode loop, the errors, with a child that writes frames and garbage and may
  die in mid-frame.
* **ChildPipes** – the three pipes between the daemon and one child, with their
  capacities: the unchecked non-blocking write of `deliver_to_child` through
  `peer_child_write`, a child that reads, decodes and answers like
  `examples/echo.c`, the reader behind its stdout, a stderr that nobody reads. A
  byte is a record of its frame, its place and the frame's size, so that a torn
  frame shows; bytes of different frames at the head of the buffer may decode to
  anything.
* **Connection** – several sessions on one connection: h3zero's stream tree and
  stream prefixes with the pointers they hold, the requests (a CONNECT that is
  accepted or fails at each step, an unknown path, a POST to a session's path),
  the routing of stream data, FINs, resets and datagrams to `wt_session_cb`, the
  poll for datagrams (with sessions whose id leaves a datagram no room), and the
  deletion of the context when the connection ends.
* **Daemon** – the process and its peers: the set-up in `wtd_transport_run` with
  its error paths (the buffers of `wtd_autocert_generate`, QUIC context, wake
  pipe), `peer_create` with its failures, the inheritance of pipe ends at `fork`,
  `peer_remove`, `wtd_child_terminate` with its grace loop, SIGTERM, shutdown and
  clean-up. A reader only reads until EOF here, a child is one of three
  behaviours (exits by itself; closes its stdout but survives SIGTERM; runs until
  its stdin ends or a signal comes, as `examples/echo.c` does).
* **Cmdline** – `wtd_build_cmdline` and `wtd_split_cmdline` on sequences of
  character classes (blank, quote, backslash, other), and the decoding rules
  `cmdline.h` refers to as the reference. Each is a loop over the characters
  (`Loop`), its round an operator of its own: `Put`, `SplitChar`, `DecodeChar`.
* **EnvBuild** – `wtd_env_build` with its growing array and a failure at every
  allocation; `heap` counts blocks.
* **Win32Child** – the Win32 half of `child_process.c`: which handles are open and
  inheritable while children are spawned and terminated, with every failure, those
  the code ignores (`SetHandleInformation`) included.

How they fit together: Session takes the queue as atomic, which WorkQueue
justifies (both implement FrameFifo); it takes frames, which ChildOutput decodes
from bytes with FrameCodec; it takes a write to the child as taken or refused,
which ChildPipes has in bytes. Connection has several sessions where Session has
one, and reduces each to its stream and its datagrams. Daemon has their creation
and removal, which Connection reduces to one step each.

The theorems are in modules of their own (see Proofs): **SessionProofs**,
**WorkQueueProofs**, **ChildOutputProofs**, **DaemonProofs**,
**ConnectionProofs**, **ChildProofs** (what stands between the daemon and a child:
FrameWire, VarintWire, EnvBuild, Win32Child, ChildPipes, Cmdline), and two modules
of lemmas, **FrameCodecProofs** (the codec's
operators) and **NatRecursion** (induction).

`MC*` modules extend the models for TLC. Operators marked "Faulty" are the mutated
forms named in `PROJECT.json`: with the definition after them replaced by them,
TLC refutes the property they are listed with.

### Correspondence and abstractions

* Malloc failures are Boolean parameters; log output is left out.
* `picoquic_add_to_stream` is external and either takes its bytes or refuses them
  (`sender.c:247-303`): data for want of memory, everything once the stream is
  `stopped` (STOP_SENDING, or a stream that is closed and deleted, as a
  unidirectional stream of the peer is after its FIN). The adapter looks at neither
  result: `peer_send_stream` loses the frame, `peer_send_fin` reports a FIN that
  was not taken. `refused` is the history of what picoquic did not take.
* In Session `deliver_to_child` is one write that is taken or refused; ChildPipes
  has the pipe's capacity and writes of a part of a frame.
* In ChildPipes a write up to `PIPE_BUF` is all or nothing and a larger one takes
  any part there is room for, as POSIX says of a non-blocking pipe. The child's
  own allocation, read and write errors are left out.
* In Connection a stream's header arrives as a whole, `h3zero` reads capsules on a
  control stream as data, and a datagram too long for the packet counts as one
  that was provided (it is dropped). A session is `cramped` when its quarter stream
  id takes all of the client's `max_datagram_frame_size` or more: h3zero disarms
  it and does not ask the adapter (`h3zero_common.c:1768,1778`). The packet never
  makes it so, since picoquic asks only with 15 bytes left or more and an id has
  at most 8. A peer is named by its CONNECT stream. The
  `last_datagram_prefix` of a zeroed context is stream 0, which may be a session.
* In Win32Child `TerminateProcess` only tells a child to end (`"ending"`); it holds
  its handles until it exits. `wtd_child_terminate` waits for that, the error path
  of `wtd_child_spawn` does not.
* In Cmdline the program name is decoded like every other argument; Windows reads
  it by simpler rules.
* The packet loop is external: poll looks at the wake pipe first and takes up to
  eight bytes; a turn without a wake-up runs callbacks and then
  `server_loop_cb`. `BeginIo` does not require an empty wake pipe, because a
  sending half turn follows a receiving one without a poll.
* `provide_data` also pumps, but picoquic raises it only for a stream marked
  active, and nothing marks one.
* In ChildOutput delivery and wake-up are one step; Session has them apart.
* In Daemon `waitpid` fails only by interruption, `h3zero` deregisters a session
  once, and `picoquic_free` deregisters those that are left.

## Runs

Passing:

* **session** – 2 frames, 2 streams beside the control stream, 2 peer events, a
  wake pipe of 1 byte; 827 thousand states, below three minutes. Two frames give a
  frame behind another in the queue, in the batch, in the datagram FIFO, or one
  before and one after the binding of the stream, its stop or the FIN; two events give
  two streams, or data and FIN; one byte makes the pipe full at the second
  wake-up. Checks that the path is a FIFO (`RelayIsFifo`), what
  reaches the stream and the datagrams (`StreamIsReliableSuffix`: all reliable
  frames from the binding on, in order, but those picoquic refused;
  `DatagramsInOrder`, `QueuedDatagramIsArmed`), the FIN (`FinSound`: asked for at
  most once, and latched exactly when it was asked for, taken or not;
  `FinLastIfEofSeenAtDrain`; `FinEventually`: it is asked for and latched, which is
  not to say that the peer gets it), the other direction
  (`PeerStreamDelivered`), and that no wake-up is lost (`EveryFrameHanded`).
* **work_queue** – 2 producers, 3 nodes, 3 items; 35 thousand states: the list is
  in memory what it should be and every node has one owner (`ListOwnsItsNodes`),
  the whole is a FIFO (`QueueIsFifo`), destruction frees all and nobody waits for
  ever (`DestroyedWithoutLeak`). The daemon has one producer per queue; two
  exercise the lock of `push`.
* **parts** – what one thread does on its own, one part per behaviour; 566
  thousand states, below three minutes. The reader thread: 3 writes of the child
  among four frames, three kinds of garbage and all truncations; a read takes any
  part of the pipe; the buffer is 10 bytes for a payload cap of 5, in the code's
  proportions (`DeliversSent`, `BytesConserved`, `BlocksOnlyWhenIncomplete`,
  `ReturnsAfterClose`). The frame decoder on all strings of up to 9
  bytes over an alphabet of 4 (`Q` = 1), payload cap 5: nine bytes hold the
  8-byte length form (`AcceptsTheFormat`, `ReencodesShorter`, `DecisionIsFinal`).
  The varint with the code's own bytes (`Q` = 64) around each limit up to 2^30 in
  the forms of 1, 2 and 4 bytes (`VarintRoundTrip`); TLC's integers end there.
  All argvs of up to 6 characters and separators: every run of backslashes
  before a quote, a blank, the end (`BuildRoundTrips`, `SplitFindsWords`).
  Environments of up to 7 names out of two variables that are set and tokens that
  are not, which makes the array grow (`EnvIsTerminated`). Two Win32 children,
  whose ends may stay inheritable: `Win32HandlesBalanced` excepts these and no
  others. Inputs end at their bound, hence no deadlock check; that the reader does
  not stop is `ReturnsAfterClose`.
* **child_pipes** – 3 messages of 2 or 3 bytes, `PIPE_BUF` 2, pipes of 3, 2 and 1
  bytes, an accumulator of 3; 96 thousand states, about 25 s. So a frame may or
  may not exceed `PIPE_BUF`, the stdin pipe holds one frame and a part of the
  next, stdout less than the largest answer, and every pipe fills. Frames within
  `PIPE_BUF` keep their boundaries whatever is lost (`BoundariesKept`), the
  network thread never waits (`NetworkNeverBlocks`), what was accepted comes back
  (`EchoDrains`), also after the peer's FIN (`EofAfterAll`). A child may really
  stop for ever (on its stderr), hence no deadlock check.
* **connection** – 2 streams for requests, one bidirectional and one
  unidirectional WebTransport stream, 2 datagrams waiting per peer, each session
  cramped or not; 342 thousand states, below two minutes. Two sessions are what
  routing and starvation need, one stream of each kind is bound by different code.
  Nothing crosses sessions
  (`RoutedToOwnSession`), no pointer is followed to a peer that is gone
  (`NoStaleUse`, with the one exception it states: a CONNECT whose prefix cannot
  be declared for lack of memory keeps the pointer to its freed peer),
  nothing is left at the end (`ClosedLeavesNothing`), no session starves another
  (`DatagramsServed`; a cramped one is never served, and does not hold up the
  others).
* **daemon** – 2 peers, all behaviours, a grace loop of 2 turns (50 in the
  code; the number only delays); 193 thousand states, about 35 s. Two peers are
  needed for inheritance and for one removal blocking another session. Checks
  that no reader outlives its session, the wake pipe or the QUIC context
  (`ReaderFindsItsState`), the list (`ListedPeersAreLive`), that closing a stdin
  is an EOF (`StdinCloseIsEof`), what is left of a removed peer and of the process
  (`RemovedLeavesNothing`, `ExitLeavesNothing`), and that removal and shutdown
  finish when the children's output ends (`RemovalFinishesIfOutputEnds`,
  `ShutdownFinishesIfOutputEnds`).

Violations, each a disagreement between the code and its own documents:

* **session_fin_race** (`NothingAfterFin`) – frames queued after the drain and
  before `output_eof` is read are sent behind the FIN, although `session.h`
  promises the FIN only when the queue is empty.
* **session_unbound** (`ReliableReachesStream`) – reliable output before the
  peer's first stream is freed unsent.
* **session_fin_latch** (`LatchedFinIsEmitted`) – when the peer has stopped the
  data stream picoquic refuses the FIN; `peer_send_fin` returns 0 and the session
  latches it, although `transport_port.h` says 0 means "actually emitted" and
  `session.h` that the latch is set after that.
* **daemon_hang** (`RemovalFinishes`) – `peer_remove` joins the reader before
  anything ends the child; with a child that waits for its stdin to end, the
  network thread waits for ever.
* **daemon_pipe** (`OnlySigtermEnds`) – writing to a child that has died kills
  the daemon by SIGPIPE, which nothing handles.
* **child_stderr** (`StderrForwarded`) – nothing reads the child's stderr, which
  `child_process.h` says is forwarded to the log; when its pipe is full the next
  message holds the child for ever.

Three more things the models show without a run of their own. A reliable frame
that picoquic refuses for want of memory is lost from the middle of the stream,
while later ones are taken: `StreamIsReliableSuffix` has to except it. The FIN of any stream
of a session, not only of its data stream, closes the child's input:
`PeerStreamDelivered` has to except it. A frame of the largest payload whose
length is in the 8-byte form does not fit the reader's buffer, which
`child_output.c` sizes for a 4-byte length: it is among the garbage of
the reader's part and ends the session's output.

### Fairness

Session: the network thread finishes the turn it is in and answers the wake
pipe; the reader finishes the wake-up it is in. Both are threads that do not
block at these points. Nothing is assumed of the child, the peer or the poll
timeout (`BeginIo` has no fairness), so the liveness results do not rest on the
timeout. WorkQueue: a thread inside a critical section or the walk goes on; a
thread waiting for a mutex that is free again and again gets it (strong
fairness: the queue's mutex is never held across a blocking call); the readers
end and the queue is then destroyed. ChildOutput: the reader runs unless `read`
blocks; a failing read is never assumed. Daemon: the network thread finishes
its set-up and its handlers and leaves the loop after a SIGTERM (poll has a bounded timeout),
readers return at EOF, children do what their behaviour says. ChildPipes: the
network thread, the child and the reader go on unless a system call holds them;
the peer need not send nor the child log. Connection: picoquic polls as long as
the connection is marked ready for datagrams, and the deletion of a context runs
to its end, being one call; nothing is assumed of the client or the children.

## Proofs

All of it holds for every value of the constants; the assumptions on them are
named in the modules that declare them, and only say that names differ, bounds
are numbers and, in ChildOutput, what a frame is (below). Each invariant is
proved from an inductive one, one step per action.

**SessionProofs** – any number of frames, streams and peer events, any wake pipe.
`TypeCorrect`; `FinIsSound`, `DatagramsArmed` (`FinSound`,
`QueuedDatagramIsArmed`); `FinIsLast` (the action property
`FinLastIfEofSeenAtDrain`); `SessionRefinesFifo` (`RelayIsFifo`);
`StreamIsSuffix`, `DatagramsAreOrdered`, `PeerStreamIsDelivered`
(`StreamIsReliableSuffix`, `DatagramsInOrder`, `PeerStreamDelivered`).
Beside the properties themselves `SessionInv` says that a batch exists only while
the pump is sending (otherwise a drain would overwrite frames), that what was
pushed is what was handed over, the batch and the queue (`Conservation`), that
`output_eof` means the reader will not push again, that a drain which saw it has
left the queue empty for good (this makes the FIN last), and that the FIN step
is entered only when it is due. The refinement maps the channel to
`batch \o outbound`: a push is a put, the send of one frame a take, a drain a
stutter. The order of what the ports see needs a second invariant on top,
`OrderInv`: frames are numbered in the order they are pushed, so by
`Conservation` those handed over are in order and below the next one; each port
has only numbers of its own flag; nothing is on the stream, or refused, before one
is bound, and the stream is what is left of the reliable frames from some point on
without the refused ones (`Sendable`, `KeptSame`, `SuffixElements`: a refusal takes
the newest frame out of that selection and leaves the rest as it was);
the child's input is open exactly until some stream of the peer has finished.

**WorkQueueProofs** – any number of producers, nodes and frames.
`NodesHaveOneOwner` (`ListOwnsItsNodes`) and `WorkQueueRefinesFifo`
(`QueueIsFifo`), so Session may take the queue as atomic. `QueueInv` says who is
in the critical section, how far a push or drain has come, that `next` connects
the nodes of list and chain, and that list, chain and the producers' new nodes
share no node: without the last a recycled address could break the list.

**ChildOutputProofs** – bytes of any size, any cap, any set of frames and of
garbage, any number of writes. `NoByteIsLost` (`BytesConserved`),
`ReadsOnlyWhenIncomplete` (`BlocksOnlyWhenIncomplete`), `FramesAreDelivered`
(`DeliversSent`). The invariant places every frame the child wrote in the byte
stream (`Written`: there are offsets `ends`), says what may lie behind them
(nothing, something unreadable, or the stump of a frame of a child that is gone)
and that the bytes taken are exactly those of the frames delivered. The
assumption `ChildAssumption` says that `Frames` are well-formed frames which fit
the reader's buffer and that `Garbage` is bytes which no continuation makes a
frame: a reserved flag, or a length above the cap or too long for the buffer.

**FrameCodecProofs** – what the codec's operators compute: the varint and the
frame decode to what was encoded (`FormValue`, `FrameDecodes`), bytes that decode
are the encoding of what they decode to (`ValueForm`, `DecodedFrame`), a verdict
is final (`VerdictIsFinal`), a prefix of a frame is incomplete (`PartOfFrame`).

**ChildProofs** – six components that share lemmas.

* The codec on bytes: `ExactlyTheFormat`, `VerdictsAreFinal`,
  `ReencodingIsShorter` (`AcceptsTheFormat`, `DecisionIsFinal`,
  `ReencodesShorter`) from the lemmas above, so also for the code's 256 byte
  values and its 16 MiB cap; `VarintsRoundTrip` (`VarintRoundTrip`), the 8-byte
  form included, which TLC's integers cannot hold.
* EnvBuild: `EnvironmentIsTerminated` (`EnvIsTerminated`) for lists of any length,
  from an invariant that counts blocks and knows which tokens have been seen.
* Win32Child: `HandlesAreBalanced` (`Win32HandlesBalanced`) for any set of
  children, from one that lists the handles held and inheritable at every step of
  a spawn: what the call means to pass on, and the ends that are `exposed` because
  `SetHandleInformation` failed, for as long as they are open.
* ChildPipes: `PipesTyped` (`TypeOK`) and `BoundariesAreKept` (`BoundariesKept`)
  for pipes, accumulator and `PIPE_BUF` of any size, and frames of any number and
  size. `BoundariesKept` says nothing of the bytes under way, so it is not
  inductive. `PipesIInv` adds two equations and a shape. `Answered`: what is
  decoded is what came back, followed by the frames that the bytes in stdout and
  in the rest of the reply complete; it holds for torn frames too. `InTransit`, as
  long as every frame fits `PIPE_BUF`: what the pipe took is what is decoded,
  followed by the frames completed by the bytes in the accumulator and in stdin;
  and these bytes are `Regular`: the first begins a frame, the last ends one, and
  a byte that does not end its frame is followed by the next one of that frame.
  From the shape follows that the head of the accumulator is never torn
  (`HeadHolds`), so the two actions for a torn head cannot happen; a write keeps
  it because it adds a whole frame or nothing, a read because it only moves bytes
  from one sequence to the next.
* Cmdline: `BuildsRoundTrip` (`BuildRoundTrips`) for arguments of any number and
  length. `Carries` is what the decoder's state says behind the first `i`
  characters of an argument: the text so far, followed by `n` backslashes, is
  exactly those characters, and the number of backslashes it has counted is `2n`
  if the run they are in will be doubled (before a quote or the closing quote) and
  `n` otherwise. Each character keeps it (`CharDecodes`), hence each argument
  (`ArgDecodes`) and the line (`LineDecodes`). `PutAll` says that the loop of PUTs
  writes the whole line, or fails, exactly by whether the line and its NUL fit,
  and `LineLength` that three bytes for each character and argument are enough.
  `SplitsIntoWords` (`SplitFindsWords`): a word as it is typed, with its blank,
  appends one token (`WordSplits`) until no slot is left, and then nothing changes
  (`SplitFull`).

**DaemonProofs** – any number of peers, any behaviours. `ReadersAreSafe`,
`ListIsLive`, `ClosingStdinIsEof`, `RemovalIsComplete`, `ExitIsClean`
(`ReaderFindsItsState`, `ListedPeersAreLive`, `StdinCloseIsEof`,
`RemovedLeavesNothing`, `ExitLeavesNothing`). `DaemonInv` says where a peer is:
registered with h3zero (then all of it is there), in the hands of the network
thread (then what is there follows from the control point), or neither (then
nothing is); that the list holds the registered ones and the one about to be;
and who owns certificate, key, QUIC context and wake pipe at each step.

**ConnectionProofs** – any number of sessions and streams.
`SessionsAreSeparate`, `PointersAreLive`, `CloseIsComplete`
(`RoutedToOwnSession`, `NoStaleUse`, `ClosedLeavesNothing`). `ConnectionInv` says
that a peer lives exactly as long as its prefix is declared, and that every
pointer to a peer, in a control stream's context or in a WebTransport stream's,
is to one whose prefix is declared, or to the one the code leaves behind.

The prover cannot use the library's induction theorems, whose parameter is an
operator. **NatRecursion** therefore derives, from the well-foundedness of the
numbers, induction up to `n` and over sequences for a *set* (`UpTo`,
`SeqInduction`), and the existence of the function that a loop computes
(`LoopExists`); with these the recursive functions `Kept`, `Selected`, `Weight`
and `BigEndian`, the library's `FlattenSeq` (`FlattenLoop`) and the loops of
Cmdline (`LoopAfter`) are shown to be what they say. That is why the models write
a selection or a loop as such a function, and the round of a loop as a function on
a set of states.

Every invariant, action property and refinement that a run checks is stated by a
theorem; `VarintRoundTrip` of the run is the theorem's formula with the code's
`Q`. Only model-checked are the liveness properties, since fairness and ENABLED
are out of the prover's reach: `EveryFrameHanded`, `FinEventually`,
`DestroyedWithoutLeak`, `ReturnsAfterClose`, `NetworkNeverBlocks`, `EchoDrains`,
`EofAfterAll`, `DatagramsServed`, `RemovalFinishesIfOutputEnds`,
`ShutdownFinishesIfOutputEnds`. The findings are counterexamples, so TLC has them.

## Not modelled

* `main.c` (argument parsing; the accepted configurations are the start states of
  Daemon), `log.c`, `wtd_wincompat.c`: sequential or formatting, without state
  that another part depends on.
* The contents of certificates and keys: cryptography and DER.
* The vendored stack beyond the routing in Connection: picoquic's transport,
  HTTP header and QPACK parsing, picotls, mbedtls. They are third-party code, more
  than a hundred times the size of the daemon; the models take them as the
  adapter sees them. All but a few thousand of the repository's lines are theirs.
* Of the examples only `echo.c` is a model; `shout.c` and `frame_hi.c` vary it.
* The order in which two connections' events interleave is not restricted, but
  Connection has one connection: h3zero's tables are per connection.
* Memory is unbounded in the code (outbound queue, datagram FIFO); the models
  bound the number of frames, so no property is about exhaustion.

## Plan

The order in which the project was built, and would be read: FrameFifo, Session
and WorkQueue, then what carries the bytes (FrameCodec, ChildOutput, ChildPipes),
then who creates and ends it all (Daemon, Connection), then the sequential parts;
each with its run first and its theorems once TLC agreed. Of the parts listed
above none is left to model, and of the safety properties none is left to prove.
When the code changes, the definitions `PROJECT.json` maps to the changed lines
are the ones to look at. Two changes would be welcome to the models: a reader of
stderr would turn child_stderr into a passing run, and ending the child before
joining its reader would do so with daemon_hang.
