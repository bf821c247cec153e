------------------------------- MODULE Daemon -------------------------------
(***************************************************************************)
(* The life of the daemon's peers: adapters/transport_picoquic.c around    *)
(* adapters/child_process.c (the POSIX half).                              *)
(*                                                                         *)
(* One network thread sets up the server, runs the packet loop and cleans  *)
(* up (wtd_transport_run). It accepts sessions (peer_create: spawn a       *)
(* child, start its reader thread, link the peer), serves them, removes    *)
(* them when their connection goes away (peer_remove: unlink, join the     *)
(* reader, free the session, terminate the child), and on SIGTERM leaves   *)
(* the packet loop and removes them all. Beside it run one reader thread   *)
(* and one child process per peer. What the session does with its bytes is *)
(* in module Session; here a reader only reads until the child's stdout    *)
(* ends.                                                                   *)
(***************************************************************************)
EXTENDS Naturals, Sequences, SequencesExt

CONSTANTS
    Peers,        \* sessions that may be opened, each at most once
    NoPeer,
    Behaviours,   \* what children may do: subset of {"exits", "closes", "waits"}
    MaxPolls      \* turns of the waitpid loop of wtd_child_terminate (50)

ASSUME PeersAssumption == NoPeer \notin Peers /\ "daemon" \notin Peers

\* A child of behaviour
\*   "exits"   ends by itself sooner or later (or at a signal, or at EOF);
\*   "closes"  closes its stdout sooner or later but stays, SIGTERM or not;
\*   "waits"   runs until its stdin ends or a signal comes, like examples/echo.c.
ASSUME BehavioursAssumption == Behaviours \subseteq {"exits", "closes", "waits"}

ASSUME MaxPollsAssumption == MaxPolls \in Nat

VARIABLES
    \* network thread
    npc,          \* control point
    who,          \* the peer that is being created or removed
    resume,       \* where peer_remove returns to
    tries,        \* turns of the waitpid loop
    peers,        \* sctx->peers, newest first
    \* per peer, in the daemon
    mem,          \* wtd_peer_t: "none", "live", "closed" (session destroyed), "freed"
    registered,   \* peers whose stream prefix h3zero knows: it will deregister them
    reader,       \* reader thread: "none", "reading", "returned", "joined"
    outFd,        \* child.stdout_fd and child.stderr_fd are open
    pid,          \* child.pid > 0
    \* per child, in the kernel
    child,        \* "none", "running", "dead" (a zombie), "reaped"
    behaviour,
    stdoutOpen,   \* the child holds the write end of its stdout
    sigterm,      \* SIGTERM was sent to it
    inW,          \* holders of the write end of its stdin pipe
    cloexec,      \* the daemon's end of that pipe is FD_CLOEXEC
    \* the process
    g_should_exit,
    cert, key,    \* cert_der and key_der: "none", "local" (to wtd_autocert_generate),
                  \* "held", "quic" (handed over), "freed"
    quic,         \* the QUIC context: "none", "live", "freed"
    wakePipe      \* the wake pipe: "none", "open", "closed"

netVars == <<npc, who, resume, tries, peers>>
peerVars == <<mem, registered, reader, outFd, pid>>
childVars == <<child, behaviour, stdoutOpen, sigterm, inW, cloexec>>
bootVars == <<cert, key, quic, wakePipe>>
processVars == <<g_should_exit, bootVars>>
vars == <<netVars, peerVars, childVars, processVars>>

Holders == Peers \cup {"daemon"}

RemoveSteps == {"join", "destroy", "closein", "term", "poll", "kill", "wait", "closeout", "free"}
CreateSteps == {"thread", "declare"}
BootSteps == {"autocert", "autokey", "create", "chain", "key", "pipe"}

TypeOK ==
    /\ npc \in BootSteps \cup RemoveSteps \cup CreateSteps
                  \cup {"loop", "shutdown", "closepipe", "exited", "killed"}
    /\ who \in Peers \cup {NoPeer}
    /\ resume \in {"loop", "shutdown"}
    /\ tries \in 0 .. MaxPolls
    /\ peers \in Seq(Peers)
    /\ mem \in [Peers -> {"none", "live", "closed", "freed"}]
    /\ registered \subseteq Peers
    /\ reader \in [Peers -> {"none", "reading", "returned", "joined"}]
    /\ outFd \in [Peers -> BOOLEAN]
    /\ pid \in [Peers -> BOOLEAN]
    /\ child \in [Peers -> {"none", "running", "dead", "reaped"}]
    /\ behaviour \in [Peers -> Behaviours]
    /\ stdoutOpen \in [Peers -> BOOLEAN]
    /\ sigterm \in [Peers -> BOOLEAN]
    /\ inW \in [Peers -> SUBSET Holders]
    /\ cloexec \in [Peers -> BOOLEAN]
    /\ g_should_exit \in BOOLEAN
    /\ cert \in {"none", "local", "held", "quic", "freed"}
    /\ key \in {"none", "held", "freed"}
    /\ quic \in {"none", "live", "freed"}
    /\ wakePipe \in {"none", "open", "closed"}

\* The signal handlers are set; nothing is allocated yet.
Init ==
    /\ npc = "autocert"
    /\ who = NoPeer
    /\ resume = "loop"
    /\ tries = 0
    /\ peers = << >>
    /\ mem = [p \in Peers |-> "none"]
    /\ registered = {}
    /\ reader = [p \in Peers |-> "none"]
    /\ outFd = [p \in Peers |-> FALSE]
    /\ pid = [p \in Peers |-> FALSE]
    /\ child = [p \in Peers |-> "none"]
    /\ behaviour \in [Peers -> Behaviours]
    /\ stdoutOpen = [p \in Peers |-> FALSE]
    /\ sigterm = [p \in Peers |-> FALSE]
    /\ inW = [p \in Peers |-> {}]
    /\ cloexec = [p \in Peers |-> FALSE]
    /\ g_should_exit = FALSE
    /\ cert = "none" /\ key = "none"
    /\ quic = "none"
    /\ wakePipe = "none"

-----------------------------------------------------------------------------
(* The first half of wtd_transport_run. *)

Freed(x) == IF x = "none" THEN x ELSE "freed"

BootUnchanged == UNCHANGED <<who, resume, tries, peers, peerVars, childVars, g_should_exit>>

\* --cert=<pem>: picoquic_create will read the files.
CertFromFile ==
    /\ npc = "autocert"
    /\ npc' = "create"
    /\ BootUnchanged /\ UNCHANGED bootVars

\* --cert=auto: wtd_autocert_generate makes the key pair and the certificate
\* and copies the certificate into a buffer of its own.
AutocertCert ==
    /\ npc = "autocert"
    /\ cert' = "local"
    /\ npc' = "autokey"
    /\ BootUnchanged /\ UNCHANGED <<key, quic, wakePipe>>

\* It copies the key too, and the two buffers change hands together.
AutocertKey ==
    /\ npc = "autokey"
    /\ cert' = "held" /\ key' = "held"
    /\ npc' = "create"
    /\ BootUnchanged /\ UNCHANGED <<quic, wakePipe>>

\* It fails at either of them: what it has allocated is freed, the caller gets
\* nothing and returns.
AutocertFails ==
    /\ npc \in {"autocert", "autokey"}
    /\ cert' = Freed(cert)
    /\ npc' = "exited"
    /\ BootUnchanged /\ UNCHANGED <<key, quic, wakePipe>>

CreateQuic ==
    /\ npc = "create"
    /\ quic' = "live"
    /\ npc' = IF cert = "held" THEN "chain" ELSE "pipe"
    /\ BootUnchanged /\ UNCHANGED <<cert, key, wakePipe>>

CreateQuicFails ==
    /\ npc = "create"
    /\ cert' = Freed(cert) /\ key' = Freed(key)
    /\ npc' = "exited"
    /\ BootUnchanged /\ UNCHANGED <<quic, wakePipe>>

\* From here on the certificate belongs to the QUIC context.
InstallChain ==
    /\ npc = "chain"
    /\ cert' = "quic"
    /\ npc' = "key"
    /\ BootUnchanged /\ UNCHANGED <<key, quic, wakePipe>>

\* The chain cannot be allocated: context, certificate and key are freed.
ChainAllocFails ==
    /\ npc = "chain"
    /\ quic' = "freed"
    /\ cert' = Freed(cert) /\ key' = Freed(key)
    /\ npc' = "exited"
    /\ BootUnchanged /\ UNCHANGED wakePipe

\* picoquic_set_tls_key copies the key.
InstallKey ==
    /\ npc = "key"
    /\ key' = "freed"
    /\ npc' = "pipe"
    /\ BootUnchanged /\ UNCHANGED <<cert, quic, wakePipe>>

\* picoquic_free, with which the context's certificate goes.
FreeQuic ==
    /\ quic' = "freed"
    /\ cert' = IF cert = "quic" THEN "freed" ELSE cert

\* Faulty: returns without freeing the key.
InstallKeyFailsLeak ==
    /\ npc = "key"
    /\ FreeQuic
    /\ npc' = "exited"
    /\ BootUnchanged /\ UNCHANGED <<key, wakePipe>>

InstallKeyFails ==
    /\ npc = "key"
    /\ FreeQuic
    /\ key' = "freed"
    /\ npc' = "exited"
    /\ BootUnchanged /\ UNCHANGED wakePipe

\* Without a wake pipe the daemon runs all the same.
OpenWakePipe(opened) ==
    /\ npc = "pipe"
    /\ wakePipe' = IF opened THEN "open" ELSE "none"
    /\ npc' = "loop"
    /\ BootUnchanged /\ UNCHANGED <<cert, key, quic>>

Boot ==
    \/ CertFromFile \/ AutocertCert \/ AutocertKey \/ AutocertFails
    \/ CreateQuic \/ CreateQuicFails
    \/ InstallChain \/ ChainAllocFails
    \/ InstallKey \/ InstallKeyFails
    \/ \E opened \in BOOLEAN : OpenWakePipe(opened)

-----------------------------------------------------------------------------
(* CONNECT: wt_session_cb and peer_create. *)

\* Faulty: the daemon's pipe ends stay inheritable.
NotInherited(p) == FALSE

\* set_cloexec on the parent's ends.
MarkedCloexec(p) == TRUE

\* wtd_child_spawn. The new child inherits every descriptor of the daemon
\* that is not FD_CLOEXEC (its own pipes' parent ends it closes itself); only
\* then the daemon marks its own ends.
Spawn(p) ==
    /\ npc = "loop"
    /\ mem[p] = "none"
    /\ mem' = [mem EXCEPT ![p] = "live"]
    /\ child' = [child EXCEPT ![p] = "running"]
    /\ pid' = [pid EXCEPT ![p] = TRUE]
    /\ stdoutOpen' = [stdoutOpen EXCEPT ![p] = TRUE]
    /\ outFd' = [outFd EXCEPT ![p] = TRUE]
    /\ inW' = [r \in Peers |->
                 IF r = p THEN {"daemon"}
                 ELSE IF "daemon" \in inW[r] /\ ~cloexec[r] THEN inW[r] \cup {p} ELSE inW[r]]
    /\ cloexec' = [cloexec EXCEPT ![p] = MarkedCloexec(p)]
    /\ who' = p
    /\ npc' = "thread"
    /\ UNCHANGED <<resume, tries, peers, registered, reader, behaviour, sigterm, processVars>>

\* pipe() or fork() fails: the peer is freed and CONNECT refused.
SpawnFails(p) ==
    /\ npc = "loop"
    /\ mem[p] = "none"
    /\ mem' = [mem EXCEPT ![p] = "freed"]
    /\ UNCHANGED <<netVars, registered, reader, outFd, pid, childVars, processVars>>

\* wtd_child_output_start, then the peer is linked at the head of the list.
StartReader ==
    /\ npc = "thread"
    /\ reader' = [reader EXCEPT ![who] = "reading"]
    /\ peers' = << who >> \o peers
    /\ npc' = "declare"
    /\ UNCHANGED <<who, resume, tries, mem, registered, outFd, pid, childVars, processVars>>

\* pthread_create fails: wtd_child_terminate, wtd_session_destroy, free.
StartReaderFails ==
    /\ npc = "thread"
    /\ npc' = "closein"
    /\ resume' = "loop"
    /\ UNCHANGED <<who, tries, peers, peerVars, childVars, processVars>>

\* h3zero_declare_stream_prefix, which makes h3zero deregister the peer later.
DeclarePrefix ==
    /\ npc = "declare"
    /\ registered' = registered \cup {who}
    /\ who' = NoPeer
    /\ npc' = "loop"
    /\ UNCHANGED <<resume, tries, peers, mem, reader, outFd, pid, childVars, processVars>>

\* Faulty: the peer stays on the list.
UnlinkedNever(p) == peers

\* The first entry that is p, if there is one.
Unlinked(p) == RemoveFirst(peers, p)

\* The start of peer_remove(p).
BeginRemove(p, back) ==
    /\ who' = p
    /\ peers' = Unlinked(p)
    /\ npc' = "join"
    /\ resume' = back
    /\ UNCHANGED <<tries, mem, reader, outFd, pid, childVars, processVars>>

DeclareFails ==
    /\ npc = "declare"
    /\ BeginRemove(who, "loop")
    /\ UNCHANGED registered

Connect ==
    \/ \E p \in Peers : Spawn(p) \/ SpawnFails(p)
    \/ StartReader \/ StartReaderFails
    \/ DeclarePrefix \/ DeclareFails

-----------------------------------------------------------------------------
(* Events of a live peer. *)

\* post_data or post_datagram: peer_child_write. A pipe whose only reader has
\* died raises SIGPIPE, which nothing in the daemon handles.
PeerData(p) ==
    /\ npc = "loop"
    /\ p \in registered
    /\ "daemon" \in inW[p]
    /\ npc' = IF child[p] = "running" THEN "loop" ELSE "killed"
    /\ UNCHANGED <<who, resume, tries, peers, peerVars, childVars, processVars>>

CloseStdin(p) == inW' = [inW EXCEPT ![p] = @ \ {"daemon"}]

\* post_fin: wtd_session_deliver_fin closes the child's stdin, once.
PeerFin(p) ==
    /\ npc = "loop"
    /\ p \in registered
    /\ "daemon" \in inW[p]
    /\ CloseStdin(p)
    /\ UNCHANGED <<netVars, peerVars, child, behaviour, stdoutOpen, sigterm, cloexec, processVars>>

\* The connection is gone: h3zero deregisters the session.
Deregister(p) ==
    /\ npc = "loop"
    /\ p \in registered
    /\ registered' = registered \ {p}
    /\ BeginRemove(p, "loop")

-----------------------------------------------------------------------------
(* peer_remove(who). *)

\* Faulty: does not wait for the thread.
JoinedAtOnce == TRUE

\* pthread_join returns when the reader has returned.
ReaderHasReturned == reader[who] = "returned"

Join ==
    /\ npc = "join"
    /\ ReaderHasReturned
    /\ reader' = [reader EXCEPT ![who] = IF @ = "returned" THEN "joined" ELSE @]
    /\ npc' = "destroy"
    /\ UNCHANGED <<who, resume, tries, peers, mem, registered, outFd, pid, childVars, processVars>>

\* wtd_session_destroy: the queue and its mutex are gone.
DestroySession ==
    /\ npc = "destroy"
    /\ mem' = [mem EXCEPT ![who] = "closed"]
    /\ npc' = "closein"
    /\ UNCHANGED <<who, resume, tries, peers, registered, reader, outFd, pid, childVars, processVars>>

-----------------------------------------------------------------------------
(* wtd_child_terminate(who). *)

TerminateCloseStdin ==
    /\ npc = "closein"
    /\ CloseStdin(who)
    /\ npc' = "term"
    /\ UNCHANGED <<who, resume, tries, peers, peerVars, child, behaviour, stdoutOpen, sigterm,
                   cloexec, processVars>>

SendSigterm ==
    /\ npc = "term"
    /\ sigterm' = [sigterm EXCEPT ![who] = TRUE]
    /\ tries' = 0
    /\ npc' = "poll"
    /\ UNCHANGED <<who, resume, peers, peerVars, child, behaviour, stdoutOpen, inW, cloexec,
                   processVars>>

\* waitpid(WNOHANG) finds the child dead.
PollReaps ==
    /\ npc = "poll"
    /\ tries < MaxPolls
    /\ child[who] = "dead"
    /\ child' = [child EXCEPT ![who] = "reaped"]
    /\ pid' = [pid EXCEPT ![who] = FALSE]
    /\ npc' = "closeout"
    /\ UNCHANGED <<who, resume, tries, peers, mem, registered, reader, outFd, behaviour,
                   stdoutOpen, sigterm, inW, cloexec, processVars>>

\* Faulty: the turns of the loop are not counted.
PollUncounted ==
    /\ npc = "poll"
    /\ child[who] = "running"
    /\ UNCHANGED vars

\* It does not: sleep 10 ms and look again, or give up being polite.
PollAgain ==
    /\ npc = "poll"
    /\ tries < MaxPolls
    /\ child[who] = "running"
    /\ tries' = tries + 1
    /\ UNCHANGED <<npc, who, resume, peers, peerVars, childVars, processVars>>

\* Faulty: no SIGKILL, the child is left alone.
GraceOverForget ==
    /\ npc = "poll"
    /\ tries = MaxPolls
    /\ npc' = "closeout"
    /\ UNCHANGED <<who, resume, tries, peers, peerVars, childVars, processVars>>

GraceOver ==
    /\ npc = "poll"
    /\ tries = MaxPolls
    /\ npc' = "kill"
    /\ UNCHANGED <<who, resume, tries, peers, peerVars, childVars, processVars>>

\* What the death of child p does in the kernel: its descriptors are closed.
Dies(p) ==
    /\ child' = [child EXCEPT ![p] = "dead"]
    /\ stdoutOpen' = [stdoutOpen EXCEPT ![p] = FALSE]
    /\ inW' = [r \in Peers |-> inW[r] \ {p}]

SendSigkill ==
    /\ npc = "kill"
    /\ IF child[who] = "running" THEN Dies(who) ELSE UNCHANGED <<child, stdoutOpen, inW>>
    /\ npc' = "wait"
    /\ UNCHANGED <<who, resume, tries, peers, peerVars, behaviour, sigterm, cloexec, processVars>>

\* The blocking waitpid. It is called once and its result ignored, so a signal
\* to the daemon (interrupted = TRUE) leaves the zombie behind.
WaitKilled(interrupted) ==
    /\ npc = "wait"
    /\ interrupted => g_should_exit
    /\ child' = [child EXCEPT ![who] = IF interrupted THEN @ ELSE "reaped"]
    /\ pid' = [pid EXCEPT ![who] = FALSE]
    /\ npc' = "closeout"
    /\ UNCHANGED <<who, resume, tries, peers, mem, registered, reader, outFd, behaviour,
                   stdoutOpen, sigterm, inW, cloexec, processVars>>

TerminateCloseOutput ==
    /\ npc = "closeout"
    /\ outFd' = [outFd EXCEPT ![who] = FALSE]
    /\ npc' = "free"
    /\ UNCHANGED <<who, resume, tries, peers, mem, registered, reader, pid, childVars, processVars>>

\* The end of peer_remove, or of a failed peer_create (which destroys the
\* session here): free the datagrams and the peer.
FreePeer ==
    /\ npc = "free"
    /\ mem' = [mem EXCEPT ![who] = "freed"]
    /\ who' = NoPeer
    /\ tries' = 0
    /\ npc' = resume
    /\ UNCHANGED <<resume, peers, registered, reader, outFd, pid, childVars, processVars>>

PeerRemove ==
    \/ Join \/ DestroySession
    \/ TerminateCloseStdin \/ SendSigterm \/ PollReaps \/ PollAgain \/ GraceOver
    \/ SendSigkill \/ (\E interrupted \in BOOLEAN : WaitKilled(interrupted))
    \/ TerminateCloseOutput \/ FreePeer

-----------------------------------------------------------------------------
(* Shutdown: on_sigterm, server_loop_cb, the end of wtd_transport_run. *)

OnSigterm ==
    /\ ~g_should_exit
    /\ npc \notin {"exited", "killed"}
    /\ g_should_exit' = TRUE
    /\ UNCHANGED <<netVars, peerVars, childVars, bootVars>>

\* Faulty: the flag is honoured only when no session is left to pump.
LoopExitWhenIdle ==
    /\ npc = "loop"
    /\ g_should_exit
    /\ peers = << >>
    /\ npc' = "shutdown"
    /\ UNCHANGED <<who, resume, tries, peers, peerVars, childVars, processVars>>

\* The loop callback sees the flag, or the signal interrupts poll.
LoopExit ==
    /\ npc = "loop"
    /\ g_should_exit
    /\ npc' = "shutdown"
    /\ UNCHANGED <<who, resume, tries, peers, peerVars, childVars, processVars>>

\* The packet loop ends by itself: no socket could be opened, or poll failed.
LoopFails ==
    /\ npc = "loop"
    /\ npc' = "shutdown"
    /\ UNCHANGED <<who, resume, tries, peers, peerVars, childVars, processVars>>

\* picoquic_free deletes the connections, each deregistering its sessions.
ShutdownPeer(p) ==
    /\ npc = "shutdown"
    /\ p \in registered
    /\ registered' = registered \ {p}
    /\ BeginRemove(p, "shutdown")

\* The rest of picoquic_free.
ShutdownQuic ==
    /\ npc = "shutdown"
    /\ registered = {}
    /\ FreeQuic
    /\ npc' = "closepipe"
    /\ UNCHANGED <<who, resume, tries, peers, peerVars, childVars, g_should_exit, key, wakePipe>>

\* The wake pipe is closed and main returns.
Exit ==
    /\ npc = "closepipe"
    /\ wakePipe' = IF wakePipe = "open" THEN "closed" ELSE wakePipe
    /\ npc' = "exited"
    /\ UNCHANGED <<who, resume, tries, peers, peerVars, childVars, g_should_exit, cert, key, quic>>

-----------------------------------------------------------------------------
(* Reader threads and children. *)

\* read() returns 0: no process holds the write end of the child's stdout.
ReaderEof(p) ==
    /\ reader[p] = "reading"
    /\ ~stdoutOpen[p]
    /\ reader' = [reader EXCEPT ![p] = "returned"]
    /\ UNCHANGED <<netVars, mem, registered, outFd, pid, childVars, processVars>>

\* A malformed frame, a full buffer or a read error: the reader returns while
\* the child runs on.
ReaderGivesUp(p) ==
    /\ reader[p] = "reading"
    /\ stdoutOpen[p]
    /\ reader' = [reader EXCEPT ![p] = "returned"]
    /\ UNCHANGED <<netVars, mem, registered, outFd, pid, childVars, processVars>>

\* external: a child ends by itself, at SIGTERM, or because its stdin ended
ChildEnds(p) ==
    /\ child[p] = "running"
    /\ \/ behaviour[p] = "exits"
       \/ behaviour[p] = "waits" /\ (sigterm[p] \/ inW[p] = {})
    /\ Dies(p)
    /\ UNCHANGED <<netVars, peerVars, behaviour, sigterm, cloexec, processVars>>

\* external
ChildClosesStdout(p) ==
    /\ child[p] = "running"
    /\ behaviour[p] = "closes"
    /\ stdoutOpen[p]
    /\ stdoutOpen' = [stdoutOpen EXCEPT ![p] = FALSE]
    /\ UNCHANGED <<netVars, peerVars, child, behaviour, sigterm, inW, cloexec, processVars>>

Outside(p) == ReaderEof(p) \/ ReaderGivesUp(p) \/ ChildEnds(p) \/ ChildClosesStdout(p)

\* The process is gone.
Ended == npc \in {"exited", "killed"} /\ UNCHANGED vars

Next ==
    \/ Boot
    \/ Connect
    \/ \E p \in Peers : PeerData(p) \/ PeerFin(p) \/ Deregister(p)
    \/ PeerRemove
    \/ OnSigterm \/ LoopExit \/ LoopFails
    \/ \E p \in Peers : ShutdownPeer(p)
    \/ ShutdownQuic \/ Exit
    \/ \E p \in Peers : Outside(p)
    \/ Ended

Spec == Init /\ [][Next]_vars

\* Fairness: the network thread finishes its set-up and the handler it is in,
\* and leaves its loop after a SIGTERM (poll has a bounded timeout); readers
\* return at EOF; children do what their behaviour says. Nobody has to connect,
\* to send, to disconnect or to send a signal.
Fairness ==
    /\ WF_vars(\/ Boot
               \/ StartReader \/ StartReaderFails \/ DeclarePrefix \/ DeclareFails
               \/ PeerRemove
               \/ LoopExit \/ (\E p \in Peers : ShutdownPeer(p)) \/ ShutdownQuic \/ Exit)
    /\ \A p \in Peers :
          WF_vars(ReaderEof(p)) /\ WF_vars(ChildEnds(p)) /\ WF_vars(ChildClosesStdout(p))

FairSpec == Spec /\ Fairness

-----------------------------------------------------------------------------
(* Properties. *)

\* A reader thread never outlives what it uses: the session it delivers into is
\* destroyed and the peer freed only after the thread has returned, and so is
\* what it wakes the network thread with, the wake pipe and the QUIC context.
ReaderFindsItsState ==
    \A p \in Peers :
        reader[p] = "reading" => mem[p] = "live" /\ wakePipe # "closed" /\ quic = "live"

\* The loop callback pumps every peer on the list: each is allocated, has its
\* session, and is there once.
ListedPeersAreLive ==
    /\ \A i \in 1 .. Len(peers) : mem[peers[i]] = "live"
    /\ \A i, j \in 1 .. Len(peers) : peers[i] = peers[j] => i = j
    /\ \A p \in registered : \E i \in 1 .. Len(peers) : peers[i] = p

\* When the daemon closes a child's stdin the child sees the end of it: no
\* other child holds a copy of the write end.
StdinCloseIsEof == \A p \in Peers : "daemon" \notin inW[p] => inW[p] = {}

\* A freed peer leaves nothing behind: no descriptor, no running child, and no
\* zombie unless SIGTERM interrupted the final wait.
RemovedLeavesNothing ==
    \A p \in Peers :
        mem[p] = "freed" =>
            /\ ~outFd[p] /\ "daemon" \notin inW[p] /\ ~pid[p]
            /\ child[p] \in {"none", "reaped"} \/ (g_should_exit /\ child[p] = "dead")
            /\ reader[p] \in {"none", "joined"}

\* Whatever failed, and however far the set-up had come: when the daemon
\* returns, everything it allocated, opened or started is gone.
ExitLeavesNothing ==
    npc = "exited" =>
        /\ cert \in {"none", "freed"} /\ key \in {"none", "freed"}
        /\ quic # "live" /\ wakePipe # "open"
        /\ peers = << >> /\ \A p \in Peers : mem[p] \in {"none", "freed"}

\* The child's stdout ends sooner or later, whether or not its stdin does.
OutputEnds(p) == behaviour[p] # "waits"

\* A session whose connection is gone is removed, and the network thread is
\* back in its loop for the others, if the child's output ends by itself: also
\* when the child then ignores its end of input and SIGTERM.
RemovalFinishesIfOutputEnds ==
    (npc = "join" /\ OutputEnds(who)) ~> (npc \in {"loop", "shutdown"})

\* After SIGTERM the daemon exits, with every peer removed, if no child keeps
\* its output open for as long as its input is.
ShutdownFinishesIfOutputEnds ==
    (g_should_exit /\ \A p \in Peers : OutputEnds(p)) ~>
        \/ npc = "killed"
        \/ npc = "exited" /\ \A p \in Peers : mem[p] \in {"none", "freed"}

\* child_output.h: the caller of wtd_child_output_stop must first "cause EOF on
\* the fd (typically by terminating the child)". The removal of a peer
\* finishes, whatever its child waits for.
RemovalFinishes == (npc = "join") ~> (npc \in {"loop", "shutdown"})

\* CHANGES: "SIGTERM/SIGINT is the only shutdown path". The daemon does not
\* end because one of its children has.
OnlySigtermEnds == npc # "killed"
=============================================================================
