---------------------------- MODULE DaemonProofs ----------------------------
(***************************************************************************)
(* Proofs about module Daemon, for any number of peers, whatever their     *)
(* children do and whichever step of the set-up fails: a reader thread     *)
(* finds what it uses, the list holds the live peers, closing a child's    *)
(* stdin is an end of input, and removal and exit leave nothing behind.    *)
(***************************************************************************)
EXTENDS Daemon, TLAPS, SequenceTheorems

(* The inductive invariant.                                                *)
(*                                                                         *)
(* The five properties say what holds of a peer that is listed, removed or *)
(* being read for. Each is about one field of a peer at one moment; what   *)
(* carries them from one moment to the next is where the peer is: known to *)
(* h3zero, in the hands of the network thread (who), or neither.           *)

Handling == CreateSteps \cup RemoveSteps

\* The network thread has a peer in its hands while it creates or removes one.
Control == who \in Peers <=> npc \in Handling

\* The set-up and its undoing: who owns the certificate and the key, and for
\* how long there are a QUIC context and a wake pipe.
Server ==
    /\ npc \in {"autocert", "autokey", "create"} => quic = "none"
    /\ npc \in {"chain", "key", "pipe", "loop", "shutdown", "killed"} \cup Handling => quic = "live"
    /\ npc \in {"closepipe", "exited"} => quic # "live"
    /\ npc \in BootSteps => wakePipe = "none"
    /\ npc \in {"loop", "shutdown", "killed"} \cup Handling => wakePipe # "closed"
    /\ npc = "exited" => wakePipe # "open"
    /\ npc = "autocert" => cert = "none" /\ key = "none"
    /\ npc = "autokey" => cert = "local" /\ key = "none"
    /\ npc = "create" => <<cert, key>> \in {<<"none", "none">>, <<"held", "held">>}
    /\ npc = "chain" => cert = "held" /\ key = "held"
    /\ npc = "key" => cert = "quic" /\ key = "held"
    /\ npc \in {"pipe", "loop", "shutdown"} \cup Handling =>
          cert \in {"none", "quic"} /\ key \in {"none", "freed"}
    /\ npc \in {"closepipe", "exited"} => cert \in {"none", "freed"} /\ key \in {"none", "freed"}

\* No entry twice in s, and its entries.
Once(s) == \A i, j \in 1 .. Len(s) : s[i] = s[j] => i = j
Entries(s) == {s[i] : i \in 1 .. Len(s)}

\* The list holds the registered peers and one that is about to be registered.
Listing ==
    /\ Once(peers)
    /\ Entries(peers) = registered \cup (IF npc = "declare" THEN {who} ELSE {})
    /\ npc \in BootSteps \cup {"closepipe", "exited"} => registered = {}
    /\ who \notin registered

\* Every child's stdin is written by the daemon alone.
Alone == \A p \in Peers : inW[p] \subseteq {"daemon"} /\ ("daemon" \in inW[p] => cloexec[p])

\* A child that was started and not waited for.
Started(p) == pid[p] /\ outFd[p] /\ child[p] \in {"running", "dead"}

\* A peer the daemon has nothing of: never opened, refused or removed.
Gone(p) ==
    /\ mem[p] \in {"none", "freed"}
    /\ ~pid[p] /\ ~outFd[p] /\ "daemon" \notin inW[p]
    /\ child[p] \in {"none", "reaped"} \/ (g_should_exit /\ child[p] = "dead")
    /\ reader[p] \in {"none", "joined"} /\ (mem[p] = "none" => reader[p] = "none")

\* The peer in the network thread's hands, step by step.
InHand(p) ==
    /\ npc \in CreateSteps \cup {"join", "destroy"} => mem[p] = "live"
    /\ npc \in RemoveSteps => mem[p] \in {"live", "closed"}
    /\ npc = "thread" => reader[p] = "none"
    /\ npc \in {"declare", "join"} => reader[p] \in {"reading", "returned"}
    /\ npc \in RemoveSteps \ {"join"} => reader[p] \in {"none", "joined"}
    /\ npc \in CreateSteps \cup {"join", "destroy", "closein", "term", "poll", "kill", "wait"} =>
          Started(p)
    /\ npc = "wait" => child[p] = "dead"
    /\ npc \in {"term", "poll", "kill", "wait", "closeout", "free"} => "daemon" \notin inW[p]
    /\ npc \in {"closeout", "free"} =>
          ~pid[p] /\ (child[p] = "reaped" \/ (g_should_exit /\ child[p] = "dead"))
    /\ npc = "free" => ~outFd[p]

Places ==
    \A p \in Peers :
        /\ p \in registered =>
              mem[p] = "live" /\ reader[p] \in {"reading", "returned"} /\ Started(p)
        /\ who = p => InHand(p)
        /\ p # who /\ p \notin registered => Gone(p)

DaemonInv == TypeOK /\ Control /\ Server /\ Listing /\ Alone /\ Places

-----------------------------------------------------------------------------
(* The list. *)

\* A list has a length, and its entries are peers.
LEMMA EntriesOfSeq ==
    ASSUME NEW s \in Seq(Peers)
    PROVE  /\ Len(s) \in Nat /\ (s = << >> <=> Len(s) = 0)
           /\ \A i \in 1 .. Len(s) : s[i] \in Peers /\ s[i] \in Entries(s)
           /\ Entries(s) \subseteq Peers
  <1>1. Len(s) \in Nat /\ (s = << >> <=> Len(s) = 0)
    BY LenProperties, EmptySeq
  <1>2. \A i \in 1 .. Len(s) : s[i] \in Peers
    BY ElementOfSeq
  <1> QED BY <1>1, <1>2 DEF Entries

\* A new peer in front of the list.
LEMMA LinkedInFront ==
    ASSUME NEW s \in Seq(Peers), NEW p \in Peers, Once(s), p \notin Entries(s)
    PROVE  /\ << p >> \o s \in Seq(Peers)
           /\ Once(<< p >> \o s)
           /\ Entries(<< p >> \o s) = Entries(s) \cup {p}
  <1> DEFINE h == << p >>
             t == h \o s
  <1>1. h \in Seq(Peers) /\ Len(h) = 1 /\ h[1] = p
    OBVIOUS
  <1> HIDE DEF h
  <1>2. /\ t \in Seq(Peers) /\ Len(t) = 1 + Len(s)
        /\ \A i \in 1 .. 1 + Len(s) : t[i] = IF i <= 1 THEN h[i] ELSE s[i - 1]
    <2>1. /\ t \in Seq(Peers) /\ Len(t) = Len(h) + Len(s)
          /\ \A i \in 1 .. Len(h) + Len(s) : t[i] = IF i <= Len(h) THEN h[i] ELSE s[i - Len(h)]
      BY <1>1, ConcatProperties
    <2> QED BY <1>1, <2>1, Zenon
  <1>3. Len(s) \in Nat /\ \A i \in 1 .. Len(s) : s[i] \in Entries(s)
    BY EntriesOfSeq
  <1> HIDE DEF t
  <1>4. t[1] = p /\ \A i \in 2 .. Len(t) : i - 1 \in 1 .. Len(s) /\ t[i] = s[i - 1]
    BY <1>1, <1>2, <1>3
  <1>5. Once(t)
    <2> SUFFICES ASSUME NEW i \in 1 .. Len(t), NEW j \in 1 .. Len(t), t[i] = t[j] PROVE i = j
      BY DEF Once
    <2>a. \A k \in 1 .. Len(t) : k # 1 => k \in 2 .. Len(t)
      BY <1>2, <1>3
    <2>b. \A k \in 2 .. Len(t) : t[k] # p
      BY <1>3, <1>4
    <2>1. CASE i = 1 \/ j = 1
      BY <1>4, <2>1, <2>a, <2>b, Zenon
    <2>2. CASE i # 1 /\ j # 1
      <3>1. i \in 2 .. Len(t) /\ j \in 2 .. Len(t)
        BY <1>2, <1>3, <2>2
      <3>2. i - 1 \in 1 .. Len(s) /\ j - 1 \in 1 .. Len(s) /\ s[i - 1] = s[j - 1]
        BY <1>4, <3>1
      <3>3. i - 1 = j - 1
        BY <3>2 DEF Once
      <3> QED BY <3>1, <3>3
    <2> QED BY <2>1, <2>2
  <1>6. Entries(t) = Entries(s) \cup {p}
    <2>1. ASSUME NEW i \in 1 .. Len(t) PROVE t[i] \in Entries(s) \cup {p}
      <3>1. CASE i = 1
        BY <1>4, <3>1, Zenon
      <3>2. CASE i # 1
        <4>1. i \in 2 .. Len(t)
          BY <1>2, <1>3, <3>2
        <4> QED BY <1>3, <1>4, <4>1, Zenon
      <3> QED BY <3>1, <3>2
    <2>2. \A i \in 1 .. Len(s) : s[i] \in Entries(t)
      <3> SUFFICES ASSUME NEW i \in 1 .. Len(s) PROVE s[i] \in Entries(t)
        OBVIOUS
      <3>1. i + 1 \in 1 .. Len(t) /\ t[i + 1] = s[i]
        BY <1>2, <1>3
      <3> QED BY <3>1 DEF Entries
    <2>3. p \in Entries(t)
      <3>1. 1 \in 1 .. Len(t)
        BY <1>2, <1>3
      <3> QED BY <1>4, <3>1 DEF Entries
    <2>4. Entries(t) \subseteq Entries(s) \cup {p}
      BY <2>1 DEF Entries
    <2>5. Entries(s) \subseteq Entries(t)
      BY <2>2 DEF Entries
    <2> QED BY <2>3, <2>4, <2>5
  <1> QED BY <1>2, <1>5, <1>6 DEF t, h

\* A peer taken off the list: the others stay, and it is there no more.
LEMMA TakenOff ==
    ASSUME NEW s \in Seq(Peers), NEW p \in Entries(s), Once(s)
    PROVE  /\ RemoveFirst(s, p) \in Seq(Peers)
           /\ Once(RemoveFirst(s, p))
           /\ Entries(RemoveFirst(s, p)) = Entries(s) \ {p}
  <1>1. PICK k \in 1 .. Len(s) : s[k] = p
    BY DEF Entries
  <1>2. Len(s) \in Nat /\ \A i \in 1 .. Len(s) : s[i] \in Peers /\ s[i] \in Entries(s)
    BY EntriesOfSeq
  <1> DEFINE a == SubSeq(s, 1, k - 1)
             b == SubSeq(s, k + 1, Len(s))
             t == a \o b
  <1>3. RemoveFirst(s, p) = t
    <2>1. {i \in 1 .. Len(s) : s[i] = p} = {k}
      BY <1>1 DEF Once
    <2>2. Min({k}) = k
      BY <1>1 DEF Min
    <2>3. SelectInSeq(s, LAMBDA v : v = p) = k
      BY <2>1, <2>2 DEF SelectInSeq
    <2> QED BY <1>1, <2>3 DEF RemoveFirst, RemoveAt
  <1>4. /\ a \in Seq(Peers) /\ Len(a) = k - 1
        /\ \A i \in 1 .. k - 1 : a[i] = s[i]
    <2>1. \A i \in 1 .. k - 1 : s[i] \in Peers
      BY <1>2
    <2>2. /\ a \in Seq(Peers) /\ Len(a) = IF 1 <= k - 1 THEN k - 1 - 1 + 1 ELSE 0
          /\ \A i \in 1 .. k - 1 - 1 + 1 : a[i] = s[1 + i - 1]
      BY <2>1, SubSeqProperties
    <2> QED BY <1>2, <2>2
  <1>5. /\ b \in Seq(Peers) /\ Len(b) = Len(s) - k
        /\ \A i \in 1 .. Len(s) - k : b[i] = s[k + i]
    <2>1. \A i \in k + 1 .. Len(s) : s[i] \in Peers
      BY <1>2
    <2>2. /\ b \in Seq(Peers) /\ Len(b) = IF k + 1 <= Len(s) THEN Len(s) - (k + 1) + 1 ELSE 0
          /\ \A i \in 1 .. Len(s) - (k + 1) + 1 : b[i] = s[k + 1 + i - 1]
      BY <1>2, <2>1, SubSeqProperties
    <2> QED BY <1>2, <2>2
  <1> HIDE DEF a, b
  <1>6. /\ t \in Seq(Peers) /\ Len(t) = Len(a) + Len(b)
        /\ \A i \in 1 .. Len(a) + Len(b) : t[i] = IF i <= Len(a) THEN a[i] ELSE b[i - Len(a)]
    BY <1>4, <1>5, ConcatProperties
  <1> HIDE DEF t
  <1>7. /\ Len(t) = Len(s) - 1
        /\ \A i \in 1 .. Len(t) : t[i] = IF i < k THEN s[i] ELSE s[i + 1]
    <2>1. Len(t) = Len(s) - 1
      BY <1>2, <1>4, <1>5, <1>6
    <2>2. ASSUME NEW i \in 1 .. Len(t) PROVE t[i] = IF i < k THEN s[i] ELSE s[i + 1]
      <3>1. CASE i < k
        BY <1>2, <1>4, <1>5, <1>6, <2>1, <3>1
      <3>2. CASE ~(i < k)
        <4>1. /\ i - Len(a) \in 1 .. Len(s) - k /\ k + (i - Len(a)) = i + 1
              /\ i \in 1 .. Len(a) + Len(b) /\ ~(i <= Len(a))
          BY <1>2, <1>4, <1>5, <2>1, <3>2
        <4> QED BY <1>5, <1>6, <3>2, <4>1
      <3> QED BY <3>1, <3>2
    <2> QED BY <2>1, <2>2
  <1>8. Once(t)
    BY <1>2, <1>7 DEF Once
  <1>9. Entries(t) = Entries(s) \ {p}
    <2>1. ASSUME NEW i \in 1 .. Len(t) PROVE t[i] \in Entries(s) /\ t[i] # p
      BY <1>1, <1>2, <1>7 DEF Once
    <2>2. ASSUME NEW i \in 1 .. Len(s), s[i] # p PROVE s[i] \in Entries(t)
      <3>1. CASE i < k
        <4>1. i \in 1 .. Len(t) /\ t[i] = s[i]
          BY <1>2, <1>7, <3>1
        <4> QED BY <4>1 DEF Entries
      <3>2. CASE i > k
        <4>1. i - 1 \in 1 .. Len(t) /\ t[i - 1] = s[i]
          BY <1>2, <1>7, <3>2
        <4> QED BY <4>1 DEF Entries
      <3> QED BY <1>1, <2>2, <3>1, <3>2
    <2>3. Entries(t) \subseteq Entries(s) \ {p}
      BY <2>1 DEF Entries
    <2>4. Entries(s) \ {p} \subseteq Entries(t)
      BY <2>2 DEF Entries
    <2> QED BY <2>3, <2>4
  <1> QED BY <1>3, <1>6, <1>8, <1>9

-----------------------------------------------------------------------------
(* Initially. *)

\* A process that has just started satisfies the invariant.
LEMMA DaemonInvInit == Init => DaemonInv
  <1> SUFFICES ASSUME Init PROVE DaemonInv
    OBVIOUS
  <1>1. peers = << >> /\ peers \in Seq(Peers) /\ Len(peers) = 0
    BY EmptySeq, Zenon DEF Init
  <1>2. TypeOK
    <2>1. /\ npc \in BootSteps /\ who \in Peers \cup {NoPeer} /\ resume \in {"loop", "shutdown"}
          /\ registered \subseteq Peers /\ g_should_exit \in BOOLEAN
          /\ cert = "none" /\ key = "none" /\ quic = "none" /\ wakePipe = "none"
          /\ behaviour \in [Peers -> Behaviours]
      BY DEF Init, BootSteps
    <2>2. tries \in 0 .. MaxPolls
      BY MaxPollsAssumption DEF Init
    <2>3. /\ mem \in [Peers -> {"none", "live", "closed", "freed"}]
          /\ reader \in [Peers -> {"none", "reading", "returned", "joined"}]
          /\ child \in [Peers -> {"none", "running", "dead", "reaped"}]
      BY DEF Init
    <2>4. /\ outFd \in [Peers -> BOOLEAN] /\ pid \in [Peers -> BOOLEAN]
          /\ stdoutOpen \in [Peers -> BOOLEAN] /\ sigterm \in [Peers -> BOOLEAN]
          /\ cloexec \in [Peers -> BOOLEAN]
          /\ inW \in [Peers -> SUBSET Holders]
      BY DEF Init
    <2> QED BY <1>1, <2>1, <2>2, <2>3, <2>4 DEF TypeOK
  <1>3. Control /\ Server
    BY PeersAssumption DEF Init, Control, Server, Handling, CreateSteps, RemoveSteps
  <1>4. Listing
    <2>1. Once(peers) /\ Entries(peers) = {}
      BY <1>1 DEF Once, Entries
    <2> QED BY <2>1 DEF Init, Listing
  <1>5. Alone /\ Places
    BY PeersAssumption DEF Init, Alone, Places, Gone
  <1> QED BY <1>2, <1>3, <1>4, <1>5 DEF DaemonInv

-----------------------------------------------------------------------------
(* Steps that leave the list alone. *)

\* Listing survives a step that changes neither the list nor who is registered,
\* unless a peer is in between.
LEMMA ListUntouched ==
    ASSUME Listing, UNCHANGED <<peers, registered>>,
           npc # "declare", npc' # "declare",
           npc' \in BootSteps \cup {"closepipe", "exited"} => registered = {},
           who' \notin registered
    PROVE  Listing'
  <1>1. Once(peers)' /\ Entries(peers)' = Entries(peers)
    BY DEF Listing, Once, Entries
  <1> QED BY <1>1 DEF Listing

\* The set-up, step by step, and each of its failures.
LEMMA BootStep ==
    ASSUME DaemonInv, Boot
    PROVE  DaemonInv'
  <1> USE DEF peerVars, childVars, bootVars, BootUnchanged
  <1>0. TypeOK /\ Control /\ Server /\ Listing /\ Alone /\ Places
    BY DEF DaemonInv
  <1>1. /\ npc \in BootSteps /\ npc' \in BootSteps \cup {"exited", "loop"}
        /\ UNCHANGED <<who, resume, tries, peers, mem, registered, reader, outFd, pid, child,
                       behaviour, stdoutOpen, sigterm, inW, cloexec, g_should_exit>>
    BY DEF Boot, BootSteps, CertFromFile, AutocertCert, AutocertKey, AutocertFails, CreateQuic,
           CreateQuicFails, InstallChain, ChainAllocFails, InstallKey, InstallKeyFails, OpenWakePipe
  <1>2. Server'
    BY <1>0 DEF Boot, BootSteps, CertFromFile, AutocertCert, AutocertKey, AutocertFails, CreateQuic,
           CreateQuicFails, InstallChain, ChainAllocFails, InstallKey, InstallKeyFails, OpenWakePipe,
           Server, Handling, CreateSteps, RemoveSteps, Freed, FreeQuic
  <1>3. /\ cert' \in {"none", "local", "held", "quic", "freed"} /\ key' \in {"none", "held", "freed"}
        /\ quic' \in {"none", "live", "freed"} /\ wakePipe' \in {"none", "open", "closed"}
    BY <1>0 DEF TypeOK, Boot, CertFromFile, AutocertCert, AutocertKey, AutocertFails, CreateQuic,
           CreateQuicFails, InstallChain, ChainAllocFails, InstallKey, InstallKeyFails, OpenWakePipe,
           Freed, FreeQuic
  <1>4. TypeOK'
    BY <1>0, <1>1, <1>3 DEF TypeOK
  <1>5. Control'
    BY <1>0, <1>1 DEF Control, Handling, CreateSteps, RemoveSteps, BootSteps
  <1>6. Listing'
    BY <1>0, <1>1, ListUntouched DEF Listing, BootSteps
  <1>7. Alone' /\ Places'
    <2>1. who \notin Peers
      BY <1>0, <1>1 DEF Control, Handling, CreateSteps, RemoveSteps, BootSteps
    <2> QED BY <1>0, <1>1, <2>1 DEF Alone, Places, Gone, Started
  <1> QED BY <1>2, <1>4, <1>5, <1>6, <1>7 DEF DaemonInv

\* SIGTERM, the loop, and the end of wtd_transport_run.
LEMMA LoopStep ==
    ASSUME DaemonInv,
           OnSigterm \/ LoopExit \/ LoopFails \/ ShutdownQuic \/ Exit \/ \E p \in Peers : PeerData(p)
    PROVE  DaemonInv'
  <1> USE DEF netVars, peerVars, childVars, bootVars, processVars
  <1>0. TypeOK /\ Control /\ Server /\ Listing /\ Alone /\ Places
    BY DEF DaemonInv
  <1>a. UNCHANGED <<who, resume, tries, peers, mem, registered, reader, outFd, pid, child,
                    behaviour, stdoutOpen, sigterm, inW, cloexec>>
    BY DEF OnSigterm, LoopExit, LoopFails, ShutdownQuic, Exit, PeerData
  <1>1. CASE OnSigterm
    <2>1. TypeOK' /\ Control' /\ Server'
      BY <1>0, <1>1 DEF OnSigterm, TypeOK, Control, Server
    <2>2. Listing'
      BY <1>0, <1>1 DEF OnSigterm, Listing, Once, Entries
    <2>3. Alone' /\ Places'
      BY <1>0, <1>1 DEF OnSigterm, Alone, Places, InHand, Gone, Started
    <2> QED BY <2>1, <2>2, <2>3 DEF DaemonInv
  <1>2. CASE LoopExit \/ LoopFails \/ ShutdownQuic \/ Exit \/ \E p \in Peers : PeerData(p)
    <2>1. /\ npc \in {"loop", "shutdown", "closepipe"}
          /\ npc' \in {"loop", "shutdown", "closepipe", "exited", "killed"}
          /\ npc' \in {"closepipe", "exited"} => registered = {}
          /\ UNCHANGED <<g_should_exit, key>>
      BY <1>0, <1>2 DEF LoopExit, LoopFails, ShutdownQuic, Exit, PeerData, Listing, BootSteps
    <2>2. Server'
      BY <1>0, <1>2 DEF LoopExit, LoopFails, ShutdownQuic, Exit, PeerData, Server, FreeQuic,
         Handling, CreateSteps, RemoveSteps, BootSteps
    <2>3. TypeOK'
      <3>1. /\ cert' \in {"none", "local", "held", "quic", "freed"} /\ quic' \in {"none", "live", "freed"}
            /\ wakePipe' \in {"none", "open", "closed"}
        BY <1>0, <1>2 DEF TypeOK, LoopExit, LoopFails, ShutdownQuic, Exit, PeerData, FreeQuic
      <3> QED BY <1>0, <1>a, <2>1, <3>1 DEF TypeOK
    <2>4. who \notin Peers /\ Control'
      BY <1>0, <1>a, <2>1 DEF Control, Handling, CreateSteps, RemoveSteps
    <2>5. Listing'
      <3>1. npc' \notin BootSteps
        BY <2>1 DEF BootSteps
      <3> QED BY <1>0, <1>a, <2>1, <3>1, ListUntouched DEF Listing
    <2>6. Alone' /\ Places'
      BY <1>0, <1>a, <2>1, <2>4 DEF Alone, Places, Gone, Started
    <2> QED BY <2>2, <2>3, <2>4, <2>5, <2>6 DEF DaemonInv
  <1> QED BY <1>1, <1>2

-----------------------------------------------------------------------------
(* CONNECT. *)

\* peer_create up to the child: the other peers' pipes are not inherited.
LEMMA SpawnStep ==
    ASSUME DaemonInv, NEW p \in Peers, Spawn(p) \/ SpawnFails(p)
    PROVE  DaemonInv'
  <1> USE DEF netVars, bootVars, processVars, childVars
  <1>0. TypeOK /\ Control /\ Server /\ Listing /\ Alone /\ Places
    BY DEF DaemonInv
  <1>1. npc = "loop" /\ mem[p] = "none" /\ who \notin Peers
    BY <1>0 DEF Spawn, SpawnFails, Control, Handling, CreateSteps, RemoveSteps
  <1>2. p \notin registered /\ Gone(p)
    BY <1>0, <1>1 DEF Places
  <1>3. CASE Spawn(p)
    <2>1. TypeOK'
      BY <1>0, <1>3, PeersAssumption DEF Spawn, TypeOK, MarkedCloexec, CreateSteps, Holders
    <2>2. Control' /\ Server'
      BY <1>0, <1>3 DEF Spawn, Control, Server, Handling, CreateSteps, RemoveSteps, BootSteps
    <2>3. Listing'
      BY <1>0, <1>2, <1>3, ListUntouched DEF Spawn, BootSteps
    <2>4. Alone'
      BY <1>0, <1>3 DEF Spawn, Alone, TypeOK, MarkedCloexec
    <2>5. Places'
      <3>1. ASSUME NEW r \in Peers, r # p
            PROVE  /\ UNCHANGED <<mem[r], reader[r], pid[r], outFd[r], child[r]>>
                   /\ inW'[r] = inW[r]
        BY <1>0, <1>3, <3>1 DEF Spawn, TypeOK, Alone
      <3>2. InHand(p)'
        BY <1>0, <1>2, <1>3 DEF Spawn, TypeOK, Places, InHand, Gone, Started, CreateSteps, RemoveSteps
      <3> QED BY <1>0, <1>1, <1>2, <1>3, <3>1, <3>2 DEF Spawn, Places, Gone, Started
    <2> QED BY <2>1, <2>2, <2>3, <2>4, <2>5 DEF DaemonInv
  <1>4. CASE SpawnFails(p)
    <2>1. TypeOK' /\ Control' /\ Server' /\ Alone'
      BY <1>0, <1>4 DEF SpawnFails, TypeOK, Control, Server, Alone
    <2>2. Listing'
      BY <1>0, <1>4 DEF SpawnFails, Listing, Once, Entries
    <2>3. Places'
      BY <1>0, <1>1, <1>2, <1>4 DEF SpawnFails, TypeOK, Places, Gone, Started
    <2> QED BY <2>1, <2>2, <2>3 DEF DaemonInv
  <1> QED BY <1>3, <1>4

\* peer_create from the reader thread on, and the declaration of the prefix.
LEMMA StartReaderStep ==
    ASSUME DaemonInv, StartReader \/ StartReaderFails \/ DeclarePrefix
    PROVE  DaemonInv'
  <1> USE DEF netVars, peerVars, childVars, bootVars, processVars
  <1>0. TypeOK /\ Control /\ Server /\ Listing /\ Alone /\ Places
    BY DEF DaemonInv
  <1>1. who \in Peers /\ InHand(who) /\ peers \in Seq(Peers)
    BY <1>0 DEF StartReader, StartReaderFails, DeclarePrefix, Control, Handling, CreateSteps,
                Places, TypeOK
  <1>2. CASE StartReader
    <2>1. Entries(peers) = registered /\ who \notin registered /\ Once(peers)
      BY <1>0, <1>2 DEF StartReader, Listing
    <2>2. peers' \in Seq(Peers) /\ Once(peers') /\ Entries(peers') = registered \cup {who}
      BY <1>1, <1>2, <2>1, LinkedInFront DEF StartReader
    <2>3. TypeOK'
      BY <1>0, <1>1, <1>2, <2>2 DEF StartReader, TypeOK, CreateSteps
    <2>4. Control' /\ Server' /\ Alone'
      BY <1>0, <1>2 DEF StartReader, Control, Server, Alone, Handling, CreateSteps, RemoveSteps, BootSteps
    <2>5. Listing'
      <3>1. Once(peers)' /\ Entries(peers)' = Entries(peers')
        BY <2>2 DEF Once, Entries
      <3> QED BY <1>2, <2>1, <2>2, <3>1 DEF StartReader, Listing, BootSteps
    <2>6. Places'
      <3>1. InHand(who)'
        BY <1>0, <1>1, <1>2 DEF StartReader, TypeOK, InHand, Started, CreateSteps, RemoveSteps
      <3> QED BY <1>0, <1>1, <1>2, <2>1, <3>1 DEF StartReader, TypeOK, Places, Gone, Started
    <2> QED BY <2>3, <2>4, <2>5, <2>6 DEF DaemonInv
  <1>3. CASE StartReaderFails
    <2>1. TypeOK' /\ Control' /\ Server' /\ Alone'
      BY <1>0, <1>3 DEF StartReaderFails, TypeOK, Control, Server, Alone, Handling, CreateSteps,
         RemoveSteps, BootSteps
    <2>2. Listing'
      BY <1>0, <1>3, ListUntouched DEF StartReaderFails, BootSteps, Listing
    <2>3. Places'
      <3>1. InHand(who)'
        BY <1>1, <1>3 DEF StartReaderFails, InHand, Started, CreateSteps, RemoveSteps
      <3> QED BY <1>0, <1>3, <3>1 DEF StartReaderFails, Places, Gone, Started
    <2> QED BY <2>1, <2>2, <2>3 DEF DaemonInv
  <1>4. CASE DeclarePrefix
    <2>1. TypeOK'
      BY <1>0, <1>1, <1>4 DEF DeclarePrefix, TypeOK
    <2>2. Control' /\ Server' /\ Alone'
      BY <1>0, <1>4, PeersAssumption
         DEF DeclarePrefix, Control, Server, Alone, Handling, CreateSteps, RemoveSteps, BootSteps
    <2>3. Listing'
      <3>1. Once(peers)' /\ Entries(peers)' = registered'
        BY <1>0, <1>4 DEF DeclarePrefix, Listing, Once, Entries
      <3>2. NoPeer \notin registered'
        BY <2>1, PeersAssumption DEF TypeOK
      <3> QED BY <1>4, <3>1, <3>2 DEF DeclarePrefix, Listing, BootSteps
    <2>4. Places'
      BY <1>0, <1>1, <1>4, PeersAssumption
         DEF DeclarePrefix, Places, InHand, Gone, Started, CreateSteps
    <2> QED BY <2>1, <2>2, <2>3, <2>4 DEF DaemonInv
  <1> QED BY <1>2, <1>3, <1>4

-----------------------------------------------------------------------------
(* peer_remove. *)

\* The peer leaves the list, whether a connection ends, the daemon does, or
\* h3zero has refused the prefix.
LEMMA BeginRemoveStep ==
    ASSUME DaemonInv,
           \/ DeclareFails
           \/ \E p \in Peers : Deregister(p) \/ ShutdownPeer(p)
    PROVE  DaemonInv'
  <1> USE DEF peerVars, childVars, bootVars, processVars
  <1>0. TypeOK /\ Control /\ Server /\ Listing /\ Alone /\ Places
    BY DEF DaemonInv
  <1>1. PICK p \in Peers :
          /\ who' = p /\ peers' = RemoveFirst(peers, p) /\ npc' = "join"
          /\ resume' \in {"loop", "shutdown"} /\ registered' = registered \ {p}
          /\ UNCHANGED <<tries, mem, reader, outFd, pid, child, behaviour, stdoutOpen, sigterm, inW,
                         cloexec, g_should_exit, cert, key, quic, wakePipe>>
          /\ \/ npc = "declare" /\ who = p
             \/ npc \in {"loop", "shutdown"} /\ p \in registered
    <2>1. CASE DeclareFails
      <3>1. who \in Peers /\ who \notin registered
        BY <1>0, <2>1 DEF DeclareFails, Control, Handling, CreateSteps, Listing
      <3> QED BY <2>1, <3>1 DEF DeclareFails, BeginRemove, Unlinked
    <2>2. CASE \E p \in Peers : Deregister(p) \/ ShutdownPeer(p)
      BY <2>2 DEF Deregister, ShutdownPeer, BeginRemove, Unlinked
    <2> QED BY <2>1, <2>2
  <1>2. peers \in Seq(Peers) /\ Once(peers) /\ p \in Entries(peers)
    BY <1>0, <1>1 DEF TypeOK, Listing
  <1>3. peers' \in Seq(Peers) /\ Once(peers') /\ Entries(peers') = Entries(peers) \ {p}
    BY <1>1, <1>2, TakenOff
  <1>4. Entries(peers') = registered'
    BY <1>0, <1>1, <1>3 DEF Listing
  <1>5. TypeOK'
    BY <1>0, <1>1, <1>3 DEF TypeOK, RemoveSteps
  <1>6. Control' /\ Server' /\ Alone'
    BY <1>0, <1>1 DEF Control, Server, Alone, Handling, CreateSteps, RemoveSteps, BootSteps
  <1>7. Listing'
    <2>1. Once(peers)' /\ Entries(peers)' = registered'
      BY <1>3, <1>4 DEF Once, Entries
    <2> QED BY <1>1, <2>1 DEF Listing, BootSteps
  <1>8. Places'
    <2>1. mem[p] = "live" /\ reader[p] \in {"reading", "returned"} /\ Started(p)
      BY <1>0, <1>1 DEF Places, InHand, CreateSteps
    <2>2. InHand(p)'
      BY <1>1, <2>1 DEF InHand, Started, CreateSteps, RemoveSteps
    <2>3. who # p => who \notin Peers
      BY <1>0, <1>1 DEF Control, Handling, CreateSteps, RemoveSteps
    <2> QED BY <1>0, <1>1, <2>2, <2>3 DEF Places, Gone, Started
  <1> QED BY <1>5, <1>6, <1>7, <1>8 DEF DaemonInv

\* Every step of peer_remove from pthread_join to free.
LEMMA PeerRemoveStep ==
    ASSUME DaemonInv, PeerRemove
    PROVE  DaemonInv'
  <1> USE DEF netVars, peerVars, childVars, bootVars, processVars
  <1>0. TypeOK /\ Control /\ Server /\ Listing /\ Alone /\ Places
    BY DEF DaemonInv
  <1>1. /\ npc \in RemoveSteps /\ npc' \in RemoveSteps \cup {"loop", "shutdown"}
        /\ UNCHANGED <<resume, peers, registered, behaviour, cloexec, g_should_exit,
                       cert, key, quic, wakePipe>>
        /\ who' = IF npc = "free" THEN NoPeer ELSE who
        /\ npc' \in RemoveSteps <=> npc # "free"
    BY <1>0 DEF TypeOK, RemoveSteps, PeerRemove, Join, DestroySession, TerminateCloseStdin,
       SendSigterm, PollReaps, PollAgain, GraceOver, SendSigkill, WaitKilled, TerminateCloseOutput,
       FreePeer
  <1>2. who \in Peers /\ InHand(who) /\ who \notin registered
    BY <1>0, <1>1 DEF Control, Handling, Places, Listing
  <1>3. TypeOK'
    <2>1. CASE Join \/ DestroySession \/ TerminateCloseOutput
      <3>1. /\ reader' \in [Peers -> {"none", "reading", "returned", "joined"}]
            /\ mem' \in [Peers -> {"none", "live", "closed", "freed"}]
            /\ outFd' \in [Peers -> BOOLEAN]
        <4>1. CASE Join
          BY <1>0, <4>1 DEF TypeOK, Join
        <4>2. CASE DestroySession \/ TerminateCloseOutput
          BY <1>0, <4>2 DEF TypeOK, DestroySession, TerminateCloseOutput
        <4> QED BY <2>1, <4>1, <4>2
      <3> QED BY <1>0, <2>1, <3>1 DEF TypeOK, RemoveSteps, Join, DestroySession, TerminateCloseOutput
    <2>6. CASE FreePeer
      BY <1>0, <1>2, <2>6, MaxPollsAssumption DEF TypeOK, FreePeer
    <2>2. CASE TerminateCloseStdin
      BY <1>0, <1>2, <2>2 DEF TypeOK, RemoveSteps, TerminateCloseStdin, CloseStdin
    <2>3. CASE SendSigterm \/ PollReaps \/ GraceOver
      <3>1. /\ child' \in [Peers -> {"none", "running", "dead", "reaped"}]
            /\ sigterm' \in [Peers -> BOOLEAN] /\ pid' \in [Peers -> BOOLEAN]
        BY <1>0, <2>3 DEF TypeOK, SendSigterm, PollReaps, GraceOver
      <3>2. tries' \in 0 .. MaxPolls
        BY <1>0, <2>3, MaxPollsAssumption DEF TypeOK, SendSigterm, PollReaps, GraceOver
      <3> QED BY <1>0, <2>3, <3>1, <3>2 DEF TypeOK, RemoveSteps, SendSigterm, PollReaps, GraceOver
    <2>7. CASE PollAgain
      <3>1. tries' \in 0 .. MaxPolls
        BY <1>0, <2>7, MaxPollsAssumption DEF PollAgain, TypeOK
      <3> QED BY <1>0, <2>7, <3>1 DEF TypeOK, PollAgain
    <2>4. CASE SendSigkill
      <3>1. /\ child' \in [Peers -> {"none", "running", "dead", "reaped"}]
            /\ stdoutOpen' \in [Peers -> BOOLEAN] /\ inW' \in [Peers -> SUBSET Holders]
        <4>1. CASE child[who] = "running"
          <5>1. /\ child' = [child EXCEPT ![who] = "dead"]
                /\ stdoutOpen' = [stdoutOpen EXCEPT ![who] = FALSE]
                /\ inW' = [r \in Peers |-> inW[r] \ {who}]
            BY <2>4, <4>1 DEF SendSigkill, Dies
          <5> QED BY <1>0, <5>1 DEF TypeOK
        <4>2. CASE child[who] # "running"
          BY <1>0, <2>4, <4>2 DEF TypeOK, SendSigkill
        <4> QED BY <4>1, <4>2
      <3> QED BY <1>0, <2>4, <3>1 DEF TypeOK, RemoveSteps, SendSigkill
    <2>5. ASSUME NEW interrupted \in BOOLEAN, WaitKilled(interrupted) PROVE TypeOK'
      BY <1>0, <1>2, <2>5 DEF TypeOK, RemoveSteps, WaitKilled
    <2> QED BY <2>1, <2>2, <2>3, <2>4, <2>5, <2>6, <2>7 DEF PeerRemove
  <1>4. Control' /\ Server'
    BY <1>0, <1>1, <1>2, PeersAssumption
       DEF Control, Server, Handling, CreateSteps, RemoveSteps, BootSteps
  <1>5. Listing'
    <2>1. NoPeer \notin registered
      BY <1>0, PeersAssumption DEF TypeOK
    <2>2. npc # "declare" /\ npc' # "declare" /\ npc' \notin BootSteps \cup {"closepipe", "exited"}
      BY <1>1 DEF RemoveSteps, BootSteps
    <2> QED BY <1>0, <1>1, <1>2, <2>1, <2>2, ListUntouched
  <1>6. /\ \A r \in Peers : r # who =>
             UNCHANGED <<mem[r], reader[r], outFd[r], pid[r], child[r]>>
        /\ \A r \in Peers : inW'[r] \subseteq inW[r] /\ (r # who => inW'[r] = inW[r])
    <2>1. CASE Join \/ DestroySession \/ TerminateCloseOutput \/ FreePeer
      BY <1>0, <1>2, <2>1 DEF TypeOK, Join, DestroySession, TerminateCloseOutput, FreePeer
    <2>2. CASE TerminateCloseStdin
      BY <1>0, <1>2, <2>2 DEF TypeOK, TerminateCloseStdin, CloseStdin
    <2>3. CASE SendSigterm \/ PollReaps \/ PollAgain \/ GraceOver
      BY <1>0, <1>2, <2>3 DEF TypeOK, SendSigterm, PollReaps, PollAgain, GraceOver
    <2>4. CASE SendSigkill
      <3>1. \A r \in Peers : inW[r] \ {who} = inW[r]
        BY <1>0, <1>2, PeersAssumption DEF Alone
      <3>2. CASE child[who] = "running"
        <4>1. /\ child' = [child EXCEPT ![who] = "dead"]
              /\ inW' = [r \in Peers |-> inW[r] \ {who}]
              /\ UNCHANGED <<mem, reader, outFd, pid>>
          BY <2>4, <3>2 DEF SendSigkill, Dies
        <4> QED BY <1>0, <3>1, <4>1 DEF TypeOK
      <3>3. CASE child[who] # "running"
        BY <2>4, <3>3 DEF SendSigkill
      <3> QED BY <3>2, <3>3
    <2>5. ASSUME NEW interrupted \in BOOLEAN, WaitKilled(interrupted)
          PROVE  /\ \A r \in Peers : r # who =>
                      UNCHANGED <<mem[r], reader[r], outFd[r], pid[r], child[r]>>
                 /\ \A r \in Peers : inW'[r] \subseteq inW[r] /\ (r # who => inW'[r] = inW[r])
      BY <1>0, <1>2, <2>5 DEF TypeOK, WaitKilled
    <2> QED BY <2>1, <2>2, <2>3, <2>4, <2>5 DEF PeerRemove
  <1>7. Alone'
    BY <1>0, <1>1, <1>6 DEF Alone
  <1>8. npc # "free" => InHand(who)'
    <2> USE DEF InHand, Started, CreateSteps, RemoveSteps
    <2>1. CASE Join
      BY <1>0, <1>2, <2>1 DEF TypeOK, Join, ReaderHasReturned
    <2>2. CASE DestroySession
      BY <1>0, <1>2, <2>2 DEF TypeOK, DestroySession
    <2>3. CASE TerminateCloseStdin
      BY <1>0, <1>2, <2>3 DEF TypeOK, TerminateCloseStdin, CloseStdin
    <2>4. CASE SendSigterm \/ PollAgain \/ GraceOver
      BY <1>0, <1>2, <2>4 DEF SendSigterm, PollAgain, GraceOver
    <2>5. CASE PollReaps
      BY <1>0, <1>2, <2>5 DEF TypeOK, PollReaps
    <2>6. CASE SendSigkill
      BY <1>0, <1>2, <1>6, <2>6 DEF TypeOK, SendSigkill, Dies
    <2>7. ASSUME NEW interrupted \in BOOLEAN, WaitKilled(interrupted) PROVE InHand(who)'
      BY <1>0, <1>2, <2>7 DEF TypeOK, WaitKilled
    <2>8. CASE TerminateCloseOutput
      BY <1>0, <1>2, <2>8 DEF TypeOK, TerminateCloseOutput
    <2>9. CASE FreePeer
      BY <2>9 DEF FreePeer
    <2> QED BY <2>1, <2>2, <2>3, <2>4, <2>5, <2>6, <2>7, <2>8, <2>9 DEF PeerRemove
  <1>9. ASSUME NEW r \in Peers, r = who, npc = "free" PROVE Gone(r)'
    <2>1. FreePeer
      BY <1>9 DEF PeerRemove, Join, DestroySession, TerminateCloseStdin, SendSigterm, PollReaps,
         PollAgain, GraceOver, SendSigkill, WaitKilled, TerminateCloseOutput
    <2>2. /\ ~pid[r] /\ ~outFd[r] /\ "daemon" \notin inW[r]
          /\ child[r] = "reaped" \/ (g_should_exit /\ child[r] = "dead")
          /\ reader[r] \in {"none", "joined"}
      BY <1>2, <1>9 DEF InHand, RemoveSteps
    <2>3. mem'[r] = "freed" /\ UNCHANGED <<reader, outFd, pid, child, inW, g_should_exit>>
      BY <1>0, <1>9, <2>1 DEF FreePeer, TypeOK
    <2> QED BY <2>2, <2>3 DEF Gone
  <1>10. Places'
    <2> SUFFICES ASSUME NEW r \in Peers
                 PROVE  /\ r \in registered' =>
                              mem'[r] = "live" /\ reader'[r] \in {"reading", "returned"} /\ Started(r)'
                        /\ who' = r => InHand(r)'
                        /\ r # who' /\ r \notin registered' => Gone(r)'
      BY DEF Places
    <2>1. CASE r # who
      <3>1. /\ r \in registered =>
                 mem[r] = "live" /\ reader[r] \in {"reading", "returned"} /\ Started(r)
            /\ r \notin registered => Gone(r)
        BY <1>0, <2>1 DEF Places
      <3>2. /\ mem'[r] = mem[r] /\ reader'[r] = reader[r] /\ outFd'[r] = outFd[r]
            /\ pid'[r] = pid[r] /\ child'[r] = child[r] /\ inW'[r] = inW[r]
            /\ registered' = registered /\ g_should_exit' = g_should_exit /\ who' # r
        BY <1>1, <1>6, <2>1, PeersAssumption
      <3> QED BY <3>1, <3>2 DEF Gone, Started
    <2>2. CASE r = who
      BY <1>1, <1>2, <1>8, <1>9, <2>2, PeersAssumption
    <2> QED BY <2>1, <2>2
  <1> QED BY <1>3, <1>4, <1>5, <1>7, <1>10 DEF DaemonInv

-----------------------------------------------------------------------------
(* Readers, children and the peer's FIN. *)

\* What happens beside the network thread leaves every peer where it is.
LEMMA OutsideStep ==
    ASSUME DaemonInv, NEW p \in Peers, Outside(p) \/ PeerFin(p)
    PROVE  DaemonInv'
  <1> USE DEF netVars, peerVars, childVars, bootVars, processVars
  <1>0. TypeOK /\ Control /\ Server /\ Listing /\ Alone /\ Places
    BY DEF DaemonInv
  <1>1. UNCHANGED <<npc, who, resume, tries, peers, mem, registered, outFd, pid, behaviour, sigterm,
                    cloexec, g_should_exit, cert, key, quic, wakePipe>>
    BY DEF Outside, ReaderEof, ReaderGivesUp, ChildEnds, ChildClosesStdout, PeerFin
  <1>2. /\ \A r \in Peers : reader'[r] # reader[r] => reader[r] = "reading" /\ reader'[r] = "returned"
        /\ \A r \in Peers : child'[r] # child[r] => child[r] = "running" /\ child'[r] = "dead"
        /\ \A r \in Peers : inW'[r] \subseteq inW[r]
        /\ TypeOK'
    <2>1. CASE ReaderEof(p) \/ ReaderGivesUp(p)
      <3>1. reader' \in [Peers -> {"none", "reading", "returned", "joined"}]
        BY <1>0, <2>1 DEF TypeOK, ReaderEof, ReaderGivesUp
      <3> QED BY <1>0, <1>1, <2>1, <3>1 DEF TypeOK, ReaderEof, ReaderGivesUp
    <2>2. CASE ChildEnds(p)
      <3>1. /\ child[p] = "running" /\ child' = [child EXCEPT ![p] = "dead"]
            /\ stdoutOpen' = [stdoutOpen EXCEPT ![p] = FALSE]
            /\ inW' = [r \in Peers |-> inW[r] \ {p}] /\ reader' = reader
        BY <2>2 DEF ChildEnds, Dies
      <3>2. /\ child' \in [Peers -> {"none", "running", "dead", "reaped"}]
            /\ stdoutOpen' \in [Peers -> BOOLEAN] /\ inW' \in [Peers -> SUBSET Holders]
        BY <1>0, <3>1 DEF TypeOK
      <3> QED BY <1>0, <1>1, <3>1, <3>2 DEF TypeOK
    <2>3. CASE ChildClosesStdout(p)
      BY <1>0, <1>1, <2>3 DEF TypeOK, ChildClosesStdout
    <2>4. CASE PeerFin(p)
      <3>1. inW' = [inW EXCEPT ![p] = @ \ {"daemon"}]
            /\ UNCHANGED <<reader, child, stdoutOpen>>
        BY <2>4 DEF PeerFin, CloseStdin
      <3> QED BY <1>0, <1>1, <3>1 DEF TypeOK
    <2> QED BY <2>1, <2>2, <2>3, <2>4 DEF Outside
  <1>3. Control' /\ Server'
    BY <1>0, <1>1 DEF Control, Server
  <1>4. Listing'
    BY <1>0, <1>1 DEF Listing, Once, Entries
  <1>5. Alone'
    BY <1>0, <1>1, <1>2 DEF Alone
  <1>6. Places'
    <2> SUFFICES ASSUME NEW r \in Peers
                 PROVE  /\ r \in registered' =>
                              mem'[r] = "live" /\ reader'[r] \in {"reading", "returned"} /\ Started(r)'
                        /\ who' = r => InHand(r)'
                        /\ r # who' /\ r \notin registered' => Gone(r)'
      BY DEF Places
    <2>1. /\ reader'[r] # reader[r] => reader[r] = "reading" /\ reader'[r] = "returned"
          /\ child'[r] # child[r] => child[r] = "running" /\ child'[r] = "dead"
          /\ "daemon" \notin inW[r] => "daemon" \notin inW'[r]
      BY <1>2
    <2>2. who = r => InHand(r)'
      BY <1>0, <1>1, <2>1 DEF Places, InHand, Started, RemoveSteps, CreateSteps
    <2> QED BY <1>0, <1>1, <2>1, <2>2 DEF Places, Gone, Started
  <1> QED BY <1>2, <1>3, <1>4, <1>5, <1>6 DEF DaemonInv

-----------------------------------------------------------------------------
(* The theorems. *)

\* Every step of the daemon, its reader threads and its children preserves the
\* invariant.
LEMMA DaemonInvStep == DaemonInv /\ [Next]_vars => DaemonInv'
  <1> SUFFICES ASSUME DaemonInv, [Next]_vars PROVE DaemonInv'
    OBVIOUS
  <1>1. CASE Connect
    BY <1>1, SpawnStep, StartReaderStep, BeginRemoveStep DEF Connect
  <1>2. CASE UNCHANGED vars
    <2> USE <1>2 DEF vars, netVars, peerVars, childVars, bootVars, processVars
    <2>1. (TypeOK /\ Control /\ Server)'
      BY DEF DaemonInv, TypeOK, Control, Server
    <2>2. (Listing /\ Alone)'
      BY DEF DaemonInv, Listing, Once, Entries, Alone
    <2>3. Places'
      BY DEF DaemonInv, Places, InHand, Gone, Started
    <2> QED BY <2>1, <2>2, <2>3 DEF DaemonInv
  <1> QED BY <1>1, <1>2, BootStep, LoopStep, BeginRemoveStep, PeerRemoveStep, OutsideStep
          DEF Next, Ended

\* The inductive invariant holds in every reachable state.
THEOREM DaemonInvariant == Spec => []DaemonInv
  BY DaemonInvInit, DaemonInvStep, PTL DEF Spec

\* Every variable of the daemon, its peers and their children stays in its range.
THEOREM TypeCorrect == Spec => []TypeOK
  <1>1. DaemonInv => TypeOK
    BY DEF DaemonInv
  <1> QED BY <1>1, DaemonInvariant, PTL

\* A reader thread reads only while its peer's session, the wake pipe and the QUIC
\* context are there: peer_remove joins it first, and picoquic_free removes every
\* peer before wtd_transport_run closes the wake pipe.
THEOREM ReadersAreSafe == Spec => []ReaderFindsItsState
  <1>1. DaemonInv => ReaderFindsItsState
    <2> SUFFICES ASSUME DaemonInv, NEW p \in Peers, reader[p] = "reading"
                 PROVE  mem[p] = "live" /\ wakePipe # "closed" /\ quic = "live"
      BY DEF ReaderFindsItsState
    <2>1. p \in registered \/ (p = who /\ npc \in Handling)
      BY DEF DaemonInv, Places, Gone, Control
    <2>2. mem[p] = "live"
      BY <2>1 DEF DaemonInv, Places, InHand, Handling, RemoveSteps, CreateSteps
    <2>3. npc \notin BootSteps \cup {"closepipe", "exited"}
      BY <2>1 DEF DaemonInv, Listing, Handling, RemoveSteps, CreateSteps, BootSteps
    <2>4. npc \in {"loop", "shutdown", "killed"} \cup Handling
      BY <2>3 DEF DaemonInv, TypeOK, Handling
    <2>5. wakePipe # "closed" /\ quic = "live"
      BY <2>4 DEF DaemonInv, Server
    <2> QED BY <2>2, <2>5
  <1> QED BY <1>1, DaemonInvariant, PTL

\* The peers the loop callback pumps are allocated, each is pumped once, and every
\* peer that h3zero knows is among them.
THEOREM ListIsLive == Spec => []ListedPeersAreLive
  <1>1. DaemonInv => ListedPeersAreLive
    <2> SUFFICES ASSUME DaemonInv PROVE ListedPeersAreLive
      OBVIOUS
    <2>1. /\ peers \in Seq(Peers) /\ Once(peers)
          /\ Entries(peers) = registered \cup (IF npc = "declare" THEN {who} ELSE {})
          /\ Entries(peers) \subseteq Peers
      BY EntriesOfSeq DEF DaemonInv, TypeOK, Listing
    <2>2. \A p \in Entries(peers) : mem[p] = "live"
      BY <2>1 DEF DaemonInv, Places, InHand, CreateSteps
    <2> QED BY <2>1, <2>2 DEF ListedPeersAreLive, Once, Entries
  <1> QED BY <1>1, DaemonInvariant, PTL

\* However many children run, the daemon's end of a stdin pipe is inherited by none
\* of them, so that closing it is an end of input.
THEOREM ClosingStdinIsEof == Spec => []StdinCloseIsEof
  <1>1. DaemonInv => StdinCloseIsEof
    BY DEF DaemonInv, Alone, StdinCloseIsEof
  <1> QED BY <1>1, DaemonInvariant, PTL

\* A peer that was refused, that failed half-way or that was removed leaves no
\* descriptor, thread or child behind, and a zombie only if SIGTERM came between.
THEOREM RemovalIsComplete == Spec => []RemovedLeavesNothing
  <1>1. DaemonInv => RemovedLeavesNothing
    <2> SUFFICES ASSUME DaemonInv, NEW p \in Peers, mem[p] = "freed" PROVE Gone(p)
      BY DEF RemovedLeavesNothing, Gone
    <2>1. who = p => mem[p] \in {"live", "closed"}
      BY DEF DaemonInv, Control, Handling, Places, InHand, CreateSteps
    <2> QED BY <2>1 DEF DaemonInv, Places
  <1> QED BY <1>1, DaemonInvariant, PTL

\* At whichever step the set-up fails, and in whatever state SIGTERM finds the
\* peers: wtd_transport_run returns with everything freed, once.
THEOREM ExitIsClean == Spec => []ExitLeavesNothing
  <1>1. DaemonInv => ExitLeavesNothing
    <2> SUFFICES ASSUME DaemonInv, npc = "exited"
                 PROVE  /\ cert \in {"none", "freed"} /\ key \in {"none", "freed"}
                        /\ quic # "live" /\ wakePipe # "open"
                        /\ peers = << >> /\ \A p \in Peers : mem[p] \in {"none", "freed"}
      BY DEF ExitLeavesNothing
    <2>1. who \notin Peers /\ registered = {}
      BY DEF DaemonInv, Control, Handling, CreateSteps, RemoveSteps, Listing
    <2>2. peers = << >>
      <3>1. Entries(peers) = {} /\ peers \in Seq(Peers)
        BY <2>1 DEF DaemonInv, Listing, TypeOK
      <3>2. Len(peers) \in Nat /\ (peers = << >> <=> Len(peers) = 0)
            /\ \A i \in 1 .. Len(peers) : peers[i] \in Entries(peers)
        BY <3>1, EntriesOfSeq
      <3> QED BY <3>1, <3>2
    <2>3. \A p \in Peers : mem[p] \in {"none", "freed"}
      BY <2>1 DEF DaemonInv, Places, Gone
    <2> QED BY <2>2, <2>3 DEF DaemonInv, Server
  <1> QED BY <1>1, DaemonInvariant, PTL
=============================================================================
