---------------------------- MODULE ChildProofs ----------------------------
(***************************************************************************)
(* Proofs about what stands between the daemon and a child: the bytes of   *)
(* frames, the child's environment, its command line, the handles of its   *)
(* pipes and the pipes themselves.                                         *)
(*                                                                         *)
(* Win32Child, for any set of children: whatever fails in wtd_child_spawn, *)
(* and however spawns and terminations follow each other, no handle leaks, *)
(* and no child inherits another's pipe but by an end that could not be    *)
(* made uninheritable.                                                     *)
(*                                                                         *)
(* EnvBuild, for lists of any length: the environment is terminated and    *)
(* complete, and no block is lost whichever allocation fails.              *)
(*                                                                         *)
(* FrameWire and VarintWire, for bytes of any size, any payload cap and    *)
(* any number of bytes: the decoder accepts the wire format and nothing    *)
(* else, its verdict is final, and encoding and decoding undo each other.  *)
(*                                                                         *)
(* ChildPipes, for pipes, buffers and frames of any size: a full pipe      *)
(* costs whole frames, never the boundaries between them.                  *)
(*                                                                         *)
(* Cmdline, for arguments of any number and length: a Windows program      *)
(* decodes the command line to them, and --exec is split into its words.   *)
(***************************************************************************)
EXTENDS Win32Child, EnvBuild, FrameWire, VarintWire, ChildPipes, Cmdline, FrameCodecProofs

\* What the daemon holds of the children of S once they have been spawned.
Owned(S) == UNION {ParentEnds(c) \cup {Process(c)} : c \in S}

Spawned == {c \in Children : result[c] = "spawned"}

-----------------------------------------------------------------------------
(* The inductive invariant. *)

WinTypeOK ==
    /\ winPc \in Pipes \cup {"idle", "protect", "build", "start", "wrap", "wait"}
    /\ winPc # "idle" => winChild \in Children
    /\ process \in [Children -> {"none", "running", "ending", "exited"}]
    /\ result \in [Children -> {"none", "failed", "spawned", "terminated"}]
    /\ DOMAIN held = Children

\* The handles of the call in progress: the pipes created so far, and after
\* CreateProcess the parent's ends and the process.
Acquired ==
    CASE winPc = "out" -> Ends(winChild, "in")
      [] winPc = "err" -> Ends(winChild, "in") \cup Ends(winChild, "out")
      [] winPc \in {"protect", "build", "start"} -> AllEnds(winChild)
      [] winPc = "wrap" -> ParentEnds(winChild) \cup {Process(winChild)}
      [] OTHER -> {}

\* A call of wtd_child_spawn is about a child that was never spawned, one of
\* wtd_child_terminate about a child that was, whose stdin it has closed.
HandlesByStep ==
    /\ winPc \in Pipes \cup {"protect", "build", "start", "wrap"} => result[winChild] = "none"
    /\ winPc = "wait" => result[winChild] = "spawned"
    /\ handles = IF winPc = "wait" THEN Owned(Spawned) \ {<<winChild, "in", "wr">>}
                 ELSE Owned(Spawned) \cup Acquired

\* What the call in progress means to pass on: everything it has created, and
\* from SetHandleInformation on the child's ends.
Passed ==
    CASE winPc \in {"out", "err", "protect"} -> Acquired
      [] winPc \in {"build", "start"} -> ChildEnds(winChild)
      [] OTHER -> {}

\* That is inheritable, only between CreatePipe and CreateProcess, and the
\* exposed ends are for as long as they are open.
InheritableByStep == inheritable = Passed \cup (handles \cap exposed)

\* The exposed ends are the daemon's, of children whose spawn came that far.
ExposedByStep ==
    \A x \in exposed : \E c \in Children :
        /\ x \in ParentEnds(c)
        /\ result[c] = "none" => c = winChild /\ winPc \in {"build", "start", "wrap"}

ProcessByStep ==
    \A c \in Children :
       process[c] = "running" => result[c] = "spawned" \/ (winPc = "wrap" /\ c = winChild)

Inheritance == \A c \in Children : held[c] \subseteq ChildEnds(c) \cup exposed

WinIInv ==
    /\ WinTypeOK
    /\ HandlesByStep
    /\ InheritableByStep
    /\ ExposedByStep
    /\ ProcessByStep
    /\ Inheritance

-----------------------------------------------------------------------------
(* The handles of different children are different, so spawning a child and *)
(* giving it up change only its own.                                        *)

\* A handle of a child that is not in S is not among those owned for S.
LEMMA OwnedApart ==
    ASSUME NEW S, NEW c, c \notin S
    PROVE  /\ Owned(S) \cap AllEnds(c) = {}
           /\ Owned(S) \cap ParentEnds(c) = {}
           /\ Owned(S) \cap ChildEnds(c) = {}
           /\ Process(c) \notin Owned(S)
<1>1. \A d : \A x \in ParentEnds(d) \cup {Process(d)} : x[1] = d
  BY DEF ParentEnds, Process
<1>2. \A x \in AllEnds(c) \cup ParentEnds(c) \cup {Process(c)} : x[1] = c
  BY DEF AllEnds, ParentEnds, Process, Ends
<1>3. ChildEnds(c) \subseteq AllEnds(c)
  BY DEF ChildEnds
<1>4. \A x \in Owned(S) : x[1] \in S
  BY <1>1 DEF Owned
<1> QED
  BY <1>2, <1>3, <1>4

\* What OpenDescriptors adds: the ends and the process of one more child.
LEMMA OwnedWith ==
    ASSUME NEW S, NEW c
    PROVE  Owned(S \cup {c}) = Owned(S) \cup ParentEnds(c) \cup {Process(c)}
BY DEF Owned

\* What TerminateEnds takes away.
LEMMA OwnedWithout ==
    ASSUME NEW S, NEW c
    PROVE  Owned(S \ {c}) = Owned(S) \ (ParentEnds(c) \cup {Process(c)})
<1>1. Owned(S) = IF c \in S THEN Owned(S \ {c}) \cup ParentEnds(c) \cup {Process(c)}
                 ELSE Owned(S \ {c})
  <2>1. CASE c \in S
    <3>1. S = (S \ {c}) \cup {c}
      BY <2>1
    <3> QED
      BY <2>1, <3>1, OwnedWith
  <2>2. CASE c \notin S
    <3>1. S = S \ {c}
      BY <2>2
    <3> QED
      BY <2>2, <3>1
  <2> QED
    BY <2>1, <2>2
<1>2. /\ Owned(S \ {c}) \cap ParentEnds(c) = {}
      /\ Process(c) \notin Owned(S \ {c})
  BY OwnedApart
<1> QED
  BY <1>1, <1>2

\* The ends of the pipes, by name.
LEMMA EndsOfPipes ==
    ASSUME NEW c
    PROVE  /\ AllEnds(c) = Ends(c, "in") \cup Ends(c, "out") \cup Ends(c, "err")
           /\ ParentEnds(c) \subseteq AllEnds(c)
           /\ ChildEnds(c) \subseteq AllEnds(c)
           /\ AllEnds(c) \ ParentEnds(c) = ChildEnds(c)
           /\ AllEnds(c) \ ChildEnds(c) = ParentEnds(c)
           /\ <<c, "in", "wr">> \in ParentEnds(c)
           /\ Process(c) \notin AllEnds(c)
<1>1. AllEnds(c) = Ends(c, "in") \cup Ends(c, "out") \cup Ends(c, "err")
  BY DEF AllEnds, Pipes
<1>2. ParentEnds(c) \subseteq AllEnds(c)
  BY <1>1 DEF ParentEnds, Ends
<1>3. Process(c) \notin AllEnds(c)
  BY <1>1 DEF Process, Ends
<1> QED
  BY <1>1, <1>2, <1>3 DEF ChildEnds, ParentEnds

-----------------------------------------------------------------------------
(* Every step preserves the invariant. *)

\* The first call finds nothing open.
LEMMA WinInitially == WinInit => WinIInv
<1> SUFFICES ASSUME WinInit PROVE WinIInv
  OBVIOUS
<1>1. WinTypeOK
  BY DEF WinInit, WinTypeOK
<1>2. Spawned = {}
  BY DEF WinInit, Spawned
<1>3. Owned(Spawned) = {}
  BY <1>2 DEF Owned
<1>4. HandlesByStep
  BY <1>3 DEF WinInit, HandlesByStep, Acquired, Pipes
<1>5. InheritableByStep /\ ExposedByStep
  BY DEF WinInit, InheritableByStep, ExposedByStep, Passed
<1> QED
  BY <1>1, <1>4, <1>5 DEF WinInit, WinIInv, ProcessByStep, Inheritance

\* A step that leaves every result as it is leaves the same children spawned.
LEMMA SameSpawned ==
    ASSUME result' = result
    PROVE  Spawned' = Spawned
BY DEF Spawned

\* An exposed handle is an end of a pipe, and not of one just created.
LEMMA ExposedApart ==
    ASSUME ExposedByStep, NEW c
    PROVE  /\ Process(c) \notin exposed
           /\ result[c] = "none" /\ winPc \notin {"build", "start", "wrap"}
                 => exposed \cap AllEnds(c) = {}
<1>1. \A d : \A x \in ParentEnds(d) : x[1] = d /\ x[2] # "process"
  BY DEF ParentEnds
<1>2. \A x \in AllEnds(c) : x[1] = c
  BY DEF AllEnds, Ends
<1>3. Process(c)[2] = "process"
  BY DEF Process
<1> QED
  BY <1>1, <1>2, <1>3 DEF ExposedByStep

\* wtd_child_spawn and wtd_child_terminate begin for a child that may be
\* spawned, or that is; a child exits.
LEMMA WinCallsBegin ==
    ASSUME WinIInv, NEW c \in Children,
           SpawnBegins(c) \/ TerminateBegins(c) \/ WinChildExits(c)
    PROVE  WinIInv'
<1> USE DEF WinIInv
<1>0. Spawned' = Spawned
  BY SameSpawned DEF SpawnBegins, TerminateBegins, WinChildExits
<1>1. CASE SpawnBegins(c)
  <2>1. WinTypeOK' /\ ProcessByStep' /\ Inheritance' /\ ExposedByStep'
    BY <1>1 DEF SpawnBegins, WinTypeOK, ProcessByStep, Inheritance, ExposedByStep, Pipes
  <2>2. Acquired = {} /\ Acquired' = {} /\ Passed = {} /\ Passed' = {}
    BY <1>1 DEF SpawnBegins, Acquired, Passed
  <2>3. HandlesByStep'
    BY <1>0, <1>1, <2>2 DEF SpawnBegins, HandlesByStep, Pipes
  <2>4. InheritableByStep'
    BY <1>1, <2>2 DEF SpawnBegins, InheritableByStep
  <2> QED
    BY <2>1, <2>3, <2>4
<1>2. CASE TerminateBegins(c)
  <2>1. WinTypeOK' /\ ProcessByStep' /\ Inheritance' /\ ExposedByStep'
    BY <1>2 DEF TerminateBegins, WinTypeOK, ProcessByStep, Inheritance, ExposedByStep, Pipes
  <2>2. Acquired = {} /\ Passed = {} /\ Passed' = {}
    BY <1>2 DEF TerminateBegins, Acquired, Passed
  <2>3. HandlesByStep'
    BY <1>0, <1>2, <2>2 DEF TerminateBegins, HandlesByStep, Pipes
  <2>4. InheritableByStep'
    BY <1>2, <2>2 DEF TerminateBegins, InheritableByStep
  <2> QED
    BY <2>1, <2>3, <2>4
<1>3. CASE WinChildExits(c)
  <2>1. WinTypeOK' /\ ProcessByStep' /\ Inheritance' /\ ExposedByStep'
    BY <1>3 DEF WinChildExits, WinTypeOK, ProcessByStep, Inheritance, ExposedByStep
  <2>2. Acquired' = Acquired
    BY <1>3 DEF WinChildExits, Acquired
  <2>3. Passed' = Passed
    BY <1>3, <2>2 DEF WinChildExits, Passed
  <2>4. HandlesByStep' /\ InheritableByStep'
    BY <1>0, <1>3, <2>2, <2>3 DEF WinChildExits, HandlesByStep, InheritableByStep
  <2> QED
    BY <2>1, <2>4
<1> QED
  BY <1>1, <1>2, <1>3

\* The pipes are created and the parent's ends protected, or some of them not.
LEMMA WinPipes ==
    ASSUME WinIInv, CreatePipe \/ Protect \/ BuildCmdline
    PROVE  WinIInv'
<1> USE DEF WinIInv
<1>0. Spawned' = Spawned
  BY SameSpawned DEF CreatePipe, Protect, BuildCmdline
<1>a. winChild \in Children /\ result[winChild] = "none"
  BY DEF CreatePipe, Protect, BuildCmdline, WinTypeOK, HandlesByStep, Pipes
<1>1. WinTypeOK' /\ ProcessByStep' /\ Inheritance'
  BY DEF CreatePipe, Protect, BuildCmdline, WinTypeOK, ProcessByStep, Inheritance, Pipes
<1>2. CASE CreatePipe
  <2>1. AllEnds(winChild) = Ends(winChild, "in") \cup Ends(winChild, "out")
                               \cup Ends(winChild, "err")
    BY EndsOfPipes
  <2>2. Acquired' = Acquired \cup Ends(winChild, winPc)
    BY <1>2, <2>1 DEF CreatePipe, Acquired, Pipes
  <2>3. HandlesByStep'
    BY <1>0, <1>2, <2>2 DEF CreatePipe, HandlesByStep, Pipes
  <2>4. Passed = Acquired /\ Passed' = Acquired'
    BY <1>2 DEF CreatePipe, Passed, Acquired, Pipes
  <2>5. InheritableByStep'
    BY <1>2, <2>2, <2>4 DEF CreatePipe, InheritableByStep
  <2>6. ExposedByStep'
    BY <1>2 DEF CreatePipe, ExposedByStep, Pipes
  <2> QED
    BY <1>1, <2>3, <2>5, <2>6
<1>3. CASE Protect
  <2>1. PICK failed \in SUBSET ParentEnds(winChild) :
           /\ inheritable' = (inheritable \ ParentEnds(winChild)) \cup failed
           /\ exposed' = exposed \cup failed
    BY <1>3 DEF Protect
  <2>2. Acquired = AllEnds(winChild) /\ Acquired' = AllEnds(winChild)
    BY <1>3 DEF Protect, Acquired
  <2>3. HandlesByStep'
    BY <1>0, <1>3, <2>2 DEF Protect, HandlesByStep, Pipes
  <2>4. Passed = AllEnds(winChild) /\ Passed' = ChildEnds(winChild)
    BY <1>3, <2>2 DEF Protect, Passed
  <2>5. AllEnds(winChild) \subseteq handles /\ handles' = handles
    BY <1>3, <2>2 DEF Protect, HandlesByStep
  <2>6. exposed \cap AllEnds(winChild) = {}
    BY <1>3, <1>a, ExposedApart DEF Protect
  <2>7. InheritableByStep'
    BY <2>1, <2>4, <2>5, <2>6, EndsOfPipes DEF InheritableByStep
  <2>8. ExposedByStep'
    BY <1>3, <1>a, <2>1 DEF Protect, ExposedByStep
  <2> QED
    BY <1>1, <2>3, <2>7, <2>8
<1>4. CASE BuildCmdline
  <2>1. Acquired' = Acquired /\ Passed' = Passed
    BY <1>4 DEF BuildCmdline, Acquired, Passed
  <2>2. HandlesByStep'
    BY <1>0, <1>4, <2>1 DEF BuildCmdline, HandlesByStep, Pipes
  <2>3. InheritableByStep' /\ ExposedByStep'
    BY <1>4, <2>1 DEF BuildCmdline, InheritableByStep, ExposedByStep
  <2> QED
    BY <1>1, <2>2, <2>3
<1> QED
  BY <1>2, <1>3, <1>4

\* wtd_child_spawn fails before there is a process: what is closed is exactly
\* what had been opened.
LEMMA WinSpawnFails ==
    ASSUME WinIInv, SpawnFails
    PROVE  WinIInv'
<1> USE DEF WinIInv
<1>0. winChild \in Children /\ result[winChild] = "none"
  BY DEF SpawnFails, WinTypeOK, HandlesByStep, Pipes
<1>1. WinTypeOK' /\ ProcessByStep' /\ Inheritance' /\ ExposedByStep'
  BY <1>0 DEF SpawnFails, WinTypeOK, ProcessByStep, Inheritance, ExposedByStep, Pipes
<1>2. Spawned' = Spawned /\ winChild \notin Spawned
  BY <1>0 DEF SpawnFails, Spawned, WinTypeOK
<1>3. Owned(Spawned) \cap AllEnds(winChild) = {}
  BY <1>2, OwnedApart
<1>4. Acquired \subseteq AllEnds(winChild) /\ Acquired' = {}
  BY EndsOfPipes DEF SpawnFails, Acquired, Pipes
<1>5. HandlesByStep'
  BY <1>2, <1>3, <1>4 DEF SpawnFails, HandlesByStep, Pipes
<1>6. Passed \subseteq AllEnds(winChild) /\ Passed' = {}
  BY <1>4, EndsOfPipes DEF SpawnFails, Passed, Pipes
<1>7. InheritableByStep'
  BY <1>6 DEF SpawnFails, InheritableByStep
<1> QED
  BY <1>1, <1>5, <1>7

\* CreateProcess: the child inherits its own ends and those that are exposed,
\* and the daemon gives the child's ends up.
LEMMA WinCreateProcess ==
    ASSUME WinIInv, CreateProcess
    PROVE  WinIInv'
<1> USE DEF WinIInv
<1>0. winChild \in Children /\ result[winChild] = "none"
  BY DEF CreateProcess, WinTypeOK, HandlesByStep, Pipes
<1>1. Passed = ChildEnds(winChild) /\ Passed' = {}
  BY DEF CreateProcess, Passed
<1>2. WinTypeOK' /\ ProcessByStep' /\ ExposedByStep'
  BY <1>0 DEF CreateProcess, WinTypeOK, ProcessByStep, ExposedByStep, Pipes
<1>3. Inheritance'
  BY <1>0, <1>1 DEF CreateProcess, WinTypeOK, InheritableByStep, Inheritance
<1>4. Spawned' = Spawned /\ winChild \notin Spawned
  BY <1>0 DEF CreateProcess, Spawned
<1>5. Owned(Spawned) \cap ChildEnds(winChild) = {}
  BY <1>4, OwnedApart
<1>6. /\ Acquired = AllEnds(winChild)
      /\ Acquired' = ParentEnds(winChild) \cup {Process(winChild)}
  BY DEF CreateProcess, Acquired
<1>7. HandlesByStep'
  BY <1>4, <1>5, <1>6, EndsOfPipes DEF CreateProcess, HandlesByStep, Pipes
<1>8. InheritableByStep'
  BY <1>1, ExposedApart DEF CreateProcess, InheritableByStep
<1> QED
  BY <1>2, <1>3, <1>7, <1>8

\* The descriptors are opened, or one is not and the child is told to end; a
\* child is terminated.
LEMMA WinCallsEnd ==
    ASSUME WinIInv, OpenDescriptors \/ OpenDescriptorsFails \/ TerminateEnds
    PROVE  WinIInv'
<1> USE DEF WinIInv
<1>0. winChild \in Children
  BY DEF OpenDescriptors, OpenDescriptorsFails, TerminateEnds, WinTypeOK
<1>1. WinTypeOK' /\ Inheritance'
  BY <1>0 DEF OpenDescriptors, OpenDescriptorsFails, TerminateEnds, WinTypeOK, Inheritance, Pipes
<1>2. ProcessByStep' /\ ExposedByStep'
  BY <1>0 DEF OpenDescriptors, OpenDescriptorsFails, TerminateEnds, WinTypeOK, ProcessByStep,
     ExposedByStep
<1>3. Acquired' = {} /\ Passed = {} /\ Passed' = {}
  BY DEF OpenDescriptors, OpenDescriptorsFails, TerminateEnds, Acquired, Passed
<1>a. InheritableByStep'
  BY <1>3, ExposedApart
     DEF OpenDescriptors, OpenDescriptorsFails, TerminateEnds, InheritableByStep
<1>4. CASE OpenDescriptors
  <2>1. Spawned' = Spawned \cup {winChild}
    BY <1>0, <1>4 DEF OpenDescriptors, Spawned, WinTypeOK
  <2>2. Acquired = ParentEnds(winChild) \cup {Process(winChild)}
    BY <1>4 DEF OpenDescriptors, Acquired
  <2>3. HandlesByStep'
    BY <1>3, <1>4, <2>1, <2>2, OwnedWith DEF OpenDescriptors, HandlesByStep, Pipes
  <2> QED
    BY <1>1, <1>2, <1>a, <2>3
<1>5. CASE OpenDescriptorsFails
  <2>1. Spawned' = Spawned /\ winChild \notin Spawned
    BY <1>0, <1>5 DEF OpenDescriptorsFails, Spawned, WinTypeOK, HandlesByStep, Pipes
  <2>2. Acquired = ParentEnds(winChild) \cup {Process(winChild)}
    BY <1>5 DEF OpenDescriptorsFails, Acquired
  <2>3. Owned(Spawned) \cap Acquired = {}
    BY <2>1, <2>2, OwnedApart
  <2>4. HandlesByStep'
    BY <1>3, <1>5, <2>1, <2>2, <2>3 DEF OpenDescriptorsFails, HandlesByStep, Pipes
  <2> QED
    BY <1>1, <1>2, <1>a, <2>4
<1>6. CASE TerminateEnds
  <2>1. Spawned' = Spawned \ {winChild}
    BY <1>0, <1>6 DEF TerminateEnds, Spawned, WinTypeOK
  <2>2. handles' = Owned(Spawned) \ (ParentEnds(winChild) \cup {Process(winChild)})
    BY <1>6, EndsOfPipes DEF TerminateEnds, HandlesByStep
  <2>3. handles' = Owned(Spawned \ {winChild})
    BY <2>2, OwnedWithout
  <2>4. HandlesByStep'
    BY <1>3, <1>6, <2>1, <2>3 DEF TerminateEnds, HandlesByStep, Pipes
  <2> QED
    BY <1>1, <1>2, <1>a, <2>4
<1> QED
  BY <1>4, <1>5, <1>6

-----------------------------------------------------------------------------
(* The theorems. *)

\* At every step of wtd_child_spawn and wtd_child_terminate the daemon holds
\* the handles that step accounts for, and no others.
THEOREM Win32Invariant == WinSpec => []WinIInv
<1>1. ASSUME WinIInv, [WinNext]_winVars PROVE WinIInv'
  <2>1. CASE WinNext
    BY <1>1, <2>1, WinCallsBegin, WinPipes, WinSpawnFails, WinCreateProcess, WinCallsEnd
       DEF WinNext
  <2>2. CASE UNCHANGED winVars
    <3>0. /\ winPc' = winPc /\ winChild' = winChild /\ handles' = handles
          /\ inheritable' = inheritable /\ held' = held /\ process' = process
          /\ result' = result /\ exposed' = exposed
      BY <2>2 DEF winVars
    <3>1. Spawned' = Spawned /\ Acquired' = Acquired /\ Passed' = Passed
      BY <3>0 DEF Spawned, Acquired, Passed
    <3> QED
      BY <1>1, <3>0, <3>1 DEF WinIInv, WinTypeOK, HandlesByStep, InheritableByStep, ExposedByStep,
         ProcessByStep, Inheritance
  <2> QED
    BY <1>1, <2>1, <2>2
<1> QED
  BY <1>1, WinInitially, PTL DEF WinSpec

\* A child holds the child's ends of its own pipes, and beyond them only ends
\* that SetHandleInformation left inheritable; between two calls of
\* wtd_child_spawn and wtd_child_terminate the daemon holds exactly the handles
\* of the children under it, and only such ends of them can be inherited.
THEOREM HandlesAreBalanced == WinSpec => []Win32HandlesBalanced
<1>1. WinIInv => Win32HandlesBalanced
  <2> SUFFICES ASSUME WinIInv PROVE Win32HandlesBalanced
    OBVIOUS
  <2>1. ASSUME winPc = "idle"
        PROVE  inheritable = handles \cap exposed /\ handles = Owned(Spawned)
    BY <2>1 DEF WinIInv, HandlesByStep, InheritableByStep, Acquired, Passed
  <2> QED
    BY <2>1 DEF WinIInv, Win32HandlesBalanced, Inheritance, ProcessByStep, Owned, Spawned
<1> QED
  BY <1>1, Win32Invariant, PTL

-----------------------------------------------------------------------------
(* wtd_env_build. *)

Entries == HostVars \cup {Fixed[i] : i \in 1 .. 5}

\* The tokens the loop over --passenv has seen.
Seen == Len(names) - Len(passenv)

EnvTypeOK ==
    /\ envPc \in {"calloc", "fixed", "strdup", "pass", "done", "failed"}
    /\ names \in Seq(Token)
    /\ passenv \in Seq(Token)
    /\ envp \in Seq(Entries)
    /\ cap \in Nat
    /\ heap \in Nat

\* strtok_r walks the list from its front.
RestOfList ==
    /\ Len(passenv) <= Len(names)
    /\ \A i \in 1 .. Len(passenv) : passenv[i] = names[Seen + i]

\* The entries so far: some of the fixed ones, then all of them and the
\* variables that are set among the tokens seen.
EntriesSoFar ==
    /\ envPc = "calloc" => envp = << >>
    /\ envPc \in {"calloc", "fixed", "strdup"} =>
          /\ passenv = names
          /\ Len(envp) <= 5
          /\ \A i \in 1 .. Len(envp) : envp[i] = Fixed[i]
    /\ envPc = "strdup" => Len(envp) = 5
    /\ envPc \in {"pass", "done"} => envp = Fixed \o Selected(names)[Seen]
    /\ envPc = "done" => passenv = << >>

\* The array and its entries are allocated, and while the list is walked its
\* copy.
Blocks ==
    heap = IF envPc \in {"calloc", "failed"} THEN 0
           ELSE IF envPc = "pass" THEN Len(envp) + 2
           ELSE Len(envp) + 1

Terminated == envPc \notin {"calloc", "failed"} => Len(envp) < cap

EnvIInv ==
    /\ EnvTypeOK
    /\ RestOfList
    /\ EntriesSoFar
    /\ Blocks
    /\ Terminated

\* Selected is the filter it says it is: it starts with nothing and takes each
\* token that is set.
LEMMA SelectedByToken ==
    ASSUME NEW s \in Seq(Token)
    PROVE  /\ Selected(s) \in [0 .. Len(s) -> Seq(HostVars)]
           /\ Selected(s)[0] = << >>
           /\ \A n \in 1 .. Len(s) :
                 Selected(s)[n] = IF s[n] \in HostVars THEN Append(Selected(s)[n - 1], s[n])
                                  ELSE Selected(s)[n - 1]
<1> DEFINE N == Len(s)
           H == Seq(HostVars)
           step == [p \in H \X (1 .. N) |->
                       IF s[p[2]] \in HostVars THEN Append(p[1], s[p[2]]) ELSE p[1]]
           Sel == Selected(s)
<1>1. N \in Nat
  OBVIOUS
<1>2. << >> \in H
  OBVIOUS
<1>3. \A q \in H : \A var \in HostVars : Append(q, var) \in H
  OBVIOUS
<1> HIDE DEF H, N
<1>4. step \in [H \X (1 .. N) -> H]
  BY <1>3
<1>5. \A q \in H : \A i \in 1 .. N :
         step[<<q, i>>] = IF s[i] \in HostVars THEN Append(q, s[i]) ELSE q
  OBVIOUS
<1> HIDE DEF step
<1>6. PICK f : IsLoop(f, N, H, << >>, step)
  BY <1>1, <1>2, <1>4, LoopExists
<1>7. \A n \in 1 .. N : f[n - 1] \in H
  BY <1>1, <1>6 DEF IsLoop
<1>8. \A n \in 1 .. N : f[n] = IF s[n] \in HostVars THEN Append(f[n - 1], s[n]) ELSE f[n - 1]
  BY <1>5, <1>6, <1>7 DEF IsLoop
<1>9. f = [n \in 0 .. N |->
              IF n = 0 THEN << >>
              ELSE IF s[n] \in HostVars THEN Append(f[n - 1], s[n]) ELSE f[n - 1]]
  <2>1. \A n \in 0 .. N : n = 0 \/ n \in 1 .. N
    BY <1>1
  <2>2. \A n \in 0 .. N : f[n] = IF n = 0 THEN << >>
                      ELSE IF s[n] \in HostVars THEN Append(f[n - 1], s[n]) ELSE f[n - 1]
    BY <1>6, <1>8, <2>1, Zenon DEF IsLoop
  <2> QED
    BY <1>6, <2>2, Zenon DEF IsLoop
<1>10. Sel = [n \in 0 .. N |->
               IF n = 0 THEN << >>
               ELSE IF s[n] \in HostVars THEN Append(Sel[n - 1], s[n]) ELSE Sel[n - 1]]
  BY <1>9, Zenon DEF Selected, N
<1> HIDE DEF Sel
<1>11. /\ Sel[0] = << >>
       /\ \A n \in 1 .. N :
             Sel[n] = IF s[n] \in HostVars THEN Append(Sel[n - 1], s[n]) ELSE Sel[n - 1]
  <2>1. 0 \in 0 .. N /\ \A n \in 1 .. N : n \in 0 .. N /\ n # 0
    BY <1>1
  <2> QED
    BY <1>10, <2>1, Zenon
<1>12. \A n \in 0 .. N : Sel[n] \in H
  <2> DEFINE P == {n \in 0 .. N : Sel[n] \in H}
  <2>1. 0 \in P
    BY <1>1, <1>2, <1>11
  <2>2. \A n \in 1 .. N : n - 1 \in P => n \in P
    BY <1>1, <1>3, <1>11
  <2> HIDE DEF P
  <2>3. 0 .. N \subseteq P
    BY <1>1, <2>1, <2>2, UpTo
  <2> QED
    BY <2>3 DEF P
<1>13. Sel \in [0 .. N -> H]
  BY <1>10, <1>12, Zenon
<1> QED
  BY <1>11, <1>13 DEF Sel, N, H

\* The five fixed entries.
LEMMA FixedEntries ==
    /\ Len(Fixed) = 5
    /\ Fixed \in Seq(Entries)
    /\ \A i \in 1 .. 5 : Fixed[i] \in Entries
<1>1. Len(Fixed) = 5 /\ \A i \in 1 .. 5 : Fixed[i] \in Entries
  BY DEF Fixed, Entries
<1>2. Fixed \in Seq({Fixed[i] : i \in 1 .. 5})
  BY DEF Fixed
<1> QED
  BY <1>1, <1>2 DEF Entries

\* The call begins with nothing allocated.
LEMMA EnvInitially == EnvInit => EnvIInv
<1> SUFFICES ASSUME EnvInit PROVE EnvIInv
  OBVIOUS
<1>1. names \in Seq(Token)
  BY DEF EnvInit, SeqOf
<1>2. << >> \in Seq(Entries)
  OBVIOUS
<1> QED
  BY <1>1, <1>2 DEF EnvInit, EnvIInv, EnvTypeOK, RestOfList, Seen, EntriesSoFar, Blocks, Terminated

\* The array is there, or is not.
LEMMA EnvCalloc ==
    ASSUME EnvIInv, Calloc \/ CallocFails
    PROVE  EnvIInv'
<1>1. Len(Fixed) = 5
  BY FixedEntries
<1>2. RestOfList'
  BY DEF EnvIInv, Calloc, CallocFails, RestOfList, Seen
<1>3. EnvTypeOK'
  BY <1>1 DEF EnvIInv, Calloc, CallocFails, EnvTypeOK
<1> QED
  BY <1>1, <1>2, <1>3 DEF EnvIInv, Calloc, CallocFails, EntriesSoFar, Blocks, Terminated

\* After an append the terminator still has a slot.
LEMMA AppendKeepsRoom ==
    ASSUME NEW count \in Nat, NEW c \in Nat, count < c
    PROVE  Grown(count, c) \in Nat /\ count + 1 < Grown(count, c)
BY DEF Grown

\* A fixed entry is appended.
LEMMA EnvFixed ==
    ASSUME EnvIInv, AppendFixed
    PROVE  EnvIInv'
<1>0. EnvTypeOK /\ RestOfList /\ EntriesSoFar /\ Blocks /\ Terminated
  BY DEF EnvIInv
<1> DEFINE n == Len(envp)
<1>1. n \in 0 .. 4 /\ n < cap /\ heap = n + 1 /\ envPc = "fixed"
  <2>1. n \in Nat
    BY <1>0 DEF EnvTypeOK
  <2>2. n < 5
    BY FixedEntries DEF AppendFixed
  <2>3. n < cap /\ heap = n + 1 /\ envPc = "fixed"
    BY <1>0 DEF AppendFixed, Blocks, Terminated
  <2> HIDE DEF n
  <2> QED
    BY <2>1, <2>2, <2>3
<1>2. Fixed[n + 1] \in Entries
  <2>1. \A i \in 1 .. 5 : Fixed[i] \in Entries
    BY FixedEntries
  <2> HIDE DEF n
  <2>2. n + 1 \in 1 .. 5
    BY <1>1
  <2> QED
    BY <2>1, <2>2, Zenon
<1>3. /\ envp' = Append(envp, Fixed[n + 1]) /\ heap' = heap + 1 /\ cap' = Grown(n, cap)
      /\ UNCHANGED <<envPc, passenv, names>>
  BY DEF AppendFixed, env_append
<1>4. cap' \in Nat /\ n + 1 < cap'
  BY <1>0, <1>1, <1>3, AppendKeepsRoom DEF EnvTypeOK
<1>5. envp' \in Seq(Entries) /\ Len(envp') = n + 1
  BY <1>0, <1>2, <1>3 DEF EnvTypeOK
<1>6. \A i \in 1 .. n + 1 : envp'[i] = Fixed[i]
  BY <1>0, <1>1, <1>2, <1>3 DEF EnvTypeOK, EntriesSoFar
<1> HIDE DEF n
<1>7. EnvTypeOK' /\ RestOfList' /\ Blocks' /\ Terminated'
  BY <1>0, <1>1, <1>3, <1>4, <1>5 DEF EnvTypeOK, RestOfList, Seen, Blocks, Terminated
<1>8. EntriesSoFar'
  BY <1>0, <1>1, <1>3, <1>5, <1>6 DEF EntriesSoFar
<1> QED
  BY <1>7, <1>8 DEF EnvIInv

\* The five fixed entries, and nothing selected yet.
LEMMA AllFixed ==
    ASSUME EnvTypeOK, Len(envp) = 5, \A i \in 1 .. Len(envp) : envp[i] = Fixed[i]
    PROVE  envp = Fixed \o Selected(names)[0]
<1>1. Selected(names)[0] = << >>
  BY SelectedByToken DEF EnvTypeOK
<1>2. envp \in Seq(Entries) /\ Fixed \in Seq(Entries) /\ Len(Fixed) = 5
  BY FixedEntries DEF EnvTypeOK
<1>3. envp = Fixed
  BY <1>2, SeqEqual
<1>4. Fixed \o << >> = Fixed
  BY <1>2, ConcatEmptySeq
<1> QED
  BY <1>1, <1>3, <1>4

\* All fixed entries are there; the list is copied; one of both cannot be had.
LEMMA EnvList ==
    ASSUME EnvIInv, FixedDone \/ Strdup \/ FixedFails
    PROVE  EnvIInv'
<1>0. EnvTypeOK /\ RestOfList /\ EntriesSoFar /\ Blocks /\ Terminated
  BY DEF EnvIInv
<1>1. Len(envp) \in Nat /\ Len(names) \in Nat
  BY <1>0 DEF EnvTypeOK
<1>2. RestOfList'
  BY <1>0 DEF FixedDone, Strdup, FixedFails, RestOfList, Seen
<1>3. heap = Len(envp) + 1 /\ envPc \in {"fixed", "strdup"} /\ passenv = names
  BY <1>0 DEF FixedDone, Strdup, FixedFails, Blocks, EntriesSoFar
<1>4. CASE FixedFails
  <2>1. heap' = 0
    BY <1>1, <1>3, <1>4 DEF FixedFails, wtd_env_free
  <2> QED
    BY <1>0, <1>2, <1>4, <2>1
       DEF FixedFails, EnvIInv, EnvTypeOK, EntriesSoFar, Blocks, Terminated
<1>5. CASE FixedDone \/ Strdup
  <2>1. Len(envp) = 5
    BY <1>0, <1>5, FixedEntries DEF FixedDone, Strdup, EntriesSoFar
  <2>2. envp = Fixed \o Selected(names)[0]
    BY <1>0, <1>3, <2>1, AllFixed DEF EntriesSoFar
  <2>3. Seen' = 0 /\ envp' = envp /\ names' = names /\ passenv' = passenv /\ cap' = cap
    BY <1>1, <1>3, <1>5 DEF FixedDone, Strdup, Seen
  <2>4. /\ envPc' \in {"strdup", "pass", "done"} /\ (envPc' = "done" => passenv = << >>)
        /\ heap' = IF envPc' = "pass" THEN heap + 1 ELSE heap
    BY <1>5 DEF FixedDone, Strdup
  <2>5. EnvTypeOK'
    BY <1>0, <2>3, <2>4 DEF EnvTypeOK
  <2>6. Blocks' /\ Terminated'
    BY <1>0, <1>1, <1>3, <2>3, <2>4 DEF Blocks, Terminated
  <2>7. EntriesSoFar'
    BY <1>0, <1>3, <2>1, <2>2, <2>3, <2>4 DEF EntriesSoFar
  <2> QED
    BY <1>2, <2>5, <2>6, <2>7 DEF EnvIInv
<1> QED
  BY <1>4, <1>5

\* The loop over the tokens of --passenv takes one of them.
LEMMA EnvPassToken ==
    ASSUME EnvIInv, PassToken
    PROVE  EnvIInv'
<1>0. EnvTypeOK /\ RestOfList /\ EntriesSoFar /\ Blocks /\ Terminated
  BY DEF EnvIInv
<1> DEFINE n == Seen
           tok == Head(passenv)
           sel == Selected(names)
<1>1. /\ envPc = "pass" /\ envPc' = "pass" /\ names' = names
      /\ passenv # << >> /\ passenv' = Tail(passenv)
      /\ IF tok \in HostVars
         THEN cap' = Grown(Len(envp), cap) /\ envp' = Append(envp, tok) /\ heap' = heap + 1
         ELSE cap' = cap /\ envp' = envp /\ heap' = heap
  BY DEF PassToken, env_append
<1>2. /\ Len(envp) \in Nat /\ Len(names) \in Nat /\ Len(passenv) \in Nat /\ Len(passenv) > 0
      /\ Len(passenv) <= Len(names)
      /\ passenv' \in Seq(Token) /\ Len(passenv') = Len(passenv) - 1
      /\ tok = passenv[1] /\ \A i \in 1 .. Len(passenv') : passenv'[i] = passenv[i + 1]
  BY <1>0, <1>1 DEF EnvTypeOK, RestOfList
<1>3. n \in Nat /\ n + 1 \in 1 .. Len(names) /\ Seen' = n + 1
  BY <1>1, <1>2 DEF Seen
<1>4. tok = names[n + 1]
  BY <1>0, <1>2 DEF RestOfList
<1>5. RestOfList'
  <2>1. ASSUME NEW i \in 1 .. Len(passenv') PROVE passenv'[i] = names[n + 1 + i]
    <3>1. i + 1 \in 1 .. Len(passenv) /\ n + (i + 1) = n + 1 + i
      BY <1>2, <1>3
    <3>2. passenv[i + 1] = names[n + (i + 1)]
      BY <1>0, <3>1 DEF RestOfList
    <3> HIDE DEF n
    <3> QED
      BY <1>2, <3>1, <3>2
  <2> QED
    BY <1>1, <1>2, <1>3, <2>1 DEF RestOfList
<1>6. /\ sel[n] \in Seq(HostVars)
      /\ sel[n + 1] = IF tok \in HostVars THEN Append(sel[n], tok) ELSE sel[n]
  <2>1. names \in Seq(Token)
    BY <1>0 DEF EnvTypeOK
  <2>2. /\ sel \in [0 .. Len(names) -> Seq(HostVars)]
        /\ \A k \in 1 .. Len(names) :
              sel[k] = IF names[k] \in HostVars THEN Append(sel[k - 1], names[k]) ELSE sel[k - 1]
    BY <2>1, SelectedByToken
  <2>3. n \in 0 .. Len(names) /\ (n + 1) - 1 = n
    BY <1>2, <1>3
  <2> HIDE DEF n, sel, tok
  <2> QED
    BY <1>3, <1>4, <2>2, <2>3
<1>7. envp = Fixed \o sel[n] /\ heap = Len(envp) + 2 /\ Len(envp) < cap
  BY <1>0, <1>1 DEF EntriesSoFar, Blocks, Terminated
<1>8. envp' = Fixed \o sel[n + 1]
  <2> HIDE DEF n, sel, tok
  <2>1. CASE tok \in HostVars
    <3>1. Fixed \in Seq(Entries) /\ sel[n] \in Seq(Entries) /\ tok \in Entries
      BY <1>6, <2>1, FixedEntries DEF Entries
    <3>2. Append(Fixed \o sel[n], tok) = Fixed \o Append(sel[n], tok)
      BY <3>1
    <3> QED
      BY <1>1, <1>6, <1>7, <2>1, <3>2
  <2>2. CASE tok \notin HostVars
    BY <1>1, <1>6, <1>7, <2>2
  <2> QED
    BY <2>1, <2>2
<1>9. envp' \in Seq(Entries) /\ Len(envp') = IF tok \in HostVars THEN Len(envp) + 1 ELSE Len(envp)
  <2>1. envp \in Seq(Entries) /\ HostVars \subseteq Entries
    BY <1>0 DEF EnvTypeOK, Entries
  <2> HIDE DEF tok
  <2>2. CASE tok \in HostVars
    <3>1. envp' = Append(envp, tok) /\ tok \in Entries
      BY <1>1, <2>1, <2>2
    <3> QED
      BY <2>1, <2>2, <3>1
  <2>3. CASE tok \notin HostVars
    BY <1>1, <2>1, <2>3
  <2> QED
    BY <2>2, <2>3
<1>10. cap' \in Nat /\ Len(envp') < cap'
  <2>1. Grown(Len(envp), cap) \in Nat /\ Len(envp) + 1 < Grown(Len(envp), cap) /\ cap \in Nat
    BY <1>0, <1>2, <1>7, AppendKeepsRoom DEF EnvTypeOK
  <2> HIDE DEF tok
  <2> QED
    BY <1>1, <1>7, <1>9, <2>1
<1> HIDE DEF n, sel, tok
<1>11. EnvTypeOK' /\ Blocks' /\ Terminated'
  <2>0. Len(envp) \in Nat /\ heap = Len(envp) + 2
    BY <1>0, <1>7 DEF EnvTypeOK
  <2>a. heap' = Len(envp') + 2 /\ heap' \in Nat
    <3>1. CASE tok \in HostVars
      BY <1>1, <1>9, <2>0, <3>1
    <3>2. CASE tok \notin HostVars
      BY <1>1, <1>9, <2>0, <3>2
    <3> QED
      BY <3>1, <3>2
  <2>1. Blocks' /\ heap' \in Nat
    BY <1>1, <2>a DEF Blocks
  <2>2. EnvTypeOK'
    BY <1>0, <1>1, <1>9, <1>10, <2>1 DEF EnvTypeOK
  <2>3. Terminated'
    BY <1>1, <1>10 DEF Terminated
  <2> QED
    BY <2>1, <2>2, <2>3
<1>12. EntriesSoFar'
  BY <1>1, <1>3, <1>8 DEF EntriesSoFar, sel
<1> QED
  BY <1>5, <1>11, <1>12 DEF EnvIInv

\* The list is walked, or an entry for it cannot be had.
LEMMA EnvPassEnds ==
    ASSUME EnvIInv, PassDone \/ PassFails
    PROVE  EnvIInv'
<1>0. EnvTypeOK /\ RestOfList /\ EntriesSoFar /\ Blocks /\ Terminated
  BY DEF EnvIInv
<1>1. Len(envp) \in Nat /\ heap = Len(envp) + 2
  BY <1>0 DEF PassDone, PassFails, EnvTypeOK, Blocks
<1>2. heap' = IF PassDone THEN Len(envp) + 1 ELSE 0
  BY <1>1 DEF PassDone, PassFails, wtd_env_free
<1>3. Seen' = Seen /\ RestOfList'
  BY <1>0 DEF PassDone, PassFails, Seen, RestOfList
<1>4. CASE PassDone
  BY <1>0, <1>1, <1>2, <1>3, <1>4
     DEF PassDone, EnvIInv, EnvTypeOK, EntriesSoFar, Blocks, Terminated
<1>5. CASE PassFails
  BY <1>0, <1>1, <1>2, <1>3, <1>5
     DEF PassFails, PassDone, EnvIInv, EnvTypeOK, EntriesSoFar, Blocks, Terminated
<1> QED
  BY <1>4, <1>5

\* At every step of wtd_env_build the entries, the free slot and the blocks
\* allocated are what the step accounts for.
THEOREM EnvInvariant == EnvSpec => []EnvIInv
<1>1. ASSUME EnvIInv, [EnvNext]_envVars PROVE EnvIInv'
  <2>1. CASE EnvNext
    BY <1>1, <2>1, EnvCalloc, EnvFixed, EnvList, EnvPassToken, EnvPassEnds DEF EnvNext
  <2>2. CASE UNCHANGED envVars
    BY <1>1, <2>2 DEF envVars, EnvIInv, EnvTypeOK, RestOfList, Seen, EntriesSoFar, Blocks,
       Terminated
  <2> QED
    BY <1>1, <2>1, <2>2
<1> QED
  BY <1>1, EnvInitially, PTL DEF EnvSpec

\* For a list of any length the environment that wtd_env_build returns is
\* complete and terminated, and it leaves nothing else allocated; when it
\* fails it leaves nothing.
THEOREM EnvironmentIsTerminated == EnvSpec => []EnvIsTerminated
<1>1. EnvIInv => EnvIsTerminated
  <2> SUFFICES ASSUME EnvIInv PROVE EnvIsTerminated
    OBVIOUS
  <2>1. envPc = "done" => Seen = Len(names)
    BY DEF EnvIInv, EnvTypeOK, EntriesSoFar, Seen
  <2> QED
    BY <2>1 DEF EnvIInv, EntriesSoFar, Blocks, Terminated, EnvIsTerminated
<1> QED
  BY <1>1, EnvInvariant, PTL

-----------------------------------------------------------------------------
(* The frame decoder on any bytes (FrameWire). *)

WireTypes == received \in Seq(Byte)

\* What arrives is bytes.
LEMMA WireBytes == WireSpec => []WireTypes
<1>1. WireInit => WireTypes
  BY DEF WireInit, WireTypes
<1>2. ASSUME WireTypes, [WireNext]_received PROVE WireTypes'
  <2>1. \A c \in Byte : Append(received, c) \in Seq(Byte)
    BY <1>2, AppendProperties DEF WireTypes
  <2> QED
    BY <1>2, <2>1 DEF WireTypes, WireNext, Receive
<1> QED
  BY <1>1, <1>2, PTL DEF WireSpec

\* A verdict of wtd_frame_decode is final: bytes that arrive later change
\* nothing, so it does not matter how the child's output is cut into reads.
THEOREM VerdictsAreFinal == WireSpec => DecisionIsFinal
<1>1. ASSUME WireTypes, [WireNext]_received
      PROVE  [Decoded.st # INCOMPLETE => wtd_frame_decode(received') = Decoded]_received
  <2>1. SUFFICES ASSUME WireNext, Decoded.st # INCOMPLETE
                 PROVE  wtd_frame_decode(received') = Decoded
    BY <1>1
  <2>0. received \in Seq(Byte)
    BY <1>1 DEF WireTypes
  <2>2. PICK c \in Byte : received' = Append(received, c)
    BY <2>1 DEF WireNext, Receive
  <2>3. << c >> \in Seq(Byte) /\ Append(received, c) = received \o << c >>
    BY <2>0
  <2>4. wtd_frame_decode(received).st # INCOMPLETE
    BY <2>1 DEF Decoded
  <2>5. wtd_frame_decode(received \o << c >>) = wtd_frame_decode(received)
    BY <2>0, <2>3, <2>4, VerdictIsFinal
  <2> QED
    BY <2>2, <2>3, <2>5 DEF Decoded
<1> QED
  BY <1>1, WireBytes, PTL DEF WireSpec, DecisionIsFinal

\* A buffer that begins with a frame, in a form that holds its length, is
\* accepted.
LEMMA FormatIsAccepted ==
    ASSUME received \in Seq(Byte),
           NEW flag \in {RELIABLE, UNRELIABLE}, NEW k \in {1, 2, 4, 8},
           NEW n \in 0 .. MaxPayload, Fits(n, k), Len(received) >= 1 + k + n,
           SubSeq(received, 1, 1 + k + n) = FrameBytes(flag, SubSeq(received, k + 2, 1 + k + n), k)
    PROVE  Decoded.st = OK /\ Decoded.flag = flag /\ Len(Decoded.payload) = n
<1>1. /\ MaxPayload \in Nat /\ k \in Nat /\ k > 0 /\ n \in Nat /\ n <= MaxPayload
      /\ Len(received) \in Nat
  BY CodecAssumption
<1>2. PICK p : p = SubSeq(received, k + 2, 1 + k + n)
  OBVIOUS
<1>3. p \in Seq(Byte) /\ Len(p) = n
  <2>1. k + 2 \in Int /\ 1 + k + n \in Int /\ \A i \in k + 2 .. 1 + k + n : received[i] \in Byte
    BY <1>1
  <2>2. /\ SubSeq(received, k + 2, 1 + k + n) \in Seq(Byte)
        /\ Len(SubSeq(received, k + 2, 1 + k + n)) =
              IF k + 2 <= 1 + k + n THEN (1 + k + n) - (k + 2) + 1 ELSE 0
    BY <2>1, SubSeqProperties
  <2>3. (IF k + 2 <= 1 + k + n THEN (1 + k + n) - (k + 2) + 1 ELSE 0) = n
    BY <1>1
  <2> QED
    BY <1>2, <2>2, <2>3
<1>4. IsFrame(flag, p, k)
  BY <1>1, <1>3 DEF IsFrame, Fits
<1>5. \A j \in 1 .. 1 + k + Len(p) : received[j] = FrameBytes(flag, p, k)[j]
  <2>1. 1 + k + n \in 0 .. Len(received)
    BY <1>1
  <2>2. \A j \in 1 .. 1 + k + n : SubSeq(received, 1, 1 + k + n)[j] = received[j]
    BY <2>1, FirstBytes
  <2>3. SubSeq(received, 1, 1 + k + n) = FrameBytes(flag, p, k)
    BY <1>2
  <2> QED
    BY <1>3, <2>2, <2>3
<1>6. wtd_frame_decode(received) =
         [st |-> OK, consumed |-> 1 + k + Len(p), flag |-> flag, payload |-> p]
  BY <1>3, <1>4, <1>5, WholeFrame
<1> QED
  BY <1>3, <1>6 DEF Decoded

\* The decoder accepts exactly the wire format, in any of the four varint forms,
\* and reports the flag, the payload and the size of the frame it took.
THEOREM ExactlyTheFormat == WireSpec => []AcceptsTheFormat
<1>1. ASSUME received \in Seq(Byte) PROVE AcceptsTheFormat
  <2>1. ASSUME Decoded.st = OK
        PROVE  /\ Decoded.flag \in {RELIABLE, UNRELIABLE}
               /\ Len(Decoded.payload) <= MaxPayload
               /\ \E k \in {1, 2, 4, 8} :
                     /\ Decoded.consumed = 1 + k + Len(Decoded.payload)
                     /\ SubSeq(received, 1, Decoded.consumed) =
                           FrameBytes(Decoded.flag, Decoded.payload, k)
    <3>1. PICK d : d = wtd_frame_decode(received)
      OBVIOUS
    <3>2. Decoded = d /\ d.st = OK
      BY <2>1, <3>1 DEF Decoded
    <3>3. /\ d.consumed = 1 + HeadForm(received) + Len(d.payload)
          /\ SubSeq(received, 1, d.consumed) = FrameBytes(d.flag, d.payload, HeadForm(received))
          /\ d.flag \in {RELIABLE, UNRELIABLE} /\ Len(d.payload) <= MaxPayload
      BY <1>1, <3>1, <3>2, DecodedFrame DEF IsFrame
    <3>4. HeadForm(received) \in {1, 2, 4, 8}
      BY HeadFormIs
    <3> QED
      BY <3>2, <3>3, <3>4
  <2>2. \A flag \in {RELIABLE, UNRELIABLE}, k \in {1, 2, 4, 8}, n \in 0 .. MaxPayload :
           Fits(n, k) /\ Len(received) >= 1 + k + n
              /\ SubSeq(received, 1, 1 + k + n) = FrameBytes(flag, SubSeq(received, k + 2, 1 + k + n), k) =>
           Decoded.st = OK /\ Decoded.flag = flag /\ Len(Decoded.payload) = n
    BY <1>1, FormatIsAccepted
  <2> QED
    BY <2>1, <2>2, Zenon DEF AcceptsTheFormat
<1>2. WireTypes => AcceptsTheFormat
  BY <1>1 DEF WireTypes
<1> QED
  BY <1>2, WireBytes, PTL

\* A decoded frame encoded again is no longer, decodes to the same frame, and
\* fits the payload + 9 bytes that deliver_to_child allocates.
THEOREM ReencodingIsShorter == WireSpec => []ReencodesShorter
<1>1. ASSUME received \in Seq(Byte) PROVE ReencodesShorter
  <2>1. SUFFICES ASSUME Decoded.st = OK
                 PROVE  LET e == wtd_frame_encode(Decoded.flag, Decoded.payload,
                                                  Len(Decoded.payload) + 9)
                            r == wtd_frame_decode(e.bytes)
                        IN  /\ e.st = OK
                            /\ Len(e.bytes) <= Decoded.consumed
                            /\ r.st = OK /\ r.flag = Decoded.flag
                            /\ r.payload = Decoded.payload
                            /\ r.consumed = Len(e.bytes)
    BY DEF ReencodesShorter
  <2>2. PICK d : d = wtd_frame_decode(received)
    OBVIOUS
  <2>3. Decoded = d /\ d.st = OK
    BY <2>1, <2>2 DEF Decoded
  <2>4. PICK flag, p, k : flag = d.flag /\ p = d.payload /\ k = HeadForm(received)
    OBVIOUS
  <2>5. IsFrame(flag, p, k) /\ d.consumed = 1 + k + Len(p)
    BY <1>1, <2>2, <2>3, <2>4, DecodedFrame
  <2>6. PICK s : s = varint_size(Len(p))
    OBVIOUS
  <2>7. /\ wtd_frame_encode(flag, p, Len(p) + 9) = [st |-> OK, bytes |-> FrameBytes(flag, p, s)]
        /\ IsFrame(flag, p, s) /\ s <= k
    BY <2>5, <2>6, EncodesFrame
  <2>8. wtd_frame_decode(FrameBytes(flag, p, s)) =
           [st |-> OK, consumed |-> 1 + s + Len(p), flag |-> flag, payload |-> p]
    BY <2>7, FrameDecodes
  <2>9. Len(FrameBytes(flag, p, s)) = 1 + s + Len(p)
    BY <2>7, FrameBytesAre
  <2>10. s \in Nat /\ k \in Nat /\ Len(p) \in Nat
    BY <2>5, <2>7 DEF IsFrame
  <2>11. 1 + s + Len(p) <= d.consumed
    BY <2>5, <2>7, <2>10
  <2> QED
    BY <2>3, <2>4, <2>7, <2>8, <2>9, <2>11
<1>2. WireTypes => ReencodesShorter
  BY <1>1 DEF WireTypes
<1> QED
  BY <1>2, WireBytes, PTL

-----------------------------------------------------------------------------
(* The length varint (VarintWire). *)

VarintTypes ==
    /\ v \in Nat
    /\ form \in {1, 2, 4, 8}
    /\ v < Limit(form)
    /\ avail \in 0 .. form

\* Every length, in every form that holds it, is understood exactly when its
\* last byte is there, and means that length; the encoder writes the shortest
\* form. The lengths tried are any numbers, the forms any of the four.
THEOREM VarintsRoundTrip ==
    ASSUME Values \subseteq Nat, Forms \subseteq {1, 2, 4, 8}
    PROVE  VarintSpec => []VarintRoundTrip
<1>1. VarintInit => VarintTypes
  BY DEF VarintInit, VarintTypes
<1>2. VarintTypes /\ [VarintNext]_varintVars => VarintTypes'
  BY DEF VarintTypes, VarintNext, ByteArrives, varintVars
<1>3. ASSUME VarintTypes PROVE VarintRoundTrip
  <2>1. /\ v \in Nat /\ form \in {1, 2, 4, 8} /\ form \in Nat /\ form > 0
        /\ v < Limit(form) /\ avail \in 0 .. form
    BY <1>3 DEF VarintTypes
  <2>2. ASSUME NEW k \in {1, 2, 4, 8}, v < Limit(k)
        PROVE  /\ varint_decode(VarintForm(v, k)) = [len |-> k, value |-> v]
               /\ VarintForm(v, k) \in Seq(Byte) /\ Len(VarintForm(v, k)) = k
    <3>1. k \in Nat /\ k > 0
      OBVIOUS
    <3>2. PICK f : f = VarintForm(v, k)
      OBVIOUS
    <3>3. f \in Seq(Byte) /\ Len(f) = k
      BY <2>1, <2>2, <3>1, <3>2, FormBytes
    <3>4. f[1] \div Q = Prefix(k) /\ BigEndian(f, k) = v
      BY <2>1, <2>2, <3>1, <3>2, FormValue
    <3>5. FormLen(f[1] \div Q) = k /\ ~(Len(f) < k)
      BY <3>1, <3>3, <3>4 DEF FormLen, Prefix
    <3>6. varint_decode(f) = [len |-> k, value |-> v]
      BY <3>4, <3>5, Zenon DEF varint_decode
    <3> QED
      BY <3>2, <3>3, <3>6
  <2>3. ASSUME avail > 0
        PROVE  varint_decode(SubSeq(VarintForm(v, form), 1, avail)) =
                  IF avail < form THEN [len |-> 0, value |-> 0] ELSE [len |-> form, value |-> v]
    <3>1. PICK f : f = VarintForm(v, form)
      OBVIOUS
    <3>2. f \in Seq(Byte) /\ Len(f) = form
      BY <2>1, <2>2, <3>1
    <3>3. PICK g : g = SubSeq(f, 1, avail)
      OBVIOUS
    <3>4. g \in Seq(Byte) /\ Len(g) = avail /\ \A i \in 1 .. avail : g[i] = f[i]
      BY <2>1, <3>2, <3>3, FirstBytes
    <3>5. g[1] = f[1]
      BY <2>1, <2>3, <3>4
    <3>6. f[1] \div Q = Prefix(form)
      BY <2>1, <3>1, FormBytes
    <3>7. FormLen(g[1] \div Q) = form
      BY <2>1, <3>5, <3>6 DEF FormLen, Prefix
    <3>8. CASE avail < form
      <4>1. Len(g) < form
        BY <3>4, <3>8
      <4>2. varint_decode(g) = [len |-> 0, value |-> 0]
        BY <3>7, <4>1, Zenon DEF varint_decode
      <4> QED
        BY <3>1, <3>3, <3>8, <4>2
    <3>9. CASE ~(avail < form)
      <4>1. avail = form
        BY <2>1, <3>9
      <4>2. g = f
        BY <3>2, <3>4, <4>1, SeqEqual
      <4> QED
        BY <2>1, <2>2, <3>1, <3>3, <3>9, <4>2
    <3> QED
      BY <3>8, <3>9
  <2>4. PICK s : s = varint_size(v)
    OBVIOUS
  <2>5. PICK e : e = wtd_frame_encode_varint(v)
    OBVIOUS
  <2>6. s \in {1, 2, 4, 8} /\ s <= form /\ v < Limit(s) /\ e = VarintForm(v, s)
    BY <2>1, <2>4, <2>5, ShortestForm
  <2>7. varint_decode(e) = [len |-> s, value |-> v] /\ e \in Seq(Byte) /\ Len(e) = s
    BY <2>2, <2>6
  <2>8. \A i \in 1 .. Len(e) : e[i] < Weight(1)
    <3>1. \A i \in 1 .. Len(e) : e[i] \in Byte
      BY <2>7, ElementOfSeq
    <3> QED
      BY <3>1, ByteSize
  <2> QED
    BY <2>3, <2>4, <2>5, <2>6, <2>7, <2>8 DEF VarintRoundTrip
<1> QED
  BY <1>1, <1>2, <1>3, PTL DEF VarintSpec

-----------------------------------------------------------------------------
(* Sequences of sequences, one behind the other. *)

\* f[i] is what the first i of a sequence of sequences make, one behind the
\* other.
IsFlat(f, ss, X) ==
    /\ f \in [0 .. Len(ss) -> Seq(X)]
    /\ f[0] = << >>
    /\ \A i \in 1 .. Len(ss) : f[i] = f[i - 1] \o ss[i]

\* FlattenSeq is that loop.
LEMMA FlattenLoop ==
    ASSUME NEW X, NEW ss \in Seq(Seq(X))
    PROVE  \E f : IsFlat(f, ss, X) /\ FlattenSeq(ss) = f[Len(ss)]
<1> DEFINE N == Len(ss)
           H == Seq(X)
           step == [p \in H \X (1 .. N) |-> p[1] \o ss[p[2]]]
           IsIt(f) == f = [i \in 1 .. N |-> IF i = 1 THEN ss[i] ELSE f[i - 1] \o ss[i]]
           K == CHOOSE f : IsIt(f)
<1>1. N \in Nat /\ << >> \in H /\ \A i \in 1 .. N : ss[i] \in H
  OBVIOUS
<1>2. \A q, r \in H : q \o r \in H
  OBVIOUS
<1>3. \A r \in H : << >> \o r = r
  OBVIOUS
<1>4. FlattenSeq(ss) = IF N = 0 THEN ss ELSE K[N]
  BY Zenon DEF FlattenSeq
<1>5. N = 0 => ss = << >>
  OBVIOUS
<1> HIDE DEF H, N
<1>6. step \in [H \X (1 .. N) -> H]
  BY <1>1, <1>2
<1>7. \A q \in H : \A i \in 1 .. N : step[<<q, i>>] = q \o ss[i]
  OBVIOUS
<1> HIDE DEF step
<1>8. PICK f : IsLoop(f, N, H, << >>, step)
  BY <1>1, <1>6, LoopExists
<1>9. \A i \in 1 .. N : f[i - 1] \in H
  BY <1>1, <1>8 DEF IsLoop
<1>10. \A i \in 1 .. N : f[i] = f[i - 1] \o ss[i]
  BY <1>7, <1>8, <1>9 DEF IsLoop
<1>a. 1 \in 1 .. N => f[1] = f[0] \o ss[1]
  <2>1. 1 - 1 = 0
    OBVIOUS
  <2> QED
    BY <1>10, <2>1, Zenon
<1>11. IsFlat(f, ss, X)
  BY <1>8, <1>10 DEF IsLoop, IsFlat, N, H
<1>12. CASE N = 0
  BY <1>4, <1>5, <1>8, <1>11, <1>12 DEF IsLoop, N
<1>13. CASE N # 0
  <2> DEFINE g == [i \in 1 .. N |-> f[i]]
  <2>1. IsIt(g)
    <3>1. ASSUME NEW i \in 1 .. N PROVE f[i] = IF i = 1 THEN ss[i] ELSE g[i - 1] \o ss[i]
      <4>1. CASE i = 1
        <5>1. f[1] = f[0] \o ss[1] /\ f[0] = << >>
          BY <1>8, <1>a, <4>1 DEF IsLoop
        <5> QED
          BY <1>1, <1>3, <4>1, <5>1
      <4>2. CASE i # 1
        <5>1. i - 1 \in 1 .. N
          BY <1>1, <4>2
        <5>2. g[i - 1] = f[i - 1]
          BY <5>1
        <5> QED
          BY <1>10, <4>2, <5>2
      <4> QED
        BY <4>1, <4>2
    <3> QED
      BY <3>1
  <2>2. IsIt(K)
    BY <2>1, Zenon
  <2> HIDE DEF K
  <2> DEFINE P == {i \in 0 .. N : i = 0 \/ K[i] = f[i]}
  <2>3. 0 \in P
    BY <1>1
  <2>4. ASSUME NEW i \in 1 .. N, i - 1 \in P PROVE i \in P
    <3>1. K[i] = IF i = 1 THEN ss[i] ELSE K[i - 1] \o ss[i]
      BY <2>2, Zenon
    <3>2. CASE i = 1
      <4>1. f[1] = f[0] \o ss[1] /\ f[0] = << >>
        BY <1>8, <1>a, <3>2 DEF IsLoop
      <4> QED
        BY <1>1, <1>3, <3>1, <3>2, <4>1
    <3>3. CASE i # 1
      <4>1. i - 1 # 0
        BY <3>3
      <4>2. K[i - 1] = f[i - 1]
        BY <2>4, <4>1
      <4>3. K[i] = f[i]
        BY <1>10, <3>1, <3>3, <4>2, Zenon
      <4> QED
        BY <4>3
    <3> QED
      BY <3>2, <3>3
  <2> HIDE DEF P
  <2>5. 0 .. N \subseteq P
    BY <1>1, <2>3, <2>4, UpTo
  <2>6. K[N] = f[N]
    BY <1>1, <1>13, <2>5 DEF P
  <2> QED
    BY <1>4, <1>11, <1>13, <2>6 DEF N
<1> QED
  BY <1>12, <1>13

\* What it makes is a sequence; of none it makes the empty one.
LEMMA FlattenType ==
    ASSUME NEW X, NEW ss \in Seq(Seq(X))
    PROVE  FlattenSeq(ss) \in Seq(X) /\ (ss = << >> => FlattenSeq(ss) = << >>)
<1>1. PICK f : IsFlat(f, ss, X) /\ FlattenSeq(ss) = f[Len(ss)]
  BY FlattenLoop
<1>2. Len(ss) \in Nat /\ Len(ss) \in 0 .. Len(ss) /\ (ss = << >> => Len(ss) = 0)
  OBVIOUS
<1> QED
  BY <1>1, <1>2 DEF IsFlat

\* One sequence more at the end.
LEMMA FlattenAppend ==
    ASSUME NEW X, NEW ss \in Seq(Seq(X)), NEW x \in Seq(X)
    PROVE  FlattenSeq(Append(ss, x)) = FlattenSeq(ss) \o x
<1> DEFINE t == Append(ss, x)
           n == Len(ss)
<1>1. /\ t \in Seq(Seq(X)) /\ Len(t) = n + 1 /\ n \in Nat
      /\ t[n + 1] = x /\ \A i \in 1 .. n : t[i] = ss[i]
  OBVIOUS
<1> HIDE DEF t
<1>2. PICK f : IsFlat(f, ss, X) /\ FlattenSeq(ss) = f[n]
  BY FlattenLoop
<1>3. PICK g : IsFlat(g, t, X) /\ FlattenSeq(t) = g[Len(t)]
  BY <1>1, FlattenLoop
<1> HIDE DEF n
<1> DEFINE P == {i \in 0 .. n : f[i] = g[i]}
<1>4. 0 \in P
  BY <1>1, <1>2, <1>3 DEF IsFlat, n
<1>5. ASSUME NEW i \in 1 .. n, i - 1 \in P PROVE i \in P
  <2>1. f[i] = f[i - 1] \o ss[i]
    BY <1>2 DEF IsFlat, n
  <2>2. i \in 1 .. Len(t)
    BY <1>1
  <2>3. g[i] = g[i - 1] \o t[i]
    BY <1>3, <2>2 DEF IsFlat
  <2>4. t[i] = ss[i] /\ f[i - 1] = g[i - 1] /\ i \in 0 .. n
    BY <1>1, <1>5
  <2>5. f[i] = g[i]
    BY <2>1, <2>3, <2>4, Zenon
  <2> QED
    BY <2>4, <2>5
<1> HIDE DEF P
<1>6. 0 .. n \subseteq P
  BY <1>1, <1>4, <1>5, UpTo
<1>7. f[n] = g[n]
  BY <1>1, <1>6 DEF P
<1>8. n + 1 \in 1 .. Len(t) /\ (n + 1) - 1 = n
  BY <1>1
<1>9. g[n + 1] = g[(n + 1) - 1] \o t[n + 1]
  BY <1>3, <1>8 DEF IsFlat
<1>10. FlattenSeq(t) = FlattenSeq(ss) \o x
  BY <1>1, <1>2, <1>3, <1>7, <1>8, <1>9, Zenon
<1> QED
  BY <1>10 DEF t

\* One sequence more makes the whole longer by it.
LEMMA FlattenGrows ==
    ASSUME NEW X, NEW x \in Seq(Seq(X)), NEW y \in Seq(Seq(X)), Len(y) = Len(x) + 1,
           \A i \in 1 .. Len(x) : y[i] = x[i]
    PROVE  FlattenSeq(y) = FlattenSeq(x) \o y[Len(y)]
<1> DEFINE n == Len(x)
           z == y[Len(y)]
<1>1. n \in Nat /\ Len(y) \in 1 .. Len(y) /\ z \in Seq(X)
  OBVIOUS
<1> HIDE DEF z
<1>2. PICK q : q = Append(x, z)
  OBVIOUS
<1>3. q \in Seq(Seq(X)) /\ Len(q) = n + 1 /\ q[n + 1] = z /\ \A i \in 1 .. n : q[i] = x[i]
  BY <1>1, <1>2, AppendProperties
<1>4. ASSUME NEW i \in 1 .. Len(y) PROVE y[i] = q[i]
  <2>1. i = n + 1 \/ i \in 1 .. n
    BY <1>1
  <2> QED
    BY <1>3, <2>1 DEF z
<1>5. y = q
  BY <1>3, <1>4, SeqEqual
<1>6. FlattenSeq(q) = FlattenSeq(x) \o z
  BY <1>1, <1>2, FlattenAppend
<1> QED
  BY <1>5, <1>6 DEF z

-----------------------------------------------------------------------------
(* ChildPipes: the frames that some bytes complete. *)

\* The bytes of frames.
PipeByte == {b \in [frame : Nat, i : Nat, size : Nat] : 1 <= b.i /\ b.i <= b.size}

EndsFrame(b) == IF b.i = b.size THEN << b.frame >> ELSE << >>

\* Completed looks at the last byte by itself.
LEMMA CompletedOf ==
    ASSUME NEW s \in Seq(PipeByte), NEW b \in PipeByte
    PROVE  /\ Completed(<< >>) = << >>
           /\ Completed(s) \in Seq(Nat)
           /\ Completed(Append(s, b)) = Completed(s) \o EndsFrame(b)
<1> DEFINE C(t) == [i \in 1 .. Len(t) |-> EndsFrame(t[i])]
           t == Append(s, b)
<1>1. \A c \in PipeByte : EndsFrame(c) \in Seq(Nat)
  BY DEF EndsFrame, PipeByte
<1>2. \A u \in Seq(PipeByte) : C(u) \in Seq(Seq(Nat)) /\ Len(C(u)) = Len(u)
                           /\ \A i \in 1 .. Len(u) : C(u)[i] = EndsFrame(u[i])
  <2> SUFFICES ASSUME NEW u \in Seq(PipeByte)
               PROVE  C(u) \in Seq(Seq(Nat)) /\ Len(C(u)) = Len(u)
                      /\ \A i \in 1 .. Len(u) : C(u)[i] = EndsFrame(u[i])
    OBVIOUS
  <2>1. Len(u) \in Nat /\ \A i \in 1 .. Len(u) : u[i] \in PipeByte
    OBVIOUS
  <2> QED
    BY <1>1, <2>1
<1>3. \A u : Completed(u) = FlattenSeq(C(u))
  BY DEF Completed, EndsFrame
<1>4. C(t) = Append(C(s), EndsFrame(b))
  <2>1. /\ t \in Seq(PipeByte) /\ Len(t) = Len(s) + 1 /\ Len(s) \in Nat /\ t[Len(s) + 1] = b
        /\ \A i \in 1 .. Len(s) : t[i] = s[i]
    OBVIOUS
  <2> DEFINE l == C(t)
             m == C(s)
             r == Append(m, EndsFrame(b))
  <2>2. /\ l \in Seq(Seq(Nat)) /\ Len(l) = Len(s) + 1
        /\ \A i \in 1 .. Len(s) + 1 : l[i] = EndsFrame(t[i])
    BY <1>2, <2>1
  <2>3. /\ m \in Seq(Seq(Nat)) /\ Len(m) = Len(s)
        /\ \A i \in 1 .. Len(s) : m[i] = EndsFrame(s[i])
    BY <1>2
  <2> HIDE DEF m, l, t, C
  <2>4. /\ r \in Seq(Seq(Nat)) /\ Len(r) = Len(s) + 1
        /\ \A i \in 1 .. Len(s) : r[i] = m[i]
        /\ r[Len(s) + 1] = EndsFrame(b)
    BY <1>1, <2>3, AppendProperties
  <2> HIDE DEF r
  <2>5. ASSUME NEW i \in 1 .. Len(l) PROVE l[i] = r[i]
    <3>1. i \in 1 .. Len(s) + 1 /\ (i \in 1 .. Len(s) \/ i = Len(s) + 1)
      BY <2>1, <2>2
    <3>2. CASE i \in 1 .. Len(s)
      BY <2>1, <2>2, <2>3, <2>4, <3>1, <3>2, Zenon
    <3>3. CASE i = Len(s) + 1
      BY <2>1, <2>2, <2>4, <3>1, <3>3, Zenon
    <3> QED
      BY <3>1, <3>2, <3>3
  <2>6. l = r
    BY <2>2, <2>4, <2>5, SeqEqual
  <2> QED
    BY <2>6 DEF l, r, m
<1>5. t \in Seq(PipeByte)
  OBVIOUS
<1>6. C(s) \in Seq(Seq(Nat)) /\ EndsFrame(b) \in Seq(Nat)
  BY <1>1, <1>2
<1>7. Completed(<< >>) = << >>
  <2>1. C(<< >>) = << >>
    OBVIOUS
  <2>2. << >> \in Seq(Seq(Nat))
    OBVIOUS
  <2> QED
    BY <1>3, <2>1, <2>2, FlattenType
<1> HIDE DEF C, t
<1>8. Completed(s) \in Seq(Nat)
  BY <1>3, <1>6, FlattenType
<1>9. Completed(t) = Completed(s) \o EndsFrame(b)
  <2>1. FlattenSeq(Append(C(s), EndsFrame(b))) = FlattenSeq(C(s)) \o EndsFrame(b)
    BY <1>6, FlattenAppend
  <2> QED
    BY <1>3, <1>4, <2>1, Zenon
<1> QED
  BY <1>7, <1>8, <1>9 DEF t

\* Three sequences of numbers, one behind the other.
LEMMA NumbersConcat ==
    ASSUME NEW p \in Seq(Nat), NEW q \in Seq(Nat), NEW r \in Seq(Nat)
    PROVE  (p \o q) \o r = p \o (q \o r)
OBVIOUS

\* What two pieces complete, one behind the other.
LEMMA CompletedConcat ==
    ASSUME NEW s \in Seq(PipeByte), NEW t \in Seq(PipeByte)
    PROVE  Completed(s \o t) = Completed(s) \o Completed(t)
<1> DEFINE P == {u \in Seq(PipeByte) : Completed(s \o u) = Completed(s) \o Completed(u)}
<1>0. \E b : b \in PipeByte
  <2>1. [frame |-> 0, i |-> 1, size |-> 1] \in PipeByte
    BY DEF PipeByte
  <2> QED
    BY <2>1
<1>1. << >> \in P
  <2>1. << >> \in Seq(PipeByte) /\ s \o << >> = s
    OBVIOUS
  <2>2. Completed(s) \in Seq(Nat) /\ Completed(<< >>) = << >>
    BY <1>0, CompletedOf
  <2>3. Completed(s) \o << >> = Completed(s)
    BY <2>2, ConcatEmptySeq, Zenon
  <2> QED
    BY <2>1, <2>2, <2>3, Zenon
<1>2. ASSUME NEW u \in Seq(PipeByte), NEW b \in PipeByte, u \in P PROVE Append(u, b) \in P
  <2>1. /\ s \o u \in Seq(PipeByte)
        /\ Append(u, b) \in Seq(PipeByte) /\ s \o Append(u, b) = Append(s \o u, b)
    <3>1. Append(u, b) = u \o << b >> /\ s \o u \in Seq(PipeByte) /\ << b >> \in Seq(PipeByte)
      BY AppendIsConcat
    <3>2. Append(s \o u, b) = (s \o u) \o << b >>
      BY <3>1, AppendIsConcat, Zenon
    <3>3. (s \o u) \o << b >> = s \o (u \o << b >>)
      BY <3>1
    <3>4. Append(u, b) \in Seq(PipeByte)
      OBVIOUS
    <3> QED
      BY <3>1, <3>2, <3>3, <3>4, Zenon
  <2>2. Completed(Append(s \o u, b)) = Completed(s \o u) \o EndsFrame(b)
    BY <2>1, CompletedOf, Zenon
  <2>3. Completed(Append(u, b)) = Completed(u) \o EndsFrame(b)
    BY CompletedOf, Zenon
  <2>4. Completed(s) \in Seq(Nat) /\ Completed(u) \in Seq(Nat) /\ EndsFrame(b) \in Seq(Nat)
    <3>1. EndsFrame(b) \in Seq(Nat)
      BY DEF EndsFrame, PipeByte
    <3> QED
      BY <3>1, CompletedOf, Zenon
  <2>5. (Completed(s) \o Completed(u)) \o EndsFrame(b)
           = Completed(s) \o (Completed(u) \o EndsFrame(b))
    BY <2>4, NumbersConcat
  <2>6. Completed(s \o u) = Completed(s) \o Completed(u)
    BY <1>2
  <2>7. Completed(s \o Append(u, b)) = Completed(s) \o Completed(Append(u, b))
    BY <2>1, <2>2, <2>3, <2>5, <2>6, Zenon
  <2> QED
    BY <2>1, <2>7
<1> HIDE DEF P
<1>3. Seq(PipeByte) \subseteq P
  BY <1>1, <1>2, SeqInduction
<1> QED
  BY <1>3 DEF P

\* A frame completes itself, and nothing before its last byte.
LEMMA CompletedFrame ==
    ASSUME NEW n \in Nat, NEW size \in Nat, size > 0
    PROVE  FrameOf(n, size) \in Seq(PipeByte) /\ Completed(FrameOf(n, size)) = << n >>
<1> DEFINE f == FrameOf(n, size)
           P == {j \in 0 .. size - 1 : Completed(SubSeq(f, 1, j)) = << >>}
<1>1. /\ f \in Seq(PipeByte) /\ Len(f) = size
      /\ \A j \in 1 .. size : f[j] = [frame |-> n, i |-> j, size |-> size]
  BY DEF FrameOf, PipeByte
<1>2. \A j \in 1 .. size : f[j] \in PipeByte /\ f[j].i = j /\ f[j].size = size /\ f[j].frame = n
  BY <1>1 DEF PipeByte
<1> HIDE DEF f
<1>3. ASSUME NEW j \in 1 .. size
      PROVE  Completed(SubSeq(f, 1, j)) = Completed(SubSeq(f, 1, j - 1)) \o EndsFrame(f[j])
  <2>1. 1 \in 1 .. Len(f) /\ j \in 1 .. Len(f)
    BY <1>1
  <2>2. SubSeq(f, 1, j) = SubSeq(f, 1, j - 1) \o << f[j] >>
    BY <1>1, <2>1, SubSeqRecursiveSecond, Zenon
  <2>3. SubSeq(f, 1, j - 1) \in Seq(PipeByte) /\ f[j] \in PipeByte
    BY <1>1, <1>2
  <2>4. SubSeq(f, 1, j) = Append(SubSeq(f, 1, j - 1), f[j])
    BY <2>2, <2>3, AppendIsConcat, Zenon
  <2> QED
    BY <2>3, <2>4, CompletedOf, Zenon
<1>4. 0 \in P
  <2>1. SubSeq(f, 1, 0) = << >>
    OBVIOUS
  <2>2. Completed(<< >>) = << >>
    BY <1>1, <1>2, CompletedOf
  <2>3. 0 \in 0 .. size - 1
    OBVIOUS
  <2> QED
    BY <2>1, <2>2, <2>3, Zenon
<1>5. ASSUME NEW j \in 1 .. size - 1, j - 1 \in P PROVE j \in P
  <2>1. EndsFrame(f[j]) = << >>
    BY <1>2 DEF EndsFrame
  <2>2. Completed(SubSeq(f, 1, j)) = Completed(SubSeq(f, 1, j - 1)) \o EndsFrame(f[j])
    BY <1>3
  <2>3. << >> \o << >> = << >>
    OBVIOUS
  <2> QED
    BY <1>5, <2>1, <2>2, <2>3
<1> HIDE DEF P
<1>6. 0 .. size - 1 \subseteq P
  BY <1>4, <1>5, UpTo
<1>7. Completed(SubSeq(f, 1, size - 1)) = << >>
  BY <1>6 DEF P
<1>8. EndsFrame(f[size]) = << n >>
  BY <1>2 DEF EndsFrame
<1>9. Completed(SubSeq(f, 1, size)) = << >> \o << n >>
  <2>1. size \in 1 .. size
    OBVIOUS
  <2> QED
    BY <1>3, <1>7, <1>8, <2>1, Zenon
<1>10. SubSeq(f, 1, size) = f
  BY <1>1, SubSeqFull
<1>11. << >> \o << n >> = << n >>
  OBVIOUS
<1> QED
  BY <1>1, <1>9, <1>10, <1>11 DEF f
-----------------------------------------------------------------------------
(* ChildPipes: bytes that are whole frames, and the invariant. *)

\* The bytes begin with a frame and end with one, and in between each frame is
\* followed by the next one.
Regular(t) ==
    /\ t # << >> => t[1].i = 1 /\ t[Len(t)].i = t[Len(t)].size
    /\ \A p \in 1 .. Len(t) : p + 1 \in 1 .. Len(t) =>
          IF t[p].i = t[p].size THEN t[p + 1].i = 1
          ELSE /\ t[p + 1].frame = t[p].frame
               /\ t[p + 1].size = t[p].size
               /\ t[p + 1].i = t[p].i + 1

\* As long as every frame fits PIPE_BUF.
Small == \A n \in 1 .. Len(sent) : sent[n] <= PIPE_BUF

PipesTypes ==
    /\ TypeOK
    /\ accepted \in Seq(Nat) /\ decoded \in Seq(Nat) /\ delivered \in Seq(Nat)
    /\ stdinPipe \in Seq(PipeByte) /\ in_buf \in Seq(PipeByte)
    /\ stdoutPipe \in Seq(PipeByte) /\ reply \in Seq(PipeByte)
    /\ npc = "write" => sent # << >>
    /\ cpc # "reply" => reply = << >>

\* What the child has decoded is on its way back, or back.
Answered == decoded = delivered \o Completed(stdoutPipe \o reply)

\* What the pipe took and the child has not decoded is on its way to it, in
\* whole frames.
InTransit ==
    Small => /\ ~torn
             /\ Regular(in_buf \o stdinPipe)
             /\ accepted = decoded \o Completed(in_buf \o stdinPipe)

PipesIInv == PipesTypes /\ Answered /\ InTransit

\* Bytes are bytes.
LEMMA ByteFields ==
    ASSUME NEW b \in PipeByte
    PROVE  /\ b.frame \in Nat /\ b.i \in Nat /\ b.size \in Nat
           /\ 1 <= b.i /\ b.i <= b.size
           /\ b = [frame |-> b.frame, i |-> b.i, size |-> b.size]
BY DEF PipeByte

\* The pieces of a sequence of bytes.
LEMMA Cut ==
    ASSUME NEW s \in Seq(PipeByte), NEW k \in 0 .. Len(s)
    PROVE  /\ SubSeq(s, 1, k) \in Seq(PipeByte) /\ Len(SubSeq(s, 1, k)) = k
           /\ \A j \in 1 .. k : SubSeq(s, 1, k)[j] = s[j]
           /\ SubSeq(s, k + 1, Len(s)) \in Seq(PipeByte)
           /\ Len(SubSeq(s, k + 1, Len(s))) = Len(s) - k
           /\ SubSeq(s, 1, k) \o SubSeq(s, k + 1, Len(s)) = s
<1>1. Len(s) \in Nat /\ \A i \in 1 .. Len(s) : s[i] \in PipeByte
  OBVIOUS
<1>2. /\ SubSeq(s, 1, k) \in Seq(PipeByte) /\ Len(SubSeq(s, 1, k)) = k
      /\ \A j \in 1 .. k : SubSeq(s, 1, k)[j] = s[j]
  BY <1>1
<1>3. SubSeq(s, k + 1, Len(s)) \in Seq(PipeByte) /\ Len(SubSeq(s, k + 1, Len(s))) = Len(s) - k
  BY <1>1
<1>4. SubSeq(s, 1, k) \o SubSeq(s, k + 1, Len(s)) = s
  <2>1. 1 \in 1 .. Len(s) + 1 /\ k \in 1 - 1 .. Len(s) /\ Len(s) \in k .. Len(s)
    BY <1>1
  <2>2. SubSeq(s, 1, k) \o SubSeq(s, k + 1, Len(s)) = SubSeq(s, 1, Len(s))
    BY <2>1, ConcatAdjacentSubSeq
  <2>3. SubSeq(s, 1, Len(s)) = s
    BY SubSeqFull
  <2> QED
    BY <2>2, <2>3
<1> QED
  BY <1>2, <1>3, <1>4

\* Bytes, one sequence behind the other.
LEMMA Joined ==
    ASSUME NEW s \in Seq(PipeByte), NEW t \in Seq(PipeByte)
    PROVE  /\ s \o t \in Seq(PipeByte)
           /\ Len(s) \in Nat /\ Len(t) \in Nat /\ Len(s \o t) = Len(s) + Len(t)
           /\ \A j \in 1 .. Len(s) : (s \o t)[j] = s[j]
           /\ \A j \in 1 .. Len(t) : (s \o t)[Len(s) + j] = t[j]
           /\ \A j \in 1 .. Len(s \o t) : j \in 1 .. Len(s) \/ j - Len(s) \in 1 .. Len(t)
<1>1. Len(s) \in Nat /\ Len(t) \in Nat
  OBVIOUS
<1>2. /\ s \o t \in Seq(PipeByte) /\ Len(s \o t) = Len(s) + Len(t)
      /\ \A i \in 1 .. Len(s) + Len(t) : (s \o t)[i] = IF i <= Len(s) THEN s[i] ELSE t[i - Len(s)]
  BY ConcatProperties
<1> DEFINE u == s \o t
<1> HIDE DEF u
<1>3. ASSUME NEW j \in 1 .. Len(s) PROVE (s \o t)[j] = s[j]
  <2>1. j \in 1 .. Len(s) + Len(t) /\ j <= Len(s)
    BY <1>1
  <2> QED
    BY <1>2, <2>1, Zenon
<1>4. ASSUME NEW j \in 1 .. Len(t) PROVE (s \o t)[Len(s) + j] = t[j]
  <2>1. Len(s) + j \in 1 .. Len(s) + Len(t) /\ ~(Len(s) + j <= Len(s)) /\ (Len(s) + j) - Len(s) = j
    BY <1>1
  <2> QED
    BY <1>2, <2>1, Zenon
<1>5. ASSUME NEW j \in 1 .. Len(s) + Len(t) PROVE j \in 1 .. Len(s) \/ j - Len(s) \in 1 .. Len(t)
  BY <1>1
<1> QED
  BY <1>1, <1>2, <1>3, <1>4, <1>5

\* How bytes are bracketed does not matter.
LEMMA BytesConcat ==
    ASSUME NEW p \in Seq(PipeByte), NEW q \in Seq(PipeByte), NEW r \in Seq(PipeByte)
    PROVE  (p \o q) \o r = p \o (q \o r)
OBVIOUS

\* Moving the first bytes of b to the end of a.
LEMMA Moved ==
    ASSUME NEW a \in Seq(PipeByte), NEW b \in Seq(PipeByte), NEW k \in 0 .. Len(b)
    PROVE  (a \o SubSeq(b, 1, k)) \o SubSeq(b, k + 1, Len(b)) = a \o b
<1> DEFINE c == SubSeq(b, 1, k)
           d == SubSeq(b, k + 1, Len(b))
<1>1. c \in Seq(PipeByte) /\ d \in Seq(PipeByte) /\ c \o d = b
  BY Cut
<1> HIDE DEF c, d
<1>2. (a \o c) \o d = a \o (c \o d)
  <2>1. c \in Seq(PipeByte) /\ d \in Seq(PipeByte)
    BY <1>1
  <2> QED
    BY <2>1
<1> QED
  BY <1>1, <1>2 DEF c, d

\* The bytes of a frame.
LEMMA FrameIs ==
    ASSUME NEW n \in Nat, NEW size \in Nat, size > 0
    PROVE  /\ FrameOf(n, size) \in Seq(PipeByte) /\ Len(FrameOf(n, size)) = size
           /\ \A j \in 1 .. size : FrameOf(n, size)[j] = [frame |-> n, i |-> j, size |-> size]
           /\ \A j \in 1 .. size : /\ FrameOf(n, size)[j].frame = n
                                  /\ FrameOf(n, size)[j].i = j
                                  /\ FrameOf(n, size)[j].size = size
<1>1. /\ FrameOf(n, size) \in Seq(PipeByte) /\ Len(FrameOf(n, size)) = size
      /\ \A j \in 1 .. size : FrameOf(n, size)[j] = [frame |-> n, i |-> j, size |-> size]
  BY DEF FrameOf, PipeByte
<1> QED
  BY <1>1

\* A frame may be put behind whole frames.
LEMMA RegularJoin ==
    ASSUME NEW t \in Seq(PipeByte), Regular(t), NEW n \in Nat, NEW size \in Nat, size > 0
    PROVE  Regular(t \o FrameOf(n, size))
<1> DEFINE f == FrameOf(n, size)
           u == t \o f
<1>1. /\ f \in Seq(PipeByte) /\ Len(f) = size
      /\ \A j \in 1 .. size : f[j].frame = n /\ f[j].i = j /\ f[j].size = size
  <2>1. PICK g : g = FrameOf(n, size)
    OBVIOUS
  <2>2. /\ g \in Seq(PipeByte) /\ Len(g) = size
        /\ \A j \in 1 .. size : g[j] = [frame |-> n, i |-> j, size |-> size]
    BY <2>1 DEF FrameOf, PipeByte
  <2>3. \A j \in 1 .. size : g[j].frame = n /\ g[j].i = j /\ g[j].size = size
    BY <2>2
  <2> QED
    BY <2>1, <2>2, <2>3, Zenon
<1> HIDE DEF f
<1>2. /\ u \in Seq(PipeByte) /\ Len(t) \in Nat /\ Len(u) = Len(t) + size
      /\ \A j \in 1 .. Len(t) : u[j] = t[j]
      /\ \A j \in 1 .. size : u[Len(t) + j] = f[j]
  BY <1>1, Joined
<1>3. t = << >> <=> Len(t) = 0
  OBVIOUS
<1> HIDE DEF u
<1>4. u # << >> => u[1].i = 1 /\ u[Len(u)].i = u[Len(u)].size
  <2>1. u[Len(u)].i = u[Len(u)].size
    <3>1. size \in 1 .. size
      OBVIOUS
    <3>2. u[Len(u)] = f[size]
      BY <1>2, <3>1, Zenon
    <3> QED
      BY <1>1, <3>1, <3>2
  <2>2. CASE t = << >>
    <3>1. Len(t) + 1 = 1 /\ 1 \in 1 .. size
      BY <1>3, <2>2
    <3>2. u[Len(t) + 1] = f[1]
      BY <1>2, <3>1, Zenon
    <3> QED
      BY <1>1, <2>1, <3>1, <3>2
  <2>3. CASE t # << >>
    <3>1. 1 \in 1 .. Len(t)
      BY <1>2, <1>3, <2>3
    <3> QED
      BY <1>2, <2>1, <2>3, <3>1 DEF Regular
  <2> QED
    BY <2>2, <2>3
<1>5. ASSUME NEW p \in 1 .. Len(u), p + 1 \in 1 .. Len(u)
      PROVE  IF u[p].i = u[p].size THEN u[p + 1].i = 1
             ELSE /\ u[p + 1].frame = u[p].frame
                  /\ u[p + 1].size = u[p].size
                  /\ u[p + 1].i = u[p].i + 1
  <2>1. CASE p < Len(t)
    <3>1. p \in 1 .. Len(t) /\ p + 1 \in 1 .. Len(t)
      BY <1>2, <2>1
    <3>2. u[p] = t[p] /\ u[p + 1] = t[p + 1]
      BY <1>2, <3>1, Zenon
    <3> QED
      BY <3>1, <3>2 DEF Regular
  <2>2. CASE p = Len(t)
    <3>1. p \in 1 .. Len(t) /\ 1 \in 1 .. size /\ t # << >>
      BY <1>2, <1>3, <2>2
    <3>2. u[p] = t[p] /\ u[p + 1] = f[1]
      BY <1>2, <2>2, <3>1, Zenon
    <3>3. t[p].i = t[p].size
      BY <2>2, <3>1 DEF Regular
    <3> QED
      BY <1>1, <3>1, <3>2, <3>3
  <2>3. CASE p > Len(t)
    <3> DEFINE j == p - Len(t)
    <3>1. /\ j \in 1 .. size /\ j + 1 \in 1 .. size
          /\ Len(t) + j = p /\ Len(t) + (j + 1) = p + 1 /\ j # size
      BY <1>2, <1>5, <2>3
    <3> HIDE DEF j
    <3>2. u[p] = f[j] /\ u[p + 1] = f[j + 1]
      BY <1>2, <3>1, Zenon
    <3> QED
      BY <1>1, <3>1, <3>2
  <2> QED
    BY <1>2, <2>1, <2>2, <2>3
<1>6. Regular(u)
  BY <1>4, <1>5 DEF Regular
<1> QED
  BY <1>6 DEF u, f

\* Whole frames begin with the bytes of one frame in place, as far as they go.
LEMMA RegularHead ==
    ASSUME NEW t \in Seq(PipeByte), Regular(t), t # << >>,
           NEW p \in 1 .. Len(t), p <= t[1].size
    PROVE  t[p] = [frame |-> t[1].frame, i |-> p, size |-> t[1].size]
<1> DEFINE z == t[1].size
           n == t[1].frame
           P == {j \in 0 .. p : j = 0 \/ (t[j].frame = n /\ t[j].i = j /\ t[j].size = z)}
<1>1. Len(t) \in Nat /\ p \in Nat /\ 1 \in 1 .. Len(t) /\ \A j \in 1 .. Len(t) : t[j] \in PipeByte
  OBVIOUS
<1>2. z \in Nat /\ t[1].i = 1
  BY <1>1, ByteFields DEF Regular
<1> HIDE DEF z, n
<1>3. 0 \in P
  BY <1>1
<1>4. ASSUME NEW j \in 1 .. p, j - 1 \in P PROVE j \in P
  <2>1. CASE j = 1
    BY <1>1, <1>2, <2>1 DEF z, n
  <2>2. CASE j # 1
    <3> DEFINE q == j - 1
    <3>1. /\ q \in 1 .. Len(t) /\ q + 1 = j /\ j \in 1 .. Len(t) /\ q # 0 /\ q # z /\ j \in 0 .. p
          /\ q \in Nat
      BY <1>1, <1>2, <2>2 DEF z
    <3>2. t[q].frame = n /\ t[q].i = q /\ t[q].size = z
      BY <1>4, <3>1
    <3> HIDE DEF q
    <3>3. t[q + 1].frame = t[q].frame /\ t[q + 1].size = t[q].size /\ t[q + 1].i = t[q].i + 1
      BY <3>1, <3>2 DEF Regular
    <3> QED
      BY <3>1, <3>2, <3>3
  <2> QED
    BY <2>1, <2>2
<1> HIDE DEF P
<1>5. 0 .. p \subseteq P
  BY <1>1, <1>3, <1>4, UpTo
<1>6. t[p].frame = n /\ t[p].i = p /\ t[p].size = z
  BY <1>1, <1>5 DEF P
<1>7. t[p] = [frame |-> t[p].frame, i |-> t[p].i, size |-> t[p].size]
  BY <1>1, ByteFields
<1> QED
  BY <1>6, <1>7 DEF n, z

\* Without their first frame they are whole frames still.
LEMMA RegularRest ==
    ASSUME NEW f \in Seq(PipeByte), NEW r \in Seq(PipeByte), f # << >>,
           Regular(f \o r), Len(f) = f[1].size
    PROVE  Regular(r)
<1> DEFINE t == f \o r
           m == Len(f)
<1>1. /\ t \in Seq(PipeByte) /\ m \in Nat /\ Len(r) \in Nat /\ Len(t) = m + Len(r)
      /\ \A j \in 1 .. m : t[j] = f[j]
      /\ \A j \in 1 .. Len(r) : t[m + j] = r[j]
  BY Joined
<1>2. m > 0 /\ m = f[1].size /\ (r = << >> <=> Len(r) = 0)
  OBVIOUS
<1>0. Regular(t)
  OBVIOUS
<1> HIDE DEF t, m
<1>3. ASSUME NEW j \in 1 .. Len(r)
      PROVE  m + j \in 1 .. Len(t) /\ t[m + j] = r[j]
  BY <1>1
<1>4. r # << >> => r[1].i = 1
  <2> SUFFICES ASSUME r # << >> PROVE r[1].i = 1
    OBVIOUS
  <2>1. 1 \in 1 .. Len(r) /\ 1 \in 1 .. m /\ m \in 1 .. Len(t) /\ t # << >>
    BY <1>1, <1>2
  <2>2. t[m + 1] = r[1] /\ m + 1 \in 1 .. Len(t) /\ t[1] = f[1]
    BY <1>1, <1>3, <2>1
  <2>3. t[m] = [frame |-> t[1].frame, i |-> m, size |-> t[1].size]
    <3>1. m <= t[1].size
      BY <1>1, <1>2, <2>2
    <3> QED
      BY <1>0, <1>1, <2>1, <3>1, RegularHead, Zenon
  <2>4. t[m].i = t[m].size
    BY <1>2, <2>2, <2>3
  <2> QED
    BY <1>0, <2>1, <2>2, <2>4 DEF Regular
<1>5. r # << >> => r[Len(r)].i = r[Len(r)].size
  <2> SUFFICES ASSUME r # << >> PROVE r[Len(r)].i = r[Len(r)].size
    OBVIOUS
  <2>1. Len(r) \in 1 .. Len(r) /\ t # << >>
    BY <1>1, <1>2
  <2>2. t[Len(t)] = r[Len(r)]
    BY <1>1, <1>3, <2>1
  <2> QED
    BY <1>0, <2>1, <2>2 DEF Regular
<1>6. ASSUME NEW p \in 1 .. Len(r), p + 1 \in 1 .. Len(r)
      PROVE  IF r[p].i = r[p].size THEN r[p + 1].i = 1
             ELSE /\ r[p + 1].frame = r[p].frame
                  /\ r[p + 1].size = r[p].size
                  /\ r[p + 1].i = r[p].i + 1
  <2> DEFINE q == m + p
  <2>1. q \in 1 .. Len(t) /\ q + 1 \in 1 .. Len(t) /\ q + 1 = m + (p + 1)
    BY <1>1, <1>6
  <2>2. t[q] = r[p] /\ t[q + 1] = r[p + 1]
    BY <1>3, <1>6, <2>1
  <2> HIDE DEF q
  <2> QED
    BY <1>0, <2>1, <2>2 DEF Regular
<1> QED
  BY <1>4, <1>5, <1>6 DEF Regular

-----------------------------------------------------------------------------
(* ChildPipes: the inductive invariant of the pipes. *)

\* The constants.
LEMMA PipesConstants ==
    /\ InCap \in Nat /\ OutCap \in Nat /\ ErrCap \in Nat /\ BUF_CAP \in Nat
    /\ MaxFrames \in Nat /\ PIPE_BUF \in Nat
    /\ \A z \in Sizes : z \in Nat /\ z > 0
<1>1. InCap \in Nat /\ OutCap \in Nat /\ ErrCap \in Nat /\ BUF_CAP \in Nat /\ MaxFrames \in Nat
  BY PipesAssumption
<1>2. PIPE_BUF \in Nat
  BY <1>1, PipesAssumption
<1>3. ASSUME NEW z \in Sizes PROVE z \in Nat /\ z > 0
  <2>1. z \in 1 .. BUF_CAP
    BY PipesAssumption
  <2> QED
    BY <1>1, <2>1
<1> QED
  BY <1>1, <1>2, <1>3

\* Before anything is written.
LEMMA PipesInit == Init => PipesIInv
<1> SUFFICES ASSUME Init PROVE PipesIInv
  OBVIOUS
<1>1. /\ npc = "idle" /\ sent = << >> /\ accepted = << >> /\ torn = FALSE
      /\ child_input_closed = FALSE /\ stdinPipe = << >> /\ stdinOpen = TRUE
      /\ stdoutPipe = << >> /\ stderrPipe = 0
      /\ cpc = "read" /\ in_buf = << >> /\ reply = << >> /\ decoded = << >> /\ delivered = << >>
  BY DEF Init
<1>2. Len(<< >>) = 0 /\ << >> \o << >> = << >>
  OBVIOUS
<1>3. /\ << >> \in Seq(PipeByte) /\ << >> \in Seq(Nat) /\ << >> \in Seq(Sizes)
  OBVIOUS
<1>4. PipesTypes
  <2>1. TypeOK
    <3>1. 0 <= MaxFrames /\ 0 <= InCap /\ 0 <= OutCap /\ 0 <= BUF_CAP /\ 0 \in 0 .. ErrCap
      BY PipesConstants
    <3> QED
      BY <1>1, <1>2, <1>3, <3>1 DEF TypeOK
  <2> QED
    BY <1>1, <1>3, <2>1 DEF PipesTypes
<1>5. Completed(<< >>) = << >>
  <2>1. [frame |-> 0, i |-> 1, size |-> 1] \in PipeByte
    BY DEF PipeByte
  <2> QED
    BY <1>3, <2>1, CompletedOf
<1>6. Answered
  BY <1>1, <1>2, <1>5 DEF Answered
<1>7. Regular(<< >>)
  BY <1>2 DEF Regular
<1>8. InTransit
  BY <1>1, <1>2, <1>5, <1>7 DEF InTransit
<1> QED
  BY <1>4, <1>6, <1>8 DEF PipesIInv

\* A step that moves no byte.
LEMMA NothingMoved ==
    ASSUME Answered, InTransit, Small' => Small,
           UNCHANGED <<accepted, torn, stdinPipe, stdoutPipe, in_buf, reply, decoded, delivered>>
    PROVE  Answered' /\ InTransit'
<1>1. Answered'
  BY DEF Answered
<1>2. InTransit'
  BY DEF InTransit
<1> QED
  BY <1>1, <1>2

\* The steps that only change where a thread is, or how full stderr is.
LEMMA ControlStep ==
    ASSUME PipesIInv,
           \/ CloseInput \/ WriteToDead \/ ChildExits \/ DecodeIncomplete \/ DecodeError
           \/ ChildLogs \/ ChildLogged
    PROVE  PipesIInv'
<1>0. PipesTypes /\ Answered /\ InTransit
  BY DEF PipesIInv
<1>1. /\ UNCHANGED <<sent, accepted, torn, stdinPipe, stdoutPipe, in_buf, reply, decoded, delivered>>
      /\ npc' = npc \/ npc' = "killed"
      /\ cpc' = cpc \/ (cpc # "reply" /\ cpc' \in {"read", "err", "exited"})
      /\ stderrPipe' = stderrPipe \/ (stderrPipe < ErrCap /\ stderrPipe' = stderrPipe + 1)
      /\ stdinOpen' = stdinOpen \/ stdinOpen' = FALSE
      /\ child_input_closed' = child_input_closed \/ child_input_closed' = TRUE
  BY DEF CloseInput, WriteToDead, ChildExits, DecodeIncomplete, DecodeError, ChildLogs, ChildLogged,
         netVars, childVars
<1>2. stderrPipe' \in 0 .. ErrCap
  <2>1. stderrPipe \in 0 .. ErrCap /\ ErrCap \in Nat
    BY <1>0, PipesConstants DEF PipesTypes, TypeOK
  <2>2. stderrPipe' = stderrPipe \/ (stderrPipe < ErrCap /\ stderrPipe' = stderrPipe + 1)
    BY <1>1
  <2> QED
    BY <2>1, <2>2
<1>3. PipesTypes'
  BY <1>0, <1>1, <1>2 DEF PipesTypes, TypeOK
<1>4. Small' => Small
  BY <1>1 DEF Small
<1> QED
  BY <1>0, <1>1, <1>3, <1>4, NothingMoved DEF PipesIInv

\* A message of the peer is framed, or dropped.
LEMMA DeliverStep ==
    ASSUME PipesIInv, NEW size \in Sizes, NEW allocated \in BOOLEAN, Deliver(size, allocated)
    PROVE  PipesIInv'
<1>0. PipesTypes /\ Answered /\ InTransit
  BY DEF PipesIInv
<1>1. /\ UNCHANGED <<accepted, torn, child_input_closed, stdinPipe, stdinOpen, stdoutPipe, stderrPipe,
                     cpc, in_buf, reply, decoded, delivered>>
      /\ Len(sent) < MaxFrames /\ sent' = Append(sent, size) /\ npc' \in {"write", "idle"}
  BY DEF Deliver, childVars
<1>2. sent \in Seq(Sizes) /\ Len(sent) \in Nat
  BY <1>0 DEF PipesTypes, TypeOK
<1>3. /\ sent' \in Seq(Sizes) /\ Len(sent') = Len(sent) + 1 /\ sent' # << >>
      /\ \A n \in 1 .. Len(sent) : sent'[n] = sent[n]
  BY <1>1, <1>2, AppendProperties
<1>4. Len(sent') <= MaxFrames
  BY <1>1, <1>2, <1>3, PipesConstants
<1>5. PipesTypes'
  BY <1>0, <1>1, <1>3, <1>4 DEF PipesTypes, TypeOK
<1>6. Small' => Small
  <2> SUFFICES ASSUME Small', NEW n \in 1 .. Len(sent) PROVE sent[n] <= PIPE_BUF
    BY DEF Small
  <2>1. n \in 1 .. Len(sent') /\ sent'[n] = sent[n]
    BY <1>2, <1>3
  <2> QED
    BY <2>1 DEF Small
<1> QED
  BY <1>0, <1>1, <1>5, <1>6, NothingMoved DEF PipesIInv

\* The unchecked write: a frame that fits PIPE_BUF is taken whole or not at all.
LEMMA WriteStep ==
    ASSUME PipesIInv, NEW k \in Taken(sent[Len(sent)], InCap - Len(stdinPipe)), Write(k)
    PROVE  PipesIInv'
<1>0. PipesTypes /\ Answered /\ InTransit
  BY DEF PipesIInv
<1> DEFINE n == Len(sent)
           z == sent[n]
           f == FrameOf(n, z)
           g == SubSeq(f, 1, k)
<1>1. /\ npc = "write" /\ stdinPipe' = stdinPipe \o g
      /\ accepted' = IF k = z THEN Append(accepted, n) ELSE accepted
      /\ torn' = (torn \/ k \in 1 .. z - 1)
      /\ npc' = "idle"
      /\ UNCHANGED <<sent, child_input_closed, stdinOpen, stdoutPipe, stderrPipe, cpc, in_buf, reply,
                     decoded, delivered>>
  BY DEF Write, childVars
<1>2. /\ sent \in Seq(Sizes) /\ n \in Nat /\ n \in 1 .. Len(sent) /\ z \in Sizes
      /\ z \in Nat /\ z > 0
  <2>1. sent \in Seq(Sizes) /\ sent # << >>
    BY <1>0, <1>1 DEF PipesTypes, TypeOK
  <2>2. n \in Nat /\ n \in 1 .. Len(sent)
    BY <2>1
  <2>3. z \in Sizes
    BY <2>1, <2>2, ElementOfSeq
  <2> QED
    BY <2>1, <2>2, <2>3, PipesConstants
<1>3. /\ stdinPipe \in Seq(PipeByte) /\ in_buf \in Seq(PipeByte) /\ Len(stdinPipe) \in Nat
      /\ Len(stdinPipe) <= InCap /\ InCap \in Nat
  BY <1>0, PipesConstants DEF PipesTypes, TypeOK
<1>4. /\ k \in 0 .. z /\ Len(stdinPipe) + k <= InCap
      /\ z <= PIPE_BUF => k = 0 \/ k = z
  <2>1. InCap - Len(stdinPipe) \in Nat /\ PIPE_BUF \in Nat
    BY <1>3, PipesConstants
  <2> DEFINE room == InCap - Len(stdinPipe)
  <2>2. k \in 0 .. z /\ k <= room /\ (z <= PIPE_BUF => k = 0 \/ k = z)
    <3> HIDE DEF room, z
    <3>1. room \in Nat /\ k \in Taken(z, room)
      BY <2>1 DEF room, z
    <3> QED
      BY <1>2, <2>1, <3>1 DEF Taken, Least
  <2> QED
    BY <1>2, <1>3, <2>2
<1>5. f \in Seq(PipeByte) /\ Len(f) = z /\ Completed(f) = << n >>
  BY <1>2, FrameIs, CompletedFrame
<1> HIDE DEF f
<1>6. g \in Seq(PipeByte) /\ Len(g) = k
  BY <1>4, <1>5, Cut
<1>7. stdinPipe' \in Seq(PipeByte) /\ Len(stdinPipe') = Len(stdinPipe) + k
  BY <1>1, <1>3, <1>6, Joined
<1>8. accepted' \in Seq(Nat) /\ torn' \in BOOLEAN
  BY <1>0, <1>1, <1>2 DEF PipesTypes
<1> HIDE DEF g, z, n
<1>9. PipesTypes'
  <2>1. Len(stdinPipe') <= InCap
    BY <1>4, <1>7
  <2> QED
    BY <1>0, <1>1, <1>7, <1>8, <2>1 DEF PipesTypes, TypeOK
<1>10. Answered'
  BY <1>0, <1>1 DEF Answered
<1>11. InTransit'
  <2> SUFFICES ASSUME Small'
               PROVE  /\ ~torn' /\ Regular(in_buf' \o stdinPipe')
                      /\ accepted' = decoded' \o Completed(in_buf' \o stdinPipe')
    BY DEF InTransit
  <2> DEFINE t == in_buf \o stdinPipe
  <2>1. Small /\ z <= PIPE_BUF
    BY <1>1, <1>2 DEF Small, z
  <2>2. ~torn /\ Regular(t) /\ accepted = decoded \o Completed(t) /\ t \in Seq(PipeByte)
    BY <1>0, <1>3, <2>1, Joined DEF InTransit
  <2> HIDE DEF t
  <2>3. in_buf' \o stdinPipe' = t \o g
    <3>1. (in_buf \o stdinPipe) \o g = in_buf \o (stdinPipe \o g)
      BY <1>3, <1>6, BytesConcat
    <3> QED
      BY <1>1, <3>1 DEF t
  <2>4. CASE k = 0
    <3>1. g = << >>
      BY <1>6, <2>4
    <3>2. t \o g = t
      BY <2>2, <3>1
    <3>3. accepted' = accepted /\ ~torn'
      <4>1. k # z /\ ~(k \in 1 .. z - 1)
        BY <1>2, <2>4
      <4> QED
        BY <1>1, <2>2, <4>1, Zenon
    <3> QED
      BY <1>1, <2>2, <2>3, <3>2, <3>3
  <2>5. CASE k = z
    <3>1. g = f
      BY <1>5, <2>5, SubSeqFull DEF g
    <3>2. Regular(t \o f)
      BY <1>2, <2>2, RegularJoin DEF f
    <3>3. Completed(t \o f) = Completed(t) \o << n >>
      BY <1>5, <2>2, CompletedConcat
    <3>4. accepted' = Append(accepted, n) /\ ~torn'
      <4>1. ~(k \in 1 .. z - 1)
        BY <1>2, <2>5
      <4> QED
        BY <1>1, <2>2, <2>5, <4>1, Zenon
    <3>5. Append(decoded \o Completed(t), n) = decoded \o (Completed(t) \o << n >>)
      <4>1. decoded \in Seq(Nat) /\ Completed(t) \in Seq(Nat) /\ << n >> \in Seq(Nat) /\ n \in Nat
        <5>1. Completed(t) \in Seq(Nat)
          <6>1. [frame |-> 0, i |-> 1, size |-> 1] \in PipeByte
            BY DEF PipeByte
          <6> QED
            BY <2>2, <6>1, CompletedOf
        <5> QED
          BY <1>0, <1>2, <5>1 DEF PipesTypes
      <4>2. decoded \o Completed(t) \in Seq(Nat)
        BY <4>1, ConcatProperties
      <4>3. Append(decoded \o Completed(t), n) = (decoded \o Completed(t)) \o << n >>
        BY <4>1, <4>2, AppendIsConcat, Zenon
      <4> QED
        BY <4>1, <4>3, NumbersConcat
    <3>6. accepted' = decoded' \o Completed(in_buf' \o stdinPipe')
      BY <1>1, <2>2, <2>3, <3>1, <3>3, <3>4, <3>5, Zenon
    <3> QED
      BY <2>3, <3>1, <3>2, <3>4, <3>6
  <2> QED
    BY <1>4, <2>1, <2>4, <2>5
<1> QED
  BY <1>9, <1>10, <1>11 DEF PipesIInv

\* The child reads a part of its input.
LEMMA ChildReadStep ==
    ASSUME PipesIInv, NEW k \in 1 .. Least(Len(stdinPipe), BUF_CAP - Len(in_buf)), ChildRead(k)
    PROVE  PipesIInv'
<1>0. PipesTypes /\ Answered /\ InTransit
  BY DEF PipesIInv
<1>1. /\ cpc = "read" /\ cpc' = "decode"
      /\ in_buf' = in_buf \o SubSeq(stdinPipe, 1, k)
      /\ stdinPipe' = SubSeq(stdinPipe, k + 1, Len(stdinPipe))
      /\ UNCHANGED <<npc, sent, accepted, torn, child_input_closed, stdinOpen, stdoutPipe, stderrPipe,
                     reply, decoded, delivered>>
  BY DEF ChildRead, netVars
<1>2. /\ stdinPipe \in Seq(PipeByte) /\ in_buf \in Seq(PipeByte)
      /\ Len(stdinPipe) \in Nat /\ Len(in_buf) \in Nat
      /\ Len(stdinPipe) <= InCap /\ Len(in_buf) <= BUF_CAP /\ BUF_CAP \in Nat /\ InCap \in Nat
  <2>1. /\ stdinPipe \in Seq(PipeByte) /\ in_buf \in Seq(PipeByte)
        /\ Len(stdinPipe) <= InCap /\ Len(in_buf) <= BUF_CAP
    BY <1>0, Zenon DEF PipesTypes, TypeOK
  <2>2. Len(stdinPipe) \in Nat /\ Len(in_buf) \in Nat
    BY <2>1
  <2> QED
    BY <2>1, <2>2, PipesConstants
<1>3. k \in 0 .. Len(stdinPipe) /\ Len(in_buf) + k <= BUF_CAP
  BY <1>2 DEF Least
<1> DEFINE c == SubSeq(stdinPipe, 1, k)
<1>4. /\ c \in Seq(PipeByte) /\ Len(c) = k
      /\ stdinPipe' \in Seq(PipeByte) /\ Len(stdinPipe') = Len(stdinPipe) - k
  BY <1>1, <1>2, <1>3, Cut
<1>5. in_buf' \o stdinPipe' = in_buf \o stdinPipe
  BY <1>1, <1>2, <1>3, Moved
<1> HIDE DEF c
<1>6. in_buf' \in Seq(PipeByte) /\ Len(in_buf') = Len(in_buf) + k
  BY <1>1, <1>2, <1>4, Joined DEF c
<1>7. PipesTypes'
  <2>1. Len(in_buf') <= BUF_CAP /\ Len(stdinPipe') <= InCap
    BY <1>2, <1>3, <1>4, <1>6
  <2> QED
    BY <1>0, <1>1, <1>4, <1>6, <2>1 DEF PipesTypes, TypeOK
<1>8. Answered'
  BY <1>0, <1>1 DEF Answered
<1>9. InTransit'
  <2>1. Small' <=> Small
    BY <1>1 DEF Small
  <2> QED
    BY <1>0, <1>1, <1>5, <2>1 DEF InTransit
<1> QED
  BY <1>7, <1>8, <1>9 DEF PipesIInv

\* While no frame is torn, the buffer begins with one.
LEMMA HeadHolds ==
    ASSUME PipesTypes, InTransit, Small
    PROVE  HeadInPlace
<1> SUFFICES ASSUME in_buf # << >>
             PROVE  LET n == Least(in_buf[1].size, Len(in_buf))
                    IN  SubSeq(in_buf, 1, n)
                            = SubSeq(FrameOf(in_buf[1].frame, in_buf[1].size), 1, n)
  BY DEF HeadInPlace
<1> DEFINE t == in_buf \o stdinPipe
           fr == in_buf[1].frame
           z == in_buf[1].size
           n == Least(z, Len(in_buf))
           f == FrameOf(fr, z)
<1>1. in_buf \in Seq(PipeByte) /\ stdinPipe \in Seq(PipeByte)
  BY DEF PipesTypes
<1>2. Regular(t)
  BY DEF InTransit
<1>3. /\ t \in Seq(PipeByte) /\ Len(in_buf) \in Nat /\ Len(stdinPipe) \in Nat
      /\ Len(t) = Len(in_buf) + Len(stdinPipe)
      /\ \A j \in 1 .. Len(in_buf) : t[j] = in_buf[j]
  BY <1>1, Joined
<1>4. 1 \in 1 .. Len(in_buf) /\ in_buf[1] \in PipeByte
  BY <1>1
<1>5. fr \in Nat /\ z \in Nat /\ z > 0
  BY <1>4, ByteFields
<1>6. f \in Seq(PipeByte) /\ Len(f) = z /\ \A j \in 1 .. z : f[j] = [frame |-> fr, i |-> j, size |-> z]
  BY <1>5, FrameIs
<1>7. t[1] = in_buf[1] /\ t # << >>
  BY <1>3, <1>4
<1> HIDE DEF t, f
<1>8. n \in 0 .. Len(in_buf) /\ n \in 0 .. z
  BY <1>3, <1>5 DEF Least
<1>9. ASSUME NEW j \in 1 .. n PROVE in_buf[j] = f[j]
  <2>1. j \in 1 .. Len(t) /\ j \in 1 .. Len(in_buf) /\ j \in 1 .. z /\ j <= z
    BY <1>3, <1>5, <1>8
  <2>2. j <= t[1].size
    BY <1>7, <2>1
  <2>3. t[j] = [frame |-> t[1].frame, i |-> j, size |-> t[1].size]
    BY <1>2, <1>3, <1>7, <2>1, <2>2, RegularHead
  <2> QED
    BY <1>3, <1>6, <1>7, <2>1, <2>3
<1> HIDE DEF n
<1>10. /\ SubSeq(in_buf, 1, n) \in Seq(PipeByte) /\ Len(SubSeq(in_buf, 1, n)) = n
       /\ \A j \in 1 .. n : SubSeq(in_buf, 1, n)[j] = in_buf[j]
  BY <1>1, <1>8, Cut
<1>11. /\ SubSeq(f, 1, n) \in Seq(PipeByte) /\ Len(SubSeq(f, 1, n)) = n
       /\ \A j \in 1 .. n : SubSeq(f, 1, n)[j] = f[j]
  BY <1>6, <1>8, Cut
<1>12. SubSeq(in_buf, 1, n) = SubSeq(f, 1, n)
  <2> DEFINE u == SubSeq(in_buf, 1, n)
             h == SubSeq(f, 1, n)
  <2>1. u \in Seq(PipeByte) /\ h \in Seq(PipeByte) /\ Len(u) = Len(h) /\ \A j \in 1 .. Len(u) : u[j] = h[j]
    BY <1>9, <1>10, <1>11
  <2> HIDE DEF u, h
  <2>2. u = h
    BY <2>1, SeqEqual
  <2> QED
    BY <2>2 DEF u, h
<1> QED
  BY <1>12 DEF f, n

\* A frame, or what is taken for one, is decoded and answered.
LEMMA TakeFrameStep ==
    ASSUME PipesIInv, NEW n \in Nat, NEW k \in 1 .. Len(in_buf), cpc = "decode", TakeFrame(n, k)
    PROVE  PipesTypes' /\ Answered'
<1>0. PipesTypes /\ Answered
  BY DEF PipesIInv
<1>1. /\ decoded' = Append(decoded, n) /\ reply' = FrameOf(n, k)
      /\ in_buf' = SubSeq(in_buf, k + 1, Len(in_buf)) /\ cpc' = "reply"
      /\ UNCHANGED <<npc, sent, accepted, torn, child_input_closed, stdinPipe, stdinOpen, stdoutPipe,
                     stderrPipe, delivered>>
  BY DEF TakeFrame, netVars
<1>2. /\ in_buf \in Seq(PipeByte) /\ Len(in_buf) \in Nat /\ Len(in_buf) <= BUF_CAP
      /\ decoded \in Seq(Nat) /\ delivered \in Seq(Nat)
      /\ stdoutPipe \in Seq(PipeByte) /\ reply = << >>
  BY <1>0 DEF PipesTypes, TypeOK
<1>3. k \in Nat /\ k > 0 /\ k \in 0 .. Len(in_buf)
  BY <1>2
<1>4. /\ reply' \in Seq(PipeByte) /\ Completed(reply') = << n >>
  BY <1>1, <1>3, FrameIs, CompletedFrame
<1>5. in_buf' \in Seq(PipeByte) /\ Len(in_buf') = Len(in_buf) - k
  BY <1>1, <1>2, <1>3, Cut
<1>6. decoded' \in Seq(Nat)
  BY <1>1, <1>2
<1>7. PipesTypes'
  <2>1. Len(in_buf') <= BUF_CAP
    BY <1>2, <1>3, <1>5, PipesConstants
  <2> QED
    BY <1>0, <1>1, <1>4, <1>5, <1>6, <2>1 DEF PipesTypes, TypeOK
<1>8. Answered'
  <2>1. stdoutPipe \o reply = stdoutPipe
    BY <1>2
  <2>2. Completed(stdoutPipe \o reply') = Completed(stdoutPipe) \o << n >>
    BY <1>2, <1>4, CompletedConcat
  <2>3. Completed(stdoutPipe) \in Seq(Nat)
    <3>1. [frame |-> 0, i |-> 1, size |-> 1] \in PipeByte
      BY DEF PipeByte
    <3> QED
      BY <1>2, <3>1, CompletedOf
  <2>4. decoded = delivered \o Completed(stdoutPipe)
    BY <1>0, <2>1 DEF Answered
  <2>5. Append(decoded, n) = decoded \o << n >> /\ << n >> \in Seq(Nat)
    BY <1>2, AppendIsConcat
  <2>6. (delivered \o Completed(stdoutPipe)) \o << n >>
           = delivered \o (Completed(stdoutPipe) \o << n >>)
    BY <1>2, <2>3, <2>5, NumbersConcat
  <2> QED
    BY <1>1, <2>2, <2>4, <2>5, <2>6 DEF Answered
<1> QED
  BY <1>7, <1>8

\* The frame at the head of the buffer is one the pipe took.
LEMMA DecodeFrameStep ==
    ASSUME PipesIInv, DecodeFrame
    PROVE  PipesIInv'
<1>0. PipesTypes /\ InTransit
  BY DEF PipesIInv
<1> DEFINE fr == in_buf[1].frame
           z == in_buf[1].size
           F == FrameOf(fr, z)
<1>1. cpc = "decode" /\ in_buf # << >> /\ HeadInPlace /\ Len(in_buf) >= z /\ TakeFrame(fr, z)
  BY DEF DecodeFrame, HeadWhole
<1>2. /\ in_buf \in Seq(PipeByte) /\ stdinPipe \in Seq(PipeByte)
      /\ decoded \in Seq(Nat) /\ Len(in_buf) \in Nat
  BY <1>0 DEF PipesTypes
<1>3. 1 \in 1 .. Len(in_buf) /\ in_buf[1] \in PipeByte
  BY <1>1, <1>2
<1>4. fr \in Nat /\ z \in Nat /\ z > 0
  BY <1>3, ByteFields
<1>5. z \in 1 .. Len(in_buf) /\ z \in 0 .. Len(in_buf)
  BY <1>1, <1>2, <1>4
<1>6. PipesTypes' /\ Answered'
  BY <1>1, <1>4, <1>5, TakeFrameStep
<1>7. /\ decoded' = Append(decoded, fr) /\ in_buf' = SubSeq(in_buf, z + 1, Len(in_buf))
      /\ UNCHANGED <<sent, accepted, torn, stdinPipe>>
  BY <1>1 DEF TakeFrame, netVars
<1>8. /\ F \in Seq(PipeByte) /\ Len(F) = z /\ Completed(F) = << fr >> /\ F[1].size = z /\ F # << >>
  <2>1. /\ F \in Seq(PipeByte) /\ Len(F) = z /\ Completed(F) = << fr >>
        /\ \A j \in 1 .. z : F[j].size = z
    <3>1. PICK n \in Nat, y \in Nat : n = fr /\ y = z /\ y > 0
      BY <1>4
    <3>2. /\ FrameOf(n, y) \in Seq(PipeByte) /\ Len(FrameOf(n, y)) = y
          /\ \A j \in 1 .. y : FrameOf(n, y)[j].size = y
      BY <3>1, FrameIs
    <3>3. Completed(FrameOf(n, y)) = << n >>
      BY <3>1, CompletedFrame
    <3> QED
      BY <3>1, <3>2, <3>3
  <2> HIDE DEF F
  <2> QED
    BY <1>4, <2>1
<1>9. SubSeq(in_buf, 1, z) = F
  <2>1. Least(z, Len(in_buf)) = z
    BY <1>1, <1>2, <1>4 DEF Least
  <2>2. SubSeq(in_buf, 1, z) = SubSeq(F, 1, z)
    BY <1>1, <2>1 DEF HeadInPlace
  <2>3. SubSeq(F, 1, z) = F
    BY <1>8, SubSeqFull
  <2> QED
    BY <2>2, <2>3
<1> HIDE DEF F
<1>10. in_buf = F \o in_buf' /\ in_buf' \in Seq(PipeByte)
  BY <1>2, <1>5, <1>7, <1>9, Cut
<1> HIDE DEF fr, z
<1>11. InTransit'
  <2> SUFFICES ASSUME Small'
               PROVE  /\ ~torn' /\ Regular(in_buf' \o stdinPipe')
                      /\ accepted' = decoded' \o Completed(in_buf' \o stdinPipe')
    BY DEF InTransit
  <2> DEFINE t == in_buf' \o stdinPipe
  <2>1. Small
    BY <1>7 DEF Small
  <2>2. /\ ~torn /\ Regular(in_buf \o stdinPipe) 
        /\ accepted = decoded \o Completed(in_buf \o stdinPipe)
    BY <1>0, <2>1 DEF InTransit
  <2>3. t \in Seq(PipeByte)
    BY <1>2, <1>10, Joined
  <2>4. in_buf \o stdinPipe = F \o t
    <3>1. (F \o in_buf') \o stdinPipe = F \o (in_buf' \o stdinPipe)
      BY <1>2, <1>8, <1>10
    <3> QED
      BY <1>10, <3>1
  <2> HIDE DEF t
  <2>5. Regular(t)
    BY <1>8, <2>2, <2>3, <2>4, RegularRest
  <2>6. Completed(F \o t) = << fr >> \o Completed(t)
    BY <1>8, <2>3, CompletedConcat
  <2>7. Completed(t) \in Seq(Nat)
    <3>1. [frame |-> 0, i |-> 1, size |-> 1] \in PipeByte
      BY DEF PipeByte
    <3> QED
      BY <2>3, <3>1, CompletedOf
  <2>8. Append(decoded, fr) = decoded \o << fr >> /\ << fr >> \in Seq(Nat)
    BY <1>2, <1>4, AppendIsConcat
  <2>9. (decoded \o << fr >>) \o Completed(t) = decoded \o (<< fr >> \o Completed(t))
    BY <1>2, <2>7, <2>8, NumbersConcat
  <2>10. accepted = decoded' \o Completed(t)
    BY <1>7, <2>2, <2>4, <2>6, <2>8, <2>9, Zenon
  <2> QED
    BY <1>7, <2>2, <2>5, <2>10, Zenon DEF t
<1> QED
  BY <1>6, <1>11 DEF PipesIInv

\* Torn bytes: only after a frame larger than PIPE_BUF.
LEMMA DecodeTornStep ==
    ASSUME PipesIInv, NEW k \in 1 .. Len(in_buf), DecodeTorn(k)
    PROVE  PipesIInv'
<1>0. PipesTypes /\ InTransit
  BY DEF PipesIInv
<1>1. cpc = "decode" /\ ~HeadInPlace /\ TakeFrame(0, k) /\ 0 \in Nat
  BY DEF DecodeTorn
<1>2. PipesTypes' /\ Answered'
  BY <1>1, TakeFrameStep
<1>3. ~Small
  BY <1>0, <1>1, HeadHolds
<1>4. sent' = sent
  BY <1>1 DEF TakeFrame, netVars
<1>5. ~Small'
  BY <1>3, <1>4 DEF Small
<1> QED
  BY <1>2, <1>5 DEF PipesIInv, InTransit

\* A part of the answer is written.
LEMMA ChildWriteStep ==
    ASSUME PipesIInv, NEW k \in 1 .. Least(Len(reply), OutCap - Len(stdoutPipe)), ChildWrite(k)
    PROVE  PipesIInv'
<1>0. PipesTypes /\ Answered /\ InTransit
  BY DEF PipesIInv
<1>1. /\ cpc = "reply" /\ cpc' = IF k = Len(reply) THEN "decode" ELSE "reply"
      /\ stdoutPipe' = stdoutPipe \o SubSeq(reply, 1, k)
      /\ reply' = SubSeq(reply, k + 1, Len(reply))
      /\ UNCHANGED <<npc, sent, accepted, torn, child_input_closed, stdinPipe, stdinOpen, stderrPipe,
                     in_buf, decoded, delivered>>
  BY DEF ChildWrite, netVars
<1>2. /\ reply \in Seq(PipeByte) /\ stdoutPipe \in Seq(PipeByte)
      /\ Len(reply) \in Nat /\ Len(stdoutPipe) \in Nat
      /\ Len(stdoutPipe) <= OutCap /\ OutCap \in Nat
  <2>1. reply \in Seq(PipeByte) /\ stdoutPipe \in Seq(PipeByte) /\ Len(stdoutPipe) <= OutCap
    BY <1>0, Zenon DEF PipesTypes, TypeOK
  <2>2. Len(reply) \in Nat /\ Len(stdoutPipe) \in Nat
    BY <2>1
  <2> QED
    BY <2>1, <2>2, PipesConstants
<1>3. k \in 0 .. Len(reply) /\ Len(stdoutPipe) + k <= OutCap
  BY <1>2 DEF Least
<1> DEFINE c == SubSeq(reply, 1, k)
<1>4. c \in Seq(PipeByte) /\ Len(c) = k /\ reply' \in Seq(PipeByte) /\ Len(reply') = Len(reply) - k
  BY <1>1, <1>2, <1>3, Cut
<1>5. stdoutPipe' \o reply' = stdoutPipe \o reply
  BY <1>1, <1>2, <1>3, Moved
<1> HIDE DEF c
<1>6. stdoutPipe' \in Seq(PipeByte) /\ Len(stdoutPipe') = Len(stdoutPipe) + k
  BY <1>1, <1>2, <1>4, Joined DEF c
<1>7. PipesTypes'
  <2>1. Len(stdoutPipe') <= OutCap
    BY <1>3, <1>6
  <2>2. cpc' # "reply" => reply' = << >>
    <3>1. cpc' # "reply" => Len(reply') = 0
      BY <1>1, <1>2, <1>4
    <3> QED
      BY <1>4, <3>1, EmptySeq
  <2> QED
    BY <1>0, <1>1, <1>4, <1>6, <2>1, <2>2 DEF PipesTypes, TypeOK
<1>8. Answered'
  BY <1>0, <1>1, <1>5 DEF Answered
<1>9. InTransit'
  <2>1. Small' <=> Small
    BY <1>1 DEF Small
  <2> QED
    BY <1>0, <1>1, <2>1 DEF InTransit
<1> QED
  BY <1>7, <1>8, <1>9 DEF PipesIInv

\* The reader takes some bytes and passes on the frames they complete.
LEMMA ReaderStep ==
    ASSUME PipesIInv, NEW k \in 1 .. Readable, ReaderReads(k)
    PROVE  PipesIInv'
<1>0. PipesTypes /\ Answered /\ InTransit
  BY DEF PipesIInv
<1> DEFINE c == SubSeq(stdoutPipe, 1, k)
           d == SubSeq(stdoutPipe, k + 1, Len(stdoutPipe))
<1>1. /\ delivered' = delivered \o Completed(c) /\ stdoutPipe' = d
      /\ UNCHANGED <<npc, sent, accepted, torn, child_input_closed, stdinPipe, stdinOpen, stderrPipe,
                     cpc, in_buf, reply, decoded>>
  BY DEF ReaderReads, netVars, childVars
<1>2. /\ reply \in Seq(PipeByte) /\ stdoutPipe \in Seq(PipeByte) /\ delivered \in Seq(Nat)
      /\ Len(stdoutPipe) \in Nat /\ Len(stdoutPipe) <= OutCap /\ OutCap \in Nat
  BY <1>0, PipesConstants DEF PipesTypes, TypeOK
<1>3. k \in 0 .. Len(stdoutPipe)
  BY <1>2 DEF Readable
<1>4. /\ c \in Seq(PipeByte) /\ d \in Seq(PipeByte)
      /\ Len(d) = Len(stdoutPipe) - k /\ c \o d = stdoutPipe
  BY <1>2, <1>3, Cut
<1> HIDE DEF c, d
<1>5. /\ Completed(c) \in Seq(Nat)
      /\ Completed(d \o reply) \in Seq(Nat) /\ d \o reply \in Seq(PipeByte)
  <2>1. [frame |-> 0, i |-> 1, size |-> 1] \in PipeByte
    BY DEF PipeByte
  <2>2. d \o reply \in Seq(PipeByte)
    BY <1>2, <1>4, Joined
  <2> QED
    BY <1>4, <2>1, <2>2, CompletedOf
<1>6. delivered' \in Seq(Nat)
  BY <1>1, <1>2, <1>5, ConcatProperties
<1>7. PipesTypes'
  <2>1. Len(stdoutPipe') <= OutCap
    BY <1>1, <1>2, <1>3, <1>4
  <2> QED
    BY <1>0, <1>1, <1>4, <1>6, <2>1 DEF PipesTypes, TypeOK
<1>8. Answered'
  <2>1. stdoutPipe \o reply = c \o (d \o reply)
    <3>1. (c \o d) \o reply = c \o (d \o reply)
      <4>1. c \in Seq(PipeByte) /\ d \in Seq(PipeByte) /\ reply \in Seq(PipeByte)
        BY <1>2, <1>4
      <4> QED
        BY <4>1
    <3> QED
      BY <1>4, <3>1, Zenon
  <2> DEFINE e == d \o reply
  <2>2. e \in Seq(PipeByte) /\ Completed(e) \in Seq(Nat)
    BY <1>5
  <2> HIDE DEF e
  <2>3. Completed(c \o e) = Completed(c) \o Completed(e)
    BY <1>4, <2>2, CompletedConcat
  <2>4. (delivered \o Completed(c)) \o Completed(e) = delivered \o (Completed(c) \o Completed(e))
    BY <1>2, <1>5, <2>2, NumbersConcat
  <2>5. decoded = delivered \o Completed(c \o e)
    BY <1>0, <2>1, Zenon DEF Answered, e
  <2>6. decoded = delivered' \o Completed(e)
    BY <1>1, <2>3, <2>4, <2>5, Zenon
  <2> QED
    BY <1>1, <2>6, Zenon DEF Answered, e
<1>9. InTransit'
  <2>1. Small' <=> Small
    BY <1>1 DEF Small
  <2> QED
    BY <1>0, <1>1, <2>1 DEF InTransit
<1> QED
  BY <1>7, <1>8, <1>9 DEF PipesIInv

\* The invariant of the pipes: bytes are in order and, below PIPE_BUF, in whole
\* frames; what was decoded is on its way back and what was taken is on its way
\* to the child.
LEMMA PipesInvariant == Spec => []PipesIInv
<1>1. ASSUME PipesIInv, [Next]_vars PROVE PipesIInv'
  <2>1. CASE Network
    BY <1>1, <2>1, DeliverStep, ControlStep DEF Network
  <2>2. CASE npc = "write" /\ Writing
    BY <1>1, <2>2, WriteStep, ControlStep DEF Writing
  <2>3. CASE ChildStep
    BY <1>1, <2>3, ChildReadStep, ControlStep, DecodeFrameStep, DecodeTornStep, ChildWriteStep
       DEF ChildStep
  <2>4. CASE ChildLogs
    BY <1>1, <2>4, ControlStep
  <2>5. CASE Reader
    BY <1>1, <2>5, ReaderStep DEF Reader
  <2>6. CASE UNCHANGED vars
    <3>1. UNCHANGED <<npc, sent, accepted, torn, child_input_closed, stdinPipe, stdinOpen, stdoutPipe,
                      stderrPipe, cpc, in_buf, reply, decoded, delivered>>
      BY <2>6 DEF vars, netVars, childVars
    <3>2. PipesTypes' <=> PipesTypes
      BY <3>1 DEF PipesTypes, TypeOK
    <3>3. Small' <=> Small
      BY <3>1 DEF Small
    <3> QED
      BY <1>1, <3>1, <3>2, <3>3 DEF PipesIInv, Answered, InTransit
  <2> QED
    BY <1>1, <2>1, <2>2, <2>3, <2>4, <2>5, <2>6 DEF Next
<1> QED
  BY <1>1, PipesInit, PTL DEF Spec

\* No pipe and no buffer ever holds more than it has room for.
THEOREM PipesTyped == Spec => []TypeOK
<1>1. PipesIInv => TypeOK
  BY DEF PipesIInv, PipesTypes
<1> QED
  BY <1>1, PipesInvariant, PTL

\* A sequence begins with each of the two it is made of.
LEMMA BeginsWith ==
    ASSUME NEW s \in Seq(Nat), NEW t \in Seq(Nat)
    PROVE  IsPrefix(s, s \o t)
<1>1. /\ Len(s) \in Nat /\ Len(t) \in Nat /\ Len(s \o t) = Len(s) + Len(t)
      /\ \A i \in 1 .. Len(s) : (s \o t)[i] = s[i]
  OBVIOUS
<1>2. Len(s) <= Len(s \o t)
  BY <1>1
<1> QED
  BY <1>1, <1>2 DEF IsPrefix

\* Whatever the sizes of the pipes, and however reads and unchecked writes fall
\* on them: while every frame fits PIPE_BUF the child decodes and answers
\* exactly the frames the pipe took, in order.
THEOREM BoundariesAreKept == Spec => []BoundariesKept
<1>1. ASSUME PipesIInv PROVE BoundariesKept
  <2> SUFFICES ASSUME Small
               PROVE  ~torn /\ IsPrefix(decoded, accepted) /\ IsPrefix(delivered, decoded)
    BY DEF BoundariesKept, Small
  <2>1. /\ ~torn
        /\ accepted = decoded \o Completed(in_buf \o stdinPipe)
        /\ decoded = delivered \o Completed(stdoutPipe \o reply)
    BY <1>1 DEF PipesIInv, InTransit, Answered
  <2>2. decoded \in Seq(Nat) /\ delivered \in Seq(Nat)
    BY <1>1 DEF PipesIInv, PipesTypes
  <2>3. in_buf \o stdinPipe \in Seq(PipeByte) /\ stdoutPipe \o reply \in Seq(PipeByte)
    BY <1>1, Joined DEF PipesIInv, PipesTypes
  <2>4. Completed(in_buf \o stdinPipe) \in Seq(Nat) /\ Completed(stdoutPipe \o reply) \in Seq(Nat)
    <3>1. [frame |-> 0, i |-> 1, size |-> 1] \in PipeByte
      BY DEF PipeByte
    <3> QED
      BY <2>3, <3>1, CompletedOf
  <2> QED
    BY <2>1, <2>2, <2>4, BeginsWith
<1> QED
  BY <1>1, PipesInvariant, PTL

-----------------------------------------------------------------------------
(* Cmdline: loops over characters. *)

\* What one round may be.
Rounds(S, T) == [S \X T -> S]

\* after[i] is the state of a loop over s after i characters.
IsAfter(after, step, S, st, s) ==
    /\ after \in [0 .. Len(s) -> S]
    /\ after[0] = st
    /\ \A i \in 1 .. Len(s) : after[i] = step[<<after[i - 1], s[i]>>]

\* Loop is that function after the last character.
LEMMA LoopAfter ==
    ASSUME NEW S, NEW T, NEW step \in Rounds(S, T), NEW st \in S, NEW s \in Seq(T)
    PROVE  \E after : IsAfter(after, step, S, st, s) /\ Loop(step, st, s) = after[Len(s)]
<1> DEFINE N == Len(s)
           round == [p \in S \X (1 .. N) |-> step[<<p[1], s[p[2]]>>]]
           IsIt(f) == f = [i \in 0 .. N |-> IF i = 0 THEN st ELSE step[<<f[i - 1], s[i]>>]]
           K == CHOOSE f : IsIt(f)
<1>1. N \in Nat /\ \A i \in 1 .. N : s[i] \in T
  OBVIOUS
<1>2. Loop(step, st, s) = K[N]
  BY Zenon DEF Loop
<1>3. round \in [S \X (1 .. N) -> S]
  <2>1. ASSUME NEW p \in S \X (1 .. N) PROVE step[<<p[1], s[p[2]]>>] \in S
    <3>1. p[1] \in S /\ s[p[2]] \in T
      BY <1>1
    <3>2. <<p[1], s[p[2]]>> \in S \X T
      BY <3>1
    <3> QED
      BY <3>2 DEF Rounds
  <2> QED
    BY <2>1
<1>4. \A x \in S : \A i \in 1 .. N : round[<<x, i>>] = step[<<x, s[i]>>]
  OBVIOUS
<1> HIDE DEF round, N
<1>5. PICK f : IsLoop(f, N, S, st, round)
  BY <1>1, <1>3, LoopExists
<1>6. f \in [0 .. N -> S] /\ f[0] = st /\ \A i \in 1 .. N : f[i] = round[<<f[i - 1], i>>]
  BY <1>5 DEF IsLoop
<1>7. ASSUME NEW i \in 1 .. N PROVE f[i] = step[<<f[i - 1], s[i]>>]
  <2>1. i - 1 \in 0 .. N
    BY <1>1
  <2>2. f[i - 1] \in S
    BY <1>6, <2>1
  <2> QED
    BY <1>4, <1>6, <2>2
<1>8. IsIt(f)
  <2> DEFINE g == [i \in 0 .. N |-> IF i = 0 THEN st ELSE step[<<f[i - 1], s[i]>>]]
  <2>1. ASSUME NEW i \in 0 .. N PROVE f[i] = g[i]
    <3>1. CASE i = 0
      BY <1>1, <1>6, <3>1
    <3>2. CASE i # 0
      <4>1. i \in 1 .. N
        BY <1>1, <3>2
      <4> QED
        BY <1>7, <3>2, <4>1
    <3> QED
      BY <3>1, <3>2
  <2>2. DOMAIN f = 0 .. N /\ f = [i \in 0 .. N |-> f[i]]
    BY <1>6
  <2> QED
    BY <2>1, <2>2
<1>9. IsIt(K)
  BY <1>8, Zenon
<1>10. /\ K[0] = st
       /\ \A i \in 1 .. N : K[i] = step[<<K[i - 1], s[i]>>]
  <2>1. 0 \in 0 .. N
    BY <1>1
  <2>2. ASSUME NEW i \in 1 .. N PROVE i \in 0 .. N /\ i # 0
    BY <1>1
  <2> QED
    BY <1>9, <2>1, <2>2
<1> HIDE DEF K
<1> DEFINE P == {i \in 0 .. N : f[i] = K[i]}
<1>11. 0 \in P
  BY <1>1, <1>6, <1>10
<1>12. ASSUME NEW i \in 1 .. N, i - 1 \in P PROVE i \in P
  <2>1. i \in 0 .. N
    BY <1>1
  <2> QED
    BY <1>7, <1>10, <1>12, <2>1
<1> HIDE DEF P
<1>13. 0 .. N \subseteq P
  BY <1>1, <1>11, <1>12, UpTo
<1>14. f[N] = K[N]
  BY <1>1, <1>13 DEF P
<1>15. IsAfter(f, step, S, st, s)
  BY <1>6, <1>7 DEF IsAfter, N
<1> QED
  BY <1>2, <1>14, <1>15 DEF N

\* A loop over nothing changes nothing.
LEMMA LoopNothing ==
    ASSUME NEW S, NEW T, NEW step \in Rounds(S, T), NEW st \in S
    PROVE  Loop(step, st, << >>) = st
<1>1. << >> \in Seq(T) /\ Len(<< >>) = 0
  OBVIOUS
<1>2. PICK h : IsAfter(h, step, S, st, << >>) /\ Loop(step, st, << >>) = h[Len(<< >>)]
  BY <1>1, LoopAfter, Zenon
<1> QED
  BY <1>1, <1>2 DEF IsAfter

\* A loop ends in one of its states.
LEMMA LoopEnds ==
    ASSUME NEW S, NEW T, NEW step \in Rounds(S, T), NEW st \in S, NEW s \in Seq(T)
    PROVE  Loop(step, st, s) \in S
<1>1. PICK f : IsAfter(f, step, S, st, s) /\ Loop(step, st, s) = f[Len(s)]
  BY LoopAfter
<1>2. Len(s) \in 0 .. Len(s)
  OBVIOUS
<1> QED
  BY <1>1, <1>2 DEF IsAfter

\* One more character.
LEMMA LoopAppend ==
    ASSUME NEW S, NEW T, NEW step \in Rounds(S, T), NEW st \in S, NEW s \in Seq(T), NEW c \in T
    PROVE  Loop(step, st, Append(s, c)) = step[<<Loop(step, st, s), c>>]
<1> DEFINE t == Append(s, c)
           n == Len(s)
<1>1. /\ t \in Seq(T) /\ Len(t) = n + 1 /\ n \in Nat
      /\ t[n + 1] = c /\ \A i \in 1 .. n : t[i] = s[i]
  OBVIOUS
<1> HIDE DEF t
<1>2. PICK f : IsAfter(f, step, S, st, s) /\ Loop(step, st, s) = f[n]
  BY LoopAfter
<1>3. PICK g : IsAfter(g, step, S, st, t) /\ Loop(step, st, t) = g[Len(t)]
  BY <1>1, LoopAfter, Zenon
<1> HIDE DEF n
<1> DEFINE P == {i \in 0 .. n : f[i] = g[i]}
<1>7. 0 \in P
  BY <1>1, <1>2, <1>3 DEF IsAfter, n
<1>8. ASSUME NEW i \in 1 .. n, i - 1 \in P PROVE i \in P
  <2>1. f[i] = step[<<f[i - 1], s[i]>>]
    BY <1>2 DEF IsAfter, n
  <2>2. i \in 1 .. Len(t)
    BY <1>1
  <2>3. g[i] = step[<<g[i - 1], t[i]>>]
    BY <1>3, <2>2 DEF IsAfter
  <2>4. t[i] = s[i] /\ f[i - 1] = g[i - 1] /\ i \in 0 .. n
    BY <1>1, <1>8
  <2> QED
    BY <2>1, <2>3, <2>4
<1> HIDE DEF P
<1>9. 0 .. n \subseteq P
  BY <1>1, <1>7, <1>8, UpTo
<1>10. f[n] = g[n]
  BY <1>1, <1>9 DEF P
<1>11. n + 1 \in 1 .. Len(t) /\ (n + 1) - 1 = n
  BY <1>1 DEF n
<1>12. g[n + 1] = step[<<g[(n + 1) - 1], t[n + 1]>>]
  BY <1>3, <1>11 DEF IsAfter
<1>13. Loop(step, st, t) = step[<<Loop(step, st, s), c>>]
  BY <1>1, <1>2, <1>3, <1>10, <1>11, <1>12, Zenon
<1> QED
  BY <1>13 DEF t

\* Two pieces, one behind the other.
LEMMA LoopConcat ==
    ASSUME NEW S, NEW T, NEW step \in Rounds(S, T), NEW st \in S, NEW s \in Seq(T), NEW u \in Seq(T)
    PROVE  Loop(step, st, s \o u) = Loop(step, Loop(step, st, s), u)
<1> DEFINE x == Loop(step, st, s)
           P == {t \in Seq(T) : Loop(step, st, s \o t) = Loop(step, x, t)}
<1>1. x \in S
  BY LoopEnds
<1> HIDE DEF x
<1>2. << >> \in P
  <2>1. s \o << >> = s /\ << >> \in Seq(T)
    OBVIOUS
  <2>2. Loop(step, x, << >>) = x
    BY <1>1, <2>1, LoopNothing
  <2> QED
    BY <2>1, <2>2 DEF x
<1>3. ASSUME NEW t \in Seq(T), NEW c \in T, t \in P PROVE Append(t, c) \in P
  <2> DEFINE w == s \o t
  <2>1. w \in Seq(T) /\ Append(t, c) \in Seq(T)
    OBVIOUS
  <2>2. s \o Append(t, c) = Append(w, c)
    OBVIOUS
  <2>5. Loop(step, st, w) = Loop(step, x, t)
    BY <1>3
  <2> HIDE DEF w
  <2>3. Loop(step, st, Append(w, c)) = step[<<Loop(step, st, w), c>>]
    BY <2>1, LoopAppend
  <2>4. Loop(step, x, Append(t, c)) = step[<<Loop(step, x, t), c>>]
    BY <1>1, LoopAppend
  <2>6. Loop(step, st, s \o Append(t, c)) = Loop(step, x, Append(t, c))
    BY <2>2, <2>3, <2>4, <2>5, Zenon
  <2> QED
    BY <2>1, <2>6
<1> HIDE DEF P
<1>4. Seq(T) \subseteq P
  BY <1>2, <1>3, SeqInduction
<1>5. u \in P
  BY <1>4
<1> QED
  BY <1>1, <1>5 DEF P, x

\* A single character.
LEMMA LoopOne ==
    ASSUME NEW S, NEW T, NEW step \in Rounds(S, T), NEW st \in S, NEW c \in T
    PROVE  Loop(step, st, << c >>) = step[<<st, c>>]
<1>1. PICK e : e = << >>
  OBVIOUS
<1>2. e \in Seq(T)
  BY <1>1
<1>3. Append(e, c) = << c >>
  BY <1>1
<1>4. Loop(step, st, Append(e, c)) = step[<<Loop(step, st, e), c>>]
  BY <1>2, LoopAppend
<1>5. Loop(step, st, << >>) = st
  BY <1>2, LoopNothing
<1> QED
  BY <1>1, <1>3, <1>4, <1>5

Text == Seq(Chars)

\* Three texts, one behind the other.
LEMMA TextConcat ==
    ASSUME NEW p \in Text, NEW q \in Text, NEW r \in Text
    PROVE  /\ p \o q \in Text /\ Len(p \o q) = Len(p) + Len(q)
           /\ (p \o q) \o r = p \o (q \o r)
BY DEF Text

-----------------------------------------------------------------------------
(* Cmdline: writing within the buffer. *)

PutStates == [rc : {0, 1}, out : Text]

PutRound(lim) == [p \in PutStates \X Chars |-> Put(p[1], p[2], lim)]

\* A round of the writing loop is Put.
LEMMA PutRoundIs ==
    ASSUME NEW lim \in Nat
    PROVE  /\ PutRound(lim) \in Rounds(PutStates, Chars)
           /\ \A st \in PutStates : \A c \in Chars : PutRound(lim)[<<st, c>>] = Put(st, c, lim)
<1>1. ASSUME NEW st \in PutStates, NEW c \in Chars PROVE Put(st, c, lim) \in PutStates
  <2>1. st.rc \in {0, 1} /\ st.out \in Text
    BY DEF PutStates
  <2>2. Append(st.out, c) \in Text
    BY <2>1 DEF Text
  <2> QED
    BY <2>1, <2>2 DEF Put, PutStates
<1>2. \A p \in PutStates \X Chars : Put(p[1], p[2], lim) \in PutStates
  BY <1>1
<1>3. PutRound(lim) \in Rounds(PutStates, Chars)
  BY <1>2 DEF PutRound, Rounds
<1>4. ASSUME NEW st \in PutStates, NEW c \in Chars PROVE PutRound(lim)[<<st, c>>] = Put(st, c, lim)
  <2>1. <<st, c>> \in PutStates \X Chars /\ <<st, c>>[1] = st /\ <<st, c>>[2] = c
    OBVIOUS
  <2> QED
    BY <2>1 DEF PutRound
<1> QED
  BY <1>3, <1>4

PutStart == [rc |-> 0, out |-> << >>]

\* The characters are written as long as they and the NUL fit.
LEMMA PutAll ==
    ASSUME NEW lim \in Nat, NEW s \in Text
    PROVE  IF Len(s) = 0 \/ Len(s) < lim
           THEN Loop(PutRound(lim), PutStart, s) = [rc |-> 0, out |-> s]
           ELSE Loop(PutRound(lim), PutStart, s).rc = 1
<1> DEFINE R(t) == Loop(PutRound(lim), PutStart, t)
           P == {t \in Text : IF Len(t) = 0 \/ Len(t) < lim THEN R(t) = [rc |-> 0, out |-> t]
                              ELSE R(t).rc = 1}
<1>0. PutRound(lim) \in Rounds(PutStates, Chars) /\ PutStart \in PutStates
  <2>1. << >> \in Text
    BY DEF Text
  <2> QED
    BY <2>1, PutRoundIs DEF PutStart, PutStates
<1>1. << >> \in P
  <2>1. << >> \in Seq(Chars) /\ Len(<< >>) = 0
    OBVIOUS
  <2>2. R(<< >>) = PutStart
    BY <1>0, <2>1, LoopNothing
  <2> QED
    BY <2>1, <2>2 DEF PutStart, Text
<1>2. ASSUME NEW t \in Seq(Chars), NEW c \in Chars, t \in P PROVE Append(t, c) \in P
  <2>1. /\ Append(t, c) \in Text /\ Len(Append(t, c)) = Len(t) + 1 /\ Len(t) \in Nat
        /\ t \in Text /\ (Len(t) = 0 => t = << >>)
    BY DEF Text
  <2>2. R(t) \in PutStates
    BY <1>0, LoopEnds
  <2>3. R(Append(t, c)) = PutRound(lim)[<<R(t), c>>]
    BY <1>0, LoopAppend
  <2>4. IF Len(t) = 0 \/ Len(t) < lim THEN R(t) = [rc |-> 0, out |-> t] ELSE R(t).rc = 1
    BY <1>2
  <2> DEFINE u == Append(t, c)
             r == R(t)
             z == R(u)
  <2>5. z = Put(r, c, lim)
    BY <2>2, <2>3, PutRoundIs
  <2>6. r \in PutStates /\ Len(u) = Len(t) + 1 /\ u = Append(t, c)
    BY <2>1, <2>2
  <2>7. IF Len(t) = 0 \/ Len(t) < lim THEN r = [rc |-> 0, out |-> t] ELSE r.rc = 1
    BY <2>4
  <2> HIDE DEF u, r, z
  <2>8. IF Len(u) = 0 \/ Len(u) < lim THEN z = [rc |-> 0, out |-> u] ELSE z.rc = 1
    <3>1. CASE Len(u) < lim
      <4>1. Len(t) < lim /\ Len(t) + 1 < lim
        BY <2>1, <2>6, <3>1
      <4>2. r = [rc |-> 0, out |-> t]
        BY <2>7, <4>1
      <4> QED
        BY <2>5, <2>6, <3>1, <4>1, <4>2 DEF Put
    <3>2. CASE ~(Len(u) < lim)
      <4>1. ~(Len(t) + 1 < lim) /\ Len(u) # 0
        BY <2>1, <2>6, <3>2
      <4>2. r.rc = 0 => r.out = t
        BY <2>7
      <4>3. z.rc = 1
        BY <2>5, <4>1, <4>2 DEF Put
      <4> QED
        BY <3>2, <4>1, <4>3
    <3> QED
      BY <3>1, <3>2
  <2> QED
    BY <2>1, <2>8 DEF u, z
<1> HIDE DEF P
<1>3. Seq(Chars) \subseteq P
  BY <1>1, <1>2, SeqInduction
<1>4. s \in P
  BY <1>3 DEF Text
<1> QED
  BY <1>4 DEF P

\* wtd_build_cmdline gives the whole line or an error, and the error exactly
\* when the line and its NUL do not fit.
LEMMA BuildIs ==
    ASSUME NEW args, Line(args) \in Text, NEW lim \in Nat
    PROVE  IF Len(Line(args)) < lim
           THEN wtd_build_cmdline(args, lim) = [rc |-> 0, out |-> Line(args)]
           ELSE wtd_build_cmdline(args, lim).rc = 1
<1> DEFINE s == Line(args)
           end == Loop(PutRound(lim), PutStart, s)
<1>1. wtd_build_cmdline(args, lim) =
         IF end.rc = 0 /\ Len(end.out) < lim THEN end ELSE [rc |-> 1, out |-> end.out]
  BY Zenon DEF wtd_build_cmdline, PutRound, PutStates, PutStart, Text
<1>2. IF Len(s) = 0 \/ Len(s) < lim THEN end = [rc |-> 0, out |-> s] ELSE end.rc = 1
  BY PutAll
<1>3. s \in Text /\ Len(s) \in Nat
  BY DEF Text
<1> HIDE DEF s, end
<1>4. CASE Len(s) < lim
  BY <1>1, <1>2, <1>4 DEF s
<1>5. CASE ~(Len(s) < lim)
  <2>1. end.rc = 0 => ~(Len(end.out) < lim)
    <3>1. CASE Len(s) = 0
      BY <1>2, <1>5, <3>1
    <3>2. CASE Len(s) # 0
      BY <1>2, <1>5, <3>2
    <3> QED
      BY <3>1, <3>2
  <2>2. wtd_build_cmdline(args, lim) = [rc |-> 1, out |-> end.out]
    BY <1>1, <2>1
  <2> QED
    BY <1>5, <2>2 DEF s
<1> QED
  BY <1>4, <1>5 DEF s

-----------------------------------------------------------------------------
(* Cmdline: reading one character of a command line. *)

DState(args, cur, bs, in) == [args |-> args, cur |-> cur, bs |-> bs, in |-> in]

DModes == {"gap", "bare", "quoted"}

DStates == [args : Seq(Text), cur : Text, bs : Nat, in : DModes]

\* Within an argument.
Begun(m) == IF m = "gap" THEN "bare" ELSE m

Backslashes(n) == [i \in 1 .. n |-> Backslash]

\* A run of backslashes, and one more.
LEMMA BackslashesAre ==
    ASSUME NEW n \in Nat
    PROVE  /\ Backslashes(n) \in Text /\ Len(Backslashes(n)) = n
           /\ Backslashes(0) = << >>
           /\ Append(Backslashes(n), Backslash) = Backslashes(n + 1)
<1>1. Backslash \in Chars
  BY DEF Chars
<1>2. Backslashes(n) \in Text /\ Len(Backslashes(n)) = n
  BY <1>1 DEF Backslashes, Text
<1>3. Backslashes(0) = << >>
  BY DEF Backslashes
<1>4. Append(Backslashes(n), Backslash) = Backslashes(n + 1)
  BY DEF Backslashes
<1> QED
  BY <1>2, <1>3, <1>4

\* A backslash is counted.
LEMMA DecodeBackslash ==
    ASSUME NEW A, NEW u, NEW b, NEW m
    PROVE  DecodeChar(DState(A, u, b, m), Backslash) = DState(A, u, b + 1, Begun(m))
BY DEF DecodeChar, DState, Begun

\* An odd run and a quote: half the run, and the quote.
LEMMA DecodeOddQuote ==
    ASSUME NEW A, NEW u, NEW n \in Nat, NEW m
    PROVE  DecodeChar(DState(A, u, 2 * n + 1, m), Quote)
              = DState(A, (u \o Backslashes(n)) \o << Quote >>, 0, Begun(m))
<1>1. (2 * n + 1) % 2 = 1 /\ (2 * n + 1) \div 2 = n /\ 2 * n + 1 \in Nat
  OBVIOUS
<1>2. PICK b \in Nat : b = 2 * n + 1 /\ b % 2 = 1 /\ b \div 2 = n
  BY <1>1
<1>3. PICK st : st = DState(A, u, b, m)
  OBVIOUS
<1>4. /\ st.args = A /\ st.cur = u /\ st.bs = b /\ st.in = m
      /\ Quote # Backslash /\ ~(b % 2 = 0)
  BY <1>2, <1>3 DEF DState, Quote, Backslash
<1>5. DecodeChar(st, Quote)
         = DState(st.args, (st.cur \o Backslashes(st.bs \div 2)) \o << Quote >>, 0, Begun(st.in))
  BY <1>4, Zenon DEF DecodeChar, DState, Backslashes, Begun
<1> QED
  BY <1>2, <1>3, <1>4, <1>5, Zenon

\* An even run and a quote: half the run, and a delimiter.
LEMMA DecodeEvenQuote ==
    ASSUME NEW A, NEW u, NEW n \in Nat, NEW m
    PROVE  DecodeChar(DState(A, u, 2 * n, m), Quote)
              = DState(A, u \o Backslashes(n), 0, IF m = "quoted" THEN "bare" ELSE "quoted")
<1>1. (2 * n) % 2 = 0 /\ (2 * n) \div 2 = n
  OBVIOUS
<1>2. PICK b \in Nat : b = 2 * n /\ b % 2 = 0 /\ b \div 2 = n
  BY <1>1
<1>3. DecodeChar(DState(A, u, b, m), Quote)
         = DState(A, u \o Backslashes(n), 0, IF m = "quoted" THEN "bare" ELSE "quoted")
  BY <1>2 DEF DecodeChar, DState, Backslashes, Backslash, Quote
<1> QED
  BY <1>2, <1>3

\* A blank ends an argument that has begun; between arguments it is skipped.
LEMMA DecodeBlank ==
    ASSUME NEW A, NEW u, NEW b
    PROVE  /\ DecodeChar(DState(A, u, b, "bare"), Blank)
                 = DState(Append(A, u \o Backslashes(b)), << >>, 0, "gap")
           /\ DecodeChar(DState(A, u, b, "gap"), Blank) = DState(A, u, b, "gap")
BY DEF DecodeChar, DState, Backslashes, Backslash, Quote, Blank

\* Any other character is literal, and so is the run before it.
LEMMA DecodeOther ==
    ASSUME NEW A, NEW u, NEW b, NEW m \in DModes, NEW c \in Chars,
           c # Backslash, c # Quote, c = Blank => m = "quoted"
    PROVE  DecodeChar(DState(A, u, b, m), c)
              = DState(A, (u \o Backslashes(b)) \o << c >>, 0, Begun(m))
BY DEF DecodeChar, DState, Backslashes, Backslash, Quote, Blank, Begun

\* The states of the decoder.
LEMMA DStateIs ==
    ASSUME NEW A \in Seq(Text), NEW u \in Text, NEW b \in Nat, NEW m \in DModes
    PROVE  DState(A, u, b, m) \in DStates
BY DEF DState, DStates

\* A character and a run in front of it, behind a text.
LEMMA TextGrows ==
    ASSUME NEW u \in Text, NEW n \in Nat, NEW c \in Chars
    PROVE  u \o Backslashes(n) \in Text /\ (u \o Backslashes(n)) \o << c >> \in Text
<1>1. Backslashes(n) \in Text /\ << c >> \in Text
  BY BackslashesAre DEF Text
<1>2. u \o Backslashes(n) \in Text
  BY <1>1, TextConcat
<1> QED
  BY <1>1, <1>2, TextConcat

\* One character keeps the decoder in its states.
LEMMA DecodeCharType ==
    ASSUME NEW st \in DStates, NEW c \in Chars
    PROVE  DecodeChar(st, c) \in DStates
<1>1. PICK A \in Seq(Text), u \in Text, b \in Nat, m \in DModes : st = DState(A, u, b, m)
  BY DEF DStates, DState
<1>0. /\ Backslash \in Chars /\ Quote \in Chars /\ 0 \in Nat /\ b + 1 \in Nat /\ << >> \in Text
      /\ Begun(m) \in DModes /\ "gap" \in DModes
      /\ (IF m = "quoted" THEN "bare" ELSE "quoted") \in DModes
  BY DEF Chars, Text, Begun, DModes
<1>2. CASE c = Backslash
  <2>1. DecodeChar(st, c) = DState(A, u, b + 1, Begun(m))
    BY <1>1, <1>2, DecodeBackslash
  <2> QED
    BY <1>0, <2>1, DStateIs
<1>3. CASE c = Quote
  <2> DEFINE n == b \div 2
  <2>1. n \in Nat /\ (b = 2 * n \/ b = 2 * n + 1)
    OBVIOUS
  <2> HIDE DEF n
  <2>2. u \o Backslashes(n) \in Text /\ (u \o Backslashes(n)) \o << Quote >> \in Text
    BY <1>0, <2>1, TextGrows
  <2>3. CASE b = 2 * n
    <3>1. DecodeChar(st, c)
             = DState(A, u \o Backslashes(n), 0, IF m = "quoted" THEN "bare" ELSE "quoted")
      BY <1>1, <1>3, <2>1, <2>3, DecodeEvenQuote
    <3> QED
      BY <1>0, <2>2, <3>1, DStateIs
  <2>4. CASE b = 2 * n + 1
    <3>1. DecodeChar(st, c) = DState(A, (u \o Backslashes(n)) \o << Quote >>, 0, Begun(m))
      BY <1>1, <1>3, <2>1, <2>4, DecodeOddQuote
    <3> QED
      BY <1>0, <2>2, <3>1, DStateIs
  <2> QED
    BY <2>1, <2>3, <2>4
<1>4. CASE c = Blank /\ m = "bare"
  <2>1. u \o Backslashes(b) \in Text
    BY <1>0, TextGrows
  <2>2. Append(A, u \o Backslashes(b)) \in Seq(Text)
    BY <2>1
  <2>3. DecodeChar(st, c) = DState(Append(A, u \o Backslashes(b)), << >>, 0, "gap")
    BY <1>1, <1>4, DecodeBlank
  <2> QED
    BY <1>0, <2>2, <2>3, DStateIs
<1>5. CASE c = Blank /\ m = "gap"
  BY <1>1, <1>5, DecodeBlank
<1>6. CASE c # Backslash /\ c # Quote /\ (c = Blank => m = "quoted")
  <2>1. DecodeChar(st, c) = DState(A, (u \o Backslashes(b)) \o << c >>, 0, Begun(m))
    BY <1>1, <1>6, DecodeOther
  <2>2. (u \o Backslashes(b)) \o << c >> \in Text
    BY TextGrows
  <2> QED
    BY <1>0, <2>1, <2>2, DStateIs
<1> QED
  BY <1>2, <1>3, <1>4, <1>5, <1>6 DEF DModes

DRound == [p \in DStates \X Chars |-> DecodeChar(p[1], p[2])]

\* A round of the decoding loop is DecodeChar.
LEMMA DRoundIs ==
    /\ DRound \in Rounds(DStates, Chars)
    /\ \A st \in DStates : \A c \in Chars : DRound[<<st, c>>] = DecodeChar(st, c)
<1>1. \A p \in DStates \X Chars : DecodeChar(p[1], p[2]) \in DStates
  BY DecodeCharType
<1>2. DRound \in Rounds(DStates, Chars)
  BY <1>1 DEF DRound, Rounds
<1>3. ASSUME NEW st \in DStates, NEW c \in Chars PROVE DRound[<<st, c>>] = DecodeChar(st, c)
  <2>1. <<st, c>> \in DStates \X Chars /\ <<st, c>>[1] = st /\ <<st, c>>[2] = c
    OBVIOUS
  <2> QED
    BY <2>1 DEF DRound
<1> QED
  BY <1>2, <1>3

-----------------------------------------------------------------------------
(* Cmdline: what follows a run of backslashes. *)

\* Behind a character that is none, the run is empty.
LEMMA AfterNone ==
    ASSUME NEW a \in Text, NEW i \in 1 .. Len(a), a[i] # Backslash
    PROVE  AfterRun(a, i) = a[i]
<1> DEFINE Is(j) == a[j] # Backslash /\ \A k \in i .. j - 1 : a[k] = Backslash
<1>0. Len(a) \in Nat
  BY DEF Text
<1>1. i \in i .. Len(a) /\ Is(i)
  BY <1>0
<1>2. ASSUME NEW j \in i .. Len(a), Is(j) PROVE j = i
  <2>1. j # i => i \in i .. j - 1
    BY <1>0
  <2> QED
    BY <1>2, <2>1
<1>3. (CHOOSE j \in i .. Len(a) : Is(j)) = i
  BY <1>1, <1>2
<1>4. AfterRun(a, i) = a[CHOOSE j \in i .. Len(a) : Is(j)]
  BY <1>1, Zenon DEF AfterRun
<1> QED
  BY <1>3, <1>4

\* A backslash is followed by what the rest of its run is followed by.
LEMMA AfterBackslash ==
    ASSUME NEW a \in Text, NEW i \in 1 .. Len(a), a[i] = Backslash
    PROVE  AfterRun(a, i) = AfterRun(a, i + 1)
<1>0. Len(a) \in Nat /\ i \in Nat
  BY DEF Text
<1>1. CASE ~ \E j \in i + 1 .. Len(a) : a[j] # Backslash
  <2>1. ~ \E j \in i .. Len(a) : a[j] # Backslash
    <3> SUFFICES ASSUME NEW j \in i .. Len(a) PROVE a[j] = Backslash
      OBVIOUS
    <3>1. j = i \/ j \in i + 1 .. Len(a)
      BY <1>0
    <3> QED
      BY <1>1, <3>1
  <2> QED
    BY <1>1, <2>1, Zenon DEF AfterRun
<1>2. CASE \E j \in i + 1 .. Len(a) : a[j] # Backslash
  <2> DEFINE T == {j \in i + 1 .. Len(a) : a[j] # Backslash}
             Is(h, j) == a[j] # Backslash /\ \A k \in h .. j - 1 : a[k] = Backslash
  <2>1. T \subseteq Nat /\ T # {}
    BY <1>0, <1>2
  <2>2. PICK m \in T : \A j \in T : m <= j
    BY <2>1, LeastOf
  <2>3. /\ m \in i + 1 .. Len(a) /\ m \in i .. Len(a) /\ a[m] # Backslash
        /\ m \in Nat
    BY <1>0, <2>2
  <2>4. \A k \in i + 1 .. m - 1 : a[k] = Backslash
    BY <1>0, <2>2, <2>3
  <2>5. \A k \in i .. m - 1 : a[k] = Backslash
    <3> TAKE k \in i .. m - 1
    <3>1. k = i \/ k \in i + 1 .. m - 1
      BY <1>0, <2>3
    <3> QED
      BY <2>4, <3>1
  <2>6. ASSUME NEW j \in i .. Len(a), Is(i, j) PROVE j = m
    <3>1. j \in Nat /\ j # i
      BY <1>0, <2>6
    <3>2. j < m => j \in i .. m - 1
      BY <1>0, <2>3, <3>1
    <3>3. m < j => m \in i .. j - 1
      BY <1>0, <2>3, <3>1
    <3>4. ~(j < m) /\ ~(m < j)
      BY <2>3, <2>5, <2>6, <3>2, <3>3
    <3> QED
      BY <2>3, <3>1, <3>4
  <2>7. ASSUME NEW j \in i + 1 .. Len(a), Is(i + 1, j) PROVE j = m
    <3>1. j \in Nat
      BY <1>0
    <3>2. j < m => j \in i + 1 .. m - 1
      BY <1>0, <2>3, <3>1
    <3>3. m < j => m \in i + 1 .. j - 1
      BY <1>0, <2>3, <3>1
    <3>4. ~(j < m) /\ ~(m < j)
      BY <2>3, <2>4, <2>7, <3>2, <3>3
    <3> QED
      BY <2>3, <3>1, <3>4
  <2>8. (CHOOSE j \in i .. Len(a) : Is(i, j)) = m
    BY <2>3, <2>5, <2>6
  <2>9. (CHOOSE j \in i + 1 .. Len(a) : Is(i + 1, j)) = m
    BY <2>3, <2>4, <2>7
  <2>10. AfterRun(a, i) = a[CHOOSE j \in i .. Len(a) : Is(i, j)]
    BY <2>3, Zenon DEF AfterRun
  <2>11. AfterRun(a, i + 1) = a[CHOOSE j \in i + 1 .. Len(a) : Is(i + 1, j)]
    BY <2>3, Zenon DEF AfterRun
  <2> QED
    BY <2>8, <2>9, <2>10, <2>11, Zenon
<1> QED
  BY <1>1, <1>2

\* Nothing follows the last character.
LEMMA AfterAll ==
    ASSUME NEW a \in Text
    PROVE  AfterRun(a, Len(a) + 1) = "end"
<1>1. ~ \E j \in Len(a) + 1 .. Len(a) : a[j] # Backslash
  <2>1. Len(a) \in Nat
    BY DEF Text
  <2> QED
    BY <2>1
<1> QED
  BY <1>1, Zenon DEF AfterRun

-----------------------------------------------------------------------------
(* Cmdline: encoded and decoded. *)

\* Whether a backslash at i is written twice.
Dbl(a, i) == AfterRun(a, i) = Quote \/ (AfterRun(a, i) = "end" /\ needs_quotes(a))

\* The first i characters of a have been read; a run of backslashes at their
\* end has been counted, and not been looked at.
Carries(a, A, m, i, st) ==
    \E u \in Text, n \in Nat :
       /\ u \o Backslashes(n) = SubSeq(a, 1, i)
       /\ st = DState(A, u, IF Dbl(a, i + 1) THEN 2 * n ELSE n, m)

\* One character more of an argument.
LEMMA TextPrefix ==
    ASSUME NEW a \in Text, NEW i \in 1 .. Len(a)
    PROVE  /\ a[i] \in Chars /\ SubSeq(a, 1, i - 1) \in Text /\ SubSeq(a, 1, i) \in Text
           /\ SubSeq(a, 1, i) = Append(SubSeq(a, 1, i - 1), a[i])
           /\ SubSeq(a, 1, i) = SubSeq(a, 1, i - 1) \o << a[i] >>
<1>1. Len(a) \in Nat /\ a[i] \in Chars /\ a \in Seq(Chars)
  BY DEF Text
<1>2. SubSeq(a, 1, i - 1) \in Seq(Chars) /\ SubSeq(a, 1, i) \in Seq(Chars)
  BY <1>1
<1>3. SubSeq(a, 1, i) = Append(SubSeq(a, 1, i - 1), a[i])
  BY <1>1
<1>4. Append(SubSeq(a, 1, i - 1), a[i]) = SubSeq(a, 1, i - 1) \o << a[i] >>
  BY <1>1, <1>2, AppendIsConcat
<1> QED
  BY <1>1, <1>2, <1>3, <1>4 DEF Text

\* One character, and two.
LEMMA DecodeOne ==
    ASSUME NEW st \in DStates, NEW c \in Chars, NEW d \in Chars
    PROVE  /\ Loop(DRound, st, << c >>) = DecodeChar(st, c)
           /\ Loop(DRound, st, << c, d >>) = DecodeChar(DecodeChar(st, c), d)
<1>1. DRound \in Rounds(DStates, Chars)
  BY DRoundIs
<1>2. Loop(DRound, st, << c >>) = DRound[<<st, c>>]
  BY <1>1, LoopOne
<1>3. Loop(DRound, st, << c >>) = DecodeChar(st, c)
  BY <1>2, DRoundIs
<1>4. PICK s : s = << c >>
  OBVIOUS
<1>5. s \in Seq(Chars)
  BY <1>4
<1>6. Append(s, d) = << c, d >>
  <2> DEFINE ws == Append(s, d)
             w == << c, d >>
  <2>1. Len(s) = 1 /\ s[1] = c
    BY <1>4
  <2>2. ws \in Seq(Chars) /\ Len(ws) = 2 /\ ws[1] = c /\ ws[2] = d
    <3>1. /\ Append(s, d) \in Seq(Chars) /\ Len(Append(s, d)) = Len(s) + 1
          /\ \A i \in 1 .. Len(s) : Append(s, d)[i] = s[i]
          /\ Append(s, d)[Len(s) + 1] = d
      BY <1>5, AppendProperties
    <3>2. 1 \in 1 .. 1 /\ 1 + 1 = 2
      OBVIOUS
    <3> QED
      BY <2>1, <3>1, <3>2, Zenon
  <2>3. w \in Seq(Chars) /\ Len(w) = 2 /\ w[1] = c /\ w[2] = d
    OBVIOUS
  <2> HIDE DEF ws, w
  <2>4. \A i \in 1 .. Len(ws) : ws[i] = w[i]
    BY <2>2, <2>3
  <2>5. ws = w
    BY <2>2, <2>3, <2>4, SeqEqual
  <2> QED
    BY <2>5 DEF ws, w
<1>7. Loop(DRound, st, Append(s, d)) = DRound[<<Loop(DRound, st, s), d>>]
  BY <1>1, <1>5, LoopAppend
<1>8. DecodeChar(st, c) \in DStates
  BY DecodeCharType
<1>9. DRound[<<DecodeChar(st, c), d>>] = DecodeChar(DecodeChar(st, c), d)
  BY <1>8, DRoundIs
<1> QED
  BY <1>3, <1>4, <1>6, <1>7, <1>9

\* What wtd_build_cmdline writes for a character.
LEMMA EscapedIs ==
    ASSUME NEW a, NEW i
    PROVE  /\ a[i] = Quote => Escaped(a, i) = << Backslash, Quote >>
           /\ a[i] = Backslash /\ Dbl(a, i) => Escaped(a, i) = << Backslash, Backslash >>
           /\ a[i] = Backslash /\ ~Dbl(a, i) => Escaped(a, i) = << Backslash >>
           /\ a[i] # Quote /\ a[i] # Backslash => Escaped(a, i) = << a[i] >>
<1>1. Quote # Backslash
  BY DEF Quote, Backslash
<1> QED
  BY <1>1, Zenon DEF Escaped, Dbl

\* One character of an argument, as it is written, is read as that character.
LEMMA CharDecodes ==
    ASSUME NEW a \in Text, NEW i \in 1 .. Len(a), NEW A \in Seq(Text), NEW m \in DModes,
           a[i] = Blank => m = "quoted",
           NEW st, Carries(a, A, m, i - 1, st)
    PROVE  Carries(a, A, Begun(m), i, Loop(DRound, st, Escaped(a, i)))
<1>0. i \in Nat /\ (i - 1) + 1 = i /\ Len(a) \in Nat
  BY DEF Text
<1>1. PICK u \in Text, n \in Nat :
         /\ u \o Backslashes(n) = SubSeq(a, 1, i - 1)
         /\ st = DState(A, u, IF Dbl(a, i) THEN 2 * n ELSE n, m)
  BY <1>0 DEF Carries
<1>2. /\ a[i] \in Chars /\ SubSeq(a, 1, i) \in Text
      /\ SubSeq(a, 1, i) = Append(SubSeq(a, 1, i - 1), a[i])
      /\ SubSeq(a, 1, i) = SubSeq(a, 1, i - 1) \o << a[i] >>
  BY TextPrefix
<1>3. /\ Backslash \in Chars /\ Quote \in Chars /\ Quote # Backslash /\ Begun(m) \in DModes
      /\ Begun(Begun(m)) = Begun(m) /\ 0 \in Nat /\ 2 * 0 = 0
      /\ 2 * n \in Nat /\ 2 * n + 1 \in Nat /\ n + 1 \in Nat /\ 2 * n + 2 = 2 * (n + 1)
      /\ (2 * n + 1) + 1 = 2 * (n + 1)
  BY DEF Chars, Quote, Backslash, Begun, DModes
<1>4. st \in DStates
  BY <1>1, <1>3, DStateIs
<1>5. ASSUME NEW r, r = DState(A, SubSeq(a, 1, i), 0, Begun(m))
      PROVE  Carries(a, A, Begun(m), i, r)
  <2>1. SubSeq(a, 1, i) \o Backslashes(0) = SubSeq(a, 1, i)
    <3>1. Backslashes(0) = << >>
      BY <1>3, BackslashesAre
    <3>2. \A t \in Text : t \o << >> = t
      BY DEF Text
    <3> QED
      BY <1>2, <3>1, <3>2, Zenon
  <2>2. (IF Dbl(a, i + 1) THEN 2 * 0 ELSE 0) = 0
    BY <1>3
  <2> QED
    BY <1>2, <1>3, <1>5, <2>1, <2>2, Zenon DEF Carries
<1>6. CASE a[i] = Quote
  <2>1. Dbl(a, i)
    BY <1>3, <1>6, AfterNone DEF Dbl
  <2>2. st = DState(A, u, 2 * n, m)
    BY <1>1, <2>1
  <2>3. Escaped(a, i) = << Backslash, Quote >>
    BY <1>6, EscapedIs
  <2>4. DecodeChar(st, Backslash) = DState(A, u, 2 * n + 1, Begun(m))
    BY <2>2, DecodeBackslash
  <2>5. DecodeChar(DState(A, u, 2 * n + 1, Begun(m)), Quote)
           = DState(A, (u \o Backslashes(n)) \o << Quote >>, 0, Begun(m))
    BY <1>3, DecodeOddQuote
  <2>6. Loop(DRound, st, Escaped(a, i))
           = DState(A, (u \o Backslashes(n)) \o << Quote >>, 0, Begun(m))
    <3>1. Loop(DRound, st, << Backslash, Quote >>) = DecodeChar(DecodeChar(st, Backslash), Quote)
      BY <1>3, <1>4, DecodeOne, Zenon
    <3> QED
      BY <2>3, <2>4, <2>5, <3>1, Zenon
  <2> QED
    BY <1>1, <1>2, <1>5, <1>6, <2>6
<1>7. CASE a[i] = Backslash
  <2>1. Dbl(a, i + 1) <=> Dbl(a, i)
    BY <1>7, AfterBackslash DEF Dbl
  <2>2. u \o Backslashes(n + 1) = SubSeq(a, 1, i)
    <3>1. Backslashes(n + 1) = Append(Backslashes(n), Backslash) /\ Backslashes(n) \in Text
      BY BackslashesAre
    <3>2. u \o Append(Backslashes(n), Backslash) = Append(u \o Backslashes(n), Backslash)
      <4>1. PICK x \in Seq(Chars) : x = Backslashes(n)
        BY <3>1 DEF Text
      <4>2. u \in Seq(Chars) /\ Backslash \in Chars
        BY <1>3 DEF Text
      <4>3. u \o Append(x, Backslash) = Append(u \o x, Backslash)
        BY <4>2
      <4> QED
        BY <4>1, <4>3, Zenon
    <3> QED
      BY <1>1, <1>2, <1>7, <3>1, <3>2, Zenon
  <2>3. Loop(DRound, st, Escaped(a, i))
           = DState(A, u, IF Dbl(a, i + 1) THEN 2 * (n + 1) ELSE n + 1, Begun(m))
    <3>1. CASE Dbl(a, i)
      <4>1. st = DState(A, u, 2 * n, m) /\ Escaped(a, i) = << Backslash, Backslash >>
        BY <1>1, <1>7, <3>1, EscapedIs
      <4>2. DecodeChar(st, Backslash) = DState(A, u, 2 * n + 1, Begun(m))
        BY <4>1, DecodeBackslash
      <4>3. DecodeChar(DState(A, u, 2 * n + 1, Begun(m)), Backslash)
               = DState(A, u, 2 * (n + 1), Begun(m))
        BY <1>3, DecodeBackslash
      <4> QED
        <5>1. Loop(DRound, st, << Backslash, Backslash >>)
                 = DecodeChar(DecodeChar(st, Backslash), Backslash)
          BY <1>3, <1>4, DecodeOne, Zenon
        <5> QED
          BY <2>1, <3>1, <4>1, <4>2, <4>3, <5>1, Zenon
    <3>2. CASE ~Dbl(a, i)
      <4>1. st = DState(A, u, n, m) /\ Escaped(a, i) = << Backslash >>
        BY <1>1, <1>7, <3>2, EscapedIs
      <4>2. DecodeChar(st, Backslash) = DState(A, u, n + 1, Begun(m))
        BY <4>1, DecodeBackslash
      <4> QED
        BY <1>3, <1>4, <2>1, <3>2, <4>1, <4>2, DecodeOne
    <3> QED
      BY <3>1, <3>2
  <2> QED
    BY <1>3, <2>2, <2>3 DEF Carries
<1>8. CASE a[i] # Backslash /\ a[i] # Quote
  <2>1. AfterRun(a, i) = a[i]
    BY <1>8, AfterNone
  <2>2. ~Dbl(a, i)
    <3>1. a[i] # "end"
      BY <1>2 DEF Chars, Blank, Quote, Backslash
    <3> QED
      BY <1>8, <2>1, <3>1 DEF Dbl
  <2>3. st = DState(A, u, n, m)
    BY <1>1, <2>2
  <2>4. Escaped(a, i) = << a[i] >>
    BY <1>8, EscapedIs
  <2>5. DecodeChar(st, a[i]) = DState(A, (u \o Backslashes(n)) \o << a[i] >>, 0, Begun(m))
    BY <1>2, <1>8, <2>3, DecodeOther
  <2>6. Loop(DRound, st, Escaped(a, i))
           = DState(A, (u \o Backslashes(n)) \o << a[i] >>, 0, Begun(m))
    BY <1>2, <1>4, <2>4, <2>5, DecodeOne
  <2> QED
    BY <1>1, <1>2, <1>5, <2>6
<1> QED
  BY <1>6, <1>7, <1>8

Pieces(a) == [i \in 1 .. Len(a) |-> Escaped(a, i)]

\* It is text of one or two characters.
LEMMA PiecesAre ==
    ASSUME NEW a \in Text
    PROVE  /\ Pieces(a) \in Seq(Text) /\ Len(Pieces(a)) = Len(a)
           /\ \A i \in 1 .. Len(a) : /\ Pieces(a)[i] = Escaped(a, i) /\ Escaped(a, i) \in Text
                                     /\ Len(Escaped(a, i)) <= 2
<1>0. Len(a) \in Nat
  BY DEF Text
<1>1. ASSUME NEW i \in 1 .. Len(a) PROVE Escaped(a, i) \in Text /\ Len(Escaped(a, i)) <= 2
  <2>1. Backslash \in Chars /\ Quote \in Chars /\ a[i] \in Chars
    BY <1>0 DEF Chars, Text
  <2>2. ASSUME NEW c \in Chars, NEW d \in Chars
        PROVE  << c >> \in Text /\ Len(<< c >>) = 1 /\ << c, d >> \in Text /\ Len(<< c, d >>) = 2
    BY DEF Text
  <2>3. Escaped(a, i) \in {<< Backslash, Quote >>, << Backslash, Backslash >>, << Backslash >>, << a[i] >>}
    BY EscapedIs, Zenon
  <2>4. /\ << Backslash, Quote >> \in Text /\ Len(<< Backslash, Quote >>) = 2
        /\ << Backslash, Backslash >> \in Text /\ Len(<< Backslash, Backslash >>) = 2
        /\ << Backslash >> \in Text /\ Len(<< Backslash >>) = 1
        /\ << a[i] >> \in Text /\ Len(<< a[i] >>) = 1
    BY <2>1, <2>2, Zenon
  <2>5. 1 <= 2 /\ 2 <= 2
    OBVIOUS
  <2> QED
    BY <2>3, <2>4, <2>5, Zenon
<1>2. /\ Pieces(a) \in Seq(Text) /\ Len(Pieces(a)) = Len(a)
      /\ \A i \in 1 .. Len(a) : Pieces(a)[i] = Escaped(a, i)
  BY <1>0, <1>1 DEF Pieces
<1> QED
  BY <1>1, <1>2

\* All characters of an argument.
LEMMA BodyDecodes ==
    ASSUME NEW a \in Text, NEW A \in Seq(Text), NEW m \in DModes, needs_quotes(a) => m = "quoted"
    PROVE  /\ FlattenSeq(Pieces(a)) \in Text
           /\ Carries(a, A, IF a = << >> THEN m ELSE Begun(m), Len(a),
                      Loop(DRound, DState(A, << >>, 0, m), FlattenSeq(Pieces(a))))
<1> DEFINE st == DState(A, << >>, 0, m)
           N == Len(a)
           ss == Pieces(a)
<1>0. /\ N \in Nat /\ << >> \in Text /\ 0 \in Nat /\ (a = << >> <=> N = 0)
  BY DEF Text
<1>1. ss \in Seq(Text) /\ Len(ss) = N /\ \A i \in 1 .. N : ss[i] = Escaped(a, i) /\ Escaped(a, i) \in Text
  BY PiecesAre
<1>2. ss \in Seq(Seq(Chars))
  BY <1>1 DEF Text
<1>3. st \in DStates /\ DRound \in Rounds(DStates, Chars)
  BY <1>0, DStateIs, DRoundIs
<1>4. PICK f : IsFlat(f, ss, Chars) /\ FlattenSeq(ss) = f[N]
  BY <1>1, <1>2, FlattenLoop
<1> HIDE DEF ss
<1>5. f \in [0 .. N -> Seq(Chars)] /\ f[0] = << >> /\ \A i \in 1 .. N : f[i] = f[i - 1] \o ss[i]
  BY <1>1, <1>4 DEF IsFlat
<1> DEFINE M(i) == IF i = 0 THEN m ELSE Begun(m)
           P == {i \in 0 .. N : Carries(a, A, M(i), i, Loop(DRound, st, f[i]))}
<1>6. 0 \in P
  <2>1. Loop(DRound, st, f[0]) = st
    BY <1>3, <1>5, LoopNothing
  <2>2. << >> \o Backslashes(0) = SubSeq(a, 1, 0)
    <3>1. Backslashes(0) = << >>
      BY <1>0, BackslashesAre
    <3>2. << >> \o << >> = << >> /\ SubSeq(a, 1, 0) = << >>
      BY DEF Text
    <3> QED
      BY <3>1, <3>2
  <2>3. (IF Dbl(a, 0 + 1) THEN 2 * 0 ELSE 0) = 0
    OBVIOUS
  <2>4. Carries(a, A, m, 0, st)
    BY <1>0, <2>2, <2>3, Zenon DEF Carries
  <2> QED
    BY <1>0, <2>1, <2>4
<1>7. ASSUME NEW i \in 1 .. N, i - 1 \in P PROVE i \in P
  <2>1. /\ i - 1 \in 0 .. N /\ i \in 0 .. N /\ i # 0
        /\ Carries(a, A, M(i - 1), i - 1, Loop(DRound, st, f[i - 1]))
    BY <1>0, <1>7
  <2>2. M(i - 1) \in DModes /\ Begun(M(i - 1)) = Begun(m) /\ M(i) = Begun(m)
    BY <2>1 DEF Begun, DModes
  <2>3. a[i] = Blank => M(i - 1) = "quoted"
    <3>1. a[i] = Blank => needs_quotes(a)
      BY <1>0 DEF needs_quotes, Has
    <3> QED
      BY <3>1 DEF Begun
  <2> HIDE DEF M
  <2>4. Carries(a, A, Begun(m), i, Loop(DRound, Loop(DRound, st, f[i - 1]), Escaped(a, i)))
    BY <2>1, <2>2, <2>3, CharDecodes
  <2>5. f[i] = f[i - 1] \o Escaped(a, i) /\ f[i - 1] \in Seq(Chars) /\ Escaped(a, i) \in Seq(Chars)
    BY <1>1, <1>5, <2>1 DEF Text
  <2> DEFINE e == Escaped(a, i)
             g == f[i - 1]
  <2>6. e \in Seq(Chars) /\ g \in Seq(Chars) /\ f[i] = g \o e
    BY <2>5
  <2> HIDE DEF e, g, st
  <2>7. Loop(DRound, st, g \o e) = Loop(DRound, Loop(DRound, st, g), e)
    BY <1>3, <2>6, LoopConcat
  <2>8. Carries(a, A, M(i), i, Loop(DRound, st, f[i]))
    BY <2>2, <2>4, <2>6, <2>7, Zenon DEF e, g
  <2> QED
    BY <2>1, <2>8
<1> HIDE DEF P, st
<1>8. 0 .. N \subseteq P
  BY <1>0, <1>6, <1>7, UpTo
<1>9. N \in P /\ N \in 0 .. N
  BY <1>0, <1>8
<1>10. Carries(a, A, M(N), N, Loop(DRound, st, f[N]))
  BY <1>9 DEF P
<1>11. M(N) = IF a = << >> THEN m ELSE Begun(m)
  BY <1>0
<1>12. f[N] \in Text
  BY <1>5, <1>9 DEF Text
<1> HIDE DEF M
<1> QED
  BY <1>4, <1>10, <1>11, <1>12, Zenon DEF st, ss

\* An argument is read as it was given, and the decoder is between arguments
\* again.
LEMMA ArgDecodes ==
    ASSUME NEW a \in Text, NEW A \in Seq(Text)
    PROVE  /\ EncodedArg(a) \in Text
           /\ Loop(DRound, DState(A, << >>, 0, "gap"), EncodedArg(a) \o << Blank >>)
                 = DState(Append(A, a), << >>, 0, "gap")
<1> DEFINE body == FlattenSeq(Pieces(a))
           gap == DState(A, << >>, 0, "gap")
           D(st, s) == Loop(DRound, st, s)
<1>0. /\ Len(a) \in Nat /\ << >> \in Text /\ 0 \in Nat /\ Quote \in Chars /\ Blank \in Chars
      /\ << Quote >> \in Text /\ << Blank >> \in Text /\ 2 * 0 = 0
      /\ "gap" \in DModes /\ "quoted" \in DModes /\ "bare" \in DModes
      /\ \A t \in Text : t \o << >> = t
      /\ SubSeq(a, 1, Len(a)) = a
  BY SubSeqFull DEF Text, Chars, DModes
<1>1. DRound \in Rounds(DStates, Chars) /\ gap \in DStates
  BY <1>0, DRoundIs, DStateIs
<1>2. EncodedArg(a) = IF needs_quotes(a) THEN (<< Quote >> \o body) \o << Quote >> ELSE body
  BY Zenon DEF EncodedArg, Pieces
<1>3. body \in Text
  BY <1>0, BodyDecodes
<1>4. Backslashes(0) = << >>
  BY <1>0, BackslashesAre
<1>5. ASSUME NEW st \in DStates, NEW s \in Text, NEW t \in Text
      PROVE  D(st, s) \in DStates /\ D(st, s \o t) = D(D(st, s), t)
  BY <1>1, LoopEnds, LoopConcat DEF Text
<1>6. ASSUME NEW st \in DStates, NEW c \in Chars
      PROVE  D(st, << c >>) = DecodeChar(st, c) /\ D(st, << c >>) \in DStates
  BY DecodeOne, DecodeCharType
<1> HIDE DEF body, D, gap
<1>7. CASE needs_quotes(a)
  <2> DEFINE open == DState(A, << >>, 0, "quoted")
  <2>1. D(gap, << Quote >>) = open
    <3>1. DecodeChar(DState(A, << >>, 2 * 0, "gap"), Quote)
             = DState(A, << >> \o Backslashes(0), 0, "quoted")
      BY <1>0, DecodeEvenQuote
    <3>2. DecodeChar(gap, Quote) = open
      BY <1>0, <1>4, <3>1 DEF gap
    <3> QED
      BY <1>0, <1>1, <1>6, <3>2
  <2>2. open \in DStates
    BY <1>0, DStateIs
  <2>3. Carries(a, A, "quoted", Len(a), D(open, body))
    <3>1. (IF a = << >> THEN "quoted" ELSE Begun("quoted")) = "quoted"
      BY DEF Begun
    <3>2. Carries(a, A, IF a = << >> THEN "quoted" ELSE Begun("quoted"), Len(a),
                  Loop(DRound, DState(A, << >>, 0, "quoted"), FlattenSeq(Pieces(a))))
      BY <1>0, BodyDecodes
    <3> QED
      BY <3>1, <3>2, Zenon DEF D, body
  <2>4. Dbl(a, Len(a) + 1)
    BY <1>7, AfterAll DEF Dbl
  <2>5. PICK u \in Text, n \in Nat : u \o Backslashes(n) = a /\ D(open, body) = DState(A, u, 2 * n, "quoted")
    BY <1>0, <2>3, <2>4 DEF Carries
  <2> HIDE DEF open
  <2>6. D(open, body) \in DStates
    BY <1>3, <1>5, <2>2
  <2>7. D(D(open, body), << Quote >>) = DState(A, a, 0, "bare")
    <3>1. DecodeChar(DState(A, u, 2 * n, "quoted"), Quote)
             = DState(A, u \o Backslashes(n), 0, "bare")
      BY DecodeEvenQuote
    <3> QED
      BY <1>0, <1>6, <2>5, <2>6, <3>1
  <2>8. DState(A, a, 0, "bare") \in DStates
    BY <1>0, DStateIs
  <2>9. D(DState(A, a, 0, "bare"), << Blank >>) = DState(Append(A, a), << >>, 0, "gap")
    <3>1. DecodeChar(DState(A, a, 0, "bare"), Blank)
             = DState(Append(A, a \o Backslashes(0)), << >>, 0, "gap")
      BY DecodeBlank
    <3>2. a \o Backslashes(0) = a
      BY <1>0, <1>4
    <3> QED
      BY <1>0, <1>6, <2>8, <3>1, <3>2
  <2>10. << Quote >> \o body \in Text /\ (<< Quote >> \o body) \o << Quote >> \in Text
    BY <1>0, <1>3, TextConcat
  <2>11. D(gap, << Quote >> \o body) = D(open, body)
    BY <1>0, <1>1, <1>3, <1>5, <2>1
  <2>12. D(gap, (<< Quote >> \o body) \o << Quote >>) = DState(A, a, 0, "bare")
    BY <1>0, <1>1, <1>5, <2>7, <2>10, <2>11
  <2>13. D(gap, ((<< Quote >> \o body) \o << Quote >>) \o << Blank >>)
            = DState(Append(A, a), << >>, 0, "gap")
    BY <1>0, <1>1, <1>5, <2>9, <2>10, <2>12
  <2> QED
    BY <1>2, <1>7, <2>10, <2>13, Zenon DEF D, gap
<1>8. CASE ~needs_quotes(a)
  <2>1. a # << >>
    BY <1>8 DEF needs_quotes
  <2>2. Carries(a, A, "bare", Len(a), D(gap, body))
    <3>1. (IF a = << >> THEN "gap" ELSE Begun("gap")) = "bare"
      BY <2>1 DEF Begun
    <3>2. Carries(a, A, IF a = << >> THEN "gap" ELSE Begun("gap"), Len(a),
                  Loop(DRound, DState(A, << >>, 0, "gap"), FlattenSeq(Pieces(a))))
      BY <1>0, <1>8, BodyDecodes
    <3> QED
      BY <3>1, <3>2, Zenon DEF D, body, gap
  <2>3. ~Dbl(a, Len(a) + 1)
    BY <1>8, AfterAll DEF Dbl, Quote
  <2>4. PICK u \in Text, n \in Nat : u \o Backslashes(n) = a /\ D(gap, body) = DState(A, u, n, "bare")
    BY <1>0, <2>2, <2>3 DEF Carries
  <2>5. D(gap, body) \in DStates
    BY <1>1, <1>3, <1>5
  <2>6. DecodeChar(DState(A, u, n, "bare"), Blank)
           = DState(Append(A, u \o Backslashes(n)), << >>, 0, "gap")
    BY DecodeBlank
  <2>7. D(D(gap, body), << Blank >>) = DState(Append(A, a), << >>, 0, "gap")
    BY <1>0, <1>6, <2>4, <2>5, <2>6
  <2>8. D(gap, body \o << Blank >>) = DState(Append(A, a), << >>, 0, "gap")
    BY <1>0, <1>1, <1>3, <1>5, <2>7
  <2> QED
    BY <1>2, <1>3, <1>8, <2>8, Zenon DEF D, gap
<1> QED
  BY <1>7, <1>8

\* What the blank before an argument and the argument are written as.
WordOf(i, a) == IF i = 1 THEN EncodedArg(a) ELSE << Blank >> \o EncodedArg(a)

\* The line grows by one word with each argument.
LEMMA LineGrows ==
    ASSUME NEW ws \in Seq(Text), NEW a \in Text
    PROVE  /\ Line(<< >>) = << >> /\ Line(ws) \in Text
           /\ WordOf(Len(ws) + 1, a) \in Text
           /\ Line(Append(ws, a)) = Line(ws) \o WordOf(Len(ws) + 1, a)
<1> DEFINE W(w) == [i \in 1 .. Len(w) |-> WordOf(i, w[i])]
           w == Append(ws, a)
           n == Len(ws)
           x == WordOf(n + 1, a)
<1>0. Blank \in Chars /\ << Blank >> \in Text /\ << >> \in Seq(Text)
  BY DEF Chars, Text
<1>1. ASSUME NEW i, NEW b \in Text PROVE WordOf(i, b) \in Text
  <2>1. EncodedArg(b) \in Text
    BY <1>0, ArgDecodes
  <2> QED
    BY <1>0, <2>1, TextConcat DEF WordOf
<1>2. ASSUME NEW y \in Seq(Text) PROVE W(y) \in Seq(Seq(Chars)) /\ Len(W(y)) = Len(y)
  <2>1. Len(y) \in Nat /\ \A i \in 1 .. Len(y) : y[i] \in Text
    OBVIOUS
  <2>2. \A i \in 1 .. Len(y) : WordOf(i, y[i]) \in Seq(Chars)
    BY <1>1, <2>1 DEF Text
  <2> QED
    BY <2>1, <2>2
<1>3. \A y : Line(y) = FlattenSeq(W(y))
  BY Zenon DEF Line, WordOf
<1>4. /\ w \in Seq(Text) /\ n \in Nat /\ Len(w) = n + 1 /\ w[n + 1] = a
      /\ \A i \in 1 .. n : w[i] = ws[i]
  OBVIOUS
<1>5. x \in Seq(Chars)
  BY <1>1 DEF Text
<1> HIDE DEF w, x, n
<1>6. W(w) = Append(W(ws), x)
  <2> DEFINE p == W(w)
             q == Append(W(ws), x)
  <2>1. p \in Seq(Seq(Chars)) /\ Len(p) = n + 1 /\ \A i \in 1 .. n + 1 : p[i] = WordOf(i, w[i])
    BY <1>2, <1>4
  <2>2. W(ws) \in Seq(Seq(Chars)) /\ Len(W(ws)) = n /\ \A i \in 1 .. n : W(ws)[i] = WordOf(i, ws[i])
    BY <1>2 DEF n
  <2>3. /\ q \in Seq(Seq(Chars)) /\ Len(q) = n + 1 /\ q[n + 1] = x
        /\ \A i \in 1 .. n : q[i] = W(ws)[i]
    BY <1>4, <1>5, <2>2, AppendProperties
  <2> HIDE DEF p, q, W
  <2>4. ASSUME NEW i \in 1 .. Len(p) PROVE p[i] = q[i]
    <3>1. i \in 1 .. n + 1 /\ (i = n + 1 \/ i \in 1 .. n)
      BY <1>4, <2>1
    <3>2. CASE i = n + 1
      BY <1>4, <2>1, <2>3, <3>1, <3>2 DEF x
    <3>3. CASE i \in 1 .. n
      BY <1>4, <2>1, <2>2, <2>3, <3>1, <3>3
    <3> QED
      BY <3>1, <3>2, <3>3
  <2>5. p = q
    BY <2>1, <2>3, <2>4, SeqEqual
  <2> QED
    BY <2>5 DEF p, q
<1>7. FlattenSeq(W(ws)) \in Seq(Chars)
  <2>1. PICK ss \in Seq(Seq(Chars)) : ss = W(ws)
    BY <1>2
  <2>2. FlattenSeq(ss) \in Seq(Chars)
    BY FlattenType
  <2> QED
    BY <2>1, <2>2
<1>8. FlattenSeq(Append(W(ws), x)) = FlattenSeq(W(ws)) \o x
  <2>1. PICK ss \in Seq(Seq(Chars)) : ss = W(ws)
    BY <1>2
  <2>2. FlattenSeq(Append(ss, x)) = FlattenSeq(ss) \o x
    BY <1>5, FlattenAppend
  <2> QED
    BY <2>1, <2>2
<1>9. Line(<< >>) = << >>
  <2>1. PICK ss \in Seq(Seq(Chars)) : ss = W(<< >>) /\ Len(ss) = 0
    BY <1>0, <1>2
  <2>2. ss = << >>
    BY <2>1
  <2>3. FlattenSeq(ss) = << >>
    BY <2>2, FlattenType
  <2> QED
    BY <1>3, <2>1, <2>3
<1> QED
  BY <1>1, <1>3, <1>6, <1>7, <1>8, <1>9 DEF Text, w, x, n

\* A whole command line is read as the arguments it was made of.
LEMMA LineDecodes ==
    ASSUME NEW ws \in Seq(Text)
    PROVE  Loop(DRound, DState(<< >>, << >>, 0, "gap"), Line(ws) \o << Blank >>)
              = DState(ws, << >>, 0, "gap")
<1> DEFINE start == DState(<< >>, << >>, 0, "gap")
           P == {w \in Seq(Text) : Loop(DRound, start, Line(w) \o << Blank >>)
                                      = DState(w, << >>, 0, "gap")}
<1>0. /\ Blank \in Chars /\ << Blank >> \in Text
      /\ << >> \in Text /\ << >> \in Seq(Text) /\ 0 \in Nat
      /\ "gap" \in DModes /\ \A t \in Text : << >> \o t = t
  BY DEF Chars, Text, DModes
<1>1. DRound \in Rounds(DStates, Chars) /\ start \in DStates
  BY <1>0, DRoundIs, DStateIs
<1>2. << >> \in P
  <2>1. Line(<< >>) = << >>
    BY <1>0, LineGrows
  <2>2. Line(<< >>) \o << Blank >> = << Blank >>
    BY <1>0, <2>1
  <2>3. DecodeChar(start, Blank) = start
    BY DecodeBlank
  <2>4. Loop(DRound, start, << Blank >>) = start
    BY <1>0, <1>1, <2>3, DecodeOne
  <2> QED
    BY <1>0, <2>2, <2>4
<1>3. ASSUME NEW w \in Seq(Text), NEW a \in Text, w \in P PROVE Append(w, a) \in P
  <2> DEFINE L == Line(w)
             e == EncodedArg(a)
             b == << Blank >>
             st == DState(w, << >>, 0, "gap")
             fin == DState(Append(w, a), << >>, 0, "gap")
  <2>1. Append(w, a) \in Seq(Text) /\ Len(w) \in Nat /\ (w # << >> => Len(w) + 1 # 1)
        /\ (w = << >> => Len(w) + 1 = 1)
    OBVIOUS
  <2>2. e \in Text /\ Loop(DRound, st, e \o b) = fin /\ b \in Text
    BY <1>0, ArgDecodes
  <2>3. L \in Text /\ Line(Append(w, a)) = L \o WordOf(Len(w) + 1, a) /\ Line(<< >>) = << >>
    BY LineGrows
  <2>4. Loop(DRound, start, L \o b) = st
    BY <1>3
  <2> HIDE DEF L, e, b, fin
  <2>5. CASE w = << >>
    <3>1. Line(Append(w, a)) = e
      BY <1>0, <2>1, <2>2, <2>3, <2>5 DEF L, WordOf, e
    <3>2. st = start
      BY <2>5
    <3> QED
      BY <2>1, <2>2, <3>1, <3>2 DEF b, fin
  <2>6. CASE w # << >>
    <3>1. Line(Append(w, a)) = L \o (b \o e)
      BY <2>1, <2>3, <2>6 DEF WordOf, b, e
    <3>2. (L \o (b \o e)) \o b = (L \o b) \o (e \o b)
      <4>1. /\ b \o e \in Text /\ e \o b \in Text
            /\ (b \o e) \o b = b \o (e \o b)
        BY <2>2, TextConcat
      <4>2. (L \o (b \o e)) \o b = L \o ((b \o e) \o b)
        BY <2>2, <2>3, <4>1, TextConcat
      <4>3. (L \o b) \o (e \o b) = L \o (b \o (e \o b))
        <5>1. PICK x \in Text : x = e \o b
          BY <4>1
        <5>2. (L \o b) \o x = L \o (b \o x)
          BY <2>2, <2>3, TextConcat
        <5> QED
          BY <5>1, <5>2, Zenon
      <4> QED
        BY <4>1, <4>2, <4>3, Zenon
    <3> DEFINE p == L \o b
               q == e \o b
    <3>3. p \in Seq(Chars) /\ q \in Seq(Chars)
      BY <2>2, <2>3, TextConcat DEF Text
    <3> HIDE DEF p, q, start, st
    <3>4. Loop(DRound, start, p \o q) = Loop(DRound, Loop(DRound, start, p), q)
      BY <1>1, <3>3, LoopConcat
    <3>5. Loop(DRound, start, Line(Append(w, a)) \o b) = fin
      BY <2>2, <2>4, <3>1, <3>2, <3>4, Zenon DEF p, q
    <3> QED
      BY <2>1, <3>5 DEF b, fin, start
  <2> QED
    BY <2>5, <2>6
<1> HIDE DEF P
<1>4. Seq(Text) \subseteq P
  BY <1>2, <1>3, SeqInduction
<1> QED
  BY <1>4 DEF P

-----------------------------------------------------------------------------
(* Cmdline: how long a command line is. *)

\* An argument is written in at most two characters for each of its own, and
\* two quotes.
LEMMA EncodedLength ==
    ASSUME NEW a \in Text
    PROVE  EncodedArg(a) \in Text /\ Len(EncodedArg(a)) <= 2 * Len(a) + 2
<1> DEFINE N == Len(a)
           ss == Pieces(a)
           body == FlattenSeq(ss)
<1>0. /\ N \in Nat /\ Quote \in Chars
      /\ << Quote >> \in Text /\ Len(<< Quote >>) = 1 /\ << >> \in Seq(Text)
  BY DEF Text, Chars
<1>1. /\ ss \in Seq(Text) /\ Len(ss) = N
      /\ \A i \in 1 .. N : ss[i] \in Text /\ Len(ss[i]) <= 2
  BY PiecesAre
<1>2. EncodedArg(a) = IF needs_quotes(a) THEN (<< Quote >> \o body) \o << Quote >> ELSE body
  BY Zenon DEF EncodedArg, Pieces
<1> HIDE DEF ss
<1>3. ss \in Seq(Seq(Chars))
  BY <1>1 DEF Text
<1>4. PICK f : IsFlat(f, ss, Chars) /\ FlattenSeq(ss) = f[N]
  BY <1>1, <1>3, FlattenLoop
<1>5. f \in [0 .. N -> Text] /\ f[0] = << >> /\ \A i \in 1 .. N : f[i] = f[i - 1] \o ss[i]
  BY <1>1, <1>4 DEF IsFlat, Text
<1> DEFINE P == {i \in 0 .. N : Len(f[i]) <= 2 * i}
<1>6. 0 \in P
  <2>1. Len(<< >>) = 0
    OBVIOUS
  <2> QED
    BY <1>0, <1>5, <2>1
<1>7. ASSUME NEW i \in 1 .. N, i - 1 \in P PROVE i \in P
  <2>1. i \in 0 .. N /\ i - 1 \in 0 .. N /\ i \in Nat /\ Len(f[i - 1]) <= 2 * (i - 1)
    BY <1>0, <1>7
  <2>2. f[i - 1] \in Text /\ ss[i] \in Text /\ Len(ss[i]) <= 2 /\ f[i] = f[i - 1] \o ss[i]
    BY <1>1, <1>5, <2>1
  <2>3. Len(f[i]) = Len(f[i - 1]) + Len(ss[i]) /\ Len(f[i - 1]) \in Nat /\ Len(ss[i]) \in Nat
    BY <2>2 DEF Text
  <2>4. ASSUME NEW x \in Nat, NEW y \in Nat, x <= 2 * (i - 1), y <= 2 PROVE x + y <= 2 * i
    BY <2>1, <2>4
  <2>5. Len(f[i]) <= 2 * i
    BY <2>1, <2>2, <2>3, <2>4
  <2> QED
    BY <2>1, <2>5
<1> HIDE DEF P
<1>8. 0 .. N \subseteq P
  BY <1>0, <1>6, <1>7, UpTo
<1>9. N \in 0 .. N /\ N \in P
  BY <1>0, <1>8
<1>10. body \in Text /\ Len(body) \in Nat /\ Len(body) <= 2 * N
  BY <1>4, <1>5, <1>9 DEF P, Text
<1> HIDE DEF body
<1>11. CASE ~needs_quotes(a)
  BY <1>0, <1>2, <1>10, <1>11
<1>12. CASE needs_quotes(a)
  <2>1. << Quote >> \o body \in Text /\ Len(<< Quote >> \o body) = 1 + Len(body)
    BY <1>0, <1>10, TextConcat
  <2>2. /\ (<< Quote >> \o body) \o << Quote >> \in Text
        /\ Len((<< Quote >> \o body) \o << Quote >>) = (1 + Len(body)) + 1
    BY <1>0, <2>1, TextConcat
  <2> QED
    BY <1>0, <1>2, <1>10, <1>12, <2>2
<1> QED
  BY <1>11, <1>12

\* Three bytes for each character and each argument are enough.
LEMMA LineLength ==
    ASSUME NEW ws \in Seq(Text)
    PROVE  /\ Len(ws) + Len(FlattenSeq(ws)) \in Nat
           /\ Len(Line(ws)) <= 3 * (Len(ws) + Len(FlattenSeq(ws)))
<1> DEFINE P == {w \in Seq(Text) : /\ Len(FlattenSeq(w)) \in Nat
                                  /\ Len(Line(w)) <= 3 * (Len(w) + Len(FlattenSeq(w)))}
<1>0. << >> \in Text /\ << >> \in Seq(Text) /\ Len(<< >>) = 0
  BY DEF Text
<1>1. << >> \in P
  <2>1. Line(<< >>) = << >>
    BY <1>0, LineGrows
  <2>2. FlattenSeq(<< >>) = << >>
    <3>1. PICK ss \in Seq(Seq(Chars)) : ss = << >>
      BY <1>0 DEF Text
    <3>2. FlattenSeq(ss) = << >>
      BY <3>1, FlattenType
    <3> QED
      BY <3>1, <3>2
  <2> QED
    BY <1>0, <2>1, <2>2
<1>2. ASSUME NEW w \in Seq(Text), NEW a \in Text, w \in P PROVE Append(w, a) \in P
  <2>1. /\ Append(w, a) \in Seq(Text) /\ Len(Append(w, a)) = Len(w) + 1
        /\ Len(w) \in Nat /\ Len(a) \in Nat
    BY DEF Text
  <2>2. w \in Seq(Seq(Chars)) /\ a \in Seq(Chars)
    BY DEF Text
  <2>3. FlattenSeq(Append(w, a)) = FlattenSeq(w) \o a /\ FlattenSeq(w) \in Seq(Chars)
    BY <2>2, FlattenAppend, FlattenType
  <2>4. Len(FlattenSeq(Append(w, a))) = Len(FlattenSeq(w)) + Len(a) /\ Len(FlattenSeq(w)) \in Nat
    BY <2>2, <2>3
  <2>5. EncodedArg(a) \in Text /\ Len(EncodedArg(a)) \in Nat /\ Len(EncodedArg(a)) <= 2 * Len(a) + 2
    BY EncodedLength DEF Text
  <2>6. WordOf(Len(w) + 1, a) \in Text /\ Len(WordOf(Len(w) + 1, a)) <= 2 * Len(a) + 3
    <3>1. << Blank >> \in Text /\ Len(<< Blank >>) = 1
      BY DEF Text, Chars
    <3>2. /\ << Blank >> \o EncodedArg(a) \in Text
          /\ Len(<< Blank >> \o EncodedArg(a)) = 1 + Len(EncodedArg(a))
      BY <2>5, <3>1, TextConcat
    <3> DEFINE e == EncodedArg(a)
               d == << Blank >> \o EncodedArg(a)
    <3>3. WordOf(Len(w) + 1, a) \in {e, d}
      BY Zenon DEF WordOf
    <3>4. e \in Text /\ d \in Text /\ Len(e) <= 2 * Len(a) + 3 /\ Len(d) <= 2 * Len(a) + 3
      BY <2>1, <2>5, <3>2
    <3> HIDE DEF e, d
    <3> QED
      BY <3>3, <3>4
  <2>7. Line(w) \in Text /\ Line(Append(w, a)) = Line(w) \o WordOf(Len(w) + 1, a)
    BY LineGrows
  <2>8. Len(Line(Append(w, a))) = Len(Line(w)) + Len(WordOf(Len(w) + 1, a)) /\ Len(Line(w)) \in Nat
        /\ Len(WordOf(Len(w) + 1, a)) \in Nat
    BY <2>6, <2>7 DEF Text
  <2>9. Len(Line(w)) <= 3 * (Len(w) + Len(FlattenSeq(w)))
    BY <1>2
  <2>10. Len(Line(Append(w, a))) <= 3 * (Len(Append(w, a)) + Len(FlattenSeq(Append(w, a))))
    BY <2>1, <2>4, <2>6, <2>8, <2>9
  <2>11. Len(FlattenSeq(Append(w, a))) \in Nat
    BY <2>1, <2>4
  <2> QED
    BY <2>1, <2>10, <2>11
<1> HIDE DEF P
<1>3. Seq(Text) \subseteq P
  BY <1>1, <1>2, SeqInduction
<1>4. ws \in P /\ Len(ws) \in Nat
  BY <1>3
<1> QED
  BY <1>4 DEF P

-----------------------------------------------------------------------------

CmdTypes == argv \in Seq(Text) /\ argv # << >>

\* argv always holds at least one argument, and arguments are text.
LEMMA CmdTyped == CmdSpec => []CmdTypes
<1>0. << >> \in Text
  BY DEF Text
<1>1. CmdInit => CmdTypes
  BY <1>0 DEF CmdInit, CmdTypes
<1>2. ASSUME CmdTypes, [CmdNext]_argv PROVE CmdTypes'
  <2>0. argv \in Seq(Text) /\ argv # << >> /\ Len(argv) \in 1 .. Len(argv)
    BY <1>2 DEF CmdTypes
  <2>1. ASSUME NEW c \in Chars, AddChar(c) PROVE CmdTypes'
    <3>1. argv[Len(argv)] \in Text
      BY <2>0
    <3>2. Append(argv[Len(argv)], c) \in Text
      BY <3>1 DEF Text
    <3>3. argv' = [argv EXCEPT ![Len(argv)] = Append(argv[Len(argv)], c)]
      BY <2>1 DEF AddChar
    <3>4. argv' \in Seq(Text) /\ Len(argv') = Len(argv)
      BY <2>0, <3>2, <3>3
    <3> QED
      BY <2>0, <3>4 DEF CmdTypes
  <2>2. CASE AddArgument
    <3>1. argv' = Append(argv, << >>)
      BY <2>2 DEF AddArgument
    <3>2. Append(argv, << >>) \in Seq(Text) /\ Append(argv, << >>) # << >>
      BY <1>0, <2>0, AppendProperties
    <3> QED
      BY <3>1, <3>2, Zenon DEF CmdTypes
  <2>3. CASE UNCHANGED argv
    BY <1>2, <2>3 DEF CmdTypes
  <2> QED
    BY <1>2, <2>1, <2>2, <2>3 DEF CmdNext
<1> QED
  BY <1>1, <1>2, PTL DEF CmdSpec

\* Whatever arguments the operator gives, the command line is decoded to them
\* by the rules Windows programs use; a buffer with room for the line and its
\* NUL is enough, one byte less is refused.
THEOREM BuildsRoundTrip == CmdSpec => []BuildRoundTrips
<1>1. ASSUME CmdTypes PROVE BuildRoundTrips
  <2> DEFINE L == Line(argv)
             all == wtd_build_cmdline(argv, 3 * Size + 1)
             tight == Len(all.out) + 1
  <2>0. argv \in Seq(Text)
    BY <1>1 DEF CmdTypes
  <2>1. L \in Text /\ Len(L) \in Nat
    <3>1. << >> \in Text
      BY DEF Text
    <3>2. L \in Text
      BY <2>0, <3>1, LineGrows, Zenon
    <3> QED
      BY <3>2 DEF Text
  <2>2. Size \in Nat /\ Len(L) <= 3 * Size
    BY <2>0, LineLength DEF Size
  <2>3. 3 * Size + 1 \in Nat /\ Len(L) < 3 * Size + 1 /\ Len(L) + 1 \in Nat /\ Len(L) < Len(L) + 1
        /\ ~(Len(L) < Len(L)) /\ (Len(L) + 1) - 1 = Len(L)
    BY <2>1, <2>2
  <2>4. all = [rc |-> 0, out |-> L]
    BY <2>1, <2>3, BuildIs
  <2>5. all.rc = 0 /\ all.out = L /\ tight = Len(L) + 1
    BY <2>4
  <2>6. wtd_build_cmdline(argv, tight) = all
    <3>1. wtd_build_cmdline(argv, Len(L) + 1) = [rc |-> 0, out |-> L]
      BY <2>1, <2>3, BuildIs
    <3> QED
      BY <2>4, <2>5, <3>1, Zenon
  <2>7. wtd_build_cmdline(argv, tight - 1).rc # 0
    <3>1. wtd_build_cmdline(argv, Len(L)).rc = 1
      BY <2>1, <2>3, BuildIs
    <3>2. tight - 1 = Len(L)
      BY <2>3, <2>5, Zenon
    <3>3. wtd_build_cmdline(argv, tight - 1).rc = 1
      BY <3>1, <3>2, Zenon
    <3> QED
      BY <3>3
  <2>8. CommandLineToArgv(L) = argv
    <3>1. Append(L, Blank) = L \o << Blank >>
      <4>1. L \in Seq(Chars) /\ Blank \in Chars
        BY <2>1 DEF Text, Chars
      <4> HIDE DEF L
      <4> QED
        BY <4>1, AppendIsConcat
    <3>2. CommandLineToArgv(L) = Loop(DRound, DState(<< >>, << >>, 0, "gap"), Append(L, Blank)).args
      BY Zenon DEF CommandLineToArgv, DRound, DStates, DState, DModes, Text
    <3>3. Loop(DRound, DState(<< >>, << >>, 0, "gap"), L \o << Blank >>)
             = DState(argv, << >>, 0, "gap")
      BY <2>0, LineDecodes
    <3>4. DState(argv, << >>, 0, "gap").args = argv
      BY DEF DState
    <3> QED
      BY <3>1, <3>2, <3>3, <3>4, Zenon
  <2> HIDE DEF L, all, tight
  <2>9. CommandLineToArgv(all.out) = argv
    BY <2>5, <2>8
  <2> QED
    BY <2>5, <2>6, <2>7, <2>9, Zenon DEF BuildRoundTrips, all, tight
<1> QED
  BY <1>1, CmdTyped, PTL

-----------------------------------------------------------------------------
(* Cmdline: splitting a command line. *)

SState(toks, cur, in) == [toks |-> toks, cur |-> cur, in |-> in]

Delims == {Quote, Blank}

SStates == [toks : Seq(Text), cur : Text, in : {"gap", Quote, Blank}]

\* The states of the splitting loop.
LEMMA SStateIs ==
    ASSUME NEW t \in Seq(Text), NEW u \in Text, NEW m \in {"gap", Quote, Blank}
    PROVE  SState(t, u, m) \in SStates
BY DEF SState, SStates

\* One character, as long as there is room for another token. Between tokens a
\* blank is skipped and a quote begins a quoted token.
LEMMA SplitGap ==
    ASSUME NEW t, NEW u, NEW lim, Room(t, lim)
    PROVE  /\ SplitChar(SState(t, u, "gap"), Blank, lim) = SState(t, u, "gap")
           /\ SplitChar(SState(t, u, "gap"), Quote, lim) = SState(t, << >>, Quote)
BY DEF SplitChar, SState, Delims, Quote, Blank

\* A character that is no quote begins a bare token.
LEMMA SplitBegins ==
    ASSUME NEW t, NEW u, NEW lim, Room(t, lim), NEW c, c # Quote, c # Blank
    PROVE  SplitChar(SState(t, u, "gap"), c, lim) = SState(t, << c >>, Blank)
BY DEF SplitChar, SState, Delims, Quote, Blank

\* The delimiter ends the token.
LEMMA SplitEnds ==
    ASSUME NEW t, NEW u, NEW lim, Room(t, lim), NEW d \in Delims
    PROVE  SplitChar(SState(t, u, d), d, lim) = SState(Append(t, u), << >>, "gap")
BY DEF SplitChar, SState, Delims, Quote, Blank

\* Any other character goes on with it.
LEMMA SplitGoesOn ==
    ASSUME NEW t, NEW u, NEW lim, Room(t, lim), NEW d \in Delims, NEW c, c # d
    PROVE  SplitChar(SState(t, u, d), c, lim) = SState(t, Append(u, c), d)
BY DEF SplitChar, SState, Delims, Quote, Blank

\* One character keeps the loop in its states.
LEMMA SplitCharType ==
    ASSUME NEW st \in SStates, NEW c \in Chars, NEW lim
    PROVE  SplitChar(st, c, lim) \in SStates
<1>1. PICK t \in Seq(Text), u \in Text, m \in {"gap", Quote, Blank} : st = SState(t, u, m)
  BY DEF SStates, SState
<1>0. << >> \in Text /\ << c >> \in Text /\ Append(u, c) \in Text /\ Append(t, u) \in Seq(Text)
  BY DEF Text
<1>2. CASE ~Room(t, lim)
  <2>1. st.toks = t
    BY <1>1 DEF SState
  <2> QED
    BY <1>2, <2>1 DEF SplitChar
<1>3. CASE Room(t, lim)
  <2>1. CASE m = "gap"
    <3>1. SplitChar(st, c, lim) \in {st, SState(t, << >>, Quote), SState(t, << c >>, Blank)}
      <4>1. CASE c \in {Quote, Blank}
        BY <1>1, <1>3, <2>1, <4>1, SplitGap
      <4>2. CASE c \notin {Quote, Blank}
        BY <1>1, <1>3, <2>1, <4>2, SplitBegins
      <4> QED
        BY <4>1, <4>2
    <3> QED
      BY <1>0, <3>1, SStateIs
  <2>2. CASE m \in Delims
    <3>1. SplitChar(st, c, lim) \in {SState(Append(t, u), << >>, "gap"), SState(t, Append(u, c), m)}
      <4>1. CASE c = m
        BY <1>1, <1>3, <2>2, <4>1, SplitEnds
      <4>2. CASE c # m
        BY <1>1, <1>3, <2>2, <4>2, SplitGoesOn
      <4> QED
        BY <4>1, <4>2
    <3> QED
      BY <1>0, <2>2, <3>1, SStateIs DEF Delims
  <2> QED
    BY <2>1, <2>2 DEF Delims
<1> QED
  BY <1>2, <1>3

SRound(lim) == [p \in SStates \X Chars |-> SplitChar(p[1], p[2], lim)]

\* A round of the splitting loop is SplitChar.
LEMMA SRoundIs ==
    ASSUME NEW lim
    PROVE  /\ SRound(lim) \in Rounds(SStates, Chars)
           /\ \A st \in SStates : \A c \in Chars : SRound(lim)[<<st, c>>] = SplitChar(st, c, lim)
<1>1. \A p \in SStates \X Chars : SplitChar(p[1], p[2], lim) \in SStates
  BY SplitCharType
<1>2. SRound(lim) \in Rounds(SStates, Chars)
  BY <1>1 DEF SRound, Rounds
<1>3. ASSUME NEW st \in SStates, NEW c \in Chars
      PROVE  SRound(lim)[<<st, c>>] = SplitChar(st, c, lim)
  <2>1. <<st, c>> \in SStates \X Chars /\ <<st, c>>[1] = st /\ <<st, c>>[2] = c
    OBVIOUS
  <2> QED
    BY <2>1 DEF SRound
<1> QED
  BY <1>2, <1>3

\* The loop over pieces of the command line.
LEMMA SplitLoop ==
    ASSUME NEW lim, NEW st \in SStates, NEW c \in Chars
    PROVE  /\ Loop(SRound(lim), st, << >>) = st
           /\ Loop(SRound(lim), st, << c >>) = SplitChar(st, c, lim)
<1>1. PICK R : R = SRound(lim)
  OBVIOUS
<1>2. R \in Rounds(SStates, Chars) /\ R[<<st, c>>] = SplitChar(st, c, lim)
  BY <1>1, SRoundIs
<1>3. Loop(R, st, << >>) = st
  BY <1>2, LoopNothing
<1>4. Loop(R, st, << c >>) = R[<<st, c>>]
  BY <1>2, LoopOne
<1> QED
  BY <1>1, <1>2, <1>3, <1>4

\* One character more.
LEMMA SplitAppend ==
    ASSUME NEW lim, NEW st \in SStates, NEW s \in Text, NEW c \in Chars
    PROVE  Loop(SRound(lim), st, Append(s, c)) = SplitChar(Loop(SRound(lim), st, s), c, lim)
<1>1. PICK R : R = SRound(lim)
  OBVIOUS
<1>2. /\ R \in Rounds(SStates, Chars) /\ s \in Seq(Chars)
      /\ \A x \in SStates : R[<<x, c>>] = SplitChar(x, c, lim)
  BY <1>1, SRoundIs DEF Text
<1>3. Loop(R, st, s) \in SStates
  BY <1>2, LoopEnds
<1>4. Loop(R, st, Append(s, c)) = R[<<Loop(R, st, s), c>>]
  BY <1>2, LoopAppend
<1> QED
  BY <1>1, <1>2, <1>3, <1>4, Zenon

\* One piece of the command line after the other.
LEMMA SplitConcat ==
    ASSUME NEW lim, NEW st \in SStates, NEW s \in Text, NEW u \in Text
    PROVE  /\ Loop(SRound(lim), st, s) \in SStates
           /\ Loop(SRound(lim), st, s \o u) = Loop(SRound(lim), Loop(SRound(lim), st, s), u)
<1>1. PICK R : R = SRound(lim)
  OBVIOUS
<1>2. R \in Rounds(SStates, Chars) /\ s \in Seq(Chars) /\ u \in Seq(Chars)
  BY <1>1, SRoundIs DEF Text
<1>3. Loop(R, st, s) \in SStates
  BY <1>2, LoopEnds
<1>4. Loop(R, st, s \o u) = Loop(R, Loop(R, st, s), u)
  BY <1>2, LoopConcat
<1> QED
  BY <1>1, <1>3, <1>4, Zenon

\* Without room nothing is read any more.
LEMMA SplitFull ==
    ASSUME NEW lim, NEW st \in SStates, ~Room(st.toks, lim), NEW s \in Text
    PROVE  Loop(SRound(lim), st, s) = st
<1> DEFINE P == {w \in Text : Loop(SRound(lim), st, w) = st}
<1>0. << >> \in Text /\ Blank \in Chars
  BY DEF Text, Chars
<1>1. << >> \in P
  BY <1>0, SplitLoop
<1>2. ASSUME NEW w \in Seq(Chars), NEW c \in Chars, w \in P PROVE Append(w, c) \in P
  <2>1. w \in Text /\ Append(w, c) \in Text
    BY DEF Text
  <2>2. Loop(SRound(lim), st, Append(w, c)) = SplitChar(Loop(SRound(lim), st, w), c, lim)
    BY <2>1, SplitAppend
  <2>3. Loop(SRound(lim), st, w) = st /\ SplitChar(st, c, lim) = st
    BY <1>2 DEF SplitChar
  <2> QED
    BY <2>1, <2>2, <2>3
<1> HIDE DEF P
<1>3. Seq(Chars) \subseteq P
  BY <1>1, <1>2, SeqInduction
<1> QED
  BY <1>3 DEF P, Text

\* Characters other than the delimiter belong to the token.
LEMMA SplitWithin ==
    ASSUME NEW lim, NEW t \in Seq(Text), Room(t, lim), NEW u \in Text, NEW d \in Delims,
           NEW s \in Text, \A i \in 1 .. Len(s) : s[i] # d
    PROVE  Loop(SRound(lim), SState(t, u, d), s) = SState(t, u \o s, d)
<1> DEFINE st == SState(t, u, d)
           Free(w) == \A i \in 1 .. Len(w) : w[i] # d
           P == {w \in Text : Free(w) => Loop(SRound(lim), st, w) = SState(t, u \o w, d)}
<1>0. << >> \in Text /\ Blank \in Chars /\ u \o << >> = u
  BY DEF Text, Chars
<1>1. st \in SStates
  BY SStateIs DEF Delims
<1>2. << >> \in P
  BY <1>0, <1>1, SplitLoop
<1>3. ASSUME NEW w \in Seq(Chars), NEW c \in Chars, w \in P PROVE Append(w, c) \in P
  <2>1. /\ w \in Text /\ Append(w, c) \in Text /\ Len(w) \in Nat /\ Len(Append(w, c)) = Len(w) + 1
        /\ Append(w, c)[Len(w) + 1] = c /\ \A i \in 1 .. Len(w) : Append(w, c)[i] = w[i]
    BY DEF Text
  <2>2. ASSUME Free(Append(w, c)) PROVE Free(w) /\ c # d
    <3>1. Len(w) + 1 \in 1 .. Len(Append(w, c)) /\ 1 .. Len(w) \subseteq 1 .. Len(Append(w, c))
      BY <2>1
    <3> QED
      BY <2>1, <2>2, <3>1
  <2>3. Loop(SRound(lim), st, Append(w, c)) = SplitChar(Loop(SRound(lim), st, w), c, lim)
    BY <1>1, <2>1, SplitAppend, Zenon
  <2>4. u \o Append(w, c) = Append(u \o w, c)
    BY DEF Text
  <2> HIDE DEF Free, st
  <2>5. ASSUME Free(Append(w, c))
        PROVE  Loop(SRound(lim), st, Append(w, c)) = SState(t, u \o Append(w, c), d)
    <3>1. Loop(SRound(lim), st, w) = SState(t, u \o w, d)
      BY <1>3, <2>2, <2>5
    <3>2. SplitChar(SState(t, u \o w, d), c, lim) = SState(t, Append(u \o w, c), d)
      <4>1. c # d
        BY <2>2, <2>5
      <4>2. PICK x : x = u \o w
        OBVIOUS
      <4>3. SplitChar(SState(t, x, d), c, lim) = SState(t, Append(x, c), d)
        BY <4>1, SplitGoesOn
      <4> QED
        BY <4>2, <4>3, Zenon
    <3> QED
      BY <2>3, <2>4, <3>1, <3>2, Zenon
  <2> QED
    BY <2>1, <2>5
<1> HIDE DEF P
<1>4. Seq(Chars) \subseteq P
  BY <1>2, <1>3, SeqInduction
<1> QED
  BY <1>4 DEF P, Text

\* A word as it is typed: in quotes if it is empty or holds a blank.
Typed(a) == IF a = << >> \/ Has(a, {Blank}) THEN (<< Quote >> \o a) \o << Quote >> ELSE a

\* A word and a blank make one token.
LEMMA WordSplits ==
    ASSUME NEW lim, NEW t \in Seq(Text), Room(t, lim), NEW a \in Text, ~Has(a, {Quote})
    PROVE  /\ Typed(a) \o << Blank >> \in Text
           /\ Loop(SRound(lim), SState(t, << >>, "gap"), Typed(a) \o << Blank >>)
                 = SState(Append(t, a), << >>, "gap")
<1> DEFINE S(st, s) == Loop(SRound(lim), st, s)
           gap == SState(t, << >>, "gap")
           q == << Quote >>
           b == << Blank >>
           fin == SState(Append(t, a), << >>, "gap")
<1>0. /\ Quote \in Chars /\ Blank \in Chars /\ q \in Text /\ b \in Text /\ << >> \in Text
      /\ << >> \o a = a /\ Len(a) \in Nat /\ Append(t, a) \in Seq(Text)
      /\ \A i \in 1 .. Len(a) : a[i] \in Chars /\ a[i] # Quote
  BY DEF Text, Chars, Has
<1>1. gap \in SStates /\ fin \in SStates
  BY <1>0, SStateIs
<1>2. ASSUME NEW st \in SStates, NEW s \in Text, NEW u \in Text
      PROVE  S(st, s) \in SStates /\ S(st, s \o u) = S(S(st, s), u)
  BY SplitConcat, Zenon
<1>3. ASSUME NEW st \in SStates, NEW c \in Chars PROVE S(st, << c >>) = SplitChar(st, c, lim)
  BY SplitLoop
<1> HIDE DEF S
<1>4. CASE a = << >> \/ Has(a, {Blank})
  <2>1. Typed(a) = (q \o a) \o q
    BY <1>4, Zenon DEF Typed
  <2>2. q \o a \in Text /\ (q \o a) \o q \in Text /\ ((q \o a) \o q) \o b \in Text
    <3>1. q \o a \in Text
      BY <1>0, TextConcat
    <3>2. (q \o a) \o q \in Text
      BY <1>0, <3>1, TextConcat
    <3> QED
      BY <1>0, <3>1, <3>2, TextConcat
  <2>3. S(gap, q) = SState(t, << >>, Quote)
    BY <1>0, <1>1, <1>3, SplitGap
  <2>4. S(SState(t, << >>, Quote), a) = SState(t, a, Quote)
    <3>1. Loop(SRound(lim), SState(t, << >>, Quote), a) = SState(t, << >> \o a, Quote)
      <4>1. Quote \in Delims /\ \A i \in 1 .. Len(a) : a[i] # Quote
        BY <1>0 DEF Delims
      <4>2. PICK e \in Text, d \in Delims : e = << >> /\ d = Quote
        BY <1>0, <4>1
      <4>3. \A i \in 1 .. Len(a) : a[i] # d
        BY <4>1, <4>2
      <4>4. Loop(SRound(lim), SState(t, e, d), a) = SState(t, e \o a, d)
        BY <4>3, SplitWithin
      <4> QED
        BY <4>2, <4>4, Zenon
    <3> QED
      BY <1>0, <3>1 DEF S
  <2>5. SState(t, << >>, Quote) \in SStates /\ SState(t, a, Quote) \in SStates
    BY <1>0, SStateIs
  <2>6. S(SState(t, a, Quote), q) = fin
    <3>1. SplitChar(SState(t, a, Quote), Quote, lim) = fin
      BY SplitEnds DEF Delims
    <3> QED
      BY <1>0, <1>3, <2>5, <3>1
  <2>7. S(fin, b) = fin
    <3>1. SplitChar(fin, Blank, lim) = fin
      <4>1. CASE Room(Append(t, a), lim)
        BY <4>1, SplitGap
      <4>2. CASE ~Room(Append(t, a), lim)
        <5>1. fin.toks = Append(t, a)
          BY DEF SState
        <5> QED
          BY <4>2, <5>1 DEF SplitChar
      <4> QED
        BY <4>1, <4>2
    <3> QED
      BY <1>0, <1>1, <1>3, <3>1
  <2> HIDE DEF q, b, gap, fin
  <2>8. S(gap, q \o a) = SState(t, a, Quote)
    BY <1>0, <1>1, <1>2, <2>3, <2>4
  <2>9. S(gap, (q \o a) \o q) = fin
    BY <1>0, <1>1, <1>2, <2>2, <2>6, <2>8
  <2>10. S(gap, ((q \o a) \o q) \o b) = fin
    BY <1>0, <1>1, <1>2, <2>2, <2>7, <2>9
  <2> QED
    BY <2>1, <2>2, <2>10, Zenon DEF S, q, b, gap, fin
<1>5. CASE ~(a = << >> \/ Has(a, {Blank}))
  <2>1. Typed(a) = a /\ a # << >>
    BY <1>5, Zenon DEF Typed
  <2>2. \A i \in 1 .. Len(a) : a[i] # Blank
    BY <1>5 DEF Has
  <2> DEFINE c == a[1]
             h == << c >>
             r == Tail(a)
  <2>3. 1 \in 1 .. Len(a) /\ c \in Chars /\ c # Quote /\ c # Blank
    BY <1>0, <2>1, <2>2 DEF Text
  <2>4. /\ h \in Text /\ r \in Text /\ a = h \o r /\ Len(r) = Len(a) - 1
        /\ \A i \in 1 .. Len(r) : r[i] = a[i + 1]
    BY <2>1, <2>3 DEF Text
  <2>5. \A i \in 1 .. Len(r) : r[i] # Blank
    <3> TAKE i \in 1 .. Len(r)
    <3>1. i + 1 \in 1 .. Len(a)
      BY <1>0, <2>4
    <3> QED
      BY <2>2, <2>4, <3>1
  <2>6. S(gap, h) = SState(t, h, Blank)
    <3>1. SplitChar(gap, c, lim) = SState(t, << c >>, Blank)
      BY <2>3, SplitBegins
    <3> QED
      BY <1>1, <1>3, <2>3, <3>1
  <2> HIDE DEF h, r, c
  <2>7. S(SState(t, h, Blank), r) = SState(t, a, Blank)
    <3>1. Loop(SRound(lim), SState(t, h, Blank), r) = SState(t, h \o r, Blank)
      BY <2>4, <2>5, SplitWithin DEF Delims
    <3> QED
      BY <2>4, <3>1 DEF S
  <2>8. SState(t, a, Blank) \in SStates
    BY <1>0, SStateIs
  <2>9. S(SState(t, a, Blank), b) = fin
    <3>1. SplitChar(SState(t, a, Blank), Blank, lim) = fin
      BY SplitEnds DEF Delims
    <3> QED
      BY <1>0, <1>3, <2>8, <3>1
  <2> HIDE DEF q, b, gap, fin
  <2>10. S(gap, a) = SState(t, a, Blank)
    BY <1>1, <1>2, <2>4, <2>6, <2>7
  <2>11. S(gap, a \o b) = fin
    BY <1>0, <1>1, <1>2, <2>9, <2>10
  <2>12. a \o b \in Text
    BY <1>0, TextConcat
  <2> QED
    BY <2>1, <2>11, <2>12, Zenon DEF S, b, gap, fin
<1> QED
  BY <1>4, <1>5

\* The words as they are typed, each with the blank behind it.
TypedLine(ws) == FlattenSeq([i \in 1 .. Len(ws) |-> Typed(ws[i]) \o << Blank >>])

\* One word more is typed behind the others.
LEMMA TypedGrows ==
    ASSUME NEW ws \in Seq(Text), NEW a \in Text
    PROVE  /\ TypedLine(<< >>) = << >> /\ TypedLine(ws) \in Text
           /\ Typed(a) \o << Blank >> \in Text
           /\ TypedLine(Append(ws, a)) = TypedLine(ws) \o (Typed(a) \o << Blank >>)
<1> DEFINE W(w) == [i \in 1 .. Len(w) |-> Typed(w[i]) \o << Blank >>]
           n == Len(ws)
<1>1. ASSUME NEW b \in Text PROVE Typed(b) \o << Blank >> \in Seq(Chars)
  <2>1. << Quote >> \in Seq(Chars) /\ << Blank >> \in Seq(Chars) /\ b \in Seq(Chars)
    BY DEF Chars, Text
  <2>2. \A q, r \in Seq(Chars) : q \o r \in Seq(Chars)
    OBVIOUS
  <2>3. Typed(b) \in Seq(Chars)
    BY <2>1, <2>2 DEF Typed
  <2> QED
    BY <2>1, <2>2, <2>3
<1>2. ASSUME NEW y \in Seq(Text) PROVE W(y) \in Seq(Seq(Chars)) /\ Len(W(y)) = Len(y)
  <2>1. Len(y) \in Nat /\ \A i \in 1 .. Len(y) : y[i] \in Text
    OBVIOUS
  <2>2. \A i \in 1 .. Len(y) : Typed(y[i]) \o << Blank >> \in Seq(Chars)
    BY <1>1, <2>1
  <2> QED
    BY <2>1, <2>2
<1>3. \A y : TypedLine(y) = FlattenSeq(W(y))
  BY Zenon DEF TypedLine
<1>4. PICK w : w = Append(ws, a)
  OBVIOUS
<1>5. /\ w \in Seq(Text) /\ n \in Nat /\ Len(w) = n + 1 /\ w[n + 1] = a
      /\ \A i \in 1 .. n : w[i] = ws[i]
  BY <1>4
<1>6. PICK x \in Seq(Seq(Chars)), y \in Seq(Seq(Chars)) : x = W(ws) /\ y = W(w)
  BY <1>2, <1>5
<1>7. Len(x) = n /\ Len(y) = n + 1
  BY <1>2, <1>5, <1>6
<1>8. ASSUME NEW i \in 1 .. Len(x) PROVE y[i] = x[i]
  <2>1. i \in 1 .. n /\ i \in 1 .. Len(w) /\ i \in 1 .. Len(ws)
    BY <1>5, <1>7
  <2>2. y[i] = Typed(w[i]) \o << Blank >> /\ x[i] = Typed(ws[i]) \o << Blank >>
    BY <1>6, <2>1
  <2> QED
    BY <1>5, <2>1, <2>2
<1>9. y[Len(y)] = Typed(a) \o << Blank >>
  <2>1. n + 1 \in 1 .. Len(w)
    BY <1>5
  <2>2. y[n + 1] = Typed(w[n + 1]) \o << Blank >>
    BY <1>6, <2>1
  <2> QED
    BY <1>5, <1>7, <2>2
<1>10. FlattenSeq(y) = FlattenSeq(x) \o y[Len(y)]
  BY <1>7, <1>8, FlattenGrows
<1>11. FlattenSeq(x) \in Text
  BY FlattenType DEF Text
<1>12. TypedLine(<< >>) = << >>
  <2>1. W(<< >>) = << >> /\ << >> \in Seq(Seq(Chars))
    OBVIOUS
  <2>2. FlattenSeq(<< >>) = << >>
    BY <2>1, FlattenType
  <2> QED
    BY <1>3, <2>1, <2>2
<1> HIDE DEF W
<1> QED
  BY <1>1, <1>3, <1>4, <1>6, <1>9, <1>10, <1>11, <1>12 DEF Text

\* The slots of the array that words can have.
Slots(ws, lim) == SubSeq(ws, 1, IF lim - 1 < Len(ws) THEN lim - 1 ELSE Len(ws))

\* The loop over the words as they are typed has a token for each slot.
LEMMA WordsSplit ==
    ASSUME NEW lim \in Nat \ {0}, NEW ws \in Seq(Text), \A i \in 1 .. Len(ws) : ~Has(ws[i], {Quote})
    PROVE  /\ TypedLine(ws) \in Text
           /\ Loop(SRound(lim), SState(<< >>, << >>, "gap"), TypedLine(ws))
                 = SState(Slots(ws, lim), << >>, "gap")
<1> DEFINE S(st, s) == Loop(SRound(lim), st, s)
           start == SState(<< >>, << >>, "gap")
           Plain(w) == \A i \in 1 .. Len(w) : ~Has(w[i], {Quote})
           P == {w \in Seq(Text) :
                   Plain(w) => S(start, TypedLine(w)) = SState(Slots(w, lim), << >>, "gap")}
<1>0. << >> \in Text /\ << >> \in Seq(Text) /\ Blank \in Chars
  BY DEF Text, Chars
<1>1. start \in SStates
  BY <1>0, SStateIs
<1>2. << >> \in P
  <2>1. Slots(<< >>, lim) = << >>
    BY DEF Slots
  <2>2. S(start, << >>) = start
    BY <1>0, <1>1, SplitLoop
  <2>3. TypedLine(<< >>) = << >>
    BY <1>0, TypedGrows
  <2> QED
    BY <1>0, <2>1, <2>2, <2>3
<1>3. ASSUME NEW w \in Seq(Text), NEW a \in Text, w \in P PROVE Append(w, a) \in P
  <2> DEFINE n == Len(w)
             l == TypedLine(w)
             r == Typed(a) \o << Blank >>
             mid == SState(Slots(w, lim), << >>, "gap")
  <2>1. /\ Append(w, a) \in Seq(Text) /\ n \in Nat /\ Len(Append(w, a)) = n + 1
        /\ Append(w, a)[n + 1] = a /\ \A i \in 1 .. n : Append(w, a)[i] = w[i]
    OBVIOUS
  <2>2. ASSUME Plain(Append(w, a)) PROVE Plain(w) /\ ~Has(a, {Quote})
    <3>1. n + 1 \in 1 .. Len(Append(w, a)) /\ 1 .. n \subseteq 1 .. Len(Append(w, a))
      BY <2>1
    <3> QED
      BY <2>1, <2>2, <3>1
  <2>3. l \in Text /\ r \in Text /\ TypedLine(Append(w, a)) = l \o r
    BY TypedGrows
  <2> HIDE DEF Plain
  <2>4. ASSUME Plain(Append(w, a))
        PROVE  S(start, TypedLine(Append(w, a))) = SState(Slots(Append(w, a), lim), << >>, "gap")
    <3>1. S(start, l) = mid
      BY <1>3, <2>2, <2>4
    <3>2. S(start, l \o r) = S(S(start, l), r)
      BY <1>1, <2>3, SplitConcat, Zenon
    <3>3. CASE n + 1 < lim
      <4>1. Slots(w, lim) = w /\ Slots(Append(w, a), lim) = Append(w, a)
        <5>1. SubSeq(w, 1, n) = w /\ SubSeq(Append(w, a), 1, n + 1) = Append(w, a)
          BY <2>1, SubSeqFull
        <5>2. /\ (IF lim - 1 < n THEN lim - 1 ELSE n) = n
              /\ (IF lim - 1 < n + 1 THEN lim - 1 ELSE n + 1) = n + 1
          BY <2>1, <3>3
        <5> QED
          BY <2>1, <5>1, <5>2 DEF Slots
      <4>2. Room(w, lim)
        BY <3>3 DEF Room
      <4>3. Loop(SRound(lim), SState(w, << >>, "gap"), r) = SState(Append(w, a), << >>, "gap")
        BY <2>2, <2>4, <4>2, WordSplits
      <4> QED
        BY <2>3, <3>1, <3>2, <4>1, <4>3
    <3>4. CASE ~(n + 1 < lim)
      <4>1. /\ (IF lim - 1 < n THEN lim - 1 ELSE n) = lim - 1 /\ lim - 1 \in 0 .. n
            /\ (IF lim - 1 < n + 1 THEN lim - 1 ELSE n + 1) = lim - 1
        BY <2>1, <3>4
      <4>2. SubSeq(Append(w, a), 1, lim - 1) = SubSeq(w, 1, lim - 1)
        BY <4>1
      <4>3. /\ Slots(w, lim) = SubSeq(w, 1, lim - 1)
            /\ Slots(Append(w, a), lim) = SubSeq(w, 1, lim - 1)
        BY <2>1, <4>1, <4>2 DEF Slots
      <4>4. PICK t : t = SubSeq(w, 1, lim - 1)
        OBVIOUS
      <4>5. t \in Seq(Text) /\ Len(t) = lim - 1
        BY <4>1, <4>4
      <4>6. SState(t, << >>, "gap") \in SStates /\ SState(t, << >>, "gap").toks = t
        BY <1>0, <4>5, SStateIs DEF SState
      <4>7. ~Room(t, lim)
        BY <4>5 DEF Room
      <4>8. Loop(SRound(lim), SState(t, << >>, "gap"), r) = SState(t, << >>, "gap")
        <5>1. PICK st \in SStates : st = SState(t, << >>, "gap")
          BY <4>6
        <5>2. ~Room(st.toks, lim)
          BY <4>6, <4>7, <5>1
        <5>3. Loop(SRound(lim), st, r) = st
          BY <2>3, <5>2, SplitFull
        <5> QED
          BY <5>1, <5>3
      <4> QED
        BY <2>3, <3>1, <3>2, <4>3, <4>4, <4>8
    <3> QED
      BY <3>3, <3>4
  <2> QED
    BY <2>1, <2>4
<1> HIDE DEF P
<1>4. Seq(Text) \subseteq P
  BY <1>2, <1>3, SeqInduction
<1>5. TypedLine(ws) \in Text
  BY <1>0, TypedGrows
<1> QED
  BY <1>4, <1>5 DEF P

\* Whatever words the value of --exec is made of, as long as they hold no
\* quotes, wtd_split_cmdline finds them: the empty ones, those with blanks and
\* those with backslashes too, as many as the array has slots for besides NULL.
THEOREM SplitsIntoWords == CmdSpec => []SplitFindsWords
<1>1. ASSUME CmdTypes PROVE SplitFindsWords
  <2>1. argv \in Seq(Text)
    BY <1>1 DEF CmdTypes
  <2>2. ASSUME \A i \in 1 .. Len(argv) : ~Has(argv[i], {Quote}), NEW lim \in 1 .. MaxChars + 2
        PROVE  wtd_split_cmdline(TypedLine(argv), lim) = Slots(argv, lim)
    <3> DEFINE fin == SState(Slots(argv, lim), << >>, "gap")
    <3>1. lim \in Nat \ {0}
      BY MaxCharsAssumption
    <3>2. Loop(SRound(lim), SState(<< >>, << >>, "gap"), TypedLine(argv)) = fin
      BY <2>1, <2>2, <3>1, WordsSplit
    <3>3. fin.in = "gap" /\ fin.toks = Slots(argv, lim)
      BY DEF SState
    <3> HIDE DEF fin
    <3>4. wtd_split_cmdline(TypedLine(argv), lim)
             = IF fin.in # "gap" /\ Room(fin.toks, lim) THEN Append(fin.toks, fin.cur) ELSE fin.toks
      BY <3>2, Zenon DEF wtd_split_cmdline, SRound, SStates, Text, SState
    <3> QED
      BY <3>3, <3>4
  <2> QED
    BY <2>2, Zenon DEF SplitFindsWords, TypedLine, Typed, Slots
<1> QED
  BY <1>1, CmdTyped, PTL
=============================================================================
