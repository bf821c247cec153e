----------------------------- MODULE Win32Child -----------------------------
(***************************************************************************)
(* The Win32 half of adapters/child_process.c: which handles the daemon    *)
(* holds while it spawns and terminates children, with a failure at every  *)
(* call that can fail, and which of them a child inherits. (The POSIX half *)
(* is in module Daemon.)                                                   *)
(***************************************************************************)
EXTENDS Naturals, FiniteSets

CONSTANT Children    \* bound: children that may be spawned, each at most once

Pipes == {"in", "out", "err"}

\* A handle is an end of a pipe, or of a process.
Ends(c, pipe) == {<<c, pipe, end>> : end \in {"rd", "wr"}}
AllEnds(c) == UNION {Ends(c, pipe) : pipe \in Pipes}
ParentEnds(c) == {<<c, "in", "wr">>, <<c, "out", "rd">>, <<c, "err", "rd">>}
ChildEnds(c) == AllEnds(c) \ ParentEnds(c)
Process(c) == <<c, "process", "handle">>

VARIABLES
    winPc,          \* "idle"; a pipe: about to be created; "protect", "build", "start",
                    \* "wrap"; "wait": in wtd_child_terminate
    winChild,       \* the child the call is about
    handles,        \* open handles of the daemon, descriptors included
    inheritable,    \* those with HANDLE_FLAG_INHERIT
    held,           \* handles of each child
    process,        \* "none", "running", "ending" (TerminateProcess was called), "exited"
    result,         \* of wtd_child_spawn: "none", "failed", "spawned"; "terminated"
    \* history
    exposed         \* the daemon's ends that could not be made uninheritable

winVars == <<winPc, winChild, handles, inheritable, held, process, result, exposed>>

WinInit ==
    /\ winPc = "idle"
    /\ winChild = CHOOSE c \in Children : TRUE
    /\ handles = {} /\ inheritable = {}
    /\ held = [c \in Children |-> {}]
    /\ process = [c \in Children |-> "none"]
    /\ result = [c \in Children |-> "none"]
    /\ exposed = {}

-----------------------------------------------------------------------------
(* wtd_child_spawn. *)

SpawnBegins(c) ==
    /\ winPc = "idle"
    /\ result[c] = "none"
    /\ winChild' = c
    /\ winPc' = "in"
    /\ UNCHANGED <<handles, inheritable, held, process, result, exposed>>

\* Both ends are inheritable at first.
CreatePipe ==
    /\ winPc \in Pipes
    /\ handles' = handles \cup Ends(winChild, winPc)
    /\ inheritable' = inheritable \cup Ends(winChild, winPc)
    /\ winPc' = CASE winPc = "in" -> "out" [] winPc = "out" -> "err" [] winPc = "err" -> "protect"
    /\ UNCHANGED <<winChild, held, process, result, exposed>>

\* Faulty: the daemon's ends stay inheritable.
ProtectNothing ==
    /\ winPc = "protect"
    /\ winPc' = "build"
    /\ UNCHANGED <<winChild, handles, inheritable, held, process, result, exposed>>

\* SetHandleInformation for each of the daemon's ends. Whether it worked is not
\* looked at: an end for which it fails stays inheritable.
Protect ==
    /\ winPc = "protect"
    /\ \E failed \in SUBSET ParentEnds(winChild) :
          /\ inheritable' = (inheritable \ ParentEnds(winChild)) \cup failed
          /\ exposed' = exposed \cup failed
    /\ winPc' = "build"
    /\ UNCHANGED <<winChild, handles, held, process, result>>

BuildCmdline ==
    /\ winPc = "build"
    /\ winPc' = "start"
    /\ UNCHANGED <<winChild, handles, inheritable, held, process, result, exposed>>

\* A pipe or the process cannot be created, or the command line is too long:
\* every end that is there is closed.
SpawnFails ==
    /\ winPc \in Pipes \cup {"build", "start"}
    /\ handles' = handles \ AllEnds(winChild)
    /\ inheritable' = inheritable \ AllEnds(winChild)
    /\ result' = [result EXCEPT ![winChild] = "failed"]
    /\ winPc' = "idle"
    /\ UNCHANGED <<winChild, held, process, exposed>>

\* The child inherits every handle that is inheritable at this moment.
CreateProcess ==
    /\ winPc = "start"
    /\ held' = [held EXCEPT ![winChild] = inheritable]
    /\ process' = [process EXCEPT ![winChild] = "running"]
    /\ handles' = (handles \ ChildEnds(winChild)) \cup {Process(winChild)}
    /\ inheritable' = inheritable \ ChildEnds(winChild)
    /\ winPc' = "wrap"
    /\ UNCHANGED <<winChild, result, exposed>>

\* The parent's ends become descriptors, which own them.
OpenDescriptors ==
    /\ winPc = "wrap"
    /\ result' = [result EXCEPT ![winChild] = "spawned"]
    /\ winPc' = "idle"
    /\ UNCHANGED <<winChild, handles, inheritable, held, process, exposed>>

\* One of them cannot: each end is closed as what it is by then, and the child
\* is told to end, which it does in its own time: nothing waits for it.
OpenDescriptorsFails ==
    /\ winPc = "wrap"
    /\ handles' = handles \ (ParentEnds(winChild) \cup {Process(winChild)})
    /\ inheritable' = inheritable \ ParentEnds(winChild)
    /\ process' = [process EXCEPT ![winChild] = IF @ = "running" THEN "ending" ELSE @]
    /\ result' = [result EXCEPT ![winChild] = "failed"]
    /\ winPc' = "idle"
    /\ UNCHANGED <<winChild, held, exposed>>

-----------------------------------------------------------------------------
(* wtd_child_terminate. *)

TerminateBegins(c) ==
    /\ winPc = "idle"
    /\ result[c] = "spawned"
    /\ handles' = handles \ {<<c, "in", "wr">>}
    /\ inheritable' = inheritable \ {<<c, "in", "wr">>}
    /\ winChild' = c
    /\ winPc' = "wait"
    /\ UNCHANGED <<held, process, result, exposed>>

\* The child exits within the grace period, or is ended and waited for.
TerminateEnds ==
    /\ winPc = "wait"
    /\ process' = [process EXCEPT ![winChild] = "exited"]
    /\ held' = [held EXCEPT ![winChild] = {}]
    /\ handles' = handles \ (ParentEnds(winChild) \cup {Process(winChild)})
    /\ inheritable' = inheritable \ ParentEnds(winChild)
    /\ result' = [result EXCEPT ![winChild] = "terminated"]
    /\ winPc' = "idle"
    /\ UNCHANGED <<winChild, exposed>>

\* external: a child exits by itself, or because it was told to
WinChildExits(c) ==
    /\ process[c] \in {"running", "ending"}
    /\ process' = [process EXCEPT ![c] = "exited"]
    /\ held' = [held EXCEPT ![c] = {}]
    /\ UNCHANGED <<winPc, winChild, handles, inheritable, result, exposed>>

WinNext ==
    \/ \E c \in Children : SpawnBegins(c) \/ TerminateBegins(c) \/ WinChildExits(c)
    \/ CreatePipe \/ Protect \/ BuildCmdline \/ SpawnFails
    \/ CreateProcess \/ OpenDescriptors \/ OpenDescriptorsFails
    \/ TerminateEnds

WinSpec == WinInit /\ [][WinNext]_winVars

-----------------------------------------------------------------------------
\* Closing a child's stdin is its EOF, and the end of a child is the EOF of its
\* stdout: the ends of a child's pipes are held by that child and the daemon
\* only, whatever failed before and however spawns and terminations follow each
\* other, but for an end that SetHandleInformation left inheritable. Between two
\* calls the daemon holds the ends and the process of the children that run
\* under it, and nothing else; of these only such an end can be inherited.
Win32HandlesBalanced ==
    /\ \A c \in Children : held[c] \subseteq ChildEnds(c) \cup exposed
    /\ winPc = "idle" =>
          /\ inheritable = handles \cap exposed
          /\ handles = UNION {ParentEnds(c) \cup {Process(c)} :
                                 c \in {d \in Children : result[d] = "spawned"}}
          /\ \A c \in Children : process[c] = "running" => result[c] = "spawned"
=============================================================================
