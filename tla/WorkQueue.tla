------------------------------ MODULE WorkQueue ------------------------------
(***************************************************************************)
(* core/work_queue.c at the level of its memory accesses: a singly linked  *)
(* list with head and tail pointers under one mutex, nodes that come from  *)
(* malloc and go back to free, so that an address can be used again.       *)
(*                                                                         *)
(* Producers allocate a node (wtd_session_on_output) and push it; the      *)
(* network thread detaches the whole list and walks the chain, reading     *)
(* each node and freeing it (wtd_session_pump), until the last producer    *)
(* has stopped and the queue is destroyed. The daemon has one producer per *)
(* queue; push promises to be thread-safe for any number.                  *)
(***************************************************************************)
EXTENDS Naturals, Sequences

CONSTANTS
    Producers,    \* threads that push
    Nodes,        \* addresses malloc can return
    NULL,
    NoOwner,      \* owner of a free mutex
    Network,      \* the thread that drains
    MaxItems      \* bound: frames ever pushed

ASSUME NamesAssumption ==
    /\ NULL \notin Nodes
    /\ Network \notin Producers
    /\ NoOwner \notin Producers \cup {Network}

ASSUME MaxItemsAssumption == MaxItems \in Nat

VARIABLES
    \* wtd_work_queue_t and the nodes
    mutex, head, tail,
    next,         \* f->next
    item,         \* flag and payload of f: the frame's number
    heap,         \* allocated nodes
    \* producers
    ppc, mine,    \* control point, and the node being pushed
    made,         \* frames created so far
    \* network thread
    npc, cur, nxt, closing,
    \* auxiliary: the nodes on the list, and on the chain that is being walked
    list, chain,
    \* history: items linked in, items taken off
    in, out

queueVars == <<mutex, head, tail, next, item, heap>>
producerVars == <<ppc, mine, made>>
networkVars == <<npc, cur, nxt, closing>>
auxVars == <<list, chain, in, out>>
vars == <<queueVars, producerVars, networkVars, auxVars>>

Items == 1 .. MaxItems
Pointer == Nodes \cup {NULL}

TypeOK ==
    /\ mutex \in Producers \cup {Network, NoOwner}
    /\ head \in Pointer /\ tail \in Pointer
    /\ next \in [Nodes -> Pointer]
    /\ item \in [Nodes -> 0 .. MaxItems]
    /\ heap \subseteq Nodes
    /\ ppc \in [Producers -> {"idle", "lock", "clear", "link", "tail", "unlock", "stopped"}]
    /\ mine \in [Producers -> Pointer]
    /\ made \in 0 .. MaxItems
    /\ npc \in {"idle", "head", "clearhead", "cleartail", "unlock", "walk", "send", "destroyed"}
    /\ cur \in Pointer /\ nxt \in Pointer
    /\ closing \in BOOLEAN
    /\ list \in Seq(Nodes) /\ chain \in Seq(Nodes)
    /\ in \in Seq(Items) /\ out \in Seq(0 .. MaxItems)

\* wtd_work_queue_init. What malloc'ed memory holds is set before it is read.
Init ==
    /\ mutex = NoOwner
    /\ head = NULL /\ tail = NULL
    /\ next = [n \in Nodes |-> NULL]
    /\ item = [n \in Nodes |-> 0]
    /\ heap = {}
    /\ ppc = [p \in Producers |-> "idle"]
    /\ mine = [p \in Producers |-> NULL]
    /\ made = 0
    /\ npc = "idle"
    /\ cur = NULL /\ nxt = NULL
    /\ closing = FALSE
    /\ list = << >> /\ chain = << >>
    /\ in = << >> /\ out = << >>

-----------------------------------------------------------------------------
(* wtd_session_on_output and wtd_work_queue_push, by producer p. *)

\* malloc and the stores that fill the node.
Alloc(p) ==
    /\ ppc[p] = "idle"
    /\ made < MaxItems
    /\ \E n \in Nodes \ heap :
          /\ heap' = heap \cup {n}
          /\ next' = [next EXCEPT ![n] = NULL]
          /\ item' = [item EXCEPT ![n] = made + 1]
          /\ mine' = [mine EXCEPT ![p] = n]
    /\ made' = made + 1
    /\ ppc' = [ppc EXCEPT ![p] = "lock"]
    /\ UNCHANGED <<mutex, head, tail, networkVars, auxVars>>

\* Faulty: the push goes ahead whoever holds the mutex.
PushWithoutLock(p) ==
    /\ ppc[p] = "lock"
    /\ ppc' = [ppc EXCEPT ![p] = "clear"]
    /\ UNCHANGED <<queueVars, mine, made, networkVars, auxVars>>

PushLock(p) ==
    /\ ppc[p] = "lock"
    /\ mutex = NoOwner
    /\ mutex' = p
    /\ ppc' = [ppc EXCEPT ![p] = "clear"]
    /\ UNCHANGED <<head, tail, next, item, heap, mine, made, networkVars, auxVars>>

\* f->next = NULL
PushClearNext(p) ==
    /\ ppc[p] = "clear"
    /\ next' = [next EXCEPT ![mine[p]] = NULL]
    /\ ppc' = [ppc EXCEPT ![p] = "link"]
    /\ UNCHANGED <<mutex, head, tail, item, heap, mine, made, networkVars, auxVars>>

\* tail->next = f, or head = f on an empty list.
LinkNode(n) ==
    IF tail # NULL
    THEN next' = [next EXCEPT ![tail] = n] /\ UNCHANGED head
    ELSE head' = n /\ UNCHANGED next

PushLink(p) ==
    /\ ppc[p] = "link"
    /\ LinkNode(mine[p])
    /\ list' = Append(list, mine[p])
    /\ in' = Append(in, item[mine[p]])
    /\ ppc' = [ppc EXCEPT ![p] = "tail"]
    /\ UNCHANGED <<mutex, tail, item, heap, mine, made, networkVars, chain, out>>

PushTail(p) ==
    /\ ppc[p] = "tail"
    /\ tail' = mine[p]
    /\ mine' = [mine EXCEPT ![p] = NULL]
    /\ ppc' = [ppc EXCEPT ![p] = "unlock"]
    /\ UNCHANGED <<mutex, head, next, item, heap, made, networkVars, auxVars>>

PushUnlock(p) ==
    /\ ppc[p] = "unlock"
    /\ mutex' = NoOwner
    /\ ppc' = [ppc EXCEPT ![p] = "idle"]
    /\ UNCHANGED <<head, tail, next, item, heap, mine, made, networkVars, auxVars>>

\* The reader thread returns.
Stop(p) ==
    /\ ppc[p] = "idle"
    /\ ppc' = [ppc EXCEPT ![p] = "stopped"]
    /\ UNCHANGED <<queueVars, mine, made, networkVars, auxVars>>

Produce(p) ==
    \/ Alloc(p)
    \/ PushLock(p) \/ PushClearNext(p) \/ PushLink(p) \/ PushTail(p) \/ PushUnlock(p)
    \/ Stop(p)

-----------------------------------------------------------------------------
(* wtd_work_queue_drain, by the network thread, then the walk of its       *)
(* caller: wtd_session_pump, or wtd_work_queue_destroy when closing.       *)

DrainLock ==
    /\ npc = "idle"
    /\ ~closing
    /\ mutex = NoOwner
    /\ mutex' = Network
    /\ npc' = "head"
    /\ UNCHANGED <<head, tail, next, item, heap, producerVars, cur, nxt, closing, auxVars>>

\* wtd_work_queue_destroy, which requires that the reader has been joined.
Destroy ==
    /\ npc = "idle"
    /\ ~closing
    /\ \A p \in Producers : ppc[p] = "stopped"
    /\ mutex = NoOwner
    /\ mutex' = Network
    /\ closing' = TRUE
    /\ npc' = "head"
    /\ UNCHANGED <<head, tail, next, item, heap, producerVars, cur, nxt, auxVars>>

\* h = q->head
DrainHead ==
    /\ npc = "head"
    /\ cur' = head
    /\ npc' = "clearhead"
    /\ UNCHANGED <<queueVars, producerVars, nxt, closing, auxVars>>

DrainClearHead ==
    /\ npc = "clearhead"
    /\ head' = NULL
    /\ chain' = list
    /\ list' = << >>
    /\ npc' = "cleartail"
    /\ UNCHANGED <<mutex, tail, next, item, heap, producerVars, cur, nxt, closing, in, out>>

DrainClearTail ==
    /\ npc = "cleartail"
    /\ tail' = NULL
    /\ npc' = "unlock"
    /\ UNCHANGED <<mutex, head, next, item, heap, producerVars, cur, nxt, closing, auxVars>>

\* Faulty: returns with the mutex held.
DrainWithoutUnlock ==
    /\ npc = "unlock"
    /\ npc' = "walk"
    /\ UNCHANGED <<queueVars, producerVars, cur, nxt, closing, auxVars>>

DrainUnlock ==
    /\ npc = "unlock"
    /\ mutex' = NoOwner
    /\ npc' = "walk"
    /\ UNCHANGED <<head, tail, next, item, heap, producerVars, cur, nxt, closing, auxVars>>

\* Faulty: the next pointer is read after free(), when the node may have been
\* allocated again.
WalkNextLate ==
    /\ npc = "walk"
    /\ cur # NULL
    /\ heap' = heap \ {cur}
    /\ nxt' = cur
    /\ npc' = "send"
    /\ UNCHANGED <<mutex, head, tail, next, item, producerVars, cur, closing, auxVars>>

\* next = frame->next
WalkNext ==
    /\ npc = "walk"
    /\ cur # NULL
    /\ nxt' = next[cur]
    /\ npc' = "send"
    /\ UNCHANGED <<queueVars, producerVars, cur, closing, auxVars>>

\* The port call reads the payload; free(frame); frame = next.
WalkSend ==
    /\ npc = "send"
    /\ out' = Append(out, item[cur])
    /\ heap' = heap \ {cur}
    /\ cur' = nxt
    /\ chain' = Tail(chain)
    /\ npc' = "walk"
    /\ UNCHANGED <<mutex, head, tail, next, item, producerVars, nxt, closing, list, in>>

WalkEnd ==
    /\ npc = "walk"
    /\ cur = NULL
    /\ npc' = IF closing THEN "destroyed" ELSE "idle"
    /\ UNCHANGED <<queueVars, producerVars, cur, nxt, closing, auxVars>>

Consume ==
    \/ DrainLock \/ Destroy \/ DrainHead \/ DrainClearHead \/ DrainClearTail \/ DrainUnlock
    \/ WalkNext \/ WalkSend \/ WalkEnd

\* The end: nothing uses the queue any more.
Destroyed == npc = "destroyed" /\ UNCHANGED vars

Next == (\E p \in Producers : Produce(p)) \/ Consume \/ Destroyed

Spec == Init /\ [][Next]_vars

\* Fairness: a thread that is inside push, drain or the walk goes on, and a
\* thread that waits for the mutex while it is free again and again gets it.
\* Nothing makes a producer produce, but the reader thread ends.
Fairness ==
    /\ \A p \in Producers :
          /\ SF_vars(PushLock(p))
          /\ WF_vars(PushClearNext(p) \/ PushLink(p) \/ PushTail(p) \/ PushUnlock(p))
          /\ SF_vars(Stop(p))
    /\ SF_vars(Destroy)
    /\ WF_vars(DrainHead \/ DrainClearHead \/ DrainClearTail \/ DrainUnlock)
    /\ WF_vars(WalkNext \/ WalkSend \/ WalkEnd)

FairSpec == Spec /\ Fairness

-----------------------------------------------------------------------------
(* Properties. *)

Last(s) == s[Len(s)]
First(s) == IF s = << >> THEN NULL ELSE s[1]

\* Producers whose node is not on the list yet.
Holding == {p \in Producers : ppc[p] \in {"lock", "clear", "link"}}

\* The pointers in memory spell the list: head, the next fields and the final
\* NULL, with the one exception that a producer between the link and the store
\* to tail, or a drain between its two stores, has the tail still to move.
ListInMemory ==
    /\ head = First(list)
    /\ \A i \in 1 .. Len(list) :
          next[list[i]] = IF i = Len(list) THEN NULL ELSE list[i + 1]
    /\ mutex = NoOwner => tail = (IF list = << >> THEN NULL ELSE Last(list))

\* Every allocated node has exactly one owner: a producer that has not linked
\* it, one place on the list, or one place on the chain being walked. So no
\* node is leaked, freed twice, or freed or recycled while it can be reached.
NodesOwnedOnce ==
    LET linked == list \o chain IN
    /\ \A i, j \in 1 .. Len(linked) : linked[i] = linked[j] => i = j
    /\ \A p, r \in Holding : mine[p] = mine[r] => p = r
    /\ \A p \in Holding : \A i \in 1 .. Len(linked) : mine[p] # linked[i]
    /\ heap = {linked[i] : i \in 1 .. Len(linked)} \cup {mine[p] : p \in Holding}

\* The two together: wtd_work_queue_push and _drain keep a list whose every node
\* can be reached in order and belongs to it alone.
ListOwnsItsNodes == ListInMemory /\ NodesOwnedOnce

\* The linked list implements the FIFO channel: what the network thread reads
\* out of the nodes is what the producers linked in, in that order.
ItemsOf(s) == [i \in 1 .. Len(s) |-> item[s[i]]]
Fifo == INSTANCE FrameFifo
           WITH Item <- Items, q <- ItemsOf(chain \o list), in <- in, out <- out
QueueIsFifo == Fifo!Spec

\* Destroying the queue frees every node that is left, and neither threads
\* nor mutex wait for each other on the way there.
DestroyedWithoutLeak == <>(npc = "destroyed" /\ heap = {} /\ Len(out) = made)
=============================================================================
