--------------------------- MODULE WorkQueueProofs ---------------------------
(***************************************************************************)
(* Proofs about module WorkQueue, for any number of producers, nodes and   *)
(* frames: the pointers in memory spell the list, every allocated node has *)
(* one owner, and the list under its mutex implements a FIFO channel.      *)
(***************************************************************************)
EXTENDS WorkQueue, TLAPS, SequenceTheorems

(* The inductive invariant.                                                *)
(*                                                                         *)
(* ListOwnsItsNodes says what memory looks like while nobody is inside a   *)
(* critical section. To be preserved it needs to know who is inside (Lock),*)
(* how far a push or a drain has come (Push, Drain) and what the walk of   *)
(* the detached chain relies on (Drain).                                   *)

Inside == {"clear", "link", "tail", "unlock"}
Draining == {"head", "clearhead", "cleartail", "unlock"}

\* The mutex has the owner that is in its critical section.
Lock ==
    /\ \A p \in Producers : ppc[p] \in Inside <=> mutex = p
    /\ npc \in Draining <=> mutex = Network

\* The next fields connect the nodes of s, and end it.
Connected(s) ==
    \A i \in 1 .. Len(s) : next[s[i]] = IF i = Len(s) THEN NULL ELSE s[i + 1]

\* tail is right unless a push or a drain has still to move it.
TailInPlace ==
    (\A p \in Producers : ppc[p] # "tail") /\ npc # "cleartail" =>
        tail = IF list = << >> THEN NULL ELSE Last(list)

\* A producer has a node from malloc to the store to tail.
Push ==
    \A p \in Producers :
        /\ ppc[p] \in {"lock", "clear", "link", "tail"} => mine[p] \in Nodes
        /\ ppc[p] = "link" => next[mine[p]] = NULL
        /\ ppc[p] = "tail" => list # << >> /\ mine[p] = Last(list)

\* What the network thread knows about list and chain.
Drain ==
    /\ npc \in {"idle", "head", "clearhead", "destroyed"} => chain = << >>
    /\ npc = "clearhead" => cur = head
    /\ npc = "cleartail" => list = << >>
    /\ npc \in {"cleartail", "unlock", "walk", "send"} => cur = First(chain)
    /\ npc = "send" => chain # << >> /\ nxt = next[cur]

\* No node twice in s.
Once(s) == \A i, j \in 1 .. Len(s) : s[i] = s[j] => i = j

NodesOf(s) == {s[i] : i \in 1 .. Len(s)}

\* NodesOwnedOnce, for list and chain apart.
Owned ==
    /\ Once(list) /\ Once(chain)
    /\ NodesOf(list) \cap NodesOf(chain) = {}
    /\ \A p, r \in Holding : mine[p] = mine[r] => p = r
    /\ \A p \in Holding : mine[p] \notin NodesOf(list) \cup NodesOf(chain)
    /\ heap = NodesOf(list) \cup NodesOf(chain) \cup {mine[p] : p \in Holding}

\* An allocated node holds a frame.
Filled == \A n \in heap : item[n] \in Items

QueueInv ==
    /\ TypeOK /\ Lock
    /\ head = First(list) /\ Connected(list) /\ Connected(chain)
    /\ TailInPlace /\ Push /\ Drain /\ Owned /\ Filled

-----------------------------------------------------------------------------
(* Sequences of nodes. *)

\* The nodes of a sequence are nodes, and the first and last ones are among them.
LEMMA NodesOfSeq ==
    ASSUME NEW s \in Seq(Nodes)
    PROVE  /\ Len(s) \in Nat /\ (s = << >> <=> Len(s) = 0)
           /\ \A i \in 1 .. Len(s) : s[i] \in Nodes /\ s[i] \in NodesOf(s)
           /\ NodesOf(s) \subseteq Nodes
           /\ s # << >> => First(s) \in NodesOf(s) /\ Last(s) \in NodesOf(s)
  <1>1. Len(s) \in Nat /\ (s = << >> <=> Len(s) = 0)
    BY LenProperties, EmptySeq
  <1>2. \A i \in 1 .. Len(s) : s[i] \in Nodes
    BY ElementOfSeq
  <1> QED BY <1>1, <1>2 DEF NodesOf, First, Last

\* A producer's node behind the last one.
LEMMA AppendNode ==
    ASSUME NEW s \in Seq(Nodes), NEW n \in Nodes
    PROVE  /\ Append(s, n) \in Seq(Nodes) /\ Append(s, n) # << >>
           /\ Len(Append(s, n)) = Len(s) + 1
           /\ \A i \in 1 .. Len(s) : Append(s, n)[i] = s[i]
           /\ Append(s, n)[Len(s) + 1] = n
           /\ Last(Append(s, n)) = n
           /\ First(Append(s, n)) = IF s = << >> THEN n ELSE First(s)
           /\ NodesOf(Append(s, n)) = NodesOf(s) \cup {n}
           /\ Once(s) /\ n \notin NodesOf(s) => Once(Append(s, n))
  <1> DEFINE t == Append(s, n)
  <1>1. /\ t \in Seq(Nodes) /\ t # << >> /\ Len(t) = Len(s) + 1
        /\ \A i \in 1 .. Len(s) : t[i] = s[i]
        /\ t[Len(s) + 1] = n
    BY AppendProperties
  <1>2. Len(s) \in Nat /\ (s = << >> <=> Len(s) = 0)
    BY NodesOfSeq
  <1> HIDE DEF t
  <1>3. Last(t) = n /\ First(t) = IF s = << >> THEN n ELSE First(s)
    BY <1>1, <1>2 DEF Last, First
  <1>4. NodesOf(t) = NodesOf(s) \cup {n}
    <2>1. 1 .. Len(t) = (1 .. Len(s)) \cup {Len(s) + 1}
      BY <1>1, <1>2
    <2> QED BY <1>1, <2>1 DEF NodesOf
  <1>5. ASSUME Once(s), n \notin NodesOf(s) PROVE Once(t)
    BY <1>1, <1>2, <1>5 DEF Once, NodesOf
  <1> QED BY <1>1, <1>3, <1>4, <1>5 DEF t

\* What is left of a chain when its first node has been freed.
LEMMA TailNode ==
    ASSUME NEW s \in Seq(Nodes), s # << >>
    PROVE  /\ Tail(s) \in Seq(Nodes)
           /\ Len(Tail(s)) = Len(s) - 1
           /\ \A i \in 1 .. Len(s) - 1 : Tail(s)[i] = s[i + 1]
           /\ First(Tail(s)) = IF Len(s) = 1 THEN NULL ELSE s[2]
           /\ Once(s) => Once(Tail(s)) /\ NodesOf(Tail(s)) = NodesOf(s) \ {First(s)}
  <1> DEFINE t == Tail(s)
  <1>1. /\ t \in Seq(Nodes) /\ Len(t) = Len(s) - 1
        /\ \A i \in 1 .. Len(s) - 1 : t[i] = s[i + 1]
    BY HeadTailProperties
  <1>2. Len(s) \in Nat \ {0}
    BY EmptySeq
  <1>3. t = << >> <=> Len(t) = 0
    BY <1>1, NodesOfSeq
  <1> HIDE DEF t
  <1>4. First(t) = IF Len(s) = 1 THEN NULL ELSE s[2]
    BY <1>1, <1>2, <1>3 DEF First
  <1>5. ASSUME Once(s) PROVE Once(t) /\ NodesOf(t) = NodesOf(s) \ {First(s)}
    <2>1. Once(t)
      BY <1>1, <1>2, <1>5 DEF Once
    <2>2. First(s) = s[1]
      BY DEF First
    <2>3. ASSUME NEW n PROVE n \in NodesOf(t) <=> n \in NodesOf(s) /\ n # s[1]
      <3>1. ASSUME NEW i \in 1 .. Len(t), n = t[i] PROVE n \in NodesOf(s) /\ n # s[1]
        BY <1>1, <1>2, <1>5, <3>1 DEF Once, NodesOf
      <3>2. ASSUME NEW i \in 1 .. Len(s), n = s[i], n # s[1] PROVE n \in NodesOf(t)
        <4>1. i - 1 \in 1 .. Len(t) /\ t[i - 1] = s[i]
          BY <1>1, <1>2, <3>2
        <4> QED BY <3>2, <4>1 DEF NodesOf
      <3> QED BY <3>1, <3>2 DEF NodesOf
    <2> QED BY <2>1, <2>2, <2>3
  <1> QED BY <1>1, <1>4, <1>5 DEF t

-----------------------------------------------------------------------------
(* Initially. *)

\* A new queue satisfies the invariant.
LEMMA QueueInvInit == Init => QueueInv
  <1> SUFFICES ASSUME Init PROVE QueueInv
    OBVIOUS
  <1>1. \A S : << >> \in Seq(S) /\ Len(<< >>) = 0
    BY EmptySeq
  <1>2. /\ list \in Seq(Nodes) /\ chain \in Seq(Nodes)
        /\ in \in Seq(Items) /\ out \in Seq(0 .. MaxItems)
    BY <1>1, Zenon DEF Init
  <1>a. /\ next \in [Nodes -> Pointer] /\ item \in [Nodes -> 0 .. MaxItems]
        /\ mine \in [Producers -> Pointer] /\ made \in 0 .. MaxItems
        /\ ppc \in [Producers -> {"idle", "lock", "clear", "link", "tail", "unlock", "stopped"}]
    BY MaxItemsAssumption DEF Init, Pointer
  <1>b. /\ mutex \in Producers \cup {Network, NoOwner} /\ head \in Pointer /\ tail \in Pointer
        /\ cur \in Pointer /\ nxt \in Pointer /\ heap \subseteq Nodes /\ closing \in BOOLEAN
        /\ npc \in {"idle", "head", "clearhead", "cleartail", "unlock", "walk", "send", "destroyed"}
    BY Zenon DEF Init, Pointer
  <1>3. TypeOK
    BY <1>2, <1>a, <1>b, Zenon DEF TypeOK
  <1>4. Len(list) = 0 /\ Len(chain) = 0
    BY <1>1, Zenon DEF Init
  <1>5. Holding = {}
    BY DEF Init, Holding
  <1>6. Owned /\ Filled
    BY <1>4, <1>5 DEF Init, Owned, Once, NodesOf, Filled
  <1>7. Connected(list) /\ Connected(chain) /\ head = First(list)
    BY <1>4 DEF Init, Connected, First
  <1>8. Lock
    BY NamesAssumption DEF Init, Lock, Inside, Draining
  <1>9. TailInPlace /\ Push /\ Drain
    BY DEF Init, TailInPlace, Push, Drain
  <1> QED BY <1>3, <1>6, <1>7, <1>8, <1>9 DEF QueueInv

-----------------------------------------------------------------------------
(* Steps that leave the nodes alone. *)

Memory == head = First(list) /\ Connected(list) /\ Connected(chain) /\ Owned /\ Filled

\* A step that only moves a thread, or the tail, keeps list and chain and the
\* owners of their nodes.
LEMMA MemoryUntouched ==
    ASSUME Memory, UNCHANGED <<head, next, item, heap, list, chain>>,
           Holding' = Holding, \A p \in Holding : mine'[p] = mine[p]
    PROVE  Memory'
  <1>1. Owned'
    BY DEF Memory, Owned, Once, NodesOf
  <1>2. (head = First(list))' /\ Connected(list)' /\ Connected(chain)'
    BY DEF Memory, Connected, First
  <1>3. Filled'
    BY DEF Memory, Filled
  <1> QED BY <1>1, <1>2, <1>3 DEF Memory

\* A drain or a push goes on, or a thread enters or leaves the critical section.
LEMMA ControlStep ==
    ASSUME QueueInv,
           \/ \E p \in Producers : PushLock(p) \/ PushUnlock(p) \/ Stop(p)
           \/ DrainLock \/ Destroy \/ DrainHead \/ DrainClearTail \/ DrainUnlock
           \/ WalkNext \/ WalkEnd
    PROVE  QueueInv'
  <1> USE NamesAssumption DEF queueVars, producerVars, networkVars, auxVars
  <1>0. /\ TypeOK /\ Lock /\ Memory /\ TailInPlace /\ Push /\ Drain
    BY DEF QueueInv, Memory
  <1>s. SUFFICES TypeOK' /\ Lock' /\ Memory' /\ TailInPlace' /\ Push' /\ Drain'
    BY DEF QueueInv, Memory
  <1>1. ASSUME NEW p \in Producers, PushLock(p) \/ PushUnlock(p) \/ Stop(p)
        PROVE  TypeOK' /\ Lock' /\ Memory' /\ TailInPlace' /\ Push' /\ Drain'
    <2> USE DEF PushLock, PushUnlock, Stop
    <2>1. TypeOK'
      BY <1>0, <1>1 DEF TypeOK
    <2>2. Lock'
      BY <1>0, <1>1 DEF TypeOK, Lock, Inside, Draining
    <2>3. Memory'
      <3>1. Holding' = Holding
        BY <1>0, <1>1 DEF TypeOK, Holding
      <3> QED BY <1>0, <1>1, <3>1, MemoryUntouched
    <2>4. TailInPlace'
      BY <1>0, <1>1 DEF TypeOK, TailInPlace, First, Last
    <2>5. Push'
      BY <1>0, <1>1 DEF TypeOK, Push, First, Last
    <2>6. Drain'
      BY <1>0, <1>1 DEF Drain, First
    <2> QED BY <2>1, <2>2, <2>3, <2>4, <2>5, <2>6
  <1>a. ASSUME UNCHANGED <<producerVars, head, next, item, heap, list, chain>>
        PROVE  Memory'
    <2>1. Holding' = Holding
      BY <1>a DEF Holding
    <2> QED BY <1>0, <1>a, <2>1, MemoryUntouched
  <1>b. /\ chain \in Seq(Nodes) /\ list \in Seq(Nodes)
        /\ (chain # << >> => First(chain) \in Nodes)
    BY <1>0, NodesOfSeq DEF TypeOK
  <1>4. CASE DrainLock \/ Destroy
    <2>1. CASE DrainLock
      BY <1>0, <1>a, <2>1 DEF DrainLock, TypeOK, Lock, Draining, TailInPlace, Push, Drain, First, Last
    <2>2. CASE Destroy
      BY <1>0, <1>a, <2>2 DEF Destroy, TypeOK, Lock, Draining, TailInPlace, Push, Drain, First, Last
    <2> QED BY <1>4, <2>1, <2>2
  <1>5. CASE DrainHead
    BY <1>0, <1>5, <1>a DEF DrainHead, TypeOK, Lock, Draining, TailInPlace, Push, Drain, First, Last
  <1>6. CASE DrainClearTail
    <2>1. \A p \in Producers : ppc[p] # "tail"
      BY <1>0, <1>6 DEF DrainClearTail, Lock, Draining, Inside
    <2> QED BY <1>0, <1>6, <1>a, <2>1
            DEF DrainClearTail, TypeOK, Pointer, Lock, Draining, TailInPlace, Push, Drain, First, Last
  <1>7. CASE DrainUnlock
    BY <1>0, <1>7, <1>a DEF DrainUnlock, TypeOK, Lock, Draining, Inside, TailInPlace, Push, Drain,
       First, Last
  <1>8. CASE WalkNext
    BY <1>0, <1>8, <1>a, <1>b DEF WalkNext, TypeOK, Pointer, Lock, Draining, TailInPlace, Push, Drain,
       First, Last
  <1>9. CASE WalkEnd
    BY <1>0, <1>9, <1>a, <1>b DEF WalkEnd, TypeOK, Pointer, Lock, Draining, TailInPlace, Push, Drain,
       First, Last
  <1> QED BY <1>1, <1>4, <1>5, <1>6, <1>7, <1>8, <1>9

-----------------------------------------------------------------------------
(* Steps of a push that write to a node or to the list. *)

\* A fresh node belongs to the producer that allocated it and to nobody else.
LEMMA AllocStep ==
    ASSUME QueueInv, NEW p \in Producers, Alloc(p)
    PROVE  QueueInv'
  <1> USE DEF queueVars, producerVars, networkVars, auxVars
  <1>0. /\ TypeOK /\ Lock /\ head = First(list) /\ Connected(list) /\ Connected(chain)
        /\ TailInPlace /\ Push /\ Drain /\ Owned /\ Filled
    BY DEF QueueInv
  <1>1. PICK n \in Nodes \ heap :
          /\ heap' = heap \cup {n}
          /\ next' = [next EXCEPT ![n] = NULL]
          /\ item' = [item EXCEPT ![n] = made + 1]
          /\ mine' = [mine EXCEPT ![p] = n]
    BY DEF Alloc
  <1>2. /\ UNCHANGED <<mutex, head, tail, npc, cur, nxt, closing, list, chain, in, out>>
        /\ ppc[p] = "idle" /\ ppc' = [ppc EXCEPT ![p] = "lock"]
        /\ made < MaxItems /\ made' = made + 1
    BY DEF Alloc
  <1>3. list \in Seq(Nodes) /\ chain \in Seq(Nodes)
    BY <1>0 DEF TypeOK
  <1>4. /\ n \notin NodesOf(list) /\ n \notin NodesOf(chain)
        /\ \A r \in Holding : mine[r] # n
    BY <1>0, <1>1 DEF Owned
  <1>5. Holding' = Holding \cup {p} /\ p \notin Holding
    BY <1>0, <1>2 DEF TypeOK, Holding
  <1>6. TypeOK'
    <2>1. /\ item' \in [Nodes -> 0 .. MaxItems] /\ made' \in 0 .. MaxItems
      BY <1>0, <1>1, <1>2, MaxItemsAssumption DEF TypeOK
    <2> QED BY <1>0, <1>1, <1>2, <2>1 DEF TypeOK, Pointer
  <1>7. Lock'
    BY <1>0, <1>2 DEF TypeOK, Lock, Inside, Draining
  <1>8. \A m \in NodesOf(list) \cup NodesOf(chain) : next'[m] = next[m]
    BY <1>0, <1>1, <1>3, <1>4, NodesOfSeq DEF TypeOK
  <1>9. (head = First(list) /\ Connected(list) /\ Connected(chain))'
    <2>1. Connected(list)'
      BY <1>0, <1>2, <1>3, <1>8, NodesOfSeq DEF Connected
    <2>2. Connected(chain)'
      BY <1>0, <1>2, <1>3, <1>8, NodesOfSeq DEF Connected
    <2> QED BY <1>0, <1>2, <2>1, <2>2 DEF First
  <1>10. (TailInPlace /\ Push)'
    <2>1. TailInPlace'
      BY <1>0, <1>2 DEF TypeOK, TailInPlace, Last
    <2>2. ASSUME NEW r \in Producers, r # p, ppc[r] = "link" PROVE next'[mine'[r]] = NULL
      BY <1>0, <1>1, <1>4, <2>2 DEF TypeOK, Push, Holding
    <2> QED BY <1>0, <1>1, <1>2, <2>1, <2>2 DEF TypeOK, Push, Last
  <1>11. Drain'
    <2>1. chain # << >> => First(chain) \in NodesOf(chain)
      BY <1>3, NodesOfSeq
    <2> QED BY <1>0, <1>2, <1>8, <2>1 DEF Drain, First
  <1>12. Owned'
    <2>1. /\ \A r \in Holding : mine'[r] = mine[r]
          /\ mine'[p] = n
      BY <1>0, <1>1, <1>5 DEF TypeOK, Holding
    <2>2. /\ NodesOf(list)' = NodesOf(list) /\ NodesOf(chain)' = NodesOf(chain)
          /\ Once(list)' /\ Once(chain)'
      BY <1>0, <1>2 DEF Owned, Once, NodesOf
    <2>3. /\ \A r, t \in Holding' : mine'[r] = mine'[t] => r = t
          /\ \A r \in Holding' : mine'[r] \notin NodesOf(list) \cup NodesOf(chain)
      BY <1>0, <1>4, <1>5, <2>1 DEF Owned
    <2>4. {mine'[r] : r \in Holding'} = {mine[r] : r \in Holding} \cup {n}
      BY <1>5, <2>1
    <2> HIDE DEF NodesOf, Once
    <2> QED BY <1>0, <1>1, <2>2, <2>3, <2>4 DEF Owned
  <1>13. Filled'
    BY <1>0, <1>1, <1>2, MaxItemsAssumption DEF TypeOK, Filled, Items
  <1> QED BY <1>6, <1>7, <1>9, <1>10, <1>11, <1>12, <1>13 DEF QueueInv

\* f->next = NULL writes to a node that is on no list.
LEMMA PushClearNextStep ==
    ASSUME QueueInv, NEW p \in Producers, PushClearNext(p)
    PROVE  QueueInv'
  <1> USE DEF queueVars, producerVars, networkVars, auxVars
  <1>0. /\ TypeOK /\ Lock /\ head = First(list) /\ Connected(list) /\ Connected(chain)
        /\ TailInPlace /\ Push /\ Drain /\ Owned /\ Filled
    BY DEF QueueInv
  <1>1. /\ UNCHANGED <<mutex, head, tail, item, heap, mine, made, npc, cur, nxt, closing,
                       list, chain, in, out>>
        /\ ppc[p] = "clear" /\ ppc' = [ppc EXCEPT ![p] = "link"]
        /\ next' = [next EXCEPT ![mine[p]] = NULL]
    BY DEF PushClearNext
  <1>2. list \in Seq(Nodes) /\ chain \in Seq(Nodes) /\ mine[p] \in Nodes /\ p \in Holding
    BY <1>0, <1>1 DEF TypeOK, Push, Holding
  <1>3. Holding' = Holding
    BY <1>0, <1>1 DEF TypeOK, Holding
  <1>4. \A m \in Nodes : m # mine[p] => next'[m] = next[m]
    BY <1>0, <1>1 DEF TypeOK
  <1>5. \A m \in NodesOf(list) \cup NodesOf(chain) : next'[m] = next[m]
    BY <1>0, <1>2, <1>4, NodesOfSeq DEF Owned
  <1>6. TypeOK' /\ Lock'
    BY <1>0, <1>1, <1>2 DEF TypeOK, Pointer, Lock, Inside, Draining
  <1>7. (head = First(list) /\ Connected(list) /\ Connected(chain))'
    <2>1. Connected(list)'
      BY <1>0, <1>1, <1>2, <1>5, NodesOfSeq DEF Connected
    <2>2. Connected(chain)'
      BY <1>0, <1>1, <1>2, <1>5, NodesOfSeq DEF Connected
    <2> QED BY <1>0, <1>1, <2>1, <2>2 DEF First
  <1>8. (TailInPlace /\ Push)'
    <2>1. TailInPlace'
      BY <1>0, <1>1 DEF TypeOK, TailInPlace, Last
    <2>2. \A r \in Producers : r # p => ppc[r] # "link"
      BY <1>0, <1>1 DEF Lock, Inside
    <2>3. next'[mine[p]] = NULL
      BY <1>0, <1>1, <1>2 DEF TypeOK
    <2> QED BY <1>0, <1>1, <2>1, <2>2, <2>3 DEF TypeOK, Push, Last
  <1>9. Drain'
    <2>1. chain # << >> => First(chain) \in NodesOf(chain)
      BY <1>2, NodesOfSeq
    <2> QED BY <1>0, <1>1, <1>5, <2>1 DEF Drain, First
  <1>10. Owned' /\ Filled'
    <2>1. Owned'
      BY <1>0, <1>1, <1>3 DEF Owned, Once, NodesOf
    <2> QED BY <1>0, <1>1, <2>1 DEF Filled
  <1> QED BY <1>6, <1>7, <1>8, <1>9, <1>10 DEF QueueInv

\* The store to tail->next, or to head, puts the node at the end of the list.
LEMMA PushLinkStep ==
    ASSUME QueueInv, NEW p \in Producers, PushLink(p)
    PROVE  QueueInv'
  <1> USE DEF queueVars, producerVars, networkVars, auxVars
  <1> DEFINE n == mine[p]
  <1>0. /\ TypeOK /\ Lock /\ head = First(list) /\ Connected(list) /\ Connected(chain)
        /\ TailInPlace /\ Push /\ Drain /\ Owned /\ Filled
    BY DEF QueueInv
  <1>1. /\ UNCHANGED <<mutex, tail, item, heap, mine, made, npc, cur, nxt, closing, chain, out>>
        /\ ppc[p] = "link" /\ ppc' = [ppc EXCEPT ![p] = "tail"]
        /\ LinkNode(n) /\ list' = Append(list, n) /\ in' = Append(in, item[n])
    BY DEF PushLink
  <1>2. list \in Seq(Nodes) /\ chain \in Seq(Nodes) /\ n \in Nodes /\ p \in Holding /\ next[n] = NULL
    BY <1>0, <1>1 DEF TypeOK, Push, Holding
  <1>3. mutex = p /\ npc \notin Draining /\ \A r \in Producers : r # p => ppc[r] \notin Inside
    BY <1>0, <1>1, NamesAssumption DEF Lock, Inside
  <1>4. /\ n \notin NodesOf(list) /\ n \notin NodesOf(chain) /\ n \in heap
        /\ \A r \in Holding : r # p => mine[r] # n
    BY <1>0, <1>2 DEF Owned
  <1>5. Holding' = Holding \ {p}
    BY <1>0, <1>1 DEF TypeOK, Holding
  <1>6. /\ \A m \in Nodes : list # << >> => next'[m] = IF m = Last(list) THEN n ELSE next[m]
        /\ list = << >> => next' = next
        /\ head' = IF list = << >> THEN n ELSE head
        /\ next' \in [Nodes -> Pointer]
    <2>1. tail = IF list = << >> THEN NULL ELSE Last(list)
      BY <1>0, <1>1, <1>3 DEF TailInPlace, Inside, Draining
    <2>2. list # << >> => Last(list) \in Nodes
      BY <1>2, NodesOfSeq
    <2> HIDE DEF n
    <2> QED BY <1>0, <1>1, <1>2, <2>1, <2>2, NamesAssumption DEF LinkNode, TypeOK, Pointer
  <1>7. /\ list' \in Seq(Nodes) /\ list' # << >>
        /\ Len(list') = Len(list) + 1 /\ Len(list) \in Nat
        /\ \A i \in 1 .. Len(list) : list'[i] = list[i]
        /\ list'[Len(list) + 1] = n
        /\ Last(list') = n
        /\ First(list') = IF list = << >> THEN n ELSE First(list)
        /\ NodesOf(list') = NodesOf(list) \cup {n}
        /\ Once(list')
    <2> HIDE DEF n
    <2> QED BY <1>0, <1>1, <1>2, <1>4, AppendNode, NodesOfSeq DEF Owned
  <1>8. (list = << >> <=> Len(list) = 0)
        /\ \A i \in 1 .. Len(list) : list[i] \in Nodes /\ list[i] \in NodesOf(list)
    BY <1>2, NodesOfSeq
  <1> HIDE DEF n
  <1>9. TypeOK' /\ Lock'
    <2>1. item[n] \in Items
      BY <1>0, <1>4 DEF Filled
    <2>2. in' \in Seq(Items)
      BY <1>0, <1>1, <2>1, AppendProperties DEF TypeOK
    <2>3. head' \in Pointer /\ next' \in [Nodes -> Pointer]
      BY <1>0, <1>2, <1>6 DEF TypeOK, Pointer
    <2>4. TypeOK'
      BY <1>0, <1>1, <1>7, <2>2, <2>3 DEF TypeOK
    <2> QED BY <1>0, <1>1, <2>4 DEF TypeOK, Lock, Inside, Draining
  <1>10. head' = First(list')
    BY <1>0, <1>6, <1>7
  <1>11. Connected(list)'
    <2>1. ASSUME NEW i \in 1 .. Len(list), i # Len(list) PROVE next'[list'[i]] = list'[i + 1]
      <3>1. list[i] # Last(list)
        BY <1>0, <1>7, <2>1 DEF Owned, Once, Last
      <3>2. next[list[i]] = list[i + 1]
        BY <1>0, <2>1 DEF Connected
      <3>3. next'[list[i]] = next[list[i]]
        BY <1>6, <1>7, <1>8, <3>1
      <3> QED BY <1>7, <2>1, <3>2, <3>3
    <2>2. list # << >> => next'[list'[Len(list)]] = n
      BY <1>6, <1>7, <1>8 DEF Last
    <2>3. next'[n] = NULL
      <3>1. list # << >> => Last(list) \in NodesOf(list)
        BY <1>2, NodesOfSeq
      <3> QED BY <1>2, <1>4, <1>6, <3>1
    <2>4. ASSUME NEW i \in 1 .. Len(list')
          PROVE  next'[list'[i]] = IF i = Len(list') THEN NULL ELSE list'[i + 1]
      BY <1>7, <1>8, <2>1, <2>2, <2>3
    <2> QED BY <2>4 DEF Connected
  <1>12. Connected(chain)'
    <2>1. \A i \in 1 .. Len(chain) : next'[chain[i]] = next[chain[i]]
      <3>1. \A i \in 1 .. Len(chain) : chain[i] \in Nodes /\ chain[i] \in NodesOf(chain)
        BY <1>2, NodesOfSeq
      <3>2. list # << >> => Last(list) \in NodesOf(list)
        BY <1>2, NodesOfSeq
      <3>3. NodesOf(list) \cap NodesOf(chain) = {}
        BY <1>0 DEF Owned
      <3> QED BY <1>6, <3>1, <3>2, <3>3
    <2> QED BY <1>0, <1>1, <2>1 DEF Connected
  <1>13. (TailInPlace /\ Push)'
    <2>1. TailInPlace'
      BY <1>0, <1>1 DEF TypeOK, TailInPlace
    <2> HIDE DEF n
    <2>2. mine'[p] = n
      BY <1>1 DEF n
    <2>3. \A r \in Producers : r # p => ppc'[r] = ppc[r] /\ ppc[r] \notin Inside
      BY <1>0, <1>1, <1>3 DEF TypeOK
    <2>4. ppc'[p] = "tail"
      BY <1>0, <1>1 DEF TypeOK
    <2>5. \A r \in Producers : ppc'[r] \in {"lock", "clear", "link", "tail"} => mine'[r] \in Nodes
      BY <1>0, <1>1, <1>2, <2>2, <2>3, <2>4 DEF Push
    <2> QED BY <1>7, <2>1, <2>2, <2>3, <2>4, <2>5 DEF Push, Inside
  <1>14. Drain'
    BY <1>0, <1>1, <1>3, <1>12 DEF Drain, Draining, First, Connected
  <1>15. Owned' /\ Filled'
    <2>1. NodesOf(chain)' = NodesOf(chain) /\ Once(chain)' /\ NodesOf(list)' = NodesOf(list')
          /\ Once(list)'
      BY <1>0, <1>1, <1>7 DEF Owned, NodesOf, Once
    <2>2. NodesOf(list') \cap NodesOf(chain) = {}
      BY <1>0, <1>4, <1>7 DEF Owned
    <2>3. /\ \A r, t \in Holding' : mine'[r] = mine'[t] => r = t
          /\ \A r \in Holding' : mine'[r] \notin NodesOf(list') \cup NodesOf(chain)
      BY <1>0, <1>1, <1>4, <1>5, <1>7 DEF Owned
    <2>4. {mine'[r] : r \in Holding'} \cup {n} = {mine[r] : r \in Holding}
      BY <1>1, <1>2, <1>5 DEF n
    <2>5. heap' = NodesOf(list') \cup NodesOf(chain) \cup {mine'[r] : r \in Holding'}
      BY <1>0, <1>1, <1>7, <2>4 DEF Owned
    <2> QED BY <1>0, <1>1, <2>1, <2>2, <2>3, <2>5 DEF Owned, Filled
  <1> QED BY <1>9, <1>10, <1>11, <1>12, <1>13, <1>14, <1>15 DEF QueueInv

\* The store to tail ends what only the lock holder may see.
LEMMA PushTailStep ==
    ASSUME QueueInv, NEW p \in Producers, PushTail(p)
    PROVE  QueueInv'
  <1> USE DEF queueVars, producerVars, networkVars, auxVars
  <1>0. /\ TypeOK /\ Lock /\ Memory /\ TailInPlace /\ Push /\ Drain
    BY DEF QueueInv, Memory
  <1>s. SUFFICES TypeOK' /\ Lock' /\ Memory' /\ TailInPlace' /\ Push' /\ Drain'
    BY DEF QueueInv, Memory
  <1>1. TypeOK' /\ Lock'
    BY <1>0 DEF PushTail, TypeOK, Pointer, Lock, Inside, Draining
  <1>2. Memory'
    <2>1. Holding' = Holding /\ p \notin Holding
      BY <1>0 DEF PushTail, TypeOK, Holding
    <2>2. \A r \in Holding : mine'[r] = mine[r]
      BY <1>0, <2>1 DEF PushTail, TypeOK, Holding
    <2> QED BY <1>0, <2>1, <2>2, MemoryUntouched DEF PushTail
  <1>3. TailInPlace' /\ Push' /\ Drain'
    BY <1>0 DEF PushTail, TypeOK, TailInPlace, Push, Drain, First, Last
  <1> QED BY <1>1, <1>2, <1>3

-----------------------------------------------------------------------------
(* Steps of the network thread that detach the list or free a node. *)

\* The store to head detaches the whole list; cur has its first node.
LEMMA DrainClearHeadStep ==
    ASSUME QueueInv, DrainClearHead
    PROVE  QueueInv'
  <1> USE DEF queueVars, producerVars, networkVars, auxVars
  <1>0. /\ TypeOK /\ Lock /\ head = First(list) /\ Connected(list) /\ Connected(chain)
        /\ TailInPlace /\ Push /\ Drain /\ Owned /\ Filled
    BY DEF QueueInv
  <1>1. /\ npc = "clearhead" /\ npc' = "cleartail"
        /\ head' = NULL /\ chain' = list /\ list' = << >>
        /\ UNCHANGED <<mutex, tail, next, item, heap, ppc, mine, made, cur, nxt, closing, in, out>>
    BY DEF DrainClearHead
  <1>2. chain = << >> /\ Len(chain) = 0 /\ Len(list') = 0 /\ list' \in Seq(Nodes)
    BY <1>0, <1>1, EmptySeq, Zenon DEF Drain
  <1>3. Holding' = Holding
    BY <1>1 DEF Holding
  <1>4. \A r \in Producers : ppc[r] \notin Inside
    BY <1>0, <1>1, NamesAssumption DEF Lock, Draining, Inside
  <1>5. TypeOK' /\ Lock'
    <2>1. TypeOK'
      BY <1>0, <1>1, <1>2 DEF TypeOK, Pointer
    <2> QED BY <1>0, <1>1, <2>1 DEF Lock, Draining
  <1>6. (head = First(list) /\ Connected(list) /\ Connected(chain))'
    <2>1. Connected(list)' /\ Connected(chain)'
      BY <1>0, <1>1, <1>2 DEF Connected
    <2> QED BY <1>1, <2>1 DEF First
  <1>7. (TailInPlace /\ Push /\ Drain)'
    BY <1>0, <1>1, <1>4 DEF TailInPlace, Push, Drain, Inside, First
  <1>8. Owned' /\ Filled'
    <2>1. NodesOf(chain) = {} /\ NodesOf(list') = {} /\ Once(list')
      BY <1>2 DEF NodesOf, Once
    <2>2. NodesOf(chain') = NodesOf(list) /\ Once(chain')
      BY <1>0, <1>1 DEF Owned
    <2>3. /\ NodesOf(list') \cap NodesOf(chain') = {}
          /\ \A p, r \in Holding' : mine'[p] = mine'[r] => p = r
          /\ \A p \in Holding' : mine'[p] \notin NodesOf(list') \cup NodesOf(chain')
          /\ heap' = NodesOf(list') \cup NodesOf(chain') \cup {mine'[p] : p \in Holding'}
      BY <1>0, <1>1, <1>3, <2>1, <2>2 DEF Owned
    <2>4. Once(list)' /\ Once(chain)' /\ NodesOf(list)' = NodesOf(list')
          /\ NodesOf(chain)' = NodesOf(chain')
      BY <2>1, <2>2 DEF Once, NodesOf
    <2>5. Owned'
      BY <2>3, <2>4 DEF Owned
    <2> QED BY <1>0, <1>1, <2>5 DEF Filled
  <1> QED BY <1>5, <1>6, <1>7, <1>8 DEF QueueInv

\* free(frame); frame = next: the node leaves the chain, and nothing else reaches it.
LEMMA WalkSendStep ==
    ASSUME QueueInv, WalkSend
    PROVE  QueueInv'
  <1> USE DEF queueVars, producerVars, networkVars, auxVars
  <1>0. /\ TypeOK /\ Lock /\ head = First(list) /\ Connected(list) /\ Connected(chain)
        /\ TailInPlace /\ Push /\ Drain /\ Owned /\ Filled
    BY DEF QueueInv
  <1>1. /\ npc = "send" /\ npc' = "walk" /\ out' = Append(out, item[cur])
        /\ heap' = heap \ {cur} /\ cur' = nxt /\ chain' = Tail(chain)
        /\ UNCHANGED <<mutex, head, tail, next, item, ppc, mine, made, nxt, closing, list, in>>
    BY DEF WalkSend
  <1>2. /\ list \in Seq(Nodes) /\ chain \in Seq(Nodes) /\ chain # << >>
        /\ cur = First(chain) /\ nxt = next[cur] /\ First(chain) = chain[1]
    BY <1>0, <1>1 DEF TypeOK, Drain, First
  <1>3. /\ Len(chain) \in Nat /\ Len(chain) # 0
        /\ \A i \in 1 .. Len(chain) : chain[i] \in Nodes /\ chain[i] \in NodesOf(chain)
        /\ cur \in Nodes /\ cur \in NodesOf(chain)
    BY <1>2, NodesOfSeq
  <1>4. /\ chain' \in Seq(Nodes) /\ Len(chain') = Len(chain) - 1
        /\ \A i \in 1 .. Len(chain) - 1 : chain'[i] = chain[i + 1]
        /\ First(chain') = IF Len(chain) = 1 THEN NULL ELSE chain[2]
        /\ Once(chain') /\ NodesOf(chain') = NodesOf(chain) \ {cur}
    BY <1>0, <1>1, <1>2, TailNode DEF Owned
  <1>5. Holding' = Holding
    BY <1>1 DEF Holding
  <1>6. TypeOK' /\ Lock'
    <2>1. out' \in Seq(0 .. MaxItems)
      <3>1. item[cur] \in 0 .. MaxItems
        BY <1>0, <1>3 DEF TypeOK
      <3> QED BY <1>0, <1>1, <3>1, AppendProperties DEF TypeOK
    <2>2. TypeOK'
      BY <1>0, <1>1, <1>4, <2>1 DEF TypeOK
    <2> QED BY <1>0, <1>1, <2>2 DEF Lock, Draining
  <1>7. Connected(chain)'
    <2>1. ASSUME NEW i \in 1 .. Len(chain')
          PROVE  next[chain'[i]] = IF i = Len(chain') THEN NULL ELSE chain'[i + 1]
      BY <1>0, <1>3, <1>4, <2>1 DEF Connected
    <2> QED BY <1>1, <2>1 DEF Connected
  <1>8. (head = First(list) /\ Connected(list) /\ TailInPlace /\ Push)'
    BY <1>0, <1>1 DEF First, Connected, TailInPlace, Push, Last
  <1>9. Drain'
    <2>1. cur' = First(chain')
      <3>1. next[chain[1]] = IF Len(chain) = 1 THEN NULL ELSE chain[2]
        <4>1. 1 \in 1 .. Len(chain) /\ 1 + 1 = 2
          BY <1>3
        <4> QED BY <1>0, <4>1 DEF Connected
      <3> QED BY <1>1, <1>2, <1>4, <3>1
    <2> QED BY <1>1, <2>1 DEF Drain
  <1>10. Owned' /\ Filled'
    <2>1. Once(list)' /\ Once(chain)' /\ NodesOf(list)' = NodesOf(list)
          /\ NodesOf(chain)' = NodesOf(chain')
      BY <1>0, <1>1, <1>4 DEF Owned, Once, NodesOf
    <2>2. cur \notin NodesOf(list) /\ \A p \in Holding : mine[p] # cur
      BY <1>0, <1>3 DEF Owned
    <2>3. /\ NodesOf(list) \cap NodesOf(chain') = {}
          /\ \A p, r \in Holding' : mine'[p] = mine'[r] => p = r
          /\ \A p \in Holding' : mine'[p] \notin NodesOf(list) \cup NodesOf(chain')
          /\ heap' = NodesOf(list) \cup NodesOf(chain') \cup {mine'[p] : p \in Holding'}
      BY <1>0, <1>1, <1>3, <1>4, <1>5, <2>2 DEF Owned
    <2>4. Owned'
      BY <2>1, <2>3 DEF Owned
    <2> QED BY <1>0, <1>1, <2>4 DEF Filled
  <1> QED BY <1>6, <1>7, <1>8, <1>9, <1>10 DEF QueueInv

-----------------------------------------------------------------------------
(* The theorems. *)

\* Every step of a producer or of the network thread preserves the invariant.
LEMMA QueueInvStep == QueueInv /\ [Next]_vars => QueueInv'
  <1> SUFFICES ASSUME QueueInv, [Next]_vars PROVE QueueInv'
    OBVIOUS
  <1>1. CASE \E p \in Producers : Produce(p)
    BY <1>1, ControlStep, AllocStep, PushClearNextStep, PushLinkStep, PushTailStep DEF Produce
  <1>2. CASE Consume
    BY <1>2, ControlStep, DrainClearHeadStep, WalkSendStep DEF Consume
  <1>3. CASE UNCHANGED vars
    <2> USE <1>3 DEF vars, queueVars, producerVars, networkVars, auxVars
    <2>1. Holding' = Holding
      BY DEF Holding
    <2>2. Memory'
      BY <2>1, MemoryUntouched DEF QueueInv, Memory
    <2>3. (TypeOK /\ Lock)'
      BY DEF QueueInv, TypeOK, Lock
    <2>4. (TailInPlace /\ Push /\ Drain)'
      BY DEF QueueInv, TailInPlace, Push, Drain, First, Last
    <2> QED BY <2>2, <2>3, <2>4 DEF QueueInv, Memory
  <1> QED BY <1>1, <1>2, <1>3 DEF Next, Destroyed

\* The inductive invariant holds in every reachable state.
THEOREM QueueInvariant == Spec => []QueueInv
  BY QueueInvInit, QueueInvStep, PTL DEF Spec

\* Every pointer, node and frame number stays in its range.
THEOREM TypeCorrect == Spec => []TypeOK
  <1>1. QueueInv => TypeOK
    BY DEF QueueInv
  <1> QED BY <1>1, QueueInvariant, PTL

\* Two sequences without common nodes, one behind the other.
LEMMA OnceConcat ==
    ASSUME NEW s \in Seq(Nodes), NEW t \in Seq(Nodes),
           Once(s), Once(t), NodesOf(s) \cap NodesOf(t) = {}
    PROVE  Once(s \o t) /\ NodesOf(s \o t) = NodesOf(s) \cup NodesOf(t)
  <1> DEFINE u == s \o t
  <1>1. /\ Len(s) \in Nat /\ Len(t) \in Nat
        /\ \A i \in 1 .. Len(s) : s[i] \in NodesOf(s)
        /\ \A i \in 1 .. Len(t) : t[i] \in NodesOf(t)
    BY NodesOfSeq
  <1>2. /\ Len(u) = Len(s) + Len(t)
        /\ \A i \in 1 .. Len(s) : u[i] = s[i]
        /\ \A i \in Len(s) + 1 .. Len(s) + Len(t) : u[i] = t[i - Len(s)]
    BY <1>1, ConcatProperties
  <1> HIDE DEF u
  <1>3. Once(u)
    <2> SUFFICES ASSUME NEW i \in 1 .. Len(u), NEW j \in 1 .. Len(u), u[i] = u[j] PROVE i = j
      BY DEF Once
    <2>1. CASE i <= Len(s) /\ j <= Len(s)
      BY <1>1, <1>2, <2>1 DEF Once
    <2>2. CASE i > Len(s) /\ j > Len(s)
      <3>0. /\ i \in Len(s) + 1 .. Len(s) + Len(t)
            /\ j \in Len(s) + 1 .. Len(s) + Len(t)
        BY <1>1, <1>2, <2>2
      <3>1. i - Len(s) \in 1 .. Len(t) /\ j - Len(s) \in 1 .. Len(t)
        BY <1>1, <3>0
      <3>2. t[i - Len(s)] = t[j - Len(s)]
        BY <1>2, <3>0, Zenon
      <3>3. i - Len(s) = j - Len(s)
        BY <3>1, <3>2 DEF Once
      <3> QED BY <1>1, <1>2, <3>3
    <2>3. CASE i <= Len(s) /\ j > Len(s)
      BY <1>1, <1>2, <2>3
    <2>4. CASE i > Len(s) /\ j <= Len(s)
      BY <1>1, <1>2, <2>4
    <2> QED BY <1>1, <1>2, <2>1, <2>2, <2>3, <2>4
  <1>4. NodesOf(u) = NodesOf(s) \cup NodesOf(t)
    <2>1. ASSUME NEW i \in 1 .. Len(u) PROVE u[i] \in NodesOf(s) \cup NodesOf(t)
      <3>1. CASE i <= Len(s)
        BY <1>1, <1>2, <3>1
      <3>2. CASE i > Len(s)
        <4>0. i \in Len(s) + 1 .. Len(s) + Len(t) /\ i - Len(s) \in 1 .. Len(t)
          BY <1>1, <1>2, <3>2
        <4>1. i - Len(s) \in 1 .. Len(t) /\ u[i] = t[i - Len(s)]
          BY <1>2, <4>0, Zenon
        <4> QED BY <1>1, <4>1
      <3> QED BY <1>1, <1>2, <3>1, <3>2
    <2>2. ASSUME NEW i \in 1 .. Len(s) PROVE s[i] \in NodesOf(u)
      <3>1. i \in 1 .. Len(u) /\ u[i] = s[i]
        BY <1>1, <1>2
      <3> QED BY <3>1 DEF NodesOf
    <2>3. ASSUME NEW i \in 1 .. Len(t) PROVE t[i] \in NodesOf(u)
      <3> DEFINE k == Len(s) + i
      <3>1. k \in 1 .. Len(u) /\ k \in Len(s) + 1 .. Len(s) + Len(t) /\ k - Len(s) = i
        BY <1>1, <1>2
      <3> HIDE DEF k
      <3>2. u[k] = t[i]
        BY <1>2, <3>1, Zenon
      <3> QED BY <3>1, <3>2 DEF NodesOf
    <2>4. NodesOf(u) \subseteq NodesOf(s) \cup NodesOf(t)
      BY <2>1 DEF NodesOf
    <2>5. NodesOf(s) \cup NodesOf(t) \subseteq NodesOf(u)
      BY <2>2, <2>3 DEF NodesOf
    <2> QED BY <2>4, <2>5
  <1> QED BY <1>3, <1>4 DEF u

\* For any number of producers, pushes and drains: head, next and tail spell the
\* list, and no node is leaked, freed twice or reachable after its free.
THEOREM NodesHaveOneOwner == Spec => []ListOwnsItsNodes
  <1>1. QueueInv => ListOwnsItsNodes
    <2> SUFFICES ASSUME QueueInv PROVE ListInMemory /\ NodesOwnedOnce
      BY DEF ListOwnsItsNodes
    <2>1. ListInMemory
      <3>1. mutex = NoOwner => npc # "cleartail" /\ \A p \in Producers : ppc[p] # "tail"
        BY NamesAssumption DEF QueueInv, Lock, Inside, Draining
      <3> QED BY <3>1 DEF QueueInv, TailInPlace, Connected, ListInMemory
    <2>2. NodesOwnedOnce
      <3>1. Owned /\ list \in Seq(Nodes) /\ chain \in Seq(Nodes)
        BY DEF QueueInv, TypeOK
      <3>2. /\ Once(list \o chain)
            /\ NodesOf(list \o chain) = NodesOf(list) \cup NodesOf(chain)
        BY <3>1, OnceConcat DEF Owned
      <3>3. \A p \in Holding : mine[p] \notin NodesOf(list \o chain)
        BY <3>1, <3>2 DEF Owned
      <3>4. heap = NodesOf(list \o chain) \cup {mine[p] : p \in Holding}
        BY <3>1, <3>2 DEF Owned
      <3>5. \A p, r \in Holding : mine[p] = mine[r] => p = r
        BY <3>1 DEF Owned
      <3> QED BY <3>2, <3>3, <3>4, <3>5, Zenon DEF NodesOwnedOnce, Once, NodesOf
    <2> QED BY <2>1, <2>2
  <1> QED BY <1>1, QueueInvariant, PTL

-----------------------------------------------------------------------------
(* The list implements the FIFO channel. *)

\* The frames in a sequence of nodes, under the contents f of the nodes.
Contents(f, s) == [i \in 1 .. Len(s) |-> f[s[i]]]

\* Reading the nodes commutes with the operations on sequences of nodes.
LEMMA ContentsOf ==
    ASSUME NEW f \in [Nodes -> 0 .. MaxItems], NEW s \in Seq(Nodes), NEW n \in Nodes
    PROVE  /\ Contents(f, s) \in Seq(0 .. MaxItems)
           /\ Len(Contents(f, s)) = Len(s)
           /\ Contents(f, Append(s, n)) = Append(Contents(f, s), f[n])
           /\ s # << >> =>
                /\ 1 \in 1 .. Len(Contents(f, s))
                /\ SubSeq(Contents(f, s), 1, 1) = << f[First(s)] >>
                /\ SubSeq(Contents(f, s), 1 + 1, Len(Contents(f, s))) = Contents(f, Tail(s))
  <1> DEFINE c == Contents(f, s)
  <1>1. Len(s) \in Nat /\ (s = << >> <=> Len(s) = 0) /\ \A i \in 1 .. Len(s) : s[i] \in Nodes
    BY NodesOfSeq
  <1>2. c \in Seq(0 .. MaxItems) /\ Len(c) = Len(s) /\ \A i \in 1 .. Len(s) : c[i] = f[s[i]]
    BY <1>1 DEF Contents
  <1>3. Contents(f, Append(s, n)) = Append(c, f[n])
    <2> DEFINE l == Contents(f, Append(s, n))
               r == Append(c, f[n])
    <2>1. f[n] \in 0 .. MaxItems
      OBVIOUS
    <2>2. /\ r \in Seq(0 .. MaxItems) /\ Len(r) = Len(s) + 1
          /\ \A i \in 1 .. Len(s) : r[i] = f[s[i]]
          /\ r[Len(s) + 1] = f[n]
      <3> HIDE DEF c
      <3> QED BY <1>2, <2>1, AppendProperties
    <2>3. /\ l \in Seq(0 .. MaxItems) /\ Len(l) = Len(s) + 1
          /\ \A i \in 1 .. Len(s) + 1 : l[i] = f[Append(s, n)[i]]
      <3>1. /\ Append(s, n) \in Seq(Nodes) /\ Len(Append(s, n)) = Len(s) + 1
            /\ \A i \in 1 .. Len(Append(s, n)) : Append(s, n)[i] \in Nodes
        BY AppendNode, NodesOfSeq
      <3> QED BY <1>1, <3>1 DEF Contents
    <2>4. /\ \A i \in 1 .. Len(s) : Append(s, n)[i] = s[i]
          /\ Append(s, n)[Len(s) + 1] = n
      BY AppendNode
    <2> HIDE DEF l, r
    <2>5. ASSUME NEW i \in 1 .. Len(l) PROVE l[i] = r[i]
      <3>1. i \in 1 .. Len(s) + 1 /\ (i \in 1 .. Len(s) \/ i = Len(s) + 1)
        BY <1>1, <2>3
      <3>2. CASE i \in 1 .. Len(s)
        BY <2>2, <2>3, <2>4, <3>1, <3>2, Zenon
      <3>3. CASE i = Len(s) + 1
        BY <2>2, <2>3, <2>4, <3>1, <3>3, Zenon
      <3> QED BY <3>1, <3>2, <3>3
    <2>6. l = r
      BY <2>2, <2>3, <2>5, SeqEqual
    <2> QED BY <2>6 DEF l, r
  <1>4. ASSUME s # << >>
        PROVE  /\ 1 \in 1 .. Len(c)
               /\ SubSeq(c, 1, 1) = << f[First(s)] >>
               /\ SubSeq(c, 1 + 1, Len(c)) = Contents(f, Tail(s))
    <2> HIDE DEF c
    <2>1. c # << >> /\ 1 \in 1 .. Len(c) /\ c[1] = f[First(s)]
      BY <1>1, <1>2, <1>4 DEF First
    <2>2. SubSeq(c, 1, 1) = << c[1] >>
      <3> DEFINE h == << c[1] >>
      <3>1. \A i \in 1 .. 1 : c[i] \in 0 .. MaxItems
        BY <1>2, <2>1, ElementOfSeq
      <3>2. /\ SubSeq(c, 1, 1) \in Seq(0 .. MaxItems) /\ Len(SubSeq(c, 1, 1)) = 1
            /\ SubSeq(c, 1, 1)[1] = c[1]
        <4>1. /\ SubSeq(c, 1, 1) \in Seq(0 .. MaxItems)
              /\ Len(SubSeq(c, 1, 1)) = IF 1 <= 1 THEN 1 - 1 + 1 ELSE 0
              /\ \A i \in 1 .. 1 - 1 + 1 : SubSeq(c, 1, 1)[i] = c[1 + i - 1]
          BY <3>1, SubSeqProperties
        <4> QED BY <4>1
      <3>3. h \in Seq(0 .. MaxItems) /\ Len(h) = 1 /\ h[1] = c[1]
        BY <3>1
      <3> DEFINE z == SubSeq(c, 1, 1)
      <3>a. z \in Seq(0 .. MaxItems) /\ Len(z) = 1 /\ z[1] = c[1]
        BY <3>2
      <3> HIDE DEF h, z
      <3>4. \A i \in 1 .. Len(z) : z[i] = h[i]
        BY <3>3, <3>a
      <3>5. z = h
        BY <3>3, <3>4, <3>a, SeqEqual
      <3> QED BY <3>5 DEF h, z
    <2>3. /\ Tail(s) \in Seq(Nodes) /\ Len(Tail(s)) = Len(s) - 1
          /\ \A i \in 1 .. Len(s) - 1 : Tail(s)[i] = s[i + 1]
      BY <1>4, TailNode
    <2> DEFINE l == SubSeq(c, 2, Len(c))
               r == Contents(f, Tail(s))
    <2>4. l \in Seq(0 .. MaxItems) /\ Len(l) = Len(s) - 1
          /\ \A i \in 1 .. Len(s) - 1 : l[i] = c[i + 1]
      BY <1>1, <1>2, <2>1, SubSeqProperties
    <2>5. r \in Seq(0 .. MaxItems) /\ Len(r) = Len(s) - 1
          /\ \A i \in 1 .. Len(s) - 1 : r[i] = f[Tail(s)[i]]
      <3>1. \A i \in 1 .. Len(Tail(s)) : Tail(s)[i] \in Nodes
        BY <2>3, NodesOfSeq
      <3> QED BY <1>1, <1>4, <2>3, <3>1 DEF Contents
    <2> HIDE DEF l, r
    <2>6. ASSUME NEW i \in 1 .. Len(l) PROVE l[i] = r[i]
      <3>1. i \in 1 .. Len(s) - 1 /\ i + 1 \in 1 .. Len(s)
        BY <1>1, <2>4
      <3> QED BY <1>2, <2>3, <2>4, <2>5, <3>1, Zenon
    <2>7. l = r
      BY <2>4, <2>5, <2>6, SeqEqual
    <2> QED BY <2>1, <2>2, <2>7 DEF l, r
  <1> QED BY <1>2, <1>3, <1>4 DEF c

\* The chain in front of the list: a push appends to both together, and the
\* walk takes from both together.
LEMMA ChainThenList ==
    ASSUME NEW c \in Seq(Nodes), NEW l \in Seq(Nodes), NEW n \in Nodes
    PROVE  /\ c \o l \in Seq(Nodes)
           /\ c \o Append(l, n) = Append(c \o l, n)
           /\ c # << >> => /\ c \o l # << >> /\ First(c \o l) = First(c)
                           /\ Tail(c) \o l = Tail(c \o l)
  <1>1. << n >> \in Seq(Nodes) /\ c \o l \in Seq(Nodes)
    BY ConcatProperties
  <1>2. c \o Append(l, n) = Append(c \o l, n)
    <2>1. Append(l, n) = l \o << n >> /\ Append(c \o l, n) = (c \o l) \o << n >>
      BY <1>1, AppendIsConcat, Zenon
    <2>2. (c \o l) \o << n >> = c \o (l \o << n >>)
      <3> DEFINE e == << n >>
      <3>1. e \in Seq(Nodes)
        BY <1>1
      <3> HIDE DEF e
      <3>2. (c \o l) \o e = c \o (l \o e)
        BY <3>1, ConcatAssociative
      <3> QED BY <3>2 DEF e
    <2> QED BY <2>1, <2>2, Zenon
  <1>3. ASSUME c # << >>
        PROVE  /\ c \o l # << >> /\ First(c \o l) = First(c)
               /\ Tail(c) \o l = Tail(c \o l)
    <2> DEFINE u == c \o l
               a == Tail(c) \o l
               b == Tail(u)
    <2>1. Len(c) \in Nat \ {0} /\ Len(l) \in Nat
      BY <1>3, EmptySeq, LenProperties
    <2>2. /\ u \in Seq(Nodes) /\ Len(u) = Len(c) + Len(l)
          /\ \A i \in 1 .. Len(c) + Len(l) : u[i] = IF i <= Len(c) THEN c[i] ELSE l[i - Len(c)]
      BY ConcatProperties
    <2>3. Tail(c) \in Seq(Nodes) /\ Len(Tail(c)) = Len(c) - 1
          /\ \A i \in 1 .. Len(c) - 1 : Tail(c)[i] = c[i + 1]
      BY <1>3, HeadTailProperties
    <2>4. /\ a \in Seq(Nodes) /\ Len(a) = Len(c) - 1 + Len(l)
          /\ \A i \in 1 .. Len(c) - 1 + Len(l) :
                a[i] = IF i <= Len(c) - 1 THEN Tail(c)[i] ELSE l[i - (Len(c) - 1)]
      BY <2>3, ConcatProperties
    <2>5. u # << >>
      <3> HIDE DEF u
      <3> QED BY <2>1, <2>2, NodesOfSeq
    <2>6. /\ b \in Seq(Nodes) /\ Len(b) = Len(u) - 1
          /\ \A i \in 1 .. Len(b) : b[i] = u[i + 1]
      <3> HIDE DEF u
      <3> QED BY <2>2, <2>5, HeadTailProperties
    <2> HIDE DEF u, a, b
    <2>7. First(u) = First(c)
      BY <1>3, <2>1, <2>2, <2>5 DEF First
    <2>8. ASSUME NEW i \in 1 .. Len(a) PROVE a[i] = b[i]
      <3>1. i \in 1 .. Len(b) /\ b[i] = u[i + 1] /\ i + 1 \in 1 .. Len(c) + Len(l)
        BY <2>1, <2>2, <2>4, <2>6
      <3>2. CASE i <= Len(c) - 1
        BY <2>1, <2>2, <2>3, <2>4, <3>1, <3>2
      <3>3. CASE ~(i <= Len(c) - 1)
        <4>1. i - (Len(c) - 1) = (i + 1) - Len(c) /\ ~(i + 1 <= Len(c))
          BY <2>1, <2>4, <3>3
        <4> QED BY <2>1, <2>2, <2>4, <3>1, <3>3, <4>1
      <3> QED BY <3>2, <3>3
    <2>9. Len(a) = Len(b)
      BY <2>1, <2>2, <2>4, <2>6
    <2>10. a = b
      BY <2>4, <2>6, <2>8, <2>9, SeqEqual, Zenon
    <2> QED BY <2>5, <2>7, <2>10 DEF u, a, b
  <1> QED BY <1>1, <1>2, <1>3

\* The linked list under its mutex is a FIFO channel, for any number of producers:
\* the store that links a node is the put, the free of a node is the take, and
\* no other store, the detaching of the list included, can be seen.
THEOREM WorkQueueRefinesFifo == Spec => QueueIsFifo
  <1>1. Init => Fifo!Init
    <2> SUFFICES ASSUME Init PROVE Fifo!Init
      OBVIOUS
    <2>1. << >> \o << >> = << >> /\ Len(<< >>) = 0
      BY ConcatEmptySeq, EmptySeq
    <2>2. ItemsOf(<< >>) = << >>
      BY <2>1 DEF ItemsOf
    <2> QED BY <2>1, <2>2, Zenon DEF Init, Fifo!Init
  <1>2. QueueInv /\ [Next]_vars => [Fifo!Next]_(Fifo!fifoVars)
    <2> SUFFICES ASSUME QueueInv, [Next]_vars PROVE [Fifo!Next]_(Fifo!fifoVars)
      OBVIOUS
    <2> USE DEF queueVars, producerVars, networkVars, auxVars
    <2> DEFINE s == chain \o list
    <2>t. /\ TypeOK /\ Drain /\ Owned /\ Push /\ Filled
          /\ list \in Seq(Nodes) /\ chain \in Seq(Nodes) /\ item \in [Nodes -> 0 .. MaxItems]
      BY DEF QueueInv, TypeOK
    <2>s. s \in Seq(Nodes)
      BY <2>t, ConcatProperties
    <2>c. ItemsOf(s) = Contents(item, s)
      BY DEF ItemsOf, Contents
    <2>a. ASSUME ItemsOf(chain \o list)' = ItemsOf(chain \o list), UNCHANGED <<in, out>>
          PROVE  UNCHANGED Fifo!fifoVars
      BY <2>a DEF Fifo!fifoVars
    <2>u. ASSUME UNCHANGED <<item, chain, list, in, out>> PROVE UNCHANGED Fifo!fifoVars
      BY <2>u, <2>a DEF ItemsOf
    <2>1. ASSUME NEW p \in Producers, Alloc(p) PROVE UNCHANGED Fifo!fifoVars
      <3>1. PICK n \in Nodes \ heap : item' = [item EXCEPT ![n] = made + 1]
        BY <2>1 DEF Alloc
      <3>2. UNCHANGED <<list, chain, in, out>>
        BY <2>1 DEF Alloc
      <3>3. NodesOf(s) = NodesOf(list) \cup NodesOf(chain)
        BY <2>t, OnceConcat DEF Owned
      <3>4. n \notin NodesOf(s)
        BY <2>t, <3>1, <3>3 DEF Owned
      <3>5. \A i \in 1 .. Len(s) : s[i] \in Nodes /\ s[i] \in NodesOf(s)
        BY <2>s, NodesOfSeq
      <3> HIDE DEF s
      <3>6. \A i \in 1 .. Len(s) : item'[s[i]] = item[s[i]]
        BY <2>t, <3>1, <3>4, <3>5
      <3>7. Contents(item', s) = Contents(item, s)
        BY <3>6 DEF Contents
      <3>8. ItemsOf(chain \o list)' = Contents(item', s)
        BY <3>2 DEF ItemsOf, Contents, s
      <3> QED BY <2>a, <2>c, <3>2, <3>7, <3>8 DEF s
    <2>2. ASSUME NEW p \in Producers, PushLink(p) PROVE Fifo!Next
      <3> DEFINE n == mine[p]
      <3>1. /\ list' = Append(list, n) /\ in' = Append(in, item[n])
            /\ UNCHANGED <<item, chain, out>>
        BY <2>2 DEF PushLink
      <3>2. n \in Nodes /\ p \in Holding
        BY <2>2, <2>t DEF PushLink, Push, Holding
      <3>3. item[n] \in Items
        BY <2>t, <3>2 DEF Owned, Filled
      <3> HIDE DEF n
      <3>4. chain \o Append(list, n) = Append(s, n)
        BY <2>t, <3>2, ChainThenList
      <3>5. Contents(item, Append(s, n)) = Append(Contents(item, s), item[n])
        BY <2>t, <2>s, <3>2, ContentsOf
      <3>6. ItemsOf(chain \o list)' = Contents(item, chain \o Append(list, n))
        BY <3>1 DEF ItemsOf, Contents
      <3>7. ItemsOf(chain \o list)' = Append(ItemsOf(chain \o list), item[n])
        BY <2>c, <3>4, <3>5, <3>6, Zenon
      <3>8. Fifo!Put(item[n])
        BY <3>1, <3>7, Zenon DEF Fifo!Put
      <3> QED BY <3>3, <3>8, Zenon DEF Fifo!Next
    <2>3. CASE DrainClearHead
      <3>1. chain = << >> /\ chain' = list /\ list' = << >> /\ UNCHANGED <<item, in, out>>
        BY <2>3, <2>t DEF DrainClearHead, Drain
      <3>2. << >> \o list = list /\ list \o << >> = list
        BY <2>t, ConcatEmptySeq
      <3>3. (chain \o list)' = chain \o list
        BY <3>1, <3>2, Zenon
      <3>4. ItemsOf(chain \o list)' = ItemsOf(chain \o list)
        BY <3>1, <3>3 DEF ItemsOf
      <3> QED BY <2>a, <3>1, <3>4
    <2>4. CASE WalkSend
      <3>1. /\ chain # << >> /\ cur = First(chain) /\ chain' = Tail(chain)
            /\ out' = Append(out, item[cur]) /\ UNCHANGED <<item, list, in>>
        BY <2>4, <2>t DEF WalkSend, Drain
      <3>2. /\ s # << >> /\ First(s) = First(chain) /\ Tail(chain) \o list = Tail(s)
        <4>1. First(chain) \in Nodes
          BY <2>t, <3>1, NodesOfSeq
        <4> QED BY <2>t, <3>1, <4>1, ChainThenList
      <3>3. First(chain) \in Nodes
        BY <2>t, <3>1, NodesOfSeq
      <3>4. /\ 1 \in 1 .. Len(Contents(item, s))
            /\ SubSeq(Contents(item, s), 1, 1) = << item[First(s)] >>
            /\ SubSeq(Contents(item, s), 1 + 1, Len(Contents(item, s))) = Contents(item, Tail(s))
        <4> HIDE DEF s
        <4> QED BY <2>t, <2>s, <3>2, <3>3, ContentsOf
      <3>5. Append(out, item[cur]) = out \o << item[cur] >>
        <4>1. item[cur] \in 0 .. MaxItems /\ out \in Seq(0 .. MaxItems)
          BY <2>t, <3>1, <3>3 DEF TypeOK
        <4> QED BY <4>1, AppendIsConcat, Zenon
      <3>6. ItemsOf(chain \o list)' = Contents(item, Tail(chain) \o list)
        BY <3>1 DEF ItemsOf, Contents
      <3>7. /\ 1 \in 1 .. Len(ItemsOf(chain \o list))
            /\ out' = out \o SubSeq(ItemsOf(chain \o list), 1, 1)
            /\ ItemsOf(chain \o list)' =
                  SubSeq(ItemsOf(chain \o list), 1 + 1, Len(ItemsOf(chain \o list)))
        BY <2>c, <3>1, <3>2, <3>4, <3>5, <3>6, Zenon
      <3>8. Fifo!Take(1)
        BY <3>1, <3>7, Zenon DEF Fifo!Take
      <3> QED BY <3>7, <3>8, Zenon DEF Fifo!Next
    <2>5. ASSUME NEW p \in Producers,
                 PushLock(p) \/ PushClearNext(p) \/ PushTail(p) \/ PushUnlock(p) \/ Stop(p)
          PROVE  UNCHANGED Fifo!fifoVars
      BY <2>5, <2>u DEF PushLock, PushClearNext, PushTail, PushUnlock, Stop
    <2>6. CASE DrainLock \/ Destroy \/ DrainHead \/ DrainClearTail \/ DrainUnlock \/ WalkNext \/ WalkEnd
      BY <2>6, <2>u DEF DrainLock, Destroy, DrainHead, DrainClearTail, DrainUnlock, WalkNext, WalkEnd
    <2>7. CASE UNCHANGED vars
      BY <2>7, <2>u DEF vars
    <2> QED BY <2>1, <2>2, <2>3, <2>4, <2>5, <2>6, <2>7 DEF Next, Produce, Consume, Destroyed
  <1> QED BY QueueInvariant, <1>1, <1>2, PTL DEF Spec, QueueIsFifo, Fifo!Spec
=============================================================================
