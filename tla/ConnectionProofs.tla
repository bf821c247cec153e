-------------------------- MODULE ConnectionProofs --------------------------
(***************************************************************************)
(* Proofs about module Connection, for any number of sessions and streams  *)
(* on a connection: data reaches the session its header names, no callback *)
(* follows a stale pointer but the one the code leaves behind, and closing *)
(* the connection frees every session.                                     *)
(***************************************************************************)
EXTENDS Connection, NatRecursion, SequenceTheorems, TLAPS

(* The inductive invariant.                                                *)
(*                                                                         *)
(* A pointer to a peer is good as long as the peer's prefix is declared.   *)
(* The invariant says so of every place that holds one: the prefixes, the  *)
(* contexts of control streams and those of WebTransport streams.          *)

\* No entry twice in s, and its entries.
Once(s) == \A i, j \in 1 .. Len(s) : s[i] = s[j] => i = j
Entries(s) == {s[i] : i \in 1 .. Len(s)}

\* The sessions are the declared prefixes, each with its control stream; only
\* sessions have datagrams and can be armed.
Sessions ==
    /\ Once(prefixes)
    /\ cnx \in {"up", "prefixes"} => Entries(prefixes) \subseteq tree
    /\ cnx \in {"streams", "closed"} => prefixes = << >>
    /\ \A c \in Controls : peer[c] = "live" <=> c \in Entries(prefixes)
    /\ \A c \in Controls : dgrams[c] # << >> => peer[c] = "live"
    /\ cnx = "up" => ready \subseteq Entries(prefixes)

\* A control stream points to its own peer, which is there unless its prefix
\* could not be declared.
ControlContexts ==
    \A c \in Controls :
        cnx = "up" /\ callback_ctx[c] # None =>
            callback_ctx[c] = c /\ (c \in Entries(prefixes) \/ c \in undeclared)

\* A WebTransport stream points to the session its header names, from the
\* moment it has its callback.
StreamContexts ==
    cnx = "up" =>
        \A s \in WtStreams :
            /\ s \notin tree => s \notin called
            /\ s \in tree => control_id[s] \in Controls
            /\ s \in called => callback_ctx[s] = control_id[s] /\ control_id[s] \in Entries(prefixes)
            /\ s \notin called => callback_ctx[s] = None

\* A session's data stream carries its name.
DataStreams ==
    \A c \in Controls :
        data_stream[c] # None =>
            control_id[data_stream[c]] = c /\ (cnx = "up" => data_stream[c] \in tree)

ConnectionInv ==
    /\ TypeOK /\ Sessions /\ ControlContexts /\ StreamContexts /\ DataStreams
    /\ misrouted = {} /\ misused \subseteq undeclared

-----------------------------------------------------------------------------
(* Numbers and sequences. *)

\* The table of prefixes has a length, and its entries are control streams.
LEMMA EntriesOfSeq ==
    ASSUME NEW s \in Seq(Controls)
    PROVE  /\ Len(s) \in Nat /\ (s = << >> <=> Len(s) = 0)
           /\ \A i \in 1 .. Len(s) : s[i] \in Controls /\ s[i] \in Entries(s)
           /\ Entries(s) \subseteq Controls
  <1>1. Len(s) \in Nat /\ (s = << >> <=> Len(s) = 0)
    BY LenProperties, EmptySeq
  <1>2. \A i \in 1 .. Len(s) : s[i] \in Controls
    BY ElementOfSeq
  <1> QED BY <1>1, <1>2 DEF Entries

\* A new prefix at the end.
LEMMA AppendEntry ==
    ASSUME NEW s \in Seq(Controls), NEW c \in Controls, Once(s), c \notin Entries(s)
    PROVE  /\ Append(s, c) \in Seq(Controls)
           /\ Once(Append(s, c))
           /\ Entries(Append(s, c)) = Entries(s) \cup {c}
  <1> DEFINE t == Append(s, c)
  <1>1. /\ t \in Seq(Controls) /\ Len(t) = Len(s) + 1
        /\ \A i \in 1 .. Len(s) : t[i] = s[i]
        /\ t[Len(s) + 1] = c
    BY AppendProperties
  <1>2. Len(s) \in Nat
    BY LenProperties
  <1> HIDE DEF t
  <1>3. Entries(t) = Entries(s) \cup {c}
    <2>1. 1 .. Len(t) = (1 .. Len(s)) \cup {Len(s) + 1}
      BY <1>1, <1>2
    <2> QED BY <1>1, <2>1 DEF Entries
  <1>4. Once(t)
    BY <1>1, <1>2 DEF Once, Entries
  <1> QED BY <1>1, <1>3, <1>4 DEF t

\* The first prefix is deleted.
LEMMA TailEntries ==
    ASSUME NEW s \in Seq(Controls), s # << >>, Once(s)
    PROVE  /\ Tail(s) \in Seq(Controls) /\ Head(s) \in Entries(s)
           /\ Once(Tail(s))
           /\ Entries(Tail(s)) = Entries(s) \ {Head(s)}
  <1> DEFINE t == Tail(s)
  <1>1. /\ t \in Seq(Controls) /\ Len(t) = Len(s) - 1 /\ Head(s) = s[1]
        /\ \A i \in 1 .. Len(s) - 1 : t[i] = s[i + 1]
    BY HeadTailProperties
  <1>2. Len(s) \in Nat \ {0}
    BY EmptySeq
  <1>a. Head(s) \in Entries(s)
    <2>1. 1 \in 1 .. Len(s)
      BY <1>2
    <2> QED BY <1>1, <2>1 DEF Entries
  <1> HIDE DEF t
  <1>3. Once(t)
    BY <1>1, <1>2 DEF Once
  <1>4. ASSUME NEW n PROVE n \in Entries(t) <=> n \in Entries(s) /\ n # s[1]
    <2>1. ASSUME NEW i \in 1 .. Len(t), n = t[i] PROVE n \in Entries(s) /\ n # s[1]
      BY <1>1, <1>2, <2>1 DEF Once, Entries
    <2>2. ASSUME NEW i \in 1 .. Len(s), n = s[i], n # s[1] PROVE n \in Entries(t)
      <3>1. i - 1 \in 1 .. Len(t) /\ t[i - 1] = s[i]
        BY <1>1, <1>2, <2>2
      <3> QED BY <2>2, <3>1 DEF Entries
    <2> QED BY <2>1, <2>2 DEF Entries
  <1>5. Entries(t) = Entries(s) \ {Head(s)}
    BY <1>1, <1>4
  <1> QED BY <1>1, <1>a, <1>3, <1>5 DEF t

\* A round visits declared prefixes.
LEMMA RoundOfPrefixes ==
    ASSUME prefixes \in Seq(Controls)
    PROVE  /\ Len(Round) \in Nat
           /\ \A i \in 1 .. Len(Round) : Round[i] \in Entries(prefixes)
  <1> DEFINE n == Len(prefixes)
             at == {i \in 1 .. n : prefixes[i] = last}
             k == IF at = {} THEN 0 ELSE CHOOSE i \in at : TRUE
             a == SubSeq(prefixes, k + 1, n)
             b == SubSeq(prefixes, 1, k)
  <1>1. Round = a \o b
    BY DEF Round
  <1>2. n \in Nat /\ \A i \in 1 .. n : prefixes[i] \in Entries(prefixes)
    BY EntriesOfSeq
  <1>3. k \in 0 .. n
    <2>1. at # {} => (CHOOSE i \in at : TRUE) \in at
      OBVIOUS
    <2> HIDE DEF n
    <2> QED BY <1>2, <2>1
  <1> HIDE DEF n, k
  <1>4. a \in Seq(Entries(prefixes)) /\ b \in Seq(Entries(prefixes))
    <2>1. /\ \A i \in k + 1 .. n : prefixes[i] \in Entries(prefixes)
          /\ \A i \in 1 .. k : prefixes[i] \in Entries(prefixes)
      BY <1>2, <1>3
    <2> QED BY <1>2, <1>3, <2>1, SubSeqProperties
  <1> HIDE DEF a, b
  <1>5. Round \in Seq(Entries(prefixes))
    BY <1>1, <1>4, ConcatProperties
  <1> QED BY <1>5, LenProperties, ElementOfSeq

-----------------------------------------------------------------------------
(* Callbacks. *)

\* Callbacks whose pointers are NULL or live peers add nothing to what was misused.
LEMMA GoodCalls ==
    ASSUME NEW s, NEW calls, Called(s, calls),
           \A call \in calls : Uses(call[1]) =>
              call[2] = None \/ (call[2] # Server /\ peer[call[2]] = "live")
    PROVE  misused' = misused
  BY DEF Called

\* Any callback can only misuse the stream it is for.
LEMMA AnyCalls ==
    ASSUME NEW s, NEW calls, Called(s, calls)
    PROVE  misused' \subseteq misused \cup {s}
  BY DEF Called

\* Peers and streams are different things.
LEMMA Disjoint ==
    /\ \A c \in Controls : c # None /\ c # Server /\ c \notin WtStreams /\ c \in Streams
    /\ \A s \in WtStreams : s # None /\ s \notin Controls /\ s \in Streams
  BY StreamsAssumption DEF WtStreams, Streams

\* A declared prefix is found, and leads to its own peer.
LEMMA Found ==
    ASSUME NEW c
    PROVE  /\ IsDeclared(c) <=> c \in Entries(prefixes)
           /\ FindPrefix(c) = IF c \in Entries(prefixes) THEN c ELSE None
  BY DEF IsDeclared, FindPrefix, Entries

\* A connection without streams.
LEMMA ConnectionInvInit == Init => ConnectionInv
  <1> SUFFICES ASSUME Init PROVE ConnectionInv
    OBVIOUS
  <1>1. \A S : << >> \in Seq(S) /\ Len(<< >>) = 0
    BY EmptySeq
  <1>2. prefixes \in Seq(Controls) /\ Len(prefixes) = 0
    BY <1>1, Zenon DEF Init
  <1>3. dgrams \in [Controls -> Seq(Kinds)]
    <2>1. << >> \in Seq(Kinds)
      BY <1>1, Zenon
    <2> QED BY <2>1, Zenon DEF Init
  <1>4. TypeOK
    <2>1. /\ callback_ctx \in [Streams -> Controls \cup {None}]
          /\ control_id \in [WtStreams -> Controls \cup {None}]
          /\ data_stream \in [Controls -> WtStreams \cup {None}]
          /\ peer \in [Controls -> {"none", "live", "freed"}]
      BY DEF Init
    <2>2. /\ cnx \in {"up", "prefixes", "streams", "closed"}
          /\ tree \subseteq Streams /\ called \subseteq Streams /\ ready \subseteq Controls
          /\ last \in Controls \cup {None} /\ cnxReady \in BOOLEAN /\ cramped \subseteq Controls
          /\ misrouted \subseteq Streams /\ undeclared \subseteq Controls /\ misused \subseteq Streams
      BY Zenon DEF Init
    <2> QED BY <1>2, <1>3, <2>1, <2>2, Zenon DEF TypeOK
  <1>5. Entries(prefixes) = {} /\ Once(prefixes)
    BY <1>2 DEF Entries, Once
  <1>6. Sessions
    BY <1>5 DEF Init, Sessions
  <1>7. ControlContexts /\ StreamContexts /\ DataStreams
    BY Disjoint DEF Init, ControlContexts, StreamContexts, DataStreams
  <1> QED BY <1>4, <1>6, <1>7 DEF Init, ConnectionInv

\* The table of prefixes stays as it is.
LEMMA SamePrefixes ==
    ASSUME prefixes' = prefixes
    PROVE  Entries(prefixes)' = Entries(prefixes) /\ (Once(prefixes)' <=> Once(prefixes))
  BY DEF Entries, Once

\* Events that neither bind a stream nor touch a session: capsules, resets,
\* datagrams of the client.
LEMMA EventStep ==
    ASSUME ConnectionInv,
           \/ \E c \in Controls : Datagram(c)
           \/ \E c \in Controls : \E event \in {"post_data", "post_fin"} : ControlData(c, event)
           \/ \E s \in Streams : Reset(s)
    PROVE  ConnectionInv'
  <1> USE DEF streamVars, prefixVars, peerVars, history
  <1>0. /\ TypeOK /\ Sessions /\ ControlContexts /\ StreamContexts /\ DataStreams
        /\ misrouted = {} /\ misused \subseteq undeclared
    BY DEF ConnectionInv
  <1>1. UNCHANGED <<cnx, tree, called, callback_ctx, control_id, prefixes, ready, last, cnxReady, cramped,
                    peer, data_stream, dgrams, undeclared>>
    BY DEF Datagram, ControlData, Reset
  <1>2. misrouted' = {} /\ misused' \subseteq undeclared
    <2>1. ASSUME NEW c \in Controls, Datagram(c) PROVE misrouted' = {} /\ misused' \subseteq undeclared
      <3> DEFINE p == IF FindPrefix(c) \in tree THEN FindPrefix(c) ELSE None
      <3>1. Called(c, {<<"post_datagram", p>>}) /\ Routed(c, IF IsDeclared(c) THEN c ELSE None, p)
        BY <2>1 DEF Datagram
      <3>2. c \in Entries(prefixes) => c \in tree /\ peer[c] = "live"
        BY <1>0, <2>1 DEF Datagram, Sessions
      <3>3. p = IF c \in Entries(prefixes) THEN c ELSE None
        BY <3>2, Found
      <3> HIDE DEF p
      <3>4. misused' = misused
        BY <3>1, <3>2, <3>3, GoodCalls, Disjoint
      <3>5. misrouted' = misrouted
        BY <3>1, <3>3, Found DEF Routed
      <3> QED BY <1>0, <3>4, <3>5
    <2>2. ASSUME NEW c \in Controls, NEW event \in {"post_data", "post_fin"}, ControlData(c, event)
          PROVE  misrouted' = {} /\ misused' \subseteq undeclared
      <3>1. Called(c, {<<"post", Server>>, <<event, callback_ctx[c]>>}) /\ misrouted' = misrouted
        BY <2>2 DEF ControlData
      <3>2. CASE callback_ctx[c] # None /\ c \notin Entries(prefixes)
        BY <1>0, <2>2, <3>1, <3>2, AnyCalls DEF ControlData, ControlContexts
      <3>3. CASE callback_ctx[c] = None \/ c \in Entries(prefixes)
        <4>1. callback_ctx[c] = None \/ (callback_ctx[c] = c /\ peer[c] = "live")
          BY <1>0, <2>2, <3>3 DEF ControlData, ControlContexts, Sessions
        <4>2. misused' = misused
          BY <3>1, <4>1, GoodCalls, Disjoint DEF Uses
        <4> QED BY <1>0, <3>1, <4>2
      <3> QED BY <3>2, <3>3
    <2>3. ASSUME NEW s \in Streams, Reset(s) PROVE misrouted' = {} /\ misused' \subseteq undeclared
      <3>1. Called(s, {<<"reset", callback_ctx[s]>>}) /\ misrouted' = misrouted
        BY <2>3 DEF Reset
      <3>2. misused' = misused
        BY <3>1, GoodCalls DEF Uses
      <3> QED BY <1>0, <3>1, <3>2
    <2> QED BY <2>1, <2>2, <2>3
  <1>3. TypeOK'
    BY <1>0, <1>1, <1>2, Disjoint DEF TypeOK
  <1>4. Sessions' /\ ControlContexts' /\ StreamContexts' /\ DataStreams'
    BY <1>0, <1>1, SamePrefixes DEF Sessions, ControlContexts, StreamContexts, DataStreams
  <1> QED BY <1>1, <1>2, <1>3, <1>4 DEF ConnectionInv

-----------------------------------------------------------------------------
(* Requests. *)

\* CONNECT and POST, accepted or refused at any point.
LEMMA RequestStep ==
    ASSUME ConnectionInv, NEW c \in Controls, Request(c)
    PROVE  ConnectionInv'
  <1> USE DEF streamVars, prefixVars, peerVars, history
  <1>0. /\ TypeOK /\ Sessions /\ ControlContexts /\ StreamContexts /\ DataStreams
        /\ misrouted = {} /\ misused \subseteq undeclared
    BY DEF ConnectionInv
  <1>1. /\ cnx = "up" /\ c \notin tree /\ tree' = tree \cup {c}
        /\ UNCHANGED <<cnx, ready, last, cnxReady, cramped, misrouted, control_id, data_stream, dgrams>>
    BY DEF Request, Accept, RefuseNoPeer, RefuseUndeclared, RefuseNotFound, Post, NewStream
  <1>2. /\ c \notin Entries(prefixes) /\ peer[c] # "live" /\ dgrams[c] = << >>
        /\ prefixes \in Seq(Controls) /\ c \notin WtStreams /\ c \in Streams
    BY <1>0, <1>1, Disjoint DEF Sessions, TypeOK
  <1>3. /\ called' \in {called, called \cup {c}}
        /\ callback_ctx' \in {callback_ctx, [callback_ctx EXCEPT ![c] = c]}
    BY DEF Request, Accept, RefuseNoPeer, RefuseUndeclared, RefuseNotFound, Post
  <1>4. DataStreams'
    BY <1>0, <1>1 DEF DataStreams
  <1>5. CASE Accept(c)
    <2>1. /\ prefixes' = Append(prefixes, c) /\ peer' = [peer EXCEPT ![c] = "live"]
          /\ callback_ctx' = [callback_ctx EXCEPT ![c] = c]
          /\ UNCHANGED <<undeclared, misused>>
      BY <1>5 DEF Accept
    <2>2. /\ prefixes' \in Seq(Controls) /\ Once(prefixes')
          /\ Entries(prefixes') = Entries(prefixes) \cup {c}
      BY <1>0, <1>2, <2>1, AppendEntry DEF Sessions
    <2>3. Entries(prefixes)' = Entries(prefixes) \cup {c} /\ Once(prefixes)'
      BY <2>2 DEF Entries, Once
    <2>4. TypeOK'
      BY <1>0, <1>1, <1>2, <1>3, <2>1, <2>2 DEF TypeOK
    <2>5. Sessions'
      BY <1>0, <1>1, <1>2, <2>1, <2>3 DEF TypeOK, Sessions
    <2>6. ControlContexts' /\ StreamContexts'
      BY <1>0, <1>1, <1>2, <1>3, <2>1, <2>3, Disjoint DEF TypeOK, ControlContexts, StreamContexts
    <2> QED BY <1>0, <1>1, <1>4, <2>1, <2>4, <2>5, <2>6 DEF ConnectionInv
  <1>6. CASE RefuseUndeclared(c)
    <2>1. /\ prefixes' = prefixes /\ peer' = [peer EXCEPT ![c] = "freed"]
          /\ callback_ctx' = [callback_ctx EXCEPT ![c] = c]
          /\ undeclared' = undeclared \cup {c} /\ misused' = misused
      BY <1>6 DEF RefuseUndeclared
    <2>2. TypeOK'
      BY <1>0, <1>1, <1>2, <1>3, <2>1 DEF TypeOK
    <2>3. Sessions'
      BY <1>0, <1>1, <1>2, <2>1, SamePrefixes DEF TypeOK, Sessions
    <2>4. ControlContexts' /\ StreamContexts'
      BY <1>0, <1>1, <1>2, <1>3, <2>1, SamePrefixes, Disjoint
         DEF TypeOK, ControlContexts, StreamContexts
    <2> QED BY <1>0, <1>1, <1>4, <2>1, <2>2, <2>3, <2>4 DEF ConnectionInv
  <1>7. CASE RefuseNoPeer(c) \/ RefuseNotFound(c) \/ Post(c)
    <2>1. UNCHANGED <<prefixes, peer, callback_ctx, undeclared>>
      BY <1>7 DEF RefuseNoPeer, RefuseNotFound, Post
    <2>2. misused' = misused
      <3>1. ASSUME Post(c) PROVE misused' = misused
        <4>1. Called(c, {<<"post", Server>>, <<"post_data", None>>})
          BY <3>1 DEF Post
        <4> QED BY <4>1, GoodCalls DEF Uses
      <3> QED BY <1>7, <3>1 DEF RefuseNoPeer, RefuseNotFound
    <2>3. TypeOK' /\ Sessions'
      BY <1>0, <1>1, <1>2, <1>3, <2>1, <2>2, SamePrefixes DEF TypeOK, Sessions
    <2>4. ControlContexts' /\ StreamContexts'
      BY <1>0, <1>1, <1>2, <1>3, <2>1, SamePrefixes, Disjoint DEF ControlContexts, StreamContexts
    <2> QED BY <1>0, <1>1, <1>4, <2>1, <2>2, <2>3, <2>4 DEF ConnectionInv
  <1> QED BY <1>5, <1>6, <1>7 DEF Request

-----------------------------------------------------------------------------
(* Streams. *)

\* The header of a stream, which ties a unidirectional one to its session.
LEMMA HeaderStep ==
    ASSUME ConnectionInv, NEW s \in WtStreams, NEW c \in Controls, Header(s, c)
    PROVE  ConnectionInv'
  <1> USE DEF streamVars, prefixVars, peerVars, history
  <1>0. /\ TypeOK /\ Sessions /\ ControlContexts /\ StreamContexts /\ DataStreams
        /\ misrouted = {} /\ misused \subseteq undeclared
    BY DEF ConnectionInv
  <1>1. /\ cnx = "up" /\ s \notin tree /\ tree' = tree \cup {s}
        /\ control_id' = [control_id EXCEPT ![s] = c]
        /\ UNCHANGED <<cnx, prefixes, ready, last, cnxReady, cramped, peer, data_stream, dgrams,
                       misrouted, undeclared, misused>>
    BY DEF Header
  <1>2. \/ /\ c \in Entries(prefixes) /\ called' = called \cup {s}
           /\ callback_ctx' = [callback_ctx EXCEPT ![s] = c]
        \/ called' = called /\ callback_ctx' = callback_ctx
    BY Found, Disjoint DEF Header
  <1>3. s \notin called /\ callback_ctx[s] = None /\ s \in Streams /\ s \notin Controls
    BY <1>0, <1>1, Disjoint DEF StreamContexts
  <1>4. TypeOK'
    <2>1. called' \subseteq Streams
      BY <1>0, <1>2, <1>3 DEF TypeOK
    <2>2. callback_ctx' \in [Streams -> Controls \cup {None}]
      <3>1. callback_ctx' = callback_ctx \/ callback_ctx' = [callback_ctx EXCEPT ![s] = c]
        BY <1>2
      <3> QED BY <1>0, <3>1 DEF TypeOK
    <2>3. control_id' \in [WtStreams -> Controls \cup {None}]
      BY <1>0, <1>1 DEF TypeOK
    <2> QED BY <1>0, <1>1, <1>3, <2>1, <2>2, <2>3 DEF TypeOK
  <1>5. Sessions'
    BY <1>0, <1>1, SamePrefixes DEF Sessions
  <1>6. ControlContexts'
    BY <1>0, <1>1, <1>2, <1>3, SamePrefixes, Disjoint DEF TypeOK, ControlContexts
  <1>7. StreamContexts'
    BY <1>0, <1>1, <1>2, <1>3, SamePrefixes, Disjoint DEF TypeOK, StreamContexts
  <1>8. DataStreams'
    BY <1>0, <1>1 DEF TypeOK, DataStreams
  <1> QED BY <1>0, <1>1, <1>4, <1>5, <1>6, <1>7, <1>8 DEF ConnectionInv

\* A stream that has or gets session p, or has none, brings data or FIN.
LEMMA BindStream ==
    ASSUME ConnectionInv, cnx = "up", NEW s \in WtStreams, s \in tree, NEW p,
           p = None \/ (p = control_id[s] /\ p \in Entries(prefixes)),
           PostData(s, p),
           called' = IF p = None THEN called ELSE called \cup {s},
           callback_ctx' = [callback_ctx EXCEPT ![s] = p],
           s \in called => p # None,
           UNCHANGED <<cnx, tree, control_id, prefixes, ready, last, cnxReady, cramped, peer, dgrams,
                       misrouted, undeclared, misused>>
    PROVE  ConnectionInv'
  <1>0. /\ TypeOK /\ Sessions /\ ControlContexts /\ StreamContexts /\ DataStreams
        /\ misrouted = {} /\ misused \subseteq undeclared
    BY DEF ConnectionInv
  <1>1. /\ s \in Streams /\ s \notin Controls /\ s # None
        /\ prefixes \in Seq(Controls) /\ Entries(prefixes) \subseteq Controls
        /\ p \in Controls \cup {None}
    BY <1>0, Disjoint, EntriesOfSeq DEF TypeOK
  <1>2. /\ data_stream' \in [Controls -> WtStreams \cup {None}]
        /\ \A c \in Controls : data_stream'[c] # data_stream[c] => c = p /\ data_stream'[c] = s
    BY <1>0, <1>1 DEF TypeOK, PostData, BoundStream, Reaches
  <1>3. TypeOK'
    BY <1>0, <1>1, <1>2 DEF TypeOK
  <1>4. Sessions'
    BY <1>0, SamePrefixes DEF Sessions
  <1>5. ControlContexts'
    BY <1>0, <1>1, SamePrefixes, Disjoint DEF TypeOK, ControlContexts
  <1>6. StreamContexts'
    BY <1>0, <1>1, SamePrefixes, Disjoint DEF TypeOK, StreamContexts
  <1>7. DataStreams'
    BY <1>0, <1>1, <1>2, Disjoint DEF DataStreams
  <1> QED BY <1>0, <1>3, <1>4, <1>5, <1>6, <1>7 DEF ConnectionInv

\* Data, with or without FIN, and FIN alone: it goes where the header says.
LEMMA StreamDataStep ==
    ASSUME ConnectionInv, NEW s \in WtStreams,
           StreamFin(s) \/ \E event \in {"post_data", "post_fin"} : StreamData(s, event)
    PROVE  ConnectionInv'
  <1> USE DEF streamVars, prefixVars, peerVars, history
  <1>0. /\ TypeOK /\ Sessions /\ ControlContexts /\ StreamContexts /\ DataStreams
        /\ misrouted = {} /\ misused \subseteq undeclared
    BY DEF ConnectionInv
  <1>1. /\ s \in Streams /\ s \notin Controls /\ s # None
        /\ Entries(prefixes) \subseteq Controls
        /\ \A c \in Entries(prefixes) : c # None /\ c # Server /\ peer[c] = "live" /\ s # c
    BY <1>0, Disjoint, EntriesOfSeq DEF TypeOK, Sessions
  <1>2. CASE StreamFin(s)
    <2> DEFINE p == callback_ctx[s]
    <2>1. /\ cnx = "up" /\ s \in called /\ PostData(s, p)
          /\ Called(s, {<<"post_fin", p>>})
          /\ UNCHANGED <<cnx, tree, called, callback_ctx, control_id, prefixes, ready, last, cnxReady, cramped,
                         peer, dgrams, misrouted, undeclared>>
      BY <1>2 DEF StreamFin
    <2>2. s \in tree /\ p = control_id[s] /\ p \in Entries(prefixes)
      BY <1>0, <2>1 DEF StreamContexts
    <2>3. callback_ctx' = [callback_ctx EXCEPT ![s] = p]
      BY <1>0, <1>1, <2>1 DEF TypeOK
    <2> HIDE DEF p
    <2>4. misused' = misused
      BY <1>1, <2>1, <2>2, GoodCalls
    <2>5. called' = called \cup {s}
      BY <2>1
    <2> QED BY <1>1, <2>1, <2>2, <2>3, <2>4, <2>5, BindStream
  <1>3. ASSUME NEW event \in {"post_data", "post_fin"}, StreamData(s, event)
        PROVE  ConnectionInv'
    <2> DEFINE p == IF s \in Bidi \ called THEN FindPrefix(control_id[s]) ELSE callback_ctx[s]
               bound == s \in called \/ p # None
               there == IsDeclared(control_id[s]) /\ (s \in Uni => s \in called)
    <2>1. /\ cnx = "up" /\ s \in tree
          /\ called' = IF bound THEN called \cup {s} ELSE called
          /\ callback_ctx' = [callback_ctx EXCEPT ![s] = p]
          /\ PostData(s, p)
          /\ Called(s, IF bound THEN {<<event, p>>} ELSE {})
          /\ Routed(s, IF there THEN control_id[s] ELSE None, IF Reaches(s, p) THEN p ELSE None)
          /\ UNCHANGED <<cnx, tree, control_id, prefixes, ready, last, cnxReady, cramped, peer, dgrams, undeclared>>
      BY <1>3 DEF StreamData
    <2>2. /\ s \in called => callback_ctx[s] = control_id[s] /\ control_id[s] \in Entries(prefixes)
          /\ s \notin called => callback_ctx[s] = None
          /\ s \in Bidi \/ s \in Uni
          /\ s \in Bidi => s \notin Uni
      BY <1>0, <2>1, StreamsAssumption DEF StreamContexts, WtStreams
    <2>3. /\ p = None \/ (p = control_id[s] /\ p \in Entries(prefixes))
          /\ s \in called => p # None
          /\ bound <=> p # None
          /\ there <=> p # None
      BY <1>1, <2>2, Found
    <2> HIDE DEF p, bound, there
    <2>4. called' = IF p = None THEN called ELSE called \cup {s}
      BY <2>1, <2>3
    <2>5. misused' = misused
      BY <1>1, <2>1, <2>3, GoodCalls
    <2>6. misrouted' = misrouted
      BY <1>1, <2>1, <2>3 DEF Routed, Reaches
    <2> QED BY <2>1, <2>3, <2>4, <2>5, <2>6, BindStream
  <1> QED BY <1>2, <1>3

-----------------------------------------------------------------------------
(* Datagrams of the children. *)

\* The pump queues a datagram and arms the session.
LEMMA SendDatagramStep ==
    ASSUME ConnectionInv, NEW p \in Controls, NEW kind \in Kinds, SendDatagram(p, kind)
    PROVE  ConnectionInv'
  <1> USE DEF streamVars, prefixVars, peerVars, history
  <1>0. /\ TypeOK /\ Sessions /\ ControlContexts /\ StreamContexts /\ DataStreams
        /\ misrouted = {} /\ misused \subseteq undeclared
    BY DEF ConnectionInv
  <1>1. /\ cnx = "up" /\ peer[p] = "live" /\ dgrams' = [dgrams EXCEPT ![p] = Append(@, kind)]
        /\ ready' = IF IsDeclared(p) THEN ready \cup {p} ELSE ready
        /\ cnxReady' = (cnxReady \/ IsDeclared(p))
        /\ UNCHANGED <<cnx, tree, called, callback_ctx, control_id, prefixes, last, cramped, peer, data_stream,
                       misrouted, undeclared, misused>>
    BY DEF SendDatagram
  <1>2. dgrams' \in [Controls -> Seq(Kinds)]
    <2>1. Append(dgrams[p], kind) \in Seq(Kinds)
      BY <1>0, AppendProperties DEF TypeOK
    <2> QED BY <1>0, <1>1, <2>1 DEF TypeOK
  <1>3. cnxReady' \in BOOLEAN
    BY <1>1
  <1>4. TypeOK'
    BY <1>0, <1>1, <1>2, <1>3 DEF TypeOK
  <1>5. Sessions'
    <2>1. \A c \in Controls : c # p => dgrams'[c] = dgrams[c]
      BY <1>0, <1>1 DEF TypeOK
    <2> QED BY <1>0, <1>1, <2>1, SamePrefixes, Found DEF Sessions
  <1>6. ControlContexts' /\ StreamContexts' /\ DataStreams'
    BY <1>0, <1>1, SamePrefixes DEF ControlContexts, StreamContexts, DataStreams
  <1> QED BY <1>0, <1>1, <1>4, <1>5, <1>6 DEF ConnectionInv

\* One round asks live sessions only.
LEMMA PrepareDatagramStep ==
    ASSUME ConnectionInv, PrepareDatagram
    PROVE  ConnectionInv'
  <1> USE DEF streamVars, prefixVars, peerVars, history
  <1>0. /\ TypeOK /\ Sessions /\ ControlContexts /\ StreamContexts /\ DataStreams
        /\ misrouted = {} /\ misused \subseteq undeclared
    BY DEF ConnectionInv
  <1> DEFINE sends == {i \in 1 .. Len(Round) : Provides(Round[i])}
             stop == IF sends = {} THEN Len(Round) ELSE CHOOSE i \in sends : \A j \in sends : i <= j
             visited == {Round[i] : i \in 1 .. stop}
             disarmed == visited \cap ready
             asked == disarmed \ cramped
             rest == [p \in Controls |->
                        IF p \in asked /\ dgrams[p] # << >> THEN Tail(dgrams[p]) ELSE dgrams[p]]
             armed == (ready \ disarmed) \cup {p \in asked : rest[p] # << >>}
  <1>1. /\ cnx = "up" /\ dgrams' = rest /\ ready' = armed
        /\ last' = IF sends = {} THEN last ELSE Round[stop]
        /\ cnxReady' = StillActive(visited, armed, sends = {} /\ IsDeclared(last))
        /\ misused' = misused \cup {p \in asked : peer[p] # "live"}
        /\ UNCHANGED <<cnx, tree, called, callback_ctx, control_id, prefixes, cramped, peer, data_stream,
                       misrouted, undeclared>>
    BY DEF PrepareDatagram
  <1>2. /\ Len(Round) \in Nat /\ \A i \in 1 .. Len(Round) : Round[i] \in Entries(prefixes)
        /\ Entries(prefixes) \subseteq Controls
    BY <1>0, RoundOfPrefixes, EntriesOfSeq DEF TypeOK
  <1>3. stop \in 0 .. Len(Round) /\ (sends # {} => stop \in sends)
    <2>1. sends \subseteq Nat /\ sends \subseteq 1 .. Len(Round)
      BY <1>2
    <2> HIDE DEF sends
    <2>2. sends # {} => \E i \in sends : \A j \in sends : i <= j
      BY <2>1, LeastOf
    <2>3. CASE sends = {}
      BY <1>2, <2>3
    <2>4. CASE sends # {}
      <3>1. stop \in sends
        BY <2>2, <2>4
      <3> HIDE DEF stop
      <3> QED BY <1>2, <2>1, <2>4, <3>1
    <2> QED BY <2>3, <2>4
  <1> HIDE DEF stop
  <1>4. visited \subseteq Entries(prefixes) /\ asked \subseteq Entries(prefixes)
    BY <1>2, <1>3
  <1>5. rest \in [Controls -> Seq(Kinds)]
    <2>1. ASSUME NEW p \in Controls
          PROVE  (IF p \in asked /\ dgrams[p] # << >> THEN Tail(dgrams[p]) ELSE dgrams[p]) \in Seq(Kinds)
      <3>1. dgrams[p] \in Seq(Kinds)
        BY <1>0 DEF TypeOK
      <3> QED BY <3>1, HeadTailProperties
    <2> HIDE DEF disarmed, asked
    <2> QED BY <2>1
  <1>6. \A p \in Controls : rest[p] # << >> => dgrams[p] # << >>
    OBVIOUS
  <1>7. armed \subseteq ready
    OBVIOUS
  <1>8. last' \in Controls \cup {None}
    BY <1>0, <1>1, <1>2, <1>3 DEF TypeOK
  <1>9. cnxReady' \in BOOLEAN
    BY <1>1 DEF StillActive
  <1>10. misused' = misused
    BY <1>0, <1>1, <1>2, <1>4 DEF Sessions
  <1> HIDE DEF sends, visited, disarmed, asked, rest, armed
  <1>11. TypeOK'
    BY <1>0, <1>1, <1>5, <1>7, <1>8, <1>9, <1>10 DEF TypeOK
  <1>12. Sessions'
    BY <1>0, <1>1, <1>6, <1>7, SamePrefixes DEF Sessions
  <1>13. ControlContexts' /\ StreamContexts' /\ DataStreams'
    BY <1>0, <1>1, SamePrefixes DEF ControlContexts, StreamContexts, DataStreams
  <1> QED BY <1>0, <1>1, <1>10, <1>11, <1>12, <1>13 DEF ConnectionInv

-----------------------------------------------------------------------------
(* The end of the connection. *)

\* The prefixes go first, then the streams.
LEMMA CloseStep ==
    ASSUME ConnectionInv, Close \/ DeleteContext
    PROVE  ConnectionInv'
  <1> USE DEF streamVars, prefixVars, peerVars, history
  <1>0. /\ TypeOK /\ Sessions /\ ControlContexts /\ StreamContexts /\ DataStreams
        /\ misrouted = {} /\ misused \subseteq undeclared
    BY DEF ConnectionInv
  <1>1. /\ UNCHANGED <<called, callback_ctx, control_id, ready, last, cnxReady, cramped, data_stream, misrouted,
                       undeclared>>
        /\ cnx' # "up" /\ cnx' \in {"prefixes", "streams", "closed"}
    BY DEF Close, DeleteContext, DeletePrefix, PrefixesDeleted, FreeStream, TreeEmptied
  <1>2. ControlContexts' /\ StreamContexts' /\ DataStreams'
    BY <1>0, <1>1 DEF ControlContexts, StreamContexts, DataStreams
  <1>3. CASE Close \/ PrefixesDeleted \/ TreeEmptied
    <2>1. TypeOK' /\ Sessions' /\ misused' = misused
      BY <1>0, <1>3, SamePrefixes DEF Close, PrefixesDeleted, TreeEmptied, TypeOK, Sessions
    <2> QED BY <1>0, <1>1, <1>2, <2>1 DEF ConnectionInv
  <1>4. CASE DeletePrefix
    <2> DEFINE p == Head(prefixes)
    <2>1. prefixes \in Seq(Controls) /\ prefixes # << >> /\ Once(prefixes) /\ cnx = "prefixes"
          /\ prefixes' = Tail(prefixes) /\ UNCHANGED <<cnx, tree>>
      BY <1>0, <1>4 DEF DeletePrefix, TypeOK, Sessions
    <2>2. /\ prefixes' \in Seq(Controls) /\ p \in Entries(prefixes) /\ Once(prefixes')
          /\ Entries(prefixes') = Entries(prefixes) \ {p}
      BY <2>1, TailEntries
    <2>3. p \in Controls /\ p \in tree /\ peer[p] = "live" /\ p # None /\ p # Server
      BY <1>0, <2>1, <2>2, EntriesOfSeq, Disjoint DEF Sessions
    <2>4. /\ Called(p, {<<"deregister", p>>})
          /\ peer' = [peer EXCEPT ![p] = "freed"]
          /\ dgrams' = [dgrams EXCEPT ![p] = << >>]
      BY <1>4, <2>3 DEF DeletePrefix
    <2> HIDE DEF p
    <2>5. misused' = misused
      BY <2>3, <2>4, GoodCalls
    <2>6. dgrams' \in [Controls -> Seq(Kinds)]
      <3>1. << >> \in Seq(Kinds)
        BY EmptySeq, Zenon
      <3> DEFINE e == << >>
      <3>2. e \in Seq(Kinds) /\ dgrams' = [dgrams EXCEPT ![p] = e]
        BY <2>4, <3>1
      <3> HIDE DEF e
      <3> QED BY <1>0, <3>2 DEF TypeOK
    <2>7. TypeOK'
      BY <1>0, <1>1, <2>1, <2>2, <2>4, <2>5, <2>6 DEF TypeOK
    <2>8. Sessions'
      <3>1. Once(prefixes)' /\ Entries(prefixes)' = Entries(prefixes) \ {p}
        BY <2>2 DEF Once, Entries
      <3>2. /\ \A c \in Controls : c # p => peer'[c] = peer[c] /\ dgrams'[c] = dgrams[c]
            /\ peer'[p] = "freed" /\ dgrams'[p] = << >>
        BY <1>0, <2>3, <2>4 DEF TypeOK
      <3> QED BY <1>0, <2>1, <3>1, <3>2 DEF Sessions
    <2> QED BY <1>0, <1>1, <1>2, <2>5, <2>7, <2>8 DEF ConnectionInv
  <1>5. ASSUME NEW s \in Streams, FreeStream(s) PROVE ConnectionInv'
    <2>1. misused' = misused
      <3>1. CASE s \in called
        <4>1. Called(s, {<<"free", callback_ctx[s]>>})
          BY <1>5, <3>1 DEF FreeStream
        <4> QED BY <4>1, GoodCalls DEF Uses
      <3> QED BY <1>5, <3>1 DEF FreeStream
    <2>2. TypeOK' /\ Sessions'
      BY <1>0, <1>5, <2>1, SamePrefixes DEF FreeStream, TypeOK, Sessions
    <2> QED BY <1>0, <1>1, <1>2, <2>1, <2>2 DEF ConnectionInv
  <1> QED BY <1>3, <1>4, <1>5 DEF DeleteContext

-----------------------------------------------------------------------------
(* The theorems. *)

\* Every callback and every step of the teardown preserves the invariant.
LEMMA ConnectionInvStep == ConnectionInv /\ [Next]_vars => ConnectionInv'
  <1> SUFFICES ASSUME ConnectionInv, [Next]_vars PROVE ConnectionInv'
    OBVIOUS
  <1>1. CASE UNCHANGED vars
    BY <1>1, SamePrefixes DEF vars, streamVars, prefixVars, peerVars, history, ConnectionInv, TypeOK,
       Sessions, ControlContexts, StreamContexts, DataStreams
  <1>2. CASE \E s \in WtStreams :
                \/ \E c \in Controls : Header(s, c)
                \/ \E event \in {"post_data", "post_fin"} : StreamData(s, event)
                \/ StreamFin(s)
    BY <1>2, HeaderStep, StreamDataStep
  <1>3. CASE \/ \E c \in Controls : Request(c) \/ Datagram(c)
             \/ \E c \in Controls : \E event \in {"post_data", "post_fin"} : ControlData(c, event)
             \/ \E s \in Streams : Reset(s)
    BY <1>3, RequestStep, EventStep
  <1>4. CASE (\E p \in Controls, kind \in Kinds : SendDatagram(p, kind)) \/ PrepareDatagram
    BY <1>4, SendDatagramStep, PrepareDatagramStep
  <1>5. CASE Close \/ DeleteContext
    BY <1>5, CloseStep
  <1> QED BY <1>1, <1>2, <1>3, <1>4, <1>5 DEF Next, Closed

\* The inductive invariant holds in every reachable state.
THEOREM ConnectionInvariant == Spec => []ConnectionInv
  BY ConnectionInvInit, ConnectionInvStep, PTL DEF Spec

\* Every table of the connection stays in its range.
THEOREM TypeCorrect == Spec => []TypeOK
  <1>1. ConnectionInv => TypeOK
    BY DEF ConnectionInv
  <1> QED BY <1>1, ConnectionInvariant, PTL

\* However many sessions share the connection, and in whatever order headers,
\* CONNECTs, data and FINs arrive: data reaches the session its header names, or
\* none, and a session's data stream is its own.
THEOREM SessionsAreSeparate == Spec => []RoutedToOwnSession
  <1>1. ConnectionInv => RoutedToOwnSession
    BY DEF ConnectionInv, DataStreams, RoutedToOwnSession
  <1> QED BY <1>1, ConnectionInvariant, PTL

\* No callback follows a pointer to the server's context or to a freed peer, but on
\* a CONNECT stream whose prefix could not be declared.
THEOREM PointersAreLive == Spec => []NoStaleUse
  <1>1. ConnectionInv => NoStaleUse
    BY DEF ConnectionInv, NoStaleUse
  <1> QED BY <1>1, ConnectionInvariant, PTL

\* Deleting the context frees every session and its datagrams.
THEOREM CloseIsComplete == Spec => []ClosedLeavesNothing
  <1>1. ConnectionInv => ClosedLeavesNothing
    <2> SUFFICES ASSUME ConnectionInv, cnx = "closed", NEW c \in Controls
                 PROVE  peer[c] # "live" /\ dgrams[c] = << >>
      BY DEF ClosedLeavesNothing
    <2>1. prefixes = << >> /\ Len(prefixes) = 0
      BY EntriesOfSeq DEF ConnectionInv, Sessions, TypeOK
    <2>2. Entries(prefixes) = {}
      BY <2>1 DEF Entries
    <2> QED BY <2>2 DEF ConnectionInv, Sessions
  <1> QED BY <1>1, ConnectionInvariant, PTL
=============================================================================
