----------------------------- MODULE Connection -----------------------------
(***************************************************************************)
(* Several sessions on one QUIC connection: h3zero's tables of streams and *)
(* stream prefixes (thirdparty/picoquic/picohttp/h3zero_common.c) and the  *)
(* callback wt_session_cb of adapters/transport_picoquic.c behind them.    *)
(*                                                                         *)
(* h3zero keeps raw pointers to the peers of the adapter in two places:    *)
(* path_callback_ctx of a stream context and function_ctx of a prefix. A   *)
(* peer is named here by the stream of its CONNECT. All callbacks run on   *)
(* the network thread, one after the other; what a session does with its   *)
(* data is in module Session, what the removal of a peer does in Daemon.   *)
(***************************************************************************)
EXTENDS Naturals, Sequences, FiniteSets

CONSTANTS
    Controls,     \* bidirectional streams that may carry a CONNECT or a POST
    Bidi, Uni,    \* WebTransport streams of the client
    None,         \* NULL, UINT64_MAX
    Server,       \* server_ctx_t, the path's application context
    QueueCap      \* bound: datagrams a peer has waiting

ASSUME StreamsAssumption ==
    /\ Controls \cap (Bidi \cup Uni) = {} /\ Bidi \cap Uni = {}
    /\ {None, Server} \cap (Controls \cup Bidi \cup Uni) = {} /\ None # Server

ASSUME BoundsAssumption == QueueCap \in Nat

WtStreams == Bidi \cup Uni
Streams == Controls \cup WtStreams

\* A datagram of the child: without or with payload.
Kinds == {"empty", "full"}

VARIABLES
    cnx,            \* "up"; h3zero_callback_delete_context: "prefixes", "streams"; "closed"
    tree,           \* h3_stream_tree: streams that have a context
    called,         \* those whose path_callback is wt_session_cb
    callback_ctx,   \* path_callback_ctx
    control_id,     \* control_stream_id in the header of a WebTransport stream
    prefixes,       \* stream_prefixes; function_ctx is the peer of that name
    ready,          \* prefixes with ready_to_send_datagrams
    last,           \* last_datagram_prefix
    cnxReady,       \* is_datagram_ready of the connection
    cramped,        \* sessions whose id leaves a datagram no room: it is encoded in as many
                    \* bytes as the client's max_datagram_frame_size allows, or more
    peer,           \* wtd_peer_t: "none", "live", "freed"
    data_stream,    \* data_stream_id
    dgrams,         \* dgram_head .. dgram_tail
    \* history
    misrouted,      \* streams with data that another session got, or none
    undeclared,     \* CONNECTs whose prefix could not be declared
    misused         \* streams whose event dereferenced a pointer to no live peer

streamVars == <<tree, called, callback_ctx, control_id>>
prefixVars == <<prefixes, ready, last, cnxReady, cramped>>
peerVars == <<peer, data_stream, dgrams>>
history == <<misrouted, undeclared, misused>>
vars == <<cnx, streamVars, prefixVars, peerVars, history>>

TypeOK ==
    /\ cnx \in {"up", "prefixes", "streams", "closed"}
    /\ tree \subseteq Streams /\ called \subseteq Streams
    /\ callback_ctx \in [Streams -> Controls \cup {None}]
    /\ control_id \in [WtStreams -> Controls \cup {None}]
    /\ prefixes \in Seq(Controls) /\ ready \subseteq Controls
    /\ last \in Controls \cup {None} /\ cnxReady \in BOOLEAN /\ cramped \subseteq Controls
    /\ peer \in [Controls -> {"none", "live", "freed"}]
    /\ data_stream \in [Controls -> WtStreams \cup {None}]
    /\ dgrams \in [Controls -> Seq(Kinds)]
    /\ misrouted \subseteq Streams /\ undeclared \subseteq Controls /\ misused \subseteq Streams

\* h3zero_callback_create_context. The context is zeroed, so the last prefix is
\* stream 0, which may be a control stream.
Init ==
    /\ cnx = "up"
    /\ tree = {} /\ called = {}
    /\ callback_ctx = [s \in Streams |-> None]
    /\ control_id = [s \in WtStreams |-> None]
    /\ prefixes = << >> /\ ready = {} /\ cnxReady = FALSE
    /\ last \in Controls \cup {None}
    /\ cramped \in SUBSET Controls
    /\ peer = [c \in Controls |-> "none"]
    /\ data_stream = [c \in Controls |-> None]
    /\ dgrams = [c \in Controls |-> << >>]
    /\ misrouted = {} /\ undeclared = {} /\ misused = {}

-----------------------------------------------------------------------------
(* wt_session_cb. *)

\* Faulty: the event "free" removes the peer too.
UsesOnFree(event) ==
    event \in {"post_data", "post_fin", "post_datagram", "provide_datagram", "deregister", "free"}

\* The events that follow the pointer they are given.
Uses(event) ==
    event \in {"post_data", "post_fin", "post_datagram", "provide_datagram", "deregister"}

\* The events of one callback on stream s with these pointers, in order: those
\* among them that follow a pointer to something other than a live peer.
Called(s, calls) ==
    misused' = misused \cup
        {t \in {s} : \E call \in calls :
            LET event == call[1]
                p == call[2]
            IN  Uses(event) /\ p # None /\ (p = Server \/ peer[p] # "live")}

\* The first stream that brings data or FIN becomes the data stream.
BoundStream(p, s) == IF data_stream[p] = None THEN s ELSE data_stream[p]

\* post_data or post_fin on stream s with pointer p reaches the session of p,
\* unless it is the control stream.
Reaches(s, p) == p # None /\ s # p /\ peer[p] = "live"

PostData(s, p) ==
    data_stream' = IF Reaches(s, p) THEN [data_stream EXCEPT ![p] = BoundStream(p, s)]
                   ELSE data_stream

\* Data of stream s for session c went to session p.
Routed(s, c, p) == misrouted' = IF c = p THEN misrouted ELSE misrouted \cup {s}

-----------------------------------------------------------------------------
(* Requests. *)

IsDeclared(c) == \E i \in 1 .. Len(prefixes) : prefixes[i] = c

\* Faulty: every stream and datagram goes to the first session.
FindFirstPrefix(c) == IF prefixes = << >> THEN None ELSE prefixes[1]

\* h3zero_find_stream_prefix: the peer that the prefix was declared for.
FindPrefix(c) == IF IsDeclared(c) THEN c ELSE None

NewStream(s) ==
    /\ cnx = "up"
    /\ s \notin tree
    /\ tree' = tree \cup {s}
    /\ UNCHANGED <<cnx, ready, last, cnxReady, cramped, misrouted>>

\* CONNECT for a session path: path_callback is set before the callback runs,
\* path_callback_ctx by the callback before it declares the prefix.
Accept(c) ==
    /\ NewStream(c)
    /\ called' = called \cup {c}
    /\ callback_ctx' = [callback_ctx EXCEPT ![c] = c]
    /\ peer' = [peer EXCEPT ![c] = "live"]
    /\ prefixes' = Append(prefixes, c)
    /\ UNCHANGED <<control_id, data_stream, dgrams, undeclared, misused>>

\* peer_create fails: 501, and the stream keeps the callback without a peer.
RefuseNoPeer(c) ==
    /\ NewStream(c)
    /\ called' = called \cup {c}
    /\ UNCHANGED <<callback_ctx, control_id, prefixes, peerVars, undeclared, misused>>

\* The prefix cannot be declared: peer_remove frees the peer, the stream keeps
\* the pointer.
RefuseUndeclared(c) ==
    /\ NewStream(c)
    /\ called' = called \cup {c}
    /\ callback_ctx' = [callback_ctx EXCEPT ![c] = c]
    /\ peer' = [peer EXCEPT ![c] = "freed"]
    /\ undeclared' = undeclared \cup {c}
    /\ UNCHANGED <<control_id, prefixes, data_stream, dgrams, misused>>

\* A path that is not in the table: 404, no callback.
RefuseNotFound(c) ==
    /\ NewStream(c)
    /\ UNCHANGED <<called, callback_ctx, control_id, prefixes, peerVars, undeclared, misused>>

\* A POST to a session path with a body: the callback is called with the server
\* context first and then, for the body, without one.
Post(c) ==
    /\ NewStream(c)
    /\ called' = called \cup {c}
    /\ Called(c, {<<"post", Server>>, <<"post_data", None>>})
    /\ UNCHANGED <<callback_ctx, control_id, prefixes, peerVars, undeclared>>

Request(c) ==
    Accept(c) \/ RefuseNoPeer(c) \/ RefuseUndeclared(c) \/ RefuseNotFound(c) \/ Post(c)

\* Capsules or FIN on a CONNECT stream, more body on a POST: DATA frames call
\* the callback as for a POST, then with the stream's own context.
ControlData(c, event) ==
    /\ cnx = "up"
    /\ c \in called
    /\ Called(c, {<<"post", Server>>, <<event, callback_ctx[c]>>})
    /\ UNCHANGED <<cnx, streamVars, prefixVars, peerVars, misrouted, undeclared>>

-----------------------------------------------------------------------------
(* WebTransport streams and datagrams of the client. *)

\* The header names the session. A unidirectional stream is tied to it at once
\* (h3zero_wt_parse_control_stream_id), or never; a bidirectional one with its
\* first data.
Header(s, c) ==
    /\ cnx = "up"
    /\ s \notin tree
    /\ tree' = tree \cup {s}
    /\ control_id' = [control_id EXCEPT ![s] = c]
    /\ IF s \in Uni /\ FindPrefix(c) # None
       THEN /\ called' = called \cup {s}
            /\ callback_ctx' = [callback_ctx EXCEPT ![s] = FindPrefix(c)]
       ELSE UNCHANGED <<called, callback_ctx>>
    /\ UNCHANGED <<cnx, prefixVars, peerVars, history>>

\* h3zero_process_h3_server_data and h3zero_process_remote_stream: data, maybe
\* with FIN. A bidirectional stream for no session is reset (towards the
\* client) and tried again with its next data.
StreamData(s, event) ==
    /\ cnx = "up"
    /\ s \in tree
    /\ LET p == IF s \in Bidi \ called THEN FindPrefix(control_id[s]) ELSE callback_ctx[s]
           bound == s \in called \/ p # None
           there == IsDeclared(control_id[s]) /\ (s \in Uni => s \in called)
       IN  /\ called' = IF bound THEN called \cup {s} ELSE called
           /\ callback_ctx' = [callback_ctx EXCEPT ![s] = p]
           /\ PostData(s, p)
           /\ Called(s, IF bound THEN {<<event, p>>} ELSE {})
           /\ Routed(s, IF there THEN control_id[s] ELSE None, IF Reaches(s, p) THEN p ELSE None)
    /\ UNCHANGED <<cnx, tree, control_id, prefixVars, peer, dgrams, undeclared>>

\* FIN without data: only if the stream has its callback.
StreamFin(s) ==
    /\ cnx = "up"
    /\ s \in called
    /\ PostData(s, callback_ctx[s])
    /\ Called(s, {<<"post_fin", callback_ctx[s]>>})
    /\ UNCHANGED <<cnx, streamVars, prefixVars, peer, dgrams, misrouted, undeclared>>

\* RESET_STREAM or STOP_SENDING: an event the callback does not know.
Reset(s) ==
    /\ cnx = "up"
    /\ s \in called
    /\ Called(s, {<<"reset", callback_ctx[s]>>})
    /\ UNCHANGED <<cnx, streamVars, prefixVars, peerVars, misrouted, undeclared>>

\* h3zero_callback_datagram: the prefix, and its control stream, must be there.
Datagram(c) ==
    /\ cnx = "up"
    /\ LET p == IF FindPrefix(c) \in tree THEN FindPrefix(c) ELSE None
       IN  /\ Called(c, {<<"post_datagram", p>>})
           /\ Routed(c, IF IsDeclared(c) THEN c ELSE None, p)
    /\ UNCHANGED <<cnx, streamVars, prefixVars, peerVars, undeclared>>

-----------------------------------------------------------------------------
(* Datagrams of the children. *)

\* peer_send_datagram, from the pump of a live peer, and
\* h3zero_set_datagram_ready.
SendDatagram(p, kind) ==
    /\ cnx = "up"
    /\ peer[p] = "live"
    /\ Len(dgrams[p]) < QueueCap
    /\ dgrams' = [dgrams EXCEPT ![p] = Append(@, kind)]
    /\ ready' = IF IsDeclared(p) THEN ready \cup {p} ELSE ready
    /\ cnxReady' = (cnxReady \/ IsDeclared(p))
    /\ UNCHANGED <<cnx, streamVars, prefixes, last, cramped, peer, data_stream, history>>

\* Faulty: every round begins with the first prefix.
RoundFromFirst == prefixes

\* The prefixes after the last one that sent, then the others up to it.
Round ==
    LET n == Len(prefixes)
        at == {i \in 1 .. n : prefixes[i] = last}
        k == IF at = {} THEN 0 ELSE CHOOSE i \in at : TRUE
    IN  SubSeq(prefixes, k + 1, n) \o SubSeq(prefixes, 1, k)

\* Asked for a datagram, the peer has something to put into the packet. One too
\* long for it counts too (and is dropped); one without payload does not. A
\* peer is only asked if there is room for more than its id.
Provides(p) == p \in ready \ cramped /\ dgrams[p] # << >> /\ Head(dgrams[p]) # "empty"

\* What the loops saw of the prefixes they visited and, if those were not all,
\* the check over the whole list.
StillActive(visited, armed, all_checked) ==
    \/ \E p \in visited : p \in armed
    \/ ~all_checked /\ \E i \in 1 .. Len(prefixes) : prefixes[i] \in armed

\* h3zero_callback_prepare_datagram: one round over the prefixes that are
\* ready, up to the first that sends. Each is disarmed; unless it is cramped it
\* is asked, gives its first datagram (provide_datagram), and is armed again if
\* it has more.
PrepareDatagram ==
    /\ cnx = "up"
    /\ cnxReady
    /\ LET sends == {i \in 1 .. Len(Round) : Provides(Round[i])}
           stop == IF sends = {} THEN Len(Round) ELSE CHOOSE i \in sends : \A j \in sends : i <= j
           visited == {Round[i] : i \in 1 .. stop}
           disarmed == visited \cap ready
           asked == disarmed \ cramped
           rest == [p \in Controls |->
                      IF p \in asked /\ dgrams[p] # << >> THEN Tail(dgrams[p]) ELSE dgrams[p]]
           armed == (ready \ disarmed) \cup {p \in asked : rest[p] # << >>}
       IN  /\ dgrams' = rest
           /\ ready' = armed
           /\ last' = IF sends = {} THEN last ELSE Round[stop]
           /\ cnxReady' = StillActive(visited, armed, sends = {} /\ IsDeclared(last))
           /\ misused' = misused \cup {p \in asked : peer[p] # "live"}
    /\ UNCHANGED <<cnx, streamVars, prefixes, cramped, peer, data_stream, misrouted, undeclared>>

-----------------------------------------------------------------------------
(* The end of the connection: h3zero_callback_delete_context. *)

\* Faulty: the streams are forgotten before the prefixes.
CloseTreeFirst ==
    /\ cnx = "up"
    /\ cnx' = "prefixes"
    /\ tree' = {}
    /\ UNCHANGED <<called, callback_ctx, control_id, prefixVars, peerVars, history>>

\* Closed by the client, by a timeout or by the shutdown of the server.
Close ==
    /\ cnx = "up"
    /\ cnx' = "prefixes"
    /\ UNCHANGED <<streamVars, prefixVars, peerVars, history>>

\* h3zero_delete_stream_prefix for the first one: its session is deregistered,
\* if the control stream is still known, and peer_remove frees the peer.
DeletePrefix ==
    /\ cnx = "prefixes"
    /\ prefixes # << >>
    /\ prefixes' = Tail(prefixes)
    /\ LET p == Head(prefixes)
       IN  IF p \in tree
           THEN /\ Called(p, {<<"deregister", p>>})
                /\ peer' = [peer EXCEPT ![p] = "freed"]
                /\ dgrams' = [dgrams EXCEPT ![p] = << >>]
           ELSE UNCHANGED <<misused, peer, dgrams>>
    /\ UNCHANGED <<cnx, streamVars, ready, last, cnxReady, cramped, data_stream, misrouted, undeclared>>

PrefixesDeleted ==
    /\ cnx = "prefixes"
    /\ prefixes = << >>
    /\ cnx' = "streams"
    /\ UNCHANGED <<streamVars, prefixVars, peerVars, history>>

\* picohttp_clear_stream_ctx: the event "free", with whatever pointer is left.
FreeStream(s) ==
    /\ cnx = "streams"
    /\ s \in tree
    /\ tree' = tree \ {s}
    /\ IF s \in called THEN Called(s, {<<"free", callback_ctx[s]>>}) ELSE UNCHANGED misused
    /\ UNCHANGED <<cnx, called, callback_ctx, control_id, prefixVars, peerVars, misrouted,
                   undeclared>>

TreeEmptied ==
    /\ cnx = "streams"
    /\ tree = {}
    /\ cnx' = "closed"
    /\ UNCHANGED <<streamVars, prefixVars, peerVars, history>>

DeleteContext ==
    DeletePrefix \/ PrefixesDeleted \/ (\E s \in Streams : FreeStream(s)) \/ TreeEmptied

Closed == cnx = "closed" /\ UNCHANGED vars

Next ==
    \/ \E c \in Controls : Request(c) \/ Datagram(c)
    \/ \E c \in Controls : \E event \in {"post_data", "post_fin"} : ControlData(c, event)
    \/ \E s \in WtStreams :
          \/ \E c \in Controls : Header(s, c)
          \/ \E event \in {"post_data", "post_fin"} : StreamData(s, event)
          \/ StreamFin(s)
    \/ \E s \in Streams : Reset(s)
    \/ \E p \in Controls, kind \in Kinds : SendDatagram(p, kind)
    \/ PrepareDatagram
    \/ Close \/ DeleteContext
    \/ Closed

Spec == Init /\ [][Next]_vars

\* Fairness: picoquic asks for datagrams as long as the connection is marked
\* ready for them, and the deletion of a context runs to its end. Nothing is
\* assumed of the client and the children.
FairSpec == Spec /\ WF_vars(PrepareDatagram) /\ WF_vars(DeleteContext)

-----------------------------------------------------------------------------
(* Properties. *)

\* Sessions that share a connection do not share data: every piece of a stream
\* and every datagram goes to the session its header names, if that session is
\* there, and to no other; and a session answers on a stream of its own.
RoutedToOwnSession ==
    /\ misrouted = {}
    /\ \A c \in Controls : data_stream[c] # None => control_id[data_stream[c]] = c

\* No event, in any order of requests, resets and the end of the connection,
\* follows the server's context or a freed peer as if it were a live one. The
\* one exception is a stream whose prefix could not be declared: it keeps the
\* pointer to the peer that was freed.
NoStaleUse == misused \subseteq undeclared

\* Once the connection's context is deleted nothing of its sessions is left:
\* every peer was deregistered and freed, with its datagrams.
ClosedLeavesNothing ==
    cnx = "closed" => \A c \in Controls : peer[c] # "live" /\ dgrams[c] = << >>

\* No session is starved by another one that always has datagrams to send, nor
\* forgotten when the connection's ready flag is computed: one that keeps
\* datagrams waiting is asked for them again and again. A cramped session is
\* never asked: h3zero disarms it and its datagrams wait for the end.
DatagramsServed ==
    \A p \in Controls :
        <>[](cnx = "up" /\ p \notin cramped /\ dgrams[p] # << >>) =>
            []<><<Len(dgrams'[p]) < Len(dgrams[p])>>_vars
=============================================================================
