---------------------------- MODULE SessionProofs ----------------------------
(***************************************************************************)
(* Proofs about module Session, for any number of frames, peer events and  *)
(* streams and any size of the wake pipe.                                  *)
(***************************************************************************)
EXTENDS Session, NatRecursion, SequenceTheorems, TLAPS

\* Appending to the last part of a concatenation appends to the whole.
LEMMA AppendToConcat ==
    \A a, b \in Seq(Frame) : \A x \in Frame : Append(a \o b, x) = a \o Append(b, x)
  BY AppendProperties, ConcatProperties, SeqEqual, SMTT(30)

\* Moving the head of one sequence to the end of the one before it changes
\* nothing in their concatenation.
LEMMA MoveHead ==
    ASSUME NEW S, NEW a \in Seq(S), NEW b \in Seq(S), b # << >>
    PROVE  Append(a, Head(b)) \o Tail(b) = a \o b
  <1>1. Head(b) \in S /\ Tail(b) \in Seq(S)
    BY HeadTailProperties
  <1>2. Append(a, Head(b)) = a \o << Head(b) >>
    BY <1>1, AppendIsConcat
  <1>3. (a \o << Head(b) >>) \o Tail(b) = a \o (<< Head(b) >> \o Tail(b))
    BY <1>1, ConcatAssociative
  <1>4. << Head(b) >> \o Tail(b) = b
    BY <1>1, HeadTailProperties
  <1> QED BY <1>2, <1>3, <1>4

-----------------------------------------------------------------------------
(* Type correctness. *)

\* Appending an element of S to a sequence over S stays a sequence over S.
LEMMA AppendType ==
    ASSUME NEW S, NEW s \in Seq(S), NEW x \in S
    PROVE  Append(s, x) \in Seq(S)
  BY AppendProperties

\* The number of a frame is positive (so it is no FIN mark), its flag one bit.
LEMMA FrameFields ==
    ASSUME NEW f \in Frame
    PROVE  f.id \in Nat \ {0} /\ f.flag \in {RELIABLE, UNRELIABLE}
  BY BoundsAssumption DEF Frame, RELIABLE, UNRELIABLE

\* A new peer is well typed.
LEMMA TypeInit == Init => TypeOK
  <1> SUFFICES ASSUME Init PROVE TypeOK
    OBVIOUS
  <1>1. \A S : << >> \in Seq(S)
    OBVIOUS
  <1>2. /\ outbound \in Seq(Frame) /\ batch \in Seq(Frame)
        /\ pushed \in Seq(Frame) /\ handed \in Seq(Frame)
        /\ dgrams \in Seq(Nat) /\ stream \in Seq(Nat) /\ provided \in Seq(Nat)
        /\ written \in Seq(Message)
        /\ posted \in Seq([from : Streams, id : 1 .. MaxPeerEvents])
    BY <1>1, Zenon DEF Init
  <1>3. /\ wake \in 0 .. WakeCap /\ decoded \in 0 .. MaxFrames /\ peerEvents \in 0 .. MaxPeerEvents
    BY BoundsAssumption DEF Init
  <1>4. stopped \in BOOLEAN /\ refused \subseteq Nat
    BY DEF Init
  <1> QED BY <1>2, <1>3, <1>4 DEF Init, TypeOK

\* Each action of either thread preserves the types.
LEMMA TypeStep == TypeOK /\ [Next]_vars => TypeOK'
  <1> SUFFICES ASSUME TypeOK, [Next]_vars PROVE TypeOK'
    OBVIOUS
  <1> USE BoundsAssumption, StreamsAssumption
      DEF TypeOK, vars, readerVars, sharedVars, netVars, peerVars, outsideVars, historyVars
  <1>1. ASSUME NEW flag \in {RELIABLE, UNRELIABLE}, NEW allocated \in BOOLEAN,
               OnOutput(flag, allocated)
        PROVE  TypeOK'
    <2>1. [flag |-> flag, id |-> decoded + 1] \in Frame
      BY <1>1 DEF OnOutput, Frame
    <2>2. outbound' \in Seq(Frame) /\ pushed' \in Seq(Frame)
      <3>1. CASE allocated
        <4> DEFINE f == [flag |-> flag, id |-> decoded + 1]
        <4>1. outbound' = Append(outbound, f) /\ pushed' = Append(pushed, f)
          BY <1>1, <3>1 DEF OnOutput, wtd_work_queue_push
        <4>2. Append(outbound, f) \in Seq(Frame) /\ Append(pushed, f) \in Seq(Frame)
          BY <2>1, AppendType, Zenon
        <4> QED BY <4>1, <4>2, Zenon
      <3>2. CASE ~allocated
        BY <1>1, <3>2 DEF OnOutput
      <3> QED BY <3>1, <3>2
    <2>3. decoded' \in 0 .. MaxFrames
      BY <1>1 DEF OnOutput
    <2> QED BY <1>1, <2>2, <2>3 DEF OnOutput
  <1>2. CASE Wake
    BY <1>2 DEF Wake, WakeWritten
  <1>3. CASE OnOutputEof
    BY <1>3 DEF OnOutputEof
  <1>4. CASE EofWake
    BY <1>4 DEF EofWake, WakeWritten
  <1>5. CASE WakeUp
    BY <1>5 DEF WakeUp
  <1>6. CASE BeginIo
    BY <1>6 DEF BeginIo
  <1>7. CASE LoopCallback
    BY <1>7 DEF LoopCallback
  <1>8. CASE PumpDrain
    BY <1>8 DEF PumpDrain
  <1>9. ASSUME NEW allocated \in BOOLEAN, PumpSend(allocated)
        PROVE  TypeOK'
    <2>1. Head(batch) \in Frame /\ Tail(batch) \in Seq(Frame)
      BY <1>9, HeadTailProperties DEF PumpSend
    <2>2. Head(batch).id \in Nat
      BY <2>1, FrameFields
    <2>3. /\ stream' \in Seq(Nat) /\ refused' \subseteq Nat
          /\ dgrams' \in Seq(Nat) /\ dgramReady' \in BOOLEAN
      <3>1. CASE Head(batch).flag = RELIABLE
        <4>1. Append(stream, Head(batch).id) \in Seq(Nat) /\ refused \cup {Head(batch).id} \subseteq Nat
          BY <2>2, AppendType, Zenon
        <4> QED BY <1>9, <3>1, <4>1, Zenon
                DEF PumpSend, SendByFlag, peer_send_stream, picoquic_add_to_stream
      <3>2. CASE Head(batch).flag # RELIABLE /\ allocated
        <4>1. Append(dgrams, Head(batch).id) \in Seq(Nat)
          BY <2>2, AppendType, Zenon
        <4> QED BY <1>9, <3>2, <4>1, Zenon DEF PumpSend, SendByFlag, peer_send_datagram
      <3>3. CASE Head(batch).flag # RELIABLE /\ ~allocated
        BY <1>9, <3>3 DEF PumpSend, SendByFlag, peer_send_datagram
      <3> QED BY <3>1, <3>2, <3>3
    <2> QED BY <1>9, <2>1, <2>3 DEF PumpSend
  <1>10. CASE PumpBatchEnd
    BY <1>10 DEF PumpBatchEnd
  <1>11. CASE PumpLoadEof
    BY <1>11 DEF PumpLoadEof
  <1>12. CASE PumpFin
    <2>1. stream' \in Seq(Nat) /\ refused' \subseteq Nat /\ stream_fin_sent' \in BOOLEAN
      <3>1. FIN \in Nat
        BY DEF FIN
      <3>2. Append(stream, FIN) \in Seq(Nat) /\ refused \cup {FIN} \subseteq Nat
        BY <3>1, AppendType, Zenon
      <3> QED BY <1>12, <3>2, Zenon DEF PumpFin, picoquic_add_to_stream
    <2> QED BY <1>12, <2>1 DEF PumpFin
  <1>13. ASSUME NEW s \in Streams \cup {ControlStream},
                NEW nonempty \in BOOLEAN, NEW fin \in BOOLEAN, NEW accepted \in BOOLEAN,
                PostData(s, nonempty, fin, accepted)
         PROVE  TypeOK'
    <2>1. [flag |-> RELIABLE, id |-> peerEvents + 1] \in Message
      BY <1>13 DEF PostData, Message
    <2>2. CASE s = ControlStream
      BY <1>13, <2>2 DEF PostData
    <2>3. CASE s # ControlStream
      <3>1. s \in Streams /\ peerEvents + 1 \in 1 .. MaxPeerEvents
        BY <1>13, <2>3 DEF PostData
      <3>2. data_stream_id' \in Streams \cup {NoStream}
        BY <1>13, <2>3, <3>1 DEF PostData, BoundStream
      <3>3. written' \in Seq(Message)
        <4>1. Append(written, [flag |-> RELIABLE, id |-> peerEvents + 1]) \in Seq(Message)
          BY <2>1, AppendType, Zenon
        <4> QED BY <1>13, <2>3, <4>1, Zenon DEF PostData, deliver_to_child
      <3>4. posted' \in Seq([from : Streams, id : 1 .. MaxPeerEvents])
        <4>1. [from |-> s, id |-> peerEvents + 1] \in [from : Streams, id : 1 .. MaxPeerEvents]
          BY <3>1
        <4>2. Append(posted, [from |-> s, id |-> peerEvents + 1])
                 \in Seq([from : Streams, id : 1 .. MaxPeerEvents])
          BY <4>1, AppendType, Zenon
        <4> QED BY <1>13, <2>3, <4>2, Zenon DEF PostData
      <3>5. /\ child_input_closed' \in BOOLEAN
            /\ stdin_fd' \in BOOLEAN
            /\ peerFin' \subseteq Streams
        BY <1>13, <2>3, <3>1 DEF PostData, wtd_session_deliver_fin
      <3>6. peerEvents' \in 0 .. MaxPeerEvents
        BY <1>13, <3>1 DEF PostData
      <3>7. /\ UNCHANGED <<npc, batch, stream_fin_sent, dgrams, dgramReady, stream, stopped, provided>>
            /\ UNCHANGED <<pushed, handed, drainEof, refused>>
            /\ UNCHANGED <<readerVars, sharedVars>>
        BY <1>13, Zenon DEF PostData
      <3> QED BY <3>2, <3>3, <3>4, <3>5, <3>6, <3>7
    <2> QED BY <2>2, <2>3
  <1>14. ASSUME NEW nonempty \in BOOLEAN, NEW accepted \in BOOLEAN,
                PostDatagram(nonempty, accepted)
         PROVE  TypeOK'
    <2>1. [flag |-> UNRELIABLE, id |-> peerEvents + 1] \in Message
      BY <1>14 DEF PostDatagram, Message
    <2> QED BY <1>14, <2>1 DEF PostDatagram, deliver_to_child
  <1>15. ASSUME NEW room \in BOOLEAN, ProvideDatagram(room)
         PROVE  TypeOK'
    <2>1. Head(dgrams) \in Nat /\ Tail(dgrams) \in Seq(Nat)
      BY <1>15, HeadTailProperties DEF ProvideDatagram
    <2>2. provided' \in Seq(Nat)
      <3>1. Append(provided, Head(dgrams)) \in Seq(Nat)
        BY <2>1, AppendType, Zenon
      <3> QED BY <1>15, <3>1, Zenon DEF ProvideDatagram
    <2>3. dgrams' \in Seq(Nat) /\ dgramReady' \in BOOLEAN
      BY <1>15, <2>1, Zenon DEF ProvideDatagram, Rearmed
    <2>4. /\ UNCHANGED <<data_stream_id, stdin_fd, stream, stopped, written, peerFin, peerEvents>>
          /\ UNCHANGED <<readerVars, sharedVars, netVars, historyVars>>
      BY <1>15, Zenon DEF ProvideDatagram
    <2> QED BY <2>2, <2>3, <2>4
  <1>16. CASE StreamStops
    BY <1>16 DEF StreamStops
  <1>17. CASE UNCHANGED vars
    BY <1>17
  <1> QED
    BY <1>1, <1>2, <1>3, <1>4, <1>5, <1>6, <1>7, <1>8, <1>9, <1>10, <1>11, <1>12,
       <1>13, <1>14, <1>15, <1>16, <1>17 DEF Next, Reader, Pump, Io

\* Every value the two threads and the callbacks store stays in its range; in
\* particular the wake pipe never holds more than its capacity.
THEOREM TypeCorrect == Spec => []TypeOK
  BY TypeInit, TypeStep, PTL DEF Spec

-----------------------------------------------------------------------------
(* Safety.                                                                 *)
(*                                                                         *)
(* None of the properties is inductive by itself. Conservation needs to    *)
(* know that a drain never overwrites a batch that is still being walked;  *)
(* the properties of the FIN need the reader's program counter, because    *)
(* what makes an observed output_eof final is that the reader sets it      *)
(* after its last push.                                                    *)

\* What was queued is what was handed over, followed by the batch and the queue.
Conservation == pushed = handed \o batch \o outbound

\* The drained chain exists only while the pump walks it.
BatchOnlyWhileSending == npc # "send" => batch = << >>

\* output_eof is set exactly when the reader has left its loop.
EofIsReaderDone == output_eof <=> rpc \in {"eofwake", "done"}

\* A drain that saw output_eof has emptied the queue for good.
DrainAtEofIsFinal == drainEof => output_eof /\ outbound = << >>

\* The pump is at send_fin only with a FIN due.
FinStepIsDue == npc = "fin" => FinDue

SessionInv ==
    /\ TypeOK
    /\ Conservation
    /\ BatchOnlyWhileSending
    /\ EofIsReaderDone
    /\ DrainAtEofIsFinal
    /\ FinStepIsDue
    /\ FinSound
    /\ QueuedDatagramIsArmed

\* A new peer satisfies the inductive invariant.
LEMMA SessionInvInit == Init => SessionInv
  <1> SUFFICES ASSUME Init PROVE SessionInv
    OBVIOUS
  <1>1. TypeOK
    BY TypeInit
  <1>2. Conservation
    <2>1. << >> = (<< >> \o << >>) \o << >>
      OBVIOUS
    <2> QED BY <2>1, Zenon DEF Init, Conservation
  <1>3. FinSound
    <2>1. Len(stream) = 0
      BY DEF Init
    <2> QED BY <2>1 DEF Init, FinSound
  <1> QED
    BY <1>1, <1>2, <1>3 DEF Init, SessionInv, BatchOnlyWhileSending, EofIsReaderDone,
       DrainAtEofIsFinal, FinStepIsDue, QueuedDatagramIsArmed

\* An action that moves no frame preserves Conservation.
LEMMA ConservationFrame ==
    ASSUME Conservation, UNCHANGED <<pushed, handed, batch, outbound>>
    PROVE  Conservation'
  BY DEF Conservation

\* An action that leaves the stream and its flags alone preserves FinSound.
LEMMA FinSoundFrame ==
    ASSUME FinSound, UNCHANGED <<stream, refused, stream_fin_sent>>, output_eof => output_eof'
    PROVE  FinSound'
  BY DEF FinSound

\* The number of a frame is not the FIN mark, so data leaves FinSound alone,
\* taken or refused.
LEMMA FinSoundData ==
    ASSUME NEW x \in Nat \ {0}, NEW taken \in BOOLEAN, TypeOK, FinSound,
           picoquic_add_to_stream(x, taken), UNCHANGED <<stream_fin_sent, output_eof>>
    PROVE  FinSound'
  <1>1. stream \in Seq(Nat) /\ x # FIN
    BY DEF TypeOK, FIN
  <1>2. CASE taken
    <2>1. stream' = Append(stream, x) /\ refused' = refused
      BY <1>2 DEF picoquic_add_to_stream
    <2>2. /\ Len(stream') = Len(stream) + 1
          /\ \A i \in 1 .. Len(stream) : stream'[i] = stream[i]
          /\ stream'[Len(stream) + 1] = x
          /\ Len(stream) \in Nat
      BY <1>1, <2>1, AppendProperties, LenProperties
    <2>3. \A i \in 1 .. Len(stream') : stream'[i] = FIN <=> i \in 1 .. Len(stream) /\ stream[i] = FIN
      BY <1>1, <2>2
    <2> QED BY <2>1, <2>2, <2>3 DEF FinSound
  <1>3. CASE ~taken
    <2>1. stream' = stream /\ (FIN \in refused' <=> FIN \in refused)
      BY <1>1, <1>3 DEF picoquic_add_to_stream
    <2> QED BY <2>1 DEF FinSound
  <1> QED BY <1>2, <1>3

\* Each action preserves the invariant.
LEMMA SessionInvStep == SessionInv /\ [Next]_vars => SessionInv'
  <1> SUFFICES ASSUME SessionInv, [Next]_vars PROVE SessionInv'
    OBVIOUS
  <1> DEFINE Others == /\ BatchOnlyWhileSending /\ EofIsReaderDone /\ DrainAtEofIsFinal
                       /\ FinStepIsDue /\ QueuedDatagramIsArmed
  <1>a. TypeOK'
    BY TypeStep DEF SessionInv
  <1>b. SUFFICES Conservation' /\ FinSound' /\ Others'
    BY <1>a DEF SessionInv
  <1>c. TypeOK /\ Conservation /\ FinSound /\ Others
    BY DEF SessionInv
  <1> HIDE DEF Others
  <1> USE DEF vars, readerVars, sharedVars, netVars, peerVars, outsideVars, historyVars
  <1>d. ASSUME UNCHANGED <<pushed, handed, batch, outbound, stream, refused, stream_fin_sent>>,
               output_eof => output_eof'
        PROVE  Conservation' /\ FinSound'
    BY <1>c, <1>d, ConservationFrame, FinSoundFrame
  <1>1. ASSUME NEW flag \in {RELIABLE, UNRELIABLE}, NEW allocated \in BOOLEAN,
               OnOutput(flag, allocated)
        PROVE  Conservation' /\ FinSound' /\ Others'
    <2>1. FinSound'
      BY <1>1, <1>c, FinSoundFrame DEF OnOutput
    <2>2. Conservation'
      <3> DEFINE f == [flag |-> flag, id |-> decoded + 1]
      <3>1. CASE allocated
        <4>1. outbound' = Append(outbound, f) /\ pushed' = Append(pushed, f)
              /\ handed' = handed /\ batch' = batch
          BY <1>1, <3>1 DEF OnOutput, wtd_work_queue_push
        <4>2. f \in Frame
          BY <1>1, <1>c, BoundsAssumption DEF OnOutput, TypeOK, Frame
        <4>3. handed \o batch \in Seq(Frame) /\ outbound \in Seq(Frame)
          BY <1>c, ConcatProperties DEF TypeOK
        <4>4. Append((handed \o batch) \o outbound, f) = (handed \o batch) \o Append(outbound, f)
          <5> HIDE DEF f
          <5> QED BY <4>2, <4>3, AppendToConcat, Zenon
        <4> QED BY <1>c, <4>1, <4>4, Zenon DEF Conservation
      <3>2. CASE ~allocated
        BY <1>1, <1>c, <3>2, ConservationFrame DEF OnOutput
      <3> QED BY <3>1, <3>2
    <2>3. Others'
      BY <1>1, <1>c DEF OnOutput, Others, BatchOnlyWhileSending, EofIsReaderDone,
         DrainAtEofIsFinal, FinStepIsDue, FinDue, QueuedDatagramIsArmed
    <2> QED BY <2>1, <2>2, <2>3
  <1>2. CASE Wake
    <2>1. Others'
      BY <1>2, <1>c DEF Wake, Others, BatchOnlyWhileSending, EofIsReaderDone,
         DrainAtEofIsFinal, FinStepIsDue, FinDue, QueuedDatagramIsArmed
    <2> QED BY <1>2, <1>d, <2>1 DEF Wake
  <1>3. CASE OnOutputEof
    <2>1. Others'
      BY <1>3, <1>c DEF OnOutputEof, Others, BatchOnlyWhileSending, EofIsReaderDone,
         DrainAtEofIsFinal, FinStepIsDue, FinDue, QueuedDatagramIsArmed
    <2> QED BY <1>3, <1>d, <2>1 DEF OnOutputEof
  <1>4. CASE EofWake
    <2>1. Others'
      BY <1>4, <1>c DEF EofWake, Others, BatchOnlyWhileSending, EofIsReaderDone,
         DrainAtEofIsFinal, FinStepIsDue, FinDue, QueuedDatagramIsArmed
    <2> QED BY <1>4, <1>d, <2>1 DEF EofWake
  <1>5. CASE WakeUp
    <2>1. Others'
      BY <1>5, <1>c DEF WakeUp, Others, BatchOnlyWhileSending, EofIsReaderDone,
         DrainAtEofIsFinal, FinStepIsDue, FinDue, QueuedDatagramIsArmed
    <2> QED BY <1>5, <1>d, <2>1 DEF WakeUp
  <1>6. CASE BeginIo
    <2>1. Others'
      BY <1>6, <1>c DEF BeginIo, Others, BatchOnlyWhileSending, EofIsReaderDone,
         DrainAtEofIsFinal, FinStepIsDue, FinDue, QueuedDatagramIsArmed
    <2> QED BY <1>6, <1>d, <2>1 DEF BeginIo
  <1>7. CASE LoopCallback
    <2>1. Others'
      BY <1>7, <1>c DEF LoopCallback, Others, BatchOnlyWhileSending, EofIsReaderDone,
         DrainAtEofIsFinal, FinStepIsDue, FinDue, QueuedDatagramIsArmed
    <2> QED BY <1>7, <1>d, <2>1 DEF LoopCallback
  <1>8. CASE PumpDrain
    <2>1. FinSound'
      BY <1>8, <1>c, FinSoundFrame DEF PumpDrain
    <2>2. batch = << >>
      BY <1>8, <1>c DEF PumpDrain, Others, BatchOnlyWhileSending
    <2>3. Conservation'
      <3>1. handed \in Seq(Frame) /\ outbound \in Seq(Frame) /\ handed \o outbound \in Seq(Frame)
        BY <1>c, ConcatProperties DEF TypeOK
      <3>2. (handed \o << >>) \o outbound = (handed \o outbound) \o << >>
        BY <3>1, ConcatEmptySeq, Zenon
      <3>3. pushed' = pushed /\ handed' = handed /\ batch' = outbound /\ outbound' = << >>
        BY <1>8 DEF PumpDrain
      <3> QED BY <1>c, <2>2, <3>2, <3>3, Zenon DEF Conservation
    <2>4. Others'
      BY <1>8, <1>c, <1>a DEF PumpDrain, Others, BatchOnlyWhileSending, EofIsReaderDone,
         DrainAtEofIsFinal, FinStepIsDue, FinDue, QueuedDatagramIsArmed, TypeOK
    <2> QED BY <2>1, <2>3, <2>4
  <1>9. ASSUME NEW allocated \in BOOLEAN, PumpSend(allocated)
        PROVE  Conservation' /\ FinSound' /\ Others'
    <2>1. batch # << >> /\ batch \in Seq(Frame) /\ handed \in Seq(Frame)
      BY <1>9, <1>c DEF PumpSend, TypeOK
    <2>2. Head(batch) \in Frame
      BY <2>1, HeadTailProperties
    <2>3. Conservation'
      <3>1. Append(handed, Head(batch)) \o Tail(batch) = handed \o batch
        BY <2>1, MoveHead, Zenon
      <3>2. /\ pushed' = pushed /\ outbound' = outbound
            /\ handed' = Append(handed, Head(batch)) /\ batch' = Tail(batch)
        BY <1>9 DEF PumpSend
      <3> QED BY <1>c, <3>1, <3>2, Zenon DEF Conservation
    <2>4. Head(batch).id \in Nat \ {0}
      BY <2>2, FrameFields
    <2>5. UNCHANGED <<stream_fin_sent, output_eof>>
      BY <1>9 DEF PumpSend
    <2>6. \/ UNCHANGED <<stream, refused>>
          \/ picoquic_add_to_stream(Head(batch).id, allocated /\ ~stopped)
      BY <1>9, Zenon DEF PumpSend, SendByFlag, peer_send_stream, peer_send_datagram
    <2>7. FinSound'
      <3>1. CASE UNCHANGED <<stream, refused>>
        BY <1>c, <2>5, <3>1, FinSoundFrame
      <3>2. CASE picoquic_add_to_stream(Head(batch).id, allocated /\ ~stopped)
        <4>1. (allocated /\ ~stopped) \in BOOLEAN
          OBVIOUS
        <4> QED BY <1>c, <2>4, <2>5, <3>2, <4>1, FinSoundData, Zenon
      <3> QED BY <2>6, <3>1, <3>2
    <2>8. QueuedDatagramIsArmed'
      BY <1>9, <1>c, Zenon DEF PumpSend, SendByFlag, peer_send_stream, peer_send_datagram,
         Others, QueuedDatagramIsArmed
    <2>9. Others'
      BY <1>9, <1>c, <2>8 DEF PumpSend, Others, BatchOnlyWhileSending, EofIsReaderDone,
         DrainAtEofIsFinal, FinStepIsDue, FinDue
    <2> QED BY <2>3, <2>7, <2>9
  <1>10. CASE PumpBatchEnd
    <2>1. Others'
      BY <1>10, <1>c DEF PumpBatchEnd, Others, BatchOnlyWhileSending, EofIsReaderDone,
         DrainAtEofIsFinal, FinStepIsDue, FinDue, QueuedDatagramIsArmed
    <2> QED BY <1>10, <1>d, <2>1 DEF PumpBatchEnd
  <1>11. CASE PumpLoadEof
    <2>1. Others'
      BY <1>11, <1>c DEF PumpLoadEof, Others, BatchOnlyWhileSending, EofIsReaderDone,
         DrainAtEofIsFinal, FinStepIsDue, FinDue, QueuedDatagramIsArmed
    <2> QED BY <1>11, <1>d, <2>1 DEF PumpLoadEof
  <1>12. CASE PumpFin
    <2>1. Conservation'
      BY <1>12, <1>c, ConservationFrame DEF PumpFin
    <2>2. Others'
      BY <1>12, <1>c DEF PumpFin, Others, BatchOnlyWhileSending, EofIsReaderDone,
         DrainAtEofIsFinal, FinStepIsDue, FinDue, QueuedDatagramIsArmed
    <2>3. FinSound'
      <3>1. CASE data_stream_id = NoStream
        BY <1>12, <1>c, <3>1, FinSoundFrame DEF PumpFin
      <3>2. CASE data_stream_id # NoStream
        <4>1. /\ picoquic_add_to_stream(FIN, ~stopped)
              /\ stream_fin_sent' = TRUE /\ output_eof' = output_eof
          BY <1>12, <3>2 DEF PumpFin
        <4>2. output_eof /\ ~stream_fin_sent
          BY <1>12, <1>c DEF PumpFin, Others, FinStepIsDue, FinDue
        <4>3. FIN \notin refused /\ \A i \in 1 .. Len(stream) : stream[i] # FIN
          BY <1>c, <4>2 DEF FinSound
        <4>4. stream \in Seq(Nat) /\ FIN \in Nat
          BY <1>c DEF TypeOK, FIN
        <4>5. CASE stopped
          <5>1. stream' = stream /\ FIN \in refused'
            BY <4>1, <4>5 DEF picoquic_add_to_stream
          <5> QED BY <4>1, <4>2, <4>3, <5>1 DEF FinSound
        <4>6. CASE ~stopped
          <5>0. stream' = Append(stream, FIN) /\ refused' = refused
            BY <4>1, <4>6 DEF picoquic_add_to_stream
          <5>1. /\ Len(stream') = Len(stream) + 1
                /\ \A i \in 1 .. Len(stream) : stream'[i] = stream[i]
                /\ stream'[Len(stream) + 1] = FIN
                /\ Len(stream) \in Nat
            BY <4>4, <5>0, AppendProperties, LenProperties
          <5>2. \A i \in 1 .. Len(stream') : stream'[i] = FIN <=> i = Len(stream')
            BY <4>3, <5>1
          <5>3. Len(stream') \in 1 .. Len(stream')
            BY <5>1
          <5> QED BY <4>1, <4>2, <4>3, <5>0, <5>2, <5>3 DEF FinSound
        <4> QED BY <4>5, <4>6
      <3> QED BY <3>1, <3>2
    <2> QED BY <2>1, <2>2, <2>3
  <1>13. ASSUME NEW s \in Streams \cup {ControlStream},
                NEW nonempty \in BOOLEAN, NEW fin \in BOOLEAN, NEW accepted \in BOOLEAN,
                PostData(s, nonempty, fin, accepted)
         PROVE  Conservation' /\ FinSound' /\ Others'
    <2>1. Others'
      BY <1>13, <1>c DEF PostData, Others, BatchOnlyWhileSending, EofIsReaderDone,
         DrainAtEofIsFinal, FinStepIsDue, FinDue, QueuedDatagramIsArmed
    <2> QED BY <1>13, <1>d, <2>1 DEF PostData
  <1>14. ASSUME NEW nonempty \in BOOLEAN, NEW accepted \in BOOLEAN,
                PostDatagram(nonempty, accepted)
         PROVE  Conservation' /\ FinSound' /\ Others'
    <2>1. Others'
      BY <1>14, <1>c DEF PostDatagram, Others, BatchOnlyWhileSending, EofIsReaderDone,
         DrainAtEofIsFinal, FinStepIsDue, FinDue, QueuedDatagramIsArmed
    <2> QED BY <1>14, <1>d, <2>1 DEF PostDatagram
  <1>15. ASSUME NEW room \in BOOLEAN, ProvideDatagram(room)
         PROVE  Conservation' /\ FinSound' /\ Others'
    <2>1. Others'
      BY <1>15, <1>c DEF ProvideDatagram, Rearmed, Others, BatchOnlyWhileSending,
         EofIsReaderDone, DrainAtEofIsFinal, FinStepIsDue, FinDue, QueuedDatagramIsArmed
    <2> QED BY <1>15, <1>d, <2>1 DEF ProvideDatagram
  <1>16. CASE StreamStops
    <2>1. Others'
      BY <1>16, <1>c DEF StreamStops, Others, BatchOnlyWhileSending, EofIsReaderDone,
         DrainAtEofIsFinal, FinStepIsDue, FinDue, QueuedDatagramIsArmed
    <2> QED BY <1>16, <1>d, <2>1 DEF StreamStops
  <1>17. CASE UNCHANGED vars
    <2>1. Others'
      BY <1>17, <1>c DEF Others, BatchOnlyWhileSending, EofIsReaderDone,
         DrainAtEofIsFinal, FinStepIsDue, FinDue, QueuedDatagramIsArmed
    <2> QED BY <1>17, <1>d, <2>1
  <1> QED
    BY <1>1, <1>2, <1>3, <1>4, <1>5, <1>6, <1>7, <1>8, <1>9, <1>10, <1>11, <1>12,
       <1>13, <1>14, <1>15, <1>16, <1>17 DEF Next, Reader, Pump, Io

\* The inductive invariant holds throughout.
LEMMA SessionInvariant == Spec => []SessionInv
  BY SessionInvInit, SessionInvStep, PTL DEF Spec

\* picoquic is asked for the FIN at most once, after the end of the child's
\* output; the latch says that it was asked, not that it took the FIN.
THEOREM FinIsSound == Spec => []FinSound
  <1>1. SessionInv => FinSound
    BY DEF SessionInv
  <1> QED BY SessionInvariant, <1>1, PTL

\* No queued datagram is forgotten by the one-at-a-time provide_datagram.
THEOREM DatagramsArmed == Spec => []QueuedDatagramIsArmed
  <1>1. SessionInv => QueuedDatagramIsArmed
    BY DEF SessionInv
  <1> QED BY SessionInvariant, <1>1, PTL

\* When the end of the output was seen at the drain, the FIN comes last.
THEOREM FinIsLast == Spec => FinLastIfEofSeenAtDrain
  <1> DEFINE Last == stream_fin_sent' /\ ~stream_fin_sent /\ drainEof
                        => outbound = << >> /\ batch = << >> /\ rpc \in {"eofwake", "done"}
  <1>1. SessionInv /\ [Next]_vars => [Last]_vars
    <2> SUFFICES ASSUME SessionInv, Next, stream_fin_sent', ~stream_fin_sent, drainEof
                 PROVE  outbound = << >> /\ batch = << >> /\ rpc \in {"eofwake", "done"}
      OBVIOUS
    <2>1. npc = "fin"
      BY DEF Next, Reader, OnOutput, Wake, OnOutputEof, EofWake, WakeUp, BeginIo, LoopCallback,
             Pump, PumpDrain, PumpSend, PumpBatchEnd, PumpLoadEof, PumpFin,
             Io, PostData, PostDatagram, StreamStops, ProvideDatagram, netVars
    <2> QED BY <2>1 DEF SessionInv, BatchOnlyWhileSending, DrainAtEofIsFinal, EofIsReaderDone
  <1> QED BY SessionInvariant, <1>1, PTL DEF Spec, FinLastIfEofSeenAtDrain

-----------------------------------------------------------------------------
(* Work queue and batch together implement the FIFO channel.               *)

\* Taking one item off a concatenation takes the head of its first part.
LEMMA TakeHead ==
    ASSUME NEW S, NEW b \in Seq(S), NEW o \in Seq(S), b # << >>
    PROVE  /\ 1 \in 1 .. Len(b \o o)
           /\ SubSeq(b \o o, 1, 1) = << Head(b) >>
           /\ SubSeq(b \o o, 1 + 1, Len(b \o o)) = Tail(b) \o o
  <1> DEFINE c == b \o o
  <1>1. /\ c \in Seq(S) /\ Len(c) = Len(b) + Len(o)
        /\ \A i \in 1 .. Len(b) + Len(o) : c[i] = IF i <= Len(b) THEN b[i] ELSE o[i - Len(b)]
    BY ConcatProperties
  <1>2. /\ Head(b) \in S /\ Tail(b) \in Seq(S) /\ Len(Tail(b)) = Len(b) - 1
        /\ \A i \in 1 .. Len(Tail(b)) : Tail(b)[i] = b[i + 1]
    BY HeadTailProperties
  <1>3. Len(b) \in Nat \ {0} /\ Len(o) \in Nat /\ Head(b) = b[1]
    BY EmptySeq, LenProperties
  <1>4. \A i \in 1 .. Len(c) : c[i] \in S
    BY <1>1, ElementOfSeq
  <1> HIDE DEF c
  <1>5. /\ SubSeq(c, 1, 1) \in Seq(S) /\ Len(SubSeq(c, 1, 1)) = 1
        /\ SubSeq(c, 1, 1)[1] = c[1]
    <2>1. \A i \in 1 .. 1 : c[i] \in S
      BY <1>1, <1>3, <1>4
    <2> QED BY <2>1, SubSeqProperties
  <1>6. /\ SubSeq(c, 2, Len(c)) \in Seq(S) /\ Len(SubSeq(c, 2, Len(c))) = Len(c) - 1
        /\ \A i \in 1 .. Len(c) - 1 : SubSeq(c, 2, Len(c))[i] = c[i + 1]
    <2>1. \A i \in 2 .. Len(c) : c[i] \in S
      BY <1>1, <1>3, <1>4
    <2>2. /\ SubSeq(c, 2, Len(c)) \in Seq(S)
          /\ Len(SubSeq(c, 2, Len(c))) = IF 2 <= Len(c) THEN Len(c) - 2 + 1 ELSE 0
          /\ \A i \in 1 .. Len(c) - 2 + 1 : SubSeq(c, 2, Len(c))[i] = c[2 + i - 1]
      BY <1>1, <1>3, <2>1, SubSeqProperties
    <2> QED BY <1>1, <1>3, <2>2
  <1>7. /\ Tail(b) \o o \in Seq(S) /\ Len(Tail(b) \o o) = Len(b) - 1 + Len(o)
        /\ \A i \in 1 .. Len(b) - 1 + Len(o) : (Tail(b) \o o)[i] =
              IF i <= Len(b) - 1 THEN Tail(b)[i] ELSE o[i - (Len(b) - 1)]
    BY <1>2, ConcatProperties
  <1>8. SubSeq(c, 1, 1) = << Head(b) >>
    <2>1. << Head(b) >> \in Seq(S) /\ Len(<< Head(b) >>) = 1 /\ << Head(b) >>[1] = Head(b)
      BY <1>2
    <2>2. c[1] = b[1]
      BY <1>1, <1>3
    <2>3. \A i \in 1 .. Len(SubSeq(c, 1, 1)) : SubSeq(c, 1, 1)[i] = << Head(b) >>[i]
      BY <1>3, <1>5, <2>1, <2>2
    <2> HIDE DEF c
    <2> QED BY <1>5, <2>1, <2>3, SeqEqual, Zenon
  <1>9. SubSeq(c, 2, Len(c)) = Tail(b) \o o
    <2>1. ASSUME NEW i \in 1 .. Len(c) - 1
          PROVE  SubSeq(c, 2, Len(c))[i] = (Tail(b) \o o)[i]
      <3>1. CASE i <= Len(b) - 1
        BY <1>1, <1>2, <1>3, <1>6, <1>7, <3>1
      <3>2. CASE ~(i <= Len(b) - 1)
        <4>1. i + 1 - Len(b) = i - (Len(b) - 1) /\ i + 1 \in 1 .. Len(b) + Len(o) /\ ~(i + 1 <= Len(b))
          BY <1>1, <1>3, <3>2
        <4> QED BY <1>1, <1>3, <1>6, <1>7, <3>2, <4>1
      <3> QED BY <3>1, <3>2
    <2>2. Len(SubSeq(c, 2, Len(c))) = Len(Tail(b) \o o)
      BY <1>1, <1>3, <1>6, <1>7
    <2>3. \A i \in 1 .. Len(SubSeq(c, 2, Len(c))) : SubSeq(c, 2, Len(c))[i] = (Tail(b) \o o)[i]
      BY <1>6, <2>1, Zenon
    <2> QED BY <1>6, <1>7, <2>2, <2>3, SeqEqual, Zenon
  <1>10. 1 \in 1 .. Len(c)
    BY <1>1, <1>3
  <1> QED BY <1>8, <1>9, <1>10 DEF c

\* The path from on_output to the transport port is a FIFO channel: a push is
\* a put, the send of one frame is a take, a drain is invisible.
THEOREM SessionRefinesFifo == Spec => RelayIsFifo
  <1>1. Init => Relay!Init
    BY DEF Init, Relay!Init
  <1>2. SessionInv /\ [Next]_vars => [Relay!Next]_(Relay!fifoVars)
    <2> SUFFICES ASSUME SessionInv, [Next]_vars PROVE [Relay!Next]_(Relay!fifoVars)
      OBVIOUS
    <2> USE DEF vars, readerVars, sharedVars, netVars, peerVars, outsideVars, historyVars
    <2>a. ASSUME UNCHANGED <<batch, outbound, pushed, handed>>
          PROVE  UNCHANGED Relay!fifoVars
      BY <2>a DEF Relay!fifoVars
    <2>t. batch \in Seq(Frame) /\ outbound \in Seq(Frame) /\ handed \in Seq(Frame)
      BY DEF SessionInv, TypeOK
    <2>1. ASSUME NEW flag \in {RELIABLE, UNRELIABLE}, NEW allocated \in BOOLEAN,
                 OnOutput(flag, allocated)
          PROVE  [Relay!Next]_(Relay!fifoVars)
      <3> DEFINE f == [flag |-> flag, id |-> decoded + 1]
      <3>1. CASE allocated
        <4>1. /\ outbound' = Append(outbound, f) /\ pushed' = Append(pushed, f)
              /\ handed' = handed /\ batch' = batch
          BY <2>1, <3>1 DEF OnOutput, wtd_work_queue_push
        <4>2. f \in Frame
          BY <2>1, BoundsAssumption DEF OnOutput, SessionInv, TypeOK, Frame
        <4> HIDE DEF f
        <4>3. Append(batch \o outbound, f) = batch \o Append(outbound, f)
          BY <2>t, <4>2, AppendToConcat, Zenon
        <4>4. Relay!Put(f)
          BY <4>1, <4>3, Zenon DEF Relay!Put
        <4> QED BY <4>2, <4>4, Zenon DEF Relay!Next
      <3>2. CASE ~allocated
        BY <2>1, <2>a, <3>2 DEF OnOutput
      <3> QED BY <3>1, <3>2
    <2>2. CASE PumpDrain
      <3>1. batch = << >>
        BY <2>2 DEF PumpDrain, SessionInv, BatchOnlyWhileSending
      <3>2. << >> \o outbound = outbound /\ outbound \o << >> = outbound
        BY <2>t, ConcatEmptySeq
      <3>3. batch' = outbound /\ outbound' = << >> /\ pushed' = pushed /\ handed' = handed
        BY <2>2 DEF PumpDrain
      <3> QED BY <3>1, <3>2, <3>3, Zenon DEF Relay!fifoVars
    <2>3. ASSUME NEW allocated \in BOOLEAN, PumpSend(allocated)
          PROVE  [Relay!Next]_(Relay!fifoVars)
      <3>1. batch # << >> /\ batch' = Tail(batch) /\ handed' = Append(handed, Head(batch))
            /\ outbound' = outbound /\ pushed' = pushed
        BY <2>3 DEF PumpSend
      <3>2. /\ 1 \in 1 .. Len(batch \o outbound)
            /\ SubSeq(batch \o outbound, 1, 1) = << Head(batch) >>
            /\ SubSeq(batch \o outbound, 1 + 1, Len(batch \o outbound)) = Tail(batch) \o outbound
        BY <2>t, <3>1, TakeHead, Zenon
      <3>3. Head(batch) \in Frame
        BY <2>t, <3>1, HeadTailProperties
      <3>4. Append(handed, Head(batch)) = handed \o << Head(batch) >>
        BY <2>t, <3>3, AppendIsConcat, Zenon
      <3>5. Relay!Take(1)
        BY <3>1, <3>2, <3>4, Zenon DEF Relay!Take
      <3> QED BY <3>2, <3>5, Zenon DEF Relay!Next
    <2>4. CASE Wake \/ OnOutputEof \/ EofWake \/ WakeUp \/ BeginIo \/ LoopCallback
      BY <2>4, <2>a DEF Wake, OnOutputEof, EofWake, WakeUp, BeginIo, LoopCallback
    <2>5. CASE PumpBatchEnd \/ PumpLoadEof \/ PumpFin
      BY <2>5, <2>a DEF PumpBatchEnd, PumpLoadEof, PumpFin
    <2>6. CASE Io
      BY <2>6, <2>a DEF Io, PostData, PostDatagram, StreamStops, ProvideDatagram
    <2>7. CASE UNCHANGED vars
      BY <2>7, <2>a
    <2> QED BY <2>1, <2>2, <2>3, <2>4, <2>5, <2>6, <2>7 DEF Next, Reader, Pump
  <1> QED BY SessionInvariant, <1>1, <1>2, PTL DEF Spec, RelayIsFifo, Relay!Spec

-----------------------------------------------------------------------------
(* The filter Kept, by the last element of its argument. *)

\* f[i] is what is kept of the first i elements of s.
IsKept(f, s, S, T) ==
    /\ f \in [0 .. Len(s) -> Seq(T)]
    /\ f[0] = << >>
    /\ \A i \in 1 .. Len(s) : f[i] = IF s[i] \in S THEN Append(f[i - 1], s[i]) ELSE f[i - 1]

\* Kept is the result of that loop.
LEMMA KeptLoop ==
    ASSUME NEW T, NEW s \in Seq(T), NEW S
    PROVE  \E f : IsKept(f, s, S, T) /\ Kept(s, S) = f[Len(s)]
  <1> DEFINE N == Len(s)
             H == Seq(T)
             step == [p \in H \X (1 .. N) |->
                         IF s[p[2]] \in S THEN Append(p[1], s[p[2]]) ELSE p[1]]
             IsIt(f) == f = [i \in 0 .. N |->
                               IF i = 0 THEN << >>
                               ELSE IF s[i] \in S THEN Append(f[i - 1], s[i]) ELSE f[i - 1]]
             K == CHOOSE f : IsIt(f)
  <1>1. N \in Nat
    OBVIOUS
  <1>2. << >> \in H
    OBVIOUS
  <1>3. \A q \in H : \A x \in T : Append(q, x) \in H
    OBVIOUS
  <1>4. \A i \in 1 .. N : s[i] \in T
    OBVIOUS
  <1>5. Kept(s, S) = K[N]
    BY Zenon DEF Kept
  <1> HIDE DEF H, N
  <1>6. step \in [H \X (1 .. N) -> H]
    BY <1>3, <1>4
  <1>7. \A q \in H : \A i \in 1 .. N : step[<<q, i>>] = IF s[i] \in S THEN Append(q, s[i]) ELSE q
    OBVIOUS
  <1> HIDE DEF step
  <1>8. PICK f : IsLoop(f, N, H, << >>, step)
    BY <1>1, <1>2, <1>6, LoopExists
  <1>9. \A n \in 1 .. N : f[n - 1] \in H
    BY <1>1, <1>8 DEF IsLoop
  <1>10. \A n \in 1 .. N : f[n] = IF s[n] \in S THEN Append(f[n - 1], s[n]) ELSE f[n - 1]
    BY <1>7, <1>8, <1>9 DEF IsLoop
  <1>11. IsIt(f)
    <2>1. \A n \in 0 .. N : n = 0 \/ n \in 1 .. N
      BY <1>1
    <2>2. \A n \in 0 .. N : f[n] = IF n = 0 THEN << >>
                        ELSE IF s[n] \in S THEN Append(f[n - 1], s[n]) ELSE f[n - 1]
      BY <1>8, <1>10, <2>1, Zenon DEF IsLoop
    <2> QED BY <1>8, <2>2, Zenon DEF IsLoop
  <1>12. IsIt(K)
    BY <1>11, Zenon
  <1> HIDE DEF K
  <1>13. /\ K[0] = << >>
         /\ \A n \in 1 .. N : K[n] = IF s[n] \in S THEN Append(K[n - 1], s[n]) ELSE K[n - 1]
    <2>1. 0 \in 0 .. N /\ \A n \in 1 .. N : n \in 0 .. N /\ n # 0
      BY <1>1
    <2> QED BY <1>12, <2>1, Zenon
  <1>14. \A n \in 0 .. N : K[n] \in H
    <2> DEFINE P == {n \in 0 .. N : K[n] \in H}
    <2>1. 0 \in P
      BY <1>1, <1>2, <1>13
    <2>2. \A n \in 1 .. N : n - 1 \in P => n \in P
      BY <1>1, <1>3, <1>4, <1>13
    <2> HIDE DEF P
    <2>3. 0 .. N \subseteq P
      BY <1>1, <2>1, <2>2, UpTo
    <2> QED BY <2>3 DEF P
  <1>15. K \in [0 .. N -> H]
    BY <1>12, <1>14, Zenon
  <1>16. IsKept(K, s, S, T)
    BY <1>13, <1>15 DEF IsKept, N, H
  <1> QED BY <1>5, <1>16 DEF N

\* The filter keeps nothing of nothing and decides the last element by itself.
LEMMA KeptOf ==
    ASSUME NEW T, NEW s \in Seq(T), NEW S, NEW x \in T
    PROVE  /\ Kept(<< >>, S) = << >>
           /\ Kept(s, S) \in Seq(T)
           /\ Kept(Append(s, x), S) = IF x \in S THEN Append(Kept(s, S), x) ELSE Kept(s, S)
  <1> DEFINE t == Append(s, x)
  <1>1. << >> \in Seq(T) /\ Len(<< >>) = 0
    OBVIOUS
  <1>2. PICK e : IsKept(e, << >>, S, T) /\ Kept(<< >>, S) = e[Len(<< >>)]
    BY <1>1, KeptLoop
  <1>3. Kept(<< >>, S) = << >>
    BY <1>1, <1>2 DEF IsKept
  <1>4. PICK f : IsKept(f, s, S, T) /\ Kept(s, S) = f[Len(s)]
    BY KeptLoop
  <1>5. /\ t \in Seq(T) /\ Len(t) = Len(s) + 1 /\ Len(s) \in Nat
        /\ t[Len(s) + 1] = x /\ \A i \in 1 .. Len(s) : s[i] = t[i]
    OBVIOUS
  <1>6. Kept(s, S) \in Seq(T)
    <2>1. Len(s) \in 0 .. Len(s)
      BY <1>5
    <2> QED BY <1>4, <2>1 DEF IsKept
  <1> HIDE DEF t
  <1>7. PICK g : IsKept(g, t, S, T) /\ Kept(t, S) = g[Len(t)]
    BY <1>5, KeptLoop
  <1>8. f[Len(s)] = g[Len(s)]
    <2> DEFINE P == {i \in 0 .. Len(s) : f[i] = g[i]}
    <2>1. 0 \in P
      BY <1>4, <1>5, <1>7 DEF IsKept
    <2>2. ASSUME NEW i \in 1 .. Len(s), i - 1 \in P PROVE i \in P
      <3>1. i \in 1 .. Len(t) /\ i \in 0 .. Len(s)
        BY <1>5
      <3>2. f[i] = IF s[i] \in S THEN Append(f[i - 1], s[i]) ELSE f[i - 1]
        BY <1>4 DEF IsKept
      <3>3. g[i] = IF t[i] \in S THEN Append(g[i - 1], t[i]) ELSE g[i - 1]
        BY <1>7, <3>1 DEF IsKept
      <3>4. s[i] = t[i] /\ f[i - 1] = g[i - 1]
        BY <1>5, <2>2
      <3>5. f[i] = g[i]
        BY <3>2, <3>3, <3>4
      <3> QED BY <3>1, <3>5
    <2> HIDE DEF P
    <2>3. 0 .. Len(s) \subseteq P
      BY <1>5, <2>1, <2>2, UpTo
    <2>4. Len(s) \in 0 .. Len(s)
      BY <1>5
    <2> QED BY <2>3, <2>4 DEF P
  <1>9. g[Len(t)] = IF x \in S THEN Append(g[Len(s)], x) ELSE g[Len(s)]
    <2>1. Len(t) \in 1 .. Len(t) /\ Len(t) - 1 = Len(s)
      BY <1>5
    <2>2. g[Len(t)] = IF t[Len(t)] \in S THEN Append(g[Len(t) - 1], t[Len(t)]) ELSE g[Len(t) - 1]
      BY <1>7, <2>1 DEF IsKept
    <2>3. t[Len(t)] = x
      BY <1>5
    <2> QED BY <2>1, <2>2, <2>3
  <1>10. Kept(t, S) = IF x \in S THEN Append(Kept(s, S), x) ELSE Kept(s, S)
    BY <1>4, <1>7, <1>8, <1>9, Zenon
  <1> QED BY <1>3, <1>6, <1>10 DEF t

\* The three facts one by one, as the proofs below use them.
LEMMA KeptOfNothing ==
    ASSUME NEW S
    PROVE  Kept(<< >>, S) = << >>
  <1>1. << >> \in Seq({0}) /\ 0 \in {0}
    OBVIOUS
  <1> QED BY <1>1, KeptOf, Zenon

\* An element of S stays.
LEMMA KeptIn ==
    ASSUME NEW T, NEW s \in Seq(T), NEW S, NEW x \in T, x \in S
    PROVE  Kept(Append(s, x), S) = Append(Kept(s, S), x)
  BY KeptOf

\* Another one goes.
LEMMA KeptOut ==
    ASSUME NEW T, NEW s \in Seq(T), NEW S, NEW x \in T, x \notin S
    PROVE  Kept(Append(s, x), S) = Kept(s, S)
  BY KeptOf

\* Two sets that agree on the elements keep the same.
LEMMA KeptSame ==
    ASSUME NEW T, NEW s \in Seq(T), NEW S, NEW U,
           \A i \in 1 .. Len(s) : s[i] \in S <=> s[i] \in U
    PROVE  Kept(s, S) = Kept(s, U)
  <1>1. PICK f : IsKept(f, s, S, T) /\ Kept(s, S) = f[Len(s)]
    BY KeptLoop
  <1>2. PICK g : IsKept(g, s, U, T) /\ Kept(s, U) = g[Len(s)]
    BY KeptLoop
  <1> DEFINE P == {i \in 0 .. Len(s) : f[i] = g[i]}
  <1>3. Len(s) \in Nat
    OBVIOUS
  <1>4. 0 \in P
    BY <1>1, <1>2, <1>3 DEF IsKept
  <1>5. ASSUME NEW i \in 1 .. Len(s), i - 1 \in P PROVE i \in P
    <2>1. f[i] = IF s[i] \in S THEN Append(f[i - 1], s[i]) ELSE f[i - 1]
      BY <1>1 DEF IsKept
    <2>2. g[i] = IF s[i] \in U THEN Append(g[i - 1], s[i]) ELSE g[i - 1]
      BY <1>2 DEF IsKept
    <2>3. i \in 0 .. Len(s) /\ f[i - 1] = g[i - 1]
      BY <1>3, <1>5
    <2>4. f[i] = g[i]
      BY <2>1, <2>2, <2>3
    <2> QED BY <2>3, <2>4
  <1> HIDE DEF P
  <1>6. 0 .. Len(s) \subseteq P
    BY <1>3, <1>4, <1>5, UpTo
  <1>7. Len(s) \in 0 .. Len(s)
    BY <1>3
  <1> QED BY <1>1, <1>2, <1>6, <1>7 DEF P

\* What stays is of the same kind.
LEMMA KeptType ==
    ASSUME NEW T, NEW s \in Seq(T), NEW S, NEW x \in T
    PROVE  Kept(s, S) \in Seq(T)
  BY KeptOf

-----------------------------------------------------------------------------
(* Order.                                                                  *)
(*                                                                         *)
(* What the ports and the child see is ordered because the numbers of the  *)
(* frames, and of the peer's messages, grow in the order they are made.    *)

\* The reader numbers its frames in the order it pushes them.
PushedInOrder ==
    /\ \A i \in 1 .. Len(pushed) : pushed[i].id <= decoded
    /\ \A i, j \in 1 .. Len(pushed) : i < j => pushed[i].id < pushed[j].id

\* The numbers of the frames with this flag that the pump handed over.
Handed(flag) ==
    {x \in Nat : \E h \in 1 .. Len(handed) : handed[h].flag = flag /\ handed[h].id = x}

\* Each port has got only frames of its flag, taken or refused; the datagrams
\* still queued are behind those provided.
PortsInOrder ==
    /\ Increasing(provided)
    /\ Increasing(dgrams)
    /\ \A i \in 1 .. Len(provided) : \A j \in 1 .. Len(dgrams) : provided[i] < dgrams[j]
    /\ \A i \in 1 .. Len(provided) : provided[i] \in Handed(UNRELIABLE)
    /\ \A i \in 1 .. Len(dgrams) : dgrams[i] \in Handed(UNRELIABLE)
    /\ \A i \in 1 .. Len(stream) : stream[i] = FIN \/ stream[i] \in Handed(RELIABLE)
    /\ \A x \in refused : x = FIN \/ x \in Handed(RELIABLE)

\* Nothing is on the stream before there is one; then it gets every reliable
\* frame.
StreamSoFar ==
    /\ data_stream_id = NoStream => stream = << >>
    /\ StreamIsReliableSuffix

\* The child's input is open until some stream of the peer has finished.
PeerSide ==
    /\ \A i \in 1 .. Len(written) : written[i].id <= peerEvents
    /\ \A i, j \in 1 .. Len(written) : i < j => written[i].id < written[j].id
    /\ child_input_closed = (peerFin # {})
    /\ stdin_fd = ~child_input_closed
    /\ \A i \in 1 .. Len(posted) :
          peerFin \subseteq {posted[i].from} =>
             \E j \in 1 .. Len(written) : written[j] = [flag |-> RELIABLE, id |-> posted[i].id]

OrderInv ==
    /\ PushedInOrder
    /\ PortsInOrder
    /\ StreamSoFar
    /\ PeerSide

\* A sequence that grows by one element.
LEMMA Grown ==
    ASSUME NEW S, NEW s \in Seq(S), NEW x \in S
    PROVE  /\ Len(Append(s, x)) = Len(s) + 1
           /\ Len(s) \in Nat
           /\ \A i \in 1 .. Len(s) : Append(s, x)[i] = s[i]
           /\ Append(s, x)[Len(s) + 1] = x
           /\ \A i \in 1 .. Len(Append(s, x)) : i = Len(s) + 1 \/ i \in 1 .. Len(s)
  OBVIOUS

\* A growing sequence of numbers grows by a larger one.
LEMMA IncreasingGrown ==
    ASSUME NEW s \in Seq(Nat), NEW x \in Nat, Increasing(s),
           \A i \in 1 .. Len(s) : s[i] < x
    PROVE  Increasing(Append(s, x))
  <1>1. /\ Len(Append(s, x)) = Len(s) + 1
        /\ Len(s) \in Nat
        /\ \A i \in 1 .. Len(s) : Append(s, x)[i] = s[i]
        /\ Append(s, x)[Len(s) + 1] = x
    BY Grown
  <1> DEFINE t == Append(s, x)
  <1> HIDE DEF t
  <1>2. ASSUME NEW i \in 1 .. Len(s) + 1, NEW j \in 1 .. Len(s) + 1, i < j
        PROVE  t[i] < t[j]
    <2>1. i \in 1 .. Len(s)
      BY <1>1, <1>2
    <2>2. CASE j = Len(s) + 1
      BY <1>1, <2>1, <2>2 DEF t
    <2>3. CASE j # Len(s) + 1
      <3>1. j \in 1 .. Len(s)
        BY <1>1, <2>3
      <3> QED BY <1>1, <1>2, <2>1, <3>1 DEF t, Increasing
    <2> QED BY <2>2, <2>3
  <1> QED BY <1>1, <1>2 DEF Increasing, t

\* The frames handed over, and the next one, are in order, because together
\* they begin what was pushed.
LEMMA HandedInOrder ==
    ASSUME SessionInv, PushedInOrder
    PROVE  /\ \A h, k \in 1 .. Len(handed) : h < k => handed[h].id < handed[k].id
           /\ batch # << >> => \A h \in 1 .. Len(handed) : handed[h].id < Head(batch).id
  <1> DEFINE n == Len(handed)
             c == handed \o batch
  <1>1. handed \in Seq(Frame) /\ batch \in Seq(Frame) /\ outbound \in Seq(Frame)
    BY DEF SessionInv, TypeOK
  <1>2. pushed = c \o outbound
    BY DEF SessionInv, Conservation
  <1>3. /\ c \in Seq(Frame) /\ Len(c) = n + Len(batch)
        /\ \A i \in 1 .. n + Len(batch) : c[i] = IF i <= n THEN handed[i] ELSE batch[i - n]
    BY <1>1, ConcatProperties, Zenon
  <1> HIDE DEF c
  <1>4. /\ Len(pushed) = Len(c) + Len(outbound)
        /\ \A i \in 1 .. Len(c) + Len(outbound) :
              pushed[i] = IF i <= Len(c) THEN c[i] ELSE outbound[i - Len(c)]
    <2>1. c \in Seq(Frame) /\ outbound \in Seq(Frame)
      BY <1>1, <1>3
    <2>2. /\ Len(c \o outbound) = Len(c) + Len(outbound)
          /\ \A i \in 1 .. Len(c) + Len(outbound) :
                (c \o outbound)[i] = IF i <= Len(c) THEN c[i] ELSE outbound[i - Len(c)]
      BY <2>1, ConcatProperties, Zenon
    <2> QED BY <1>2, <2>2, Zenon
  <1>5. n \in Nat /\ Len(batch) \in Nat /\ Len(outbound) \in Nat
    BY <1>1
  <1> HIDE DEF n
  <1>6. ASSUME NEW h \in 1 .. n PROVE h \in 1 .. Len(pushed) /\ pushed[h] = handed[h]
    <2>1. h \in 1 .. n + Len(batch) /\ h <= n /\ h <= Len(c) /\ h \in 1 .. Len(c) + Len(outbound)
      BY <1>3, <1>5
    <2> QED BY <1>3, <1>4, <2>1
  <1>7. \A h, k \in 1 .. n : h < k => handed[h].id < handed[k].id
    BY <1>6 DEF PushedInOrder
  <1>8. ASSUME batch # << >>, NEW h \in 1 .. n PROVE handed[h].id < Head(batch).id
    <2>1. Len(batch) > 0 /\ Head(batch) = batch[1]
      BY <1>1, <1>8
    <2>2. /\ n + 1 \in 1 .. n + Len(batch) /\ ~(n + 1 <= n) /\ (n + 1) - n = 1
          /\ n + 1 <= Len(c) /\ n + 1 \in 1 .. Len(c) + Len(outbound) /\ h < n + 1
      BY <1>3, <1>5, <2>1
    <2>3. pushed[n + 1] = Head(batch) /\ n + 1 \in 1 .. Len(pushed)
      BY <1>3, <1>4, <2>1, <2>2
    <2>4. h \in 1 .. Len(pushed) /\ pushed[h] = handed[h]
      BY <1>6
    <2> QED BY <2>2, <2>3, <2>4 DEF PushedInOrder
  <1> QED BY <1>7, <1>8 DEF n

\* A new frame has the largest number so far.
LEMMA PushedStep ==
    ASSUME SessionInv, PushedInOrder, [Next]_vars
    PROVE  PushedInOrder'
  <1> USE DEF vars, readerVars, sharedVars, netVars, peerVars, outsideVars, historyVars
  <1>1. ASSUME UNCHANGED <<pushed, decoded>> PROVE PushedInOrder'
    BY <1>1 DEF PushedInOrder
  <1>2. ASSUME NEW flag \in {RELIABLE, UNRELIABLE}, NEW allocated \in BOOLEAN,
               OnOutput(flag, allocated)
        PROVE  PushedInOrder'
    <2> DEFINE f == [flag |-> flag, id |-> decoded + 1]
    <2>1. pushed \in Seq(Frame) /\ decoded \in Nat /\ decoded' = decoded + 1
      BY <1>2 DEF OnOutput, SessionInv, TypeOK
    <2>2. \A i \in 1 .. Len(pushed) : pushed[i].id \in Nat
      <3>1. \A i \in 1 .. Len(pushed) : pushed[i] \in Frame
        BY <2>1
      <3> QED BY <3>1, FrameFields
    <2>3. CASE ~allocated
      <3>1. pushed' = pushed
        BY <1>2, <2>3 DEF OnOutput
      <3> QED BY <2>1, <2>2, <3>1 DEF PushedInOrder
    <2>4. CASE allocated
      <3>1. pushed' = Append(pushed, f)
        BY <1>2, <2>4 DEF OnOutput
      <3>2. f \in Frame /\ f.id = decoded + 1
        BY <1>2, BoundsAssumption DEF OnOutput, SessionInv, TypeOK, Frame
      <3> HIDE DEF f
      <3>3. /\ Len(pushed') = Len(pushed) + 1 /\ Len(pushed) \in Nat
            /\ \A i \in 1 .. Len(pushed) : pushed'[i] = pushed[i]
            /\ pushed'[Len(pushed) + 1] = f
        BY <2>1, <3>1, <3>2, Grown
      <3>4. \A i \in 1 .. Len(pushed') : i = Len(pushed) + 1 \/ i \in 1 .. Len(pushed)
        BY <3>3
      <3>5. ASSUME NEW i \in 1 .. Len(pushed') PROVE pushed'[i].id <= decoded'
        BY <2>1, <2>2, <3>2, <3>3, <3>4 DEF PushedInOrder
      <3>6. ASSUME NEW i \in 1 .. Len(pushed'), NEW j \in 1 .. Len(pushed'), i < j
            PROVE  pushed'[i].id < pushed'[j].id
        <4>1. i \in 1 .. Len(pushed)
          BY <3>3, <3>6
        <4>2. pushed'[i].id = pushed[i].id /\ pushed[i].id <= decoded /\ pushed[i].id \in Nat
          BY <2>2, <3>3, <4>1 DEF PushedInOrder
        <4>3. CASE j = Len(pushed) + 1
          <5>1. pushed'[j].id = decoded + 1
            BY <3>2, <3>3, <4>3
          <5> QED BY <2>1, <4>2, <5>1
        <4>4. CASE j \in 1 .. Len(pushed)
          BY <3>3, <3>6, <4>1, <4>4 DEF PushedInOrder
        <4> QED BY <3>4, <4>3, <4>4
      <3> QED BY <3>5, <3>6 DEF PushedInOrder
    <2> QED BY <2>3, <2>4
  <1>3. CASE Wake \/ OnOutputEof \/ EofWake \/ WakeUp \/ BeginIo \/ LoopCallback
    BY <1>1, <1>3 DEF Wake, OnOutputEof, EofWake, WakeUp, BeginIo, LoopCallback
  <1>4. CASE Pump
    BY <1>1, <1>4 DEF Pump, PumpDrain, PumpSend, PumpBatchEnd, PumpLoadEof, PumpFin
  <1>5. CASE Io
    BY <1>1, <1>5 DEF Io, PostData, PostDatagram, StreamStops, ProvideDatagram
  <1>6. CASE UNCHANGED vars
    BY <1>1, <1>6
  <1> QED BY <1>2, <1>3, <1>4, <1>5, <1>6 DEF Next, Reader

\* A frame handed over stays handed over, and the new one is.
LEMMA HandedGrows ==
    ASSUME handed \in Seq(Frame), NEW f \in Frame, handed' = Append(handed, f)
    PROVE  /\ \A flag : Handed(flag) \subseteq Handed(flag)'
           /\ f.id \in Handed(f.flag)'
  <1>1. /\ Len(handed') = Len(handed) + 1 /\ Len(handed) \in Nat
        /\ \A i \in 1 .. Len(handed) : handed'[i] = handed[i]
        /\ handed'[Len(handed) + 1] = f
    BY Grown
  <1>2. \A i \in 1 .. Len(handed) : i \in 1 .. Len(handed')
    BY <1>1
  <1>3. Len(handed) + 1 \in 1 .. Len(handed')
    BY <1>1
  <1>4. ASSUME NEW flag PROVE Handed(flag) \subseteq Handed(flag)'
    BY <1>1, <1>2 DEF Handed
  <1>5. f.id \in Handed(f.flag)'
    BY <1>1, <1>3, FrameFields DEF Handed
  <1> QED BY <1>4, <1>5

\* A datagram goes behind those queued, and only its own way.
LEMMA PortsStep ==
    ASSUME SessionInv, PushedInOrder, PortsInOrder, [Next]_vars
    PROVE  PortsInOrder'
  <1> USE DEF vars, readerVars, sharedVars, netVars, peerVars, outsideVars, historyVars
  <1>1. ASSUME UNCHANGED <<handed, provided, dgrams, stream, refused>> PROVE PortsInOrder'
    BY <1>1 DEF PortsInOrder, Handed, Increasing
  <1>2. CASE Reader
    BY <1>1, <1>2 DEF Reader, OnOutput, Wake, OnOutputEof, EofWake
  <1>3. CASE WakeUp \/ BeginIo \/ LoopCallback \/ PumpDrain \/ PumpBatchEnd \/ PumpLoadEof
    BY <1>1, <1>3 DEF WakeUp, BeginIo, LoopCallback, PumpDrain, PumpBatchEnd, PumpLoadEof
  <1>t. /\ handed \in Seq(Frame) /\ batch \in Seq(Frame) /\ dgrams \in Seq(Nat)
        /\ provided \in Seq(Nat) /\ stream \in Seq(Nat)
    BY DEF SessionInv, TypeOK
  <1>4. ASSUME NEW allocated \in BOOLEAN, PumpSend(allocated) PROVE PortsInOrder'
    <2>0. PICK f : f = Head(batch)
      OBVIOUS
    <2>1. /\ batch # << >> /\ handed' = Append(handed, f) /\ provided' = provided
      BY <1>4, <2>0 DEF PumpSend
    <2>2. f \in Frame /\ f.id \in Nat /\ f.flag \in {RELIABLE, UNRELIABLE}
      <3>1. f \in Frame
        BY <1>t, <2>0, <2>1, HeadTailProperties
      <3> QED BY <3>1, FrameFields
    <2>3. \A h \in 1 .. Len(handed) : handed[h].id < f.id
      BY <2>0, <2>1, HandedInOrder
    <2>5. /\ f.flag = RELIABLE => /\ dgrams' = dgrams
                                  /\ stream' = stream \/ stream' = Append(stream, f.id)
                                  /\ refused' = refused \/ refused' = refused \cup {f.id}
          /\ f.flag # RELIABLE => /\ stream' = stream /\ refused' = refused
                                  /\ dgrams' = dgrams \/ dgrams' = Append(dgrams, f.id)
      BY <1>4, <2>0, Zenon
         DEF PumpSend, SendByFlag, peer_send_stream, peer_send_datagram, picoquic_add_to_stream
    <2>4. /\ \A flag : Handed(flag) \subseteq Handed(flag)'
          /\ f.id \in Handed(f.flag)'
      BY <1>t, <2>1, <2>2, HandedGrows
    <2>6. /\ \A i \in 1 .. Len(provided) : provided[i] < f.id
          /\ \A i \in 1 .. Len(dgrams) : dgrams[i] < f.id
      BY <2>3 DEF PortsInOrder, Handed
    <2>7. \A i \in 1 .. Len(provided) : provided[i] \in Handed(UNRELIABLE)'
      BY <2>1, <2>4 DEF PortsInOrder
    <2>r. \A x \in refused' : x = FIN \/ x \in Handed(RELIABLE)'
      <3>1. CASE refused' = refused
        BY <2>4, <3>1 DEF PortsInOrder
      <3>2. CASE f.flag = RELIABLE /\ refused' = refused \cup {f.id}
        BY <2>4, <3>2 DEF PortsInOrder
      <3> QED BY <2>5, <3>1, <3>2
    <2>8. CASE dgrams' = dgrams
      <3>1. \A i \in 1 .. Len(dgrams) : dgrams[i] \in Handed(UNRELIABLE)'
        BY <2>4 DEF PortsInOrder
      <3>2. \A i \in 1 .. Len(stream') : stream'[i] = FIN \/ stream'[i] \in Handed(RELIABLE)'
        <4>1. CASE stream' = stream
          BY <2>4, <4>1 DEF PortsInOrder
        <4>2. CASE f.flag = RELIABLE /\ stream' = Append(stream, f.id)
          <5>1. /\ \A i \in 1 .. Len(stream) : stream'[i] = stream[i]
                /\ stream'[Len(stream) + 1] = f.id
                /\ \A i \in 1 .. Len(stream') : i = Len(stream) + 1 \/ i \in 1 .. Len(stream)
            BY <1>t, <2>2, <4>2, Grown
          <5> QED BY <2>4, <4>2, <5>1 DEF PortsInOrder
        <4> QED BY <2>5, <4>1, <4>2
      <3> QED BY <2>1, <2>7, <2>r, <2>8, <3>1, <3>2 DEF PortsInOrder, Handed
    <2>9. CASE f.flag # RELIABLE /\ stream' = stream /\ dgrams' = Append(dgrams, f.id)
      <3>1. f.flag = UNRELIABLE
        BY <2>2, <2>9
      <3>2. /\ \A i \in 1 .. Len(dgrams) : dgrams'[i] = dgrams[i]
            /\ dgrams'[Len(dgrams) + 1] = f.id
            /\ \A i \in 1 .. Len(dgrams') : i = Len(dgrams) + 1 \/ i \in 1 .. Len(dgrams)
        BY <1>t, <2>2, <2>9, Grown
      <3>3. \A i \in 1 .. Len(dgrams') : dgrams'[i] \in Handed(UNRELIABLE)'
        BY <2>4, <3>1, <3>2 DEF PortsInOrder
      <3>4. Increasing(dgrams')
        BY <1>t, <2>2, <2>6, <2>9, IncreasingGrown DEF PortsInOrder
      <3>5. \A i \in 1 .. Len(provided) : \A j \in 1 .. Len(dgrams') : provided[i] < dgrams'[j]
        BY <2>6, <3>2 DEF PortsInOrder
      <3>6. \A i \in 1 .. Len(stream) : stream[i] = FIN \/ stream[i] \in Handed(RELIABLE)'
        BY <2>4 DEF PortsInOrder
      <3> QED BY <2>1, <2>7, <2>r, <2>9, <3>3, <3>4, <3>5, <3>6 DEF PortsInOrder, Handed
    <2> QED BY <2>5, <2>8, <2>9
  <1>5. CASE PumpFin
    <2>1. UNCHANGED <<handed, provided, dgrams>>
      BY <1>5 DEF PumpFin
    <2>2. /\ stream' = stream \/ stream' = Append(stream, FIN)
          /\ refused' = refused \/ refused' = refused \cup {FIN}
      BY <1>5, Zenon DEF PumpFin, picoquic_add_to_stream
    <2>3. \A x \in refused' : x = FIN \/ x \in Handed(RELIABLE)
      BY <2>2 DEF PortsInOrder
    <2>4. \A i \in 1 .. Len(stream') : stream'[i] = FIN \/ stream'[i] \in Handed(RELIABLE)
      <3>1. CASE stream' = stream
        BY <3>1 DEF PortsInOrder
      <3>2. CASE stream' = Append(stream, FIN)
        <4>1. FIN \in Nat
          BY DEF FIN
        <4>2. /\ \A i \in 1 .. Len(stream) : stream'[i] = stream[i]
              /\ stream'[Len(stream) + 1] = FIN
              /\ \A i \in 1 .. Len(stream') : i = Len(stream) + 1 \/ i \in 1 .. Len(stream)
          BY <1>t, <3>2, <4>1, Grown
        <4> QED BY <4>2 DEF PortsInOrder
      <3> QED BY <2>2, <3>1, <3>2
    <2> QED BY <2>1, <2>3, <2>4 DEF PortsInOrder, Handed, Increasing
  <1>6. ASSUME NEW room \in BOOLEAN, ProvideDatagram(room) PROVE PortsInOrder'
    <2>1. /\ dgrams # << >> /\ dgrams' = Tail(dgrams) /\ UNCHANGED <<handed, stream, refused>>
          /\ provided' = IF room THEN Append(provided, Head(dgrams)) ELSE provided
      BY <1>6 DEF ProvideDatagram
    <2>2. /\ Len(dgrams) \in Nat /\ Len(dgrams) > 0 /\ dgrams' \in Seq(Nat)
          /\ Len(dgrams') = Len(dgrams) - 1
          /\ \A i \in 1 .. Len(dgrams') : dgrams'[i] = dgrams[i + 1]
          /\ Head(dgrams) = dgrams[1] /\ Head(dgrams) \in Nat
      <3>1. dgrams \in Seq(Nat) /\ dgrams # << >> /\ dgrams' = Tail(dgrams)
        BY <1>t, <2>1, Zenon
      <3>2. /\ Len(dgrams) \in Nat /\ Len(dgrams) > 0
            /\ Head(dgrams) = dgrams[1] /\ Head(dgrams) \in Nat
        BY <3>1
      <3>3. /\ Tail(dgrams) \in Seq(Nat) /\ Len(Tail(dgrams)) = Len(dgrams) - 1
            /\ \A i \in 1 .. Len(Tail(dgrams)) : Tail(dgrams)[i] = dgrams[i + 1]
        BY <3>1, HeadTailProperties
      <3> QED BY <3>1, <3>2, <3>3, Zenon
    <2>3. /\ 1 \in 1 .. Len(dgrams)
          /\ \A i \in 1 .. Len(dgrams') : i + 1 \in 1 .. Len(dgrams) /\ 1 < i + 1
      BY <2>2
    <2>4. Increasing(dgrams')
      <3> SUFFICES ASSUME NEW i \in 1 .. Len(dgrams'), NEW j \in 1 .. Len(dgrams'), i < j
                   PROVE  dgrams'[i] < dgrams'[j]
        BY DEF Increasing
      <3>1. i + 1 < j + 1
        BY <2>2
      <3> QED BY <2>2, <2>3, <3>1 DEF PortsInOrder, Increasing
    <2>5. \A i \in 1 .. Len(dgrams') : dgrams'[i] \in Handed(UNRELIABLE) /\ dgrams[1] < dgrams'[i]
      BY <2>2, <2>3 DEF PortsInOrder, Increasing
    <2>6. \A i \in 1 .. Len(provided) : provided[i] < dgrams[1]
      BY <2>3 DEF PortsInOrder
    <2>7. CASE ~room
      <3>1. provided' = provided
        BY <2>1, <2>7
      <3>2. \A i \in 1 .. Len(provided) : \A j \in 1 .. Len(dgrams') : provided[i] < dgrams'[j]
        BY <2>2, <2>3 DEF PortsInOrder
      <3>3. Handed(RELIABLE)' = Handed(RELIABLE) /\ Handed(UNRELIABLE)' = Handed(UNRELIABLE)
        BY <2>1, Zenon DEF Handed
      <3>4. Increasing(provided')
        BY <3>1, Zenon DEF PortsInOrder, Increasing
      <3> QED BY <2>1, <2>4, <2>5, <3>1, <3>2, <3>3, <3>4, Zenon DEF PortsInOrder
    <2>8. CASE room
      <3>1. provided' = Append(provided, dgrams[1])
        BY <2>1, <2>2, <2>8
      <3>2. dgrams[1] \in Nat
        BY <2>2
      <3>3. /\ \A i \in 1 .. Len(provided) : provided'[i] = provided[i]
            /\ provided'[Len(provided) + 1] = dgrams[1]
            /\ \A i \in 1 .. Len(provided') : i = Len(provided) + 1 \/ i \in 1 .. Len(provided)
        BY <1>t, <3>1, <3>2, Grown
      <3>4. Increasing(provided')
        BY <1>t, <2>6, <3>1, <3>2, IncreasingGrown DEF PortsInOrder
      <3>5. ASSUME NEW i \in 1 .. Len(provided'), NEW j \in 1 .. Len(dgrams')
            PROVE  provided'[i] < dgrams'[j]
        <4>1. CASE i = Len(provided) + 1
          BY <2>5, <3>3, <4>1
        <4>2. CASE i \in 1 .. Len(provided)
          <5>1. provided'[i] = provided[i] /\ dgrams'[j] = dgrams[j + 1] /\ j + 1 \in 1 .. Len(dgrams)
            BY <2>2, <2>3, <3>3, <4>2, Zenon
          <5> QED BY <4>2, <5>1 DEF PortsInOrder
        <4> QED BY <3>3, <4>1, <4>2
      <3>6. \A i \in 1 .. Len(provided') : provided'[i] \in Handed(UNRELIABLE)
        BY <2>3, <3>3 DEF PortsInOrder
      <3>7. /\ Handed(UNRELIABLE)' = Handed(UNRELIABLE)
            /\ Handed(RELIABLE)' = Handed(RELIABLE) /\ stream' = stream /\ refused' = refused
        BY <2>1 DEF Handed
      <3> QED BY <2>4, <2>5, <3>4, <3>5, <3>6, <3>7 DEF PortsInOrder
    <2> QED BY <2>7, <2>8
  <1>7. CASE \E s \in Streams \cup {ControlStream}, nonempty, fin, accepted \in BOOLEAN :
                PostData(s, nonempty, fin, accepted)
    BY <1>1, <1>7 DEF PostData
  <1>8. CASE StreamStops \/ \E nonempty, accepted \in BOOLEAN : PostDatagram(nonempty, accepted)
    BY <1>1, <1>8 DEF StreamStops, PostDatagram
  <1>9. CASE UNCHANGED vars
    BY <1>1, <1>9
  <1> QED BY <1>2, <1>3, <1>4, <1>5, <1>6, <1>7, <1>8, <1>9 DEF Next, Pump, Io

\* What follows the first k elements is of the same kind.
LEMMA SuffixType ==
    ASSUME NEW S, NEW s \in Seq(S), NEW k \in 0 .. Len(s)
    PROVE  SubSeq(s, k + 1, Len(s)) \in Seq(S)
  <1>1. Len(s) \in Nat /\ k \in Nat
    OBVIOUS
  <1>2. k + 1 \in Int /\ Len(s) \in Int /\ \A i \in k + 1 .. Len(s) : s[i] \in S
    BY <1>1
  <1> QED BY <1>2, SubSeqProperties

\* What follows the first k elements grows with the sequence.
LEMMA SuffixGrows ==
    ASSUME NEW S, NEW s \in Seq(S), NEW x \in S, NEW k \in 0 .. Len(s)
    PROVE  SubSeq(Append(s, x), k + 1, Len(s) + 1) = Append(SubSeq(s, k + 1, Len(s)), x)
  <1> DEFINE n == Len(s)
             t == Append(s, x)
             a == SubSeq(s, k + 1, n)
             b == SubSeq(t, k + 1, n + 1)
  <1>1. /\ n \in Nat /\ k \in Nat /\ k <= n
        /\ t \in Seq(S) /\ Len(t) = n + 1 /\ t[n + 1] = x /\ \A i \in 1 .. n : t[i] = s[i]
    OBVIOUS
  <1>2. /\ k + 1 \in Int /\ n \in Int /\ n + 1 \in Int
        /\ \A i \in k + 1 .. n : s[i] \in S
        /\ \A i \in k + 1 .. n + 1 : t[i] \in S
    BY <1>1
  <1>3. /\ a \in Seq(S)
        /\ Len(a) = IF k + 1 <= n THEN n - (k + 1) + 1 ELSE 0
        /\ \A i \in 1 .. n - (k + 1) + 1 : a[i] = s[(k + 1) + i - 1]
    BY <1>2, SubSeqProperties
  <1>4. /\ b \in Seq(S)
        /\ Len(b) = IF k + 1 <= n + 1 THEN (n + 1) - (k + 1) + 1 ELSE 0
        /\ \A i \in 1 .. (n + 1) - (k + 1) + 1 : b[i] = t[(k + 1) + i - 1]
    BY <1>2, SubSeqProperties
  <1> HIDE DEF n, t, a, b
  <1>5. Len(a) = n - k /\ Len(b) = n - k + 1
    BY <1>1, <1>3, <1>4
  <1>6. /\ Append(a, x) \in Seq(S) /\ Len(Append(a, x)) = Len(a) + 1
        /\ \A i \in 1 .. Len(a) : Append(a, x)[i] = a[i]
        /\ Append(a, x)[Len(a) + 1] = x
    BY <1>3
  <1>7. Len(b) = Len(Append(a, x))
    BY <1>1, <1>5, <1>6
  <1>8. ASSUME NEW i \in 1 .. Len(b) PROVE b[i] = Append(a, x)[i]
    <2>1. /\ i \in 1 .. (n + 1) - (k + 1) + 1 /\ (k + 1) + i - 1 = k + i
      BY <1>1, <1>5
    <2>2. b[i] = t[k + i]
      BY <1>4, <2>1
    <2>3. CASE i = Len(a) + 1
      <3>1. k + i = n + 1
        BY <1>1, <1>5, <2>3
      <3> QED BY <1>1, <1>6, <2>2, <2>3, <3>1
    <2>4. CASE i # Len(a) + 1
      <3>1. /\ i \in 1 .. Len(a) /\ i \in 1 .. n - (k + 1) + 1 /\ k + i \in 1 .. n
        BY <1>1, <1>5, <2>4
      <3>2. a[i] = s[k + i]
        BY <1>3, <2>1, <3>1
      <3> QED BY <1>1, <1>6, <2>2, <3>1, <3>2
    <2> QED BY <2>3, <2>4
  <1>9. b = Append(a, x)
    BY <1>4, <1>6, <1>7, <1>8, SeqEqual
  <1> QED BY <1>9 DEF n, t, a, b

\* The numbers of one frame more.
LEMMA IdsGrow ==
    ASSUME NEW s \in Seq(Frame), NEW f \in Frame
    PROVE  Ids(s) \in Seq(Nat) /\ Ids(Append(s, f)) = Append(Ids(s), f.id)
  <1> DEFINE t == Append(s, f)
  <1>1. /\ Len(s) \in Nat /\ t \in Seq(Frame) /\ Len(t) = Len(s) + 1
        /\ t[Len(s) + 1] = f /\ \A i \in 1 .. Len(s) : t[i] = s[i]
    OBVIOUS
  <1>2. (\A i \in 1 .. Len(s) : s[i].id \in Nat) /\ f.id \in Nat
    <2>1. \A i \in 1 .. Len(s) : s[i] \in Frame
      OBVIOUS
    <2> QED BY <2>1, FrameFields
  <1>3. /\ Ids(s) \in Seq(Nat) /\ Len(Ids(s)) = Len(s)
        /\ \A i \in 1 .. Len(s) : Ids(s)[i] = s[i].id
    BY <1>1, <1>2 DEF Ids
  <1> HIDE DEF t
  <1>4. \A i \in 1 .. Len(t) : t[i].id \in Nat
    BY <1>1, <1>2
  <1>5. /\ Ids(t) \in Seq(Nat) /\ Len(Ids(t)) = Len(t)
        /\ \A i \in 1 .. Len(t) : Ids(t)[i] = t[i].id
    BY <1>1, <1>4 DEF Ids
  <1> DEFINE a == Append(Ids(s), f.id)
  <1>6. /\ a \in Seq(Nat) /\ Len(a) = Len(s) + 1 /\ a[Len(s) + 1] = f.id
        /\ \A i \in 1 .. Len(s) : a[i] = Ids(s)[i]
    BY <1>2, <1>3
  <1> HIDE DEF a
  <1>7. ASSUME NEW i \in 1 .. Len(t) PROVE Ids(t)[i] = a[i]
    <2>1. CASE i = Len(s) + 1
      BY <1>1, <1>5, <1>6, <2>1
    <2>2. CASE i # Len(s) + 1
      <3>1. i \in 1 .. Len(s)
        BY <1>1, <2>2
      <3> QED BY <1>1, <1>3, <1>5, <1>6, <3>1
    <2> QED BY <2>1, <2>2
  <1>8. Len(Ids(t)) = Len(a)
    BY <1>1, <1>5, <1>6
  <1>9. Ids(t) = a
    BY <1>5, <1>6, <1>7, <1>8, SeqEqual
  <1> QED BY <1>3, <1>9 DEF t, a

\* An element of a suffix is an element of the whole.
LEMMA SuffixElements ==
    ASSUME NEW S, NEW s \in Seq(S), NEW k \in 0 .. Len(s),
           NEW i \in 1 .. Len(SubSeq(s, k + 1, Len(s)))
    PROVE  \E h \in 1 .. Len(s) : SubSeq(s, k + 1, Len(s))[i] = s[h]
  <1>1. Len(s) \in Nat /\ k \in Nat /\ k <= Len(s)
    OBVIOUS
  <1>2. k + 1 \in Int /\ Len(s) \in Int /\ \A j \in k + 1 .. Len(s) : s[j] \in S
    BY <1>1
  <1>3. /\ Len(SubSeq(s, k + 1, Len(s))) = IF k + 1 <= Len(s) THEN Len(s) - (k + 1) + 1 ELSE 0
        /\ \A j \in 1 .. Len(s) - (k + 1) + 1 : SubSeq(s, k + 1, Len(s))[j] = s[(k + 1) + j - 1]
    BY <1>2, SubSeqProperties
  <1>4. /\ i \in 1 .. Len(s) - (k + 1) + 1 /\ (k + 1) + i - 1 \in 1 .. Len(s)
    BY <1>1, <1>3
  <1> QED BY <1>3, <1>4

\* The reliable frames that picoquic did not refuse.
Sendable == {f \in Frame : IsReliable(f) /\ f.id \notin refused}

\* Once a stream is bound every reliable frame goes on it or is refused; before,
\* nothing does and the suffix is empty.
LEMMA StreamSend ==
    ASSUME handed \in Seq(Frame), stream \in Seq(Nat), StreamSoFar,
           NEW f \in Frame, handed' = Append(handed, f), data_stream_id' = data_stream_id,
           \A h \in 1 .. Len(handed) : handed[h].id # f.id,
           f.id \notin refused,
           IF f.flag = RELIABLE /\ data_stream_id # NoStream
           THEN \E taken \in BOOLEAN : picoquic_add_to_stream(f.id, taken)
           ELSE UNCHANGED <<stream, refused>>
    PROVE  StreamSoFar'
  <1> DEFINE R == Sendable
             U == Sendable'
             D == Nat \ {FIN}
  <1>1. f.id \in Nat /\ f.id \in D /\ f.flag \in {RELIABLE, UNRELIABLE}
    BY FrameFields DEF FIN
  <1>2. handed' \in Seq(Frame) /\ Len(handed') = Len(handed) + 1 /\ Len(handed) \in Nat
    BY <1>1
  <1>3. CASE data_stream_id = NoStream
    <2>1. stream = << >> /\ stream' = << >>
      BY <1>3 DEF StreamSoFar
    <2>2. SubSeq(handed', Len(handed') + 1, Len(handed')) = << >>
      BY <1>2
    <2>3. Kept(<< >>, D) = << >> /\ Kept(<< >>, U) = << >>
      BY KeptOfNothing, Zenon
    <2>4. Ids(<< >>) = << >>
      BY DEF Ids
    <2>5. Len(handed') \in 0 .. Len(handed')
      BY <1>2
    <2>6. Kept(stream', D) = Ids(Kept(SubSeq(handed', Len(handed') + 1, Len(handed')), U))
      BY <2>1, <2>2, <2>3, <2>4, Zenon
    <2> QED BY <2>1, <2>5, <2>6 DEF StreamSoFar, StreamIsReliableSuffix, Sendable
  <1>4. CASE data_stream_id # NoStream
    <2>1. PICK k \in 0 .. Len(handed) :
             Kept(stream, D) = Ids(Kept(SubSeq(handed, k + 1, Len(handed)), R))
      BY DEF StreamSoFar, StreamIsReliableSuffix, Sendable
    <2> DEFINE a == SubSeq(handed, k + 1, Len(handed))
               b == SubSeq(handed', k + 1, Len(handed'))
    <2>2. a \in Seq(Frame) /\ b = Append(a, f)
      <3>1. a \in Seq(Frame)
        BY SuffixType, Zenon
      <3>2. SubSeq(Append(handed, f), k + 1, Len(handed) + 1) = Append(a, f)
        BY SuffixGrows, Zenon
      <3> QED BY <1>2, <3>1, <3>2, Zenon
    <2>3. \A i \in 1 .. Len(a) : a[i] \in Frame /\ a[i].id # f.id
      <3>1. \A i \in 1 .. Len(a) : \E h \in 1 .. Len(handed) : a[i] = handed[h]
        BY SuffixElements, Zenon
      <3>2. \A i \in 1 .. Len(a) : a[i] \in Frame
        BY <2>2
      <3> HIDE DEF a
      <3> QED BY <3>1, <3>2
    <2>4. Kept(stream, D) = Ids(Kept(a, R))
      BY <2>1
    <2> HIDE DEF a, b, R, U, D
    <2>5. Kept(a, U) \in Seq(Frame)
      BY <2>2, KeptType, Zenon
    <2>6. Kept(a, R) = Kept(a, U)
      <3>1. refused' = refused \/ refused' = refused \cup {f.id}
        BY DEF picoquic_add_to_stream
      <3>2. \A i \in 1 .. Len(a) : a[i] \in R <=> a[i] \in U
        BY <2>3, <3>1 DEF R, U, Sendable, IsReliable
      <3> QED BY <2>2, <3>2, KeptSame
    <2>7. Kept(stream', D) = Ids(Kept(b, U))
      <3>1. CASE f.flag = RELIABLE /\ refused' = refused /\ stream' = Append(stream, f.id)
        <4>1. f \in U
          BY <1>1, <3>1 DEF U, Sendable, IsReliable
        <4>2. Kept(Append(stream, f.id), D) = Append(Kept(stream, D), f.id)
          <5>1. f.id \in Nat /\ f.id \in D
            BY <1>1
          <5>2. ASSUME NEW x \in Nat, x \in D
                PROVE  Kept(Append(stream, x), D) = Append(Kept(stream, D), x)
            BY <5>2, KeptIn
          <5> QED BY <5>1, <5>2, Zenon
        <4>3. Ids(Append(Kept(a, U), f)) = Append(Ids(Kept(a, U)), f.id)
          BY <1>1, <2>5, IdsGrow
        <4>4. Kept(b, U) = Append(Kept(a, U), f)
          <5>1. a \in Seq(Frame)
            BY <2>2
          <5>2. Kept(Append(a, f), U) = Append(Kept(a, U), f)
            BY <4>1, <5>1, KeptIn
          <5> QED BY <2>2, <5>2, Zenon
        <4> QED BY <2>4, <2>6, <3>1, <4>2, <4>3, <4>4, Zenon
      <3>2. CASE f \notin U /\ stream' = stream
        <4>1. Kept(b, U) = Kept(a, U)
          <5>1. a \in Seq(Frame) /\ f \in Frame
            BY <2>2, <1>1
          <5>2. Kept(Append(a, f), U) = Kept(a, U)
            BY <3>2, <5>1, KeptOut
          <5> QED BY <2>2, <5>2, Zenon
        <4> QED BY <2>4, <2>6, <3>2, <4>1, Zenon
      <3>3. CASE f.flag = RELIABLE /\ stream' = stream /\ refused' = refused \cup {f.id}
        <4>1. f \notin U
          BY <3>3 DEF U, Sendable
        <4> QED BY <3>2, <3>3, <4>1
      <3>4. CASE f.flag # RELIABLE
        <4>1. f \notin U /\ stream' = stream
          BY <3>4 DEF U, Sendable, IsReliable
        <4> QED BY <3>2, <4>1
      <3> QED BY <1>4, <3>1, <3>3, <3>4 DEF picoquic_add_to_stream
    <2>8. k \in 0 .. Len(handed')
      BY <1>2
    <2>9. StreamIsReliableSuffix'
      BY <2>7, <2>8 DEF StreamIsReliableSuffix, Sendable, b, U, D
    <2> QED BY <1>4, <2>9 DEF StreamSoFar
  <1> QED BY <1>3, <1>4

\* A FIN is no data, and no frame has its number.
LEMMA StreamFin ==
    ASSUME stream \in Seq(Nat), StreamSoFar, data_stream_id # NoStream,
           NEW taken \in BOOLEAN, picoquic_add_to_stream(FIN, taken),
           UNCHANGED <<handed, data_stream_id>>
    PROVE  StreamSoFar'
  <1> DEFINE D == Nat \ {FIN}
  <1>1. FIN \in Nat /\ FIN \notin D
    BY DEF FIN
  <1>2. Sendable' = Sendable
    <2>1. \A f \in Frame : f.id # FIN
      BY FrameFields DEF FIN
    <2> QED BY <2>1 DEF Sendable, picoquic_add_to_stream
  <1> HIDE DEF D
  <1>3. Kept(stream', D) = Kept(stream, D)
    <2>1. Kept(Append(stream, FIN), D) = Kept(stream, D)
      BY <1>1, KeptOut, Zenon
    <2> QED BY <2>1, Zenon DEF picoquic_add_to_stream
  <1>4. StreamIsReliableSuffix'
    <2>1. PICK k \in 0 .. Len(handed) :
             Kept(stream, D) = Ids(Kept(SubSeq(handed, k + 1, Len(handed)), Sendable))
      BY DEF StreamSoFar, StreamIsReliableSuffix, D, Sendable
    <2>2. Kept(stream', D) = Ids(Kept(SubSeq(handed', k + 1, Len(handed')), Sendable'))
      BY <1>2, <1>3, <2>1, Zenon
    <2>3. k \in 0 .. Len(handed')
      BY Zenon
    <2> QED BY <2>2, <2>3 DEF StreamIsReliableSuffix, Sendable, D
  <1> QED BY <1>4 DEF StreamSoFar

\* Only a send and a FIN change the stream.
LEMMA StreamStep ==
    ASSUME SessionInv, PushedInOrder, PortsInOrder, StreamSoFar, [Next]_vars
    PROVE  StreamSoFar'
  <1> USE DEF vars, readerVars, sharedVars, netVars, peerVars, outsideVars, historyVars
  <1>1. ASSUME UNCHANGED <<handed, stream, refused>>,
               data_stream_id' = NoStream => data_stream_id = NoStream
        PROVE  StreamSoFar'
    BY <1>1 DEF StreamSoFar, StreamIsReliableSuffix
  <1>t. /\ handed \in Seq(Frame) /\ batch \in Seq(Frame) /\ stream \in Seq(Nat)
    BY DEF SessionInv, TypeOK
  <1>2. CASE Reader
    BY <1>1, <1>2 DEF Reader, OnOutput, Wake, OnOutputEof, EofWake
  <1>3. CASE WakeUp \/ BeginIo \/ LoopCallback \/ PumpDrain \/ PumpBatchEnd \/ PumpLoadEof
    BY <1>1, <1>3 DEF WakeUp, BeginIo, LoopCallback, PumpDrain, PumpBatchEnd, PumpLoadEof
  <1>4. ASSUME NEW allocated \in BOOLEAN, PumpSend(allocated) PROVE StreamSoFar'
    <2>0. PICK f : f = Head(batch)
      OBVIOUS
    <2>1. /\ batch # << >> /\ handed' = Append(handed, f) /\ data_stream_id' = data_stream_id
      BY <1>4, <2>0 DEF PumpSend
    <2>2. f \in Frame
      BY <1>t, <2>0, <2>1, HeadTailProperties
    <2>3. IF f.flag = RELIABLE /\ data_stream_id # NoStream
          THEN \E taken \in BOOLEAN : picoquic_add_to_stream(f.id, taken)
          ELSE UNCHANGED <<stream, refused>>
      BY <1>4, <2>0, Zenon DEF PumpSend, SendByFlag, peer_send_stream, peer_send_datagram
    <2>4. (\A h \in 1 .. Len(handed) : handed[h].id < f.id) /\ f.id \in Nat \ {0}
      BY <2>0, <2>1, <2>2, HandedInOrder, FrameFields
    <2>5. \A h \in 1 .. Len(handed) : handed[h].id # f.id
      BY <2>4
    <2>6. f.id \notin refused
      BY <2>4, <2>5 DEF PortsInOrder, Handed, FIN
    <2> QED BY <1>t, <2>1, <2>2, <2>3, <2>5, <2>6, StreamSend
  <1>5. CASE PumpFin
    <2>1. UNCHANGED <<handed, data_stream_id>>
      BY <1>5 DEF PumpFin
    <2>2. CASE data_stream_id = NoStream
      BY <1>1, <1>5, <2>1, <2>2 DEF PumpFin
    <2>3. CASE data_stream_id # NoStream
      <3>1. picoquic_add_to_stream(FIN, ~stopped) /\ (~stopped) \in BOOLEAN
        BY <1>5, <2>3 DEF PumpFin
      <3> QED BY <1>t, <2>1, <2>3, <3>1, StreamFin
    <2> QED BY <2>2, <2>3
  <1>6. ASSUME NEW s \in Streams \cup {ControlStream},
               NEW nonempty \in BOOLEAN, NEW fin \in BOOLEAN, NEW accepted \in BOOLEAN,
               PostData(s, nonempty, fin, accepted)
        PROVE  StreamSoFar'
    BY <1>1, <1>6, StreamsAssumption DEF PostData, BoundStream
  <1>7. CASE StreamStops \/ \E nonempty, accepted \in BOOLEAN : PostDatagram(nonempty, accepted)
    BY <1>1, <1>7 DEF StreamStops, PostDatagram
  <1>8. CASE \E room \in BOOLEAN : ProvideDatagram(room)
    BY <1>1, <1>8 DEF ProvideDatagram
  <1>9. CASE UNCHANGED vars
    BY <1>1, <1>9
  <1> QED BY <1>2, <1>3, <1>4, <1>5, <1>6, <1>7, <1>8, <1>9 DEF Next, Pump, Io

\* A message that the pipe takes is written behind the earlier ones.
LEMMA WrittenGrows ==
    ASSUME written \in Seq(Message), peerEvents \in Nat, peerEvents' = peerEvents + 1,
           \A i \in 1 .. Len(written) : written[i].id <= peerEvents,
           \A i, j \in 1 .. Len(written) : i < j => written[i].id < written[j].id,
           NEW m \in Message, m.id = peerEvents + 1,
           written' = written \/ written' = Append(written, m)
    PROVE  /\ \A i \in 1 .. Len(written)' : written'[i].id <= peerEvents'
           /\ \A i, j \in 1 .. Len(written)' : i < j => written'[i].id < written'[j].id
           /\ \A x : (\E j \in 1 .. Len(written) : written[j] = x)
                        => \E j \in 1 .. Len(written)' : written'[j] = x
           /\ written' = Append(written, m) => \E j \in 1 .. Len(written)' : written'[j] = m
  <1>1. \A i \in 1 .. Len(written) : written[i].id \in Nat
    <2>1. \A i \in 1 .. Len(written) : written[i] \in Message
      OBVIOUS
    <2> QED BY <2>1, BoundsAssumption DEF Message
  <1>2. CASE written' = written
    <2>1. \A i \in 1 .. Len(written)' : written'[i].id <= peerEvents'
      BY <1>1, <1>2
    <2>2. written' # Append(written, m)
      <3>1. Len(Append(written, m)) = Len(written) + 1 /\ Len(written) \in Nat
        BY Grown
      <3> QED BY <1>2, <3>1
    <2> QED BY <1>2, <2>1, <2>2
  <1>3. CASE written' = Append(written, m)
    <2>1. /\ Len(written)' = Len(written) + 1 /\ Len(written) \in Nat
          /\ \A i \in 1 .. Len(written) : written'[i] = written[i]
          /\ written'[Len(written) + 1] = m
      BY <1>3, Grown
    <2>2. /\ \A i \in 1 .. Len(written)' : i = Len(written) + 1 \/ i \in 1 .. Len(written)
          /\ \A i \in 1 .. Len(written) : i \in 1 .. Len(written)'
          /\ Len(written) + 1 \in 1 .. Len(written)'
      BY <2>1
    <2>3. ASSUME NEW i \in 1 .. Len(written)' PROVE written'[i].id <= peerEvents'
      <3>1. CASE i = Len(written) + 1
        BY <2>1, <3>1
      <3>2. CASE i \in 1 .. Len(written)
        BY <1>1, <2>1, <3>2
      <3> QED BY <2>2, <3>1, <3>2
    <2>4. ASSUME NEW i \in 1 .. Len(written)', NEW j \in 1 .. Len(written)', i < j
          PROVE  written'[i].id < written'[j].id
      <3>1. i \in 1 .. Len(written)
        BY <2>1, <2>4
      <3>2. CASE j = Len(written) + 1
        <4>1. written'[j].id = peerEvents + 1
          BY <2>1, <3>2
        <4>2. written'[i].id = written[i].id /\ written[i].id \in Nat /\ written[i].id <= peerEvents
          BY <1>1, <2>1, <3>1
        <4> QED BY <4>1, <4>2
      <3>3. CASE j \in 1 .. Len(written)
        BY <2>1, <2>4, <3>1, <3>3
      <3> QED BY <2>2, <3>2, <3>3
    <2>5. \A x : (\E j \in 1 .. Len(written) : written[j] = x)
                    => \E j \in 1 .. Len(written)' : written'[j] = x
      BY <2>1, <2>2
    <2> QED BY <2>1, <2>2, <2>3, <2>4, <2>5
  <1> QED BY <1>2, <1>3

\* The input is closed by the first FIN of any stream, and until then takes
\* what the peer sends.
LEMMA PeerStep ==
    ASSUME SessionInv, PeerSide, [Next]_vars
    PROVE  PeerSide'
  <1> USE DEF vars, readerVars, sharedVars, netVars, peerVars, outsideVars, historyVars
  <1>1. ASSUME UNCHANGED <<written, peerEvents, child_input_closed, stdin_fd, peerFin, posted>>
        PROVE  PeerSide'
    BY <1>1 DEF PeerSide
  <1>t. /\ written \in Seq(Message) /\ peerEvents \in Nat /\ peerFin \subseteq Streams
        /\ posted \in Seq([from : Streams, id : 1 .. MaxPeerEvents])
        /\ child_input_closed \in BOOLEAN /\ stdin_fd \in BOOLEAN
    BY DEF SessionInv, TypeOK
  <1>w. /\ \A i \in 1 .. Len(written) : written[i].id <= peerEvents
        /\ \A i, j \in 1 .. Len(written) : i < j => written[i].id < written[j].id
    BY DEF PeerSide
  <1>2. CASE Reader
    BY <1>1, <1>2 DEF Reader, OnOutput, Wake, OnOutputEof, EofWake
  <1>3. CASE WakeUp \/ BeginIo \/ LoopCallback
    BY <1>1, <1>3 DEF WakeUp, BeginIo, LoopCallback
  <1>4. CASE Pump
    BY <1>1, <1>4 DEF Pump, PumpDrain, PumpSend, PumpBatchEnd, PumpLoadEof, PumpFin
  <1>5. ASSUME NEW s \in Streams \cup {ControlStream},
               NEW nonempty \in BOOLEAN, NEW fin \in BOOLEAN, NEW accepted \in BOOLEAN,
               PostData(s, nonempty, fin, accepted)
        PROVE  PeerSide'
    <2>0. PICK m : m = [flag |-> RELIABLE, id |-> peerEvents + 1]
      OBVIOUS
    <2>a. peerEvents < MaxPeerEvents /\ peerEvents' = peerEvents + 1 /\ s \notin peerFin
      BY <1>5 DEF PostData
    <2>b. peerEvents + 1 \in 1 .. MaxPeerEvents
      BY <1>t, <2>a, BoundsAssumption
    <2>1. m \in Message /\ m.id = peerEvents + 1 /\ peerEvents' = peerEvents + 1 /\ s \notin peerFin
      BY <2>0, <2>a, <2>b DEF Message
    <2>2. CASE s = ControlStream
      <3>1. UNCHANGED <<written, posted, child_input_closed, stdin_fd, peerFin>>
        BY <1>5, <2>2 DEF PostData
      <3>2. /\ \A i \in 1 .. Len(written)' : written'[i].id <= peerEvents'
            /\ \A i, j \in 1 .. Len(written)' : i < j => written'[i].id < written'[j].id
        BY <1>t, <1>w, <2>1, <3>1, WrittenGrows
      <3> QED BY <3>1, <3>2 DEF PeerSide
    <2>3. CASE s # ControlStream
      <3>1. /\ written' = IF ~child_input_closed /\ nonempty /\ accepted /\ stdin_fd
                          THEN Append(written, m) ELSE written
            /\ posted' = IF nonempty /\ accepted
                         THEN Append(posted, [from |-> s, id |-> peerEvents + 1]) ELSE posted
            /\ IF fin THEN /\ peerFin' = peerFin \cup {s}
                           /\ IF child_input_closed
                              THEN UNCHANGED <<child_input_closed, stdin_fd>>
                              ELSE child_input_closed' = TRUE /\ stdin_fd' = FALSE
               ELSE UNCHANGED <<child_input_closed, stdin_fd, peerFin>>
        BY <1>5, <2>0, <2>3 DEF PostData, deliver_to_child, wtd_session_deliver_fin
      <3>2. /\ \A i \in 1 .. Len(written)' : written'[i].id <= peerEvents'
            /\ \A i, j \in 1 .. Len(written)' : i < j => written'[i].id < written'[j].id
            /\ \A x : (\E j \in 1 .. Len(written) : written[j] = x)
                         => \E j \in 1 .. Len(written)' : written'[j] = x
            /\ written' = Append(written, m) => \E j \in 1 .. Len(written)' : written'[j] = m
        <4>1. written' = written \/ written' = Append(written, m)
          BY <3>1
        <4> QED BY <1>t, <1>w, <2>1, <4>1, WrittenGrows
      <3>3. /\ child_input_closed' = (peerFin' # {}) /\ stdin_fd' = ~child_input_closed'
            /\ peerFin \subseteq peerFin'
        BY <1>t, <3>1 DEF PeerSide
      <3>4. ASSUME NEW i \in 1 .. Len(posted)', peerFin' \subseteq {posted'[i].from}
            PROVE  \E j \in 1 .. Len(written)' : written'[j] = [flag |-> RELIABLE, id |-> posted'[i].id]
        <4>1. CASE posted' = posted
          <5>1. i \in 1 .. Len(posted) /\ peerFin \subseteq {posted[i].from}
            BY <3>3, <3>4, <4>1
          <5>2. \E j \in 1 .. Len(written) : written[j] = [flag |-> RELIABLE, id |-> posted[i].id]
            BY <5>1 DEF PeerSide
          <5> QED BY <3>2, <4>1, <5>2
        <4>2. CASE nonempty /\ accepted /\ posted' = Append(posted, [from |-> s, id |-> peerEvents + 1])
          <5> DEFINE P == [from : Streams, id : 1 .. MaxPeerEvents]
                     q == [from |-> s, id |-> peerEvents + 1]
          <5>1. q \in P
            BY <1>5, <1>t, <2>3, BoundsAssumption DEF PostData
          <5>2. posted \in Seq(P)
            BY <1>t
          <5>3. q.from = s /\ q.id = peerEvents + 1
            OBVIOUS
          <5> HIDE DEF q, P
          <5>4. /\ Len(posted)' = Len(posted) + 1 /\ Len(posted) \in Nat
                /\ \A l \in 1 .. Len(posted) : posted'[l] = posted[l]
                /\ posted'[Len(posted) + 1] = q
            BY <4>2, <5>1, <5>2, Grown DEF q
          <5>5. CASE i = Len(posted) + 1
            <6>1. posted'[i].from = s /\ posted'[i].id = peerEvents + 1
              BY <5>3, <5>4, <5>5
            <6>2. peerFin = {}
              BY <2>1, <3>3, <3>4, <6>1
            <6>3. ~child_input_closed /\ stdin_fd
              BY <1>t, <6>2 DEF PeerSide
            <6>4. written' = Append(written, m)
              BY <3>1, <4>2, <6>3
            <6> QED BY <2>0, <3>2, <6>1, <6>4
          <5>6. CASE i # Len(posted) + 1
            <6>1. i \in 1 .. Len(posted)
              BY <5>4, <5>6
            <6>2. posted'[i] = posted[i] /\ peerFin \subseteq {posted[i].from}
              BY <3>3, <3>4, <5>4, <6>1
            <6>3. \E j \in 1 .. Len(written) : written[j] = [flag |-> RELIABLE, id |-> posted[i].id]
              BY <6>1, <6>2 DEF PeerSide
            <6> QED BY <3>2, <6>2, <6>3
          <5> QED BY <5>5, <5>6
        <4> QED BY <3>1, <4>1, <4>2
      <3> QED BY <3>2, <3>3, <3>4 DEF PeerSide
    <2> QED BY <2>2, <2>3
  <1>6. ASSUME NEW nonempty \in BOOLEAN, NEW accepted \in BOOLEAN,
               PostDatagram(nonempty, accepted)
        PROVE  PeerSide'
    <2>0. PICK m : m = [flag |-> UNRELIABLE, id |-> peerEvents + 1]
      OBVIOUS
    <2>a. peerEvents < MaxPeerEvents /\ peerEvents' = peerEvents + 1
      BY <1>6 DEF PostDatagram
    <2>b. peerEvents + 1 \in 1 .. MaxPeerEvents
      BY <1>t, <2>a, BoundsAssumption
    <2>1. m \in Message /\ m.id = peerEvents + 1 /\ peerEvents' = peerEvents + 1
      BY <2>0, <2>a, <2>b DEF Message
    <2>2. /\ written' = written \/ written' = Append(written, m)
          /\ UNCHANGED <<posted, child_input_closed, stdin_fd, peerFin>>
      BY <1>6, <2>0 DEF PostDatagram, deliver_to_child
    <2>3. /\ \A i \in 1 .. Len(written)' : written'[i].id <= peerEvents'
          /\ \A i, j \in 1 .. Len(written)' : i < j => written'[i].id < written'[j].id
          /\ \A x : (\E j \in 1 .. Len(written) : written[j] = x)
                       => \E j \in 1 .. Len(written)' : written'[j] = x
      BY <1>t, <1>w, <2>1, <2>2, WrittenGrows, Zenon
    <2>4. ASSUME NEW i \in 1 .. Len(posted'), peerFin' \subseteq {posted'[i].from}
          PROVE  \E j \in 1 .. Len(written') : written'[j] = [flag |-> RELIABLE, id |-> posted'[i].id]
      <3>1. \E j \in 1 .. Len(written) : written[j] = [flag |-> RELIABLE, id |-> posted[i].id]
        BY <2>2, <2>4 DEF PeerSide
      <3> QED BY <2>2, <2>3, <3>1
    <2> QED BY <2>2, <2>3, <2>4 DEF PeerSide
  <1>7. CASE StreamStops \/ \E room \in BOOLEAN : ProvideDatagram(room)
    BY <1>1, <1>7 DEF StreamStops, ProvideDatagram
  <1>8. CASE UNCHANGED vars
    BY <1>1, <1>8
  <1> QED BY <1>2, <1>3, <1>4, <1>5, <1>6, <1>7, <1>8 DEF Next, Io

\* Nothing is ordered wrongly before anything has happened.
LEMMA OrderInit == Init => OrderInv
  <1> SUFFICES ASSUME Init PROVE OrderInv
    OBVIOUS
  <1>1. /\ pushed = << >> /\ handed = << >> /\ provided = << >> /\ dgrams = << >>
        /\ stream = << >> /\ written = << >> /\ posted = << >>
        /\ peerFin = {} /\ refused = {} /\ child_input_closed = FALSE /\ stdin_fd = TRUE
    BY DEF Init
  <1>2. Len(<< >>) = 0 /\ \A i \in 1 .. 0 : FALSE
    OBVIOUS
  <1>3. PushedInOrder
    BY <1>1, <1>2 DEF PushedInOrder
  <1>4. PortsInOrder
    BY <1>1, <1>2 DEF PortsInOrder, Increasing
  <1>5. StreamSoFar
    <2> DEFINE R == {f \in Frame : IsReliable(f) /\ f.id \notin refused}
    <2>1. Kept(stream, Nat \ {FIN}) = << >> /\ Kept(<< >>, R) = << >>
      BY <1>1, KeptOfNothing
    <2>2. SubSeq(handed, 0 + 1, Len(handed)) = << >>
      BY <1>1
    <2>3. Ids(<< >>) = << >>
      BY DEF Ids
    <2>4. 0 \in 0 .. Len(handed)
      BY <1>1, <1>2
    <2>5. Kept(stream, Nat \ {FIN}) = Ids(Kept(SubSeq(handed, 0 + 1, Len(handed)), R))
      BY <2>1, <2>2, <2>3
    <2> QED BY <1>1, <2>4, <2>5 DEF StreamSoFar, StreamIsReliableSuffix
  <1>6. PeerSide
    BY <1>1, <1>2 DEF PeerSide
  <1> QED BY <1>3, <1>4, <1>5, <1>6 DEF OrderInv

\* What the ports and the child see stays in order, whatever the two threads
\* do.
LEMMA OrderInvariant == Spec => []OrderInv
  <1>1. ASSUME SessionInv, OrderInv, [Next]_vars PROVE OrderInv'
    BY <1>1, PushedStep, PortsStep, StreamStep, PeerStep DEF OrderInv
  <1> QED BY <1>1, OrderInit, SessionInvariant, PTL DEF Spec

\* From the binding of a stream on, the stream carries every reliable frame
\* handed over that picoquic did not refuse, in order and once, and nothing
\* else.
THEOREM StreamIsSuffix == Spec => []StreamIsReliableSuffix
  <1>1. OrderInv => StreamIsReliableSuffix
    BY DEF OrderInv, StreamSoFar
  <1> QED BY <1>1, OrderInvariant, PTL

\* Two growing sequences of numbers, the second above the first.
LEMMA IncreasingConcat ==
    ASSUME NEW s \in Seq(Nat), NEW t \in Seq(Nat), Increasing(s), Increasing(t),
           \A i \in 1 .. Len(s) : \A j \in 1 .. Len(t) : s[i] < t[j]
    PROVE  Increasing(s \o t)
  <1> DEFINE c == s \o t
  <1>1. /\ Len(c) = Len(s) + Len(t) /\ Len(s) \in Nat /\ Len(t) \in Nat
        /\ \A i \in 1 .. Len(s) + Len(t) : c[i] = IF i <= Len(s) THEN s[i] ELSE t[i - Len(s)]
    BY ConcatProperties
  <1> HIDE DEF c
  <1>2. ASSUME NEW i \in 1 .. Len(s) + Len(t), NEW j \in 1 .. Len(s) + Len(t), i < j
        PROVE  c[i] < c[j]
    <2>1. CASE j <= Len(s)
      <3>1. i \in 1 .. Len(s) /\ j \in 1 .. Len(s) /\ c[i] = s[i] /\ c[j] = s[j]
        BY <1>1, <1>2, <2>1
      <3> QED BY <1>2, <3>1 DEF Increasing
    <2>2. CASE ~(j <= Len(s)) /\ i <= Len(s)
      <3>1. i \in 1 .. Len(s) /\ j - Len(s) \in 1 .. Len(t) /\ c[i] = s[i] /\ c[j] = t[j - Len(s)]
        BY <1>1, <1>2, <2>2
      <3> QED BY <3>1
    <2>3. CASE ~(j <= Len(s)) /\ ~(i <= Len(s))
      <3>1. /\ i - Len(s) \in 1 .. Len(t) /\ j - Len(s) \in 1 .. Len(t)
            /\ i - Len(s) < j - Len(s)
            /\ c[i] = t[i - Len(s)] /\ c[j] = t[j - Len(s)]
        BY <1>1, <1>2, <2>3
      <3> QED BY <3>1 DEF Increasing
    <2> QED BY <2>1, <2>2, <2>3
  <1> QED BY <1>1, <1>2 DEF Increasing, c

\* Datagrams leave in the order the child wrote them, each at most once, and
\* none is also on the stream.
THEOREM DatagramsAreOrdered == Spec => []DatagramsInOrder
  <1>1. ASSUME SessionInv, OrderInv PROVE DatagramsInOrder
    <2>1. PushedInOrder /\ PortsInOrder
      BY <1>1 DEF OrderInv
    <2>2. provided \in Seq(Nat) /\ dgrams \in Seq(Nat) /\ handed \in Seq(Frame)
      BY <1>1 DEF SessionInv, TypeOK
    <2>3. Increasing(provided \o dgrams)
      BY <2>1, <2>2, IncreasingConcat DEF PortsInOrder
    <2>4. ASSUME NEW i \in 1 .. Len(provided), NEW j \in 1 .. Len(stream)
          PROVE  provided[i] # stream[j]
      <3>1. /\ provided[i] \in Handed(UNRELIABLE)
            /\ stream[j] = FIN \/ stream[j] \in Handed(RELIABLE)
        BY <2>1 DEF PortsInOrder
      <3>2. PICK h \in 1 .. Len(handed) : handed[h].flag = UNRELIABLE /\ handed[h].id = provided[i]
        BY <3>1 DEF Handed
      <3>3. CASE stream[j] = FIN
        <4>1. handed[h] \in Frame
          BY <2>2
        <4>2. handed[h].id # 0
          BY <4>1, FrameFields
        <4> QED BY <3>2, <3>3, <4>2 DEF FIN
      <3>4. CASE stream[j] \in Handed(RELIABLE)
        <4>1. PICK k \in 1 .. Len(handed) : handed[k].flag = RELIABLE /\ handed[k].id = stream[j]
          BY <3>4 DEF Handed
        <4>2. h # k
          BY <3>2, <4>1 DEF RELIABLE, UNRELIABLE
        <4>3. handed[h] \in Frame /\ handed[k] \in Frame /\ h \in Nat /\ k \in Nat
          BY <2>2
        <4>4. handed[h].id \in Nat /\ handed[k].id \in Nat
          BY <4>3, FrameFields
        <4>5. h < k \/ k < h
          BY <4>2, <4>3
        <4>6. handed[h].id < handed[k].id \/ handed[k].id < handed[h].id
          BY <1>1, <2>1, <4>5, HandedInOrder
        <4> QED BY <3>2, <4>1, <4>4, <4>6
      <3> QED BY <3>1, <3>3, <3>4
    <2> QED BY <2>3, <2>4 DEF DatagramsInOrder
  <1> QED BY <1>1, SessionInvariant, OrderInvariant, PTL

\* The peer's messages reach the child in order, and complete up to the first
\* FIN of another stream, as long as the pipe takes them.
THEOREM PeerStreamIsDelivered == Spec => []PeerStreamDelivered
  <1>1. ASSUME SessionInv, OrderInv PROVE PeerStreamDelivered
    <2>1. PeerSide /\ written \in Seq(Message)
      BY <1>1 DEF OrderInv, SessionInv, TypeOK
    <2>2. Len(Ids(written)) = Len(written) /\ \A i \in 1 .. Len(written) : Ids(written)[i] = written[i].id
      BY <2>1 DEF Ids
    <2>3. Increasing(Ids(written))
      BY <2>1, <2>2 DEF Increasing, PeerSide
    <2> QED BY <2>1, <2>3 DEF PeerStreamDelivered, PeerSide
  <1> QED BY <1>1, SessionInvariant, OrderInvariant, PTL
=============================================================================
