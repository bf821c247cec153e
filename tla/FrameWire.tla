------------------------------ MODULE FrameWire ------------------------------
(***************************************************************************)
(* The frame decoder on an arbitrary byte stream that arrives one byte at  *)
(* a time: wtd_frame_decode is asked again after every byte, as reader_main*)
(* asks it after every read. Any string of bytes up to MaxLen can arrive.  *)
(***************************************************************************)
EXTENDS FrameCodec

CONSTANT MaxLen    \* bound: bytes that arrive

ASSUME MaxLenAssumption == MaxLen \in Nat

VARIABLE received

WireInit == received = << >>

\* external: any byte the child may write
Receive(b) ==
    /\ Len(received) < MaxLen
    /\ received' = Append(received, b)

WireNext == \E b \in Byte : Receive(b)

WireSpec == WireInit /\ [][WireNext]_received

-----------------------------------------------------------------------------
Decoded == wtd_frame_decode(received)

\* k bytes can hold the length n.
Fits(n, k) == n < Limit(k)

\* The decoder accepts a buffer exactly when it starts with a frame of the
\* wire format, in any of the four varint forms, shortest or not, and then
\* reports that frame's flag, payload and size.
AcceptsTheFormat ==
    LET starts(flag, k, n) ==
            /\ Len(received) >= 1 + k + n
            /\ LET payload == SubSeq(received, k + 2, 1 + k + n)
               IN  SubSeq(received, 1, 1 + k + n) = FrameBytes(flag, payload, k)
    IN  /\ Decoded.st = OK =>
              /\ Decoded.flag \in {RELIABLE, UNRELIABLE}
              /\ Len(Decoded.payload) <= MaxPayload
              /\ \E k \in {1, 2, 4, 8} :
                 /\ Decoded.consumed = 1 + k + Len(Decoded.payload)
                 /\ SubSeq(received, 1, Decoded.consumed) =
                       FrameBytes(Decoded.flag, Decoded.payload, k)
        /\ \A flag \in {RELIABLE, UNRELIABLE}, k \in {1, 2, 4, 8}, n \in 0 .. MaxPayload :
              Fits(n, k) /\ starts(flag, k, n) =>
                 Decoded.st = OK /\ Decoded.flag = flag /\ Len(Decoded.payload) = n

\* What decides is never taken back: once the decoder has accepted or refused,
\* more bytes change nothing. So the result does not depend on how the child's
\* output is cut into reads.
DecisionIsFinal == [][Decoded.st # INCOMPLETE => wtd_frame_decode(received') = Decoded]_received

\* A decoded frame encoded again decodes to the same frame and is never longer
\* than what was received: the encoder uses the shortest form, and a buffer of
\* payload + 9 bytes (deliver_to_child) is always enough.
ReencodesShorter ==
    Decoded.st = OK =>
        LET e == wtd_frame_encode(Decoded.flag, Decoded.payload, Len(Decoded.payload) + 9)
            d == wtd_frame_decode(e.bytes)
        IN  /\ e.st = OK
            /\ Len(e.bytes) <= Decoded.consumed
            /\ d.st = OK /\ d.flag = Decoded.flag /\ d.payload = Decoded.payload
            /\ d.consumed = Len(e.bytes)
=============================================================================
