----------------------------- MODULE VarintWire -----------------------------
(***************************************************************************)
(* The length varint alone, for values around every boundary of the code:  *)
(* one value in one of the forms that hold it, its bytes arriving one by   *)
(* one at varint_decode.                                                   *)
(***************************************************************************)
EXTENDS FrameCodec

CONSTANTS
    Values,     \* the lengths tried
    Forms       \* the forms tried, of {1, 2, 4, 8} bytes

VARIABLES v, form, avail

varintVars == <<v, form, avail>>

VarintInit ==
    /\ v \in Values
    /\ form \in {k \in Forms : v < Limit(k)}
    /\ avail = 0

\* external: the writer's next byte arrives
ByteArrives ==
    /\ avail < form
    /\ avail' = avail + 1
    /\ UNCHANGED <<v, form>>

VarintNext == ByteArrives

VarintSpec == VarintInit /\ [][VarintNext]_varintVars

-----------------------------------------------------------------------------
\* Every form of every value is understood exactly when its last byte is
\* there, and means that value. The encoder writes bytes, in the shortest form
\* that holds the value, and varint_size announces that length.
VarintRoundTrip ==
    LET e == wtd_frame_encode_varint(v)
    IN  /\ avail > 0 =>
              varint_decode(SubSeq(VarintForm(v, form), 1, avail)) =
                 IF avail < form THEN [len |-> 0, value |-> 0] ELSE [len |-> form, value |-> v]
        /\ Len(e) = varint_size(v)
        /\ Len(e) <= form
        /\ e = VarintForm(v, Len(e))
        /\ \A i \in 1 .. Len(e) : e[i] < Weight(1)
        /\ varint_decode(e) = [len |-> Len(e), value |-> v]
=============================================================================
