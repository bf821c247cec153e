------------------------------ MODULE FrameCodec ------------------------------
(***************************************************************************)
(* The wire format of core/frame.c: a flag byte, a QUIC-style varint with  *)
(* the payload length, the payload.                                        *)
(*                                                                         *)
(* The code works on bytes of 8 bits, whose two top bits select the length *)
(* of a varint. Q is the number of values the other bits of a byte can     *)
(* take: 64 in the code. A smaller Q (a byte of Q*4 values) keeps every    *)
(* branch of the code and brings the long forms within TLC's reach.        *)
(***************************************************************************)
EXTENDS Naturals, Sequences

CONSTANTS
    Q,            \* values of the low part of a byte; 64 in the code
    MaxPayload    \* WTD_FRAME_MAX_PAYLOAD

ASSUME CodecAssumption == Q \in Nat \ {0} /\ MaxPayload \in Nat

Byte == 0 .. 4 * Q - 1

\* What a byte counts that has n bytes behind it: (4 * Q)^n, which the provers
\* know nothing of.
Weight(n) ==
    LET weight[i \in 0 .. n] == IF i = 0 THEN 1 ELSE weight[i - 1] * (4 * Q)
    IN  weight[n]

RELIABLE == 0
UNRELIABLE == 1

OK == "OK"
INCOMPLETE == "INCOMPLETE"
ERR_RESERVED == "ERR_RESERVED"
ERR_TOO_BIG == "ERR_TOO_BIG"
ERR_BUF_TOO_SMALL == "ERR_BUF_TOO_SMALL"

\* The values below Limit(k) fit a varint of k bytes: 2^6, 2^14, 2^30, 2^62.
Limit(k) == Q * Weight(k - 1)

\* Faulty: the limit itself still takes the short form.
VarintSizeOffByOne(v) ==
    IF v <= Limit(1) THEN 1 ELSE IF v <= Limit(2) THEN 2 ELSE IF v <= Limit(4) THEN 4 ELSE 8

varint_size(v) ==
    IF v < Limit(1) THEN 1 ELSE IF v < Limit(2) THEN 2 ELSE IF v < Limit(4) THEN 4 ELSE 8

\* The value of the two top bits of the first byte of a k-byte varint.
Prefix(k) == IF k = 1 THEN 0 ELSE IF k = 2 THEN 1 ELSE IF k = 4 THEN 2 ELSE 3

\* The length of a varint whose first byte has this prefix.
FormLen(prefix) ==
    IF prefix = 0 THEN 1 ELSE IF prefix = 1 THEN 2 ELSE IF prefix = 2 THEN 4 ELSE 8

\* v in k bytes, most significant first, the prefix in the first one. The
\* encoder uses the shortest k; any k that holds v is understood.
VarintForm(v, k) ==
    [i \in 1 .. k |-> ((v \div Weight(k - i)) % Weight(1)) + (IF i = 1 THEN Prefix(k) * Q ELSE 0)]

\* Returns no bytes for a value that no form can hold.
wtd_frame_encode_varint(v) ==
    LET k == varint_size(v)
    IN  IF k = 8 /\ v >= Limit(8) THEN << >> ELSE VarintForm(v, k)

\* Faulty: the two bits of the prefix are not masked.
BigEndianUnmasked(buf, k) ==
    LET value[i \in 0 .. k] == IF i = 0 THEN 0 ELSE value[i - 1] * Weight(1) + buf[i]
    IN  value[k]

\* The k-byte big-endian number at the start of buf, without its prefix.
BigEndian(buf, k) ==
    LET value[i \in 0 .. k] ==
            IF i = 0 THEN 0
            ELSE value[i - 1] * Weight(1) + (IF i = 1 THEN buf[1] % Q ELSE buf[i])
    IN  value[k]

\* Needs Len(buf) >= 1. A length of 0: the varint is not all there.
varint_decode(buf) ==
    LET k == FormLen(buf[1] \div Q)
    IN  IF Len(buf) < k THEN [len |-> 0, value |-> 0]
        ELSE [len |-> k, value |-> BigEndian(buf, k)]

wtd_frame_encode(flag, payload, out_size) ==
    LET plen == Len(payload)
        needed == 1 + varint_size(plen) + plen
    IN  IF flag > 1 THEN [st |-> ERR_RESERVED, bytes |-> << >>]
        ELSE IF plen > MaxPayload THEN [st |-> ERR_TOO_BIG, bytes |-> << >>]
        ELSE IF out_size < needed THEN [st |-> ERR_BUF_TOO_SMALL, bytes |-> << >>]
        ELSE [st |-> OK, bytes |-> << flag >> \o wtd_frame_encode_varint(plen) \o payload]

\* external: the bytes of one frame as another program's encoder writes them,
\* the length in a varint of k bytes, shortest or not.
FrameBytes(flag, payload, k) == << flag >> \o VarintForm(Len(payload), k) \o payload

Undecoded(st) == [st |-> st, consumed |-> 0, flag |-> 0, payload |-> << >>]

\* Faulty: the reserved bits of the flag are not looked at.
DecodeReserved(buf) ==
    IF Len(buf) < 2 THEN Undecoded(INCOMPLETE)
    ELSE LET v == varint_decode(Tail(buf))
             total == 1 + v.len + v.value
         IN  IF v.len = 0 THEN Undecoded(INCOMPLETE)
             ELSE IF v.value > MaxPayload THEN Undecoded(ERR_TOO_BIG)
             ELSE IF Len(buf) < total THEN Undecoded(INCOMPLETE)
             ELSE [st |-> OK, consumed |-> total, flag |-> buf[1],
                   payload |-> SubSeq(buf, 2 + v.len, total)]

\* Faulty: takes the rest of the buffer when the payload is not all there.
DecodeShortPayload(buf) ==
    IF Len(buf) < 1 THEN Undecoded(INCOMPLETE)
    ELSE IF buf[1] > 1 THEN Undecoded(ERR_RESERVED)
    ELSE IF Len(buf) < 2 THEN Undecoded(INCOMPLETE)
    ELSE LET v == varint_decode(Tail(buf))
             total == 1 + v.len + v.value
         IN  IF v.len = 0 THEN Undecoded(INCOMPLETE)
             ELSE IF v.value > MaxPayload THEN Undecoded(ERR_TOO_BIG)
             ELSE [st |-> OK, consumed |-> Len(buf), flag |-> buf[1],
                   payload |-> SubSeq(buf, 2 + v.len, Len(buf))]

wtd_frame_decode(buf) ==
    IF Len(buf) < 1 THEN Undecoded(INCOMPLETE)
    ELSE IF buf[1] > 1 THEN Undecoded(ERR_RESERVED)
    ELSE IF Len(buf) < 2 THEN Undecoded(INCOMPLETE)
    ELSE LET v == varint_decode(Tail(buf))
             total == 1 + v.len + v.value
         IN  IF v.len = 0 THEN Undecoded(INCOMPLETE)
             ELSE IF v.value > MaxPayload THEN Undecoded(ERR_TOO_BIG)
             ELSE IF Len(buf) < total THEN Undecoded(INCOMPLETE)
             ELSE [st |-> OK, consumed |-> total, flag |-> buf[1],
                   payload |-> SubSeq(buf, 2 + v.len, total)]
=============================================================================
