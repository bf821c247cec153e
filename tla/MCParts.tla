------------------------------- MODULE MCParts -------------------------------
(***************************************************************************)
(* The parts of the daemon that are one thread's work, for TLC: a          *)
(* behaviour is about one of them, its subject; the others stay as they    *)
(* begin.                                                                  *)
(*                                                                         *)
(* With Q = 1 a byte has 4 values; the forms of 1, 2, 4 and 8 bytes hold   *)
(* lengths below 1, 4, 64 and 16384. The payload cap lies, as in the code, *)
(* between the second and third limit.                                     *)
(***************************************************************************)
EXTENDS ChildOutput, FrameWire, Cmdline, EnvBuild, Win32Child

VARIABLES v, form, avail, subject

\* Frames the child writes: an empty one, a short one, one of the largest size,
\* and an empty frame whose length is written in the longest form.
F(flag, payload, k) == [flag |-> flag, payload |-> payload, form |-> k]
FittingFrames ==
    {F(UNRELIABLE, << >>, 1), F(RELIABLE, << 3, 0 >>, 2), F(RELIABLE, << 1, 2, 3, 0, 1 >>, 4),
     F(RELIABLE, << >>, 8)}

\* Bytes that are no frame for the reader: a reserved flag; a length just above
\* the cap; the largest payload, its length written in the longest form, which
\* is more than the buffer holds.
BadBytes == {<< 2, 0 >>, << 0, 2, 0, 1, 2 >>, FrameBytes(RELIABLE, << 1, 2, 3, 0, 1 >>, 8)}

\* Around 2^6, 2^8, 2^14, 2^16, the payload cap 2^24 and below 2^30.
Around(n) == (IF n < 3 THEN 0 ELSE n - 3) .. n + 3
RealValues ==
    Around(0) \cup Around(64) \cup Around(256) \cup Around(16384) \cup Around(65536)
       \cup Around(16777216) \cup {1073741822, 1073741823}

\* The varint with the code's own bytes of 256 values. Its 8-byte form has
\* numbers TLC cannot hold; FrameWire, with small bytes, covers it.
Varint == INSTANCE VarintWire
            WITH Q <- 64, MaxPayload <- 16777216, Values <- RealValues, Forms <- {1, 2, 4}

varintVars == <<v, form, avail>>
partsVars == <<subject, vars, received, argv, envVars, winVars, varintVars>>

PartsInit ==
    /\ Init /\ WireInit /\ CmdInit /\ WinInit
    /\ subject \in {"reader", "wire", "varint", "cmdline", "env", "win32"}
    /\ IF subject = "env" THEN EnvInit ELSE EnvInit /\ names = << >>
    /\ IF subject = "varint" THEN Varint!VarintInit ELSE Varint!VarintInit /\ v = 0 /\ form = 1

PartsNext ==
    /\ UNCHANGED subject
    /\ \/ /\ subject = "reader" /\ Next
          /\ UNCHANGED <<received, argv, envVars, winVars, varintVars>>
       \/ /\ subject = "wire" /\ WireNext
          /\ UNCHANGED <<vars, argv, envVars, winVars, varintVars>>
       \/ /\ subject = "varint" /\ Varint!VarintNext
          /\ UNCHANGED <<vars, received, argv, envVars, winVars>>
       \/ /\ subject = "cmdline" /\ CmdNext
          /\ UNCHANGED <<vars, received, envVars, winVars, varintVars>>
       \/ /\ subject = "env" /\ EnvNext
          /\ UNCHANGED <<vars, received, argv, winVars, varintVars>>
       \/ /\ subject = "win32" /\ WinNext
          /\ UNCHANGED <<vars, received, argv, envVars, varintVars>>

\* The fairness of the reader thread, and of nothing else.
PartsSpec == PartsInit /\ [][PartsNext]_partsVars /\ WF_vars(subject = "reader" /\ ReaderStep)

\* What VarintWire says of varint_size, wtd_frame_encode_varint and
\* varint_decode, with the code's own bytes.
VarintRoundTrip == Varint!VarintRoundTrip
=============================================================================
