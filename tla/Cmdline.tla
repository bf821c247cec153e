------------------------------ MODULE Cmdline ------------------------------
(***************************************************************************)
(* adapters/cmdline.c: wtd_build_cmdline encodes an argv as one Windows    *)
(* command line, wtd_split_cmdline splits the value of --exec into an argv.*)
(*                                                                         *)
(* The functions tell four kinds of characters apart: blanks (space and    *)
(* tab), the double quote, the backslash and all others. argv grows here   *)
(* by one character or one empty argument at a time, so that every argv up *)
(* to a size is met, also as a raw command string.                         *)
(***************************************************************************)
EXTENDS Naturals, Sequences, SequencesExt

CONSTANT MaxChars    \* bound: characters and separators of argv

ASSUME MaxCharsAssumption == MaxChars \in Nat

Blank == "blank"
Quote == "quote"
Backslash == "backslash"
Chars == {Blank, Quote, Backslash, "other"}

VARIABLE argv

CmdInit == argv = << << >> >>

Size == Len(argv) + Len(FlattenSeq(argv))

\* external: any argument the operator may give
AddChar(c) ==
    /\ Size < MaxChars
    /\ argv' = [argv EXCEPT ![Len(argv)] = Append(@, c)]

\* external
AddArgument ==
    /\ Size < MaxChars
    /\ argv' = Append(argv, << >>)

CmdNext == (\E c \in Chars : AddChar(c)) \/ AddArgument

CmdSpec == CmdInit /\ [][CmdNext]_argv

\* What a loop over the characters of s makes of st; step is one round of it.
Loop(step, st, s) ==
    LET after[i \in 0 .. Len(s)] == IF i = 0 THEN st ELSE step[<<after[i - 1], s[i]>>]
    IN  after[Len(s)]

-----------------------------------------------------------------------------
(* wtd_build_cmdline. *)

Has(a, cs) == \E i \in 1 .. Len(a) : a[i] \in cs

needs_quotes(a) == a = << >> \/ Has(a, {Blank, Quote})

\* The first character at or after i that is no backslash, or the end.
AfterRun(a, i) ==
    IF \E j \in i .. Len(a) : a[j] # Backslash
    THEN a[CHOOSE j \in i .. Len(a) :
              a[j] # Backslash /\ \A k \in i .. j - 1 : a[k] = Backslash]
    ELSE "end"

\* Faulty: a run at the end of a quoted argument is not doubled.
EscapedRunAtEnd(a, i) ==
    IF a[i] = Quote THEN << Backslash, Quote >>
    ELSE IF a[i] = Backslash /\ AfterRun(a, i) = Quote THEN << Backslash, Backslash >>
    ELSE << a[i] >>

\* A run of backslashes is doubled before a quote, and before the closing quote.
Escaped(a, i) ==
    IF a[i] = Quote THEN << Backslash, Quote >>
    ELSE IF /\ a[i] = Backslash
            /\ \/ AfterRun(a, i) = Quote
               \/ AfterRun(a, i) = "end" /\ needs_quotes(a)
         THEN << Backslash, Backslash >>
    ELSE << a[i] >>

EncodedArg(a) ==
    LET body == FlattenSeq([i \in 1 .. Len(a) |-> Escaped(a, i)])
    IN  IF needs_quotes(a) THEN << Quote >> \o body \o << Quote >> ELSE body

\* The characters of the command line: the arguments with blanks between them.
Line(args) ==
    FlattenSeq([i \in 1 .. Len(args) |->
                   IF i = 1 THEN EncodedArg(args[i]) ELSE << Blank >> \o EncodedArg(args[i])])

\* The macro PUT: a character is written while it and the NUL fit.
Put(st, c, cap) ==
    IF st.rc = 0 /\ Len(st.out) + 1 < cap
    THEN [rc |-> 0, out |-> Append(st.out, c)] ELSE [rc |-> 1, out |-> st.out]

wtd_build_cmdline(args, cap) ==
    LET states == [rc : {0, 1}, out : Seq(Chars)]
        end == Loop([p \in states \X Chars |-> Put(p[1], p[2], cap)],
                    [rc |-> 0, out |-> << >>], Line(args))
    IN  IF end.rc = 0 /\ Len(end.out) < cap THEN end ELSE [rc |-> 1, out |-> end.out]

-----------------------------------------------------------------------------
(* wtd_split_cmdline. *)

\* Faulty: no slot is left for the terminator.
RoomNoNull(toks, argv_cap) == Len(toks) < argv_cap

\* A slot is kept for the terminating NULL.
Room(toks, argv_cap) == Len(toks) + 1 < argv_cap

\* One character: between tokens, in a bare one (to the next blank) or in a
\* quoted one (to the next quote).
SplitChar(st, c, argv_cap) ==
    IF ~Room(st.toks, argv_cap) THEN st
    ELSE IF st.in = "gap" /\ c = Blank THEN st
    ELSE IF st.in = "gap" THEN [toks |-> st.toks, cur |-> IF c = Quote THEN << >> ELSE << c >>,
                                in |-> IF c = Quote THEN Quote ELSE Blank]
    ELSE IF st.in = c THEN [toks |-> Append(st.toks, st.cur), cur |-> << >>, in |-> "gap"]
    ELSE [st EXCEPT !.cur = Append(@, c)]

wtd_split_cmdline(cmd, argv_cap) ==
    LET states == [toks : Seq(Seq(Chars)), cur : Seq(Chars), in : {"gap", Quote, Blank}]
        end == Loop([p \in states \X Chars |-> SplitChar(p[1], p[2], argv_cap)],
                    [toks |-> << >>, cur |-> << >>, in |-> "gap"], cmd)
    IN  IF end.in # "gap" /\ Room(end.toks, argv_cap) THEN Append(end.toks, end.cur) ELSE end.toks

-----------------------------------------------------------------------------
(* What the two promise. *)

\* external: the rules cmdline.h quotes ("Parsing C++ Command-Line Arguments").
\* 2N backslashes and a quote are N backslashes and a delimiter, 2N+1 are N
\* backslashes and a quote; others are literal. A blank ends an argument that
\* has begun, unless it is within quotes.
DecodeChar(st, c) ==
    LET run(n) == [i \in 1 .. n |-> Backslash]
        begun == IF st.in = "gap" THEN "bare" ELSE st.in
        literal(cur, in) == [args |-> st.args, cur |-> cur, bs |-> 0, in |-> in]
    IN  IF c = Backslash
        THEN [args |-> st.args, cur |-> st.cur, bs |-> st.bs + 1, in |-> begun]
        ELSE IF c = Quote /\ st.bs % 2 = 0
        THEN literal(st.cur \o run(st.bs \div 2), IF st.in = "quoted" THEN "bare" ELSE "quoted")
        ELSE IF c = Quote THEN literal(st.cur \o run(st.bs \div 2) \o << Quote >>, begun)
        ELSE IF c = Blank /\ st.in = "gap" THEN st
        ELSE IF c = Blank /\ st.in = "bare"
        THEN [args |-> Append(st.args, st.cur \o run(st.bs)), cur |-> << >>, bs |-> 0, in |-> "gap"]
        ELSE literal(st.cur \o run(st.bs) \o << c >>, begun)

\* external
CommandLineToArgv(cmd) ==
    LET states == [args : Seq(Seq(Chars)), cur : Seq(Chars), bs : Nat,
                   in : {"gap", "bare", "quoted"}]
        start == [args |-> << >>, cur |-> << >>, bs |-> 0, in |-> "gap"]
    IN  Loop([p \in states \X Chars |-> DecodeChar(p[1], p[2])], start, Append(cmd, Blank)).args

\* cmdline.h: the decoder gives back "the same sequence of arguments,
\* byte-for-byte", whatever quotes, blanks and runs of backslashes they hold,
\* in a buffer that is just large enough; one byte less is refused. Three bytes
\* for each character and each argument are always enough.
BuildRoundTrips ==
    LET all == wtd_build_cmdline(argv, 3 * Size + 1)
        tight == Len(all.out) + 1
    IN  /\ all.rc = 0
        /\ CommandLineToArgv(all.out) = argv
        /\ wtd_build_cmdline(argv, tight) = all
        /\ wtd_build_cmdline(argv, tight - 1).rc # 0

\* An --exec value with its blanks in quotes is split into the words it is made
\* of, empty ones and those with blanks included, as many as the array has
\* slots for besides its terminator.
SplitFindsWords ==
    LET typed(a) == IF a = << >> \/ Has(a, {Blank}) THEN << Quote >> \o a \o << Quote >> ELSE a
        cmd == FlattenSeq([i \in 1 .. Len(argv) |-> typed(argv[i]) \o << Blank >>])
    IN  (\A i \in 1 .. Len(argv) : ~Has(argv[i], {Quote})) =>
            \A argv_cap \in 1 .. MaxChars + 2 :
                wtd_split_cmdline(cmd, argv_cap) =
                    SubSeq(argv, 1, IF argv_cap - 1 < Len(argv) THEN argv_cap - 1 ELSE Len(argv))
=============================================================================
