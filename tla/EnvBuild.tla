------------------------------ MODULE EnvBuild ------------------------------
(***************************************************************************)
(* adapters/env.c: wtd_env_build allocates the child's environment, an     *)
(* array of "KEY=VALUE" strings that ends with NULL and grows by doubling. *)
(* Every allocation may fail; a failure gives back everything allocated so *)
(* far. The heap counts the blocks that have been allocated and not freed. *)
(* The text of an entry is abstracted to the name it is made from.         *)
(***************************************************************************)
EXTENDS Naturals, Sequences, SequencesExt

CONSTANTS
    HostVars,    \* names of variables the host sets
    MaxNames     \* bound: comma-separated tokens of --passenv

ASSUME MaxNamesAssumption == MaxNames \in Nat

\* WTD_ENV_FIXED_COUNT entries come first, whatever --passenv names.
Fixed == << "REMOTE_ADDR", "REMOTE_PORT", "PATH", "AUTHORITY", "VERSION" >>

\* A token of --passenv: the name of a variable the host sets, or one that is
\* skipped (blank after trimming, or not set).
Token == HostVars \cup {"skipped"}

VARIABLES
    envPc,      \* "calloc", "fixed", "strdup", "pass", "done", "failed"
    passenv,    \* the tokens not yet seen
    names,      \* the tokens the caller gave
    envp,       \* the entries, without the NULL behind them
    cap,        \* slots of the array
    heap        \* blocks allocated

envVars == <<envPc, passenv, names, envp, cap, heap>>

EnvInit ==
    /\ envPc = "calloc"
    /\ names \in SeqOf(Token, MaxNames)
    /\ passenv = names
    /\ envp = << >>
    /\ cap = 0
    /\ heap = 0

\* The blocks wtd_env_free gives back: every entry up to the NULL, the array.
wtd_env_free == Len(envp) + 1

Calloc ==
    /\ envPc = "calloc"
    /\ envPc' = "fixed"
    /\ cap' = Len(Fixed) + 1
    /\ heap' = 1
    /\ UNCHANGED <<passenv, names, envp>>

\* Faulty: the slot of the terminator is forgotten.
GrownTooLate(count, c) == IF count >= c THEN c * 2 ELSE c

\* env_append doubles the array when the entry and the NULL would not fit.
Grown(count, c) == IF count + 1 >= c THEN c * 2 ELSE c

\* kv_alloc and env_append.
env_append(entry) ==
    /\ cap' = Grown(Len(envp), cap)
    /\ envp' = Append(envp, entry)
    /\ heap' = heap + 1

AppendFixed ==
    /\ envPc = "fixed"
    /\ Len(envp) < Len(Fixed)
    /\ env_append(Fixed[Len(envp) + 1])
    /\ UNCHANGED <<envPc, passenv, names>>

\* Without a token --passenv is NULL or empty, or has nothing but commas.
FixedDone ==
    /\ envPc = "fixed"
    /\ Len(envp) = Len(Fixed)
    /\ envPc' \in IF passenv = << >> THEN {"done", "strdup"} ELSE {"strdup"}
    /\ UNCHANGED <<passenv, names, envp, cap, heap>>

Strdup ==
    /\ envPc = "strdup"
    /\ envPc' = "pass"
    /\ heap' = heap + 1
    /\ UNCHANGED <<passenv, names, envp, cap>>

PassToken ==
    /\ envPc = "pass"
    /\ passenv # << >>
    /\ passenv' = Tail(passenv)
    /\ IF Head(passenv) \in HostVars THEN env_append(Head(passenv)) ELSE UNCHANGED <<envp, cap, heap>>
    /\ UNCHANGED <<envPc, names>>

PassDone ==
    /\ envPc = "pass"
    /\ passenv = << >>
    /\ envPc' = "done"
    /\ heap' = heap - 1
    /\ UNCHANGED <<passenv, names, envp, cap>>

CallocFails ==
    /\ envPc = "calloc"
    /\ envPc' = "failed"
    /\ UNCHANGED <<passenv, names, envp, cap, heap>>

\* A fixed entry, a larger array or the copy of the list is not to be had.
FixedFails ==
    /\ envPc = "strdup" \/ (envPc = "fixed" /\ Len(envp) < Len(Fixed))
    /\ envPc' = "failed"
    /\ heap' = heap - wtd_env_free
    /\ UNCHANGED <<passenv, names, envp, cap>>

\* The same in the loop over the list, which is freed too.
PassFails ==
    /\ envPc = "pass"
    /\ passenv # << >>
    /\ Head(passenv) \in HostVars
    /\ envPc' = "failed"
    /\ heap' = heap - 1 - wtd_env_free
    /\ UNCHANGED <<passenv, names, envp, cap>>

EnvNext ==
    \/ Calloc \/ AppendFixed \/ FixedDone \/ Strdup \/ PassToken \/ PassDone
    \/ CallocFails \/ FixedFails \/ PassFails

EnvSpec == EnvInit /\ [][EnvNext]_envVars

-----------------------------------------------------------------------------
\* Selected(s)[n]: the variables that are set among the first n tokens of s, in
\* order. (SelectSeq, written out: the proofs look into it.)
Selected(s) ==
    LET selected[n \in 0 .. Len(s)] ==
            IF n = 0 THEN << >>
            ELSE IF s[n] \in HostVars THEN Append(selected[n - 1], s[n]) ELSE selected[n - 1]
    IN  selected

\* The array always has a slot for the NULL behind its entries, however often
\* it grew, and what the caller gets holds the five fixed entries and the set
\* names of --passenv in order; the caller owns the array and its entries and
\* nothing else is left allocated, nor anything at all after a failure.
EnvIsTerminated ==
    /\ envPc \notin {"calloc", "failed"} => Len(envp) < cap
    /\ envPc = "done" =>
          /\ envp = Fixed \o Selected(names)[Len(names)]
          /\ heap = Len(envp) + 1
    /\ envPc = "failed" => heap = 0
=============================================================================
