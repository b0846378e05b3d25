----------------------------- MODULE MinlinStack -----------------------------
(***************************************************************************)
(* The arguments of execve in MinLin: sys_execve copies them from the      *)
(* caller, init_stack (servers/minlin/proc.c) lays them out for the C      *)
(* library of the new program, which is modelled by how it reads them.     *)
(* A string is a sequence of characters, 0 the one that ends it; a word of *)
(* the stack holds an integer, and word i is at address STACK_TOP + i - 1. *)
(***************************************************************************)
EXTENDS Integers, SequencesExt

CONSTANTS
    ARGV_MAX, PATH_MAX,     \* 32 and 256 in abi.h
    STACK_TOP, STACK_STRBUF, STACK_LEN,
    Chars                   \* characters other than 0

VARIABLES args, result

vars == <<args, result>>

AT_NULL == 0
RANDOM == 2                 \* stands for the 16 bytes of AT_RANDOM
Failed(err) == [err |-> err, words |-> <<>>, chars |-> <<>>]

\* Mutant of Strings: the character that ends a string is not counted.
Strings_tight(argv) == FlattenSeq(argv)

\* The strings one after the other, each with its end; Offset(argv, i) is `stroff'
\* when the i-th is copied.
Strings(argv) == FlattenSeq([i \in DOMAIN argv |-> Append(argv[i], 0)])
Offset(argv, i) == Len(Strings(SubSeq(argv, 1, i - 1)))

\* The auxiliary vectors; only AT_RANDOM points into the string buffer.
Aux(random) == <<3, 64, 4, 56, 5, 1, 6, 4096, 25, random, AT_NULL, 0>>

\* `Too long strings', `Too many entries', and no room for the random bytes.
TooLong(argv) ==
    \/ \E i \in DOMAIN argv :
          \/ Offset(argv, i) + Len(argv[i]) + 1 >= STACK_LEN - STACK_STRBUF
          \/ STACK_TOP + 1 + i >= STACK_STRBUF
    \/ Len(Strings(argv)) + RANDOM >= STACK_LEN - STACK_STRBUF

init_stack(argv) ==
    IF TooLong(argv) THEN Failed("ENOMEM")
    ELSE [err |-> "OK",
          words |-> <<Len(argv)>> \o [i \in DOMAIN argv |-> STACK_STRBUF + Offset(argv, i)] \o <<0, 0>>
                    \o Aux(STACK_STRBUF + Len(Strings(argv))),
          chars |-> Strings(argv) \o [i \in 1..RANDOM |-> 1]]

\* sys_execve: a string without an end within PATH_MAX, or an array without an end
\* within ARGV_MAX - 1, is refused.
sys_execve(argv) ==
    IF (\E i \in DOMAIN argv : Len(argv[i]) >= PATH_MAX) \/ Len(argv) >= ARGV_MAX - 1
    THEN Failed("EINVAL") ELSE init_stack(argv)

Init == args = <<>> /\ result = Failed("none")

\* The caller builds its array, and makes the call.
AddArg == result.err = "none" /\ Len(args) < ARGV_MAX - 1 /\ args' = Append(args, <<>>) /\ UNCHANGED result
AddChar(c) ==
    /\ result.err = "none" /\ args # <<>> /\ Len(Last(args)) < PATH_MAX
    /\ args' = [args EXCEPT ![Len(args)] = Append(@, c)] /\ UNCHANGED result
Execve == result.err = "none" /\ result' = sys_execve(args) /\ UNCHANGED args

Next == Execve \/ AddArg \/ \E c \in Chars : AddChar(c)
Spec == Init /\ [][Next]_vars

-----------------------------------------------------------------------------
\* How the C library reads a string, given its address.
StringAt(r, a) ==
    LET from == a - STACK_STRBUF + 1
        ends == {k \in from..Len(r.chars) : r.chars[k] = 0}
    IN  IF ends = {} THEN <<-1>> ELSE SubSeq(r.chars, from, Min(ends) - 1)

\* The arguments of the new program, as its C library reads them from the stack,
\* are those of the caller; the environment is empty and the auxiliary vectors
\* come right behind it.
ArgsArrive ==
    (result.err = "OK") =>
        LET argc == result.words[1]
        IN  /\ [i \in 1..argc |-> StringAt(result, result.words[i + 1])] = args
            /\ result.words[argc + 2] = 0 /\ result.words[argc + 3] = 0 /\ result.words[argc + 4] = 3

\* Nothing is written outside its part of the stack: the words end before the
\* strings, the strings before the end (the words behind argv are not checked by
\* the code: ARGV_MAX has to leave room for them).
StackBounded ==
    /\ STACK_TOP + Len(result.words) <= STACK_STRBUF
    /\ Len(result.chars) <= STACK_LEN - STACK_STRBUF

\* The new program's stack is right.
StackRight == ArgsArrive /\ StackBounded
=============================================================================
