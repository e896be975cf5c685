----------------------------- MODULE RegisterFile -----------------------------
(***************************************************************************)
(* The promise of a register map: a load returns exactly the cells it      *)
(* names, a store that is confirmed wrote exactly the cells it names, and  *)
(* a command that is declined changed nothing.  When to decline is the     *)
(* implementation's choice, except for a command beyond the banks.         *)
(***************************************************************************)
EXTENDS Integers, Sequences

CONSTANTS
    Initial,     \* the banks at power-up: [holding, input]
    Commands     \* [op, bank, first, size, words]

VARIABLES memory, command, answer

vars == <<memory, command, answer>>

Cells(c) == c.first .. c.first + c.size - 1

Init == memory = Initial /\ answer = [ok |-> TRUE, words |-> <<>>]

Load(c) ==
    /\ c.op = "load" /\ Cells(c) \subseteq DOMAIN memory[c.bank]
    /\ answer' = [ok |-> TRUE, words |-> [i \in 1 .. c.size |-> memory[c.bank][c.first + i - 1]]]
    /\ UNCHANGED memory

Store(c) ==
    /\ c.op = "store" /\ Cells(c) \subseteq DOMAIN memory[c.bank] /\ Len(c.words) = c.size
    /\ memory' = [memory EXCEPT ![c.bank] =
                    [a \in DOMAIN @ |-> IF a \in Cells(c) THEN c.words[a - c.first + 1] ELSE @[a]]]
    /\ answer' = [ok |-> TRUE, words |-> <<>>]

Decline ==
    /\ answer' = [ok |-> FALSE, words |-> <<>>]
    /\ UNCHANGED memory

Next == \E c \in Commands : command' = c /\ (Load(c) \/ Store(c) \/ Decline)

Spec == Init /\ [][Next]_vars
==============================================================================
