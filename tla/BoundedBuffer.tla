---------------------------- MODULE BoundedBuffer ----------------------------
(***************************************************************************)
(* semaphore/counting_semaphore2/testSemaphore3.c: a producer and a        *)
(* consumer thread share a buffer of MAX places without a lock; two        *)
(* counting semaphores keep them apart.  Every access to a shared variable *)
(* is a step of its own: the lines F1, F2, G1 and G2 of the source.        *)
(***************************************************************************)
EXTENDS Integers, Sequences

CONSTANTS MAX,    \* places of the buffer
          Loops   \* loops: values that are produced and consumed

ASSUME ConstantsAssumption == MAX \in Nat \ {0} /\ Loops \in Nat

VARIABLES empty, full,  \* the semaphores
          buffer,
          fill, use,    \* where the next value is put, and got
          ppc, pi,      \* where the producer is, and its i
          cpc, ci,      \* the consumer and its i
          tmp,          \* the value it has got
          output        \* what it has printed

vars == <<empty, full, buffer, fill, use, ppc, pi, cpc, ci, tmp, output>>

Places == 0..(MAX - 1)

Init ==
    /\ empty = MAX /\ full = 0
    /\ buffer = [k \in Places |-> 0]
    /\ fill = 0 /\ use = 0
    /\ ppc = "loop" /\ pi = 0
    /\ cpc = "loop" /\ ci = 0 /\ tmp = 0
    /\ output = <<>>

-----------------------------------------------------------------------------
(* The producer: P1, F1, F2, P3.                                           *)

\* Mutant: the producer does not wait for an empty place.
WaitNothing ==
    /\ ppc = "loop" /\ pi < Loops
    /\ ppc' = "F1"
    /\ UNCHANGED <<empty, full, buffer, fill, use, pi, cpc, ci, tmp, output>>

WaitEmpty ==
    /\ ppc = "loop" /\ pi < Loops
    /\ empty > 0
    /\ empty' = empty - 1
    /\ ppc' = "F1"
    /\ UNCHANGED <<full, buffer, fill, use, pi, cpc, ci, tmp, output>>

Fill ==
    /\ ppc = "F1"
    /\ buffer' = [buffer EXCEPT ![fill] = pi]
    /\ ppc' = "F2"
    /\ UNCHANGED <<empty, full, fill, use, pi, cpc, ci, tmp, output>>

\* Mutant: the index wraps one place late.
WrapLate(k) == (k + 1) % (MAX + 1)

Following(k) == (k + 1) % MAX

NextFill ==
    /\ ppc = "F2"
    /\ fill' = Following(fill)
    /\ ppc' = "P3"
    /\ UNCHANGED <<empty, full, buffer, use, pi, cpc, ci, tmp, output>>

PostFull ==
    /\ ppc = "P3"
    /\ full' = full + 1
    /\ pi' = pi + 1
    /\ ppc' = "loop"
    /\ UNCHANGED <<empty, buffer, fill, use, cpc, ci, tmp, output>>

-----------------------------------------------------------------------------
(* The consumer: C1, G1, G2, C3 and the printf.                            *)

WaitFull ==
    /\ cpc = "loop" /\ ci < Loops
    /\ full > 0
    /\ full' = full - 1
    /\ cpc' = "G1"
    /\ UNCHANGED <<empty, buffer, fill, use, ppc, pi, ci, tmp, output>>

Get ==
    /\ cpc = "G1"
    /\ tmp' = buffer[use]
    /\ cpc' = "G2"
    /\ UNCHANGED <<empty, full, buffer, fill, use, ppc, pi, ci, output>>

NextUse ==
    /\ cpc = "G2"
    /\ use' = Following(use)
    /\ cpc' = "C3"
    /\ UNCHANGED <<empty, full, buffer, fill, ppc, pi, ci, tmp, output>>

\* Mutant: the place is never given back.
PostNothing ==
    /\ cpc = "C3"
    /\ cpc' = "print"
    /\ UNCHANGED <<empty, full, buffer, fill, use, ppc, pi, ci, tmp, output>>

PostEmpty ==
    /\ cpc = "C3"
    /\ empty' = empty + 1
    /\ cpc' = "print"
    /\ UNCHANGED <<full, buffer, fill, use, ppc, pi, ci, tmp, output>>

PrintTmp ==
    /\ cpc = "print"
    /\ output' = Append(output, tmp)
    /\ ci' = ci + 1
    /\ cpc' = "loop"
    /\ UNCHANGED <<empty, full, buffer, fill, use, ppc, pi, tmp>>

-----------------------------------------------------------------------------
Producer == WaitEmpty \/ Fill \/ NextFill \/ PostFull
Consumer == WaitFull \/ Get \/ NextUse \/ PostEmpty \/ PrintTmp

\* main returns when both threads have been joined.
Joined == pi = Loops /\ ci = Loops

Next == Producer \/ Consumer

Spec == Init /\ [][Next]_vars

-----------------------------------------------------------------------------
(* Properties.                                                             *)

\* Every variable holds values of its type, and the indices stay in the buffer.
TypeOK ==
    /\ empty \in 0..MAX /\ full \in 0..MAX
    /\ buffer \in [Places -> 0..Loops]
    /\ fill \in Places /\ use \in Places
    /\ ppc \in {"loop", "F1", "F2", "P3"} /\ pi \in 0..Loops
    /\ cpc \in {"loop", "G1", "G2", "C3", "print"} /\ ci \in 0..Loops
    /\ tmp \in 0..Loops /\ output \in Seq(0..Loops)

\* The consumer prints the values in the order in which they were produced,
\* none twice and none left out (main, lines 35-54): the k-th is k - 1.
InOrder == \A k \in 1..Len(output) : output[k] = k - 1

\* The two threads never touch one place of the buffer at the same time, for
\* which put and get (lines 22-33) have no lock of their own.
NoClash == ~(ppc = "F1" /\ cpc = "G1" /\ fill = use)
=============================================================================
