-------------------------------- MODULE Pipes --------------------------------
(***************************************************************************)
(* What the programs with pipes used in both directions read and write:    *)
(* semaphore/parent_child{1,2,3} and signal/client_server1/server2.c.  A   *)
(* pipe is a sequence of words of four bytes.  Three words make a DATA,    *)
(* one is a result.  A word stands for the request it belongs to, part 0   *)
(* being its result.                                                       *)
(***************************************************************************)
EXTENDS Naturals, Sequences

CONSTANTS N,    \* NUM_REQ_CLIENT
          None  \* no request

ASSUME ConstantsAssumption == N \in Nat \ {0} /\ None \notin Nat

Req     == 1..N
Words   == [of : Req \cup {None}, part : 0..3]
Data(k) == [w \in 1..3 |-> [of |-> k, part |-> w]]
Results == {<<[of |-> k, part |-> 0]>> : k \in Req}

\* read of up to n words, from a pipe that is not empty, and what it leaves.
Taken(q, n) == SubSeq(q, 1, IF Len(q) < n THEN Len(q) ELSE n)
Rest(q, n)  == SubSeq(q, n + 1, Len(q))

\* The result computed from what was read; of no request, if that is no DATA.
Computed(d) ==
    [of |-> IF \E k \in Req : d = Data(k) THEN d[1].of ELSE None, part |-> 0]
=============================================================================
