------------------------------- MODULE GetFood -------------------------------
(***************************************************************************)
(* semaphore/counting_semaphore/counting_semaphore.c: Ant, Bat, Cat and    *)
(* Dog each call get_food ten times.  A counting semaphore lets three of   *)
(* them into it, a binary one guards the shared count: a call returns 1    *)
(* and increments count, or finds it at 3, returns 0 and sets it to 0.     *)
(* Every access to count is a step of its own; count++ is a load and a     *)
(* store.                                                                  *)
(***************************************************************************)
EXTENDS Naturals, Sequences

CONSTANTS Threads,  \* Ant, Bat, Cat, Dog
          Calls,    \* calls of get_food each makes
          Places,   \* initial value of count_sema
          Limit     \* what count is compared with

ASSUME ConstantsAssumption ==
    Calls \in Nat /\ Places \in Nat \ {0} /\ Limit \in Nat

VARIABLES count, count_sema, binary_sema,
          pc,     \* where each thread is
          loaded, \* the value of count each has loaded
          ret,    \* the ret of its call
          calls,  \* its calls so far
          log     \* ret of the calls, in the order in which they went
                  \* through the region between the waits and the posts

semas == <<count_sema, binary_sema>>
vars == <<count, semas, pc, loaded, ret, calls, log>>

Init ==
    /\ count = 0 /\ count_sema = Places /\ binary_sema = 1
    /\ pc = [t \in Threads |-> "call"]
    /\ loaded = [t \in Threads |-> 0]
    /\ ret = [t \in Threads |-> 0]
    /\ calls = [t \in Threads |-> 0]
    /\ log = <<>>

Goto(t, l) == pc' = [pc EXCEPT ![t] = l]

-----------------------------------------------------------------------------
\* sem_wait(&count_sema).
WaitCount(t) ==
    /\ pc[t] = "call" /\ calls[t] < Calls
    /\ count_sema > 0
    /\ count_sema' = count_sema - 1
    /\ Goto(t, "binary")
    /\ UNCHANGED <<count, binary_sema, loaded, ret, calls, log>>

\* Mutant: count_sema alone.
WaitNothing(t) ==
    /\ pc[t] = "binary"
    /\ Goto(t, "test")
    /\ UNCHANGED <<count, semas, loaded, ret, calls, log>>

\* sem_wait(&binary_sema).
WaitBinary(t) ==
    /\ pc[t] = "binary"
    /\ binary_sema > 0
    /\ binary_sema' = binary_sema - 1
    /\ Goto(t, "test")
    /\ UNCHANGED <<count, count_sema, loaded, ret, calls, log>>

\* Mutant: the comparison is off by one.
AboveLimit(n) == n > Limit

LimitReached(n) == n >= Limit

Test(t) ==
    /\ pc[t] = "test"
    /\ Goto(t, IF LimitReached(count) THEN "reset" ELSE "load")
    /\ UNCHANGED <<count, semas, loaded, ret, calls, log>>

Reset(t) ==
    /\ pc[t] = "reset"
    /\ ret' = [ret EXCEPT ![t] = 0]
    /\ count' = 0
    /\ log' = Append(log, 0)
    /\ Goto(t, "postBinary")
    /\ UNCHANGED <<semas, loaded, calls>>

LoadCount(t) ==
    /\ pc[t] = "load"
    /\ loaded' = [loaded EXCEPT ![t] = count]
    /\ Goto(t, "store")
    /\ UNCHANGED <<count, semas, ret, calls, log>>

StoreCount(t) ==
    /\ pc[t] = "store"
    /\ count' = loaded[t] + 1
    /\ ret' = [ret EXCEPT ![t] = 1]
    /\ log' = Append(log, 1)
    /\ Goto(t, "postBinary")
    /\ UNCHANGED <<semas, loaded, calls>>

\* Mutant: the post is forgotten.
PostNothing(t) ==
    /\ pc[t] = "postBinary"
    /\ Goto(t, "postCount")
    /\ UNCHANGED <<count, semas, loaded, ret, calls, log>>

\* sem_post(&binary_sema).
PostBinary(t) ==
    /\ pc[t] = "postBinary"
    /\ binary_sema' = binary_sema + 1
    /\ Goto(t, "postCount")
    /\ UNCHANGED <<count, count_sema, loaded, ret, calls, log>>

\* sem_post(&count_sema), and return.
PostCount(t) ==
    /\ pc[t] = "postCount"
    /\ count_sema' = count_sema + 1
    /\ calls' = [calls EXCEPT ![t] = @ + 1]
    /\ Goto(t, "call")
    /\ UNCHANGED <<count, binary_sema, loaded, ret, log>>

-----------------------------------------------------------------------------
Thread(t) == \/ WaitCount(t) \/ WaitBinary(t) \/ Test(t) \/ Reset(t)
             \/ LoadCount(t) \/ StoreCount(t) \/ PostBinary(t) \/ PostCount(t)

Next == \E t \in Threads : Thread(t)

Spec == Init /\ [][Next]_vars

\* Every thread that can go on is scheduled; nothing is assumed of the order in
\* which those that wait in sem_wait get their turn.
FairSpec == Spec /\ \A t \in Threads : WF_vars(Thread(t))

-----------------------------------------------------------------------------
(* Properties.                                                             *)

Guarded(t) == pc[t] \in {"test", "reset", "load", "store", "postBinary"}

\* Every variable holds values of its type; count never passes the limit.
TypeOK ==
    /\ count \in 0..Limit /\ count_sema \in 0..Places /\ binary_sema \in 0..1
    /\ pc \in [Threads -> {"call", "binary", "test", "reset", "load", "store",
                           "postBinary", "postCount"}]
    /\ loaded \in [Threads -> 0..Limit] /\ ret \in [Threads -> 0..1]
    /\ calls \in [Threads -> 0..Calls] /\ log \in Seq(0..1)

\* counting_semaphore.c:21-22: "It is not desirable that one thread is
\* executing if condition and some other thread is incrementing count".
NoRace == \A s, t \in Threads : Guarded(s) /\ Guarded(t) => s = t

\* Whatever the order of the calls, after each Limit calls that return 1 there
\* is one that returns 0 (lines 4-6): it is the order of the calls, not the
\* thread, that decides who goes hungry.
EveryFourth == \A k \in 1..Len(log) : log[k] = 0 <=> k % (Limit + 1) = 0

\* Every thread makes all its calls, and main joins it.
AllJoin == <>(\A t \in Threads : calls[t] = Calls)
=============================================================================
