---------------------------- MODULE GetFoodProofs ----------------------------
(***************************************************************************)
(* Theorems about counting_semaphore.c, for any number of threads, calls,  *)
(* places and any limit.  One thread at a time is between the waits and    *)
(* the posts; outside of it count is the number of calls since the last    *)
(* one that returned 0, and so tells what the next call will return.       *)
(***************************************************************************)
EXTENDS GetFood, FiniteSetTheorems, TLAPS

\* Who guards, binary_sema says.
Exclusive ==
    /\ binary_sema \in 0..1
    /\ \A t \in Threads : Guarded(t) => binary_sema = 0
    /\ NoRace

\* What the guarded steps have established.
Tested ==
    \A t \in Threads :
        /\ pc[t] = "reset" => count = Limit
        /\ pc[t] \in {"load", "store"} => count < Limit
        /\ pc[t] = "store" => loaded[t] = count

Types ==
    /\ count \in 0..Limit
    /\ pc \in [Threads -> {"call", "binary", "test", "reset", "load", "store",
                           "postBinary", "postCount"}]
    /\ loaded \in [Threads -> 0..Limit]
    /\ log \in Seq(0..1)

InStep == count = Len(log) % (Limit + 1)

IInv == Types /\ Exclusive /\ Tested /\ InStep /\ EveryFourth

-----------------------------------------------------------------------------
\* The remainder of what is counted one at a time.
LEMMA NextRemainder ==
    ASSUME NEW n \in Nat, NEW m \in Nat \ {0}
    PROVE  (n + 1) % m = IF (n % m) + 1 = m THEN 0 ELSE (n % m) + 1
<1>1. \A q \in Nat : \A r \in 0..(m - 1) : (m * q + r) % m = r
  OBVIOUS
<1>2. PICK q \in Nat, r \in 0..(m - 1) : n = m * q + r /\ n % m = r
  <2>1. n = m * (n \div m) + (n % m) /\ n \div m \in Nat /\ n % m \in 0..(m - 1)
    OBVIOUS
  <2>2. QED
    BY <2>1
<1>3. CASE r + 1 = m
  <2>1. n + 1 = m * (q + 1) + 0
    BY <1>2, <1>3
  <2>2. QED
    BY <1>1, <1>2, <1>3, <2>1
<1>4. CASE r + 1 # m
  <2>1. n + 1 = m * q + (r + 1) /\ r + 1 \in 0..(m - 1)
    BY <1>2, <1>4
  <2>2. QED
    BY <1>1, <1>2, <1>4, <2>1
<1>5. QED
  BY <1>3, <1>4

\* At first nobody has called.
LEMMA InvInit == Init => IInv
<1>1. 0 % (Limit + 1) = 0
  BY ConstantsAssumption
<1>2. QED
  BY <1>1, ConstantsAssumption DEF Init, IInv, Types, Exclusive, Tested, InStep,
     EveryFourth, NoRace, Guarded

\* A step that ends a call's work on count: the number of calls and count go
\* on together, and only the call that finds the limit returns 0.
LEMMA Counts ==
    ASSUME IInv, NEW x \in 0..1, log' = Append(log, x),
           \/ x = 0 /\ count = Limit /\ count' = 0
           \/ x = 1 /\ count < Limit /\ count' = count + 1
    PROVE  InStep' /\ EveryFourth' /\ log' \in Seq(0..1)
<1> USE ConstantsAssumption DEF IInv, Types
<1>1. Len(log) \in Nat /\ Len(log') = Len(log) + 1
  OBVIOUS
<1>2. (Len(log) + 1) % (Limit + 1) =
          IF (Len(log) % (Limit + 1)) + 1 = Limit + 1 THEN 0 ELSE (Len(log) % (Limit + 1)) + 1
  <2>1. Limit + 1 \in Nat \ {0} /\ Len(log) \in Nat
    BY <1>1
  <2>2. QED
    BY ONLY <2>1, NextRemainder
<1>3. Len(log') % (Limit + 1) = count' /\ (x = 0 <=> count' = 0)
  BY <1>1, <1>2 DEF InStep
<1>4. \A k \in 1..Len(log') : log'[k] = 0 <=> k % (Limit + 1) = 0
  <2>1. ASSUME NEW k \in 1..Len(log) PROVE log'[k] = 0 <=> k % (Limit + 1) = 0
    BY <1>1, <2>1 DEF EveryFourth
  <2>2. log'[Len(log')] = x
    BY <1>1
  <2>3. ASSUME NEW k \in 1..Len(log') PROVE k \in 1..Len(log) \/ k = Len(log')
    BY <1>1
  <2>4. QED
    BY <1>3, <2>1, <2>2, <2>3
<1>5. QED
  BY <1>3, <1>4 DEF InStep, EveryFourth

\* Every step of a thread keeps the inductive invariant.
LEMMA ThreadStep ==
    ASSUME IInv, NEW t \in Threads, Thread(t)
    PROVE  IInv'
<1> USE ConstantsAssumption DEF IInv, Types, Goto, semas
<1>1. CASE WaitCount(t)
  BY <1>1 DEF WaitCount, Exclusive, Tested, InStep, EveryFourth, NoRace, Guarded
<1>2. CASE WaitBinary(t)
  BY <1>2 DEF WaitBinary, Exclusive, Tested, InStep, EveryFourth, NoRace, Guarded
<1>3. CASE Test(t)
  BY <1>3 DEF Test, LimitReached, Exclusive, Tested, InStep, EveryFourth, NoRace, Guarded
<1>4. CASE Reset(t)
  <2>1. /\ pc[t] = "reset" /\ pc' = [pc EXCEPT ![t] = "postBinary"] /\ count' = 0
        /\ log' = Append(log, 0) /\ UNCHANGED <<binary_sema, loaded>>
    BY <1>4 DEF Reset
  <2>2. InStep' /\ EveryFourth' /\ log' \in Seq(0..1)
    BY <2>1, Counts DEF Tested
  <2>3. \A s \in Threads : s # t => ~Guarded(s)
    BY <2>1 DEF Exclusive, NoRace, Guarded
  <2>4. Exclusive' /\ Tested'
    BY <2>1, <2>3 DEF Exclusive, Tested, NoRace, Guarded
  <2>5. QED
    BY <2>1, <2>2, <2>4
<1>5. CASE LoadCount(t)
  BY <1>5 DEF LoadCount, Exclusive, Tested, InStep, EveryFourth, NoRace, Guarded
<1>6. CASE StoreCount(t)
  <2>1. /\ pc[t] = "store" /\ pc' = [pc EXCEPT ![t] = "postBinary"]
        /\ count' = count + 1 /\ count < Limit
        /\ log' = Append(log, 1) /\ UNCHANGED <<binary_sema, loaded>>
    BY <1>6 DEF StoreCount, Tested
  <2>2. InStep' /\ EveryFourth' /\ log' \in Seq(0..1)
    BY <2>1, Counts
  <2>3. \A s \in Threads : s # t => ~Guarded(s)
    BY <2>1 DEF Exclusive, NoRace, Guarded
  <2>4. Exclusive' /\ Tested'
    BY <2>1, <2>3 DEF Exclusive, Tested, NoRace, Guarded
  <2>5. QED
    BY <2>1, <2>2, <2>4
<1>7. CASE PostBinary(t)
  BY <1>7 DEF PostBinary, Exclusive, Tested, InStep, EveryFourth, NoRace, Guarded
<1>8. CASE PostCount(t)
  BY <1>8 DEF PostCount, Exclusive, Tested, InStep, EveryFourth, NoRace, Guarded
<1>9. QED
  BY <1>1, <1>2, <1>3, <1>4, <1>5, <1>6, <1>7, <1>8 DEF Thread

\* So it holds always.
LEMMA InvAlways == Spec => []IInv
<1>1. IInv /\ [Next]_vars => IInv'
  <2>1. CASE UNCHANGED vars
    BY <2>1 DEF vars, semas, IInv, Types, Exclusive, Tested, InStep, EveryFourth,
                NoRace, Guarded
  <2>2. QED
    BY <2>1, ThreadStep DEF Next
<1>2. QED
  BY InvInit, <1>1, PTL DEF Spec

-----------------------------------------------------------------------------
\* No two threads are between the waits and the posts at once, however many
\* the counting semaphore lets in.
THEOREM OneAtATime == Spec => []NoRace
<1>1. IInv => NoRace
  BY DEF IInv, Exclusive
<1>2. QED
  BY InvAlways, <1>1, PTL

\* The calls return 0 once after every Limit calls that return 1.
THEOREM HungryInTurn == Spec => []EveryFourth
<1>1. IInv => EveryFourth
  BY DEF IInv
<1>2. QED
  BY InvAlways, <1>1, PTL

-----------------------------------------------------------------------------
\* The threads in get_food; each holds a place of count_sema.
Eaters == {t \in Threads : pc[t] # "call"}

PlacesInv ==
    /\ pc \in [Threads -> {"call", "binary", "test", "reset", "load", "store",
                           "postBinary", "postCount"}]
    /\ count_sema \in 0..Places
    /\ IsFiniteSet(Eaters)
    /\ count_sema + Cardinality(Eaters) = Places

\* At first no thread is in get_food.
LEMMA PlacesInit == Init => PlacesInv
<1> SUFFICES ASSUME Init PROVE PlacesInv
  OBVIOUS
<1>1. Eaters = {}
  BY DEF Init, Eaters
<1>2. QED
  BY <1>1, FS_EmptySet, ConstantsAssumption DEF Init, PlacesInv

\* A thread that enters takes a place, and gives it back when it returns.
LEMMA PlacesStep == PlacesInv /\ [Next]_vars => PlacesInv'
<1> SUFFICES ASSUME PlacesInv, [Next]_vars PROVE PlacesInv'
  OBVIOUS
<1> USE ConstantsAssumption DEF PlacesInv
<1>1. Cardinality(Eaters) \in Nat
  BY FS_CardinalityType
<1>2. ASSUME NEW t \in Threads, WaitCount(t) PROVE PlacesInv'
  <2>1. t \notin Eaters /\ Eaters' = Eaters \union {t}
    BY <1>2 DEF WaitCount, Goto, Eaters
  <2>2. IsFiniteSet(Eaters') /\ Cardinality(Eaters') = Cardinality(Eaters) + 1
    BY <2>1, FS_AddElement
  <2>3. QED
    BY <1>1, <1>2, <2>2 DEF WaitCount, Goto
<1>3. ASSUME NEW t \in Threads, PostCount(t) PROVE PlacesInv'
  <2>1. t \in Eaters /\ Eaters' = Eaters \ {t}
    BY <1>3 DEF PostCount, Goto, Eaters
  <2>2. IsFiniteSet(Eaters') /\ Cardinality(Eaters') = Cardinality(Eaters) - 1
    BY <2>1, FS_RemoveElement
  <2>3. Cardinality(Eaters') \in Nat
    BY <2>2, FS_CardinalityType
  <2>4. QED
    BY <1>1, <1>3, <2>2, <2>3 DEF PostCount, Goto
<1>4. ASSUME NEW t \in Threads,
             \/ WaitBinary(t) \/ Test(t) \/ Reset(t) \/ LoadCount(t)
             \/ StoreCount(t) \/ PostBinary(t)
      PROVE  PlacesInv'
  <2>1. /\ pc[t] # "call" /\ UNCHANGED count_sema
        /\ \E l \in {"test", "reset", "load", "store", "postBinary", "postCount"} :
              pc' = [pc EXCEPT ![t] = l]
    BY <1>4 DEF WaitBinary, Test, Reset, LoadCount, StoreCount, PostBinary, Goto, semas
  <2>2. Eaters' = Eaters
    BY <2>1 DEF Eaters
  <2>3. QED
    BY <2>1, <2>2
<1>5. CASE UNCHANGED vars
  BY <1>5 DEF vars, semas, Eaters
<1>6. QED
  BY <1>2, <1>3, <1>4, <1>5 DEF Next, Thread

-----------------------------------------------------------------------------
\* A thread that is in a call has not made all its calls.
CallsInv ==
    /\ ret \in [Threads -> 0..1]
    /\ calls \in [Threads -> 0..Calls]
    /\ \A t \in Threads : pc[t] # "call" => calls[t] < Calls

\* A call that returns has been counted once.
LEMMA CallsStep ==
    ASSUME Types, CallsInv, [Next]_vars
    PROVE  CallsInv'
<1> USE ConstantsAssumption DEF Types, CallsInv
<1>1. ASSUME NEW t \in Threads, WaitCount(t) PROVE CallsInv'
  BY <1>1 DEF WaitCount, Goto
<1>2. ASSUME NEW t \in Threads, PostCount(t) PROVE CallsInv'
  <2>1. /\ pc[t] = "postCount" /\ pc' = [pc EXCEPT ![t] = "call"] /\ ret' = ret
        /\ calls' = [calls EXCEPT ![t] = calls[t] + 1] /\ calls[t] + 1 \in 0..Calls
    <3>1. /\ pc[t] = "postCount" /\ pc' = [pc EXCEPT ![t] = "call"] /\ ret' = ret
          /\ calls' = [calls EXCEPT ![t] = calls[t] + 1]
      BY <1>2 DEF PostCount, Goto
    <3>2. calls[t] \in 0..Calls /\ calls[t] < Calls
      BY <3>1
    <3>3. QED
      BY <3>1, <3>2
  <2>2. \A s \in Threads : s # t => pc'[s] = pc[s] /\ calls'[s] = calls[s]
    BY <2>1
  <2>3. QED
    BY <2>1, <2>2
<1>3. ASSUME NEW t \in Threads, Reset(t) \/ StoreCount(t) PROVE CallsInv'
  BY <1>3 DEF Reset, StoreCount, Goto
<1>4. ASSUME NEW t \in Threads, WaitBinary(t) \/ Test(t) \/ LoadCount(t) \/ PostBinary(t)
      PROVE  CallsInv'
  BY <1>4 DEF WaitBinary, Test, LoadCount, PostBinary, Goto
<1>5. CASE UNCHANGED vars
  BY <1>5 DEF vars
<1>6. QED
  BY <1>1, <1>2, <1>3, <1>4, <1>5 DEF Next, Thread

\* Every variable keeps its type: count does not pass the limit though it is
\* tested and stored in separate steps, and each semaphore stays between 0 and
\* its first value.
THEOREM TypeCorrect == Spec => []TypeOK
<1>1. Init => PlacesInv /\ CallsInv
  <2>1. Init => CallsInv
    BY ConstantsAssumption DEF Init, CallsInv
  <2>2. QED
    BY PlacesInit, <2>1
<1>2. IInv /\ PlacesInv /\ CallsInv /\ [Next]_vars => (PlacesInv /\ CallsInv)'
  BY PlacesStep, CallsStep DEF IInv
<1>3. IInv /\ PlacesInv /\ CallsInv => TypeOK
  BY DEF IInv, Types, Exclusive, PlacesInv, CallsInv, TypeOK
<1>4. QED
  BY InvAlways, <1>1, <1>2, <1>3, PTL DEF Spec
=============================================================================
