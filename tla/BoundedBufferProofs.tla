------------------------- MODULE BoundedBufferProofs -------------------------
(***************************************************************************)
(* Theorems about testSemaphore3.c, for buffers of any size and any number *)
(* of values.  The semaphores count the values between the threads; this   *)
(* bounds the distance of the two indices, and so says which place of the  *)
(* buffer holds which value.  After them the programs with a queue: where  *)
(* the message of each writer of threaded_queue.c is, and for whom the     *)
(* ends in the queue of text_data are.                                     *)
(***************************************************************************)
EXTENDS MCBuffer, TLAPS, SequenceTheorems, FunctionTheorems, FiniteSetTheorems

\* Values that have been put into the buffer, and got out of it; and those the
\* indices count.
Put  == IF ppc \in {"F2", "P3"} THEN pi + 1 ELSE pi
Got  == IF cpc \in {"G2", "C3", "print"} THEN ci + 1 ELSE ci
PutAt == IF ppc = "P3" THEN pi + 1 ELSE pi
GotAt == IF cpc \in {"C3", "print"} THEN ci + 1 ELSE ci

\* The place n places after use, at most MAX.
After(n) == IF use + n < MAX THEN use + n ELSE use + n - MAX

Counted ==
    /\ empty = MAX - (IF ppc = "loop" THEN pi ELSE pi + 1)
                   + (IF cpc = "print" THEN ci + 1 ELSE ci)
    /\ full = pi - (IF cpc = "loop" THEN ci ELSE ci + 1)
Apart  == fill = After(PutAt - GotAt)
Held   == \A v \in 0..Loops : Got <= v /\ v < Put => buffer[After(v - GotAt)] = v
Taken  == cpc \in {"G2", "C3", "print"} => tmp = ci
Running == (ppc # "loop" => pi < Loops) /\ (cpc # "loop" => ci < Loops)
Printed == Len(output) = ci /\ InOrder

IInv == TypeOK /\ Running /\ Counted /\ Apart /\ Held /\ Taken /\ Printed

-----------------------------------------------------------------------------
\* An index that stays in the buffer wraps at its end (lines 25 and 31).
LEMMA FollowingWraps ==
    ASSUME NEW k \in Places
    PROVE  Following(k) = IF k + 1 = MAX THEN 0 ELSE k + 1
BY ConstantsAssumption DEF Following, Places

\* The semaphores keep the producer at most MAX values ahead, and the consumer
\* behind it.
LEMMA Distance ==
    ASSUME IInv
    PROVE  /\ PutAt - GotAt \in 0..MAX
           /\ Got <= Put /\ GotAt <= Got /\ PutAt <= Put
           /\ Put - GotAt <= MAX
           /\ ppc = "F1" => Put - GotAt < MAX
           /\ cpc = "G1" => Got < Put
           /\ cpc \in {"G1", "G2"} => PutAt > GotAt
           /\ Got \in Nat /\ GotAt \in Nat /\ Put \in Nat /\ PutAt \in Nat
BY ConstantsAssumption DEF IInv, TypeOK, Counted, PutAt, GotAt, Put, Got

\* Places that are less than MAX apart are different places of the buffer.
LEMMA AfterDistinct ==
    ASSUME TypeOK, NEW m \in 0..(MAX - 1), NEW n \in 0..(MAX - 1)
    PROVE  After(m) \in Places /\ (m # n => After(m) # After(n))
BY ConstantsAssumption, SMTT(20) DEF After, TypeOK, Places

\* At first the buffer is empty.
LEMMA InvInit == Init => IInv
BY ConstantsAssumption DEF Init, IInv, TypeOK, Running, Counted, Apart, Held, Taken,
   Printed, InOrder, Places, Put, Got, PutAt, GotAt, After

\* The producer writes a value where the consumer will look for it, and no
\* value that is still to be got is there.
LEMMA ProducerStep ==
    ASSUME IInv, Producer
    PROVE  IInv'
<1> USE ConstantsAssumption DEF IInv, Running, Counted, Taken, Printed, InOrder
<1>1. CASE WaitEmpty
  BY <1>1 DEF WaitEmpty, TypeOK, Apart, Held, Put, Got, PutAt, GotAt, After
<1>2. CASE Fill
  <2>1. /\ ppc = "F1" /\ ppc' = "F2" /\ buffer' = [buffer EXCEPT ![fill] = pi]
        /\ UNCHANGED <<empty, full, fill, use, pi, cpc, ci, tmp, output>>
    BY <1>2 DEF Fill
  <2>2. TypeOK' /\ Running' /\ Counted' /\ Taken' /\ Printed'
    BY <2>1 DEF TypeOK
  <2>3. Apart'
    BY <2>1 DEF Apart, PutAt, GotAt, After
  <2>4. ASSUME NEW v \in 0..Loops, Got' <= v, v < Put'
        PROVE  buffer'[After(v - GotAt)'] = v
    <3>1. Put' = pi + 1 /\ Put = pi /\ PutAt = pi /\ Got' = Got /\ GotAt' = GotAt
      BY <2>1 DEF Put, Got, PutAt, GotAt
    <3>2. After(v - GotAt)' = After(v - GotAt)
      BY <2>1, <3>1 DEF After
    <3>3. CASE v = pi
      BY <2>1, <3>1, <3>2, <3>3 DEF Apart, TypeOK
    <3>4. CASE v # pi
      <4>1. v < Put /\ buffer[After(v - GotAt)] = v
        BY <2>4, <3>1, <3>4 DEF Held, TypeOK
      <4>2. /\ v - GotAt \in 0..(MAX - 1) /\ PutAt - GotAt \in 0..(MAX - 1)
            /\ v - GotAt # PutAt - GotAt
        BY <2>1, <2>4, <3>1, <4>1, <3>4, Distance, SMTT(20) DEF TypeOK
      <4>3. After(v - GotAt) \in Places /\ After(v - GotAt) # fill
        BY <4>2, AfterDistinct DEF Apart
      <4>4. QED
        BY <2>1, <3>2, <4>1, <4>3 DEF TypeOK
    <3>5. QED
      BY <3>3, <3>4
  <2>5. Held'
    BY <2>1, <2>4 DEF Held
  <2>6. QED
    BY <2>2, <2>3, <2>5
<1>3. CASE NextFill
  <2>1. fill' = IF fill + 1 = MAX THEN 0 ELSE fill + 1
    BY <1>3, FollowingWraps DEF NextFill, TypeOK
  <2>2. TypeOK' /\ Running' /\ Counted' /\ Taken' /\ Printed'
    BY <1>3, <2>1 DEF NextFill, TypeOK, Places
  <2>3. Apart'
    BY <1>3, <2>1, Distance DEF NextFill, Apart, TypeOK, Places, Put, PutAt, GotAt, After
  <2>4. Held'
    BY <1>3 DEF NextFill, Held, Put, Got, GotAt, After
  <2>5. QED
    BY <2>2, <2>3, <2>4
<1>4. CASE PostFull
  <2>1. TypeOK' /\ Running' /\ Counted' /\ Taken' /\ Printed'
    BY <1>4 DEF PostFull, TypeOK
  <2>2. Apart' /\ Held'
    BY <1>4 DEF PostFull, TypeOK, Apart, Held, Put, Got, PutAt, GotAt, After
  <2>3. QED
    BY <2>1, <2>2
<1>5. QED
  BY <1>1, <1>2, <1>3, <1>4 DEF Producer

\* The consumer gets the value that follows the last one it has printed.
LEMMA ConsumerStep ==
    ASSUME IInv, Consumer
    PROVE  IInv'
<1> USE ConstantsAssumption DEF IInv, Running, Counted, Taken
<1>1. CASE WaitFull
  BY <1>1 DEF WaitFull, TypeOK, Apart, Held, Put, Got, PutAt, GotAt, After, Printed, InOrder
<1>2. CASE Get
  <2>1. /\ cpc = "G1" /\ cpc' = "G2" /\ tmp' = buffer[use]
        /\ UNCHANGED <<empty, full, buffer, fill, use, ppc, pi, ci, output>>
    BY <1>2 DEF Get
  <2>2. Got = ci /\ GotAt = ci /\ ci < Put /\ After(0) = use
    BY <2>1, Distance DEF Got, GotAt, After, TypeOK, Places
  <2>3. tmp' = ci
    BY <2>1, <2>2 DEF Held, TypeOK
  <2>4. TypeOK' /\ Running' /\ Counted' /\ Taken' /\ Printed'
    BY <2>1, <2>3 DEF TypeOK, Printed, InOrder
  <2>5. Apart' /\ Held'
    BY <2>1, <2>2 DEF TypeOK, Apart, Held, Put, Got, PutAt, GotAt, After
  <2>6. QED
    BY <2>4, <2>5
<1>3. CASE NextUse
  <2>1. use' = IF use + 1 = MAX THEN 0 ELSE use + 1
    BY <1>3, FollowingWraps DEF NextUse, TypeOK
  <2>2. TypeOK' /\ Running' /\ Counted' /\ Taken' /\ Printed'
    BY <1>3, <2>1 DEF NextUse, TypeOK, Places, Printed, InOrder
  <2>3. /\ cpc = "G2" /\ cpc' = "C3" /\ GotAt = ci /\ GotAt' = ci + 1
        /\ Got' = Got /\ Put' = Put /\ PutAt' = PutAt /\ Got = ci + 1
        /\ UNCHANGED <<buffer, fill>>
    BY <1>3 DEF NextUse, Got, GotAt, Put, PutAt
  <2>4. ASSUME NEW n \in 1..MAX PROVE After(n - 1)' = After(n)
    BY <2>1 DEF After, TypeOK, Places
  <2>5. PutAt - GotAt \in 1..MAX /\ (PutAt - GotAt)' = (PutAt - GotAt) - 1
    BY <2>3, Distance
  <2>6. Apart'
    BY <2>3, <2>4, <2>5 DEF Apart, After
  <2>7. ASSUME NEW v \in 0..Loops, Got' <= v, v < Put'
        PROVE  buffer'[After(v - GotAt)'] = v
    <3>1. v - GotAt \in 1..MAX /\ (v - GotAt)' = (v - GotAt) - 1
      BY <2>3, <2>7, Distance DEF TypeOK
    <3>2. After(v - GotAt)' = After(v - GotAt)
      BY <2>4, <3>1 DEF After
    <3>3. QED
      BY <2>3, <2>7, <3>2 DEF Held
  <2>8. Held'
    BY <2>7 DEF Held
  <2>9. QED
    BY <2>2, <2>6, <2>8
<1>4. CASE PostEmpty
  BY <1>4 DEF PostEmpty, TypeOK, Apart, Held, Put, Got, PutAt, GotAt, After, Printed, InOrder
<1>5. CASE PrintTmp
  <2>1. /\ cpc = "print" /\ cpc' = "loop" /\ ci' = ci + 1 /\ output' = Append(output, tmp)
        /\ UNCHANGED <<empty, full, buffer, fill, use, ppc, pi, tmp>>
    BY <1>5 DEF PrintTmp
  <2>2. tmp = ci
    BY <2>1
  <2>3. TypeOK' /\ Running' /\ Counted' /\ Taken'
    BY <2>1 DEF TypeOK
  <2>4. Printed'
    BY <2>1, <2>2 DEF TypeOK, Printed, InOrder
  <2>5. Apart' /\ Held'
    BY <2>1 DEF TypeOK, Apart, Held, Put, Got, PutAt, GotAt, After
  <2>6. QED
    BY <2>3, <2>4, <2>5
<1>6. QED
  BY <1>1, <1>2, <1>3, <1>4, <1>5 DEF Consumer

\* Every step of either thread keeps the inductive invariant.
LEMMA InvAlways == Spec => []IInv
<1>1. IInv /\ [Next]_vars => IInv'
  <2>1. CASE UNCHANGED vars
    BY <2>1 DEF vars, IInv, TypeOK, Running, Counted, Apart, Held, Taken, Printed,
                InOrder, Put, Got, PutAt, GotAt, After
  <2>2. QED
    BY <2>1, ProducerStep, ConsumerStep DEF Next
<1>2. QED
  BY InvInit, <1>1, PTL DEF Spec

\* The programs with a queue leave the buffer alone.
LEMMA BufferRuns == MCSpec => Spec
<1>1. MCInit => Init
  BY DEF MCInit
<1>2. [MCNext]_allVars => [Next]_vars
  <2> USE DEF Of, OfBuffer, OfThreaded, OfText
  <2>1. CASE UNCHANGED allVars
    BY <2>1 DEF allVars
  <2>2. CASE OfBuffer(Producer) \/ OfBuffer(Consumer)
    BY <2>2 DEF Next
  <2>3. QED
    BY <2>1, <2>2 DEF MCNext
<1>3. QED
  BY <1>1, <1>2, PTL DEF MCSpec, Spec

-----------------------------------------------------------------------------
\* Both semaphores stay within 0 and MAX, and both indices in the buffer, for
\* a buffer of any size.
THEOREM TypeCorrect == Spec => []TypeOK
<1>1. IInv => TypeOK
  BY DEF IInv
<1>2. QED
  BY InvAlways, <1>1, PTL

\* The values are printed in the order in which the producer has put them.
THEOREM PrintedInOrder == Spec => []InOrder
<1>1. IInv => InOrder
  BY DEF IInv, Printed
<1>2. QED
  BY InvAlways, <1>1, PTL

\* Producer and consumer are never at one place of the buffer at once.
THEOREM PlacesApart == Spec => []NoClash
<1>1. IInv => NoClash
  BY Distance, ConstantsAssumption
     DEF IInv, NoClash, Apart, After, TypeOK, Places, Counted, PutAt, GotAt
<1>2. QED
  BY InvAlways, <1>1, PTL

-----------------------------------------------------------------------------
(* threaded_queue.c.                                                       *)

Ids  == 0..(MAX_THREAD - 1)
Last == 2 * MAX_THREAD     \* threads there are

InQueue(w) == {n \in 1..Len(mq) : mq[n].from = w}
With(w)    == {r \in Ids : \E m \in message[r] : m.from = w}
Gone(kind) == {n \in Ids : tpc[<<kind, n>>] = "gone"}

MqTypes ==
    /\ mq \in Seq([from : 0..MAX_THREAD, prio : Ids]) /\ stale \in Nat
    /\ tpc \in [Threaded!Threads -> {"none", "run", "gone"}]
    /\ DOMAIN message = Ids

\* main creates and joins each thread once.
StageInv ==
    \/ /\ stage[1] = "create" /\ stage[2] \in 1..Last
       /\ \A n \in stage[2]..Last : tpc[Threaded!Nth(n)] = "none"
    \/ /\ stage[1] = "join" /\ stage[2] \in 1..Last
       /\ \A n \in 1..(stage[2] - 1) : tpc[Threaded!Nth(n)] = "gone"
    \/ /\ stage[1] \in {"unlink", "done"}
       /\ \A n \in 1..Last : tpc[Threaded!Nth(n)] = "gone"

\* The message of a writer that has sent it is in one place.
PlaceInv ==
    /\ \A w \in Ids : IF tpc[<<"write", w>>] = "gone"
                      THEN \/ (\E n : InQueue(w) = {n}) /\ With(w) = {}
                           \/ InQueue(w) = {} /\ \E r : With(w) = {r}
                      ELSE InQueue(w) = {} /\ With(w) = {}
    /\ \A r \in Ids : tpc[<<"read", r>>] # "gone" => message[r] = {}

LengthInv == Len(mq) + Cardinality(Gone("read")) = stale + Cardinality(Gone("write"))

ThreadedInv == MqTypes /\ StageInv /\ PlaceInv /\ LengthInv

-----------------------------------------------------------------------------
(* text_data and structured_data.                                          *)

EndsAt    == {n \in 1..Len(queue) : queue[n] = "end"}
Writing   == {s \in Text!Runs : wpc[s] \in {"input", "send", "killed"}}
Listening == {s \in Text!Runs : rpc[s] \in {"receive", "killed"}}

TextTypes ==
    /\ queue \in Seq({"text", "end"}) /\ session \in 0..Sessions
    /\ wpc \in [Text!Runs -> {"none", "input", "send", "gone", "killed"}]
    /\ rpc \in [Text!Runs -> {"none", "receive", "gone", "killed"}]
    /\ DOMAIN data = Text!Runs
    /\ \A s \in Text!Runs : s > session => wpc[s] = "none" /\ rpc[s] = "none"
    /\ \A s \in Text!Runs : wpc[s] = "send" => data[s] \in {"text", "end"}

\* When no process1 will write any more, the last line is an end.
LastInv == Writing = {} => queue = <<>> \/ queue[Len(queue)] = "end"

TextInv == TextTypes /\ LastInv /\ Cardinality(Listening) = Cardinality(EndsAt) + Cardinality(Writing)

QInv == ThreadedInv /\ TextInv

-----------------------------------------------------------------------------
LEMMA QueuesCounted == \A S : Threaded!Cardinality(S) = Cardinality(S) /\ Text!Cardinality(S) = Cardinality(S)
BY DEF Threaded!Cardinality, Text!Cardinality, Cardinality

\* Every thread is the n-th of one n.
LEMMA Numbered ==
    /\ \A m, n \in 1..Last : Threaded!Nth(n) \in Threaded!Threads /\ (Threaded!Nth(m) = Threaded!Nth(n) => m = n)
    /\ \A k \in Ids : /\ k + 1 \in 1..Last /\ Threaded!Nth(k + 1) = <<"write", k>>
                      /\ k + MAX_THREAD + 1 \in 1..Last /\ Threaded!Nth(k + MAX_THREAD + 1) = <<"read", k>>
                      /\ <<"write", k>> \in Threaded!Threads /\ <<"read", k>> \in Threaded!Threads
BY QueuesAssumption DEF Threaded!Nth, Threaded!Threads, Threaded!Ids, Ids, Last

LEMMA GoneFinite == \A kind : IsFiniteSet(Gone(kind)) /\ Cardinality(Gone(kind)) \in Nat
<1>1. IsFiniteSet(Ids)
  BY FS_Interval, QueuesAssumption DEF Ids
<1>2. TAKE kind
<1>3. Gone(kind) \subseteq Ids
  BY DEF Gone
<1>4. QED
  BY <1>1, <1>3, FS_Subset, FS_CardinalityType

LEMMA ThreadedInit == Threaded!Init => ThreadedInv
<1> SUFFICES ASSUME Threaded!Init PROVE ThreadedInv
  OBVIOUS
<1>1. PICK prio \in [1..stale -> Ids] : mq = [n \in 1..stale |-> [from |-> MAX_THREAD, prio |-> prio[n]]]
  BY DEF Threaded!Init, Threaded!OldMessage, Threaded!Ids, Ids
<1>2. /\ stale \in 0..MAX_MSG /\ stage = <<"create", 1>>
      /\ tpc = [t \in Threaded!Threads |-> "none"] /\ message = [r \in Ids |-> {}]
  BY DEF Threaded!Init, Threaded!Ids, Ids
<1>3. stale \in Nat /\ MAX_THREAD \in 0..MAX_THREAD /\ Len(mq) = stale
  BY <1>1, <1>2, QueuesAssumption
<1>4. MqTypes
  BY <1>1, <1>2, <1>3 DEF MqTypes
<1>5. StageInv
  BY <1>2, Numbered, QueuesAssumption DEF StageInv, Last
<1>6. \A w \in Ids : InQueue(w) = {} /\ With(w) = {}
  BY <1>1, <1>2, <1>3, QueuesAssumption DEF InQueue, With, Ids
<1>7. \A k \in Ids : tpc[<<"write", k>>] = "none" /\ tpc[<<"read", k>>] = "none"
  BY <1>2, Numbered
<1>8. PlaceInv
  BY <1>2, <1>6, <1>7 DEF PlaceInv
<1>9. Gone("read") = {} /\ Gone("write") = {}
  BY <1>7 DEF Gone
<1>10. LengthInv
  BY <1>3, <1>9, FS_EmptySet DEF LengthInv
<1>11. QED
  BY <1>4, <1>5, <1>8, <1>10 DEF ThreadedInv

LEMMA SameThreads ==
    ASSUME MqTypes, PlaceInv, LengthInv, UNCHANGED <<mq, tpc, message, stale>>
    PROVE  MqTypes' /\ PlaceInv' /\ LengthInv'
<1>1. \A w \in Ids : InQueue(w)' = InQueue(w) /\ With(w)' = With(w)
  BY DEF InQueue, With
<1>2. Gone("read")' = Gone("read") /\ Gone("write")' = Gone("write")
  BY DEF Gone
<1>3. MqTypes'
  BY DEF MqTypes
<1>4. PlaceInv'
  BY <1>1 DEF PlaceInv
<1>5. QED
  BY <1>2, <1>3, <1>4 DEF LengthInv

\* main.
LEMMA MainStep ==
    ASSUME ThreadedInv, Threaded!Main
    PROVE  ThreadedInv'
<1> USE QueuesAssumption DEF ThreadedInv
<1>1. CASE Threaded!Create
  <2> DEFINE n == stage[2]
  <2>1. /\ n \in 1..Last /\ \A m \in n..Last : tpc[Threaded!Nth(m)] = "none"
        /\ tpc' = [tpc EXCEPT ![Threaded!Nth(n)] = "run"]
        /\ stage' = (IF n = Last THEN <<"join", 1>> ELSE <<"create", n + 1>>)
        /\ UNCHANGED <<mq, message, stale>>
    BY <1>1 DEF Threaded!Create, Threaded!Advance, StageInv, Last
  <2>2. Last \in Nat \ {0}
    BY DEF Last
  <2>3. MqTypes'
    BY <2>1, Numbered DEF MqTypes
  <2>4. \A m \in 1..Last : m # n => tpc'[Threaded!Nth(m)] = tpc[Threaded!Nth(m)]
    BY <2>1, Numbered DEF MqTypes
  <2>5. tpc'[Threaded!Nth(n)] = "run" /\ tpc[Threaded!Nth(n)] = "none"
    BY <2>1, <2>2, Numbered DEF MqTypes
  <2>6. StageInv'
    <3>1. CASE n = Last
      BY <2>1, <2>2, <3>1 DEF StageInv
    <3>2. CASE n # Last
      <4>1. n + 1 \in 1..Last /\ \A m \in (n + 1)..Last : m \in n..Last /\ m \in 1..Last /\ m # n
        BY <2>1, <2>2, <3>2
      <4>2. stage'[1] = "create" /\ stage'[2] = n + 1
        BY <2>1, <3>2
      <4>3. \A m \in (n + 1)..Last : tpc'[Threaded!Nth(m)] = "none"
        BY <2>1, <2>4, <4>1
      <4>4. \A m : Threaded!Nth(m)' = Threaded!Nth(m)
        BY DEF Threaded!Nth
      <4>5. QED
        BY <4>1, <4>2, <4>3, <4>4 DEF StageInv
    <3>3. QED
      BY <3>1, <3>2
  <2>7. \A k \in Ids : /\ tpc'[<<"write", k>>] = "gone" <=> tpc[<<"write", k>>] = "gone"
                       /\ tpc'[<<"read", k>>] = "gone" <=> tpc[<<"read", k>>] = "gone"
    BY <2>4, <2>5, Numbered
  <2>8. PlaceInv' /\ Gone("read")' = Gone("read") /\ Gone("write")' = Gone("write")
    <3>1. \A w \in Ids : InQueue(w)' = InQueue(w) /\ With(w)' = With(w)
      BY <2>1 DEF InQueue, With
    <3>2. QED
      BY <2>1, <2>7, <3>1 DEF PlaceInv, Gone
  <2>9. QED
    BY <2>1, <2>3, <2>6, <2>8 DEF LengthInv
<1>2. CASE Threaded!Join
  <2> DEFINE n == stage[2]
  <2>1. /\ n \in 1..Last /\ \A m \in 1..(n - 1) : tpc[Threaded!Nth(m)] = "gone"
        /\ tpc[Threaded!Nth(n)] = "gone"
        /\ stage' = (IF n = Last THEN <<"unlink", 1>> ELSE <<"join", n + 1>>)
        /\ UNCHANGED <<mq, tpc, message, stale>>
    BY <1>2 DEF Threaded!Join, Threaded!Advance, StageInv, Last
  <2>2. \A m \in 1..n : tpc[Threaded!Nth(m)] = "gone"
    BY <2>1
  <2>3. StageInv'
    <3>1. \A m : Threaded!Nth(m)' = Threaded!Nth(m)
      BY DEF Threaded!Nth
    <3>2. CASE n = Last
      BY <2>1, <2>2, <3>1, <3>2 DEF StageInv
    <3>3. CASE n # Last
      <4>1. n + 1 \in 1..Last /\ 1..((n + 1) - 1) = 1..n
        BY <2>1, <3>3 DEF Last
      <4>2. QED
        BY <2>1, <2>2, <3>1, <3>3, <4>1 DEF StageInv
    <3>4. QED
      BY <3>2, <3>3
  <2>4. QED
    BY <2>1, <2>3, SameThreads
<1>3. CASE Threaded!Unlink
  <2>1. stage'[1] = "done" /\ UNCHANGED <<mq, tpc, message, stale>>
    BY <1>3 DEF Threaded!Unlink
  <2>2. \A m : Threaded!Nth(m)' = Threaded!Nth(m)
    BY DEF Threaded!Nth
  <2>3. StageInv'
    BY <1>3, <2>1, <2>2 DEF StageInv, Threaded!Unlink
  <2>4. QED
    BY <2>1, <2>3, SameThreads
<1>4. QED
  BY <1>1, <1>2, <1>3 DEF Threaded!Main

\* A thread ends: main has created it, and can now join it.
LEMMA ThreadEnds ==
    ASSUME MqTypes, StageInv, NEW t \in Threaded!Threads, tpc[t] = "run",
           tpc' = [tpc EXCEPT ![t] = "gone"], stage' = stage
    PROVE  StageInv'
<1>1. \A n \in 1..Last : Threaded!Nth(n)' = Threaded!Nth(n) /\ Last' = Last
  BY DEF Threaded!Nth, Last
<1>2. \A n \in 1..Last : tpc'[Threaded!Nth(n)] = IF Threaded!Nth(n) = t THEN "gone" ELSE tpc[Threaded!Nth(n)]
  BY Numbered DEF MqTypes
<1>3. \A n \in 1..Last : /\ tpc[Threaded!Nth(n)] = "none" => tpc'[Threaded!Nth(n)] = "none"
                         /\ tpc[Threaded!Nth(n)] = "gone" => tpc'[Threaded!Nth(n)] = "gone"
  BY <1>2
<1>4. Last' = Last /\ Last \in Nat
  BY QueuesAssumption DEF Last
<1>5. stage[2] \in 1..Last => /\ \A n \in stage[2]..Last : n \in 1..Last
                              /\ \A n \in 1..(stage[2] - 1) : n \in 1..Last
  BY <1>4
<1>6. QED
  BY <1>1, <1>3, <1>4, <1>5 DEF StageInv

\* What is left of a sequence without its k-th element.
LEMMA WithoutKth ==
    ASSUME NEW S, NEW s \in Seq(S), NEW k \in 1..Len(s)
    PROVE  LET t == SubSeq(s, 1, k - 1) \o SubSeq(s, k + 1, Len(s))
           IN  /\ t \in Seq(S) /\ Len(t) = Len(s) - 1
               /\ \A n \in 1..(Len(s) - 1) : t[n] = IF n < k THEN s[n] ELSE s[n + 1]
<1> DEFINE p == SubSeq(s, 1, k - 1)
           q == SubSeq(s, k + 1, Len(s))
           L == Len(s)
<1>1. L \in Nat /\ k \in Nat /\ 1 <= k /\ k <= L
  OBVIOUS
<1>2. p \in Seq(S) /\ Len(p) = k - 1 /\ \A n \in 1..(k - 1) : p[n] = s[n]
  <2>1. \A n \in 1..(k - 1) : s[n] \in S
    BY <1>1, ElementOfSeq
  <2>2. QED
    BY <1>1, <2>1, SubSeqProperties
<1>3. q \in Seq(S) /\ Len(q) = L - k /\ \A n \in 1..(L - k) : q[n] = s[k + n]
  BY <1>1, SubSeqProperties
<1>4. p \o q \in Seq(S) /\ Len(p \o q) = L - 1
  <2> HIDE DEF p, q
  <2>1. p \o q \in Seq(S) /\ Len(p \o q) = Len(p) + Len(q)
    BY ONLY <1>2, <1>3, ConcatProperties
  <2>2. QED
    BY <1>1, <1>2, <1>3, <2>1
<1>5. ASSUME NEW n \in 1..(L - 1) PROVE (p \o q)[n] = IF n < k THEN s[n] ELSE s[n + 1]
  <2> HIDE DEF p, q
  <2>1. n \in 1..(Len(p) + Len(q)) /\ Len(p) = k - 1
    BY <1>1, <1>2, <1>3
  <2>2. (p \o q)[n] = IF n <= Len(p) THEN p[n] ELSE q[n - Len(p)]
    BY <1>2, <1>3, <2>1, ConcatProperties
  <2>3. CASE n < k
    BY <1>1, <1>2, <2>1, <2>2, <2>3
  <2>4. CASE n >= k
    <3>1. n - (k - 1) \in 1..(L - k) /\ k + (n - (k - 1)) = n + 1 /\ ~(n <= k - 1) /\ ~(n < k)
      BY <1>1, <2>4
    <3>2. (p \o q)[n] = q[n - (k - 1)]
      BY <2>1, <2>2, <3>1
    <3>3. QED
      BY <1>3, <3>1, <3>2
  <2>5. n < k \/ n >= k
    BY <1>1
  <2>6. QED
    BY <2>3, <2>4, <2>5
<1>6. QED
  BY <1>4, <1>5

\* A writer sends its message: that is now in the queue.
LEMMA SendStep ==
    ASSUME ThreadedInv, NEW w \in Ids, Threaded!Send(w)
    PROVE  ThreadedInv'
<1> USE QueuesAssumption DEF ThreadedInv
<1> DEFINE L == Len(mq)
<1>1. /\ tpc[<<"write", w>>] = "run" /\ mq' = Append(mq, [from |-> w, prio |-> w])
      /\ tpc' = [tpc EXCEPT ![<<"write", w>>] = "gone"]
      /\ UNCHANGED <<stage, message, stale>>
  BY DEF Threaded!Send
<1>2. <<"write", w>> \in Threaded!Threads /\ [from |-> w, prio |-> w] \in [from : 0..MAX_THREAD, prio : Ids]
  <2>1. w \in 0..MAX_THREAD
    BY DEF Ids
  <2>2. QED
    BY <2>1, Numbered
<1>3. /\ Len(mq') = L + 1 /\ mq'[L + 1] = [from |-> w, prio |-> w] /\ L \in Nat
      /\ \A n \in 1..L : mq'[n] = mq[n]
  BY <1>1 DEF MqTypes
<1>4. MqTypes'
  BY <1>1, <1>2 DEF MqTypes
<1>5. \A t \in Threaded!Threads : tpc'[t] = IF t = <<"write", w>> THEN "gone" ELSE tpc[t]
  BY <1>1, <1>2 DEF MqTypes
<1>6. StageInv'
  BY <1>1, <1>2, ThreadEnds
<1>7. \A k \in Ids : InQueue(k)' = (IF k = w THEN InQueue(k) \cup {L + 1} ELSE InQueue(k))
  <2>1. 1..(L + 1) = (1..L) \cup {L + 1}
    BY <1>3
  <2>2. QED
    BY <1>3, <2>1 DEF InQueue
<1>8. \A k \in Ids : With(k)' = With(k)
  BY <1>1 DEF With
<1>9. InQueue(w) = {} /\ With(w) = {}
  BY <1>1 DEF PlaceInv
<1>10. PlaceInv'
  <2>1. ASSUME NEW k \in Ids
        PROVE  IF tpc'[<<"write", k>>] = "gone"
               THEN \/ (\E n : InQueue(k)' = {n}) /\ With(k)' = {}
                    \/ InQueue(k)' = {} /\ \E r : With(k)' = {r}
               ELSE InQueue(k)' = {} /\ With(k)' = {}
    <3>1. CASE k = w
      BY <3>1, <1>2, <1>5, <1>7, <1>8, <1>9
    <3>2. CASE k # w
      BY <3>2, <1>5, <1>7, <1>8, Numbered DEF PlaceInv
    <3>3. QED
      BY <3>1, <3>2
  <2>2. \A r \in Ids : tpc'[<<"read", r>>] # "gone" => message'[r] = {}
    BY <1>1, <1>5, Numbered DEF PlaceInv
  <2>3. QED
    BY <2>1, <2>2 DEF PlaceInv
<1>11. LengthInv'
  <2>1. Gone("read")' = Gone("read")
    BY <1>5, Numbered DEF Gone
  <2>2. Gone("write")' = Gone("write") \cup {w}
    BY <1>5, Numbered DEF Gone
  <2>3. w \notin Gone("write")
    BY <1>1 DEF Gone
  <2>4. Cardinality(Gone("write")') = Cardinality(Gone("write")) + 1
    BY <2>2, <2>3, GoneFinite, FS_AddElement
  <2>5. QED
    BY <1>1, <1>3, <2>1, <2>4, GoneFinite DEF LengthInv, MqTypes
<1>12. QED
  BY <1>4, <1>6, <1>10, <1>11

\* A reader takes a message out of the queue, whichever is next.
LEMMA ReceiveStep ==
    ASSUME ThreadedInv, NEW r \in Ids, Threaded!Receive(r)
    PROVE  ThreadedInv'
<1> USE QueuesAssumption DEF ThreadedInv
<1> DEFINE L == Len(mq)
<1>1. PICK k \in 1..L : message' = [message EXCEPT ![r] = {mq[k]}] /\ mq' = Threaded!Without(k)
  BY DEF Threaded!Receive
<1>2. /\ tpc[<<"read", r>>] = "run" /\ tpc' = [tpc EXCEPT ![<<"read", r>>] = "gone"]
      /\ UNCHANGED <<stage, stale>>
  BY DEF Threaded!Receive
<1>3. L \in Nat /\ mq \in Seq([from : 0..MAX_THREAD, prio : Ids]) /\ k - 1 \in 0..L
  BY <1>1 DEF MqTypes
<1>6. /\ mq' \in Seq([from : 0..MAX_THREAD, prio : Ids]) /\ Len(mq') = L - 1
      /\ \A n \in 1..(L - 1) : mq'[n] = IF n < k THEN mq[n] ELSE mq[n + 1]
  BY <1>1, <1>3, WithoutKth DEF Threaded!Without
<1>7. \A t \in Threaded!Threads : tpc'[t] = IF t = <<"read", r>> THEN "gone" ELSE tpc[t]
  BY <1>2, Numbered DEF MqTypes
<1>8. MqTypes'
  BY <1>1, <1>2, <1>6, Numbered DEF MqTypes
<1>9. StageInv'
  BY <1>2, Numbered, ThreadEnds
<1>10. \A q \in Ids : message'[q] = IF q = r THEN {mq[k]} ELSE message[q]
  BY <1>1 DEF MqTypes
<1>11. message[r] = {}
  BY <1>2 DEF PlaceInv
<1>12. \A w \in Ids : With(w)' = (IF mq[k].from = w THEN With(w) \cup {r} ELSE With(w))
  <2>1. TAKE w \in Ids
  <2>2. \A q \in Ids : (\E m \in message'[q] : m.from = w)
                         <=> IF q = r THEN mq[k].from = w ELSE \E m \in message[q] : m.from = w
    BY <1>10
  <2>3. ~\E m \in message[r] : m.from = w
    BY <1>11
  <2>4. QED
    BY <2>2, <2>3 DEF With
<1>13. \A w \in Ids : /\ mq[k].from = w => k \in InQueue(w)
                      /\ mq[k].from # w => k \notin InQueue(w)
  BY <1>1 DEF InQueue
<1>14. \A w \in Ids : InQueue(w)' = {IF n < k THEN n ELSE n - 1 : n \in InQueue(w) \ {k}}
  <2>1. TAKE w \in Ids
  <2> DEFINE Before(n) == IF n < k THEN n ELSE n - 1
  <2>2. ASSUME NEW n \in InQueue(w)' PROVE \E m \in InQueue(w) \ {k} : n = Before(m)
    <3>1. n \in 1..(L - 1) /\ mq'[n].from = w
      BY <2>2, <1>6 DEF InQueue
    <3>2. CASE n < k
      <4>1. n \in 1..L /\ n # k
        BY <1>3, <3>1, <3>2
      <4>2. mq[n].from = w
        BY <1>6, <3>1, <3>2
      <4>3. n \in InQueue(w) \ {k}
        BY <4>1, <4>2 DEF InQueue
      <4>4. QED
        BY <3>2, <4>3
    <3>3. CASE n >= k
      <4>1. n + 1 \in 1..L /\ n + 1 # k /\ ~(n < k) /\ ~(n + 1 < k) /\ (n + 1) - 1 = n
        BY <1>3, <3>1, <3>3
      <4>2. mq[n + 1].from = w
        BY <1>6, <3>1, <4>1
      <4>3. n + 1 \in InQueue(w) \ {k}
        BY <4>1, <4>2 DEF InQueue
      <4>4. QED
        BY <4>1, <4>3
    <3>4. QED
      BY <1>1, <3>1, <3>2, <3>3
  <2>3. ASSUME NEW m \in InQueue(w) \ {k} PROVE Before(m) \in InQueue(w)'
    <3>1. m \in 1..L /\ m # k /\ mq[m].from = w
      BY <2>3 DEF InQueue
    <3>2. CASE m < k
      <4>1. m \in 1..(L - 1)
        BY <1>1, <1>3, <3>1, <3>2
      <4>2. mq'[m] = mq[m]
        BY <1>6, <3>2, <4>1
      <4>3. QED
        BY <1>6, <3>1, <3>2, <4>1, <4>2 DEF InQueue
    <3>3. CASE m > k
      <4>1. m - 1 \in 1..(L - 1) /\ ~(m - 1 < k) /\ (m - 1) + 1 = m /\ ~(m < k)
        BY <1>1, <1>3, <3>1, <3>3
      <4>2. mq'[m - 1] = mq[m]
        BY <1>6, <4>1
      <4>3. QED
        BY <1>6, <3>1, <4>1, <4>2 DEF InQueue
    <3>4. QED
      BY <1>1, <3>1, <3>2, <3>3
  <2>4. QED
    BY <2>2, <2>3
<1>15. PlaceInv'
  <2>1. ASSUME NEW w \in Ids
        PROVE  IF tpc'[<<"write", w>>] = "gone"
               THEN \/ (\E n : InQueue(w)' = {n}) /\ With(w)' = {}
                    \/ InQueue(w)' = {} /\ \E q : With(w)' = {q}
               ELSE InQueue(w)' = {} /\ With(w)' = {}
    <3>1. tpc'[<<"write", w>>] = tpc[<<"write", w>>]
      BY <1>7, Numbered
    <3>2. CASE mq[k].from = w
      <4>1. InQueue(w) = {k} /\ With(w) = {} /\ tpc[<<"write", w>>] = "gone"
        BY <3>2, <1>13 DEF PlaceInv
      <4>2. InQueue(w)' = {} /\ With(w)' = {r}
        BY <3>2, <4>1, <1>12, <1>14
      <4>3. QED
        BY <3>1, <4>1, <4>2
    <3>3. CASE mq[k].from # w
      <4>1. InQueue(w) \ {k} = InQueue(w) /\ With(w)' = With(w)
        BY <3>3, <1>12, <1>13
      <4>2. InQueue(w)' = {IF n < k THEN n ELSE n - 1 : n \in InQueue(w)}
        BY <1>14, <4>1
      <4>3. CASE InQueue(w) = {}
        BY <3>1, <4>1, <4>2, <4>3 DEF PlaceInv
      <4>4. CASE InQueue(w) # {}
        <5>1. tpc[<<"write", w>>] = "gone" /\ With(w) = {}
          BY <4>4 DEF PlaceInv
        <5>2. PICK n : InQueue(w) = {n}
          BY <4>4, <5>1 DEF PlaceInv
        <5>3. InQueue(w)' = {IF n < k THEN n ELSE n - 1}
          BY <4>2, <5>2
        <5>4. QED
          BY <3>1, <4>1, <5>1, <5>3
      <4>5. QED
        BY <4>3, <4>4
    <3>4. QED
      BY <3>2, <3>3
  <2>2. \A q \in Ids : tpc'[<<"read", q>>] # "gone" => message'[q] = {}
    BY <1>7, <1>10, Numbered DEF PlaceInv
  <2>3. QED
    BY <2>1, <2>2 DEF PlaceInv
<1>16. LengthInv'
  <2>1. Gone("write")' = Gone("write")
    BY <1>7, Numbered DEF Gone
  <2>2. Gone("read")' = Gone("read") \cup {r}
    BY <1>7, Numbered DEF Gone
  <2>3. r \notin Gone("read")
    BY <1>2 DEF Gone
  <2>4. Cardinality(Gone("read")') = Cardinality(Gone("read")) + 1
    BY <2>2, <2>3, GoneFinite, FS_AddElement
  <2>5. QED
    BY <1>2, <1>3, <1>6, <2>1, <2>4, GoneFinite DEF LengthInv, MqTypes
<1>17. QED
  BY <1>8, <1>9, <1>15, <1>16

-----------------------------------------------------------------------------
LEMMA TextFinite ==
    /\ IsFiniteSet(Writing) /\ IsFiniteSet(Listening)
    /\ Cardinality(Writing) \in Nat /\ Cardinality(Listening) \in Nat
    /\ TextTypes => IsFiniteSet(EndsAt) /\ Cardinality(EndsAt) \in Nat
<1>1. IsFiniteSet(Text!Runs)
  BY FS_Interval, QueuesAssumption DEF Text!Runs
<1>2. Writing \subseteq Text!Runs /\ Listening \subseteq Text!Runs
  BY DEF Writing, Listening
<1>3. TextTypes => IsFiniteSet(1..Len(queue))
  BY FS_Interval DEF TextTypes
<1>4. EndsAt \subseteq 1..Len(queue)
  BY DEF EndsAt
<1>5. IsFiniteSet(Writing) /\ IsFiniteSet(Listening) /\ (TextTypes => IsFiniteSet(EndsAt))
  BY <1>1, <1>2, <1>3, <1>4, FS_Subset
<1>6. QED
  BY <1>5, FS_CardinalityType

\* The tail of a queue holds an end less only if its head is one.
LEMMA EndsInTail ==
    ASSUME TextTypes, queue # <<>>, queue' = Tail(queue)
    PROVE  Cardinality(EndsAt') = IF Head(queue) = "end" THEN Cardinality(EndsAt) - 1 ELSE Cardinality(EndsAt)
<1> DEFINE L == Len(queue)
           Later == EndsAt \ {1}
           f == [n \in Later |-> n - 1]
<1>1. /\ L \in Nat \ {0} /\ Len(queue') = L - 1 /\ Head(queue) = queue[1]
      /\ \A n \in 1..(L - 1) : queue'[n] = queue[n + 1]
  BY HeadTailProperties DEF TextTypes
<1>2. IsFiniteSet(Later) /\ Cardinality(Later) = IF 1 \in EndsAt THEN Cardinality(EndsAt) - 1 ELSE Cardinality(EndsAt)
  BY TextFinite, FS_RemoveElement
<1>3. 1 \in EndsAt <=> Head(queue) = "end"
  BY <1>1 DEF EndsAt
<1>4. \A n \in Later : n - 1 \in EndsAt' /\ n \in Int
  <2>1. TAKE n \in Later
  <2>2. n \in 1..L /\ n # 1 /\ queue[n] = "end"
    BY DEF EndsAt
  <2>3. n - 1 \in 1..(L - 1) /\ (n - 1) + 1 = n
    BY <1>1, <2>2
  <2>4. QED
    BY <1>1, <2>2, <2>3 DEF EndsAt
<1>5. \A n \in EndsAt' : n + 1 \in Later /\ f[n + 1] = n
  <2>1. TAKE n \in EndsAt'
  <2>2. n \in 1..(L - 1) /\ queue'[n] = "end"
    BY <1>1 DEF EndsAt
  <2>3. n + 1 \in 1..L /\ n + 1 # 1 /\ (n + 1) - 1 = n /\ queue[n + 1] = "end"
    BY <1>1, <2>2
  <2>4. n + 1 \in Later
    BY <2>3 DEF EndsAt
  <2>5. QED
    BY <2>3, <2>4
<1>6. f \in Bijection(Later, EndsAt')
  <2>1. f \in [Later -> EndsAt']
    BY <1>4
  <2>2. \A m, n \in Later : f[m] = f[n] => m = n
    BY <1>4
  <2>3. \A n \in EndsAt' : \E m \in Later : f[m] = n
    BY <1>5
  <2>4. QED
    BY <2>1, <2>2, <2>3, Fun_IsBij
<1>7. Cardinality(EndsAt') = Cardinality(Later)
  BY <1>2, <1>6, FS_Bijection DEF ExistsBijection
<1>8. QED
  BY <1>2, <1>3, <1>7

LEMMA TextInit == Text!Init => TextInv
<1> SUFFICES ASSUME Text!Init PROVE TextInv
  OBVIOUS
<1>1. TextTypes /\ LastInv
  BY QueuesAssumption DEF Text!Init, TextTypes, LastInv
<1>2. Writing = {} /\ Listening = {} /\ EndsAt = {}
  BY DEF Text!Init, Writing, Listening, EndsAt
<1>3. QED
  BY <1>1, <1>2, FS_EmptySet DEF TextInv

\* start.sh starts a reader and a writer: an end is to come for the reader.
LEMMA StartStep ==
    ASSUME TextInv, Text!Start
    PROVE  TextInv'
<1> USE QueuesAssumption DEF TextInv
<1> DEFINE s == session + 1
<1>1. /\ session < Sessions /\ session' = s
      /\ wpc' = [wpc EXCEPT ![s] = "input"] /\ rpc' = [rpc EXCEPT ![s] = "receive"]
      /\ UNCHANGED <<queue, data, lines, killed>>
  BY DEF Text!Start
<1>2. s \in Text!Runs /\ s \in 0..Sessions /\ s > session
  BY <1>1 DEF TextTypes, Text!Runs
<1>3. wpc[s] = "none" /\ rpc[s] = "none"
  BY <1>2 DEF TextTypes
<1>4. \A r \in Text!Runs : /\ wpc'[r] = IF r = s THEN "input" ELSE wpc[r]
                           /\ rpc'[r] = IF r = s THEN "receive" ELSE rpc[r]
  BY <1>1 DEF TextTypes
<1>5. Text!Runs' = Text!Runs /\ EndsAt' = EndsAt
  BY <1>1 DEF Text!Runs, EndsAt
<1>6. TextTypes'
  <2>1. \A r \in Text!Runs : r > s => r > session /\ r # s
    BY DEF Text!Runs, TextTypes
  <2>2. QED
    BY <1>1, <1>2, <1>4, <1>5, <2>1 DEF TextTypes
<1>7. Writing' = Writing \cup {s} /\ s \notin Writing /\ Listening' = Listening \cup {s} /\ s \notin Listening
  BY <1>2, <1>3, <1>4, <1>5 DEF Writing, Listening
<1>8. /\ Cardinality(Writing') = Cardinality(Writing) + 1
      /\ Cardinality(Listening') = Cardinality(Listening) + 1
  BY <1>7, TextFinite, FS_AddElement
<1>9. LastInv'
  BY <1>7 DEF LastInv
<1>10. QED
  BY <1>5, <1>6, <1>8, <1>9, TextFinite

\* A line is entered.
LEMMA InputStep ==
    ASSUME TextInv, NEW s \in Text!Runs, Text!Input(s)
    PROVE  TextInv'
<1> USE DEF TextInv
<1>1. /\ wpc[s] = "input" /\ wpc' = [wpc EXCEPT ![s] = "send"]
      /\ UNCHANGED <<queue, session, rpc, killed>>
  BY DEF Text!Input
<1>2. PICK l \in {"text", "end"} : data' = [data EXCEPT ![s] = l]
  BY DEF Text!Input
<1>3. \A r \in Text!Runs : wpc'[r] = (IF r = s THEN "send" ELSE wpc[r]) /\ data'[r] = IF r = s THEN l ELSE data[r]
  BY <1>1, <1>2 DEF TextTypes
<1>4. Text!Runs' = Text!Runs /\ EndsAt' = EndsAt /\ Listening' = Listening
  BY <1>1 DEF Text!Runs, EndsAt, Listening
<1>5. Writing' = Writing
  BY <1>1, <1>3, <1>4 DEF Writing
<1>6. TextTypes'
  BY <1>1, <1>2, <1>3, <1>4 DEF TextTypes
<1>7. QED
  BY <1>1, <1>4, <1>5, <1>6 DEF LastInv

\* A line is sent: with an end the writer leaves.
LEMMA SendTextStep ==
    ASSUME TextInv, NEW s \in Text!Runs, Text!Send(s)
    PROVE  TextInv'
<1> USE DEF TextInv
<1> DEFINE L == Len(queue)
<1>1. /\ wpc[s] = "send" /\ queue' = Append(queue, data[s])
      /\ wpc' = [wpc EXCEPT ![s] = IF data[s] = "end" THEN "gone" ELSE "input"]
      /\ UNCHANGED <<session, data, lines, rpc, killed>>
  BY DEF Text!Send
<1>2. data[s] \in {"text", "end"}
  BY <1>1 DEF TextTypes
<1>3. /\ L \in Nat /\ Len(queue') = L + 1 /\ queue'[L + 1] = data[s] /\ queue' \in Seq({"text", "end"})
      /\ \A n \in 1..L : queue'[n] = queue[n]
  BY <1>1, <1>2 DEF TextTypes
<1>4. \A r \in Text!Runs : wpc'[r] = IF r = s THEN IF data[s] = "end" THEN "gone" ELSE "input" ELSE wpc[r]
  BY <1>1 DEF TextTypes
<1>5. Text!Runs' = Text!Runs /\ Listening' = Listening
  BY <1>1 DEF Text!Runs, Listening
<1>6. TextTypes'
  BY <1>1, <1>2, <1>3, <1>4, <1>5 DEF TextTypes
<1>7. s \in Writing
  BY <1>1 DEF Writing
<1>8. EndsAt' = IF data[s] = "end" THEN EndsAt \cup {L + 1} ELSE EndsAt
  <2>1. 1..(L + 1) = (1..L) \cup {L + 1}
    BY <1>3
  <2>2. QED
    BY <1>2, <1>3, <2>1 DEF EndsAt
<1>9. L + 1 \notin EndsAt
  BY <1>3 DEF EndsAt
<1>10. CASE data[s] = "end"
  <2>1. Writing' = Writing \ {s}
    BY <1>4, <1>5, <1>10 DEF Writing
  <2>2. LastInv'
    BY <1>3, <1>10 DEF LastInv
  <2>3. Cardinality(Writing') = Cardinality(Writing) - 1
    BY <1>7, <2>1, TextFinite, FS_RemoveElement
  <2>4. Cardinality(EndsAt') = Cardinality(EndsAt) + 1
    BY <1>8, <1>9, <1>10, TextFinite, FS_AddElement
  <2>5. QED
    BY <1>5, <1>6, <2>2, <2>3, <2>4, TextFinite
<1>11. CASE data[s] # "end"
  <2>1. Writing' = Writing
    BY <1>1, <1>4, <1>5, <1>11 DEF Writing
  <2>2. QED
    BY <1>5, <1>6, <1>7, <1>8, <1>11, <2>1 DEF LastInv
<1>12. QED
  BY <1>10, <1>11

\* A line is received: with an end the reader leaves.
LEMMA ReceiveTextStep ==
    ASSUME TextInv, NEW s \in Text!Runs, Text!Receive(s)
    PROVE  TextInv'
<1> USE DEF TextInv
<1> DEFINE L == Len(queue)
<1>1. /\ rpc[s] = "receive" /\ queue # <<>> /\ queue' = Tail(queue)
      /\ rpc' = [rpc EXCEPT ![s] = IF Head(queue) = "end" THEN "gone" ELSE "receive"]
      /\ UNCHANGED <<session, wpc, data, lines, killed>>
  BY DEF Text!Receive
<1>2. /\ L \in Nat \ {0} /\ queue' \in Seq({"text", "end"}) /\ Len(queue') = L - 1
      /\ \A n \in 1..(L - 1) : queue'[n] = queue[n + 1]
  BY <1>1, HeadTailProperties DEF TextTypes
<1>3. \A r \in Text!Runs : rpc'[r] = IF r = s THEN IF Head(queue) = "end" THEN "gone" ELSE "receive" ELSE rpc[r]
  BY <1>1 DEF TextTypes
<1>4. Text!Runs' = Text!Runs /\ Writing' = Writing
  BY <1>1 DEF Text!Runs, Writing
<1>5. TextTypes'
  BY <1>1, <1>2, <1>3, <1>4 DEF TextTypes
<1>6. LastInv'
  <2>1. CASE L = 1
    BY <1>2, <2>1, EmptySeq DEF LastInv
  <2>2. CASE L # 1
    <3>1. L - 1 \in 1..(L - 1) /\ (L - 1) + 1 = L
      BY <1>2, <2>2
    <3>2. queue'[Len(queue')] = queue[L]
      BY <1>2, <3>1
    <3>3. QED
      BY <1>1, <1>4, <3>2 DEF LastInv
  <2>3. QED
    BY <2>1, <2>2
<1>7. Listening' = IF Head(queue) = "end" THEN Listening \ {s} ELSE Listening
  BY <1>1, <1>3, <1>4 DEF Listening
<1>8. s \in Listening
  BY <1>1 DEF Listening
<1>9. Cardinality(Listening') = IF Head(queue) = "end" THEN Cardinality(Listening) - 1 ELSE Cardinality(Listening)
  BY <1>7, <1>8, TextFinite, FS_RemoveElement
<1>10. QED
  BY <1>1, <1>4, <1>5, <1>6, <1>9, EndsInTail, TextFinite

\* A process that is terminated counts like one that waits for ever.
LEMMA KillStep ==
    ASSUME TextInv, NEW s \in Text!Runs, Text!Kill(s)
    PROVE  TextInv'
<1> USE DEF TextInv
<1>1. /\ \A r \in Text!Runs : wpc'[r] = wpc[r] \/ (wpc[r] \in {"input", "send"} /\ wpc'[r] = "killed")
      /\ \A r \in Text!Runs : rpc'[r] = rpc[r] \/ (rpc[r] = "receive" /\ rpc'[r] = "killed")
      /\ wpc' \in [Text!Runs -> {"none", "input", "send", "gone", "killed"}]
      /\ rpc' \in [Text!Runs -> {"none", "receive", "gone", "killed"}]
      /\ UNCHANGED <<queue, session, data, lines>>
  BY DEF Text!Kill, Text!KillWriter, Text!KillReader, TextTypes
<1>2. Text!Runs' = Text!Runs /\ EndsAt' = EndsAt
  BY <1>1 DEF Text!Runs, EndsAt
<1>3. Writing' = Writing /\ Listening' = Listening
  BY <1>1, <1>2 DEF Writing, Listening
<1>4. TextTypes'
  <2>1. \A r \in Text!Runs : wpc'[r] = "send" => data'[r] \in {"text", "end"}
    BY <1>1 DEF TextTypes
  <2>2. \A r \in Text!Runs : r > session' => wpc'[r] = "none" /\ rpc'[r] = "none"
    BY <1>1 DEF TextTypes
  <2>3. QED
    BY <1>1, <1>2, <2>1, <2>2 DEF TextTypes
<1>5. QED
  BY <1>1, <1>2, <1>3, <1>4 DEF LastInv

-----------------------------------------------------------------------------
LEMMA QueuesInit == MCInit => ThreadedInv /\ TextInv
BY ThreadedInit, TextInit DEF MCInit

LEMMA QueuesStep ==
    ASSUME ThreadedInv, TextInv, [MCNext]_allVars
    PROVE  ThreadedInv' /\ TextInv'
<1>1. UNCHANGED tqVars => ThreadedInv'
  <2> SUFFICES ASSUME UNCHANGED tqVars PROVE ThreadedInv'
    OBVIOUS
  <2>1. UNCHANGED <<mq, stage, tpc, message, stale>>
    BY DEF tqVars
  <2>2. \A n : Threaded!Nth(n)' = Threaded!Nth(n)
    BY DEF Threaded!Nth
  <2>3. StageInv'
    BY <2>1, <2>2 DEF ThreadedInv, StageInv, Last
  <2>4. QED
    BY <2>1, <2>3, SameThreads DEF ThreadedInv
<1>2. UNCHANGED textVars => TextInv'
  BY DEF textVars, TextInv, TextTypes, LastInv, Writing, Listening, EndsAt, Text!Runs
<1>3. CASE UNCHANGED allVars
  BY <1>1, <1>2, <1>3 DEF allVars
<1>4. CASE OfBuffer(Producer) \/ OfBuffer(Consumer)
  BY <1>1, <1>2, <1>4 DEF OfBuffer, Of
<1>5. CASE OfThreaded(Threaded!Main)
  BY <1>2, <1>5, MainStep DEF OfThreaded, Of
<1>6. ASSUME NEW n \in Ids, OfThreaded(Threaded!Thread(n)) PROVE ThreadedInv' /\ TextInv'
  BY <1>2, <1>6, SendStep, ReceiveStep DEF OfThreaded, Of, Threaded!Thread
<1>7. CASE OfText(Text!Start)
  BY <1>1, <1>7, StartStep DEF OfText, Of
<1>8. ASSUME NEW s \in Text!Runs, OfText(Text!Process1(s)) \/ OfText(Text!Receive(s)) \/ OfText(Text!Kill(s))
      PROVE  ThreadedInv' /\ TextInv'
  BY <1>1, <1>8, InputStep, SendTextStep, ReceiveTextStep, KillStep DEF OfText, Of, Text!Process1
<1>9. QED
  BY <1>3, <1>4, <1>5, <1>6, <1>7, <1>8 DEF MCNext, Ids, Text!Runs

\* The message of a writer that has sent it is counted once.
LEMMA PlacesCounted == ThreadedInv => Threaded!EachMessageOnce
<1> SUFFICES ASSUME ThreadedInv PROVE Threaded!EachMessageOnce
  OBVIOUS
<1> USE DEF ThreadedInv
<1>1. \A w \in Ids : Cardinality(InQueue(w)) + Cardinality(With(w)) = IF tpc[<<"write", w>>] = "gone" THEN 1 ELSE 0
  <2>1. TAKE w \in Ids
  <2>2. CASE InQueue(w) = {} /\ With(w) = {} /\ tpc[<<"write", w>>] # "gone"
    BY <2>2, FS_EmptySet
  <2>3. CASE (\E n : InQueue(w) = {n}) /\ With(w) = {} /\ tpc[<<"write", w>>] = "gone"
    <3>1. PICK n : InQueue(w) = {n}
      BY <2>3
    <3>2. Cardinality(InQueue(w)) = 1 /\ Cardinality(With(w)) = 0
      BY <2>3, <3>1, FS_EmptySet, FS_Singleton
    <3>3. QED
      BY <2>3, <3>2
  <2>4. CASE InQueue(w) = {} /\ (\E r : With(w) = {r}) /\ tpc[<<"write", w>>] = "gone"
    <3>1. PICK r : With(w) = {r}
      BY <2>4
    <3>2. Cardinality(InQueue(w)) = 0 /\ Cardinality(With(w)) = 1
      BY <2>4, <3>1, FS_EmptySet, FS_Singleton
    <3>3. QED
      BY <2>4, <3>2
  <2>5. QED
    BY <2>2, <2>3, <2>4 DEF PlaceInv
<1>2. ASSUME stage[1] \in {"unlink", "done"} PROVE Len(mq) = stale
  <2>1. \A n \in 1..Last : tpc[Threaded!Nth(n)] = "gone"
    BY <1>2 DEF StageInv
  <2>2. \A k \in Ids : tpc[<<"write", k>>] = "gone" /\ tpc[<<"read", k>>] = "gone"
    <3>1. TAKE k \in Ids
    <3>2. tpc[Threaded!Nth(k + 1)] = "gone" /\ tpc[Threaded!Nth(k + MAX_THREAD + 1)] = "gone"
      BY <2>1, Numbered
    <3>3. QED
      BY <3>2, Numbered
  <2>3. Gone("read") = Ids /\ Gone("write") = Ids
    BY <2>2 DEF Gone
  <2>4. QED
    BY <2>3, GoneFinite DEF LengthInv, MqTypes
<1>3. QED
  BY <1>1, <1>2, QueuesCounted DEF Threaded!EachMessageOnce, Threaded!Ids, Ids, InQueue, With

\* When nobody will write and nobody read, there is no end in the queue, and
\* the last line would be one.
LEMMA EndsCounted == TextInv => Text!EndsBalance
<1> SUFFICES ASSUME TextInv PROVE Text!EndsBalance
  OBVIOUS
<1> USE DEF TextInv
<1>1. \A S : /\ Text!Count(rpc, S) = Cardinality({s \in Text!Runs : rpc[s] \in S})
             /\ Text!Count(wpc, S) = Cardinality({s \in Text!Runs : wpc[s] \in S})
  BY QueuesCounted DEF Text!Count
<1>2. Text!Count(rpc, {"receive", "killed"}) = Cardinality(Listening)
  BY <1>1 DEF Listening
<1>3. Text!Count(wpc, {"input", "send", "killed"}) = Cardinality(Writing)
  BY <1>1 DEF Writing
<1>4. Text!Cardinality({n \in 1..Len(queue) : queue[n] = "end"}) = Cardinality(EndsAt)
  BY QueuesCounted DEF EndsAt
<1>5. ASSUME Text!Count(rpc, {"killed"}) = 0, Text!Count(rpc, {"receive"}) = 0 PROVE queue = <<>>
  <2>1. \A S : {s \in Text!Runs : rpc[s] \in S} \subseteq Text!Runs
    OBVIOUS
  <2>2. IsFiniteSet(Text!Runs)
    BY FS_Interval, QueuesAssumption DEF Text!Runs
  <2>3. \A S : IsFiniteSet({s \in Text!Runs : rpc[s] \in S})
    BY <2>1, <2>2, FS_Subset
  <2>4. {s \in Text!Runs : rpc[s] \in {"killed"}} = {} /\ {s \in Text!Runs : rpc[s] \in {"receive"}} = {}
    BY <1>1, <1>5, <2>3, FS_EmptySet
  <2>5. Listening = {}
    BY <2>4 DEF Listening
  <2>6. Cardinality(EndsAt) = 0 /\ Cardinality(Writing) = 0
    BY <2>5, TextFinite, FS_EmptySet
  <2>7. EndsAt = {} /\ Writing = {}
    BY <2>6, TextFinite, FS_EmptySet
  <2>8. CASE queue # <<>>
    <3>1. Len(queue) \in 1..Len(queue) /\ queue[Len(queue)] = "end"
      BY <2>7, <2>8, EmptySeq DEF LastInv, TextTypes
    <3>2. QED
      BY <2>7, <3>1 DEF EndsAt
  <2>9. QED
    BY <2>8
<1>6. QED
  BY <1>2, <1>3, <1>4, <1>5 DEF Text!EndsBalance

\* threaded_queue.c delivers no message twice and leaves as many as it found, for
\* any number of threads and whatever messages, of whatever priorities, killed
\* runs have left in the queue; without such it delivers each of its own.  In
\* text_data and structured_data there is an end for every reader, for any number
\* of sessions and of processes that are terminated (msgq_posix, msgq_sys5).
THEOREM QueuesDelivered == MCSpec => []QueuesDeliver
<1>1. ThreadedInv /\ TextInv => QueuesDeliver
  BY PlacesCounted, EndsCounted DEF QueuesDeliver
<1>2. QED
  BY <1>1, QueuesInit, QueuesStep, PTL DEF MCSpec
=============================================================================
