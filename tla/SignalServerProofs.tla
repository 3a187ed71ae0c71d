-------------------------- MODULE SignalServerProofs --------------------------
(***************************************************************************)
(* Proofs about SignalServer, for any number of requesting children and    *)
(* whatever the uninitialised sa_flags hold: whom SIGUSR1 has reached, and *)
(* what is in the two pipes by then.                                       *)
(***************************************************************************)
EXTENDS SignalServer, PipesProofs, TLAPS, SequenceTheorems, FiniteSetTheorems

-----------------------------------------------------------------------------
(* The invariant.                                                          *)

Pcs == {"none", "gone", "killed", "fork", "readReq", "write", "block", "test", "suspend",
        "suspended", "unblock", "reset", "read", "forkCalc", "writeReq", "writeRes", "wake",
        "reap", "done", "notify"}

Types ==
    /\ pc \in [Procs -> Pcs]
    /\ pending \in [Procs -> BOOLEAN] /\ handled \in [Procs -> BOOLEAN]
    /\ sigFlag \in [Procs -> BOOLEAN] /\ resetHand \in BOOLEAN
    /\ i \in Req
    /\ DOMAIN a = Req /\ DOMAIN b = Req /\ DOMAIN got = Req

Result(k) == [of |-> k, part |-> 0]

\* Where a process is between its block and the end of its wait, and what it
\* knows of the signal.
Waiting == {"block", "test", "suspend", "suspended"}
Quiet(p) == ~pending[p] /\ ~sigFlag[p]
Unsummoned(p) == pc[p] \in Waiting /\ Quiet(p)
Summoned(p) == \/ pc[p] \in Waiting /\ pending[p] /\ ~sigFlag[p]
               \/ pc[p] \in {"block", "test", "unblock", "reset"} /\ ~pending[p] /\ sigFlag[p]

Awaiting == Waiting \cup {"unblock", "reset"}
Asks == {"fork", "readReq"}      \* the parent's first loop
Ends == {"reap", "done"}         \* the parent after its second

\* The children that have been forked, and those that have been signalled.
Asked(k)  == IF pc[Parent] = "fork" THEN k < i
             ELSE IF pc[Parent] = "readReq" THEN k <= i ELSE k \in Asking
Served(k) == IF pc[Parent] \in Asks THEN FALSE
             ELSE IF pc[Parent] \in Ends THEN k \in Asking ELSE k < i

RequesterInv(k) ==
    IF Served(k)
    THEN \/ Summoned(ReqP(k)) /\ (pending[ReqP(k)] => handled[ReqP(k)])
         \/ pc[ReqP(k)] \in {"read", "gone"} /\ Quiet(ReqP(k))
    ELSE /\ handled[ReqP(k)]
         /\ IF Asked(k)
            THEN \/ Unsummoned(ReqP(k))
                 \/ /\ pc[ReqP(k)] = "write" /\ Quiet(ReqP(k))
                    /\ pc[Parent] = "readReq" /\ k = i
            ELSE pc[ReqP(k)] = "none" /\ Quiet(ReqP(k))

\* The parent, and what it has read.
ParentInv ==
    /\ pc[Parent] \in Asks \cup Ends \cup Awaiting
                        \cup {"forkCalc", "writeReq", "read", "writeRes", "wake", "killed"}
    /\ \/ program = "server" /\ i = 1 /\ pc[Parent] \in Asks \cup Ends \cup {"writeRes", "wake"}
       \/ program = "server2"
    /\ \A k \in Req : IF k \in Asking /\ (pc[Parent] \in Asks => k < i) THEN a[k] = Data(k)
                      ELSE a[k] = <<>>
    /\ count \in {<<>>} \cup Results
    /\ pc[Parent] \in {"writeRes", "wake"} => count = <<Result(i)>>

\* The calculating children, the second pipe, and the parent's wait for them.
Calc == pc[CalcP(i)]
CalcPcs(k) ==
    IF program = "server" \/ pc[Parent] \in Asks THEN {"none"}
    ELSE IF pc[Parent] \in Ends \/ k < i THEN {"gone"}
    ELSE IF k > i \/ pc[Parent] = "forkCalc" THEN {"none"}
    ELSE IF pc[Parent] = "writeReq" THEN {"read"}
    ELSE IF pc[Parent] \in Awaiting THEN {"read", "write", "notify", "gone"} ELSE {"gone"}

CalculatorInv(k) ==
    /\ pc[CalcP(k)] \in CalcPcs(k) /\ ~pending[CalcP(k)]
    /\ b[k] \in {<<>>, Data(k)}
    /\ pc[CalcP(k)] \in {"write", "notify"} => b[k] = Data(k)

RoundInv ==
    /\ procPipe = IF pc[Parent] \in Awaiting /\ Calc = "read" THEN Data(i)
                  ELSE IF \/ pc[Parent] \in Awaiting /\ Calc \in {"notify", "gone"}
                          \/ pc[Parent] \in {"read", "killed"} THEN <<Result(i)>>
                  ELSE <<>>
    /\ IF pc[Parent] \in Awaiting
       THEN IF Calc = "gone" THEN Summoned(Parent) ELSE Unsummoned(Parent)
       ELSE pc[Parent] # "killed" => Quiet(Parent)

\* How many results the parent has written, and how many have been read.
Top == IF pc[Parent] \in Ends THEN (IF program = "server" THEN 1 ELSE N)
       ELSE IF pc[Parent] = "wake" THEN i ELSE i - 1
Low == Top - Len(reqPipe)

PipeInv ==
    IF pc[Parent] \in Asks
    THEN /\ reqPipe = IF pc[Parent] = "readReq" /\ pc[ReqP(i)] # "write" THEN Data(i) ELSE <<>>
         /\ got = [k \in Req |-> <<>>]
    ELSE /\ reqPipe \in Seq({Result(k) : k \in Req}) /\ Len(reqPipe) <= Top
         /\ \A n \in 1..Len(reqPipe) : reqPipe[n] = Result(Low + n)
         /\ \A k \in Req : IF pc[ReqP(k)] = "gone" THEN \E r \in 1..Low : got[k] = <<Result(r)>>
                           ELSE got[k] = <<>>
         /\ \A r \in 1..Low : \E k \in Req : got[k] = <<Result(r)>>
         /\ \A j, k \in Req : got[j] = got[k] /\ got[j] # <<>> => j = k

\* Each result in the pipe has woken a child, or is just about to.
CountInv ==
    pc[Parent] \notin Asks =>
        Len(reqPipe) = Cardinality(Woken) + (IF pc[Parent] = "wake" THEN 1 ELSE 0)

Inv == /\ Types /\ ParentInv /\ RoundInv /\ PipeInv /\ CountInv
       /\ \A k \in Req : RequesterInv(k) /\ CalculatorInv(k)

-----------------------------------------------------------------------------
(* Processes.                                                              *)

LEMMA ProcFacts ==
    /\ Parent \in Procs /\ Parent \in Waiters
    /\ \A p \in Procs : p = Parent \/ \E k \in Req : p = ReqP(k) \/ p = CalcP(k)
    /\ \A k \in Req : /\ ReqP(k) \in Procs /\ ReqP(k) \in Waiters /\ CalcP(k) \in Procs
                      /\ ReqP(k) # Parent /\ CalcP(k) # Parent
    /\ \A k, j \in Req : ReqP(k) = ReqP(j) => k = j
    /\ \A k, j \in Req : CalcP(k) = CalcP(j) => k = j
    /\ \A k, j \in Req : ReqP(k) # CalcP(j)
BY DEF Procs, Waiters, ReqP, CalcP, Parent

LEMMA ReqFacts == N \in Nat \ {0} /\ Req = 1..N /\ 1 \in Req /\ Asking \subseteq Req
BY ConstantsAssumption DEF Req, Asking

\* A process that waits for its signal goes through the steps of its wait, and
\* keeps the signal until it reads.
WaitStep(p) ==
    /\ program' = program /\ resetHand' = resetHand
    /\ reqPipe' = reqPipe /\ procPipe' = procPipe /\ UNCHANGED dataVars
    /\ \A q \in Procs \ {p} : /\ pc'[q] = pc[q] /\ pending'[q] = pending[q]
                              /\ handled'[q] = handled[q] /\ sigFlag'[q] = sigFlag[q]
    /\ Unsummoned(p) \/ Summoned(p)
    /\ Unsummoned(p) => Unsummoned(p)' /\ handled'[p] = handled[p]
    /\ Summoned(p) => \/ Summoned(p)' /\ (pending'[p] => pending[p] /\ handled'[p] = handled[p])
                      \/ pc'[p] = "read" /\ Quiet(p)'
                      \/ pc'[p] = "killed" /\ ~handled[p] /\ pending[p]
    /\ Types'

LEMMA Wait ==
    ASSUME Types, NEW p \in Procs, Await(p) \/ Deliver(p),
           Unsummoned(p) \/ Summoned(p) \/ (pc[p] \notin Awaiting /\ ~pending[p])
    PROVE  WaitStep(p)
<1>1. /\ program' = program /\ resetHand' = resetHand
      /\ reqPipe' = reqPipe /\ procPipe' = procPipe /\ UNCHANGED dataVars
  BY DEF Await, Block, Test, Suspend, Unblock, ResetFlag, Deliver, Handle, Die, sigVars
<1>2. Types' /\ \A q \in Procs \ {p} : /\ pc'[q] = pc[q] /\ pending'[q] = pending[q]
                                       /\ handled'[q] = handled[q] /\ sigFlag'[q] = sigFlag[q]
  BY <1>1 DEF Types, Await, Block, Test, Suspend, Unblock, ResetFlag, Deliver, Handle, Die, sigVars, Goto, Pcs, dataVars
<1>3. Unsummoned(p) \/ Summoned(p)
  BY DEF Await, Block, Test, Suspend, Unblock, ResetFlag, Deliver, Handle, Die, Awaiting, Waiting
<1>4. ASSUME Unsummoned(p) PROVE Unsummoned(p)' /\ handled'[p] = handled[p]
  BY <1>4 DEF Types, Await, Block, Test, Suspend, Unblock, ResetFlag, Deliver, Handle, Die, sigVars, Goto, Unsummoned, Quiet, Waiting
<1>5. ASSUME Summoned(p)
      PROVE  \/ Summoned(p)' /\ (pending'[p] => pending[p] /\ handled'[p] = handled[p])
             \/ pc'[p] = "read" /\ Quiet(p)'
             \/ pc'[p] = "killed" /\ ~handled[p] /\ pending[p]
  <2>1. CASE Await(p)
    BY <1>5, <2>1 DEF Types, Await, Block, Test, Suspend, Unblock, ResetFlag, sigVars, Goto, Summoned, Quiet, Waiting
  <2>2. CASE Deliver(p)
    BY <1>5, <2>2 DEF Types, Deliver, Handle, Die, Blocked, sigVars, Goto, Summoned, Quiet, Waiting
  <2>3. QED
    BY <2>1, <2>2
<1>6. QED
  BY <1>1, <1>2, <1>3, <1>4, <1>5 DEF WaitStep

-----------------------------------------------------------------------------
(* What the parts of the invariant depend on.                              *)

SameSignals(p) == pending'[p] = pending[p] /\ handled'[p] = handled[p] /\ sigFlag'[p] = sigFlag[p]

LEMMA RequesterKept ==
    ASSUME NEW k \in Req, RequesterInv(k), pc'[ReqP(k)] = pc[ReqP(k)], SameSignals(ReqP(k)),
           Served(k)' <=> Served(k), Served(k) \/ (Asked(k)' <=> Asked(k)),
           pc[ReqP(k)] = "write" => pc'[Parent] = pc[Parent] /\ i' = i
    PROVE  RequesterInv(k)'
BY DEF RequesterInv, SameSignals, Summoned, Unsummoned, Quiet

LEMMA CalculatorKept ==
    ASSUME NEW k \in Req, CalculatorInv(k), pc'[CalcP(k)] = pc[CalcP(k)],
           pending'[CalcP(k)] = pending[CalcP(k)], b'[k] = b[k],
           pc[CalcP(k)] \in CalcPcs(k)'
    PROVE  CalculatorInv(k)'
BY DEF CalculatorInv, Data

\* The pipe of the requesting children, while nobody writes to it or reads it.
LEMMA PipeSame ==
    ASSUME PipeInv, reqPipe' = reqPipe, got' = got, Top' = Top,
           pc[Parent] \notin Asks, pc'[Parent] \notin Asks,
           \A k \in Req : pc'[ReqP(k)] = "gone" <=> pc[ReqP(k)] = "gone"
    PROVE  PipeInv'
<1>1. Low' = Low
  BY DEF Low
<1>2. QED
  BY <1>1 DEF PipeInv, Result

LEMMA PipeKept ==
    ASSUME PipeInv, CountInv, reqPipe' = reqPipe, got' = got, Top' = Top, Woken' = Woken,
           pc[Parent] \notin Asks, pc'[Parent] \notin Asks,
           pc'[Parent] = "wake" <=> pc[Parent] = "wake",
           \A k \in Req : pc'[ReqP(k)] = "gone" <=> pc[ReqP(k)] = "gone"
    PROVE  PipeInv' /\ CountInv'
<1>1. CountInv'
  BY DEF CountInv
<1>2. QED
  BY <1>1, PipeSame

\* Where the parent is in its second loop says who has been asked and served.
LEMMA SameRound ==
    ASSUME Types, program' = program, i' = i, pc[Parent] \notin Asks \cup Ends, pc'[Parent] \notin Asks \cup Ends
    PROVE  /\ \A k : (Served(k)' <=> Served(k)) /\ (Asked(k)' <=> Asked(k))
           /\ (pc'[Parent] = "wake" <=> pc[Parent] = "wake") => Top' = Top
           /\ \A k \in Req : k # i => CalcPcs(k)' = CalcPcs(k)
<1>1. /\ \A k : (Served(k)' <=> Served(k)) /\ (Asked(k)' <=> Asked(k))
      /\ (pc'[Parent] = "wake" <=> pc[Parent] = "wake") => Top' = Top
  BY DEF Served, Asked, Asking, Top, Asks, Ends
<1>2. ASSUME NEW k \in Req, k # i PROVE CalcPcs(k)' = CalcPcs(k)
  <2>1. k < i \/ k > i
    BY <1>2, ReqFacts DEF Types
  <2>2. QED
    BY <2>1 DEF CalcPcs
<1>3. QED
  BY <1>1, <1>2

LEMMA ParentWait ==
    ASSUME Inv, Await(Parent) \/ Deliver(Parent)
    PROVE  Inv'
<1>1. /\ Types /\ Parent \in Procs /\ i \in Req /\ \A k \in Req : RequesterInv(k) /\ CalculatorInv(k)
      /\ ParentInv /\ RoundInv /\ PipeInv /\ CountInv
  BY ProcFacts DEF Inv, Types
<1>2. WaitStep(Parent)
  <2>1. Unsummoned(Parent) \/ Summoned(Parent) \/ (pc[Parent] \notin Awaiting /\ ~pending[Parent])
    <3>1. CASE pc[Parent] = "killed"
      BY <1>1, <3>1 DEF Await, Block, Test, Suspend, Unblock, ResetFlag, Deliver, Handle, Die, Alive
    <3>2. CASE pc[Parent] # "killed"
      BY <1>1, <3>2 DEF RoundInv, Quiet
    <3>3. QED
      BY <3>1, <3>2
  <2>2. QED
    BY <1>1, <2>1, Wait
<1>3. /\ pc[Parent] \in Awaiting /\ pc'[Parent] \in Awaiting \cup {"read", "killed"}
      /\ program' = program /\ i' = i /\ reqPipe' = reqPipe /\ procPipe' = procPipe
      /\ a' = a /\ b' = b /\ got' = got /\ count' = count /\ Types'
      /\ \A q \in Procs \ {Parent} : pc'[q] = pc[q] /\ SameSignals(q)
  BY <1>2 DEF WaitStep, Unsummoned, Summoned, Waiting, Awaiting, SameSignals, dataVars
<1>4. \/ pc'[Parent] \in Awaiting /\ (Unsummoned(Parent) <=> Unsummoned(Parent)') /\ (Summoned(Parent) => Summoned(Parent)')
      \/ pc'[Parent] = "read" /\ Summoned(Parent) /\ Quiet(Parent)'
      \/ pc'[Parent] = "killed" /\ Summoned(Parent)
  BY <1>2 DEF WaitStep, Unsummoned, Summoned, Waiting, Awaiting, Quiet
<1>5. /\ pc[Parent] \notin Asks \cup Ends \cup {"wake"} /\ pc'[Parent] \notin Asks \cup Ends \cup {"wake"}
      /\ \A k : (Served(k)' <=> Served(k)) /\ (Asked(k)' <=> Asked(k))
      /\ Top' = Top
  BY <1>1, <1>3, SameRound DEF Awaiting, Waiting, Asks, Ends
<1>6. ASSUME NEW k \in Req
      PROVE  /\ pc'[ReqP(k)] = pc[ReqP(k)] /\ SameSignals(ReqP(k))
             /\ pc'[CalcP(k)] = pc[CalcP(k)] /\ SameSignals(CalcP(k))
  BY <1>3, ProcFacts
<1>7. ASSUME NEW k \in Req PROVE RequesterInv(k)'
  <2>1. pc[ReqP(k)] # "write"
    BY <1>1, <1>5 DEF RequesterInv, Summoned, Unsummoned, Waiting, Asks
  <2>2. QED
    BY <1>1, <1>5, <1>6, <2>1, RequesterKept
<1>8. PipeInv' /\ CountInv'
  <2>1. Woken' = Woken
    BY <1>6 DEF Woken, SameSignals
  <2>2. QED
    BY <1>1, <1>3, <1>5, <1>6, <2>1, PipeKept
<1>9. Calc' = Calc
  BY <1>1, <1>3, <1>6 DEF Calc
<1>10. pc'[Parent] \notin Awaiting => Calc = "gone"
  BY <1>1, <1>3, <1>4 DEF RoundInv, Unsummoned, Summoned, Quiet
<1>11. RoundInv'
  <2>1. Data(i)' = Data(i) /\ Result(i)' = Result(i)
    BY <1>3 DEF Data, Result
  <2>2. QED
    BY <1>1, <1>3, <1>4, <1>9, <1>10, <2>1 DEF RoundInv, Awaiting, Waiting
<1>12. ParentInv'
  BY <1>1, <1>3, <1>5 DEF ParentInv, Asking, Data, Results, Result, Asks, Ends, Awaiting, Waiting
<1>13. ASSUME NEW k \in Req PROVE CalculatorInv(k)'
  <2>1. pc[CalcP(k)] \in CalcPcs(k)'
    <3>1. CASE k # i
      BY <1>1, <1>3, <1>5, <3>1, SameRound DEF CalculatorInv
    <3>2. CASE k = i /\ pc'[Parent] \in Awaiting
      BY <1>1, <1>3, <1>5, <3>2, ReqFacts DEF CalcPcs, CalculatorInv, Awaiting, Waiting
    <3>3. CASE k = i /\ pc'[Parent] \notin Awaiting
      <4>1. pc[CalcP(k)] = "gone" /\ pc[CalcP(k)] \in CalcPcs(k)
        BY <1>1, <1>10, <3>3 DEF Calc, CalculatorInv
      <4>2. QED
        BY <1>1, <1>3, <1>5, <3>3, <4>1 DEF CalcPcs, Awaiting, Waiting
    <3>4. QED
      BY <3>1, <3>2, <3>3
  <2>2. QED
    BY <1>1, <1>3, <1>6, <2>1, CalculatorKept DEF SameSignals
<1>14. QED
  BY <1>3, <1>7, <1>8, <1>11, <1>12, <1>13 DEF Inv

\* What a step leaves alone that changes nothing of the parent or of a
\* calculating child.
LEMMA ParentKept ==
    ASSUME Inv, UNCHANGED <<program, procPipe, i, a, count, b>>, pc'[Parent] = pc[Parent],
           SameSignals(Parent),
           \A k \in Req : pc'[CalcP(k)] = pc[CalcP(k)] /\ pending'[CalcP(k)] = pending[CalcP(k)]
    PROVE  /\ ParentInv' /\ RoundInv' /\ \A k \in Req : CalculatorInv(k)'
           /\ Top' = Top
           /\ \A k \in Req : (Served(k)' <=> Served(k)) /\ (Asked(k)' <=> Asked(k))
<1>1. ParentInv /\ RoundInv /\ \A k \in Req : CalculatorInv(k)
  BY DEF Inv
<1>2. Calc' = Calc /\ Data(i)' = Data(i) /\ Result(i)' = Result(i) /\ Asking' = Asking
  <2>1. i \in Req
    BY DEF Inv, Types
  <2>2. QED
    BY <2>1 DEF Calc, Data, Result, Asking
<1>3. /\ \A k \in Req : (Served(k)' <=> Served(k)) /\ (Asked(k)' <=> Asked(k))
      /\ Top' = Top
  BY DEF Served, Asked, Asking, Top
<1>4. ParentInv'
  BY <1>1, <1>2 DEF ParentInv, Data, Results
<1>5. RoundInv'
  BY <1>1, <1>2 DEF RoundInv, Summoned, Unsummoned, Quiet, SameSignals
<1>6. ASSUME NEW k \in Req PROVE CalculatorInv(k)'
  <2>1. CalcPcs(k)' = CalcPcs(k)
    BY DEF CalcPcs
  <2>2. QED
    BY <1>1, <2>1, CalculatorKept DEF CalculatorInv
<1>7. QED
  BY <1>3, <1>4, <1>5, <1>6

LEMMA RequesterWait ==
    ASSUME Inv, NEW j \in Req, Await(ReqP(j)) \/ Deliver(ReqP(j))
    PROVE  Inv'
<1>1. /\ Types /\ ReqP(j) \in Procs /\ i \in Req /\ \A k \in Req : RequesterInv(k) /\ CalculatorInv(k)
      /\ ParentInv /\ RoundInv /\ PipeInv /\ CountInv
  BY ProcFacts DEF Inv, Types
<1>2. WaitStep(ReqP(j))
  <2>1. Unsummoned(ReqP(j)) \/ Summoned(ReqP(j)) \/ (pc[ReqP(j)] \notin Awaiting /\ ~pending[ReqP(j)])
    BY <1>1 DEF RequesterInv, Quiet, Awaiting, Waiting
  <2>2. QED
    BY <1>1, <2>1, Wait
<1>3. /\ UNCHANGED <<program, reqPipe, procPipe, i, a, b, got, count>> /\ Types'
      /\ \A q \in Procs \ {ReqP(j)} : pc'[q] = pc[q] /\ SameSignals(q)
  BY <1>2 DEF WaitStep, SameSignals, dataVars
<1>4. /\ pc'[Parent] = pc[Parent] /\ SameSignals(Parent)
      /\ \A k \in Req : pc'[CalcP(k)] = pc[CalcP(k)] /\ pending'[CalcP(k)] = pending[CalcP(k)]
      /\ \A k \in Req \ {j} : pc'[ReqP(k)] = pc[ReqP(k)] /\ SameSignals(ReqP(k))
  <2>1. pc'[Parent] = pc[Parent] /\ SameSignals(Parent)
    BY <1>3, ProcFacts
  <2>2. ASSUME NEW k \in Req PROVE pc'[CalcP(k)] = pc[CalcP(k)] /\ SameSignals(CalcP(k))
    <3>1. CalcP(k) \in Procs \ {ReqP(j)}
      BY ProcFacts
    <3>2. QED
      BY <1>3, <3>1
  <2>3. ASSUME NEW k \in Req \ {j} PROVE pc'[ReqP(k)] = pc[ReqP(k)] /\ SameSignals(ReqP(k))
    <3>1. ReqP(k) \in Procs \ {ReqP(j)}
      BY ProcFacts
    <3>2. QED
      BY <1>3, <3>1
  <2>4. QED
    BY <2>1, <2>2, <2>3 DEF SameSignals
<1>5. /\ ParentInv' /\ RoundInv' /\ \A k \in Req : CalculatorInv(k)'
      /\ Top' = Top
      /\ \A k \in Req : (Served(k)' <=> Served(k)) /\ (Asked(k)' <=> Asked(k))
  BY <1>3, <1>4, ParentKept
<1>6. \/ /\ ~Served(j) /\ Asked(j) /\ Unsummoned(ReqP(j))
         /\ Unsummoned(ReqP(j))' /\ handled'[ReqP(j)] = handled[ReqP(j)]
      \/ /\ Served(j) /\ Summoned(ReqP(j))
         /\ \/ Summoned(ReqP(j))' /\ (pending'[ReqP(j)] => handled'[ReqP(j)])
            \/ pc'[ReqP(j)] = "read" /\ Quiet(ReqP(j))'
  BY <1>1, <1>2 DEF WaitStep, RequesterInv, Summoned, Unsummoned, Quiet, Waiting
<1>7. ASSUME NEW k \in Req PROVE RequesterInv(k)'
  <2>1. CASE k = j
    BY <1>1, <1>5, <1>6, <2>1 DEF RequesterInv
  <2>2. CASE k # j
    BY <1>1, <1>3, <1>4, <1>5, <2>2, RequesterKept
  <2>3. QED
    BY <2>1, <2>2
<1>8. PipeInv' /\ CountInv'
  <2>1. pc[ReqP(j)] \notin {"gone", "write"} /\ pc'[ReqP(j)] \notin {"gone", "write"}
    BY <1>6 DEF Summoned, Unsummoned, Waiting
  <2>2. CASE pc[Parent] \notin Asks
    <3>1. j \in Woken <=> j \in Woken'
      BY <1>6 DEF Woken, Summoned, Unsummoned, Quiet, Waiting
    <3>2. \A k \in Req \ {j} : k \in Woken <=> k \in Woken'
      BY <1>4 DEF Woken, SameSignals
    <3>3. Woken' = Woken
      BY <3>1, <3>2 DEF Woken
    <3>4. QED
      BY <1>1, <1>3, <1>4, <1>5, <2>1, <2>2, <3>3, PipeKept
  <2>3. CASE pc[Parent] \in Asks
    <3>1. (pc[ReqP(i)] = "write") <=> (pc'[ReqP(i)] = "write")
      BY <1>1, <1>4, <2>1
    <3>2. pc'[ReqP(i')] = pc'[ReqP(i)] /\ Data(i)' = Data(i)
      BY <1>3 DEF Data
    <3>3. (pc'[ReqP(i)] = "write") <=> (pc[ReqP(i)] = "write")
      BY <3>1
    <3>4. QED
      BY <1>1, <1>3, <1>4, <2>3, <3>2, <3>3 DEF PipeInv, CountInv
  <2>4. QED
    BY <2>2, <2>3
<1>9. QED
  BY <1>3, <1>5, <1>7, <1>8 DEF Inv

-----------------------------------------------------------------------------
(* The loop that forks the requesting children.                            *)

LEMMA ForkStep ==
    ASSUME Inv, ForkReq
    PROVE  Inv'
<1>1. /\ Types /\ i \in Req /\ \A k \in Req : RequesterInv(k) /\ CalculatorInv(k)
      /\ ParentInv /\ RoundInv /\ PipeInv /\ CountInv
  BY DEF Inv, Types
<1>2. PICK j \in Req : j = i
  BY <1>1
<1>3. /\ pc[Parent] = "fork" /\ pc' = [pc EXCEPT ![Parent] = "readReq", ![ReqP(j)] = "write"]
      /\ UNCHANGED <<program, reqPipe, procPipe, i, a, count, got, b, pending, handled, sigFlag, resetHand>>
  BY <1>2 DEF ForkReq, sigVars, dataVars
<1>4. /\ pc'[Parent] = "readReq" /\ pc'[ReqP(j)] = "write" /\ Types'
      /\ \A q \in Procs \ {Parent, ReqP(j)} : pc'[q] = pc[q]
  BY <1>1, <1>3, ProcFacts DEF Types, Pcs
<1>5. \A p : SameSignals(p)
  BY <1>3 DEF SameSignals
<1>6. ASSUME NEW k \in Req PROVE RequesterInv(k)' /\ CalculatorInv(k)'
  <2>1. /\ CalcP(k) \in Procs \ {Parent, ReqP(j)} 
        /\ k # j => ReqP(k) \in Procs \ {Parent, ReqP(j)}
    BY ProcFacts
  <2>2. CalculatorInv(k)'
    <3>1. CalcPcs(k)' = CalcPcs(k)
      BY <1>3, <1>4 DEF CalcPcs, Asks
    <3>2. QED
      BY <1>1, <1>3, <1>4, <2>1, <3>1, CalculatorKept DEF CalculatorInv
  <2>3. ~Served(k) /\ ~Served(k)' /\ (Asked(k) <=> k < j) /\ (Asked(k)' <=> k <= j)
    BY <1>2, <1>3, <1>4 DEF Served, Asked, Asks
  <2>4. CASE k = j
    <3>1. ~Asked(k)
      BY <2>3, <2>4, ReqFacts
    <3>2. Asked(k)'
      BY <2>3, <2>4, ReqFacts
    <3>3. pc[ReqP(k)] = "none" /\ Quiet(ReqP(k)) /\ handled[ReqP(k)]
      BY <1>1, <2>3, <3>1 DEF RequesterInv
    <3>4. RequesterInv(k)'
      BY <1>2, <1>3, <1>4, <2>3, <2>4, <3>2, <3>3 DEF RequesterInv, Quiet
    <3>5. QED
      BY <2>2, <3>4
  <2>5. CASE k # j
    <3>1. Asked(k)' <=> Asked(k)
      BY <2>3, <2>5, ReqFacts
    <3>2. pc[ReqP(k)] # "write"
      BY <1>1, <1>3, <2>3 DEF RequesterInv, Unsummoned, Waiting
    <3>3. QED
      BY <1>1, <1>4, <1>5, <2>1, <2>2, <2>3, <2>5, <3>1, <3>2, RequesterKept
  <2>6. QED
    BY <2>4, <2>5
<1>7. ParentInv'
  BY <1>1, <1>3, <1>4 DEF ParentInv, Asks, Asking, Data, Results, Result
<1>8. RoundInv'
  BY <1>1, <1>3, <1>4 DEF RoundInv, Awaiting, Waiting, Quiet
<1>9. PipeInv' /\ CountInv'
  <2>1. pc'[ReqP(i')] = "write"
    BY <1>2, <1>3, <1>4
  <2>2. QED
    BY <1>1, <1>3, <1>4, <2>1 DEF PipeInv, CountInv, Asks
<1>10. QED
  BY <1>4, <1>6, <1>7, <1>8, <1>9 DEF Inv

LEMMA RequesterWrites ==
    ASSUME Inv, NEW j \in Req, ReqWrite(j)
    PROVE  Inv'
<1>1. /\ Types /\ i \in Req /\ \A k \in Req : RequesterInv(k) /\ CalculatorInv(k)
      /\ ParentInv /\ RoundInv /\ PipeInv /\ CountInv
  BY DEF Inv, Types
<1>2. /\ pc[ReqP(j)] = "write" /\ reqPipe' = reqPipe \o Data(j)
      /\ pc' = [pc EXCEPT ![ReqP(j)] = "block"]
      /\ UNCHANGED <<program, procPipe, i, a, count, got, b, pending, handled, sigFlag, resetHand>>
  BY DEF ReqWrite, Goto, sigVars, dataVars
<1>3. /\ pc[Parent] = "readReq" /\ j = i /\ handled[ReqP(j)] /\ Quiet(ReqP(j))
      /\ ~Served(j) /\ Asked(j)
  BY <1>1, <1>2 DEF RequesterInv, Summoned, Unsummoned, Waiting
<1>4. /\ pc'[ReqP(j)] = "block" /\ Types' /\ \A q \in Procs \ {ReqP(j)} : pc'[q] = pc[q]
  BY <1>1, <1>2, ProcFacts DEF Types, Pcs
<1>5. \A p : SameSignals(p)
  BY <1>2 DEF SameSignals
<1>6. /\ pc'[Parent] = pc[Parent]
      /\ \A k \in Req : pc'[CalcP(k)] = pc[CalcP(k)]
      /\ \A k \in Req \ {j} : pc'[ReqP(k)] = pc[ReqP(k)]
  BY <1>4, ProcFacts
<1>7. /\ ParentInv' /\ RoundInv' /\ \A k \in Req : CalculatorInv(k)'
      /\ \A k \in Req : (Served(k)' <=> Served(k)) /\ (Asked(k)' <=> Asked(k))
  BY <1>2, <1>5, <1>6, ParentKept
<1>8. ASSUME NEW k \in Req PROVE RequesterInv(k)'
  <2>1. CASE k = j
    BY <1>2, <1>3, <1>4, <1>7, <2>1 DEF RequesterInv, Unsummoned, Quiet, Waiting
  <2>2. CASE k # j
    BY <1>1, <1>2, <1>5, <1>6, <1>7, <2>2, RequesterKept
  <2>3. QED
    BY <2>1, <2>2
<1>9. PipeInv' /\ CountInv'
  <2>1. reqPipe' = Data(j)
    BY <1>1, <1>2, <1>3, PipeRead DEF PipeInv, Asks
  <2>2. Data(i)' = Data(j) /\ pc'[ReqP(i')] = "block" /\ pc'[Parent] = "readReq"
    BY <1>2, <1>3, <1>4, <1>6 DEF Data
  <2>3. QED
    BY <1>1, <1>2, <1>3, <2>1, <2>2 DEF PipeInv, CountInv, Asks
<1>10. QED
  BY <1>4, <1>7, <1>8, <1>9 DEF Inv

\* The parent reads the request of the child it has forked.
LEMMA ReadStep ==
    ASSUME Inv, ReadReq \/ ReadOne
    PROVE  Inv'
<1>1. /\ Types /\ i \in Req /\ \A k \in Req : RequesterInv(k) /\ CalculatorInv(k)
      /\ ParentInv /\ RoundInv /\ PipeInv /\ CountInv
  BY DEF Inv, Types
<1>2. PICK j \in Req : j = i
  BY <1>1
<1>3. /\ pc[Parent] = "readReq" /\ reqPipe # <<>>
      /\ UNCHANGED <<program, procPipe, got, b, pending, handled, sigFlag, resetHand>>
  BY DEF ReadReq, ReadOne, sigVars
<1>4. reqPipe = Data(j) /\ pc[ReqP(j)] # "write"
  BY <1>1, <1>2, <1>3 DEF PipeInv, Asks
<1>5. reqPipe' = <<>> /\ a' = [a EXCEPT ![j] = Data(j)]
  BY <1>1, <1>2, <1>4, PipeRead DEF ReadReq, ReadOne, ParentInv, Asks, Ends
<1>6. \/ /\ program = "server2" /\ pc' = [pc EXCEPT ![Parent] = "fork"]
         /\ j # N /\ i' = j + 1 /\ count' = count
      \/ /\ program = "server2" /\ pc' = [pc EXCEPT ![Parent] = "forkCalc"]
         /\ j = N /\ i' = 1 /\ count' = count
      \/ /\ program = "server" /\ pc' = [pc EXCEPT ![Parent] = "writeRes"]
         /\ j = 1 /\ i' = 1 /\ count' = <<Result(1)>>
  <2>1. CASE ReadReq
    BY <1>2, <2>1 DEF ReadReq, NextRound, Goto
  <2>2. CASE ReadOne
    BY <1>1, <1>2, <2>2, DataResult, ReqFacts DEF ReadOne, Goto, ParentInv, Result
  <2>3. QED
    BY <2>1, <2>2
<1>7. /\ pc'[Parent] \in {"fork", "forkCalc", "writeRes"} /\ Types'
      /\ \A q \in Procs \ {Parent} : pc'[q] = pc[q]
  BY <1>1, <1>3, <1>5, <1>6, ProcFacts, ReqFacts DEF Types, Pcs
<1>8. \A p : SameSignals(p)
  BY <1>3 DEF SameSignals
<1>9. \A k \in Req : pc'[ReqP(k)] = pc[ReqP(k)] /\ pc'[CalcP(k)] = pc[CalcP(k)]
  BY <1>7, ProcFacts
<1>10. ASSUME NEW k \in Req PROVE /\ RequesterInv(k)' /\ CalculatorInv(k)'
                                  /\ pc[ReqP(k)] \notin {"write", "gone", "read"}
                                  /\ Quiet(ReqP(k))
  <2>1. pc[ReqP(k)] \notin {"write", "gone", "read"} /\ Quiet(ReqP(k)) /\ ~Served(k)
    BY <1>1, <1>2, <1>3, <1>4 DEF RequesterInv, Unsummoned, Waiting, Served, Asks, Quiet
  <2>2. (Asked(k) <=> k <= j) /\ (Served(k)' <=> Served(k)) /\ (Asked(k)' <=> Asked(k))
    BY <1>2, <1>3, <1>6, ProcFacts, ReqFacts, <1>1
       DEF Asked, Asking, Served, Asks, Ends, Types
  <2>3. pc[CalcP(k)] = "none"
    BY <1>1, <1>3 DEF CalculatorInv, CalcPcs, Asks
  <2>4. pc[CalcP(k)] \in CalcPcs(k)'
    BY <1>1, <1>3, <1>6, <2>3, ReqFacts, ProcFacts DEF CalcPcs, Asks, Ends, Types
  <2>5. CalculatorInv(k)'
    BY <1>1, <1>3, <1>8, <1>9, <2>4, CalculatorKept DEF SameSignals
  <2>6. RequesterInv(k)'
    BY <1>1, <1>8, <1>9, <2>1, <2>2, RequesterKept
  <2>7. QED
    BY <2>1, <2>5, <2>6
<1>11. ParentInv'
  <2>1. \A k \in Req : Data(k)' = Data(k)
    BY DEF Data
  <2>2. ASSUME NEW k \in Req
        PROVE  IF k \in Asking' /\ (pc'[Parent] \in Asks => k < i') THEN a'[k] = Data(k)' ELSE a'[k] = <<>>
    <3>1. a'[k] = IF k = j THEN Data(k) ELSE a[k]
      BY <1>1, <1>5 DEF Types
    <3>2. IF k \in Asking /\ k < j THEN a[k] = Data(k) ELSE a[k] = <<>>
      BY <1>1, <1>2, <1>3 DEF ParentInv, Asks
    <3>3. (k \in Asking' /\ (pc'[Parent] \in Asks => k < i')) <=> k = j \/ (k \in Asking /\ k < j)
      BY <1>1, <1>2, <1>3, <1>6, ProcFacts, ReqFacts DEF Asking, Asks, Types, ParentInv
    <3>4. QED
      BY <2>1, <3>1, <3>2, <3>3
  <2>3. count' \in {<<>>} \cup Results' /\ Results' = Results
    BY <1>1, <1>6, ReqFacts DEF ParentInv, Results, Result
  <2>4. QED
    BY <1>1, <1>3, <1>6, <1>7, <2>2, <2>3 DEF ParentInv, Asks, Result, Types
<1>12. RoundInv'
  BY <1>1, <1>3, <1>7 DEF RoundInv, Awaiting, Waiting, Quiet, Asks
<1>13. PipeInv' /\ CountInv'
  <2>1. CASE pc'[Parent] = "fork"
    BY <1>1, <1>3, <1>5, <2>1 DEF PipeInv, CountInv, Asks
  <2>2. CASE pc'[Parent] \in {"forkCalc", "writeRes"}
    <3>1. i' = 1 /\ Top' = 0
      BY <1>6, <1>7, <2>2, <1>1, ProcFacts DEF Top, Ends, Types
    <3>2. reqPipe' = <<>> /\ Len(reqPipe') = 0 /\ Low' = 0
      <4>1. Low' = Top' - Len(reqPipe')
        BY DEF Low
      <4>2. reqPipe' = <<>>
        BY <1>5
      <4>3. Len(reqPipe') = 0
        BY <4>2, EmptySeq
      <4>4. Low' = 0 - 0
        BY <3>1, <4>1, <4>3
      <4>5. QED
        BY <4>2, <4>3, <4>4
    <3>3. \A k \in Req : got'[k] = <<>> /\ pc'[ReqP(k)] # "gone"
      BY <1>1, <1>3, <1>9, <1>10 DEF PipeInv, Asks
    <3>4. Woken' = {}
      BY <1>3, <1>9, <1>10 DEF Woken, Quiet
    <3>5. CountInv'
      BY <2>2, <3>2, <3>4, FS_EmptySet DEF CountInv
    <3>6. PipeInv'
      BY <2>2, <3>1, <3>2, <3>3, EmptySeq DEF PipeInv, Asks
    <3>7. QED
      BY <3>5, <3>6
  <2>3. QED
    BY <1>7, <2>1, <2>2
<1>14. QED
  BY <1>7, <1>10, <1>11, <1>12, <1>13 DEF Inv

-----------------------------------------------------------------------------
(* A child that has been woken reads its result.                           *)

LEMMA TopType == Types /\ ParentInv => Top \in Nat
BY ReqFacts DEF Types, Top, ParentInv, Asks, Ends

LEMMA ResultFacts ==
    /\ \A j, k : Result(j) = Result(k) => j = k
    /\ \A k : <<Result(k)>> # <<>>
    /\ \A j, k : <<Result(j)>> = <<Result(k)>> => j = k
<1>1. \A j, k : Result(j) = Result(k) => j = k
  BY DEF Result
<1>2. \A v, w : <<v>> = <<w>> => v = w
  OBVIOUS
<1>3. \A w : <<w>> # <<>>
  OBVIOUS
<1>4. QED
  BY <1>1, <1>2, <1>3

LEMMA WokenFinite == IsFiniteSet(Woken) /\ Woken \subseteq Req
<1>1. Woken \subseteq 1..N /\ N \in Nat
  BY ReqFacts DEF Woken
<1>2. IsFiniteSet(1..N)
  <2>1. 1 \in Int /\ N \in Int
    BY <1>1
  <2>2. QED
    BY <2>1, FS_Interval
<1>3. IsFiniteSet(Woken)
  BY <1>1, <1>2, FS_Subset
<1>4. QED
  BY <1>1, <1>3, ReqFacts

LEMMA RequesterReads ==
    ASSUME Inv, NEW j \in Req, ReqRead(j)
    PROVE  Inv'
<1>1. /\ Types /\ i \in Req /\ \A k \in Req : RequesterInv(k) /\ CalculatorInv(k)
      /\ ParentInv /\ RoundInv /\ PipeInv /\ CountInv
  BY DEF Inv, Types
<1>2. /\ pc[ReqP(j)] = "read" /\ reqPipe # <<>>
      /\ got' = [got EXCEPT ![j] = Taken(reqPipe, 1)] /\ reqPipe' = Rest(reqPipe, 1)
      /\ pc' = [pc EXCEPT ![ReqP(j)] = "gone"]
      /\ UNCHANGED <<program, procPipe, i, a, count, b, pending, handled, sigFlag, resetHand>>
  BY DEF ReqRead, Goto, sigVars
<1>3. Served(j) /\ Quiet(ReqP(j)) /\ pc[Parent] \notin Asks
  BY <1>1, <1>2 DEF RequesterInv, Unsummoned, Summoned, Waiting, Served
<1>4. /\ pc'[ReqP(j)] = "gone" /\ Types' /\ \A q \in Procs \ {ReqP(j)} : pc'[q] = pc[q]
  BY <1>1, <1>2, ProcFacts DEF Types, Pcs
<1>5. \A p : SameSignals(p)
  BY <1>2 DEF SameSignals
<1>6. /\ pc'[Parent] = pc[Parent]
      /\ \A k \in Req : pc'[CalcP(k)] = pc[CalcP(k)]
      /\ \A k \in Req \ {j} : pc'[ReqP(k)] = pc[ReqP(k)]
  BY <1>4, ProcFacts
<1>7. /\ ParentInv' /\ RoundInv' /\ \A k \in Req : CalculatorInv(k)'
      /\ Top' = Top
      /\ \A k \in Req : (Served(k)' <=> Served(k)) /\ (Asked(k)' <=> Asked(k))
  BY <1>2, <1>5, <1>6, ParentKept
<1>8. ASSUME NEW k \in Req PROVE RequesterInv(k)'
  <2>1. CASE k = j
    BY <1>2, <1>3, <1>4, <1>7, <2>1 DEF RequesterInv, Quiet
  <2>2. CASE k # j
    BY <1>1, <1>2, <1>5, <1>6, <1>7, <2>2, RequesterKept
  <2>3. QED
    BY <2>1, <2>2
<1>9. /\ reqPipe \in Seq({Result(k) : k \in Req}) /\ Len(reqPipe) <= Top
      /\ \A n \in 1..Len(reqPipe) : reqPipe[n] = Result(Low + n)
      /\ \A k \in Req : IF pc[ReqP(k)] = "gone" THEN \E r \in 1..Low : got[k] = <<Result(r)>>
                        ELSE got[k] = <<>>
      /\ \A r \in 1..Low : \E k \in Req : got[k] = <<Result(r)>>
      /\ \A m, k \in Req : got[m] = got[k] /\ got[m] # <<>> => m = k
  BY <1>1, <1>3 DEF PipeInv
<1>10. Low \in Nat /\ Len(reqPipe) \in Nat \ {0}
  <2>1. Len(reqPipe) \in Nat \ {0}
    BY <1>2, <1>9, EmptySeq
  <2>2. QED
    BY <1>1, <1>9, <2>1, TopType DEF Low
<1>11. /\ Taken(reqPipe, 1) = <<Result(Low + 1)>>
       /\ reqPipe' \in Seq({Result(k) : k \in Req}) /\ Len(reqPipe') = Len(reqPipe) - 1
       /\ \A n \in 1..Len(reqPipe) - 1 : reqPipe'[n] = Result(Low + n + 1)
  <2>1. /\ Taken(reqPipe, 1) = <<reqPipe[1]>>
        /\ reqPipe' \in Seq({Result(k) : k \in Req}) /\ Len(reqPipe') = Len(reqPipe) - 1
        /\ \A n \in 1..Len(reqPipe) - 1 : reqPipe'[n] = reqPipe[n + 1]
    BY <1>2, <1>9, FirstWord
  <2>2. reqPipe[1] = Result(Low + 1)
    <3>1. 1 \in 1..Len(reqPipe)
      BY <1>10
    <3>2. QED
      BY <1>9, <3>1
  <2>3. ASSUME NEW n \in 1..Len(reqPipe) - 1 PROVE reqPipe[n + 1] = Result(Low + n + 1)
    <3>1. n + 1 \in 1..Len(reqPipe) /\ Low + (n + 1) = Low + n + 1
      BY <1>10
    <3>2. reqPipe[n + 1] = Result(Low + (n + 1))
      BY <1>9, <3>1
    <3>3. QED
      BY <3>1, <3>2
  <2>4. QED
    BY <2>1, <2>2, <2>3
<1>12. Low' = Low + 1
  <2>1. Low' = Top' - Len(reqPipe')
    BY DEF Low
  <2>2. Top \in Nat
    BY <1>1, TopType
  <2>3. QED
    BY <1>7, <1>10, <1>11, <2>1, <2>2 DEF Low
<1>13. \A k \in Req : got'[k] = IF k = j THEN <<Result(Low + 1)>> ELSE got[k]
  BY <1>1, <1>2, <1>11 DEF Types
<1>14. got[j] = <<>>
  BY <1>2, <1>9
<1>15. PipeInv'
  <2>1. \A n \in 1..Len(reqPipe') : reqPipe'[n] = Result(Low' + n)
    <3>1. SUFFICES ASSUME NEW n \in 1..Len(reqPipe') PROVE reqPipe'[n] = Result(Low' + n)
      OBVIOUS
    <3>2. reqPipe'[n] = Result(Low + n + 1) /\ Low + n + 1 = Low' + n
      BY <1>10, <1>11, <1>12
    <3>3. QED
      BY <3>2
  <2>2. ASSUME NEW k \in Req
        PROVE  IF pc'[ReqP(k)] = "gone" THEN \E r \in 1..Low' : got'[k] = <<Result(r)>> ELSE got'[k] = <<>>
    <3>1. 1..Low \subseteq 1..Low' /\ Low + 1 \in 1..Low'
      BY <1>10, <1>12
    <3>2. QED
      BY <1>4, <1>6, <1>9, <1>13, <3>1
  <2>3. ASSUME NEW r \in 1..Low' PROVE \E k \in Req : got'[k] = <<Result(r)>>
    <3>1. CASE r = Low + 1
      BY <1>13, <3>1
    <3>2. CASE r # Low + 1
      <4>1. r \in 1..Low
        BY <1>10, <1>12, <3>2
      <4>2. PICK k \in Req : got[k] = <<Result(r)>>
        BY <1>9, <4>1
      <4>3. k # j
        BY <1>14, <4>2, ResultFacts
      <4>4. QED
        BY <1>13, <4>2, <4>3
    <3>3. QED
      BY <3>1, <3>2
  <2>4. ASSUME NEW m \in Req, NEW k \in Req, got'[m] = got'[k], got'[m] # <<>>
        PROVE  m = k
    <3>1. ASSUME NEW l \in Req, l # j PROVE got[l] # <<Result(Low + 1)>>
      <4>1. SUFFICES ASSUME NEW r \in 1..Low, got[l] = <<Result(r)>> PROVE r # Low + 1
        BY <1>9, ResultFacts
      <4>2. QED
        BY <1>10
    <3>2. QED
      BY <1>9, <1>13, <2>4, <3>1
  <2>5. Len(reqPipe') <= Top'
    BY <1>1, <1>7, <1>9, <1>10, <1>11, TopType
  <2>6. pc'[Parent] \notin Asks
    BY <1>3, <1>6
  <2>7. reqPipe' \in Seq({Result(k)' : k \in Req})
    BY <1>11 DEF Result
  <2>8. \A r : Result(r)' = Result(r)
    BY DEF Result
  <2>9. QED
    BY <2>1, <2>2, <2>3, <2>4, <2>5, <2>6, <2>7, <2>8 DEF PipeInv, Result
<1>16. CountInv'
  <2>1. j \in Woken /\ Woken' = Woken \ {j}
    BY <1>2, <1>3, <1>4, <1>6 DEF Woken, Quiet
  <2>2. Cardinality(Woken') = Cardinality(Woken) - 1 /\ Cardinality(Woken) \in Nat
    BY <2>1, WokenFinite, FS_RemoveElement, FS_CardinalityType
  <2>3. QED
    BY <1>1, <1>3, <1>6, <1>10, <1>11, <2>2 DEF CountInv
<1>17. QED
  BY <1>4, <1>7, <1>8, <1>15, <1>16 DEF Inv


-----------------------------------------------------------------------------
(* The loop that forks the calculating children, one at a time.            *)

\* A step within one round of it concerns no requesting child, and no
\* calculating child of another round.
LEMMA RoundStep ==
    ASSUME Inv, UNCHANGED <<program, reqPipe, i, got>>,
           pc[Parent] \notin Asks \cup Ends \cup {"wake"}, pc'[Parent] \notin Asks \cup Ends \cup {"wake"},
           \A k \in Req : pc'[ReqP(k)] = pc[ReqP(k)] /\ SameSignals(ReqP(k)),
           \A k \in Req : k # i => /\ pc'[CalcP(k)] = pc[CalcP(k)]
                                  /\ pending'[CalcP(k)] = pending[CalcP(k)] /\ b'[k] = b[k]
    PROVE  PipeInv' /\ CountInv' /\ \A k \in Req : RequesterInv(k)' /\ (k # i => CalculatorInv(k)')
<1>1. /\ Types /\ \A k \in Req : RequesterInv(k) /\ CalculatorInv(k)
      /\ PipeInv /\ CountInv
  BY DEF Inv
<1>2. /\ \A k : (Served(k)' <=> Served(k)) /\ (Asked(k)' <=> Asked(k))
      /\ Top' = Top
      /\ \A k \in Req : k # i => CalcPcs(k)' = CalcPcs(k)
  BY <1>1, SameRound
<1>3. PipeInv' /\ CountInv'
  <2>1. Woken' = Woken
    BY DEF Woken, SameSignals
  <2>2. QED
    BY <1>1, <1>2, <2>1, PipeKept
<1>4. ASSUME NEW k \in Req PROVE RequesterInv(k)'
  <2>1. pc[ReqP(k)] # "write"
    BY <1>1 DEF RequesterInv, Summoned, Unsummoned, Waiting, Asks
  <2>2. QED
    BY <1>1, <1>2, <2>1, RequesterKept
<1>5. ASSUME NEW k \in Req, k # i PROVE CalculatorInv(k)'
  <2>1. pc[CalcP(k)] \in CalcPcs(k)'
    BY <1>1, <1>2, <1>5 DEF CalculatorInv
  <2>2. QED
    BY <1>1, <1>5, <2>1, CalculatorKept
<1>6. QED
  BY <1>3, <1>4, <1>5

LEMMA ForkCalcStep ==
    ASSUME Inv, ForkCalc
    PROVE  Inv'
<1>1. /\ Types /\ i \in Req /\ \A k \in Req : CalculatorInv(k)
      /\ ParentInv /\ RoundInv
  BY DEF Inv, Types
<1>2. PICK j \in Req : j = i
  BY <1>1
<1>3. /\ pc[Parent] = "forkCalc" /\ pc' = [pc EXCEPT ![Parent] = "writeReq", ![CalcP(j)] = "read"]
      /\ handled' = [handled EXCEPT ![CalcP(j)] = handled[Parent]]
      /\ UNCHANGED <<program, reqPipe, procPipe, i, a, count, got, b, pending, sigFlag, resetHand>>
  BY <1>2 DEF ForkCalc, dataVars
<1>4. /\ pc'[Parent] = "writeReq" /\ pc'[CalcP(j)] = "read" /\ Types'
      /\ \A q \in Procs \ {Parent, CalcP(j)} : pc'[q] = pc[q] /\ SameSignals(q)
      /\ SameSignals(Parent)
  BY <1>1, <1>3, ProcFacts DEF Types, Pcs, SameSignals
<1>5. ASSUME NEW k \in Req
      PROVE  /\ pc'[ReqP(k)] = pc[ReqP(k)] /\ SameSignals(ReqP(k))
             /\ k # j => pc'[CalcP(k)] = pc[CalcP(k)] /\ SameSignals(CalcP(k))
  <2>1. ReqP(k) \in Procs \ {Parent, CalcP(j)} /\ (k # j => CalcP(k) \in Procs \ {Parent, CalcP(j)})
    BY ProcFacts
  <2>2. QED
    BY <1>4, <2>1
<1>6. PipeInv' /\ CountInv' /\ \A k \in Req : RequesterInv(k)' /\ (k # j => CalculatorInv(k)')
  BY <1>2, <1>3, <1>4, <1>5, RoundStep DEF SameSignals, Asks, Ends
<1>7. program = "server2"
  BY <1>1, <1>3 DEF ParentInv, Asks, Ends
<1>8. CalculatorInv(j)'
  <2>1. CalculatorInv(j)
    BY <1>1
  <2>2. pending'[CalcP(j)] = pending[CalcP(j)] /\ b'[j] = b[j]
    BY <1>3
  <2>3. ~(j > j) /\ ~(j < j)
    BY ReqFacts
  <2>4. "read" \in CalcPcs(j)'
    BY <1>2, <1>3, <1>4, <1>7, <2>3 DEF CalcPcs, Asks, Ends
  <2>5. Data(j)' = Data(j)
    BY DEF Data
  <2>6. QED
    BY <1>4, <2>1, <2>2, <2>4, <2>5 DEF CalculatorInv
<1>9. ParentInv'
  BY <1>1, <1>3, <1>4, <1>7 DEF ParentInv, Asks, Ends, Asking, Data, Results, Result
<1>10. RoundInv'
  BY <1>1, <1>3, <1>4 DEF RoundInv, Awaiting, Waiting, Quiet, SameSignals
<1>11. QED
  BY <1>4, <1>6, <1>8, <1>9, <1>10 DEF Inv

LEMMA WriteReqStep ==
    ASSUME Inv, WriteReq
    PROVE  Inv'
<1>1. /\ Types /\ i \in Req /\ \A k \in Req : CalculatorInv(k)
      /\ ParentInv /\ RoundInv
  BY DEF Inv, Types
<1>2. PICK j \in Req : j = i
  BY <1>1
<1>3. /\ pc[Parent] = "writeReq" /\ pc' = [pc EXCEPT ![Parent] = "block"]
      /\ procPipe' = procPipe \o a[j]
      /\ UNCHANGED <<program, reqPipe, i, a, count, got, b, pending, handled, sigFlag, resetHand>>
  BY <1>2 DEF WriteReq, Goto, dataVars, sigVars
<1>4. /\ pc'[Parent] = "block" /\ Types' /\ \A q \in Procs \ {Parent} : pc'[q] = pc[q]
  BY <1>1, <1>3, ProcFacts DEF Types, Pcs
<1>5. \A p : SameSignals(p)
  BY <1>3 DEF SameSignals
<1>6. \A k \in Req : pc'[ReqP(k)] = pc[ReqP(k)] /\ pc'[CalcP(k)] = pc[CalcP(k)]
  BY <1>4, ProcFacts
<1>7. PipeInv' /\ CountInv' /\ \A k \in Req : RequesterInv(k)' /\ (k # j => CalculatorInv(k)')
  BY <1>2, <1>3, <1>4, <1>5, <1>6, RoundStep DEF SameSignals, Asks, Ends
<1>8. program = "server2"
  BY <1>1, <1>3 DEF ParentInv, Asks, Ends
<1>9. pc[CalcP(j)] = "read" /\ ~(j > j) /\ ~(j < j)
  <2>1. ~(j > j) /\ ~(j < j)
    BY ReqFacts
  <2>2. QED
    BY <1>1, <1>2, <1>3, <1>8, <2>1 DEF CalculatorInv, CalcPcs, Asks, Ends
<1>10. CalculatorInv(j)'
  <2>1. "read" \in CalcPcs(j)'
    BY <1>2, <1>3, <1>4, <1>8, <1>9 DEF CalcPcs, Asks, Ends, Awaiting, Waiting
  <2>2. QED
    BY <1>1, <1>3, <1>5, <1>6, <1>9, <2>1, CalculatorKept DEF SameSignals
<1>11. ParentInv'
  BY <1>1, <1>3, <1>4, <1>8 DEF ParentInv, Asks, Ends, Awaiting, Waiting, Asking, Data, Results, Result
<1>12. procPipe' = Data(j)
  <2>1. procPipe = <<>>
    BY <1>1, <1>3 DEF RoundInv, Awaiting, Waiting
  <2>2. a[j] = Data(j)
    BY <1>1, <1>3, <1>8 DEF ParentInv, Asking, Asks
  <2>3. QED
    BY <1>3, <2>1, <2>2, PipeRead
<1>13. RoundInv'
  <2>1. Quiet(Parent) /\ Quiet(Parent)'
    BY <1>1, <1>3 DEF RoundInv, Awaiting, Waiting, Quiet
  <2>2. Calc' = "read" /\ Data(i)' = Data(j)
    BY <1>2, <1>3, <1>6, <1>9 DEF Calc, Data
  <2>3. QED
    BY <1>4, <1>12, <2>1, <2>2 DEF RoundInv, Awaiting, Waiting, Quiet, Unsummoned
<1>14. QED
  BY <1>4, <1>7, <1>10, <1>11, <1>13 DEF Inv

LEMMA ReadResStep ==
    ASSUME Inv, ReadRes
    PROVE  Inv'
<1>1. /\ Types /\ i \in Req /\ \A k \in Req : CalculatorInv(k)
      /\ ParentInv /\ RoundInv
  BY DEF Inv, Types
<1>2. PICK j \in Req : j = i
  BY <1>1
<1>3. /\ pc[Parent] = "read" /\ pc' = [pc EXCEPT ![Parent] = "writeRes"]
      /\ count' = Taken(procPipe, 1) /\ procPipe' = Rest(procPipe, 1)
      /\ UNCHANGED <<program, reqPipe, i, a, got, b, pending, handled, sigFlag, resetHand>>
  BY DEF ReadRes, Goto, sigVars
<1>4. /\ pc'[Parent] = "writeRes" /\ Types' /\ \A q \in Procs \ {Parent} : pc'[q] = pc[q]
  BY <1>1, <1>3, ProcFacts DEF Types, Pcs
<1>5. \A p : SameSignals(p)
  BY <1>3 DEF SameSignals
<1>6. \A k \in Req : pc'[ReqP(k)] = pc[ReqP(k)] /\ pc'[CalcP(k)] = pc[CalcP(k)]
  BY <1>4, ProcFacts
<1>7. PipeInv' /\ CountInv' /\ \A k \in Req : RequesterInv(k)' /\ (k # j => CalculatorInv(k)')
  BY <1>2, <1>3, <1>4, <1>5, <1>6, RoundStep DEF SameSignals, Asks, Ends
<1>8. program = "server2"
  BY <1>1, <1>3 DEF ParentInv, Asks, Ends
<1>9. CalculatorInv(j)'
  <2>1. ~(j > j) /\ ~(j < j)
    BY ReqFacts
  <2>2. CalcPcs(j)' = CalcPcs(j)
    BY <1>2, <1>3, <1>4, <1>8, <2>1 DEF CalcPcs, Asks, Ends, Awaiting, Waiting
  <2>3. QED
    BY <1>1, <1>3, <1>5, <1>6, <2>2, CalculatorKept DEF SameSignals, CalculatorInv
<1>10. procPipe' = <<>> /\ count' = <<Result(j)>>
  <2>1. procPipe = <<Result(j)>>
    BY <1>1, <1>2, <1>3 DEF RoundInv, Awaiting, Waiting
  <2>2. QED
    BY <1>3, <2>1, PipeRead
<1>11. ParentInv'
  BY <1>1, <1>2, <1>3, <1>4, <1>8, <1>10 DEF ParentInv, Asks, Ends, Asking, Data, Results, Result
<1>12. RoundInv'
  BY <1>1, <1>3, <1>4, <1>5, <1>10 DEF RoundInv, Awaiting, Waiting, Quiet
<1>13. QED
  BY <1>4, <1>7, <1>9, <1>11, <1>12 DEF Inv


\* Only the calculating child of this round is there, and the parent awaits it.
LEMMA CalculatorNow ==
    ASSUME Inv, NEW k \in Req, pc[CalcP(k)] \in {"write", "notify"} \/ (pc[CalcP(k)] = "read" /\ procPipe # <<>>)
    PROVE  /\ k = i /\ program = "server2"
           /\ pc[Parent] \in Awaiting /\ Unsummoned(Parent)
<1>1. /\ Types /\ CalculatorInv(k) /\ RoundInv
  BY DEF Inv
<1>2. /\ pc[CalcP(k)] \in {"read", "write", "notify"} /\ pc[CalcP(k)] \in CalcPcs(k)
  BY <1>1 DEF CalculatorInv
<1>3. ~(k < i) /\ ~(k > i) /\ program # "server" /\ pc[Parent] \notin Asks \cup Ends \cup {"forkCalc"}
  BY <1>2 DEF CalcPcs
<1>4. k = i
  BY <1>1, <1>3, ReqFacts DEF Types
<1>5. pc[Parent] \in Awaiting
  <2>1. pc[Parent] \in Awaiting \cup {"writeReq"}
    BY <1>2, <1>3 DEF CalcPcs
  <2>2. pc[Parent] # "writeReq"
    <3>1. CASE procPipe # <<>>
      BY <1>1, <3>1 DEF RoundInv, Awaiting, Waiting
    <3>2. CASE pc[CalcP(k)] # "read"
      BY <1>2, <1>3, <3>2 DEF CalcPcs, Awaiting, Waiting
    <3>3. QED
      BY <3>1, <3>2
  <2>3. QED
    BY <2>1, <2>2
<1>6. Unsummoned(Parent)
  BY <1>1, <1>2, <1>4, <1>5 DEF RoundInv, Calc
<1>7. program = "server2"
  BY <1>3 DEF Inv, ParentInv
<1>8. QED
  BY <1>4, <1>5, <1>6, <1>7

\* What a step of it leaves alone.
LEMMA CalculatorStep ==
    ASSUME Inv, NEW j \in Req, j = i, NEW l \in {"write", "notify", "gone"},
           pc' = [pc EXCEPT ![CalcP(j)] = l], pc[Parent] \in Awaiting,
           UNCHANGED <<program, reqPipe, i, a, count, got, handled, sigFlag, resetHand>>,
           \A p \in Procs \ {Parent} : pending'[p] = pending[p],
           pending' \in [Procs -> BOOLEAN],
           DOMAIN b' = Req, \A k \in Req : k # j => b'[k] = b[k],
           b'[j] \in {<<>>, Data(j)}, l \in {"write", "notify"} => b'[j] = Data(j),
           procPipe' = IF l = "write" THEN <<>> ELSE <<Result(j)>>,
           IF l = "gone" THEN Summoned(Parent)' ELSE Unsummoned(Parent)'
    PROVE  Inv'
<1>1. /\ Types /\ i \in Req /\ \A k \in Req : CalculatorInv(k)
      /\ ParentInv /\ RoundInv
  BY DEF Inv, Types
<1>2. /\ pc'[CalcP(j)] = l /\ pc'[Parent] = pc[Parent] /\ Types'
      /\ \A q \in Procs \ {CalcP(j)} : pc'[q] = pc[q]
  BY <1>1, ProcFacts DEF Types, Pcs
<1>3. ASSUME NEW k \in Req
      PROVE  /\ pc'[ReqP(k)] = pc[ReqP(k)] /\ SameSignals(ReqP(k))
             /\ pending'[CalcP(k)] = pending[CalcP(k)]
             /\ k # j => pc'[CalcP(k)] = pc[CalcP(k)]
  <2>1. /\ ReqP(k) \in Procs \ {Parent} /\ ReqP(k) \in Procs \ {CalcP(j)}
        /\ CalcP(k) \in Procs \ {Parent}
        /\ k # j => CalcP(k) \in Procs \ {CalcP(j)}
    BY ProcFacts
  <2>2. QED
    BY <1>2, <2>1 DEF SameSignals
<1>4. pc[Parent] \notin Asks \cup Ends \cup {"wake", "writeRes", "killed"}
  BY DEF Awaiting, Waiting, Asks, Ends
<1>5. PipeInv' /\ CountInv' /\ \A k \in Req : RequesterInv(k)' /\ (k # j => CalculatorInv(k)')
  BY <1>2, <1>3, <1>4, RoundStep
<1>6. program = "server2"
  BY <1>1, <1>4 DEF ParentInv, Asks, Ends
<1>7. CalculatorInv(j)'
  <2>1. ~(j > j) /\ ~(j < j) /\ pc[Parent] \notin {"forkCalc", "writeReq"}
    BY ReqFacts DEF Awaiting, Waiting
  <2>2. l \in CalcPcs(j)'
    BY <1>2, <1>4, <1>6, <2>1 DEF CalcPcs
  <2>3. ~pending'[CalcP(j)]
    BY <1>1, <1>3 DEF CalculatorInv
  <2>4. Data(j)' = Data(j)
    BY DEF Data
  <2>5. QED
    BY <1>2, <2>2, <2>3, <2>4 DEF CalculatorInv
<1>8. ParentInv'
  BY <1>1, <1>2, <1>4, <1>6 DEF ParentInv, Asking, Data, Results, Result
<1>9. RoundInv'
  <2>1. Calc' = l /\ Result(i)' = Result(j)
    BY <1>2 DEF Calc, Result
  <2>2. pc'[Parent] \in Awaiting /\ pc'[Parent] \notin {"read", "killed"}
    BY <1>2 DEF Awaiting, Waiting
  <2>3. QED
    BY <2>1, <2>2 DEF RoundInv
<1>10. QED
  BY <1>2, <1>5, <1>7, <1>8, <1>9 DEF Inv

LEMMA CalculatorSteps ==
    ASSUME Inv, NEW k \in Req, Calculator(k)
    PROVE  Inv'
<1>1. /\ k = i /\ pc[Parent] \in Awaiting /\ Unsummoned(Parent)
  BY CalculatorNow DEF Calculator, CalcRead, CalcWrite, CalcNotify
<1>2. /\ Types /\ CalculatorInv(k) /\ RoundInv /\ Calc = pc[CalcP(k)]
  BY <1>1 DEF Inv, Calc
<1>3. CalcP(k) \in Procs /\ Parent \in Procs /\ CalcP(k) # Parent
  BY ProcFacts
<1>4. CASE CalcRead(k)
  <2>1. procPipe = Data(k)
    BY <1>1, <1>2, <1>4 DEF CalcRead, RoundInv
  <2>2. b' = [b EXCEPT ![k] = Data(k)] /\ procPipe' = <<>>
    BY <1>4, <2>1, PipeRead DEF CalcRead
  <2>3. /\ pc' = [pc EXCEPT ![CalcP(k)] = "write"]
        /\ UNCHANGED <<program, reqPipe, i, a, count, got, pending, handled, sigFlag, resetHand>>
    BY <1>4 DEF CalcRead, Goto, sigVars
  <2>4. Unsummoned(Parent)'
    BY <1>1, <1>2, <1>3, <2>3 DEF Unsummoned, Quiet, Types
  <2>5. /\ DOMAIN b' = Req /\ b'[k] = Data(k) /\ (\A j \in Req : j # k => b'[j] = b[j])
        /\ pending' \in [Procs -> BOOLEAN]
    BY <1>2, <2>2, <2>3 DEF Types
  <2>6. \A l \in {"write"} : Inv'
    BY <1>1, <2>2, <2>3, <2>4, <2>5, CalculatorStep
  <2>7. QED
    BY <2>6
<1>5. CASE CalcWrite(k)
  <2>1. procPipe = <<>> /\ b[k] = Data(k)
    BY <1>1, <1>2, <1>5 DEF CalcWrite, RoundInv, CalculatorInv, Awaiting, Waiting
  <2>2. procPipe' = <<Result(k)>>
    <3>1. Computed(b[k]) = Result(k)
      BY <2>1, DataResult DEF Result
    <3>2. \A w : Append(<<>>, w) = <<w>>
      OBVIOUS
    <3>3. QED
      BY <1>5, <2>1, <3>1, <3>2 DEF CalcWrite
  <2>3. /\ pc' = [pc EXCEPT ![CalcP(k)] = "notify"]
        /\ UNCHANGED <<program, reqPipe, i, a, count, got, b, pending, handled, sigFlag, resetHand>>
    BY <1>5 DEF CalcWrite, Goto, sigVars, dataVars
  <2>4. Unsummoned(Parent)'
    BY <1>1, <1>2, <1>3, <2>3 DEF Unsummoned, Quiet, Types
  <2>5. DOMAIN b' = Req /\ b'[k] = Data(k) /\ b' = b /\ pending' \in [Procs -> BOOLEAN]
    BY <1>2, <2>1, <2>3 DEF Types
  <2>6. QED
    BY <1>1, <2>2, <2>3, <2>4, <2>5, CalculatorStep
<1>6. CASE CalcNotify(k)
  <2>1. procPipe = <<Result(k)>>
    BY <1>1, <1>2, <1>6 DEF CalcNotify, RoundInv
  <2>2. /\ pc' = [pc EXCEPT ![CalcP(k)] = "gone"]
        /\ pending' = [p \in Procs |-> pending[p] \/ (p \in {Parent} /\ Alive(p))]
        /\ UNCHANGED <<program, reqPipe, procPipe, i, a, count, got, b, handled, sigFlag, resetHand>>
    BY <1>6 DEF CalcNotify, Goto, dataVars, Kill
  <2>3. Alive(Parent)
    BY <1>1 DEF Alive, Awaiting, Waiting
  <2>4. /\ pending'[Parent] /\ \A p \in Procs \ {Parent} : pending'[p] = pending[p]
    <3>1. pending'[Parent]
      BY <1>3, <2>2, <2>3
    <3>2. ASSUME NEW p \in Procs \ {Parent} PROVE pending'[p] = pending[p]
      <4>1. pending[p] \in BOOLEAN
        BY <1>2 DEF Types
      <4>2. pending'[p] = (pending[p] \/ FALSE)
        BY <2>2
      <4>3. QED
        BY <4>1, <4>2
    <3>3. QED
      BY <3>1, <3>2
  <2>5. pending' \in [Procs -> BOOLEAN]
    <3>1. \A p \in Procs : (pending[p] \/ (p \in {Parent} /\ Alive(p))) \in BOOLEAN
      OBVIOUS
    <3>2. QED
      BY <2>2, <3>1
  <2>6. Summoned(Parent)'
    BY <1>1, <1>2, <1>3, <2>2, <2>4 DEF Unsummoned, Summoned, Quiet, Types
  <2>7. DOMAIN b' = Req /\ b'[k] \in {<<>>, Data(k)} /\ b' = b
    BY <1>2, <2>2 DEF Types, CalculatorInv
  <2>8. QED
    BY <1>1, <2>1, <2>2, <2>4, <2>5, <2>6, <2>7, CalculatorStep
<1>7. QED
  BY <1>4, <1>5, <1>6 DEF Calculator


-----------------------------------------------------------------------------
(* The parent passes a result on and wakes the child that asked for it.    *)

LEMMA WriteResStep ==
    ASSUME Inv, WriteRes
    PROVE  Inv'
<1>1. /\ Types /\ i \in Req /\ \A k \in Req : RequesterInv(k) /\ CalculatorInv(k)
      /\ ParentInv /\ RoundInv /\ PipeInv /\ CountInv
  BY DEF Inv, Types
<1>2. PICK j \in Req : j = i
  BY <1>1
<1>3. /\ pc[Parent] = "writeRes" /\ pc' = [pc EXCEPT ![Parent] = "wake"]
      /\ reqPipe' = reqPipe \o count
      /\ UNCHANGED <<program, procPipe, i, a, count, got, b, pending, handled, sigFlag, resetHand>>
  BY DEF WriteRes, Goto, sigVars, dataVars
<1>4. /\ pc'[Parent] = "wake" /\ Types' /\ \A q \in Procs \ {Parent} : pc'[q] = pc[q]
  BY <1>1, <1>3, ProcFacts DEF Types, Pcs
<1>5. \A p : SameSignals(p)
  BY <1>3 DEF SameSignals
<1>6. \A k \in Req : pc'[ReqP(k)] = pc[ReqP(k)] /\ pc'[CalcP(k)] = pc[CalcP(k)]
  BY <1>4, ProcFacts
<1>7. \A k : (Served(k)' <=> Served(k)) /\ (Asked(k)' <=> Asked(k))
  BY <1>1, <1>3, <1>4, SameRound DEF Asks, Ends
<1>8. ASSUME NEW k \in Req PROVE RequesterInv(k)'
  <2>1. pc[ReqP(k)] # "write"
    BY <1>1, <1>3 DEF RequesterInv, Summoned, Unsummoned, Waiting
  <2>2. QED
    BY <1>1, <1>5, <1>6, <1>7, <2>1, RequesterKept
<1>9. ASSUME NEW k \in Req PROVE CalculatorInv(k)'
  <2>1. CalcPcs(k)' = CalcPcs(k)
    BY <1>3, <1>4 DEF CalcPcs, Asks, Ends, Awaiting, Waiting
  <2>2. QED
    BY <1>1, <1>3, <1>5, <1>6, <2>1, CalculatorKept DEF SameSignals, CalculatorInv
<1>10. ParentInv'
  BY <1>1, <1>3, <1>4 DEF ParentInv, Asks, Ends, Awaiting, Waiting, Asking, Data, Results, Result
<1>11. RoundInv'
  BY <1>1, <1>3, <1>4, <1>5 DEF RoundInv, Awaiting, Waiting, Quiet
<1>12. /\ reqPipe \in Seq({Result(k) : k \in Req}) /\ Len(reqPipe) <= Top
       /\ \A n \in 1..Len(reqPipe) : reqPipe[n] = Result(Low + n)
       /\ \A k \in Req : IF pc[ReqP(k)] = "gone" THEN \E r \in 1..Low : got[k] = <<Result(r)>>
                         ELSE got[k] = <<>>
       /\ \A r \in 1..Low : \E k \in Req : got[k] = <<Result(r)>>
       /\ \A m, k \in Req : got[m] = got[k] /\ got[m] # <<>> => m = k
  BY <1>1, <1>3 DEF PipeInv, Asks
<1>13. Top = j - 1 /\ Top' = j /\ j \in Nat \ {0} /\ Len(reqPipe) \in Nat
  <2>1. Top = j - 1 /\ Top' = j
    BY <1>2, <1>3, <1>4 DEF Top, Ends
  <2>2. QED
    BY <1>12, <2>1, ReqFacts, LenProperties
<1>14. reqPipe' = Append(reqPipe, Result(j))
  <2>1. count = <<Result(j)>>
    BY <1>1, <1>2, <1>3 DEF ParentInv
  <2>2. \A S : \A q \in Seq(S), w \in S : q \o <<w>> = Append(q, w)
    BY AppendIsConcat
  <2>3. QED
    BY <1>3, <1>12, <2>1, <2>2
<1>15. /\ reqPipe' \in Seq({Result(k) : k \in Req}) /\ Len(reqPipe') = Len(reqPipe) + 1
       /\ \A n \in 1..Len(reqPipe) : reqPipe'[n] = reqPipe[n]
       /\ reqPipe'[Len(reqPipe) + 1] = Result(j)
  BY <1>12, <1>14, AppendProperties
<1>16. Low' = Low /\ Low \in Nat /\ Low + Len(reqPipe) + 1 = j
  <2>1. Low' = Top' - Len(reqPipe')
    BY DEF Low
  <2>2. QED
    BY <1>12, <1>13, <1>15, <2>1 DEF Low
<1>17. PipeInv'
  <2>1. ASSUME NEW n \in 1..Len(reqPipe') PROVE reqPipe'[n] = Result(Low + n)
    <3>1. CASE n = Len(reqPipe) + 1
      <4>1. Low + n = j
        BY <1>13, <1>16, <3>1
      <4>2. QED
        BY <1>15, <3>1, <4>1
    <3>2. CASE n # Len(reqPipe) + 1
      <4>1. n \in 1..Len(reqPipe)
        BY <1>13, <1>15, <3>2
      <4>2. QED
        BY <1>12, <1>15, <4>1
    <3>3. QED
      BY <3>1, <3>2
  <2>2. Len(reqPipe') <= Top'
    BY <1>12, <1>13, <1>15
  <2>3. \A r : Result(r)' = Result(r)
    BY DEF Result
  <2>4. QED
    <3>1. pc'[Parent] \notin Asks /\ got' = got
      BY <1>3, <1>4 DEF Asks
    <3>2. \A k \in Req : pc'[ReqP(k)] = pc[ReqP(k)]
      BY <1>6
    <3>3. \A n \in 1..Len(reqPipe') : reqPipe'[n] = Result(Low' + n)
      BY <1>16, <2>1
    <3>4. /\ \A k \in Req : IF pc'[ReqP(k)] = "gone" THEN \E r \in 1..Low' : got'[k] = <<Result(r)>>
                            ELSE got'[k] = <<>>
          /\ \A r \in 1..Low' : \E k \in Req : got'[k] = <<Result(r)>>
          /\ \A m, k \in Req : got'[m] = got'[k] /\ got'[m] # <<>> => m = k
      BY <1>12, <1>16, <3>1, <3>2
    <3>5. {Result(k)' : k \in Req} = {Result(k) : k \in Req}
      BY <2>3
    <3>6. QED
      BY <1>15, <2>2, <2>3, <3>1, <3>3, <3>4, <3>5 DEF PipeInv
<1>18. CountInv'
  <2>1. Woken' = Woken
    BY <1>5, <1>6 DEF Woken, SameSignals
  <2>2. Len(reqPipe) = Cardinality(Woken) + 0
    BY <1>1, <1>3 DEF CountInv, Asks
  <2>3. Cardinality(Woken) \in Nat
    BY WokenFinite, FS_CardinalityType
  <2>4. QED
    BY <1>4, <1>15, <2>1, <2>2, <2>3 DEF CountInv
<1>19. QED
  BY <1>4, <1>8, <1>9, <1>10, <1>11, <1>17, <1>18 DEF Inv

LEMMA WakeStep ==
    ASSUME Inv, NEW j \in Req, j = i, pc[Parent] = "wake",
           Kill({ReqP(j)}), NEW l \in {"forkCalc", "reap"}, pc' = [pc EXCEPT ![Parent] = l],
           UNCHANGED <<program, handled, sigFlag, resetHand, reqPipe, procPipe, a, count, got, b>>,
           \/ program = "server2" /\ l = "forkCalc" /\ j # N /\ i' = j + 1
           \/ program = "server2" /\ l = "reap" /\ j = N /\ i' = 1
           \/ program = "server" /\ l = "reap" /\ i' = j
    PROVE  Inv'
<1>1. /\ Types /\ \A k \in Req : RequesterInv(k) /\ CalculatorInv(k)
      /\ ParentInv /\ RoundInv /\ PipeInv /\ CountInv
  BY DEF Inv
<1>2. /\ j \in Asking /\ (program = "server" => j = 1)
      /\ ~Served(j) /\ Asked(j)
  BY <1>1, ReqFacts DEF Asking, ParentInv, Served, Asked, Asks, Ends
<1>3. Unsummoned(ReqP(j)) /\ handled[ReqP(j)]
  BY <1>1, <1>2 DEF RequesterInv
<1>4. pending' = [p \in Procs |-> pending[p] \/ (p \in {ReqP(j)} /\ Alive(p))]
  BY DEF Kill
<1>5. pending' \in [Procs -> BOOLEAN]
  <2>1. \A p \in Procs : (pending[p] \/ (p \in {ReqP(j)} /\ Alive(p))) \in BOOLEAN
    OBVIOUS
  <2>2. QED
    BY <1>4, <2>1
<1>6. pending'[ReqP(j)]
  <2>1. Alive(ReqP(j))
    BY <1>3 DEF Alive, Unsummoned, Waiting
  <2>2. QED
    BY <1>4, <2>1, ProcFacts
<1>7. ASSUME NEW p \in Procs \ {ReqP(j)} PROVE pending'[p] = pending[p]
  <2>1. pending[p] \in BOOLEAN /\ pending'[p] = (pending[p] \/ FALSE)
    BY <1>1, <1>4 DEF Types
  <2>2. QED
    BY <2>1
<1>8. i' \in Req
  BY ReqFacts
<1>9. /\ pc'[Parent] = l /\ Types' /\ \A q \in Procs \ {Parent} : pc'[q] = pc[q]
  BY <1>1, <1>5, <1>8, ProcFacts DEF Types, Pcs
<1>10. ASSUME NEW k \in Req
       PROVE  /\ pc'[ReqP(k)] = pc[ReqP(k)] /\ (k # j => SameSignals(ReqP(k)))
              /\ pc'[CalcP(k)] = pc[CalcP(k)] /\ SameSignals(CalcP(k))
  <2>1. /\ ReqP(k) \in Procs \ {Parent} /\ CalcP(k) \in Procs \ {Parent}
        /\ CalcP(k) \in Procs \ {ReqP(j)} /\ (k # j => ReqP(k) \in Procs \ {ReqP(j)})
    BY ProcFacts
  <2>2. QED
    BY <1>7, <1>9, <2>1 DEF SameSignals
<1>11. Quiet(Parent)' <=> Quiet(Parent)
  <2>1. Parent \in Procs \ {ReqP(j)}
    BY ProcFacts
  <2>2. QED
    BY <1>7, <2>1 DEF Quiet
<1>12. \A k \in Req : (Served(k)' <=> Served(k) \/ k = j) /\ (Asked(k)' <=> Asked(k))
  BY <1>2, <1>9, ReqFacts, <1>8 DEF Served, Asked, Asking, Asks, Ends
<1>13. ASSUME NEW k \in Req PROVE RequesterInv(k)'
  <2>1. CASE k = j
    <3>1. Summoned(ReqP(j))'
      BY <1>3, <1>6, <1>10 DEF Summoned, Unsummoned, Quiet
    <3>2. QED
      BY <1>3, <1>12, <2>1, <3>1 DEF RequesterInv
  <2>2. CASE k # j
    <3>1. pc[ReqP(k)] # "write"
      BY <1>1 DEF RequesterInv, Summoned, Unsummoned, Waiting
    <3>2. QED
      BY <1>1, <1>10, <1>12, <2>2, <3>1, RequesterKept
  <2>3. QED
    BY <2>1, <2>2
<1>14. ASSUME NEW k \in Req PROVE CalculatorInv(k)'
  <2>1. pc[CalcP(k)] \in CalcPcs(k)
    BY <1>1 DEF CalculatorInv
  <2>2. CASE program = "server"
    BY <1>1, <1>10, <2>1, <2>2, CalculatorKept DEF CalcPcs, SameSignals
  <2>3. CASE program = "server2"
    <3>1. pc[CalcP(k)] = IF k <= j THEN "gone" ELSE "none"
      BY <2>1, <2>3, ReqFacts DEF CalcPcs, Asks, Ends, Awaiting, Waiting
    <3>2. CASE l = "reap"
      <4>1. pc[CalcP(k)] = "gone"
        BY <2>3, <3>1, <3>2, ReqFacts
      <4>2. "gone" \in CalcPcs(k)'
        BY <1>9, <2>3, <3>2 DEF CalcPcs, Asks, Ends
      <4>3. QED
        BY <1>1, <1>10, <4>1, <4>2, CalculatorKept DEF SameSignals
    <3>3. CASE l = "forkCalc"
      <4>1. i' = j + 1
        BY <3>3
      <4>2. IF k <= j THEN k < i' ELSE ~(k < i')
        BY <4>1, ReqFacts
      <4>3. pc[CalcP(k)] \in CalcPcs(k)'
        BY <1>9, <2>3, <3>1, <3>3, <4>2 DEF CalcPcs, Asks, Ends
      <4>4. QED
        BY <1>1, <1>10, <4>3, CalculatorKept DEF SameSignals
    <3>4. QED
      BY <3>2, <3>3
  <2>4. QED
    BY <2>2, <2>3
<1>15. ParentInv'
  BY <1>1, <1>2, <1>9 DEF ParentInv, Asks, Ends, Awaiting, Waiting, Asking, Data, Results, Result
<1>16. RoundInv'
  BY <1>1, <1>9, <1>11 DEF RoundInv, Awaiting, Waiting
<1>17. PipeInv'
  <2>1. Top' = Top
    BY <1>2, <1>9, ReqFacts DEF Top, Ends
  <2>2. QED
    BY <1>1, <1>9, <1>10, <2>1, PipeSame DEF Asks
<1>18. CountInv'
  <2>1. j \notin Woken /\ j \in Woken'
    BY <1>3, <1>6 DEF Woken, Unsummoned, Quiet, Waiting
  <2>2. \A k \in Req \ {j} : k \in Woken' <=> k \in Woken
    BY <1>10 DEF Woken, SameSignals
  <2>3. Woken' = Woken \cup {j}
    BY <2>1, <2>2 DEF Woken
  <2>4. Cardinality(Woken') = Cardinality(Woken) + 1 /\ Cardinality(Woken) \in Nat
    BY <2>1, <2>3, WokenFinite, FS_AddElement, FS_CardinalityType
  <2>5. Len(reqPipe) = Cardinality(Woken) + 1
    BY <1>1 DEF CountInv, Asks
  <2>6. QED
    BY <1>9, <2>4, <2>5 DEF CountInv
<1>19. QED
  BY <1>9, <1>13, <1>14, <1>15, <1>16, <1>17, <1>18 DEF Inv

LEMMA WakeSteps ==
    ASSUME Inv, Wake \/ WakeOne
    PROVE  Inv'
<1>1. Types /\ i \in Req /\ ParentInv
  BY DEF Inv, Types
<1>2. PICK j \in Req : j = i
  BY <1>1
<1>3. CASE Wake
  <2>1. a[j] = Data(j)
    BY <1>1, <1>3 DEF Wake, ParentInv, Asking, Asks
  <2>2. WakePids(Data(j)) = {ReqP(j)}
    <3>1. Len(Data(j)) = 3
      BY LenProperties DEF Data
    <3>2. \A k \in Req : Data(k)[3].of = k
      BY DEF Data
    <3>3. {k \in Req : Len(Data(j)) = 3 /\ Data(j)[3] = Data(k)[3]} = {j}
      BY <3>1, <3>2
    <3>4. QED
      BY <3>3 DEF WakePids
  <2>3. /\ pc[Parent] = "wake" /\ program = "server2" /\ Kill({ReqP(j)})
        /\ UNCHANGED <<program, handled, sigFlag, resetHand, reqPipe, procPipe, a, count, got, b>>
        /\ \/ pc' = [pc EXCEPT ![Parent] = "forkCalc"] /\ j # N /\ i' = j + 1
           \/ pc' = [pc EXCEPT ![Parent] = "reap"] /\ j = N /\ i' = 1
    BY <1>2, <1>3, <2>1, <2>2 DEF Wake, NextRound, Goto
  <2>4. QED
    BY <1>2, <2>3, WakeStep
<1>4. CASE WakeOne
  <2>1. i = 1
    BY <1>1, <1>4 DEF WakeOne, ParentInv
  <2>2. /\ pc[Parent] = "wake" /\ program = "server" /\ Kill({ReqP(j)}) /\ i' = j
        /\ UNCHANGED <<program, handled, sigFlag, resetHand, reqPipe, procPipe, a, count, got, b>>
        /\ pc' = [pc EXCEPT ![Parent] = "reap"]
    BY <1>2, <1>4, <2>1 DEF WakeOne, Goto, dataVars
  <2>3. QED
    BY <1>2, <2>2, WakeStep
<1>5. QED
  BY <1>3, <1>4


LEMMA ReapStep ==
    ASSUME Inv, Reap
    PROVE  Inv'
<1>1. /\ Types /\ i \in Req /\ \A k \in Req : RequesterInv(k) /\ CalculatorInv(k)
      /\ ParentInv /\ RoundInv /\ PipeInv /\ CountInv
  BY DEF Inv, Types
<1>2. /\ pc[Parent] = "reap" /\ pc' = [pc EXCEPT ![Parent] = "done"]
      /\ UNCHANGED <<program, reqPipe, procPipe, i, a, count, got, b, pending, handled, sigFlag, resetHand>>
  BY DEF Reap, Goto, sigVars, dataVars
<1>3. /\ pc'[Parent] = "done" /\ Types' /\ \A q \in Procs \ {Parent} : pc'[q] = pc[q]
  BY <1>1, <1>2, ProcFacts DEF Types, Pcs
<1>4. \A p : SameSignals(p)
  BY <1>2 DEF SameSignals
<1>5. \A k \in Req : pc'[ReqP(k)] = pc[ReqP(k)] /\ pc'[CalcP(k)] = pc[CalcP(k)]
  BY <1>3, ProcFacts
<1>6. \A k \in Req : (Served(k)' <=> Served(k)) /\ (Asked(k)' <=> Asked(k)) /\ CalcPcs(k)' = CalcPcs(k)
  BY <1>2, <1>3 DEF Served, Asked, Asking, Asks, Ends, CalcPcs
<1>7. ASSUME NEW k \in Req PROVE RequesterInv(k)' /\ CalculatorInv(k)'
  <2>1. pc[ReqP(k)] # "write"
    BY <1>1, <1>2 DEF RequesterInv, Summoned, Unsummoned, Waiting
  <2>2. RequesterInv(k)'
    BY <1>1, <1>4, <1>5, <1>6, <2>1, RequesterKept
  <2>3. CalculatorInv(k)'
    BY <1>1, <1>2, <1>4, <1>5, <1>6, CalculatorKept DEF SameSignals, CalculatorInv
  <2>4. QED
    BY <2>2, <2>3
<1>8. PipeInv' /\ CountInv'
  <2>1. Woken' = Woken /\ Top' = Top
    BY <1>2, <1>3, <1>4, <1>5 DEF Woken, SameSignals, Top, Ends
  <2>2. QED
    BY <1>1, <1>2, <1>3, <1>5, <2>1, PipeKept DEF Asks
<1>9. ParentInv'
  BY <1>1, <1>2, <1>3 DEF ParentInv, Asks, Ends, Asking, Data, Results, Result
<1>10. RoundInv'
  BY <1>1, <1>2, <1>3, <1>4 DEF RoundInv, Awaiting, Waiting, Quiet
<1>11. QED
  BY <1>3, <1>7, <1>8, <1>9, <1>10 DEF Inv

-----------------------------------------------------------------------------
(* The invariant holds.                                                    *)

LEMMA InvInit == Init => Inv
<1> SUFFICES ASSUME Init PROVE Inv
  OBVIOUS
<1>1. /\ pc[Parent] = "fork" /\ \A k \in Req : pc[ReqP(k)] = "none" /\ pc[CalcP(k)] = "none"
      /\ \A p \in Procs : ~pending[p] /\ handled[p] /\ ~sigFlag[p]
      /\ i = 1 /\ reqPipe = <<>> /\ procPipe = <<>> /\ count = <<>> /\ program \in {"server", "server2"}
      /\ \A k \in Req : a[k] = <<>> /\ b[k] = <<>> /\ got[k] = <<>>
  BY ProcFacts DEF Init
<1>2. Types
  BY ReqFacts DEF Init, Types, Pcs
<1>3. ASSUME NEW k \in Req PROVE RequesterInv(k) /\ CalculatorInv(k)
  <2>1. ~Served(k) /\ ~Asked(k)
    BY <1>1, ReqFacts DEF Served, Asked, Asks
  <2>2. QED
    BY <1>1, <2>1, ProcFacts DEF RequesterInv, CalculatorInv, CalcPcs, Quiet, Asks
<1>4. ParentInv
  BY <1>1, ReqFacts DEF ParentInv, Asks
<1>5. RoundInv
  BY <1>1, ProcFacts DEF RoundInv, Awaiting, Waiting, Quiet
<1>6. PipeInv /\ CountInv
  BY <1>1 DEF Init, PipeInv, CountInv, Asks
<1>7. QED
  BY <1>2, <1>3, <1>4, <1>5, <1>6 DEF Inv

LEMMA InvStep == Inv /\ [Next]_vars => Inv'
<1> SUFFICES ASSUME Inv, [Next]_vars PROVE Inv'
  OBVIOUS
<1>1. CASE UNCHANGED vars
  <2>1. /\ UNCHANGED <<program, reqPipe, procPipe, pc, i, a, count, got, b>>
        /\ UNCHANGED <<pending, handled, sigFlag, resetHand>>
    BY <1>1 DEF vars, sigVars, dataVars
  <2>2. \A p : SameSignals(p)
    BY <2>1 DEF SameSignals
  <2>3. ParentInv' /\ RoundInv' /\ \A k \in Req : CalculatorInv(k)'
    BY <2>1, <2>2, ParentKept
  <2>4. \A k \in Req : RequesterInv(k)'
    BY <2>1 DEF Inv, RequesterInv, Served, Asked, Asking, Summoned, Unsummoned, Quiet
  <2>5. PipeInv' /\ CountInv' /\ Types'
    BY <2>1 DEF Inv, PipeInv, CountInv, Types, Top, Low, Woken, Result, Data
  <2>6. QED
    BY <2>3, <2>4, <2>5 DEF Inv
<1>2. CASE Main
  BY <1>2, ParentWait, ForkStep, ReadStep, ForkCalcStep, WriteReqStep, ReadResStep, WriteResStep,
     WakeSteps, ReapStep DEF Main
<1>3. ASSUME NEW k \in Req, Requester(k) \/ Calculator(k) PROVE Inv'
  BY <1>3, RequesterWait, RequesterWrites, RequesterReads, CalculatorSteps DEF Requester
<1>4. ASSUME NEW p \in Procs, Deliver(p) PROVE Inv'
  <2>1. p = Parent \/ \E k \in Req : p = ReqP(k) \/ p = CalcP(k)
    BY ProcFacts
  <2>2. CASE p = Parent
    BY <1>4, <2>2, ParentWait
  <2>3. ASSUME NEW k \in Req, p = ReqP(k) PROVE Inv'
    BY <1>4, <2>3, RequesterWait
  <2>4. ASSUME NEW k \in Req, p = CalcP(k) PROVE Inv'
    <3>1. ~pending[p]
      BY <2>4 DEF Inv, CalculatorInv
    <3>2. QED
      BY <1>4, <3>1 DEF Deliver, Handle, Die
  <2>5. QED
    BY <2>1, <2>2, <2>3, <2>4
<1>5. QED
  BY <1>1, <1>2, <1>3, <1>4 DEF Next

LEMMA Invariant == Spec => []Inv
BY InvInit, InvStep, PTL DEF Spec

\* The parent has waited for its children.
DoneInv == pc[Parent] = "done" => \A k \in Req : ~Alive(ReqP(k))

LEMMA DoneStep == Inv /\ DoneInv /\ [Next]_vars => DoneInv'
<1> SUFFICES ASSUME Inv, DoneInv, [Next]_vars, pc'[Parent] = "done", NEW k \in Req
             PROVE  ~Alive(ReqP(k))'
  BY DEF DoneInv
<1>1. Types /\ Parent \in Procs /\ ReqP(k) \in Procs /\ ReqP(k) # Parent /\ i \in Req
  BY ProcFacts DEF Inv, Types
<1>2. CASE UNCHANGED vars
  BY <1>2 DEF vars, DoneInv, Alive
<1>3. CASE Main
  <2>1. Reap
    BY <1>1, <1>3 DEF Main, Await, Block, Test, Suspend, Unblock, ResetFlag, ForkReq, ReadReq, ReadOne,
                      ForkCalc, WriteReq, ReadRes, WriteRes, Wake, WakeOne, NextRound, Goto, Types,
                      ReqP, CalcP, Parent
  <2>2. QED
    BY <1>1, <2>1 DEF Reap, Goto, Alive, Types
<1>4. ASSUME NEW j \in Req, Requester(j) \/ Calculator(j) PROVE ~Alive(ReqP(k))'
  <2>1. /\ ReqP(j) # Parent /\ CalcP(j) # Parent /\ CalcP(j) # ReqP(k) /\ CalcP(j) \in Procs /\ ReqP(j) \in Procs
    BY ProcFacts
  <2>2. CASE Requester(j)
    <3>1. Alive(ReqP(j)) /\ \E l : pc' = [pc EXCEPT ![ReqP(j)] = l]
      BY <2>2 DEF Requester, Await, Block, Test, Suspend, Unblock, ResetFlag, ReqWrite, ReqRead, Goto, Alive
    <3>2. pc[Parent] = "done" /\ ReqP(j) # ReqP(k)
      BY <1>1, <2>1, <3>1 DEF Types, DoneInv
    <3>3. QED
      BY <1>1, <2>1, <3>1, <3>2 DEF Types, DoneInv, Alive
  <2>3. CASE Calculator(j)
    <3>1. \E l : pc' = [pc EXCEPT ![CalcP(j)] = l]
      BY <2>3 DEF Calculator, CalcRead, CalcWrite, CalcNotify, Goto
    <3>2. QED
      BY <1>1, <2>1, <3>1 DEF Types, DoneInv, Alive
  <2>4. QED
    BY <1>4, <2>2, <2>3
<1>5. ASSUME NEW p \in Procs, Deliver(p) PROVE ~Alive(ReqP(k))'
  <2>1. Alive(p) /\ \E l : pc' = [pc EXCEPT ![p] = l] /\ l \in {"killed", pc[p], "test"}
    BY <1>5 DEF Deliver, Handle, Die, Goto
  <2>2. pc[Parent] = "done"
    BY <1>1, <2>1 DEF Types
  <2>3. p # ReqP(k)
    BY <2>1, <2>2 DEF DoneInv
  <2>4. QED
    BY <1>1, <2>1, <2>2, <2>3 DEF Types, DoneInv, Alive
<1>6. QED
  BY <1>2, <1>3, <1>4, <1>5 DEF Next

LEMMA Waited == Spec => []DoneInv
<1>1. Init => DoneInv
  BY ProcFacts DEF Init, DoneInv
<1>2. QED
  BY <1>1, DoneStep, Invariant, PTL DEF Spec

\* By then nothing is left in the pipe.
LEMMA AllRead ==
    ASSUME Inv, DoneInv, pc[Parent] = "done"
    PROVE  /\ 1..Low = Asking
           /\ \A k \in Req : pc[ReqP(k)] = IF k \in Asking THEN "gone" ELSE "none"
<1>1. ASSUME NEW k \in Req
      PROVE  pc[ReqP(k)] = (IF k \in Asking THEN "gone" ELSE "none") /\ Quiet(ReqP(k))
  <2>1. RequesterInv(k) /\ ~Alive(ReqP(k)) /\ (Served(k) <=> k \in Asking) /\ (Asked(k) <=> k \in Asking)
    BY DEF Inv, DoneInv, Served, Asked, Asks, Ends
  <2>2. CASE k \in Asking
    BY <2>1, <2>2 DEF RequesterInv, Summoned, Alive, Waiting
  <2>3. CASE k \notin Asking
    BY <2>1, <2>3 DEF RequesterInv
  <2>4. QED
    BY <2>2, <2>3
<1>2. Woken = {}
  BY <1>1 DEF Woken, Quiet
<1>3. Cardinality(Woken) = 0
  BY <1>2, FS_EmptySet
<1>4. Len(reqPipe) = 0
  BY <1>3 DEF Inv, CountInv, Asks
<1>5. Low = IF program = "server" THEN 1 ELSE N
  <2>1. Top = IF program = "server" THEN 1 ELSE N
    BY DEF Top, Ends
  <2>2. Top \in Nat
    BY TopType DEF Inv
  <2>3. QED
    BY <1>4, <2>1, <2>2 DEF Low
<1>6. 1..Low = Asking
  <2>1. CASE program = "server"
    <3>1. Low = 1 /\ 1..1 = {1}
      BY <1>5, <2>1
    <3>2. QED
      BY <2>1, <3>1 DEF Asking
  <2>2. CASE program # "server"
    BY <1>5, <2>2, ReqFacts DEF Asking
  <2>3. QED
    BY <2>1, <2>2
<1>7. QED
  BY <1>1, <1>6

-----------------------------------------------------------------------------
(* Whoever reads finds a whole message of the other side in the pipe: a    *)
(* request by the parent (server2.c:143-151, server.c:42) and by the       *)
(* calculating children, and one result by the parent and by the           *)
(* requesting children.                                                    *)
THEOREM MessagesWhole == Spec => []WholeMessages
<1>1. Inv => WholeMessages
  <2> SUFFICES ASSUME Inv PROVE WholeMessages
    OBVIOUS
  <2>1. \A k \in Req : a[k] \in {<<>>} \cup {Data(r) : r \in Req}
    BY DEF Inv, ParentInv
  <2>2. \A k \in Req : b[k] \in {<<>>} \cup {Data(r) : r \in Req}
    BY DEF Inv, CalculatorInv
  <2>3. count \in {<<>>} \cup Results
    BY DEF Inv, ParentInv
  <2>4. ASSUME NEW k \in Req PROVE got[k] \in {<<>>} \cup Results
    <3>1. CASE pc[Parent] \in Asks
      BY <3>1 DEF Inv, PipeInv
    <3>2. CASE pc[Parent] \notin Asks
      <4>1. got[k] = <<>> \/ \E r \in 1..Low : got[k] = <<Result(r)>>
        BY <3>2 DEF Inv, PipeInv
      <4>2. Low \in Int /\ Low <= N
        <5>1. Top \in Nat /\ Top <= N
          BY TopType, ReqFacts DEF Inv, Top, Types
        <5>2. Len(reqPipe) \in Nat
          BY <3>2, LenProperties DEF Inv, PipeInv
        <5>3. QED
          BY <5>1, <5>2, ReqFacts DEF Low
      <4>3. 1..Low \subseteq Req
        BY <4>2, ReqFacts
      <4>4. QED
        BY <4>1, <4>3 DEF Results, Result
    <3>3. QED
      BY <3>1, <3>2
  <2>5. QED
    BY <2>1, <2>2, <2>3, <2>4 DEF WholeMessages
<1>2. QED
  BY <1>1, Invariant, PTL

(* In every state there is a result in the pipe for each child that has    *)
(* been woken, and one more only when the parent is about to wake a child; *)
(* a child is woken when its own operation has been computed, and the      *)
(* parent, when woken, finds its result: the data is written before kill   *)
(* is called (server2.c:143-151, 171, 172, server.c:56, 57).               *)
THEOREM NobodyReadsInVain == Spec => []WakeFindsData
<1>1. Inv => WakeFindsData
  <2> SUFFICES ASSUME Inv PROVE WakeFindsData
    OBVIOUS
  <2> DEFINE InPipe == {n \in 1..Len(reqPipe) : reqPipe[n].part = 0}
  <2>1. ASSUME NEW k \in Woken PROVE Served(k)
    <3>1. RequesterInv(k) /\ k \in Req
      BY DEF Inv, Woken
    <3>2. QED
      BY <3>1 DEF RequesterInv, Woken, Quiet, Unsummoned, Waiting
  <2>2. Cardinality(InPipe) = Cardinality(Woken) + (IF pc[Parent] = "wake" THEN 1 ELSE 0)
    <3>1. CASE pc[Parent] \in Asks
      <4>1. Woken = {}
        BY <2>1, <3>1 DEF Served
      <4>2. i \in Req /\ reqPipe \in {<<>>, Data(i)}
        BY <3>1 DEF Inv, Types, PipeInv
      <4>3. InPipe = {}
        BY <4>2 DEF Data
      <4>4. pc[Parent] # "wake"
        BY <3>1 DEF Asks
      <4>5. QED
        BY <4>1, <4>3, <4>4, FS_EmptySet
    <3>2. CASE pc[Parent] \notin Asks
      <4>1. reqPipe \in Seq({Result(k) : k \in Req})
        BY <3>2 DEF Inv, PipeInv
      <4>2. \A n \in 1..Len(reqPipe) : reqPipe[n].part = 0
        BY <4>1, ElementOfSeq DEF Result
      <4>3. InPipe = 1..Len(reqPipe) /\ Len(reqPipe) \in Nat
        BY <4>1, <4>2, LenProperties
      <4>4. Cardinality(InPipe) = Len(reqPipe)
        <5>1. Cardinality(InPipe) = Cardinality(1..Len(reqPipe))
          BY <4>3, Zenon
        <5>2. Cardinality(1..Len(reqPipe)) = IF 1 > Len(reqPipe) THEN 0 ELSE Len(reqPipe) - 1 + 1
          BY <4>3, FS_Interval
        <5>3. QED
          BY <4>3, <5>1, <5>2
      <4>5. QED
        BY <3>2, <4>4 DEF Inv, CountInv
    <3>3. QED
      BY <3>1, <3>2
  <2>3. ASSUME program = "server2", NEW k \in Woken PROVE pc[CalcP(k)] = "gone"
    <3>1. pc[Parent] \notin Asks /\ (pc[Parent] \in Ends \/ k < i)
      BY <2>1, <2>3 DEF Served
    <3>2. pc[CalcP(k)] \in CalcPcs(k)
      BY DEF Inv, CalculatorInv, Woken
    <3>3. QED
      BY <2>3, <3>1, <3>2 DEF CalcPcs
  <2>4. ASSUME pc[Parent] = "read" PROVE procPipe # <<>>
    <3>1. procPipe = <<Result(i)>>
      BY <2>4 DEF Inv, RoundInv, Awaiting, Waiting
    <3>2. QED
      BY <3>1, ResultFacts
  <2>5. QED
    BY <2>2, <2>3, <2>4 DEF WakeFindsData
<1>2. QED
  BY <1>1, Invariant, PTL

(* No result is read twice, and when the parent has waited for its         *)
(* children each result has been read by one of them.                      *)
THEOREM ReadOnce == Spec => []EachOnce
<1>1. Inv /\ DoneInv => EachOnce
  <2> SUFFICES ASSUME Inv, DoneInv PROVE EachOnce
    OBVIOUS
  <2>1. \A j, k \in Req : got[j] = got[k] /\ got[j] # <<>> => j = k
    <3>1. CASE pc[Parent] \in Asks
      BY <3>1 DEF Inv, PipeInv
    <3>2. CASE pc[Parent] \notin Asks
      BY <3>2 DEF Inv, PipeInv
    <3>3. QED
      BY <3>1, <3>2
  <2>2. ASSUME pc[Parent] = "done"
        PROVE  {got[k] : k \in Asking} = {<<Computed(Data(k))>> : k \in Asking}
    <3>1. /\ \A k \in Req : IF pc[ReqP(k)] = "gone" THEN \E r \in 1..Low : got[k] = <<Result(r)>>
                            ELSE got[k] = <<>>
          /\ \A r \in 1..Low : \E k \in Req : got[k] = <<Result(r)>>
      BY <2>2 DEF Inv, PipeInv, Asks
    <3>2. Asking \subseteq Req /\ \A k \in Asking : Computed(Data(k)) = Result(k)
      BY ReqFacts, DataResult DEF Result
    <3>3. ASSUME NEW k \in Asking PROVE \E r \in Asking : got[k] = <<Computed(Data(r))>>
      <4>1. k \in Req /\ pc[ReqP(k)] = "gone" /\ 1..Low = Asking
        BY <2>2, <3>2, AllRead
      <4>2. PICK r \in 1..Low : got[k] = <<Result(r)>>
        BY <3>1, <4>1
      <4>3. QED
        BY <3>2, <4>1, <4>2
    <3>4. ASSUME NEW r \in Asking PROVE \E k \in Asking : got[k] = <<Computed(Data(r))>>
      <4>1. PICK k \in Req : got[k] = <<Result(r)>>
        BY <2>2, <3>1, AllRead
      <4>2. k \in Asking
        BY <2>2, <3>1, <4>1, AllRead, ResultFacts
      <4>3. QED
        BY <3>2, <4>1, <4>2
    <3>5. QED
      BY <3>3, <3>4
  <2>3. QED
    BY <2>1, <2>2 DEF EachOnce
<1>2. QED
  BY <1>1, Invariant, Waited, PTL
=============================================================================
