--------------------------- MODULE ParentChildProofs ---------------------------
(***************************************************************************)
(* Proofs about the three programs semaphore/parent_child{1,2,3}, for any  *)
(* number of requests: what is in the two pipes when somebody reads, with  *)
(* semaphores that initialisations on both sides, SEM_UNDO and a killed    *)
(* earlier run change behind everybody's back.  After them the programs    *)
(* pipe/pipe{1,2,3}, which share the specification MCSpec with them: what  *)
(* is in their pipes when nothing but sleeps keeps the processes apart.    *)
(***************************************************************************)
EXTENDS MCParentChild, PipesProofs, TLAPS, SequenceTheorems, FiniteSetTheorems

-----------------------------------------------------------------------------
(* The invariant.                                                          *)

Result(k) == [of |-> k, part |-> 0]

One    == program = "parent_child2"     \* one calculating child
Kid    == IF One THEN 1 ELSE i          \* the calculating child of this round
Before == IF One THEN i - 1 ELSE 0      \* how often it has served before
Closed == IF program = "parent_child3" THEN 1 ELSE 0   \* what semaphores are set to

Asks   == {"fork", "setval", "readReq"}  \* the parent's first loop
Ends   == {"reap", "done"}               \* the parent after its second
Opens  == {"setvalCalc", "setvalCalc2", "writeReq", "postReq"}
Closes == {"readRes", "writeRes", "post"}

Datas == {Data(k) : k \in Req}

SemTypes == semval \in [Sems -> Nat] /\ semadj \in [Procs -> [Sems -> Int]]
Types ==
    /\ SemTypes
    /\ ppc \in ParentPcs /\ i \in Req
    /\ rpc \in [Req -> RequesterPcs] /\ cpc \in [Req -> CalculatorPcs]
    /\ a \in [Req -> {<<>>} \cup Datas] /\ b \in [Req -> {<<>>} \cup Datas]
    /\ rgot \in [Req -> {<<>>} \cup Results] /\ res \in {<<>>} \cup Results
    /\ served \in [Req -> Nat]

\* The requesting children in the first loop: nobody gets past the semaphore.
AskInv ==
    /\ \A k \in Req : rpc[k] \in IF k < i THEN {"wait"}
                                 ELSE IF k > i \/ ppc = "fork" THEN {"none"}
                                 ELSE {"setval", "write", "wait"}
    /\ \A k \in Req : rpc[k] \in {"write", "wait"} => semval[0] = Closed
    /\ reqPipe = IF rpc[i] = "wait" THEN Data(i) ELSE <<>>
    /\ rgot = [k \in Req |-> <<>>]

\* And in the second: how many results the parent has written, and how many
\* have been read.
Top == IF ppc \in Ends THEN N ELSE IF ppc = "post" THEN i ELSE i - 1
Low == Top - Len(reqPipe)
Readers == {k \in Req : rgot[k] # <<>>}

TakeInv ==
    /\ \A k \in Req : rpc[k] \in {"wait", "read", "exit", "gone"}
    /\ reqPipe \in Seq({Result(k) : k \in Req}) /\ Len(reqPipe) <= Top
    /\ \A n \in 1..Len(reqPipe) : reqPipe[n] = Result(Low + n)
    /\ \A k \in Req : IF rpc[k] \in {"exit", "gone"} THEN \E r \in 1..Low : rgot[k] = <<Result(r)>>
                      ELSE rgot[k] = <<>>
    /\ \A r \in 1..Low : \E k \in Req : rgot[k] = <<Result(r)>>
    /\ \A k, m \in Req : rgot[k] = rgot[m] /\ rgot[k] # <<>> => k = m
    /\ Low = Cardinality(Readers)

ReqInv == IF ppc \in Asks THEN AskInv ELSE TakeInv

\* The calculating children: those still to be forked, those that are done
\* with, and the one of this round.
Forked(c) == /\ ppc \notin Asks
             /\ IF One THEN c = 1 /\ ppc # "forkCalc" ELSE c < i \/ ppc \in Ends \/ (c = i /\ ppc # "forkCalc")
Over(c)   == ppc \in Ends \/ (~One /\ c < i)

Starts   == IF One THEN {"setval", "setval2", "wait"} ELSE {"setval", "read"}
Finished == IF One /\ i < N THEN {"wait"} ELSE {"exit", "gone"}

CalcInv(c) ==
    /\ cpc[c] \in {"write", "post"} => b[c] = Data(i)
    /\ IF ~Forked(c) THEN cpc[c] = "none" /\ served[c] = 0
       ELSE IF Over(c) THEN cpc[c] \in {"exit", "gone"} /\ served[c] = (IF One THEN N ELSE 1)
       ELSE \/ /\ served[c] = Before /\ ppc \in Opens \cup {"waitRes"}
               /\ cpc[c] \in Starts \/ (ppc = "waitRes" /\ cpc[c] \in {"read", "write", "post"})
            \/ served[c] = Before + 1 /\ ppc \in Closes \cup {"waitRes"} /\ cpc[c] \in Finished

\* The parent: what it has read, and what it has written to the second pipe.
ParentInv ==
    /\ One /\ ppc = "forkCalc" => i = 1
    /\ ppc \in {"setvalCalc2", "postReq"} => One
    /\ \A k \in Req : a[k] = IF ppc \in Asks /\ k >= i THEN <<>> ELSE Data(k)
    /\ ppc = "writeRes" => res = <<Result(i)>>
    /\ calcPipe = IF ppc \in {"postReq", "waitRes"}
                  THEN IF served[Kid] # Before \/ cpc[Kid] = "post" THEN <<Result(i)>>
                       ELSE IF cpc[Kid] = "write" THEN <<>> ELSE Data(i)
                  ELSE IF ppc = "readRes" THEN <<Result(i)>> ELSE <<>>

\* Semaphore 1 keeps the parent from reading before there is a result, and
\* semaphore 2 the one child of parent_child2 before there is a request; the
\* exit of no process opens them.
SemInv ==
    /\ \A k \in Req : semadj[ReqP(k)][1] = 0 /\ semadj[ReqP(k)][2] = 0
    /\ \A c \in Req : IF program = "parent_child3" THEN semadj[CalcP(c)][1] >= 0
                      ELSE semadj[CalcP(c)][1] <= 0
    /\ ppc \in {"setvalCalc2", "writeReq", "postReq", "waitRes"} /\ served[Kid] = Before =>
          IF program = "parent_child3" THEN semval[1] >= 1 ELSE semval[1] = 0
    /\ One => /\ ppc \in Closes => semval[1] = 0
              /\ ppc = "waitRes" => semval[1] <= 1
              /\ cpc[1] \in {"wait", "read", "write", "post"} =>
                    \/ semval[2] = 0
                    \/ semval[2] = 1 /\ cpc[1] = "wait" /\ served[1] = Before /\ ppc = "waitRes"

CalcSide == ParentInv /\ SemInv /\ \A c \in Req : CalcInv(c)

Inv == Types /\ ReqInv /\ CalcSide

LEMMA Shared1 ==
    /\ (P1!ForkReq <=> ForkReq) /\ (P1!ReadReq <=> ReadReq) /\ (P1!ReadRes <=> ReadRes)
    /\ (P1!WriteRes <=> WriteRes) /\ (P1!Reap <=> Reap)
    /\ \A k : (P1!ReqWrite(k) <=> ReqWrite(k)) /\ (P1!ReqRead(k) <=> ReqRead(k)) /\ (P1!ReqExit(k) <=> ReqExit(k))
    /\ \A c : (P1!ForkCalc(c) <=> ForkCalc(c)) /\ (P1!CalcRead(c) <=> CalcRead(c))
    /\ \A c : (P1!CalcWrite(c) <=> CalcWrite(c)) /\ (P1!CalcExit(c) <=> CalcExit(c))
    /\ \A v : P1!InitReqSem(v) <=> InitReqSem(v)
    /\ \A k, v : P1!ReqInitSem(k, v) <=> ReqInitSem(k, v)
    /\ \A from, s, v, to : P1!InitCalcSem(from, s, v, to) <=> InitCalcSem(from, s, v, to)
    /\ \A c, from, s, v, to : P1!CalcInitSem(c, from, s, v, to) <=> CalcInitSem(c, from, s, v, to)
    /\ \A to : P1!WriteReq(to) <=> WriteReq(to)
BY DEF P1!Req, Req, P1!Sems, Sems, P1!Procs, Procs, P1!Parent, Parent, P1!ReqP, ReqP, P1!CalcP,
       CalcP, P1!Data, Data, P1!Taken, Taken, P1!Rest, Rest, P1!Computed, Computed, P1!PGoto,
       PGoto, P1!RGoto, RGoto, P1!CGoto, CGoto, P1!SetVal, SetVal, P1!SemOp, SemOp, P1!WaitZeroInc,
       WaitZeroInc, P1!Undo, Undo, P1!NextRound, NextRound, P1!semVars, semVars, P1!parentVars,
       parentVars, P1!reqVars, reqVars, P1!calcVars, calcVars, P1!ForkReq, ForkReq, P1!ReadReq,
       ReadReq, P1!ReadRes, ReadRes, P1!WriteRes, WriteRes, P1!Reap, Reap, P1!ReqWrite, ReqWrite,
       P1!ReqRead, ReqRead, P1!ReqExit, ReqExit, P1!ForkCalc, ForkCalc, P1!CalcRead, CalcRead,
       P1!CalcWrite, CalcWrite, P1!CalcExit, CalcExit, P1!InitReqSem, InitReqSem, P1!ReqInitSem,
       ReqInitSem, P1!InitCalcSem, InitCalcSem, P1!CalcInitSem, CalcInitSem, P1!WriteReq, WriteReq

LEMMA Shared2 ==
    /\ (P2!ForkReq <=> ForkReq) /\ (P2!ReadReq <=> ReadReq) /\ (P2!ReadRes <=> ReadRes)
    /\ (P2!WriteRes <=> WriteRes) /\ (P2!Reap <=> Reap)
    /\ \A k : (P2!ReqWrite(k) <=> ReqWrite(k)) /\ (P2!ReqRead(k) <=> ReqRead(k)) /\ (P2!ReqExit(k) <=> ReqExit(k))
    /\ \A c : (P2!ForkCalc(c) <=> ForkCalc(c)) /\ (P2!CalcRead(c) <=> CalcRead(c))
    /\ \A c : (P2!CalcWrite(c) <=> CalcWrite(c)) /\ (P2!CalcExit(c) <=> CalcExit(c))
    /\ \A v : P2!InitReqSem(v) <=> InitReqSem(v)
    /\ \A k, v : P2!ReqInitSem(k, v) <=> ReqInitSem(k, v)
    /\ \A from, s, v, to : P2!InitCalcSem(from, s, v, to) <=> InitCalcSem(from, s, v, to)
    /\ \A c, from, s, v, to : P2!CalcInitSem(c, from, s, v, to) <=> CalcInitSem(c, from, s, v, to)
    /\ \A to : P2!WriteReq(to) <=> WriteReq(to)
BY DEF P2!Req, Req, P2!Sems, Sems, P2!Procs, Procs, P2!Parent, Parent, P2!ReqP, ReqP, P2!CalcP,
       CalcP, P2!Data, Data, P2!Taken, Taken, P2!Rest, Rest, P2!Computed, Computed, P2!PGoto,
       PGoto, P2!RGoto, RGoto, P2!CGoto, CGoto, P2!SetVal, SetVal, P2!SemOp, SemOp, P2!WaitZeroInc,
       WaitZeroInc, P2!Undo, Undo, P2!NextRound, NextRound, P2!semVars, semVars, P2!parentVars,
       parentVars, P2!reqVars, reqVars, P2!calcVars, calcVars, P2!ForkReq, ForkReq, P2!ReadReq,
       ReadReq, P2!ReadRes, ReadRes, P2!WriteRes, WriteRes, P2!Reap, Reap, P2!ReqWrite, ReqWrite,
       P2!ReqRead, ReqRead, P2!ReqExit, ReqExit, P2!ForkCalc, ForkCalc, P2!CalcRead, CalcRead,
       P2!CalcWrite, CalcWrite, P2!CalcExit, CalcExit, P2!InitReqSem, InitReqSem, P2!ReqInitSem,
       ReqInitSem, P2!InitCalcSem, InitCalcSem, P2!CalcInitSem, CalcInitSem, P2!WriteReq, WriteReq

LEMMA Shared3 ==
    /\ (P3!ForkReq <=> ForkReq) /\ (P3!ReadReq <=> ReadReq) /\ (P3!ReadRes <=> ReadRes)
    /\ (P3!WriteRes <=> WriteRes) /\ (P3!Reap <=> Reap)
    /\ \A k : (P3!ReqWrite(k) <=> ReqWrite(k)) /\ (P3!ReqRead(k) <=> ReqRead(k)) /\ (P3!ReqExit(k) <=> ReqExit(k))
    /\ \A c : (P3!ForkCalc(c) <=> ForkCalc(c)) /\ (P3!CalcRead(c) <=> CalcRead(c))
    /\ \A c : (P3!CalcWrite(c) <=> CalcWrite(c)) /\ (P3!CalcExit(c) <=> CalcExit(c))
    /\ \A v : P3!InitReqSem(v) <=> InitReqSem(v)
    /\ \A k, v : P3!ReqInitSem(k, v) <=> ReqInitSem(k, v)
    /\ \A from, s, v, to : P3!InitCalcSem(from, s, v, to) <=> InitCalcSem(from, s, v, to)
    /\ \A c, from, s, v, to : P3!CalcInitSem(c, from, s, v, to) <=> CalcInitSem(c, from, s, v, to)
    /\ \A to : P3!WriteReq(to) <=> WriteReq(to)
BY DEF P3!Req, Req, P3!Sems, Sems, P3!Procs, Procs, P3!Parent, Parent, P3!ReqP, ReqP, P3!CalcP,
       CalcP, P3!Data, Data, P3!Taken, Taken, P3!Rest, Rest, P3!Computed, Computed, P3!PGoto,
       PGoto, P3!RGoto, RGoto, P3!CGoto, CGoto, P3!SetVal, SetVal, P3!SemOp, SemOp, P3!WaitZeroInc,
       WaitZeroInc, P3!Undo, Undo, P3!NextRound, NextRound, P3!semVars, semVars, P3!parentVars,
       parentVars, P3!reqVars, reqVars, P3!calcVars, calcVars, P3!ForkReq, ForkReq, P3!ReadReq,
       ReadReq, P3!ReadRes, ReadRes, P3!WriteRes, WriteRes, P3!Reap, Reap, P3!ReqWrite, ReqWrite,
       P3!ReqRead, ReqRead, P3!ReqExit, ReqExit, P3!ForkCalc, ForkCalc, P3!CalcRead, CalcRead,
       P3!CalcWrite, CalcWrite, P3!CalcExit, CalcExit, P3!InitReqSem, InitReqSem, P3!ReqInitSem,
       ReqInitSem, P3!InitCalcSem, InitCalcSem, P3!CalcInitSem, CalcInitSem, P3!WriteReq, WriteReq


-----------------------------------------------------------------------------
(* The steps of all three programs.                                        *)

\* What waits for, or raises, a semaphore.
Opening(p, s) == IF program = "parent_child3" THEN SemOp(p, s, -1) ELSE SemOp(p, s, 1)
Passing(p, s) == IF program = "parent_child3" THEN WaitZeroInc(p, s) ELSE SemOp(p, s, -1)

ReqPass(k) ==
    /\ rpc[k] = "wait" /\ Passing(ReqP(k), 0)
    /\ RGoto(k, "read")
    /\ UNCHANGED <<reqPipe, calcPipe, parentVars, rgot, calcVars>>

PutReq ==
    /\ ppc = "postReq" /\ SemOp(Parent, 2, 1)
    /\ PGoto("waitRes")
    /\ UNCHANGED <<reqPipe, calcPipe, i, a, res, reqVars, calcVars>>

GetRes ==
    /\ ppc = "waitRes" /\ Passing(Parent, 1)
    /\ PGoto("readRes")
    /\ UNCHANGED <<reqPipe, calcPipe, i, a, res, reqVars, calcVars>>

PutRes ==
    /\ ppc = "post" /\ Opening(Parent, 0)
    /\ NextRound(IF One THEN "writeReq" ELSE "forkCalc", "reap")
    /\ UNCHANGED <<reqPipe, calcPipe, a, res, reqVars, calcVars>>

GetReq(c) ==
    /\ cpc[c] = "wait" /\ SemOp(CalcP(c), 2, -1)
    /\ CGoto(c, "read")
    /\ UNCHANGED <<reqPipe, calcPipe, parentVars, reqVars, b, served>>

CalcPut(c) ==
    /\ cpc[c] = "post" /\ Opening(CalcP(c), 1)
    /\ served' = [served EXCEPT ![c] = @ + 1]
    /\ CGoto(c, IF One /\ served[c] + 1 # N THEN "wait" ELSE "exit")
    /\ UNCHANGED <<reqPipe, calcPipe, parentVars, reqVars, b>>

ParentSets ==
    \/ One /\ InitCalcSem("setvalCalc", 1, 0, "setvalCalc2")
    \/ One /\ InitCalcSem("setvalCalc2", 2, 0, "writeReq")
    \/ ~One /\ InitCalcSem("setvalCalc", 1, Closed, "writeReq")

CalcSets(c) ==
    \/ One /\ CalcInitSem(c, "setval", 1, 0, "setval2")
    \/ One /\ CalcInitSem(c, "setval2", 2, 0, "wait")
    \/ ~One /\ CalcInitSem(c, "setval", 1, Closed, "read")

ParentStep ==
    \/ ForkReq \/ InitReqSem(Closed) \/ ReadReq
    \/ ForkCalc(Kid) \/ ParentSets \/ WriteReq(IF One THEN "postReq" ELSE "waitRes")
    \/ (One /\ PutReq) \/ GetRes \/ ReadRes \/ WriteRes \/ PutRes \/ Reap

RequesterStepOf(k) ==
    ReqInitSem(k, Closed) \/ ReqWrite(k) \/ ReqPass(k) \/ ReqRead(k) \/ ReqExit(k)

CalculatorStepOf(c) ==
    CalcSets(c) \/ (One /\ GetReq(c)) \/ CalcRead(c) \/ CalcWrite(c) \/ CalcPut(c) \/ CalcExit(c)

LEMMA Own1 ==
    ASSUME program = "parent_child1"
    PROVE  /\ P1!WaitRes => GetRes
           /\ P1!PostRes => PutRes
           /\ \A k : P1!ReqWait(k) => ReqPass(k)
           /\ \A c : P1!CalcPost(c) => CalcPut(c)
BY DEF P1!ReqWait, P1!WaitRes, P1!PostRes, P1!CalcPost, GetRes, PutRes, ReqPass, CalcPut, Passing,
       Opening, One, P1!Req, Req, P1!Procs, Procs, P1!Sems, Sems, P1!Parent, Parent, P1!ReqP, ReqP,
       P1!CalcP, CalcP, P1!SemOp, SemOp, P1!WaitZeroInc, WaitZeroInc, P1!PGoto, PGoto, P1!RGoto,
       RGoto, P1!CGoto, CGoto, P1!NextRound, NextRound, P1!parentVars, parentVars, P1!reqVars,
       reqVars, P1!calcVars, calcVars

LEMMA Program1 ==
    ASSUME program = "parent_child1"
    PROVE  /\ P1!Main => ParentStep
           /\ \A k : P1!Requester(k) => RequesterStepOf(k)
           /\ \A c : P1!Calculator(c) => CalculatorStepOf(c)
BY Shared1, Own1
   DEF P1!Main, P1!Collect, P1!Distribute, P1!Requester, P1!Calculator, ParentStep,
       RequesterStepOf, CalculatorStepOf, ParentSets, CalcSets, One, Closed, Kid

LEMMA Own2 ==
    ASSUME program = "parent_child2"
    PROVE  /\ P2!WaitRes => GetRes
           /\ P2!PostRes => PutRes
           /\ \A k : P2!ReqWait(k) => ReqPass(k)
           /\ \A c : P2!CalcPost(c) => CalcPut(c)
           /\ P2!PostReq => PutReq
           /\ \A c : P2!CalcWait(c) => GetReq(c)
BY DEF P2!ReqWait, P2!PostReq, P2!WaitRes, P2!PostRes, P2!CalcWait, P2!CalcPost, GetRes, PutRes,
       ReqPass, CalcPut, PutReq, GetReq, Passing, Opening, One, P2!Req, Req, P2!Procs, Procs,
       P2!Sems, Sems, P2!Parent, Parent, P2!ReqP, ReqP, P2!CalcP, CalcP, P2!SemOp, SemOp,
       P2!WaitZeroInc, WaitZeroInc, P2!PGoto, PGoto, P2!RGoto, RGoto, P2!CGoto, CGoto,
       P2!NextRound, NextRound, P2!parentVars, parentVars, P2!reqVars, reqVars, P2!calcVars,
       calcVars

LEMMA Program2 ==
    ASSUME program = "parent_child2"
    PROVE  /\ P2!Main => ParentStep
           /\ \A k : P2!Requester(k) => RequesterStepOf(k)
           /\ \A c : P2!Calculator(c) => CalculatorStepOf(c)
BY Shared2, Own2
   DEF P2!Main, P2!Collect, P2!Distribute, P2!Requester, P2!Calculator, ParentStep,
       RequesterStepOf, CalculatorStepOf, ParentSets, CalcSets, One, Closed, Kid

LEMMA Own3 ==
    ASSUME program = "parent_child3"
    PROVE  /\ P3!WaitRes => GetRes
           /\ P3!PostRes => PutRes
           /\ \A k : P3!ReqWait(k) => ReqPass(k)
           /\ \A c : P3!CalcPost(c) => CalcPut(c)
BY DEF P3!ReqWait, P3!WaitRes, P3!PostRes, P3!CalcPost, GetRes, PutRes, ReqPass, CalcPut, Passing,
       Opening, One, P3!Req, Req, P3!Procs, Procs, P3!Sems, Sems, P3!Parent, Parent, P3!ReqP, ReqP,
       P3!CalcP, CalcP, P3!SemOp, SemOp, P3!WaitZeroInc, WaitZeroInc, P3!PGoto, PGoto, P3!RGoto,
       RGoto, P3!CGoto, CGoto, P3!NextRound, NextRound, P3!parentVars, parentVars, P3!reqVars,
       reqVars, P3!calcVars, calcVars

LEMMA Program3 ==
    ASSUME program = "parent_child3"
    PROVE  /\ P3!Main => ParentStep
           /\ \A k : P3!Requester(k) => RequesterStepOf(k)
           /\ \A c : P3!Calculator(c) => CalculatorStepOf(c)
BY Shared3, Own3
   DEF P3!Main, P3!Collect, P3!Distribute, P3!Requester, P3!Calculator, ParentStep,
       RequesterStepOf, CalculatorStepOf, ParentSets, CalcSets, One, Closed, Kid

\* The programs with pipes do not change which program it is.
LEMMA OtherPrograms ==
    /\ Pipes12!Main \/ Pipes12!Tick \/ Pipes3!Main3 \/ Pipes3!Requester3 => program' = program
    /\ \A k : Pipes12!Requester(k) \/ Pipes12!Calculator(k) => program' = program
<1>1. Pipes12!Main \/ Pipes12!Tick => program' = program
  BY DEF Pipes12!Main, Pipes12!Tick, Pipes12!ForkReq, Pipes12!ReadReq, Pipes12!ForkCalc,
         Pipes12!WriteReq, Pipes12!ReadRes, Pipes12!WriteRes, Pipes12!Reap
<1>2. Pipes3!Main3 \/ Pipes3!Requester3 => program' = program
  BY DEF Pipes3!Main3, Pipes3!ForkReq, Pipes3!PassReq, Pipes3!WritePassed, Pipes3!ForkCalc,
         Pipes3!ReadRes, Pipes3!Reap, Pipes3!Requester3, Pipes3!ReqWrite, Pipes3!CalcRead, Pipes3!CalcWrite
<1>3. \A k : Pipes12!Requester(k) \/ Pipes12!Calculator(k) => program' = program
  BY DEF Pipes12!Requester, Pipes12!Calculator, Pipes12!ReqWrite, Pipes12!ReqRead, Pipes12!CalcRead, Pipes12!CalcWrite
<1>4. QED
  BY <1>1, <1>2, <1>3

LEMMA Steps ==
    ASSUME [MCNext]_allVars
    PROVE  /\ program' = program
           /\ \/ UNCHANGED vars
              \/ ParentStep
              \/ \E k \in Req : RequesterStepOf(k) \/ CalculatorStepOf(k)
<1>1. CASE UNCHANGED allVars
  BY <1>1 DEF allVars, pipeVars, vars
<1>2. CASE MainStep
  BY <1>2, Program1, Program2, Program3, OtherPrograms DEF MainStep, OfParentChild, OfPipes, pipeVars
<1>3. CASE TickStep
  BY <1>3, OtherPrograms DEF TickStep, OfPipes
<1>4. ASSUME NEW k \in Req, RequesterStep(k) PROVE program' = program /\ (UNCHANGED vars \/ RequesterStepOf(k))
  BY <1>4, Program1, Program2, Program3, OtherPrograms DEF RequesterStep, OfParentChild, OfPipes, pipeVars
<1>5. ASSUME NEW k \in Req, CalculatorStep(k) PROVE program' = program /\ (UNCHANGED vars \/ CalculatorStepOf(k))
  BY <1>5, Program1, Program2, Program3, OtherPrograms DEF CalculatorStep, OfParentChild, OfPipes, pipeVars
<1>6. QED
  BY <1>1, <1>2, <1>3, <1>4, <1>5 DEF MCNext


-----------------------------------------------------------------------------
(* Processes and semaphores.                                               *)

LEMMA ReqFacts == N \in Nat \ {0} /\ Req = 1..N /\ 1 \in Req
BY ConstantsAssumption DEF Req

LEMMA ProcFacts ==
    /\ Parent \in Procs
    /\ \A k \in Req : /\ ReqP(k) \in Procs /\ CalcP(k) \in Procs
                      /\ ReqP(k) # Parent /\ CalcP(k) # Parent
    /\ \A k, m \in Req : ReqP(k) = ReqP(m) => k = m
    /\ \A k, m \in Req : CalcP(k) = CalcP(m) => k = m
    /\ \A k, m \in Req : ReqP(k) # CalcP(m)
BY DEF Procs, ReqP, CalcP, Parent

\* What an operation leaves alone: the other semaphores, and what the exits of
\* processes other than p add to them and to s.
OtherSems(s) == \A r \in Sems \ {s} : semval'[r] = semval[r]
OtherAdjs(s, p) ==
    /\ \A q \in Procs, r \in Sems \ {s} : semadj'[q][r] = semadj[q][r]
    /\ \A q \in Procs \ {p} : semadj'[q][s] = semadj[q][s]

LEMMA SetFacts ==
    ASSUME SemTypes, NEW s \in Sems, NEW v \in {0, 1}, SetVal(s, v)
    PROVE  /\ SemTypes' /\ semval'[s] = v /\ OtherSems(s)
           /\ \A q \in Procs : semadj'[q][s] = 0
           /\ \A q \in Procs, r \in Sems \ {s} : semadj'[q][r] = semadj[q][r]
BY DEF SemTypes, SetVal, OtherSems

LEMMA OpFacts ==
    ASSUME SemTypes, NEW s \in Sems, NEW p \in Procs, NEW n \in {-1, 1}, SemOp(p, s, n)
    PROVE  /\ SemTypes' /\ semval'[s] = semval[s] + n /\ OtherSems(s) /\ OtherAdjs(s, p)
           /\ semadj'[p][s] = semadj[p][s] - n
           /\ n = -1 => semval[s] >= 1
<1>1. semval[s] \in Nat /\ semadj[p] \in [Sems -> Int] /\ semval[s] + n >= 0
  BY DEF SemTypes, SemOp
<1>2. semval[s] + n \in Nat /\ semadj[p][s] - n \in Int
  BY <1>1
<1>3. semadj' = [semadj EXCEPT ![p] = [semadj[p] EXCEPT ![s] = semadj[p][s] - n]]
  BY DEF SemOp
<1>4. [semadj[p] EXCEPT ![s] = semadj[p][s] - n] \in [Sems -> Int]
  BY <1>1, <1>2
<1>5. SemTypes'
  BY <1>2, <1>3, <1>4 DEF SemTypes, SemOp
<1>6. semval'[s] = semval[s] + n /\ OtherSems(s)
  BY DEF SemTypes, SemOp, OtherSems
<1>7. OtherAdjs(s, p) /\ semadj'[p][s] = semadj[p][s] - n
  BY <1>1, <1>3 DEF SemTypes, OtherAdjs
<1>8. n = -1 => semval[s] >= 1
  BY <1>1
<1>9. QED
  BY <1>5, <1>6, <1>7, <1>8

LEMMA PassFacts ==
    ASSUME SemTypes, NEW s \in Sems, NEW p \in Procs, Passing(p, s)
    PROVE  /\ SemTypes' /\ OtherSems(s) /\ OtherAdjs(s, p)
           /\ IF program = "parent_child3" THEN semval[s] = 0
              ELSE semval[s] >= 1 /\ semval'[s] = semval[s] - 1
<1>1. CASE program = "parent_child3"
  <2>1. semval[s] = 0 /\ SemOp(p, s, 1)
    BY <1>1 DEF Passing, WaitZeroInc
  <2>2. QED
    BY <1>1, <2>1, OpFacts
<1>2. CASE program # "parent_child3"
  <2>1. SemOp(p, s, -1) /\ -1 \in {-1, 1}
    BY <1>2 DEF Passing
  <2>2. SemTypes' /\ semval'[s] = semval[s] + (-1) /\ OtherSems(s) /\ OtherAdjs(s, p) /\ semval[s] >= 1
    BY <2>1, OpFacts
  <2>3. semval[s] + (-1) = semval[s] - 1
    BY DEF SemTypes
  <2>4. QED
    BY <1>2, <2>2, <2>3
<1>3. QED
  BY <1>1, <1>2

LEMMA OpenFacts ==
    ASSUME SemTypes, NEW s \in Sems, NEW p \in Procs, Opening(p, s)
    PROVE  /\ SemTypes' /\ OtherSems(s) /\ OtherAdjs(s, p)
           /\ IF program = "parent_child3" THEN semadj'[p][s] = semadj[p][s] + 1
              ELSE semval'[s] = semval[s] + 1 /\ semadj'[p][s] = semadj[p][s] - 1
<1>1. CASE program = "parent_child3"
  <2>1. SemOp(p, s, -1) /\ -1 \in {-1, 1}
    BY <1>1 DEF Opening
  <2>2. SemTypes' /\ OtherSems(s) /\ OtherAdjs(s, p) /\ semadj'[p][s] = semadj[p][s] - (-1)
    BY <2>1, OpFacts
  <2>3. semadj[p][s] \in Int
    BY DEF SemTypes
  <2>4. semadj[p][s] - (-1) = semadj[p][s] + 1
    BY <2>3
  <2>5. QED
    BY <1>1, <2>2, <2>4
<1>2. CASE program # "parent_child3"
  BY <1>2, OpFacts DEF Opening
<1>3. QED
  BY <1>1, <1>2

LEMMA UndoFacts ==
    ASSUME SemTypes, NEW p \in Procs, Undo(p)
    PROVE  /\ SemTypes'
           /\ \A s \in Sems : semval'[s] = IF semval[s] + semadj[p][s] < 0 THEN 0
                                           ELSE semval[s] + semadj[p][s]
           /\ \A s \in Sems : semadj'[p][s] = 0
           /\ \A q \in Procs \ {p} : semadj'[q] = semadj[q]
<1>1. \A s \in Sems : semval[s] \in Nat /\ semadj[p][s] \in Int
  BY DEF SemTypes
<1>2. \A s \in Sems : (IF semval[s] + semadj[p][s] < 0 THEN 0 ELSE semval[s] + semadj[p][s]) \in Nat
  BY <1>1
<1>3. QED
  BY <1>2 DEF SemTypes, Undo

-----------------------------------------------------------------------------
(* The first loop: the calculating children have not been forked.          *)

\* What is added by exits to the semaphores the calculating children use.
SideAdjs == \A k \in Req : /\ semadj'[ReqP(k)][1] = semadj[ReqP(k)][1]
                           /\ semadj'[ReqP(k)][2] = semadj[ReqP(k)][2]
                           /\ semadj'[CalcP(k)][1] = semadj[CalcP(k)][1]

LEMMA SideOfSet ==
    ASSUME SemTypes, NEW v \in {0, 1}, SetVal(0, v)
    PROVE  SemTypes' /\ semval'[0] = v /\ SideAdjs
<1>1. {0, 1, 2} = Sems
  BY DEF Sems
<1>2. SemTypes' /\ semval'[0] = v /\ \A q \in Procs, r \in Sems \ {0} : semadj'[q][r] = semadj[q][r]
  BY <1>1, SetFacts
<1>3. QED
  BY <1>1, <1>2, ProcFacts DEF SideAdjs

LEMMA AskKeeps ==
    ASSUME Types, CalcSide, program' = program, ppc \in Asks, ppc' \in Asks \cup {"forkCalc"},
           ppc' = "forkCalc" => i' = 1, i' \in Req,
           UNCHANGED <<cpc, served, calcPipe>>, SideAdjs,
           \A k \in Req : a'[k] = IF ppc' \in Asks /\ k >= i' THEN <<>> ELSE Data(k)
    PROVE  CalcSide'
<1>1. \A c \in Req : ~Forked(c)
  BY DEF Forked
<1>2. \A c \in Req : cpc'[c] = "none" /\ served'[c] = 0
  BY <1>1 DEF CalcSide, CalcInv
<1>3. \A c \in Req : ~Forked(c)'
  BY ReqFacts DEF Forked, Asks, Ends, One
<1>4. \A c \in Req : CalcInv(c)'
  BY <1>2, <1>3 DEF CalcInv
<1>5. calcPipe = <<>>
  BY DEF CalcSide, ParentInv, Asks
<1>6. ParentInv'
  BY <1>5 DEF ParentInv, Asks
<1>7. SemInv'
  BY <1>2, ReqFacts DEF CalcSide, SemInv, SideAdjs, Asks, Closes, One
<1>8. QED
  BY <1>4, <1>6, <1>7 DEF CalcSide

LEMMA AskerInAsks ==
    ASSUME ReqInv, NEW k \in Req, rpc[k] \in {"setval", "write"}, i \in Req
    PROVE  ppc \in Asks /\ AskInv /\ k = i
<1>1. ppc \in Asks /\ AskInv
  BY DEF ReqInv, TakeInv
<1>2. ~(k < i) /\ ~(k > i)
  BY <1>1 DEF AskInv
<1>3. QED
  BY <1>1, <1>2, ReqFacts

LEMMA ForkReqStep ==
    ASSUME Inv, program' = program, ForkReq
    PROVE  Inv'
<1>1. /\ ppc = "fork" /\ ppc' = "setval" /\ rpc' = [rpc EXCEPT ![i] = "setval"]
      /\ UNCHANGED <<semval, semadj, reqPipe, calcPipe, i, a, res, rgot, cpc, b, served>>
  BY DEF ForkReq, PGoto, RGoto, semVars, calcVars
<1>2. Types'
  BY <1>1 DEF Inv, Types, SemTypes, RequesterPcs, ParentPcs
<1>3. ppc \in Asks /\ ppc' \in Asks
  BY <1>1 DEF Asks
<1>4. AskInv'
  BY <1>1, <1>3, ReqFacts DEF Inv, ReqInv, AskInv, Types, Closed
<1>5. CalcSide'
  BY <1>1, <1>3, AskKeeps DEF Inv, Types, CalcSide, ParentInv, SideAdjs, Asks
<1>6. QED
  BY <1>2, <1>3, <1>4, <1>5 DEF Inv, ReqInv

LEMMA InitReqSemStep ==
    ASSUME Inv, program' = program, InitReqSem(Closed)
    PROVE  Inv'
<1>1. /\ ppc = "setval" /\ ppc' = "readReq" /\ SetVal(0, Closed)
      /\ UNCHANGED <<reqPipe, calcPipe, i, a, res, rpc, rgot, cpc, b, served>>
  BY DEF InitReqSem, PGoto, reqVars, calcVars
<1>2. SemTypes' /\ semval'[0] = Closed /\ SideAdjs
  BY <1>1, SideOfSet DEF Inv, Types, Closed
<1>3. Types'
  BY <1>1, <1>2 DEF Inv, Types, ParentPcs
<1>4. ppc \in Asks /\ ppc' \in Asks
  BY <1>1 DEF Asks
<1>5. AskInv'
  BY <1>1, <1>2, <1>4, ReqFacts DEF Inv, ReqInv, AskInv, Types, Closed
<1>6. CalcSide'
  BY <1>1, <1>2, <1>4, AskKeeps DEF Inv, Types, CalcSide, ParentInv, Asks
<1>7. QED
  BY <1>3, <1>4, <1>5, <1>6 DEF Inv, ReqInv

LEMMA ReqInitSemStep ==
    ASSUME Inv, program' = program, NEW k \in Req, ReqInitSem(k, Closed)
    PROVE  Inv'
<1>1. /\ rpc[k] = "setval" /\ rpc' = [rpc EXCEPT ![k] = "write"] /\ SetVal(0, Closed)
      /\ UNCHANGED <<reqPipe, calcPipe, ppc, i, a, res, rgot, cpc, b, served>>
  BY DEF ReqInitSem, RGoto, parentVars, calcVars
<1>2. SemTypes' /\ semval'[0] = Closed /\ SideAdjs
  BY <1>1, SideOfSet DEF Inv, Types, Closed
<1>3. Types'
  BY <1>1, <1>2 DEF Inv, Types, RequesterPcs
<1>4. ppc \in Asks /\ ppc' \in Asks /\ AskInv /\ k = i
  BY <1>1, AskerInAsks DEF Inv, Types
<1>5. AskInv'
  BY <1>1, <1>2, <1>4, ReqFacts DEF Inv, AskInv, Types, Closed
<1>6. CalcSide'
  BY <1>1, <1>2, <1>4, AskKeeps DEF Inv, Types, CalcSide, ParentInv, Asks
<1>7. QED
  BY <1>3, <1>4, <1>5, <1>6 DEF Inv, ReqInv

LEMMA ReqWriteStep ==
    ASSUME Inv, program' = program, NEW k \in Req, ReqWrite(k)
    PROVE  Inv'
<1>1. /\ rpc[k] = "write" /\ rpc' = [rpc EXCEPT ![k] = "wait"] /\ reqPipe' = reqPipe \o Data(k)
      /\ UNCHANGED <<semval, semadj, calcPipe, ppc, i, a, res, rgot, cpc, b, served>>
  BY DEF ReqWrite, RGoto, semVars, parentVars, calcVars
<1>2. Types'
  BY <1>1 DEF Inv, Types, SemTypes, RequesterPcs
<1>3. ppc \in Asks /\ ppc' \in Asks /\ AskInv /\ k = i
  BY <1>1, AskerInAsks DEF Inv, Types
<1>4. reqPipe' = Data(i)
  <2>1. reqPipe = <<>>
    BY <1>1, <1>3 DEF AskInv
  <2>2. QED
    BY <1>1, <1>3, <2>1, PipeRead
<1>5. AskInv'
  BY <1>1, <1>3, <1>4, ReqFacts DEF Inv, AskInv, Types, Closed
<1>6. CalcSide'
  BY <1>1, <1>3, AskKeeps DEF Inv, Types, CalcSide, ParentInv, SideAdjs, Asks
<1>7. QED
  BY <1>2, <1>3, <1>5, <1>6 DEF Inv, ReqInv


LEMMA ReadReqStep ==
    ASSUME Inv, program' = program, ReadReq
    PROVE  Inv'
<1>1. /\ ppc = "readReq" /\ reqPipe # <<>> /\ a' = [a EXCEPT ![i] = Taken(reqPipe, 3)]
      /\ reqPipe' = Rest(reqPipe, 3) /\ NextRound("fork", "forkCalc")
      /\ UNCHANGED <<semval, semadj, calcPipe, res, rpc, rgot, cpc, b, served>>
  BY DEF ReadReq, semVars, reqVars, calcVars
<1>2. ppc \in Asks /\ AskInv /\ i \in Req
  BY <1>1 DEF Inv, ReqInv, Asks, Types
<1>3. rpc[i] = "wait" /\ reqPipe = Data(i)
  BY <1>1, <1>2 DEF AskInv
<1>4. a' = [a EXCEPT ![i] = Data(i)] /\ reqPipe' = <<>>
  BY <1>1, <1>2, <1>3, PipeRead
<1>5. i' \in Req /\ (IF i = N THEN i' = 1 /\ ppc' = "forkCalc" ELSE i' = i + 1 /\ ppc' = "fork")
  BY <1>1, <1>2, ReqFacts DEF NextRound, PGoto
<1>6. Types'
  BY <1>1, <1>2, <1>4, <1>5 DEF Inv, Types, SemTypes, ParentPcs, Datas
<1>7. CalcSide'
  <2>1. \A k \in Req : a'[k] = IF ppc' \in Asks /\ k >= i' THEN <<>> ELSE Data(k)
    BY <1>1, <1>2, <1>4, <1>5, ReqFacts DEF Inv, Types, CalcSide, ParentInv, Asks
  <2>2. ppc' \in Asks \cup {"forkCalc"} /\ (ppc' = "forkCalc" => i' = 1)
    BY <1>5 DEF Asks
  <2>3. QED
    BY <1>1, <1>2, <1>5, <2>1, <2>2, AskKeeps DEF Inv, SideAdjs
<1>8. CASE i # N
  <2>1. i' = i + 1 /\ ppc' = "fork"
    BY <1>5, <1>8
  <2>2. AskInv'
    BY <1>1, <1>2, <1>3, <1>4, <1>5, <2>1, ReqFacts DEF AskInv, Closed
  <2>3. QED
    BY <1>6, <1>7, <2>1, <2>2 DEF Inv, ReqInv, Asks
<1>9. CASE i = N
  <2>1. i' = 1 /\ ppc' = "forkCalc" /\ Top' = 0
    BY <1>5, <1>9 DEF Top, Ends
  <2>2. \A k \in Req : rpc'[k] = "wait" /\ rgot'[k] = <<>>
    BY <1>1, <1>2, <1>3, <1>9, ReqFacts DEF AskInv
  <2>3. Len(reqPipe') = 0 /\ reqPipe' \in Seq({Result(k) : k \in Req})
    BY <1>4
  <2>4. Low' = 0
    BY <2>1, <2>3 DEF Low
  <2>5. Low' = Cardinality(Readers')
    <3>1. Readers' = {}
      BY <2>2 DEF Readers
    <3>2. QED
      BY <2>4, <3>1, FS_EmptySet
  <2>6. TakeInv'
    BY <2>1, <2>2, <2>3, <2>4, <2>5 DEF TakeInv
  <2>7. QED
    BY <1>6, <1>7, <2>1, <2>6 DEF Inv, ReqInv, Asks
<1>10. QED
  BY <1>8, <1>9

-----------------------------------------------------------------------------
(* The requesting children in the second loop.                             *)

LEMMA RequesterKeeps ==
    ASSUME CalcSide, program' = program, UNCHANGED <<ppc, i, a, res, cpc, b, served, calcPipe>>,
           semval'[1] = semval[1], semval'[2] = semval[2], SideAdjs
    PROVE  CalcSide'
<1>1. UNCHANGED <<One, Kid, Before>>
  BY DEF One, Kid, Before
<1>2. \A c \in Req : CalcInv(c)'
  BY <1>1 DEF CalcSide, CalcInv, Forked, Over, Starts, Finished, One, Before
<1>3. ParentInv'
  BY <1>1 DEF CalcSide, ParentInv
<1>4. SemInv'
  BY <1>1 DEF CalcSide, SemInv, SideAdjs
<1>5. QED
  BY <1>2, <1>3, <1>4 DEF CalcSide

LEMMA TakerInTakes ==
    ASSUME Inv, NEW k \in Req, rpc[k] \in {"read", "exit"}
    PROVE  ppc \notin Asks /\ TakeInv
<1>1. ~AskInv
  BY ReqFacts DEF AskInv
<1>2. QED
  BY <1>1 DEF Inv, ReqInv

LEMMA ReqPassStep ==
    ASSUME Inv, program' = program, NEW k \in Req, ReqPass(k)
    PROVE  Inv'
<1>1. /\ rpc[k] = "wait" /\ rpc' = [rpc EXCEPT ![k] = "read"] /\ Passing(ReqP(k), 0)
      /\ UNCHANGED <<reqPipe, calcPipe, ppc, i, a, res, rgot, cpc, b, served>>
  BY DEF ReqPass, RGoto, parentVars, calcVars
<1>2. 0 \in Sems /\ 1 \in Sems /\ 2 \in Sems /\ ReqP(k) \in Procs
  BY ProcFacts DEF Sems
<1>3. /\ SemTypes' /\ OtherSems(0) /\ OtherAdjs(0, ReqP(k))
      /\ IF program = "parent_child3" THEN semval[0] = 0 ELSE semval[0] >= 1
  BY <1>1, <1>2, PassFacts DEF Inv, Types
<1>4. ppc \notin Asks
  BY <1>1, <1>3 DEF Inv, ReqInv, AskInv, Closed
<1>5. TakeInv
  BY <1>4 DEF Inv, ReqInv
<1>6. semval'[1] = semval[1] /\ semval'[2] = semval[2] /\ SideAdjs
  BY <1>2, <1>3, ProcFacts DEF OtherSems, OtherAdjs, SideAdjs
<1>7. CalcSide'
  BY <1>1, <1>6, RequesterKeeps DEF Inv
<1>8. Types'
  BY <1>1, <1>3 DEF Inv, Types, RequesterPcs
<1>9. TakeInv'
  <2>1. UNCHANGED <<Top, Low, Readers>>
    BY <1>1 DEF Top, Low, Readers
  <2>2. \A m \in Req : rpc'[m] \in {"wait", "read", "exit", "gone"} /\ (rpc'[m] \in {"exit", "gone"} <=> rpc[m] \in {"exit", "gone"})
    BY <1>1, <1>5, <1>8 DEF TakeInv, Types
  <2>3. QED
    BY <1>1, <1>5, <2>1, <2>2 DEF TakeInv
<1>10. QED
  BY <1>1, <1>4, <1>7, <1>8, <1>9 DEF Inv, ReqInv

LEMMA ReqExitStep ==
    ASSUME Inv, program' = program, NEW k \in Req, ReqExit(k)
    PROVE  Inv'
<1>1. /\ rpc[k] = "exit" /\ rpc' = [rpc EXCEPT ![k] = "gone"] /\ Undo(ReqP(k))
      /\ UNCHANGED <<reqPipe, calcPipe, ppc, i, a, res, rgot, cpc, b, served>>
  BY DEF ReqExit, RGoto, parentVars, calcVars
<1>2. ppc \notin Asks /\ TakeInv
  BY <1>1, TakerInTakes
<1>3. 1 \in Sems /\ 2 \in Sems /\ ReqP(k) \in Procs
  BY ProcFacts DEF Sems
<1>4. /\ SemTypes'
      /\ \A s \in Sems : semval'[s] = IF semval[s] + semadj[ReqP(k)][s] < 0 THEN 0
                                      ELSE semval[s] + semadj[ReqP(k)][s]
      /\ \A s \in Sems : semadj'[ReqP(k)][s] = 0
      /\ \A q \in Procs \ {ReqP(k)} : semadj'[q] = semadj[q]
  BY <1>1, <1>3, UndoFacts DEF Inv, Types
<1>5. semadj[ReqP(k)][1] = 0 /\ semadj[ReqP(k)][2] = 0
  BY DEF Inv, CalcSide, SemInv
<1>6. semval'[1] = semval[1] /\ semval'[2] = semval[2]
  <2>1. semval[1] \in Nat /\ semval[2] \in Nat
    BY <1>3 DEF Inv, Types, SemTypes
  <2>2. QED
    BY <1>3, <1>4, <1>5, <2>1
<1>7. SideAdjs
  <2>1. ASSUME NEW m \in Req
        PROVE  /\ semadj'[ReqP(m)][1] = semadj[ReqP(m)][1]
               /\ semadj'[ReqP(m)][2] = semadj[ReqP(m)][2]
               /\ semadj'[CalcP(m)][1] = semadj[CalcP(m)][1]
    <3>1. CalcP(m) \in Procs \ {ReqP(k)} /\ (m # k => ReqP(m) \in Procs \ {ReqP(k)})
      BY ProcFacts
    <3>2. CASE m = k
      BY <1>3, <1>4, <1>5, <3>1, <3>2
    <3>3. CASE m # k
      BY <1>4, <3>1, <3>3
    <3>4. QED
      BY <3>2, <3>3
  <2>2. QED
    BY <2>1 DEF SideAdjs
<1>8. CalcSide'
  BY <1>1, <1>6, <1>7, RequesterKeeps DEF Inv
<1>9. Types'
  BY <1>1, <1>4 DEF Inv, Types, RequesterPcs
<1>10. TakeInv'
  <2>1. UNCHANGED <<Top, Low, Readers>>
    BY <1>1 DEF Top, Low, Readers
  <2>2. \A m \in Req : rpc'[m] \in {"wait", "read", "exit", "gone"} /\ (rpc'[m] \in {"exit", "gone"} <=> rpc[m] \in {"exit", "gone"})
    BY <1>1, <1>2, <1>9 DEF TakeInv, Types
  <2>3. QED
    BY <1>1, <1>2, <2>1, <2>2 DEF TakeInv
<1>11. QED
  BY <1>1, <1>2, <1>8, <1>9, <1>10 DEF Inv, ReqInv


LEMMA ResultFacts ==
    /\ \A k, m : Result(k) = Result(m) => k = m
    /\ \A k : <<Result(k)>> # <<>>
    /\ \A k, m : <<Result(k)>> = <<Result(m)>> => k = m
    /\ Results = {<<Result(k)>> : k \in Req}
<1>1. \A k, m : Result(k) = Result(m) => k = m
  BY DEF Result
<1>2. \A v, w : <<v>> = <<w>> => v = w
  OBVIOUS
<1>3. \A w : <<w>> # <<>>
  OBVIOUS
<1>4. Results = {<<Result(k)>> : k \in Req}
  BY DEF Results, Result
<1>5. QED
  BY <1>1, <1>2, <1>3, <1>4

LEMMA TopType ==
    ASSUME Types
    PROVE  Top \in 0..N
BY ReqFacts DEF Types, Top

LEMMA LowType ==
    ASSUME Types, TakeInv
    PROVE  Low \in 0..N /\ Len(reqPipe) \in 0..N /\ Low + Len(reqPipe) = Top
<1>1. Len(reqPipe) \in Nat /\ Top \in 0..N /\ Len(reqPipe) <= Top
  BY TopType, LenProperties DEF TakeInv
<1>2. QED
  BY <1>1, ReqFacts DEF Low

LEMMA ReqReadStep ==
    ASSUME Inv, program' = program, NEW k \in Req, ReqRead(k)
    PROVE  Inv'
<1>1. /\ rpc[k] = "read" /\ reqPipe # <<>> /\ rpc' = [rpc EXCEPT ![k] = "exit"]
      /\ rgot' = [rgot EXCEPT ![k] = Taken(reqPipe, 1)] /\ reqPipe' = Rest(reqPipe, 1)
      /\ UNCHANGED <<semval, semadj, calcPipe, ppc, i, a, res, cpc, b, served>>
  BY DEF ReqRead, RGoto, semVars, parentVars, calcVars
<1>2. ppc \notin Asks /\ TakeInv /\ Types
  BY <1>1, TakerInTakes DEF Inv
<1>3. CalcSide'
  <2>1. SideAdjs
    BY <1>1 DEF SideAdjs
  <2>2. QED
    BY <1>1, <2>1, RequesterKeeps DEF Inv
<1>4. /\ reqPipe \in Seq({Result(m) : m \in Req})
      /\ \A n \in 1..Len(reqPipe) : reqPipe[n] = Result(Low + n)
      /\ \A m \in Req : IF rpc[m] \in {"exit", "gone"} THEN \E r \in 1..Low : rgot[m] = <<Result(r)>>
                        ELSE rgot[m] = <<>>
      /\ \A r \in 1..Low : \E m \in Req : rgot[m] = <<Result(r)>>
      /\ \A l, m \in Req : rgot[l] = rgot[m] /\ rgot[l] # <<>> => l = m
      /\ Low = Cardinality(Readers)
  BY <1>2 DEF TakeInv
<1>5. /\ Low \in Nat /\ Len(reqPipe) \in Nat \ {0} /\ Top \in 0..N
      /\ Low + Len(reqPipe) = Top
  BY <1>1, <1>2, <1>4, LowType, TopType, EmptySeq
<1>6. /\ Taken(reqPipe, 1) = <<Result(Low + 1)>>
      /\ reqPipe' \in Seq({Result(m) : m \in Req}) /\ Len(reqPipe') = Len(reqPipe) - 1
      /\ \A n \in 1..Len(reqPipe) - 1 : reqPipe'[n] = Result(Low + n + 1)
  <2>1. /\ Taken(reqPipe, 1) = <<reqPipe[1]>>
        /\ reqPipe' \in Seq({Result(m) : m \in Req}) /\ Len(reqPipe') = Len(reqPipe) - 1
        /\ \A n \in 1..Len(reqPipe) - 1 : reqPipe'[n] = reqPipe[n + 1]
    BY <1>1, <1>4, FirstWord
  <2>2. reqPipe[1] = Result(Low + 1)
    <3>1. 1 \in 1..Len(reqPipe)
      BY <1>5
    <3>2. QED
      BY <1>4, <3>1
  <2>3. ASSUME NEW n \in 1..Len(reqPipe) - 1 PROVE reqPipe[n + 1] = Result(Low + n + 1)
    <3>1. n + 1 \in 1..Len(reqPipe) /\ Low + (n + 1) = Low + n + 1
      BY <1>5
    <3>2. reqPipe[n + 1] = Result(Low + (n + 1))
      BY <1>4, <3>1
    <3>3. QED
      BY <3>1, <3>2
  <2>4. QED
    BY <2>1, <2>2, <2>3
<1>7. Top' = Top /\ Low' = Low + 1 /\ Low + 1 \in Req
  <2>1. Low' = Top' - Len(reqPipe')
    BY DEF Low
  <2>2. Top' = Top
    BY <1>1 DEF Top
  <2>3. Low' = Low + 1 /\ Low + 1 \in 1..N
    BY <1>5, <1>6, <2>1, <2>2, ReqFacts
  <2>4. QED
    BY <2>2, <2>3, ReqFacts
<1>8. \A m \in Req : rgot'[m] = IF m = k THEN <<Result(Low + 1)>> ELSE rgot[m]
  BY <1>1, <1>2, <1>6 DEF Types
<1>9. rgot[k] = <<>>
  BY <1>1, <1>4
<1>10. Types'
  <2>1. <<Result(Low + 1)>> \in Results
    BY <1>7, ResultFacts
  <2>2. rgot' = [rgot EXCEPT ![k] = <<Result(Low + 1)>>]
    BY <1>1, <1>6
  <2>3. rgot' \in [Req -> {<<>>} \cup Results]
    BY <1>2, <2>1, <2>2 DEF Types
  <2>4. rpc' \in [Req -> RequesterPcs]
    BY <1>1, <1>2 DEF Types, RequesterPcs
  <2>5. QED
    BY <1>1, <1>2, <2>3, <2>4 DEF Types, SemTypes
<1>11. TakeInv'
  <2>1. \A m \in Req : rpc'[m] \in {"wait", "read", "exit", "gone"}
    BY <1>1, <1>2 DEF TakeInv, Types
  <2>2. \A n \in 1..Len(reqPipe') : reqPipe'[n] = Result(Low' + n)
    <3>1. SUFFICES ASSUME NEW n \in 1..Len(reqPipe') PROVE reqPipe'[n] = Result(Low' + n)
      OBVIOUS
    <3>2. reqPipe'[n] = Result(Low + n + 1) /\ Low + n + 1 = Low' + n
      BY <1>5, <1>6, <1>7
    <3>3. QED
      BY <3>2
  <2>3. ASSUME NEW m \in Req
        PROVE  IF rpc'[m] \in {"exit", "gone"} THEN \E r \in 1..Low' : rgot'[m] = <<Result(r)>>
               ELSE rgot'[m] = <<>>
    <3>1. 1..Low \subseteq 1..Low' /\ Low + 1 \in 1..Low'
      BY <1>5, <1>7
    <3>2. CASE m = k
      BY <1>1, <1>2, <1>8, <3>1, <3>2 DEF Types
    <3>3. CASE m # k
      BY <1>1, <1>2, <1>4, <1>8, <3>1, <3>3 DEF Types
    <3>4. QED
      BY <3>2, <3>3
  <2>4. ASSUME NEW r \in 1..Low' PROVE \E m \in Req : rgot'[m] = <<Result(r)>>
    <3>1. CASE r = Low + 1
      BY <1>8, <3>1
    <3>2. CASE r # Low + 1
      <4>1. r \in 1..Low
        BY <1>5, <1>7, <3>2
      <4>2. PICK m \in Req : rgot[m] = <<Result(r)>>
        BY <1>4, <4>1
      <4>3. m # k
        BY <1>9, <4>2, ResultFacts
      <4>4. QED
        BY <1>8, <4>2, <4>3
    <3>3. QED
      BY <3>1, <3>2
  <2>5. ASSUME NEW l \in Req, NEW m \in Req, rgot'[l] = rgot'[m], rgot'[l] # <<>>
        PROVE  l = m
    <3>1. ASSUME NEW o \in Req, o # k PROVE rgot[o] # <<Result(Low + 1)>>
      <4>1. SUFFICES ASSUME NEW r \in 1..Low, rgot[o] = <<Result(r)>> PROVE r # Low + 1
        BY <1>4, ResultFacts
      <4>2. QED
        BY <1>5
    <3>2. QED
      BY <1>4, <1>8, <2>5, <3>1
  <2>6. Low' = Cardinality(Readers')
    <3>1. Readers \subseteq 1..N /\ k \notin Readers /\ Readers' = Readers \cup {k}
      BY <1>8, <1>9, ResultFacts, ReqFacts DEF Readers
    <3>2. IsFiniteSet(Readers)
      <4>1. 1 \in Int /\ N \in Int
        BY ReqFacts
      <4>2. IsFiniteSet(1..N)
        BY <4>1, FS_Interval
      <4>3. QED
        BY <3>1, <4>2, FS_Subset
    <3>3. Cardinality(Readers') = Cardinality(Readers) + 1
      BY <3>1, <3>2, FS_AddElement
    <3>4. QED
      BY <1>4, <1>7, <3>3
  <2>7. Len(reqPipe') <= Top'
    BY <1>5, <1>6, <1>7
  <2>8. \A r : Result(r)' = Result(r)
    BY DEF Result
  <2>9. QED
    BY <1>6, <2>1, <2>2, <2>3, <2>4, <2>5, <2>6, <2>7, <2>8 DEF TakeInv, Result
<1>12. QED
  BY <1>1, <1>2, <1>3, <1>10, <1>11 DEF Inv, ReqInv


-----------------------------------------------------------------------------
(* The second loop: parent and calculating children.                       *)

\* A step that leaves the first pipe and its readers alone, and by which the
\* parent has written as many results.
LEMMA TakeKept ==
    ASSUME Inv, ppc \notin Asks, ppc' \notin Asks, UNCHANGED <<reqPipe, rpc, rgot>>, Top' = Top
    PROVE  ReqInv'
<1>1. UNCHANGED <<Low, Readers>>
  BY DEF Low, Readers
<1>2. TakeInv'
  BY <1>1 DEF Inv, ReqInv, TakeInv
<1>3. QED
  BY <1>2 DEF ReqInv

\* The child that is neither to be forked nor done with is that of this round.
LEMMA KidMoves ==
    ASSUME Inv, NEW c \in Req, cpc[c] \notin {"none", "exit", "gone"}
    PROVE  /\ c = Kid /\ ppc \notin Asks \cup Ends /\ (One => c = 1)
           /\ \/ /\ served[c] = Before /\ ppc \in Opens \cup {"waitRes"}
                 /\ cpc[c] \in Starts \/ (ppc = "waitRes" /\ cpc[c] \in {"read", "write", "post"})
              \/ served[c] = Before + 1 /\ ppc \in Closes \cup {"waitRes"} /\ cpc[c] = "wait" /\ One
<1>1. CalcInv(c)
  BY DEF Inv, CalcSide
<1>2. Forked(c) /\ ~Over(c)
  BY <1>1 DEF CalcInv
<1>3. c = Kid /\ ppc \notin Asks \cup Ends /\ (One => c = 1)
  BY <1>2, ReqFacts DEF Inv, Types, Forked, Over, Kid, Ends
<1>4. QED
  BY <1>1, <1>2, <1>3 DEF CalcInv, Finished

\* The child of this round, when it has been forked.
LEMMA KidInv ==
    ASSUME Inv, ppc \in Opens \cup Closes \cup {"waitRes"}
    PROVE  /\ Kid \in Req /\ ppc \notin Asks \cup Ends
           /\ \/ /\ served[Kid] = Before /\ ppc \in Opens \cup {"waitRes"}
                 /\ cpc[Kid] \in Starts \/ (ppc = "waitRes" /\ cpc[Kid] \in {"read", "write", "post"})
              \/ served[Kid] = Before + 1 /\ ppc \in Closes \cup {"waitRes"} /\ cpc[Kid] \in Finished
<1>1. Kid \in Req /\ i \in Req
  BY ReqFacts DEF Inv, Types, Kid
<1>2. ppc \notin Asks \cup Ends /\ ppc # "forkCalc"
  BY DEF Asks, Ends, Opens, Closes
<1>3. Forked(Kid) /\ ~Over(Kid)
  BY <1>1, <1>2, ReqFacts DEF Forked, Over, Kid
<1>4. CalcInv(Kid)
  BY <1>1 DEF Inv, CalcSide
<1>5. QED
  BY <1>1, <1>2, <1>3, <1>4 DEF CalcInv

\* Within a round, the other children are not concerned.
LEMMA OtherKept ==
    ASSUME Inv, program' = program, i' = i, ppc \notin Asks \cup Ends, ppc' \notin Asks \cup Ends,
           NEW c \in Req, c # Kid,
           cpc'[c] = cpc[c] \/ (cpc[c] = "exit" /\ cpc'[c] = "gone"),
           served'[c] = served[c], b'[c] = b[c]
    PROVE  CalcInv(c)'
<1>1. CalcInv(c) /\ i \in Req
  BY DEF Inv, Types, CalcSide
<1>2. (Forked(c)' <=> Forked(c)) /\ (Over(c)' <=> Over(c)) /\ (Forked(c) => Over(c)) /\ (One' <=> One)
  BY <1>1, ReqFacts DEF Forked, Over, Kid, Ends, One
<1>3. QED
  BY <1>1, <1>2 DEF CalcInv

LEMMA RoundKept ==
    ASSUME program' = program, i' = i
    PROVE  UNCHANGED <<One, Kid, Before, Starts, Finished, Closed>>
BY DEF One, Kid, Before, Starts, Finished, Closed

LEMMA ForkCalcStep ==
    ASSUME Inv, program' = program, ForkCalc(Kid)
    PROVE  Inv'
<1>1. /\ ppc = "forkCalc" /\ ppc' = "setvalCalc" /\ cpc' = [cpc EXCEPT ![Kid] = "setval"]
      /\ UNCHANGED <<semval, semadj, reqPipe, calcPipe, i, a, res, rpc, rgot, b, served>>
  BY DEF ForkCalc, PGoto, CGoto, semVars, reqVars
<1>2. /\ i \in Req /\ Kid \in Req /\ (One => i = 1)
      /\ cpc[Kid] = "none" /\ served[Kid] = 0 /\ Before = 0
  <2>1. i \in Req /\ Kid \in Req /\ (One => i = 1)
    BY <1>1, ReqFacts DEF Inv, Types, Kid, CalcSide, ParentInv
  <2>2. ~Forked(Kid)
    BY <1>1, <2>1, ReqFacts DEF Forked, Kid, Ends
  <2>3. CalcInv(Kid)
    BY <2>1 DEF Inv, CalcSide
  <2>4. QED
    BY <2>1, <2>2, <2>3, ReqFacts DEF CalcInv, Before
<1>3. UNCHANGED <<One, Kid, Before, Starts, Finished>>
  BY <1>1, RoundKept
<1>4. Types'
  BY <1>1, <1>2 DEF Inv, Types, SemTypes, ParentPcs, CalculatorPcs
<1>5. ppc \notin Asks \cup Ends /\ ppc' \notin Asks \cup Ends /\ Top' = Top
  BY <1>1 DEF Asks, Ends, Top
<1>6. ReqInv'
  BY <1>1, <1>5, TakeKept
<1>7. ParentInv'
  BY <1>1, <1>5 DEF Inv, CalcSide, ParentInv, Asks
<1>8. SemInv'
  BY <1>1, <1>2, <1>3 DEF Inv, CalcSide, SemInv, Types, Closes, Kid
<1>9. ASSUME NEW c \in Req PROVE CalcInv(c)'
  <2>1. CASE c = Kid
    <3>1. cpc'[c] = "setval" /\ served'[c] = Before
      BY <1>1, <1>2, <2>1 DEF Inv, Types
    <3>2. Forked(c)' /\ ~Over(c)'
      BY <1>1, <1>2, <1>3, <1>5, <2>1, ReqFacts DEF Forked, Over, Kid
    <3>3. "setval" \in Starts /\ ppc' \in Opens
      BY <1>1 DEF Starts, Opens
    <3>4. QED
      BY <1>3, <3>1, <3>2, <3>3 DEF CalcInv
  <2>2. CASE c # Kid
    <3>1. cpc'[c] = cpc[c]
      BY <1>1, <2>2 DEF Inv, Types
    <3>2. QED
      BY <1>1, <1>5, <2>2, <3>1, OtherKept
  <2>3. QED
    BY <2>1, <2>2
<1>10. QED
  BY <1>4, <1>6, <1>7, <1>8, <1>9 DEF Inv, CalcSide


\* A step of the parent within a round leaves the children as they are.
LEMMA ParentRound ==
    ASSUME Inv, program' = program, UNCHANGED <<i, cpc, served, b>>,
           ppc \in Opens \cup Closes \cup {"waitRes"},
           \/ ppc \in Opens /\ ppc' \in Opens \cup {"waitRes"}
           \/ served[Kid] = Before + 1 /\ ppc' \in Closes
    PROVE  ppc' \notin Asks \cup Ends /\ \A c \in Req : CalcInv(c)'
<1>1. UNCHANGED <<One, Kid, Before, Starts, Finished>>
  BY RoundKept
<1>2. Kid \in Req /\ Before \in Int /\ i \in Req
  BY KidInv, ReqFacts DEF Inv, Types, Before
<1>3. ppc \notin Asks \cup Ends /\ ppc' \notin Asks \cup Ends /\ ppc' # "forkCalc"
  BY DEF Opens, Closes, Asks, Ends
<1>4. ASSUME NEW c \in Req, c = Kid PROVE CalcInv(c)'
  <2>1. Forked(c)' /\ ~Over(c)'
    BY <1>1, <1>2, <1>3, <1>4, ReqFacts DEF Forked, Over, Kid
  <2>2. cpc[c] \in {"write", "post"} => b[c] = Data(i)
    BY DEF Inv, CalcSide, CalcInv
  <2>3. CASE ppc \in Opens
    <3>1. ppc \notin Closes \cup {"waitRes"}
      BY <2>3 DEF Opens, Closes
    <3>2. served[Kid] = Before /\ cpc[Kid] \in Starts
      BY <2>3, <3>1, KidInv
    <3>3. ppc' \in Opens \cup {"waitRes"}
      BY <1>2, <2>3, <3>2
    <3>4. QED
      BY <1>1, <1>4, <2>1, <2>2, <3>2, <3>3 DEF CalcInv
  <2>4. CASE served[Kid] = Before + 1 /\ ppc' \in Closes
    <3>1. cpc[Kid] \in Finished
      BY <1>2, <2>4, KidInv
    <3>2. QED
      BY <1>1, <1>4, <2>1, <2>2, <2>4, <3>1 DEF CalcInv
  <2>5. QED
    BY <2>3, <2>4
<1>5. ASSUME NEW c \in Req, c # Kid PROVE CalcInv(c)'
  BY <1>3, <1>5, OtherKept
<1>6. QED
  BY <1>3, <1>4, <1>5

LEMMA ParentSetsStep ==
    ASSUME Inv, program' = program, ParentSets
    PROVE  Inv'
<1>1. PICK s \in {1, 2}, l \in {"setvalCalc2", "writeReq"} :
        /\ SetVal(s, IF One THEN 0 ELSE Closed) /\ ppc' = l
        /\ \/ One /\ ppc = "setvalCalc" /\ s = 1 /\ l = "setvalCalc2"
           \/ One /\ ppc = "setvalCalc2" /\ s = 2 /\ l = "writeReq"
           \/ ~One /\ ppc = "setvalCalc" /\ s = 1 /\ l = "writeReq"
        /\ UNCHANGED <<reqPipe, calcPipe, i, a, res, rpc, rgot, cpc, b, served>>
  <2>1. \A from, s, v, l : InitCalcSem(from, s, v, l) <=>
          /\ ppc = from /\ SetVal(s, v) /\ ppc' = l
          /\ UNCHANGED <<reqPipe, calcPipe, i, a, res, rpc, rgot, cpc, b, served>>
    BY DEF InitCalcSem, PGoto, reqVars, calcVars
  <2>2. CASE One /\ InitCalcSem("setvalCalc", 1, 0, "setvalCalc2")
    BY <2>1, <2>2
  <2>3. CASE One /\ InitCalcSem("setvalCalc2", 2, 0, "writeReq")
    BY <2>1, <2>3
  <2>4. CASE ~One /\ InitCalcSem("setvalCalc", 1, Closed, "writeReq")
    BY <2>1, <2>4
  <2>5. QED
    BY <2>2, <2>3, <2>4 DEF ParentSets
<1>2. ppc \in Opens /\ ppc' \in Opens
  BY <1>1 DEF Opens
<1>3. \A c \in Req : CalcInv(c)'
  BY <1>1, <1>2, ParentRound
<1>4. ppc \notin Asks /\ ppc' \notin Asks /\ Top' = Top
  BY <1>1 DEF Asks, Ends, Top
<1>5. ReqInv'
  BY <1>1, <1>4, TakeKept
<1>6. (IF One THEN 0 ELSE Closed) \in {0, 1} /\ 1 \in Sems /\ 2 \in Sems /\ s \in Sems
  BY <1>1 DEF Closed, Sems
<1>7. /\ SemTypes' /\ semval'[s] = (IF One THEN 0 ELSE Closed)
      /\ \A r \in Sems \ {s} : semval'[r] = semval[r]
      /\ \A q \in Procs : semadj'[q][s] = 0
      /\ \A q \in Procs, r \in Sems \ {s} : semadj'[q][r] = semadj[q][r]
  BY <1>1, <1>6, SetFacts DEF Inv, Types, OtherSems
<1>8. Types'
  BY <1>1, <1>7 DEF Inv, Types, ParentPcs
<1>9. UNCHANGED <<One, Kid, Before>>
  BY <1>1, RoundKept
<1>10. ParentInv'
  BY <1>1, <1>4, <1>9 DEF Inv, CalcSide, ParentInv
<1>11. SemInv'
  <2>1. \A k \in Req : /\ semadj'[ReqP(k)][1] = 0 /\ semadj'[ReqP(k)][2] = 0
                       /\ semadj'[CalcP(k)][1] \in {0, semadj[CalcP(k)][1]}
    BY <1>1, <1>6, <1>7, ProcFacts DEF Inv, CalcSide, SemInv
  <2>2. ppc' \in {"setvalCalc2", "writeReq"}
    BY <1>1
  <2>3. IF program = "parent_child3" THEN semval'[1] >= 1 \/ served[Kid] # Before
        ELSE semval'[1] = 0 \/ served[Kid] # Before
    <3>1. CASE s = 1
      BY <1>7, <3>1 DEF Closed, One
    <3>2. CASE s = 2
      <4>1. semval'[1] = semval[1] /\ ppc = "setvalCalc2"
        BY <1>1, <1>6, <1>7, <3>2
      <4>2. QED
        BY <4>1 DEF Inv, CalcSide, SemInv
    <3>3. QED
      BY <1>1, <3>1, <3>2
  <2>4. ASSUME One, cpc[1] \in {"wait", "read", "write", "post"} PROVE semval'[2] = 0
    <3>1. semval[2] = 0
      BY <1>1, <2>4 DEF Inv, CalcSide, SemInv
    <3>2. QED
      BY <1>1, <1>6, <1>7, <2>4, <3>1
  <2>5. QED
    BY <1>1, <1>9, <2>1, <2>2, <2>3, <2>4 DEF Inv, CalcSide, SemInv, Closes
<1>12. QED
  BY <1>3, <1>5, <1>8, <1>10, <1>11 DEF Inv, CalcSide

LEMMA WriteReqStep ==
    ASSUME Inv, program' = program, WriteReq(IF One THEN "postReq" ELSE "waitRes")
    PROVE  Inv'
<1>1. /\ ppc = "writeReq" /\ ppc' = (IF One THEN "postReq" ELSE "waitRes")
      /\ calcPipe' = calcPipe \o a[i]
      /\ UNCHANGED <<semval, semadj, reqPipe, i, a, res, rpc, rgot, cpc, b, served>>
  BY DEF WriteReq, PGoto, semVars, reqVars, calcVars
<1>2. ppc \in Opens /\ ppc' \in Opens \cup {"waitRes"}
  BY <1>1 DEF Opens
<1>3. \A c \in Req : CalcInv(c)'
  BY <1>1, <1>2, ParentRound
<1>4. ppc \notin Asks /\ ppc' \notin Asks /\ Top' = Top
  BY <1>1 DEF Asks, Ends, Top
<1>5. ReqInv'
  BY <1>1, <1>4, TakeKept
<1>6. Types'
  BY <1>1 DEF Inv, Types, SemTypes, ParentPcs
<1>7. UNCHANGED <<One, Kid, Before>>
  BY <1>1, RoundKept
<1>8. served[Kid] = Before /\ cpc[Kid] \in Starts
  BY <1>1, <1>2, KidInv DEF Closes
<1>9. calcPipe' = Data(i)
  <2>1. i \in Req /\ a[i] = Data(i) /\ calcPipe = <<>>
    BY <1>1, <1>4 DEF Inv, Types, CalcSide, ParentInv
  <2>2. QED
    BY <1>1, <2>1, PipeRead
<1>10. ParentInv'
  BY <1>1, <1>4, <1>7, <1>8, <1>9 DEF Inv, CalcSide, ParentInv, Starts, Asks
<1>11. SemInv'
  BY <1>1, <1>7 DEF Inv, CalcSide, SemInv, Closes
<1>12. QED
  BY <1>3, <1>5, <1>6, <1>10, <1>11 DEF Inv, CalcSide


\* What is added by exits does not change but for the parent's own.
LEMMA ParentAdjs ==
    ASSUME SemInv, NEW s \in Sems, OtherAdjs(s, Parent), program' = program
    PROVE  /\ \A k \in Req : semadj'[ReqP(k)][1] = 0 /\ semadj'[ReqP(k)][2] = 0
           /\ \A c \in Req : semadj'[CalcP(c)][1] = semadj[CalcP(c)][1]
<1>1. 1 \in Sems /\ 2 \in Sems
  BY DEF Sems
<1>2. \A q \in Procs \ {Parent}, r \in Sems : semadj'[q][r] = semadj[q][r]
  BY DEF OtherAdjs
<1>3. \A k \in Req : ReqP(k) \in Procs \ {Parent} /\ CalcP(k) \in Procs \ {Parent}
  BY ProcFacts
<1>4. QED
  BY <1>1, <1>2, <1>3 DEF SemInv

LEMMA PutReqStep ==
    ASSUME Inv, program' = program, One, PutReq
    PROVE  Inv'
<1>1. /\ ppc = "postReq" /\ ppc' = "waitRes" /\ SemOp(Parent, 2, 1)
      /\ UNCHANGED <<reqPipe, calcPipe, i, a, res, rpc, rgot, cpc, b, served>>
  BY DEF PutReq, PGoto, reqVars, calcVars
<1>2. ppc \in Opens
  BY <1>1 DEF Opens
<1>3. \A c \in Req : CalcInv(c)'
  BY <1>1, <1>2, ParentRound
<1>4. ppc \notin Asks /\ ppc' \notin Asks /\ Top' = Top
  BY <1>1 DEF Asks, Ends, Top
<1>5. ReqInv'
  BY <1>1, <1>4, TakeKept
<1>6. 1 \in Sems /\ 2 \in Sems /\ Parent \in Procs
  BY ProcFacts DEF Sems
<1>7. /\ SemTypes' /\ semval'[2] = semval[2] + 1 /\ semval'[1] = semval[1]
      /\ OtherAdjs(2, Parent)
  BY <1>1, <1>6, OpFacts DEF Inv, Types, OtherSems
<1>8. Types'
  BY <1>1, <1>7 DEF Inv, Types, ParentPcs
<1>9. UNCHANGED <<One, Kid, Before>> /\ Kid = 1
  BY <1>1, RoundKept DEF Kid
<1>10. served[Kid] = Before /\ cpc[Kid] \in Starts
  BY <1>1, <1>2, KidInv DEF Closes
<1>11. ParentInv'
  BY <1>1, <1>4, <1>9 DEF Inv, CalcSide, ParentInv
<1>12. SemInv'
  <2>1. semval[1] = 0
    BY <1>1, <1>10 DEF Inv, CalcSide, SemInv, One
  <2>2. cpc[1] \in {"wait", "read", "write", "post"} => cpc[1] = "wait" /\ semval[2] = 0
    BY <1>1, <1>9, <1>10 DEF Inv, CalcSide, SemInv, Starts
  <2>3. QED
    BY <1>1, <1>6, <1>7, <1>9, <1>10, <2>1, <2>2, ParentAdjs DEF Inv, CalcSide, SemInv, Closes, One
<1>13. QED
  BY <1>3, <1>5, <1>8, <1>11, <1>12 DEF Inv, CalcSide

\* The parent gets past semaphore 1 only when the child has opened it.
LEMMA GetResStep ==
    ASSUME Inv, program' = program, GetRes
    PROVE  Inv'
<1>1. /\ ppc = "waitRes" /\ ppc' = "readRes" /\ Passing(Parent, 1)
      /\ UNCHANGED <<reqPipe, calcPipe, i, a, res, rpc, rgot, cpc, b, served>>
  BY DEF GetRes, PGoto, reqVars, calcVars
<1>2. 1 \in Sems /\ 2 \in Sems /\ Parent \in Procs
  BY ProcFacts DEF Sems
<1>3. /\ SemTypes' /\ semval'[2] = semval[2] /\ OtherAdjs(1, Parent)
      /\ IF program = "parent_child3" THEN semval[1] = 0 ELSE semval[1] >= 1 /\ semval'[1] = semval[1] - 1
  BY <1>1, <1>2, PassFacts DEF Inv, Types, OtherSems
<1>4. served[Kid] # Before
  BY <1>1, <1>3 DEF Inv, CalcSide, SemInv
<1>5. served[Kid] = Before + 1 /\ cpc[Kid] \in Finished
  BY <1>1, <1>4, KidInv
<1>6. ppc' \in Closes
  BY <1>1 DEF Closes
<1>7. \A c \in Req : CalcInv(c)'
  BY <1>1, <1>5, <1>6, ParentRound
<1>8. ppc \notin Asks /\ ppc' \notin Asks /\ Top' = Top
  BY <1>1 DEF Asks, Ends, Top
<1>9. ReqInv'
  BY <1>1, <1>8, TakeKept
<1>10. Types'
  BY <1>1, <1>3 DEF Inv, Types, ParentPcs
<1>11. UNCHANGED <<One, Kid, Before>>
  BY <1>1, RoundKept
<1>12. ParentInv'
  BY <1>1, <1>4, <1>8, <1>11 DEF Inv, CalcSide, ParentInv
<1>13. SemInv'
  <2>1. One => semval'[1] = 0
    <3>1. One => semval[1] <= 1 /\ semval[1] \in Nat
      BY <1>1, <1>2 DEF Inv, CalcSide, SemInv, Types, SemTypes
    <3>2. QED
      BY <1>3, <3>1 DEF One
  <2>2. One => (cpc[1] \in {"wait", "read", "write", "post"} => semval[2] = 0)
    BY <1>4 DEF Inv, CalcSide, SemInv, Kid
  <2>3. QED
    BY <1>1, <1>2, <1>3, <1>11, <2>1, <2>2, ParentAdjs DEF Inv, CalcSide, SemInv
<1>14. QED
  BY <1>7, <1>9, <1>10, <1>12, <1>13 DEF Inv, CalcSide

LEMMA ReadResStep ==
    ASSUME Inv, program' = program, ReadRes
    PROVE  Inv'
<1>1. /\ ppc = "readRes" /\ ppc' = "writeRes"
      /\ res' = Taken(calcPipe, 1) /\ calcPipe' = Rest(calcPipe, 1)
      /\ UNCHANGED <<semval, semadj, reqPipe, i, a, rpc, rgot, cpc, b, served>>
  BY DEF ReadRes, PGoto, semVars, reqVars, calcVars
<1>2. ppc \in Closes /\ ppc' \in Closes
  BY <1>1 DEF Closes
<1>3. served[Kid] = Before + 1
  BY <1>1, <1>2, KidInv DEF Opens
<1>4. \A c \in Req : CalcInv(c)'
  BY <1>1, <1>2, <1>3, ParentRound
<1>5. ppc \notin Asks /\ ppc' \notin Asks /\ Top' = Top
  BY <1>1 DEF Asks, Ends, Top
<1>6. ReqInv'
  BY <1>1, <1>5, TakeKept
<1>7. i \in Req /\ calcPipe = <<Result(i)>>
  BY <1>1 DEF Inv, Types, CalcSide, ParentInv
<1>8. res' = <<Result(i)>> /\ calcPipe' = <<>>
  BY <1>1, <1>7, PipeRead
<1>9. Types'
  <2>1. res' \in Results
    BY <1>7, <1>8, ResultFacts
  <2>2. QED
    BY <1>1, <2>1 DEF Inv, Types, SemTypes, ParentPcs
<1>10. UNCHANGED <<One, Kid, Before>>
  BY <1>1, RoundKept
<1>11. ParentInv'
  BY <1>1, <1>5, <1>8, <1>10 DEF Inv, CalcSide, ParentInv, Result
<1>12. SemInv'
  BY <1>1, <1>2, <1>3, <1>10 DEF Inv, CalcSide, SemInv
<1>13. QED
  BY <1>4, <1>6, <1>9, <1>11, <1>12 DEF Inv, CalcSide


LEMMA WriteResStep ==
    ASSUME Inv, program' = program, WriteRes
    PROVE  Inv'
<1>1. /\ ppc = "writeRes" /\ ppc' = "post" /\ reqPipe' = reqPipe \o res
      /\ UNCHANGED <<semval, semadj, calcPipe, i, a, res, rpc, rgot, cpc, b, served>>
  BY DEF WriteRes, PGoto, semVars, reqVars, calcVars
<1>2. ppc \in Closes /\ ppc' \in Closes
  BY <1>1 DEF Closes
<1>3. served[Kid] = Before + 1
  BY <1>1, <1>2, KidInv DEF Opens
<1>4. \A c \in Req : CalcInv(c)'
  BY <1>1, <1>2, <1>3, ParentRound
<1>5. Types'
  BY <1>1 DEF Inv, Types, SemTypes, ParentPcs
<1>6. UNCHANGED <<One, Kid, Before>>
  BY <1>1, RoundKept
<1>7. ppc \notin Asks /\ ppc' \notin Asks
  BY <1>1 DEF Asks
<1>8. ParentInv'
  BY <1>1, <1>6, <1>7 DEF Inv, CalcSide, ParentInv
<1>9. SemInv'
  BY <1>1, <1>2, <1>6 DEF Inv, CalcSide, SemInv
<1>10. Types /\ TakeInv /\ i \in Req /\ res = <<Result(i)>>
  BY <1>1, <1>7 DEF Inv, ReqInv, Types, CalcSide, ParentInv
<1>11. /\ reqPipe \in Seq({Result(k) : k \in Req})
       /\ \A n \in 1..Len(reqPipe) : reqPipe[n] = Result(Low + n)
  BY <1>10 DEF TakeInv
<1>12. /\ Top = i - 1 /\ Top' = i /\ Low \in Nat /\ Len(reqPipe) \in Nat
       /\ Low + Len(reqPipe) = i - 1
  <2>1. Top = i - 1 /\ Top' = i
    BY <1>1 DEF Top, Ends
  <2>2. QED
    BY <1>10, <2>1, LowType
<1>13. /\ reqPipe' \in Seq({Result(k) : k \in Req}) /\ Len(reqPipe') = Len(reqPipe) + 1
       /\ \A n \in 1..Len(reqPipe) : reqPipe'[n] = reqPipe[n]
       /\ reqPipe'[Len(reqPipe) + 1] = Result(i)
  <2>1. \A S : \A q \in Seq(S), w \in S : q \o <<w>> = Append(q, w)
    BY AppendIsConcat
  <2>2. reqPipe' = Append(reqPipe, Result(i))
    BY <1>1, <1>10, <1>11, <2>1
  <2>3. QED
    BY <1>10, <1>11, <2>2, AppendProperties
<1>14. Low' = Low /\ i \in Nat
  <2>1. Low' = Top' - Len(reqPipe')
    BY DEF Low
  <2>2. QED
    BY <1>10, <1>12, <1>13, <2>1, ReqFacts
<1>15. TakeInv'
  <2>1. ASSUME NEW n \in 1..Len(reqPipe') PROVE reqPipe'[n] = Result(Low + n)
    <3>1. CASE n = Len(reqPipe) + 1
      <4>1. Low + n = i
        BY <1>12, <1>14, <3>1
      <4>2. QED
        BY <1>13, <3>1, <4>1
    <3>2. CASE n # Len(reqPipe) + 1
      <4>1. n \in 1..Len(reqPipe)
        BY <1>12, <1>13, <3>2
      <4>2. QED
        BY <1>11, <1>13, <4>1
    <3>3. QED
      BY <3>1, <3>2
  <2>2. Len(reqPipe') <= Top' /\ Readers' = Readers
    BY <1>1, <1>12, <1>13, <1>14 DEF Readers
  <2>3. \A r : Result(r)' = Result(r)
    BY DEF Result
  <2>4. QED
    BY <1>1, <1>10, <1>13, <1>14, <2>1, <2>2, <2>3 DEF TakeInv, Result
<1>16. QED
  BY <1>4, <1>5, <1>7, <1>8, <1>9, <1>15 DEF Inv, ReqInv, CalcSide

\* The end of a round: the child of this round is done with, or waits for the
\* next request.
LEMMA PutResStep ==
    ASSUME Inv, program' = program, PutRes
    PROVE  Inv'
<1>1. /\ ppc = "post" /\ Opening(Parent, 0)
      /\ UNCHANGED <<reqPipe, calcPipe, a, res, rpc, rgot, cpc, b, served>>
  BY DEF PutRes, reqVars, calcVars
<1>2. /\ i \in Req /\ i' \in Req
      /\ \/ i # N /\ i' = i + 1 /\ ppc' = (IF One THEN "writeReq" ELSE "forkCalc")
         \/ i = N /\ i' = 1 /\ ppc' = "reap"
  BY ReqFacts DEF PutRes, NextRound, PGoto, Inv, Types
<1>3. 0 \in Sems /\ 1 \in Sems /\ 2 \in Sems /\ Parent \in Procs
  BY ProcFacts DEF Sems
<1>4. SemTypes' /\ semval'[1] = semval[1] /\ semval'[2] = semval[2] /\ OtherAdjs(0, Parent)
  BY <1>1, <1>3, OpenFacts DEF Inv, Types, OtherSems
<1>5. Types'
  BY <1>1, <1>2, <1>4 DEF Inv, Types, ParentPcs
<1>6. ppc \notin Asks \cup Ends /\ ppc' \notin Asks
  BY <1>1, <1>2 DEF Asks, Ends
<1>7. ReqInv'
  <2>1. Top = i
    BY <1>1 DEF Top, Ends
  <2>2. Top' = i
    <3>1. i \in Int
      BY <1>2, ReqFacts
    <3>2. CASE i # N
      <4>1. i' = i + 1 /\ ppc' \in {"writeReq", "forkCalc"}
        BY <1>2, <3>2
      <4>2. Top' = i' - 1
        BY <4>1 DEF Top, Ends
      <4>3. QED
        BY <3>1, <4>1, <4>2
    <3>3. CASE i = N
      BY <1>2, <3>3 DEF Top, Ends
    <3>4. QED
      BY <3>2, <3>3
  <2>3. QED
    BY <1>1, <1>6, <2>1, <2>2, TakeKept
<1>8. Kid \in Req /\ served[Kid] = Before + 1 /\ cpc[Kid] \in Finished
  BY <1>1, KidInv DEF Opens, Closes
<1>9. One' = One
  BY DEF One
<1>10. ASSUME NEW c \in Req
       PROVE  CalcInv(c)' /\ (One => (cpc[1] \in {"wait", "exit", "gone"} /\ served[1] = i))
  <2>1. CalcInv(c) /\ c \in 1..N /\ i \in 1..N
    BY <1>2, ReqFacts DEF Inv, CalcSide
  <2>2. One => cpc[1] \in {"wait", "exit", "gone"} /\ served[1] = i
    BY <1>8, <2>1 DEF Finished, Kid, Before
  <2>3. CASE c = Kid
    <3>1. cpc[c] \notin {"write", "post"} /\ cpc[c] # "none"
      BY <1>8, <2>3 DEF Finished
    <3>2. CASE One /\ i # N
      <4>1. c = 1 /\ cpc[c] = "wait" /\ i < N /\ served[c] = i
        BY <1>8, <2>1, <2>2, <2>3, <3>2, ReqFacts DEF Finished, Kid
      <4>2. Forked(c)' /\ ~Over(c)' /\ Before' = i /\ ppc' \in Opens /\ "wait" \in Starts'
        <5>1. ppc' = "writeReq" /\ i' - 1 = i
          <6>1. ppc' = "writeReq" /\ i' = i + 1
            BY <1>2, <3>2
          <6>2. i \in Int
            BY <2>1, ReqFacts
          <6>3. QED
            BY <6>1, <6>2
        <5>2. Before' = i' - 1 /\ "wait" \in Starts'
          BY <1>9, <3>2 DEF Before, Starts
        <5>3. QED
          BY <1>6, <1>9, <3>2, <4>1, <5>1, <5>2 DEF Forked, Over, Ends, Opens
      <4>3. QED
        BY <1>1, <4>1, <4>2 DEF CalcInv
    <3>3. CASE ~(One /\ i # N)
      <4>1. cpc[c] \in {"exit", "gone"} /\ served[c] = (IF One THEN N ELSE 1)
        BY <1>8, <2>1, <2>2, <2>3, <3>3 DEF Finished, Kid, Before
      <4>2. Forked(c)' /\ Over(c)'
        BY <1>2, <1>6, <1>9, <2>1, <2>3, <3>3 DEF Forked, Over, Ends, Kid
      <4>3. cpc'[c] \in {"exit", "gone"} /\ served'[c] = (IF One' THEN N ELSE 1)
        BY <1>1, <1>9, <4>1
      <4>4. QED
        BY <2>2, <4>2, <4>3 DEF CalcInv
    <3>4. QED
      BY <2>2, <3>2, <3>3
  <2>4. CASE c # Kid
    <3>1. CASE Forked(c)
      <4>1. ~One /\ c < i /\ Over(c)
        BY <1>6, <2>1, <2>4, <3>1 DEF Forked, Over, Kid
      <4>2. Forked(c)' /\ Over(c)'
        BY <1>2, <1>6, <1>9, <2>1, <4>1 DEF Forked, Over, Ends
      <4>3. cpc[c] \in {"exit", "gone"} /\ served[c] = 1
        BY <2>1, <3>1, <4>1 DEF CalcInv
      <4>4. QED
        BY <1>1, <1>9, <2>2, <4>1, <4>2, <4>3 DEF CalcInv
    <3>2. CASE ~Forked(c)
      <4>1. cpc[c] = "none" /\ served[c] = 0
        BY <2>1, <3>2 DEF CalcInv
      <4>2. ~Forked(c)'
        BY <1>1, <1>2, <1>6, <1>9, <2>1, <2>4, <3>2 DEF Forked, Ends, Kid
      <4>3. QED
        BY <1>1, <2>2, <4>1, <4>2 DEF CalcInv
    <3>3. QED
      BY <3>1, <3>2
  <2>5. QED
    BY <2>3, <2>4
<1>11. ParentInv'
  <2>1. calcPipe = <<>> /\ \A k \in Req : a[k] = Data(k)
    BY <1>1, <1>6 DEF Inv, CalcSide, ParentInv
  <2>2. ppc' \in {"writeReq", "forkCalc", "reap"} /\ (ppc' = "forkCalc" => ~One)
    BY <1>2
  <2>3. QED
    BY <1>1, <1>6, <1>9, <2>1, <2>2 DEF ParentInv
<1>12. SemInv'
  <2>1. 1 \in Req /\ Kid' = (IF One THEN 1 ELSE i') /\ Before' = (IF One THEN i' - 1 ELSE 0)
    BY <1>9, ReqFacts DEF Kid, Before
  <2>2. One => semval[1] = 0 /\ cpc[1] \in {"wait", "exit", "gone"} /\ served[1] = i
    BY <1>1, <1>10, <2>1 DEF Inv, CalcSide, SemInv, Closes
  <2>3. One /\ cpc[1] = "wait" => semval[2] = 0
    BY <1>1 DEF Inv, CalcSide, SemInv
  <2>4. ppc' \in {"writeReq", "forkCalc", "reap"} /\ (ppc' = "writeReq" => One)
    BY <1>2
  <2>5. QED
    BY <1>1, <1>3, <1>4, <1>9, <2>2, <2>3, <2>4, ParentAdjs DEF Inv, CalcSide, SemInv, Closes, One
<1>13. QED
  BY <1>5, <1>7, <1>10, <1>11, <1>12 DEF Inv, CalcSide

LEMMA ReapStep ==
    ASSUME Inv, program' = program, Reap
    PROVE  Inv' /\ \A k \in Req : rpc'[k] = "gone"
<1>1. /\ ppc = "reap" /\ ppc' = "done" /\ \A k \in Req : rpc[k] = "gone"
      /\ UNCHANGED <<semval, semadj, reqPipe, calcPipe, i, a, res, rpc, rgot, cpc, b, served>>
  BY DEF Reap, PGoto, semVars, reqVars, calcVars
<1>2. ppc \notin Asks /\ ppc' \notin Asks /\ Top' = Top
  BY <1>1 DEF Asks, Ends, Top
<1>3. ReqInv'
  BY <1>1, <1>2, TakeKept
<1>4. Types'
  BY <1>1 DEF Inv, Types, SemTypes, ParentPcs
<1>5. UNCHANGED <<One, Kid, Before, Starts, Finished>>
  BY <1>1, RoundKept
<1>6. ASSUME NEW c \in Req PROVE CalcInv(c)'
  <2>1. CalcInv(c) /\ (Forked(c)' <=> Forked(c)) /\ Over(c) /\ Over(c)'
    BY <1>1, <1>2, <1>5 DEF Inv, CalcSide, Forked, Over, Ends
  <2>2. QED
    BY <1>1, <1>5, <2>1 DEF CalcInv
<1>7. ParentInv'
  BY <1>1, <1>2, <1>5 DEF Inv, CalcSide, ParentInv
<1>8. SemInv'
  BY <1>1, <1>5 DEF Inv, CalcSide, SemInv, Closes
<1>9. QED
  BY <1>1, <1>3, <1>4, <1>6, <1>7, <1>8 DEF Inv, CalcSide


-----------------------------------------------------------------------------
(* The calculating children.                                               *)

\* A step of the child of this round: the others, and the requesters, are not
\* concerned.
LEMMA KidOnly ==
    ASSUME Inv, program' = program, NEW c \in Req, cpc[c] \notin {"none", "exit", "gone"},
           UNCHANGED <<ppc, i, reqPipe, rpc, rgot>>,
           \A e \in Req \ {c} : cpc'[e] = cpc[e] /\ served'[e] = served[e] /\ b'[e] = b[e],
           cpc'[c] \in {"write", "post"} => b'[c] = Data(i),
           \/ /\ served'[c] = Before /\ ppc \in Opens \cup {"waitRes"}
              /\ cpc'[c] \in Starts \/ (ppc = "waitRes" /\ cpc'[c] \in {"read", "write", "post"})
           \/ served'[c] = Before + 1 /\ ppc \in Closes \cup {"waitRes"} /\ cpc'[c] \in Finished
    PROVE  ReqInv' /\ \A e \in Req : CalcInv(e)'
<1>1. c = Kid /\ ppc \notin Asks \cup Ends
  BY KidMoves
<1>2. ReqInv'
  BY <1>1, TakeKept DEF Top
<1>3. UNCHANGED <<One, Kid, Before, Starts, Finished>>
  BY RoundKept
<1>4. CalcInv(c)'
  <2>1. Forked(c) /\ ~Over(c)
    BY DEF Inv, CalcSide, CalcInv
  <2>2. Forked(c)' /\ ~Over(c)'
    BY <1>3, <2>1 DEF Forked, Over
  <2>3. QED
    BY <1>3, <2>2 DEF CalcInv
<1>5. ASSUME NEW e \in Req, e # c PROVE CalcInv(e)'
  BY <1>1, <1>5, OtherKept
<1>6. QED
  BY <1>2, <1>4, <1>5

LEMMA CalcSetsStep ==
    ASSUME Inv, program' = program, NEW c \in Req, CalcSets(c)
    PROVE  Inv'
<1>1. PICK s \in {1, 2}, l \in {"setval2", "wait", "read"} :
        /\ SetVal(s, IF One THEN 0 ELSE Closed) /\ cpc' = [cpc EXCEPT ![c] = l]
        /\ \/ One /\ cpc[c] = "setval" /\ s = 1 /\ l = "setval2"
           \/ One /\ cpc[c] = "setval2" /\ s = 2 /\ l = "wait"
           \/ ~One /\ cpc[c] = "setval" /\ s = 1 /\ l = "read"
        /\ UNCHANGED <<reqPipe, calcPipe, ppc, i, a, res, rpc, rgot, b, served>>
  <2>1. \A from, s, v, l : CalcInitSem(c, from, s, v, l) <=>
          /\ cpc[c] = from /\ SetVal(s, v) /\ cpc' = [cpc EXCEPT ![c] = l]
          /\ UNCHANGED <<reqPipe, calcPipe, ppc, i, a, res, rpc, rgot, b, served>>
    BY DEF CalcInitSem, CGoto, parentVars, reqVars
  <2>2. CASE One /\ CalcInitSem(c, "setval", 1, 0, "setval2")
    BY <2>1, <2>2
  <2>3. CASE One /\ CalcInitSem(c, "setval2", 2, 0, "wait")
    BY <2>1, <2>3
  <2>4. CASE ~One /\ CalcInitSem(c, "setval", 1, Closed, "read")
    BY <2>1, <2>4
  <2>5. QED
    BY <2>2, <2>3, <2>4 DEF CalcSets
<1>2. cpc[c] \in {"setval", "setval2"} /\ cpc'[c] = l /\ l \in Starts
  BY <1>1 DEF Inv, Types, Starts
<1>3. /\ c = Kid /\ ppc \notin Asks \cup Ends /\ (One => c = 1)
      /\ served[c] = Before /\ ppc \in Opens \cup {"waitRes"}
  BY <1>2, KidMoves
<1>4. ReqInv' /\ \A e \in Req : CalcInv(e)'
  <2>1. \A e \in Req \ {c} : cpc'[e] = cpc[e]
    BY <1>1 DEF Inv, Types
  <2>2. cpc'[c] \notin {"write", "post"}
    BY <1>1, <1>2
  <2>3. QED
    BY <1>1, <1>2, <1>3, <2>1, <2>2, KidOnly
<1>5. (IF One THEN 0 ELSE Closed) \in {0, 1} /\ 1 \in Sems /\ 2 \in Sems /\ s \in Sems
  BY <1>1 DEF Closed, Sems
<1>6. /\ SemTypes' /\ semval'[s] = (IF One THEN 0 ELSE Closed)
      /\ \A r \in Sems \ {s} : semval'[r] = semval[r]
      /\ \A q \in Procs : semadj'[q][s] = 0
      /\ \A q \in Procs, r \in Sems \ {s} : semadj'[q][r] = semadj[q][r]
  BY <1>1, <1>5, SetFacts DEF Inv, Types, OtherSems
<1>7. Types'
  BY <1>1, <1>6 DEF Inv, Types, CalculatorPcs
<1>8. UNCHANGED <<One, Kid, Before>>
  BY <1>1, RoundKept
<1>9. ParentInv'
  <2>1. (cpc'[Kid] = "post" <=> cpc[Kid] = "post") /\ (cpc'[Kid] = "write" <=> cpc[Kid] = "write")
    BY <1>1, <1>2, <1>3
  <2>2. QED
    BY <1>1, <1>8, <2>1 DEF Inv, CalcSide, ParentInv
<1>10. SemInv'
  <2>1. \A k \in Req : /\ semadj'[ReqP(k)][1] = 0 /\ semadj'[ReqP(k)][2] = 0
                       /\ semadj'[CalcP(k)][1] \in {0, semadj[CalcP(k)][1]}
    BY <1>1, <1>5, <1>6, ProcFacts DEF Inv, CalcSide, SemInv
  <2>2. CASE s = 1
    <3>1. semval'[1] = (IF One THEN 0 ELSE Closed) /\ semval'[2] = semval[2] /\ cpc'[c] \in {"setval2", "read"} /\ (One => cpc'[c] = "setval2")
      BY <1>1, <1>2, <1>5, <1>6, <2>2
    <3>2. QED
      BY <1>1, <1>3, <1>8, <2>1, <3>1 DEF Inv, CalcSide, SemInv, Closed, One
  <2>3. CASE s = 2
    <3>1. One /\ semval'[1] = semval[1] /\ semval'[2] = 0
      BY <1>1, <1>5, <1>6, <2>3
    <3>2. QED
      BY <1>1, <1>8, <2>1, <3>1 DEF Inv, CalcSide, SemInv
  <2>4. QED
    BY <1>1, <2>2, <2>3
<1>11. QED
  BY <1>4, <1>7, <1>9, <1>10 DEF Inv, CalcSide

LEMMA GetReqStep ==
    ASSUME Inv, program' = program, One, NEW c \in Req, GetReq(c)
    PROVE  Inv'
<1>1. /\ cpc[c] = "wait" /\ cpc' = [cpc EXCEPT ![c] = "read"] /\ SemOp(CalcP(c), 2, -1)
      /\ UNCHANGED <<reqPipe, calcPipe, ppc, i, a, res, rpc, rgot, b, served>>
  BY DEF GetReq, CGoto, parentVars, reqVars
<1>2. c = Kid /\ c = 1 /\ cpc'[c] = "read" /\ ppc \notin Asks \cup Ends
  BY <1>1, KidMoves DEF Inv, Types
<1>3. 1 \in Sems /\ 2 \in Sems /\ CalcP(c) \in Procs /\ -1 \in {-1, 1}
  BY ProcFacts DEF Sems
<1>4. /\ SemTypes' /\ semval'[2] = semval[2] + (-1) /\ semval'[1] = semval[1]
      /\ OtherAdjs(2, CalcP(c)) /\ semval[2] >= 1
  BY <1>1, <1>3, OpFacts DEF Inv, Types, OtherSems
<1>5. semval[2] = 1 /\ served[1] = Before /\ ppc = "waitRes"
  BY <1>1, <1>2, <1>4 DEF Inv, CalcSide, SemInv
<1>6. semval'[2] = 0
  BY <1>4, <1>5
<1>7. ReqInv' /\ \A e \in Req : CalcInv(e)'
  <2>1. \A e \in Req \ {c} : cpc'[e] = cpc[e]
    BY <1>1 DEF Inv, Types
  <2>2. QED
    BY <1>1, <1>2, <1>5, <2>1, KidOnly
<1>8. Types'
  BY <1>1, <1>4 DEF Inv, Types, CalculatorPcs
<1>9. UNCHANGED <<One, Kid, Before>>
  BY <1>1, RoundKept
<1>10. ParentInv'
  BY <1>1, <1>2, <1>9 DEF Inv, CalcSide, ParentInv
<1>11. SemInv'
  <2>1. \A k \in Req : /\ semadj'[ReqP(k)][1] = semadj[ReqP(k)][1] /\ semadj'[ReqP(k)][2] = semadj[ReqP(k)][2]
                       /\ semadj'[CalcP(k)][1] = semadj[CalcP(k)][1]
    BY <1>3, <1>4, ProcFacts DEF OtherAdjs
  <2>2. QED
    BY <1>1, <1>4, <1>6, <1>9, <2>1 DEF Inv, CalcSide, SemInv
<1>12. QED
  BY <1>7, <1>8, <1>10, <1>11 DEF Inv, CalcSide


\* The child reads only what the parent has written.
LEMMA CalcReadStep ==
    ASSUME Inv, program' = program, NEW c \in Req, CalcRead(c)
    PROVE  Inv'
<1>1. /\ cpc[c] = "read" /\ calcPipe # <<>> /\ cpc' = [cpc EXCEPT ![c] = "write"]
      /\ b' = [b EXCEPT ![c] = Taken(calcPipe, 3)] /\ calcPipe' = Rest(calcPipe, 3)
      /\ UNCHANGED <<semval, semadj, reqPipe, ppc, i, a, res, rpc, rgot, served>>
  BY DEF CalcRead, CGoto, semVars, parentVars, reqVars
<1>2. /\ c = Kid /\ ppc \notin Asks \cup Ends /\ (One => c = 1)
      /\ served[c] = Before /\ ppc \in Opens \cup {"waitRes"}
      /\ "read" \in Starts \/ ppc = "waitRes"
  BY <1>1, KidMoves
<1>3. ppc = "waitRes" /\ calcPipe = Data(i) /\ i \in Req
  <2>1. ppc \in {"postReq", "waitRes"} /\ i \in Req
    BY <1>1, <1>2 DEF Inv, Types, CalcSide, ParentInv, Opens
  <2>2. calcPipe = Data(i)
    BY <1>1, <1>2, <2>1 DEF Inv, CalcSide, ParentInv
  <2>3. ppc = "waitRes"
    BY <1>2, <2>1 DEF Inv, CalcSide, ParentInv, Starts
  <2>4. QED
    BY <2>1, <2>2, <2>3
<1>4. b' = [b EXCEPT ![c] = Data(i)] /\ calcPipe' = <<>>
  BY <1>1, <1>3, PipeRead
<1>5. cpc'[c] = "write" /\ b'[c] = Data(i)
  BY <1>1, <1>4 DEF Inv, Types
<1>6. ReqInv' /\ \A e \in Req : CalcInv(e)'
  <2>1. \A e \in Req \ {c} : cpc'[e] = cpc[e] /\ b'[e] = b[e]
    BY <1>1, <1>4 DEF Inv, Types
  <2>2. QED
    BY <1>1, <1>2, <1>3, <1>5, <2>1, KidOnly
<1>7. Types'
  BY <1>1, <1>3, <1>4 DEF Inv, Types, SemTypes, CalculatorPcs, Datas
<1>8. UNCHANGED <<One, Kid, Before>>
  BY <1>1, RoundKept
<1>9. ParentInv'
  BY <1>1, <1>2, <1>3, <1>4, <1>5, <1>8 DEF Inv, CalcSide, ParentInv
<1>10. SemInv'
  BY <1>1, <1>2, <1>5, <1>8 DEF Inv, CalcSide, SemInv
<1>11. QED
  BY <1>6, <1>7, <1>9, <1>10 DEF Inv, CalcSide

LEMMA CalcWriteStep ==
    ASSUME Inv, program' = program, NEW c \in Req, CalcWrite(c)
    PROVE  Inv'
<1>1. /\ cpc[c] = "write" /\ cpc' = [cpc EXCEPT ![c] = "post"]
      /\ calcPipe' = Append(calcPipe, Computed(b[c]))
      /\ UNCHANGED <<semval, semadj, reqPipe, ppc, i, a, res, rpc, rgot, b, served>>
  BY DEF CalcWrite, CGoto, semVars, parentVars, reqVars
<1>2. /\ c = Kid /\ ppc = "waitRes" /\ ppc \notin Asks \cup Ends /\ served[c] = Before
      /\ (One => c = 1)
  BY <1>1, KidMoves DEF Starts
<1>3. b[c] = Data(i) /\ i \in Req
  BY <1>1 DEF Inv, Types, CalcSide, CalcInv
<1>4. calcPipe' = <<Result(i)>>
  <2>1. calcPipe = <<>>
    BY <1>1, <1>2 DEF Inv, CalcSide, ParentInv
  <2>2. Computed(b[c]) = Result(i)
    BY <1>3, DataResult DEF Result
  <2>3. \A w : Append(<<>>, w) = <<w>>
    OBVIOUS
  <2>4. QED
    BY <1>1, <2>1, <2>2, <2>3
<1>5. cpc'[c] = "post"
  BY <1>1 DEF Inv, Types
<1>6. ReqInv' /\ \A e \in Req : CalcInv(e)'
  <2>1. \A e \in Req \ {c} : cpc'[e] = cpc[e]
    BY <1>1 DEF Inv, Types
  <2>2. QED
    BY <1>1, <1>2, <1>3, <1>5, <2>1, KidOnly
<1>7. Types'
  BY <1>1 DEF Inv, Types, SemTypes, CalculatorPcs
<1>8. UNCHANGED <<One, Kid, Before>>
  BY <1>1, RoundKept
<1>9. ParentInv'
  BY <1>1, <1>2, <1>4, <1>5, <1>8 DEF Inv, CalcSide, ParentInv, Result
<1>10. SemInv'
  BY <1>1, <1>2, <1>5, <1>8 DEF Inv, CalcSide, SemInv
<1>11. QED
  BY <1>6, <1>7, <1>9, <1>10 DEF Inv, CalcSide

LEMMA CalcPutStep ==
    ASSUME Inv, program' = program, NEW c \in Req, CalcPut(c)
    PROVE  Inv'
<1> DEFINE l == IF One /\ served[c] + 1 # N THEN "wait" ELSE "exit"
<1>1. /\ cpc[c] = "post" /\ cpc' = [cpc EXCEPT ![c] = l] /\ Opening(CalcP(c), 1)
      /\ served' = [served EXCEPT ![c] = @ + 1]
      /\ UNCHANGED <<reqPipe, calcPipe, ppc, i, a, res, rpc, rgot, b>>
  BY DEF CalcPut, CGoto, parentVars, reqVars
<1>2. /\ c = Kid /\ ppc = "waitRes" /\ ppc \notin Asks \cup Ends /\ served[c] = Before
      /\ (One => c = 1) /\ i \in Req
  BY <1>1, KidMoves DEF Starts, Inv, Types
<1>3. /\ l \in {"wait", "exit"} /\ l \in Finished /\ cpc'[c] = l
      /\ served'[c] = Before + 1 /\ Before \in Nat
  <2>1. Before \in Nat /\ (One => Before + 1 = i)
    BY <1>2, ReqFacts DEF Before
  <2>2. served'[c] = Before + 1 /\ cpc'[c] = l
    BY <1>1, <1>2 DEF Inv, Types
  <2>3. One /\ i # N <=> One /\ i < N
    BY <1>2, ReqFacts
  <2>4. l \in {"wait", "exit"} /\ l \in Finished
    BY <1>2, <2>1, <2>3 DEF Finished
  <2>5. QED
    BY <2>1, <2>2, <2>4
<1> HIDE DEF l
<1>4. ReqInv' /\ \A e \in Req : CalcInv(e)'
  <2>1. \A e \in Req \ {c} : cpc'[e] = cpc[e] /\ served'[e] = served[e]
    BY <1>1 DEF Inv, Types
  <2>2. cpc'[c] \notin {"write", "post"}
    BY <1>3
  <2>3. QED
    BY <1>1, <1>2, <1>3, <2>1, <2>2, KidOnly
<1>5. 1 \in Sems /\ 2 \in Sems /\ CalcP(c) \in Procs
  BY ProcFacts DEF Sems
<1>6. /\ SemTypes' /\ semval'[2] = semval[2] /\ OtherAdjs(1, CalcP(c))
      /\ IF program = "parent_child3" THEN semadj'[CalcP(c)][1] = semadj[CalcP(c)][1] + 1
         ELSE semval'[1] = semval[1] + 1 /\ semadj'[CalcP(c)][1] = semadj[CalcP(c)][1] - 1
  BY <1>1, <1>5, OpenFacts DEF Inv, Types, OtherSems
<1>7. Types'
  <2>1. cpc' \in [Req -> CalculatorPcs]
    BY <1>1, <1>3 DEF Inv, Types, CalculatorPcs
  <2>2. served' \in [Req -> Nat]
    BY <1>1 DEF Inv, Types
  <2>3. QED
    BY <1>1, <1>6, <2>1, <2>2 DEF Inv, Types
<1>8. UNCHANGED <<One, Kid, Before>>
  BY <1>1, RoundKept
<1>9. Before + 1 # Before
  BY <1>3
<1>10. ParentInv'
  <2>1. calcPipe = <<Result(i)>>
    BY <1>1, <1>2 DEF Inv, CalcSide, ParentInv
  <2>2. QED
    BY <1>1, <1>2, <1>3, <1>8, <1>9, <2>1 DEF Inv, CalcSide, ParentInv, Result
<1>11. SemInv'
  <2>1. ASSUME NEW e \in Req
        PROVE  /\ semadj'[ReqP(e)][1] = 0 /\ semadj'[ReqP(e)][2] = 0
               /\ IF program = "parent_child3" THEN semadj'[CalcP(e)][1] >= 0 ELSE semadj'[CalcP(e)][1] <= 0
    <3>1. semadj'[ReqP(e)][1] = semadj[ReqP(e)][1] /\ semadj'[ReqP(e)][2] = semadj[ReqP(e)][2]
      BY <1>5, <1>6, ProcFacts DEF OtherAdjs
    <3>2. e # c => semadj'[CalcP(e)][1] = semadj[CalcP(e)][1]
      BY <1>5, <1>6, ProcFacts DEF OtherAdjs
    <3>3. semadj[CalcP(e)][1] \in Int
      BY <1>5, ProcFacts DEF Inv, Types, SemTypes
    <3>4. IF program = "parent_child3" THEN semadj[CalcP(e)][1] >= 0 ELSE semadj[CalcP(e)][1] <= 0
      BY DEF Inv, CalcSide, SemInv
    <3>5. CASE e # c
      BY <3>1, <3>2, <3>4, <3>5 DEF Inv, CalcSide, SemInv
    <3>6. CASE e = c
      BY <1>6, <3>1, <3>3, <3>4, <3>6 DEF Inv, CalcSide, SemInv
    <3>7. QED
      BY <3>5, <3>6
  <2>2. One => semval'[1] <= 1 /\ semval'[2] = 0
    <3>1. One => semval[1] = 0 /\ semval[2] = 0
      BY <1>1, <1>2 DEF Inv, CalcSide, SemInv, One
    <3>2. QED
      BY <1>6, <3>1 DEF One
  <2>3. served'[Kid] # Before /\ ppc \notin Closes
    BY <1>2, <1>3, <1>9 DEF Closes
  <2>4. QED
    BY <1>1, <1>8, <2>1, <2>2, <2>3 DEF SemInv
<1>12. QED
  BY <1>4, <1>7, <1>10, <1>11 DEF Inv, CalcSide


\* The exit of a child takes back what it has added to semaphore 1, or what it
\* has taken from it, when nobody counts on it any more.
LEMMA CalcExitStep ==
    ASSUME Inv, program' = program, NEW c \in Req, CalcExit(c)
    PROVE  Inv'
<1>1. /\ cpc[c] = "exit" /\ cpc' = [cpc EXCEPT ![c] = "gone"] /\ Undo(CalcP(c))
      /\ UNCHANGED <<reqPipe, calcPipe, ppc, i, a, res, rpc, rgot, b, served>>
  BY DEF CalcExit, CGoto, parentVars, reqVars
<1>2. /\ CalcInv(c) /\ Forked(c) /\ ppc \notin Asks /\ (One => c = Kid /\ c = 1) /\ i \in Req
      /\ served[c] = Before => c # Kid \/ ppc \notin Opens \cup {"waitRes"}
  <2>1. CalcInv(c) /\ i \in Req
    BY DEF Inv, CalcSide, Types
  <2>2. Forked(c)
    BY <1>1, <2>1 DEF CalcInv
  <2>3. ppc \notin Asks /\ (One => c = Kid /\ c = 1)
    BY <2>2 DEF Forked, Kid
  <2>4. ASSUME served[c] = Before, c = Kid, ppc \in Opens \cup {"waitRes"} PROVE FALSE
    <3>1. Before # Before + 1 /\ ppc \notin Closes
      BY <2>1, <2>4, ReqFacts DEF Before, Opens, Closes
    <3>2. cpc[Kid] \in Starts \/ cpc[Kid] \in {"read", "write", "post"}
      BY <2>4, <3>1, KidInv
    <3>3. QED
      BY <1>1, <2>4, <3>2 DEF Starts
  <2>5. QED
    BY <2>1, <2>2, <2>3, <2>4
<1>3. cpc'[c] = "gone" /\ \A e \in Req \ {c} : cpc'[e] = cpc[e]
  BY <1>1 DEF Inv, Types
<1>4. UNCHANGED <<One, Kid, Before, Starts, Finished>>
  BY <1>1, RoundKept
<1>5. ReqInv'
  BY <1>1, <1>2, TakeKept DEF Top
<1>6. ASSUME NEW e \in Req PROVE CalcInv(e)'
  <2>1. CalcInv(e) /\ (Forked(e)' <=> Forked(e)) /\ (Over(e)' <=> Over(e))
    BY <1>1, <1>4 DEF Inv, CalcSide, Forked, Over
  <2>2. CASE e # c
    BY <1>1, <1>3, <1>4, <2>1, <2>2 DEF CalcInv
  <2>3. CASE e = c
    <3>1. cpc[e] = "exit" /\ cpc'[e] = "gone" /\ Forked(e)
      BY <1>1, <1>2, <1>3, <2>3
    <3>2. "exit" \notin Starts /\ ("exit" \in Finished => "gone" \in Finished)
      BY DEF Starts, Finished
    <3>3. QED
      BY <1>1, <1>4, <2>1, <3>1, <3>2 DEF CalcInv
  <2>4. QED
    BY <2>2, <2>3
<1>7. 1 \in Sems /\ 2 \in Sems /\ CalcP(c) \in Procs
  BY ProcFacts DEF Sems
<1>8. /\ SemTypes'
      /\ \A s \in Sems : semval'[s] = IF semval[s] + semadj[CalcP(c)][s] < 0 THEN 0
                                      ELSE semval[s] + semadj[CalcP(c)][s]
      /\ \A s \in Sems : semadj'[CalcP(c)][s] = 0
      /\ \A q \in Procs \ {CalcP(c)} : semadj'[q] = semadj[q]
  BY <1>1, <1>7, UndoFacts DEF Inv, Types
<1>9. Types'
  BY <1>1, <1>8 DEF Inv, Types, CalculatorPcs
<1>10. ParentInv'
  <2>1. (cpc'[Kid] = "post" <=> cpc[Kid] = "post") /\ (cpc'[Kid] = "write" <=> cpc[Kid] = "write")
    <3>1. Kid \in Req
      BY <1>2, ReqFacts DEF Kid
    <3>2. QED
      BY <1>1, <1>3, <3>1
  <2>2. QED
    BY <1>1, <1>4, <2>1 DEF Inv, CalcSide, ParentInv
<1>11. SemInv'
  <2>1. /\ semval[1] \in Nat /\ semadj[CalcP(c)][1] \in Int
        /\ semval'[1] = IF semval[1] + semadj[CalcP(c)][1] < 0 THEN 0
                        ELSE semval[1] + semadj[CalcP(c)][1]
    BY <1>7, <1>8 DEF Inv, Types, SemTypes
  <2>2. IF program = "parent_child3" THEN semval'[1] >= semval[1] ELSE semval'[1] \in 0..semval[1]
    <3>1. IF program = "parent_child3" THEN semadj[CalcP(c)][1] >= 0 ELSE semadj[CalcP(c)][1] <= 0
      BY DEF Inv, CalcSide, SemInv
    <3>2. CASE program = "parent_child3"
      BY <2>1, <3>1, <3>2
    <3>3. CASE program # "parent_child3"
      BY <2>1, <3>1, <3>3
    <3>4. QED
      BY <3>2, <3>3
  <2>3. \A k \in Req : /\ semadj'[ReqP(k)][1] = semadj[ReqP(k)][1] /\ semadj'[ReqP(k)][2] = semadj[ReqP(k)][2]
                       /\ semadj'[CalcP(k)][1] \in {0, semadj[CalcP(k)][1]}
    <3>1. ASSUME NEW k \in Req
          PROVE  /\ semadj'[ReqP(k)] = semadj[ReqP(k)]
                 /\ (k # c => semadj'[CalcP(k)] = semadj[CalcP(k)])
                 /\ (k = c => semadj'[CalcP(k)][1] = 0)
      BY <1>7, <1>8, ProcFacts
    <3>2. QED
      BY <3>1
  <2>4. One => /\ cpc'[1] \notin {"wait", "read", "write", "post"}
               /\ semval'[1] <= semval[1] /\ (semval[1] = 0 => semval'[1] = 0)
    BY <1>2, <1>3, <2>1, <2>2 DEF One
  <2>5. semval[1] >= 1 /\ program = "parent_child3" => semval'[1] >= 1
    <3>1. semval'[1] \in Nat
      BY <1>7, <1>8 DEF SemTypes
    <3>2. QED
      BY <2>1, <2>2, <3>1
  <2>6. semval[1] = 0 /\ program # "parent_child3" => semval'[1] = 0
    BY <2>2
  <2>7. One => (semval[1] <= 1 => semval'[1] <= 1)
    <3>1. semval'[1] \in Nat
      BY <1>7, <1>8 DEF SemTypes
    <3>2. QED
      BY <2>1, <2>4, <3>1
  <2>8. QED
    BY <1>1, <1>4, <2>3, <2>4, <2>5, <2>6, <2>7 DEF Inv, CalcSide, SemInv
<1>12. QED
  BY <1>5, <1>6, <1>9, <1>10, <1>11 DEF Inv, CalcSide


-----------------------------------------------------------------------------
(* The invariant holds.                                                    *)

LEMMA InvInit == MCInit => Inv
<1> SUFFICES ASSUME MCInit PROVE Inv
  OBVIOUS
<1>1. /\ semval \in [Sems -> 0..1] /\ semadj = [p \in Procs |-> [s \in Sems |-> 0]]
      /\ reqPipe = <<>> /\ calcPipe = <<>> /\ ppc = "fork" /\ i = 1
      /\ a = [k \in Req |-> <<>>] /\ res = <<>>
      /\ rpc = [k \in Req |-> "none"] /\ rgot = [k \in Req |-> <<>>]
      /\ cpc = [c \in Req |-> "none"] /\ b = [c \in Req |-> <<>>]
      /\ served = [c \in Req |-> 0]
  BY DEF MCInit, Init
<1>2. SemTypes
  BY <1>1 DEF SemTypes
<1>3. Types
  BY <1>1, <1>2, ReqFacts DEF Types, ParentPcs, RequesterPcs, CalculatorPcs
<1>4. ppc \in Asks
  BY <1>1 DEF Asks
<1>5. AskInv
  BY <1>1, ReqFacts DEF AskInv
<1>6. ParentInv
  BY <1>1, <1>4, ReqFacts DEF ParentInv
<1>7. SemInv
  <2>1. \A p \in Procs : semadj[p][1] = 0 /\ semadj[p][2] = 0
    BY <1>1 DEF Sems
  <2>2. QED
    BY <1>1, <2>1, ReqFacts, ProcFacts DEF SemInv, Closes
<1>8. \A c \in Req : CalcInv(c)
  BY <1>1, <1>4 DEF CalcInv, Forked
<1>9. QED
  BY <1>3, <1>4, <1>5, <1>6, <1>7, <1>8 DEF Inv, ReqInv, CalcSide

LEMMA SameInv ==
    ASSUME Inv, program' = program, UNCHANGED vars
    PROVE  Inv'
<1>1. UNCHANGED <<semval, semadj, reqPipe, calcPipe, ppc, i, a, res, rpc, rgot, cpc, b, served>>
  BY DEF vars, semVars, parentVars, reqVars, calcVars
<1>2. ReqInv'
  BY <1>1 DEF Inv, ReqInv, AskInv, TakeInv, Top, Low, Readers, Closed
<1>3. Types'
  BY <1>1 DEF Inv, Types, SemTypes
<1>4. UNCHANGED <<One, Kid, Before, Starts, Finished, Closed>>
  BY <1>1, RoundKept
<1>5. ParentInv'
  BY <1>1, <1>4 DEF Inv, CalcSide, ParentInv
<1>6. SemInv'
  BY <1>1, <1>4 DEF Inv, CalcSide, SemInv
<1>7. \A c \in Req : CalcInv(c)'
  BY <1>1, <1>4 DEF Inv, CalcSide, CalcInv, Forked, Over
<1>8. QED
  BY <1>2, <1>3, <1>5, <1>6, <1>7 DEF Inv, CalcSide

LEMMA InvStep == Inv /\ [MCNext]_allVars => Inv'
<1> SUFFICES ASSUME Inv, [MCNext]_allVars PROVE Inv'
  OBVIOUS
<1>1. program' = program
  BY Steps
<1>2. CASE UNCHANGED vars
  BY <1>1, <1>2, SameInv
<1>3. CASE ParentStep
  BY <1>1, <1>3, ForkReqStep, InitReqSemStep, ReadReqStep, ForkCalcStep, ParentSetsStep,
     WriteReqStep, PutReqStep, GetResStep, ReadResStep, WriteResStep, PutResStep, ReapStep
     DEF ParentStep
<1>4. ASSUME NEW k \in Req, RequesterStepOf(k) PROVE Inv'
  BY <1>1, <1>4, ReqInitSemStep, ReqWriteStep, ReqPassStep, ReqReadStep, ReqExitStep
     DEF RequesterStepOf
<1>5. ASSUME NEW k \in Req, CalculatorStepOf(k) PROVE Inv'
  BY <1>1, <1>5, CalcSetsStep, GetReqStep, CalcReadStep, CalcWriteStep, CalcPutStep, CalcExitStep
     DEF CalculatorStepOf
<1>6. QED
  BY <1>2, <1>3, <1>4, <1>5, Steps

LEMMA Invariant == MCSpec => []Inv
BY InvInit, InvStep, PTL DEF MCSpec

\* The parent has waited for its children.
DoneInv == ppc = "done" => \A k \in Req : rpc[k] = "gone"

LEMMA DoneStep == Inv /\ DoneInv /\ [MCNext]_allVars => DoneInv'
<1> SUFFICES ASSUME Inv, DoneInv, [MCNext]_allVars, ppc' = "done" PROVE \A k \in Req : rpc'[k] = "gone"
  BY DEF DoneInv
<1>1. CASE UNCHANGED vars
  BY <1>1 DEF vars, parentVars, reqVars, DoneInv
<1>2. CASE ParentStep
  <2>1. CASE Reap
    BY <2>1, ReapStep, Steps
  <2>2. CASE ~Reap
    BY <1>2, <2>2 DEF ParentStep, ForkReq, InitReqSem, ReadReq, ForkCalc, ParentSets, InitCalcSem, WriteReq,
                      PutReq, GetRes, ReadRes, WriteRes, PutRes, NextRound, PGoto
  <2>3. QED
    BY <2>1, <2>2
<1>3. ASSUME NEW m \in Req, RequesterStepOf(m) PROVE FALSE
  <2>1. ppc' = ppc /\ rpc[m] # "gone"
    BY <1>3 DEF RequesterStepOf, ReqInitSem, ReqWrite, ReqPass, ReqRead, ReqExit, parentVars
  <2>2. QED
    BY <2>1 DEF DoneInv
<1>4. ASSUME NEW c \in Req, CalculatorStepOf(c) PROVE \A k \in Req : rpc'[k] = "gone"
  <2>1. ppc' = ppc /\ rpc' = rpc
    BY <1>4 DEF CalculatorStepOf, CalcSets, CalcInitSem, GetReq, CalcRead, CalcWrite, CalcPut, CalcExit,
                parentVars, reqVars
  <2>2. QED
    BY <2>1 DEF DoneInv
<1>5. QED
  BY <1>1, <1>2, <1>3, <1>4, Steps

LEMMA Waited == MCSpec => []DoneInv
<1>1. MCInit => DoneInv
  BY DEF MCInit, Init, DoneInv
<1>2. QED
  BY <1>1, DoneStep, Invariant, PTL DEF MCSpec

-----------------------------------------------------------------------------
(* Every variable of the three programs keeps its type: every pipe holds   *)
(* whole words, no semaphore falls below zero, and no calculating child    *)
(* serves more requests than there are (parent_child2.c:158-192).          *)
THEOREM TypeCorrect == MCSpec => []TypeOK
<1>1. Inv => TypeOK
  <2> SUFFICES ASSUME Inv PROVE TypeOK
    OBVIOUS
  <2>1. Types /\ ParentInv /\ ReqInv /\ \A c \in Req : CalcInv(c)
    BY DEF Inv, CalcSide
  <2>2. \A k \in Req : Result(k) \in Words /\ <<Result(k)>> \in Seq(Words) /\ Data(k) \in Seq(Words)
    <3>1. ASSUME NEW k \in Req PROVE Result(k) \in Words
      BY DEF Result, Words
    <3>2. 3 \in Nat
      OBVIOUS
    <3>3. ASSUME NEW k \in Req PROVE Data(k) \in Seq(Words)
      BY <3>2, DataWords, Written
    <3>4. QED
      BY <3>1, <3>3
  <2>3. <<>> \in Seq(Words) /\ Datas \subseteq Seq(Words) /\ Results \subseteq Seq(Words)
    <3>1. <<>> \in Seq(Words) /\ Datas \subseteq Seq(Words)
      BY <2>2 DEF Datas
    <3>2. ASSUME NEW v \in Results PROVE v \in Seq(Words)
      <4>1. PICK k \in Req : v = <<Result(k)>>
        BY ResultFacts
      <4>2. QED
        BY <2>2, <4>1
    <3>3. QED
      BY <3>1, <3>2
  <2>4. i \in Req /\ Kid \in Req
    BY <2>1, ReqFacts DEF Types, Kid
  <2>5. calcPipe \in Seq(Words)
    BY <2>1, <2>2, <2>3, <2>4 DEF ParentInv
  <2>6. reqPipe \in Seq(Words)
    <3>1. CASE ppc \in Asks
      BY <2>1, <2>2, <2>3, <2>4, <3>1 DEF ReqInv, AskInv
    <3>2. CASE ppc \notin Asks
      <4>1. reqPipe \in Seq({Result(k) : k \in Req}) /\ {Result(k) : k \in Req} \subseteq Words
        BY <2>1, <2>2, <3>2 DEF ReqInv, TakeInv
      <4>2. QED
        BY <4>1
    <3>3. QED
      BY <3>1, <3>2
  <2>7. \A c \in Req : served[c] \in 0..N
    <3>1. SUFFICES ASSUME NEW c \in Req PROVE served[c] \in 0..N
      OBVIOUS
    <3>2. Before \in 0..N /\ Before + 1 \in 0..N
      BY <2>4, ReqFacts DEF Before
    <3>3. served[c] \in {0, Before, Before + 1, N, 1}
      BY <2>1 DEF CalcInv
    <3>4. QED
      BY <3>2, <3>3, ReqFacts
  <2>8. served \in [Req -> 0..N]
    BY <2>1, <2>7 DEF Types
  <2>9. QED
    BY <2>1, <2>3, <2>5, <2>6, <2>8 DEF Types, SemTypes, TypeOK
<1>2. QED
  BY <1>1, Invariant, PTL

(* Though both pipes carry messages in both directions, nobody reads back  *)
(* what it has written itself, or half of a message: the parent and the    *)
(* calculating children read whole requests, the parent and the requesting *)
(* children results (parent_child1.c:104-107, 141-149, 177-181).           *)
THEOREM MessagesWhole == MCSpec => []WholeMessages
<1>1. Inv => WholeMessages
  BY DEF Inv, Types, Datas, WholeMessages
<1>2. QED
  BY <1>1, Invariant, PTL

(* No two children read the result of one request, and when the parent has *)
(* waited for them (parent_child1.c:184-197), each result has been read.   *)
THEOREM ReadOnce == MCSpec => []EachOnce
<1>1. Inv /\ DoneInv => EachOnce
  <2> SUFFICES ASSUME Inv, DoneInv PROVE EachOnce
    OBVIOUS
  <2>1. \A k, m \in Req : rgot[k] = rgot[m] /\ rgot[k] # <<>> => k = m
    BY DEF Inv, ReqInv, AskInv, TakeInv
  <2>2. ASSUME ppc = "done" PROVE {rgot[k] : k \in Req} = Results
    <3>1. Types /\ TakeInv
      BY <2>2 DEF Inv, ReqInv, Asks
    <3>2. \A k \in Req : \E r \in 1..Low : rgot[k] = <<Result(r)>>
      BY <2>2, <3>1 DEF DoneInv, TakeInv
    <3>3. Readers = Req
      BY <3>2, ResultFacts DEF Readers
    <3>4. Cardinality(1..N) = N
      <4>1. 1 \in Int /\ N \in Int /\ 1 <= N
        BY ReqFacts
      <4>2. Cardinality(1..N) = N - 1 + 1
        BY <4>1, FS_Interval
      <4>3. QED
        BY <4>1, <4>2
    <3>5. 1..Low = Req
      BY <3>1, <3>3, <3>4, ReqFacts DEF TakeInv
    <3>6. \A r \in Req : \E k \in Req : rgot[k] = <<Result(r)>>
      BY <3>1, <3>5 DEF TakeInv
    <3>7. \A r : r \in Req <=> r \in 1..Low
      BY <3>5
    <3>8. ASSUME NEW k \in Req PROVE rgot[k] \in Results
      <4>1. PICK r \in 1..Low : rgot[k] = <<Result(r)>>
        BY <3>2
      <4>2. r \in Req
        BY <3>7
      <4>3. QED
        BY <4>1, <4>2, ResultFacts
    <3>9. ASSUME NEW v \in Results PROVE \E k \in Req : rgot[k] = v
      <4>1. PICK r \in Req : v = <<Result(r)>>
        BY ResultFacts
      <4>2. QED
        BY <3>6, <4>1
    <3>10. QED
      BY <3>8, <3>9
  <2>3. QED
    BY <2>1, <2>2 DEF EachOnce
<1>2. QED
  BY <1>1, Invariant, Waited, PTL

-----------------------------------------------------------------------------
(* pipe/pipe1 - pipe3, which the same specification steps.                 *)

ParentP == <<"parent", 0>>
PipePcs == {"fork", "readReq", "passReq", "forkCalc", "writeReq", "readRes", "writeRes", "reap", "done",
            "none", "write", "read", "compute", "gone"}

-----------------------------------------------------------------------------
(* pipe/pipe1 and pipe/pipe2.                                              *)

Asker(k)    == <<"req", k>>     \* the children
Computer(k) == <<"calc", k>>
Nothing     == <<Pipes12!Noise, Pipes12!Noise, Pipes12!Noise>>

Pipe12Types ==
    /\ pc \in [Pipes12!Procs -> PipePcs] /\ left \in [Pipes12!Procs -> Nat] /\ j \in Req
    /\ DOMAIN pipe = Pipes12!AllPipes
    /\ op \in [Pipes12!Children -> {<<>>} \cup {Data(k) : k \in Req}]
    /\ DOMAIN d = Req /\ DOMAIN got = Req

\* In the first loop one request at a time is in a pipe.  In pipe1 the clients
\* that have written theirs are asleep.
AskLoop ==
    /\ pc[ParentP] \in {"fork", "readReq"}
    /\ \A k \in Req : /\ d[k] = (IF k < j THEN Data(k) ELSE Nothing) /\ got[k] = <<>>
                      /\ pc[Computer(k)] = "none"
                      /\ k < j => pc[Asker(k)] = "read"
                      /\ k > j \/ (k = j /\ pc[ParentP] = "fork") => pc[Asker(k)] = "none"
                      /\ program = "pipe1" /\ pc[Asker(k)] = "read" => left[Asker(k)] > 0
    /\ pc[ParentP] = "readReq" => pc[Asker(j)] \in {"write", "read"}
    /\ \A q \in Pipes12!AllPipes :
          pipe[q] = IF q = Pipes12!Pipe("reqOp", j) /\ pc[ParentP] = "readReq" /\ pc[Asker(j)] = "read"
                    THEN Data(j) ELSE <<>>

CalcPipes == {<<"calc", 0>>} \cup ({"calcOp", "calcRes"} \X Req)

\* How many results the parent has passed back.
Passed == IF pc[ParentP] \in {"reap", "done"} THEN N ELSE j - 1

\* In the second the pipes of the calculating children hold the request or the
\* result of this round, and the parent of pipe1 does not wake up before its
\* result is there.
CalcLoop ==
    /\ pc[ParentP] \in {"forkCalc", "writeReq", "readRes", "writeRes", "reap", "done"}
    /\ \A k \in Req : /\ d[k] = Data(k) /\ pc[Asker(k)] \in {"read", "gone"}
                      /\ k <= Passed => pc[Computer(k)] = "gone"
                      /\ k > j => pc[Computer(k)] = IF k <= Passed THEN "gone" ELSE "none"
    /\ pc[ParentP] = "forkCalc" => pc[Computer(j)] = "none"
    /\ pc[ParentP] = "writeReq" => pc[Computer(j)] = "read"
    /\ pc[ParentP] = "writeRes" => pc[Computer(j)] = "gone" /\ dat = <<Result(j)>>
    /\ pc[ParentP] = "readRes" => /\ pc[Computer(j)] \in {"read", "compute", "gone"}
                                  /\ pc[Computer(j)] = "compute" => op[Computer(j)] = Data(j)
                                  /\ program = "pipe1" /\ pc[Computer(j)] # "gone" => left[ParentP] > 0
    /\ \A q \in CalcPipes :
          pipe[q] = IF pc[ParentP] = "readRes" /\ pc[Computer(j)] = "read" /\ q = Pipes12!Pipe("calcOp", j)
                    THEN Data(j)
                    ELSE IF pc[ParentP] = "readRes" /\ pc[Computer(j)] = "gone" /\ q = Pipes12!Pipe("calcRes", j)
                    THEN <<Result(j)>> ELSE <<>>

\* What has been passed back: in pipe2 to the client that asked, in pipe1 to
\* whoever reads it, once.
Back2 == \A k \in Req :
    /\ k > Passed => pc[Asker(k)] = "read"
    /\ got[k] = IF pc[Asker(k)] = "gone" THEN <<Result(k)>> ELSE <<>>
    /\ pipe[<<"reqRes", k>>] = IF k <= Passed /\ pc[Asker(k)] = "read" THEN <<Result(k)>> ELSE <<>>

Shared == pipe[<<"req", 0>>]
Back1 ==
    /\ Shared \in Seq({Result(m) : m \in Req})
    /\ \A n \in 1..Len(Shared) : \E m \in 1..Passed : Shared[n] = Result(m)
    /\ \A m, n \in 1..Len(Shared) : Shared[m] = Shared[n] => m = n
    /\ \A k \in Req : got[k] \in {<<>>} \cup {<<Result(m)>> : m \in 1..Passed}
    /\ \A k \in Req : \A n \in 1..Len(Shared) : got[k] # <<Shared[n]>>
    /\ \A k, r \in Req : got[k] = got[r] /\ got[k] # <<>> => k = r
    /\ \A k \in Req : pc[Asker(k)] = "read" => got[k] = <<>>

Pipe12Inv ==
    program \in {"pipe1", "pipe2"} =>
    /\ Pipe12Types
    /\ AskLoop \/ (CalcLoop /\ IF program = "pipe1" THEN Back1 ELSE Back2)

-----------------------------------------------------------------------------
LEMMA OneWord == \A w : <<>> \o <<w>> = <<w>>
<1>1. \A w : <<w>> \in Seq({w})
  OBVIOUS
<1>2. QED
  BY <1>1, ConcatEmptySeq

LEMMA Same12 ==
    /\ Pipes12!Req = Req /\ Pipes12!Parent = ParentP
    /\ \A k : /\ Pipes12!Data(k) = Data(k)
              /\ Pipes12!ReqP(k) = Asker(k) /\ Pipes12!CalcP(k) = Computer(k)
    /\ \A x : Pipes12!Computed(x) = Computed(x)
    /\ \A x, n : Pipes12!Taken(x, n) = Taken(x, n) /\ Pipes12!Rest(x, n) = Rest(x, n)
BY DEF Pipes12!Req, Req, Pipes12!Parent, ParentP, Pipes12!Data, Data, Pipes12!ReqP, Asker, Pipes12!CalcP, Computer,
       Pipes12!Computed, Computed, Pipes12!Taken, Taken, Pipes12!Rest, Rest

LEMMA Procs12 ==
    /\ Pipes12!Procs = Pipes12!Children \cup {ParentP} /\ ParentP \notin Pipes12!Children
    /\ Pipes12!Children = {Asker(k) : k \in Req} \cup {Computer(k) : k \in Req}
    /\ \A k \in Req : /\ Asker(k) \in Pipes12!Children /\ Computer(k) \in Pipes12!Children
                      /\ Asker(k) # ParentP /\ Computer(k) # ParentP
    /\ \A k, m \in Req : Asker(k) = Asker(m) => k = m
    /\ \A k, m \in Req : Computer(k) = Computer(m) => k = m
    /\ \A k, m \in Req : Asker(k) # Computer(m)
BY Same12 DEF Pipes12!Procs, Pipes12!Children, Asker, Computer, ParentP

\* Which pipe is for what.
LEMMA Names12 ==
    /\ program = "pipe1" => \A k \in Req :
          /\ Pipes12!Pipe("reqOp", k) = <<"req", 0>> /\ Pipes12!Pipe("reqRes", k) = <<"req", 0>>
          /\ Pipes12!Pipe("calcOp", k) = <<"calc", 0>> /\ Pipes12!Pipe("calcRes", k) = <<"calc", 0>>
    /\ program = "pipe2" => \A k \in Req :
          /\ Pipes12!Pipe("reqOp", k) = <<"reqOp", k>> /\ Pipes12!Pipe("reqRes", k) = <<"reqRes", k>>
          /\ Pipes12!Pipe("calcOp", k) = <<"calcOp", k>> /\ Pipes12!Pipe("calcRes", k) = <<"calcRes", k>>
    /\ CalcPipes \subseteq Pipes12!AllPipes
    /\ <<"req", 0>> \in Pipes12!AllPipes \ CalcPipes
    /\ \A k \in Req : /\ <<"reqOp", k>> \in Pipes12!AllPipes \ CalcPipes
                      /\ <<"reqRes", k>> \in Pipes12!AllPipes \ CalcPipes
                      /\ <<"calcOp", k>> \in CalcPipes /\ <<"calcRes", k>> \in CalcPipes
    /\ <<"calc", 0>> \in CalcPipes
<1>1. \A k \in Req : {<<"reqOp", k>>, <<"reqRes", k>>, <<"calcOp", k>>, <<"calcRes", k>>} \subseteq Pipes12!AllPipes
  BY Same12 DEF Pipes12!AllPipes, Pipes12!Kinds
<1>2. CalcPipes \subseteq Pipes12!AllPipes
  <2>1. <<"calc", 0>> \in Pipes12!AllPipes
    BY DEF Pipes12!AllPipes
  <2>2. \A q \in CalcPipes : q = <<"calc", 0>> \/ \E k \in Req : q = <<"calcOp", k>> \/ q = <<"calcRes", k>>
    BY DEF CalcPipes
  <2>3. QED
    BY <1>1, <2>1, <2>2
<1>3. <<"req", 0>> \in Pipes12!AllPipes \ CalcPipes /\ <<"calc", 0>> \in CalcPipes
  BY DEF CalcPipes, Pipes12!AllPipes
<1>4. ASSUME NEW k \in Req
      PROVE  /\ <<"reqOp", k>> \in Pipes12!AllPipes \ CalcPipes
             /\ <<"reqRes", k>> \in Pipes12!AllPipes \ CalcPipes
             /\ <<"calcOp", k>> \in CalcPipes /\ <<"calcRes", k>> \in CalcPipes
  BY <1>1, <1>4 DEF CalcPipes
<1>5. CASE program = "pipe1"
  BY <1>2, <1>3, <1>4, <1>5 DEF Pipes12!Pipe
<1>6. CASE program = "pipe2"
  BY <1>2, <1>3, <1>4, <1>6 DEF Pipes12!Pipe
<1>7. QED
  BY <1>2, <1>3, <1>4, <1>5, <1>6

LEMMA Kinds12 ==
    ASSUME program \in {"pipe1", "pipe2"}, NEW k \in Req
    PROVE  /\ Pipes12!Pipe("reqOp", k) \in Pipes12!AllPipes \ CalcPipes
           /\ Pipes12!Pipe("reqRes", k) \in Pipes12!AllPipes \ CalcPipes
           /\ Pipes12!Pipe("calcOp", k) \in CalcPipes /\ Pipes12!Pipe("calcRes", k) \in CalcPipes
           /\ program = "pipe2" => /\ Pipes12!Pipe("reqOp", k) # Pipes12!Pipe("reqRes", k)
                                   /\ Pipes12!Pipe("calcOp", k) # Pipes12!Pipe("calcRes", k)
           /\ program' = program => \A kind : Pipes12!Pipe(kind, k)' = Pipes12!Pipe(kind, k)
BY Names12 DEF Pipes12!Pipe

LEMMA Init12 == MCInit => Pipe12Inv
<1> SUFFICES ASSUME MCInit, program \in {"pipe1", "pipe2"} PROVE Pipe12Types /\ AskLoop
  BY DEF Pipe12Inv
<1> USE Same12, Procs12
<1>1. /\ pipe = [q \in Pipes12!AllPipes |-> <<>>]
      /\ pc = [p \in Pipes12!Procs |-> IF p = ParentP THEN "fork" ELSE "none"]
      /\ left = [p \in Pipes12!Procs |-> 0] /\ j = 1
      /\ d = [k \in Req |-> Nothing] /\ op = [p \in Pipes12!Children |-> <<>>]
      /\ got = [k \in Req |-> <<>>]
  BY DEF MCInit, Pipes12!Init, Nothing
<1>2. N \in Nat \ {0} /\ Req = 1..N
  BY ConstantsAssumption DEF Req
<1>3. Pipe12Types
  BY <1>1, <1>2 DEF Pipe12Types, PipePcs
<1>4. pc[ParentP] = "fork" /\ \A k \in Req : pc[Asker(k)] = "none" /\ pc[Computer(k)] = "none"
  BY <1>1
<1>5. \A k \in Req : ~(k < j) /\ d[k] = Nothing /\ got[k] = <<>>
  BY <1>1, <1>2
<1>6. QED
  BY <1>1, <1>3, <1>4, <1>5 DEF AskLoop

-----------------------------------------------------------------------------
(* The first loop.                                                         *)

LEMMA ForkReq12 ==
    ASSUME Pipe12Inv, program \in {"pipe1", "pipe2"}, program' = program, Pipes12!ForkReq
    PROVE  Pipe12Inv'
<1> USE Procs12
<1>1. /\ pc[ParentP] = "fork" /\ pc' = [pc EXCEPT ![ParentP] = "readReq", ![Asker(j)] = "write"]
      /\ UNCHANGED <<pipe, left, j, d, dat, op, got>>
  BY Same12 DEF Pipes12!ForkReq
<1>2. Pipe12Types /\ AskLoop /\ N \in Nat /\ Req = 1..N
  BY <1>1, ConstantsAssumption DEF Pipe12Inv, CalcLoop, Req
<1>3. /\ pc'[ParentP] = "readReq" /\ pc'[Asker(j)] = "write" /\ Pipe12Types'
      /\ \A k \in Req : k # j => pc'[Asker(k)] = pc[Asker(k)]
      /\ \A k \in Req : pc'[Computer(k)] = pc[Computer(k)]
  BY <1>1, <1>2 DEF Pipe12Types, PipePcs
<1>4. AskLoop'
  <2>1. \A q \in Pipes12!AllPipes : pipe'[q] = <<>>
    BY <1>1, <1>2 DEF AskLoop
  <2>2. \A k \in Req : /\ d'[k] = (IF k < j' THEN Data(k) ELSE Nothing) /\ got'[k] = <<>>
                       /\ pc'[Computer(k)] = "none"
                       /\ k < j' => pc'[Asker(k)] = "read"
                       /\ k > j' => pc'[Asker(k)] = "none"
                       /\ program = "pipe1" /\ pc'[Asker(k)] = "read" => left'[Asker(k)] > 0
    BY <1>1, <1>2, <1>3 DEF AskLoop, Pipe12Types
  <2>3. QED
    BY <1>1, <1>3, <2>1, <2>2 DEF AskLoop
<1>5. QED
  BY <1>3, <1>4 DEF Pipe12Inv

LEMMA ReqWrite12 ==
    ASSUME Pipe12Inv, program \in {"pipe1", "pipe2"}, program' = program, NEW k \in Req, Pipes12!ReqWrite(k)
    PROVE  Pipe12Inv'
<1> USE Procs12
<1>1. /\ pc[Asker(k)] = "write" /\ pc' = [pc EXCEPT ![Asker(k)] = "read"]
      /\ pipe' = [pipe EXCEPT ![Pipes12!Pipe("reqOp", k)] = @ \o Data(k)]
      /\ left' = [left EXCEPT ![Asker(k)] = IF program = "pipe1" THEN 3 ELSE 0]
      /\ UNCHANGED <<j, d, dat, op, got>>
  BY Same12 DEF Pipes12!ReqWrite, Pipes12!Write, Pipes12!Sleep, Pipes12!Goto
<1>2. N \in Nat /\ Req = 1..N /\ Pipe12Types /\ AskLoop
  BY <1>1, ConstantsAssumption DEF Pipe12Inv, CalcLoop, Req
<1>3. k = j /\ pc[ParentP] = "readReq"
  BY <1>1, <1>2 DEF AskLoop, Pipe12Types
<1>4. /\ pc'[ParentP] = "readReq" /\ pc'[Asker(j)] = "read" /\ Pipe12Types'
      /\ \A m \in Req : m # j => pc'[Asker(m)] = pc[Asker(m)] /\ left'[Asker(m)] = left[Asker(m)]
      /\ \A m \in Req : pc'[Computer(m)] = pc[Computer(m)]
      /\ program = "pipe1" => left'[Asker(j)] = 3
  BY <1>1, <1>2, <1>3 DEF Pipe12Types, PipePcs
<1>5. \A q \in Pipes12!AllPipes : pipe'[q] = IF q = Pipes12!Pipe("reqOp", j) THEN Data(j) ELSE <<>>
  <2>1. \A q \in Pipes12!AllPipes : pipe[q] = <<>>
    BY <1>1, <1>2, <1>3 DEF AskLoop
  <2>2. <<>> \o Data(j) = Data(j)
    BY <1>3, PipeRead
  <2>3. QED
    BY <1>1, <1>2, <1>3, <2>1, <2>2, Kinds12 DEF Pipe12Types
<1>6. AskLoop'
  <2>1. \A m \in Req : /\ d'[m] = (IF m < j' THEN Data(m) ELSE Nothing) /\ got'[m] = <<>>
                       /\ pc'[Computer(m)] = "none"
                       /\ m < j' => pc'[Asker(m)] = "read"
                       /\ m > j' => pc'[Asker(m)] = "none"
                       /\ program = "pipe1" /\ pc'[Asker(m)] = "read" => left'[Asker(m)] > 0
    BY <1>1, <1>2, <1>3, <1>4 DEF AskLoop, Pipe12Types
  <2>2. Pipes12!Pipe("reqOp", j)' = Pipes12!Pipe("reqOp", j)
    BY <1>1, <1>3, Kinds12 DEF Pipes12!Pipe
  <2>3. QED
    BY <1>1, <1>4, <1>5, <2>1, <2>2 DEF AskLoop
<1>7. QED
  BY <1>4, <1>6 DEF Pipe12Inv

LEMMA ReadReq12 ==
    ASSUME Pipe12Inv, program \in {"pipe1", "pipe2"}, program' = program, Pipes12!ReadReq("fork", "forkCalc")
    PROVE  Pipe12Inv'
<1> USE Procs12
<1>1. /\ pc[ParentP] = "readReq" /\ UNCHANGED <<left, dat, op, got>>
      /\ pipe[Pipes12!Pipe("reqOp", j)] # <<>>
      /\ pipe' = [pipe EXCEPT ![Pipes12!Pipe("reqOp", j)] = Rest(@, 3)]
      /\ d' = [d EXCEPT ![j] = Pipes12!Filled(@, Taken(pipe[Pipes12!Pipe("reqOp", j)], 3))]
      /\ IF j = N THEN j' = 1 /\ pc' = [pc EXCEPT ![ParentP] = "forkCalc"]
         ELSE j' = j + 1 /\ pc' = [pc EXCEPT ![ParentP] = "fork"]
  BY Same12 DEF Pipes12!ReadReq, Pipes12!Read, Pipes12!FirstOf, Pipes12!NextRound, Pipes12!Goto
<1>2. N \in Nat \ {0} /\ Req = 1..N /\ Pipe12Types /\ AskLoop
  BY <1>1, ConstantsAssumption DEF Pipe12Inv, CalcLoop, Req
<1>3. j \in Req /\ Pipes12!Pipe("reqOp", j) \in Pipes12!AllPipes
  BY <1>2, Kinds12 DEF Pipe12Types
<1>4. pc[Asker(j)] = "read" /\ pipe[Pipes12!Pipe("reqOp", j)] = Data(j)
  BY <1>1, <1>2, <1>3 DEF AskLoop
<1>5. \A q \in Pipes12!AllPipes : pipe'[q] = <<>>
  BY <1>1, <1>2, <1>3, <1>4, PipeRead DEF AskLoop, Pipe12Types
<1>6. d' = [d EXCEPT ![j] = Data(j)]
  <2>1. \A x : Pipes12!Filled(x, Data(j)) = Data(j)
    BY DEF Pipes12!Filled, Data
  <2>2. QED
    BY <1>1, <1>3, <1>4, <2>1, PipeRead
<1>7. Pipe12Types' /\ \A p \in Pipes12!Children : pc'[p] = pc[p]
  <2>1. j' \in Req
    BY <1>1, <1>2, <1>3
  <2>2. pc' \in [Pipes12!Procs -> PipePcs] /\ \A p \in Pipes12!Children : pc'[p] = pc[p]
    BY <1>1, <1>2 DEF Pipe12Types, PipePcs
  <2>3. QED
    BY <1>1, <1>2, <1>6, <2>1, <2>2 DEF Pipe12Types
<1>8. \A m \in Req : /\ d'[m] = (IF m <= j THEN Data(m) ELSE Nothing) /\ got'[m] = <<>>
                     /\ pc'[Computer(m)] = "none"
                     /\ m <= j => pc'[Asker(m)] = "read"
                     /\ m > j => pc'[Asker(m)] = "none"
                     /\ program = "pipe1" /\ pc'[Asker(m)] = "read" => left'[Asker(m)] > 0
  BY <1>1, <1>2, <1>3, <1>4, <1>6, <1>7 DEF AskLoop, Pipe12Types
<1>9. CASE j = N
  <2>1. j' = 1 /\ pc'[ParentP] = "forkCalc" /\ Passed' = 0
    BY <1>1, <1>2, <1>9 DEF Pipe12Types, Passed
  <2>2. CalcLoop'
    <3>1. \A q \in CalcPipes : pipe'[q] = <<>>
      BY <1>5, Names12
    <3>2. CalcPipes' = CalcPipes
      BY DEF CalcPipes
    <3>3. QED
      BY <1>2, <1>3, <1>8, <1>9, <2>1, <3>1, <3>2 DEF CalcLoop
  <2>3. program = "pipe1" => Back1'
    <3>1. Shared' = <<>> /\ Len(<<>>) = 0 /\ <<>> \in Seq({Result(m) : m \in 1..0})
      BY <1>5, Names12 DEF Shared
    <3>2. \A k \in Req : got'[k] = <<>>
      BY <1>8
    <3>3. QED
      BY <2>1, <3>1, <3>2 DEF Back1
  <2>4. program = "pipe2" => Back2'
    <3>1. \A k \in Req : pipe'[<<"reqRes", k>>] = <<>>
      BY <1>5, Names12
    <3>2. \A k \in Req : got'[k] = <<>> /\ pc'[Asker(k)] = "read" /\ ~(k <= Passed')
      BY <1>2, <1>8, <1>9, <2>1
    <3>3. QED
      BY <3>1, <3>2 DEF Back2
  <2>5. QED
    BY <1>7, <2>2, <2>3, <2>4 DEF Pipe12Inv
<1>10. CASE j # N
  <2>1. j' = j + 1 /\ pc'[ParentP] = "fork" /\ \A m \in Req : (m < j' <=> m <= j) /\ (m >= j' <=> m > j)
    BY <1>1, <1>2, <1>3, <1>10 DEF Pipe12Types
  <2>2. AskLoop'
    <3>1. \A m \in Req : /\ d'[m] = (IF m < j' THEN Data(m) ELSE Nothing) /\ got'[m] = <<>>
                         /\ pc'[Computer(m)] = "none"
                         /\ m < j' => pc'[Asker(m)] = "read"
                         /\ m > j' \/ m = j' => pc'[Asker(m)] = "none"
                         /\ program = "pipe1" /\ pc'[Asker(m)] = "read" => left'[Asker(m)] > 0
      BY <1>2, <1>3, <1>8, <2>1
    <3>2. QED
      BY <1>5, <2>1, <3>1 DEF AskLoop
  <2>3. QED
    BY <1>7, <2>2 DEF Pipe12Inv
<1>11. QED
  BY <1>9, <1>10
-----------------------------------------------------------------------------
(* The second loop.                                                        *)

LEMMA Second12 ==
    ASSUME Pipe12Inv, program \in {"pipe1", "pipe2"},
           pc[ParentP] \notin {"fork", "readReq"} \/ \E k \in Req : pc[Computer(k)] # "none"
    PROVE  /\ Pipe12Types /\ CalcLoop /\ IF program = "pipe1" THEN Back1 ELSE Back2
           /\ N \in Nat \ {0} /\ Req = 1..N /\ j \in Req
BY ConstantsAssumption DEF Pipe12Inv, AskLoop, Req, Pipe12Types

\* Steps of a round do not touch what has been passed back.
LEMMA BackKept ==
    ASSUME IF program = "pipe1" THEN Back1 ELSE Back2, program' = program, Passed' = Passed, got' = got,
           \A q \in Pipes12!AllPipes \ CalcPipes : pipe'[q] = pipe[q],
           \A k \in Req : pc'[Asker(k)] = pc[Asker(k)]
    PROVE  (IF program = "pipe1" THEN Back1 ELSE Back2)'
<1>1. CASE program = "pipe1"
  <2>1. Shared' = Shared
    BY Names12 DEF Shared
  <2>2. QED
    BY <1>1, <2>1 DEF Back1
<1>2. CASE program # "pipe1"
  BY <1>2, Names12 DEF Back2
<1>3. QED
  BY <1>1, <1>2

LEMMA ForkCalc12 ==
    ASSUME Pipe12Inv, program \in {"pipe1", "pipe2"}, program' = program, Pipes12!ForkCalc("writeReq")
    PROVE  Pipe12Inv'
<1> USE Procs12
<1>1. /\ pc[ParentP] = "forkCalc" /\ UNCHANGED <<pipe, left, j, d, dat, op, got>>
      /\ \E l \in IF d[j][3].part = 3 THEN {"read"} ELSE {"read", "gone"} :
            pc' = [pc EXCEPT ![ParentP] = "writeReq", ![Computer(j)] = l]
  BY Same12 DEF Pipes12!ForkCalc
<1>2. /\ Pipe12Types /\ CalcLoop /\ IF program = "pipe1" THEN Back1 ELSE Back2
      /\ N \in Nat \ {0} /\ Req = 1..N /\ j \in Req
  BY <1>1, Second12
<1>3. pc' = [pc EXCEPT ![ParentP] = "writeReq", ![Computer(j)] = "read"]
  <2>1. d[j][3].part = 3
    BY <1>2 DEF CalcLoop, Data
  <2>2. QED
    BY <1>1, <2>1
<1>4. /\ pc'[ParentP] = "writeReq" /\ pc'[Computer(j)] = "read" /\ Pipe12Types' /\ Passed' = Passed
      /\ \A k \in Req : pc'[Asker(k)] = pc[Asker(k)] /\ (k # j => pc'[Computer(k)] = pc[Computer(k)])
  BY <1>1, <1>2, <1>3 DEF Pipe12Types, PipePcs, Passed
<1>5. CalcLoop'
  <2>1. \A q \in CalcPipes : pipe'[q] = <<>>
    BY <1>1, <1>2 DEF CalcLoop
  <2>2. \A k \in Req : k <= Passed => k # j
    BY <1>1, <1>2 DEF Passed
  <2>3. CalcPipes' = CalcPipes
    BY DEF CalcPipes
  <2>4. QED
    <3>1. \A k \in Req : /\ d'[k] = Data(k) /\ pc'[Asker(k)] \in {"read", "gone"}
                         /\ k <= Passed => pc'[Computer(k)] = "gone"
                         /\ k > j => pc'[Computer(k)] = IF k <= Passed THEN "gone" ELSE "none"
      <4>1. ASSUME NEW k \in Req
            PROVE  /\ d[k] = Data(k) /\ pc[Asker(k)] \in {"read", "gone"}
                   /\ k <= Passed => pc[Computer(k)] = "gone"
                   /\ k > j => pc[Computer(k)] = IF k <= Passed THEN "gone" ELSE "none"
        BY <1>2 DEF CalcLoop
      <4>2. \A k \in Req : k > j => k # j
        BY <1>2
      <4>3. QED
        BY <1>1, <1>4, <2>2, <4>1, <4>2
    <3>2. QED
      BY <1>1, <1>4, <2>1, <2>3, <3>1 DEF CalcLoop
<1>6. QED
  BY <1>1, <1>2, <1>4, <1>5, BackKept DEF Pipe12Inv

LEMMA WriteReq12 ==
    ASSUME Pipe12Inv, program \in {"pipe1", "pipe2"}, program' = program, Pipes12!WriteReq
    PROVE  Pipe12Inv'
<1> USE Procs12
<1>1. /\ pc[ParentP] = "writeReq" /\ UNCHANGED <<j, d, dat, op, got>>
      /\ pc' = [pc EXCEPT ![ParentP] = "readRes"]
      /\ pipe' = [pipe EXCEPT ![Pipes12!Pipe("calcOp", j)] = @ \o d[j]]
      /\ left' = [left EXCEPT ![ParentP] = IF program = "pipe1" THEN 1 ELSE 0]
  BY Same12 DEF Pipes12!WriteReq, Pipes12!Write, Pipes12!Sleep, Pipes12!Goto
<1>2. /\ Pipe12Types /\ CalcLoop /\ IF program = "pipe1" THEN Back1 ELSE Back2
      /\ N \in Nat \ {0} /\ Req = 1..N /\ j \in Req
  BY <1>1, Second12
<1>3. /\ pc'[ParentP] = "readRes" /\ Pipe12Types' /\ Passed' = Passed
      /\ \A p \in Pipes12!Children : pc'[p] = pc[p]
      /\ program = "pipe1" => left'[ParentP] = 1
  BY <1>1, <1>2 DEF Pipe12Types, PipePcs, Passed
<1>4. /\ \A q \in CalcPipes : pipe'[q] = IF q = Pipes12!Pipe("calcOp", j) THEN Data(j) ELSE <<>>
      /\ \A q \in Pipes12!AllPipes \ CalcPipes : pipe'[q] = pipe[q]
  <2>1. (\A q \in CalcPipes : pipe[q] = <<>>) /\ d[j] = Data(j)
    BY <1>1, <1>2 DEF CalcLoop
  <2>2. <<>> \o Data(j) = Data(j)
    BY <1>2, PipeRead
  <2>3. Pipes12!Pipe("calcOp", j) \in CalcPipes /\ CalcPipes \subseteq Pipes12!AllPipes
    BY <1>2, Kinds12, Names12
  <2>4. QED
    BY <1>1, <1>2, <2>1, <2>2, <2>3 DEF Pipe12Types
<1>5. CalcLoop'
  <2>1. pc[Computer(j)] = "read"
    BY <1>1, <1>2 DEF CalcLoop
  <2>2. CalcPipes' = CalcPipes /\ Pipes12!Pipe("calcOp", j)' = Pipes12!Pipe("calcOp", j)
    BY <1>1, <1>2, Kinds12 DEF CalcPipes, Pipes12!Pipe
  <2>3. QED
    BY <1>1, <1>2, <1>3, <1>4, <2>1, <2>2 DEF CalcLoop
<1>6. QED
  BY <1>1, <1>2, <1>3, <1>4, <1>5, BackKept DEF Pipe12Inv

LEMMA CalcRead12 ==
    ASSUME Pipe12Inv, program \in {"pipe1", "pipe2"}, program' = program, NEW k \in Req,
           Pipes12!CalcRead(Computer(k), "read")
    PROVE  Pipe12Inv'
<1> USE Procs12
<1>1. /\ pc[Computer(k)] = "read" /\ UNCHANGED <<left, j, d, dat, got>>
      /\ pc' = [pc EXCEPT ![Computer(k)] = "compute"]
      /\ pipe[Pipes12!Pipe("calcOp", k)] # <<>>
      /\ pipe' = [pipe EXCEPT ![Pipes12!Pipe("calcOp", k)] = Rest(@, 3)]
      /\ op' = [op EXCEPT ![Computer(k)] = Taken(pipe[Pipes12!Pipe("calcOp", k)], 3)]
  BY Same12 DEF Pipes12!CalcRead, Pipes12!Read, Pipes12!FirstOf, Pipes12!Goto, Computer
<1>2. /\ Pipe12Types /\ CalcLoop /\ IF program = "pipe1" THEN Back1 ELSE Back2
      /\ N \in Nat \ {0} /\ Req = 1..N /\ j \in Req
  BY <1>1, Second12
<1>3. k = j /\ pc[ParentP] = "readRes" /\ pipe[Pipes12!Pipe("calcOp", j)] = Data(j)
  <2>1. ~(k <= Passed)
    BY <1>1, <1>2 DEF CalcLoop
  <2>2. k <= j
    BY <1>1, <1>2, <2>1 DEF CalcLoop
  <2>3. k = j
    BY <1>2, <2>1, <2>2 DEF Passed
  <2>4. Pipes12!Pipe("calcOp", j) \in CalcPipes
    BY <1>2, Kinds12
  <2>5. QED
    BY <1>1, <1>2, <2>3, <2>4 DEF CalcLoop
<1>4. /\ pc'[ParentP] = "readRes" /\ pc'[Computer(j)] = "compute" /\ Passed' = Passed
      /\ \A m \in Req : pc'[Asker(m)] = pc[Asker(m)] /\ (m # j => pc'[Computer(m)] = pc[Computer(m)])
      /\ op'[Computer(j)] = Data(j) /\ Pipe12Types'
  <2>1. Taken(Data(j), 3) = Data(j)
    BY <1>2, PipeRead
  <2>2. QED
    BY <1>1, <1>2, <1>3, <2>1 DEF Pipe12Types, PipePcs, Passed
<1>5. /\ \A q \in CalcPipes : pipe'[q] = <<>>
      /\ \A q \in Pipes12!AllPipes \ CalcPipes : pipe'[q] = pipe[q]
  <2>1. Rest(Data(j), 3) = <<>>
    BY <1>2, PipeRead
  <2>2. Pipes12!Pipe("calcOp", j) \in CalcPipes /\ CalcPipes \subseteq Pipes12!AllPipes
    BY <1>2, Kinds12, Names12
  <2>3. \A q \in CalcPipes : q # Pipes12!Pipe("calcOp", j) => pipe[q] = <<>>
    BY <1>1, <1>2, <1>3 DEF CalcLoop
  <2>4. QED
    BY <1>1, <1>2, <1>3, <2>1, <2>2, <2>3 DEF Pipe12Types
<1>6. CalcLoop'
  <2>1. CalcPipes' = CalcPipes
    BY DEF CalcPipes
  <2>2. program = "pipe1" => left'[ParentP] > 0
    BY <1>1, <1>2, <1>3 DEF CalcLoop
  <2>3. QED
    BY <1>1, <1>2, <1>3, <1>4, <1>5, <2>1, <2>2 DEF CalcLoop
<1>7. QED
  BY <1>1, <1>2, <1>4, <1>5, <1>6, BackKept DEF Pipe12Inv

LEMMA CalcWrite12 ==
    ASSUME Pipe12Inv, program \in {"pipe1", "pipe2"}, program' = program, NEW k \in Req,
           Pipes12!CalcWrite(Computer(k))
    PROVE  Pipe12Inv'
<1> USE Procs12
<1>1. /\ pc[Computer(k)] = "compute" /\ UNCHANGED <<left, j, d, dat, op, got>>
      /\ pc' = [pc EXCEPT ![Computer(k)] = "gone"]
      /\ pipe' = [pipe EXCEPT ![Pipes12!Pipe("calcRes", k)] = @ \o <<Computed(op[Computer(k)])>>]
  BY Same12 DEF Pipes12!CalcWrite, Pipes12!Write, Pipes12!Goto, Computer
<1>2. /\ Pipe12Types /\ CalcLoop /\ IF program = "pipe1" THEN Back1 ELSE Back2
      /\ N \in Nat \ {0} /\ Req = 1..N /\ j \in Req
  BY <1>1, Second12
<1>3. k = j /\ pc[ParentP] = "readRes" /\ op[Computer(j)] = Data(j)
  <2>1. ~(k <= Passed)
    BY <1>1, <1>2 DEF CalcLoop
  <2>2. k <= j
    BY <1>1, <1>2, <2>1 DEF CalcLoop
  <2>3. k = j
    BY <1>2, <2>1, <2>2 DEF Passed
  <2>4. QED
    BY <1>1, <1>2, <2>1, <2>3 DEF CalcLoop, Passed
<1>4. /\ pc'[ParentP] = "readRes" /\ pc'[Computer(j)] = "gone" /\ Passed' = Passed /\ Pipe12Types'
      /\ \A m \in Req : pc'[Asker(m)] = pc[Asker(m)] /\ (m # j => pc'[Computer(m)] = pc[Computer(m)])
  BY <1>1, <1>2, <1>3 DEF Pipe12Types, PipePcs, Passed
<1>5. /\ \A q \in CalcPipes : pipe'[q] = IF q = Pipes12!Pipe("calcRes", j) THEN <<Result(j)>> ELSE <<>>
      /\ \A q \in Pipes12!AllPipes \ CalcPipes : pipe'[q] = pipe[q]
  <2>1. \A q \in CalcPipes : pipe[q] = <<>>
    BY <1>1, <1>2, <1>3 DEF CalcLoop
  <2>2. <<>> \o <<Result(j)>> = <<Result(j)>> /\ Computed(Data(j)) = Result(j)
    BY <1>2, DataResult, OneWord DEF Result
  <2>3. Pipes12!Pipe("calcRes", j) \in CalcPipes /\ CalcPipes \subseteq Pipes12!AllPipes
    BY <1>2, Kinds12, Names12
  <2>4. QED
    BY <1>1, <1>2, <1>3, <2>1, <2>2, <2>3 DEF Pipe12Types
<1>6. CalcLoop'
  <2>1. CalcPipes' = CalcPipes /\ Pipes12!Pipe("calcRes", j)' = Pipes12!Pipe("calcRes", j)
    BY <1>1, <1>2, Kinds12 DEF CalcPipes, Pipes12!Pipe
  <2>2. QED
    BY <1>1, <1>2, <1>3, <1>4, <1>5, <2>1 DEF CalcLoop
<1>7. QED
  BY <1>1, <1>2, <1>4, <1>5, <1>6, BackKept DEF Pipe12Inv
LEMMA ReadRes12 ==
    ASSUME Pipe12Inv, program \in {"pipe1", "pipe2"}, program' = program, Pipes12!ReadRes("writeRes")
    PROVE  Pipe12Inv'
<1> USE Procs12
<1>1. /\ pc[ParentP] = "readRes" /\ left[ParentP] = 0 /\ UNCHANGED <<left, j, d, op, got>>
      /\ pc' = [pc EXCEPT ![ParentP] = "writeRes"]
      /\ pipe[Pipes12!Pipe("calcRes", j)] # <<>>
      /\ pipe' = [pipe EXCEPT ![Pipes12!Pipe("calcRes", j)] = Rest(@, 1)]
      /\ dat' = Taken(pipe[Pipes12!Pipe("calcRes", j)], 1)
  BY Same12 DEF Pipes12!ReadRes, Pipes12!Read, Pipes12!FirstOf, Pipes12!Goto
<1>2. /\ Pipe12Types /\ CalcLoop /\ IF program = "pipe1" THEN Back1 ELSE Back2
      /\ N \in Nat \ {0} /\ Req = 1..N /\ j \in Req
  BY <1>1, Second12
<1>3. Pipes12!Pipe("calcRes", j) \in CalcPipes /\ CalcPipes \subseteq Pipes12!AllPipes
  BY <1>2, Kinds12, Names12
<1>4. pc[Computer(j)] = "gone"
  <2>1. CASE program = "pipe1"
    BY <1>1, <1>2, <2>1 DEF CalcLoop
  <2>2. CASE program = "pipe2"
    <3>1. Pipes12!Pipe("calcRes", j) # Pipes12!Pipe("calcOp", j)
      BY <1>2, <2>2, Kinds12
    <3>2. QED
      BY <1>1, <1>2, <1>3, <3>1 DEF CalcLoop
  <2>3. QED
    BY <2>1, <2>2
<1>5. pipe[Pipes12!Pipe("calcRes", j)] = <<Result(j)>>
  BY <1>1, <1>2, <1>3, <1>4 DEF CalcLoop
<1>6. /\ pc'[ParentP] = "writeRes" /\ Passed' = Passed /\ Pipe12Types'
      /\ \A p \in Pipes12!Children : pc'[p] = pc[p]
  BY <1>1, <1>2 DEF Pipe12Types, PipePcs, Passed
<1>7. /\ \A q \in CalcPipes : pipe'[q] = <<>>
      /\ \A q \in Pipes12!AllPipes \ CalcPipes : pipe'[q] = pipe[q]
      /\ dat' = <<Result(j)>>
  <2>1. Rest(<<Result(j)>>, 1) = <<>> /\ Taken(<<Result(j)>>, 1) = <<Result(j)>>
    BY PipeRead
  <2>2. \A q \in CalcPipes : q # Pipes12!Pipe("calcRes", j) => pipe[q] = <<>>
    BY <1>1, <1>2, <1>4 DEF CalcLoop
  <2>3. QED
    BY <1>1, <1>2, <1>3, <1>5, <2>1, <2>2 DEF Pipe12Types
<1>8. CalcLoop'
  <2>1. CalcPipes' = CalcPipes /\ Result(j)' = Result(j)
    BY <1>1 DEF CalcPipes, Result
  <2>2. QED
    BY <1>1, <1>2, <1>4, <1>6, <1>7, <2>1 DEF CalcLoop
<1>9. QED
  BY <1>1, <1>2, <1>6, <1>7, <1>8, BackKept DEF Pipe12Inv

\* The result goes to the client that asked, or to the pipe of all.
LEMMA WriteRes12 ==
    ASSUME Pipe12Inv, program \in {"pipe1", "pipe2"}, program' = program, Pipes12!WriteRes
    PROVE  Pipe12Inv'
<1> USE Procs12
<1>1. /\ pc[ParentP] = "writeRes" /\ UNCHANGED <<left, d, dat, op, got>>
      /\ pipe' = [pipe EXCEPT ![Pipes12!Pipe("reqRes", j)] = @ \o dat]
      /\ IF j = N THEN j' = 1 /\ pc' = [pc EXCEPT ![ParentP] = "reap"]
         ELSE j' = j + 1 /\ pc' = [pc EXCEPT ![ParentP] = "forkCalc"]
  BY Same12 DEF Pipes12!WriteRes, Pipes12!Write, Pipes12!NextRound, Pipes12!Goto
<1>2. /\ Pipe12Types /\ CalcLoop /\ IF program = "pipe1" THEN Back1 ELSE Back2
      /\ N \in Nat \ {0} /\ Req = 1..N /\ j \in Req
  BY <1>1, Second12
<1>3. dat = <<Result(j)>> /\ pc[Computer(j)] = "gone" /\ \A q \in CalcPipes : pipe[q] = <<>>
  BY <1>1, <1>2 DEF CalcLoop
<1>4. Pipes12!Pipe("reqRes", j) \in Pipes12!AllPipes \ CalcPipes /\ CalcPipes \subseteq Pipes12!AllPipes
  BY <1>2, Kinds12, Names12
<1>5. /\ Pipe12Types' /\ \A p \in Pipes12!Children : pc'[p] = pc[p]
      /\ pc'[ParentP] = (IF j = N THEN "reap" ELSE "forkCalc") /\ j' = IF j = N THEN 1 ELSE j + 1
  <2>1. j' \in Req
    BY <1>1, <1>2
  <2>2. QED
    BY <1>1, <1>2, <2>1 DEF Pipe12Types, PipePcs
<1>6. Passed = j - 1 /\ Passed' = j
  BY <1>1, <1>2, <1>5 DEF Passed
<1>7. /\ \A q \in CalcPipes : pipe'[q] = <<>>
      /\ \A q \in Pipes12!AllPipes : q # Pipes12!Pipe("reqRes", j) => pipe'[q] = pipe[q]
      /\ pipe'[Pipes12!Pipe("reqRes", j)] = pipe[Pipes12!Pipe("reqRes", j)] \o <<Result(j)>>
  BY <1>1, <1>2, <1>3, <1>4 DEF Pipe12Types
<1>8. CalcLoop'
  <2>1. CalcPipes' = CalcPipes
    BY DEF CalcPipes
  <2>2. ASSUME NEW k \in Req
        PROVE  /\ d'[k] = Data(k) /\ pc'[Asker(k)] \in {"read", "gone"}
               /\ k <= Passed' => pc'[Computer(k)] = "gone"
               /\ k > j' => pc'[Computer(k)] = IF k <= Passed' THEN "gone" ELSE "none"
    <3>1. /\ d[k] = Data(k) /\ pc[Asker(k)] \in {"read", "gone"}
          /\ k <= Passed => pc[Computer(k)] = "gone"
          /\ k > j => pc[Computer(k)] = IF k <= Passed THEN "gone" ELSE "none"
      BY <1>2 DEF CalcLoop
    <3>2. pc'[Computer(k)] = pc[Computer(k)] /\ pc'[Asker(k)] = pc[Asker(k)]
      BY <1>5
    <3>3. (k <= Passed' <=> k <= Passed \/ k = j) /\ (k > j' => k > j \/ k <= Passed')
      BY <1>2, <1>5, <1>6
    <3>4. k <= Passed' => pc'[Computer(k)] = "gone"
      BY <1>3, <3>1, <3>2, <3>3
    <3>5. k > j' /\ ~(k <= Passed') => pc'[Computer(k)] = "none"
      BY <3>1, <3>2, <3>3
    <3>6. QED
      BY <1>1, <3>1, <3>2, <3>4, <3>5
  <2>3. pc'[ParentP] = "forkCalc" => pc'[Computer(j')] = "none"
    <3>1. ASSUME j # N PROVE j + 1 \in Req /\ j + 1 > j /\ ~(j + 1 <= Passed)
      BY <1>2, <1>6, <3>1
    <3>2. j # N => pc[Computer(j + 1)] = "none"
      BY <1>2, <3>1 DEF CalcLoop
    <3>3. QED
      BY <1>5, <3>1, <3>2
  <2>4. QED
    BY <1>5, <1>7, <2>1, <2>2, <2>3 DEF CalcLoop
<1>9. program = "pipe2" => Back2'
  <2> SUFFICES ASSUME program = "pipe2", NEW k \in Req
               PROVE  /\ got'[k] = IF pc'[Asker(k)] = "gone" THEN <<Result(k)>> ELSE <<>>
                      /\ pipe'[<<"reqRes", k>>] = IF k <= Passed' /\ pc'[Asker(k)] = "read" THEN <<Result(k)>>
                                                 ELSE <<>>
                      /\ k > Passed' => pc'[Asker(k)] = "read"
    BY DEF Back2
  <2>1. Back2 /\ pc'[Asker(k)] = pc[Asker(k)] /\ pc[Asker(k)] \in {"read", "gone"}
    BY <1>2, <1>5 DEF CalcLoop
  <2>2. <<"reqRes", k>> \in Pipes12!AllPipes /\ Pipes12!Pipe("reqRes", j) = <<"reqRes", j>>
    BY <1>2, Names12
  <2>3. CASE k # j
    BY <1>1, <1>2, <1>6, <1>7, <2>1, <2>2, <2>3 DEF Back2
  <2>4. CASE k = j
    <3>1. pc[Asker(j)] = "read" /\ pipe[<<"reqRes", j>>] = <<>> /\ got[j] = <<>>
      <4>1. j > Passed /\ ~(j <= Passed)
        BY <1>2, <1>6
      <4>2. QED
        BY <1>2, <2>1, <4>1 DEF Back2
    <3>2. k <= Passed' /\ ~(k > Passed')
      BY <1>2, <1>6, <2>4
    <3>3. pipe'[<<"reqRes", k>>] = <<Result(k)>>
      BY <1>7, <2>2, <2>4, <3>1, OneWord
    <3>4. got'[k] = <<>> /\ pc'[Asker(k)] = "read"
      BY <1>1, <2>1, <2>4, <3>1
    <3>5. QED
      BY <3>2, <3>3, <3>4
  <2>5. QED
    BY <2>3, <2>4
<1>10. program = "pipe1" => Back1'
  <2> SUFFICES ASSUME program = "pipe1" PROVE Back1'
    OBVIOUS
  <2> DEFINE S == {Result(m) : m \in Req}
  <2>1. Back1 /\ \A k \in Req : pc'[Asker(k)] = pc[Asker(k)]
    BY <1>2, <1>5
  <2>2. Shared' = Shared \o <<Result(j)>>
    BY <1>2, <1>4, <1>7, Names12 DEF Shared
  <2>3. Shared \in Seq(S) /\ <<Result(j)>> \in Seq(S) /\ Len(<<Result(j)>>) = 1 /\ Len(Shared) \in Nat
    <3>1. Shared \in Seq(S)
      BY <2>1 DEF Back1
    <3>2. Result(j) \in S
      BY <1>2
    <3>3. QED
      BY <3>1, <3>2
  <2>4. /\ Shared' \in Seq(S) /\ Len(Shared') = Len(Shared) + 1 /\ Shared'[Len(Shared) + 1] = Result(j)
        /\ \A n \in 1..Len(Shared) : Shared'[n] = Shared[n]
    BY <2>2, <2>3, ConcatProperties
  <2>5. \A n \in 1..Len(Shared) : Shared[n] # Result(j)
    <3>1. \A n \in 1..Len(Shared) : \E m \in 1..Passed : Shared[n] = Result(m)
      BY <2>1 DEF Back1
    <3>2. \A m \in 1..Passed : Result(m) # Result(j)
      BY <1>2, <1>6 DEF Result
    <3>3. QED
      BY <3>1, <3>2
  <2>6. \A k \in Req : got[k] # <<Result(j)>>
    <3>1. \A k \in Req : got[k] = <<>> \/ \E m \in 1..Passed : got[k] = <<Result(m)>>
      BY <2>1 DEF Back1
    <3>2. \A m \in 1..Passed : <<Result(m)>> # <<Result(j)>>
      BY <1>2, <1>6 DEF Result
    <3>3. <<Result(j)>> # <<>>
      OBVIOUS
    <3>4. QED
      BY <3>1, <3>2, <3>3
  <2>7. \A m \in 1..Passed : m \in 1..j
    BY <1>2, <1>6
  <2>8. \A n \in 1..Len(Shared') : \E m \in 1..j : Shared'[n] = Result(m)
    <3>1. ASSUME NEW n \in 1..Len(Shared') PROVE \E m \in 1..j : Shared'[n] = Result(m)
      <4>1. CASE n \in 1..Len(Shared)
        BY <2>1, <2>4, <2>7, <4>1 DEF Back1
      <4>2. CASE n = Len(Shared) + 1
        <5>1. j \in 1..j
          BY <1>2
        <5>2. QED
          BY <2>4, <4>2, <5>1
      <4>3. QED
        BY <2>3, <2>4, <4>1, <4>2
    <3>2. QED
      BY <3>1
  <2>9. \A m, n \in 1..Len(Shared') : Shared'[m] = Shared'[n] => m = n
    <3>1. \A n \in 1..Len(Shared') : n \in 1..Len(Shared) \/ n = Len(Shared) + 1
      BY <2>3, <2>4
    <3>2. \A m, n \in 1..Len(Shared) : Shared[m] = Shared[n] => m = n
      BY <2>1 DEF Back1
    <3>3. QED
      BY <2>4, <2>5, <3>1, <3>2
  <2>10. \A k \in Req : got'[k] \in {<<>>} \cup {<<Result(m)>> : m \in 1..j}
    BY <1>1, <2>1, <2>7 DEF Back1
  <2>11. \A k \in Req : \A n \in 1..Len(Shared') : got'[k] # <<Shared'[n]>>
    <3>1. \A n \in 1..Len(Shared') : n \in 1..Len(Shared) \/ n = Len(Shared) + 1
      BY <2>3, <2>4
    <3>2. \A k \in Req : \A n \in 1..Len(Shared) : got[k] # <<Shared[n]>>
      BY <2>1 DEF Back1
    <3>3. QED
      BY <1>1, <2>4, <2>6, <3>1, <3>2
  <2>12. {<<Result(m)>> : m \in 1..j} = {<<Result(m)>> : m \in 1..Passed}'
    BY <1>6 DEF Result
  <2>13. /\ \A k, r \in Req : got'[k] = got'[r] /\ got'[k] # <<>> => k = r
         /\ \A k \in Req : pc'[Asker(k)] = "read" => got'[k] = <<>>
    BY <1>1, <2>1 DEF Back1
  <2>14. QED
    BY <1>6, <2>4, <2>8, <2>9, <2>10, <2>11, <2>12, <2>13 DEF Back1, Result
<1>11. QED
  BY <1>5, <1>8, <1>9, <1>10 DEF Pipe12Inv

LEMMA Reap12 ==
    ASSUME Pipe12Inv, program \in {"pipe1", "pipe2"}, program' = program, NEW n, Pipes12!Reap(n)
    PROVE  Pipe12Inv'
<1> USE Procs12
<1>1. /\ pc[ParentP] = "reap" /\ pc' = [pc EXCEPT ![ParentP] = "done"]
      /\ UNCHANGED <<pipe, left, j, d, dat, op, got>>
  BY Same12 DEF Pipes12!Reap, Pipes12!Goto
<1>2. /\ Pipe12Types /\ CalcLoop /\ IF program = "pipe1" THEN Back1 ELSE Back2
      /\ N \in Nat \ {0} /\ Req = 1..N /\ j \in Req
  BY <1>1, Second12
<1>3. /\ pc'[ParentP] = "done" /\ Passed' = Passed /\ Pipe12Types'
      /\ \A p \in Pipes12!Children : pc'[p] = pc[p]
  BY <1>1, <1>2 DEF Pipe12Types, PipePcs, Passed
<1>4. CalcLoop'
  <2>1. CalcPipes' = CalcPipes
    BY DEF CalcPipes
  <2>2. QED
    BY <1>1, <1>2, <1>3, <2>1 DEF CalcLoop
<1>5. QED
  BY <1>1, <1>2, <1>3, <1>4, BackKept DEF Pipe12Inv

\* A requesting client reads a result, in pipe1 the first that is there.
LEMMA ReqRead12 ==
    ASSUME Pipe12Inv, program \in {"pipe1", "pipe2"}, program' = program, NEW k \in Req, Pipes12!ReqRead(k)
    PROVE  Pipe12Inv'
<1> USE Procs12
<1>1. /\ pc[Asker(k)] = "read" /\ left[Asker(k)] = 0 /\ UNCHANGED <<left, j, d, dat, op>>
      /\ pc' = [pc EXCEPT ![Asker(k)] = "gone"]
      /\ pipe[Pipes12!Pipe("reqRes", k)] # <<>>
      /\ pipe' = [pipe EXCEPT ![Pipes12!Pipe("reqRes", k)] = Rest(@, 1)]
      /\ got' = [got EXCEPT ![k] = Taken(pipe[Pipes12!Pipe("reqRes", k)], 1)]
  BY Same12 DEF Pipes12!ReqRead, Pipes12!Read, Pipes12!FirstOf, Pipes12!Goto
<1>2. Pipes12!Pipe("reqRes", k) \in Pipes12!AllPipes \ CalcPipes /\ CalcPipes \subseteq Pipes12!AllPipes
  BY Kinds12, Names12
<1>3. ~AskLoop
  <2>1. CASE program = "pipe1"
    BY <1>1, <2>1 DEF AskLoop
  <2>2. CASE program = "pipe2" /\ AskLoop
    <3>1. j \in Req
      BY DEF Pipe12Inv, Pipe12Types
    <3>2. Pipes12!Pipe("reqRes", k) # Pipes12!Pipe("reqOp", j)
      BY <2>2, <3>1, Names12
    <3>3. QED
      BY <1>1, <1>2, <2>2, <3>2 DEF AskLoop
  <2>3. QED
    BY <2>1, <2>2
<1>4. /\ Pipe12Types /\ CalcLoop /\ IF program = "pipe1" THEN Back1 ELSE Back2
      /\ N \in Nat \ {0} /\ Req = 1..N /\ j \in Req
  BY <1>3, Second12 DEF Pipe12Inv, CalcLoop
<1>5. /\ pc'[ParentP] = pc[ParentP] /\ Passed' = Passed /\ Pipe12Types' /\ pc'[Asker(k)] = "gone"
      /\ \A m \in Req : pc'[Computer(m)] = pc[Computer(m)] /\ (m # k => pc'[Asker(m)] = pc[Asker(m)])
  BY <1>1, <1>4 DEF Pipe12Types, PipePcs, Passed
<1>6. /\ \A q \in Pipes12!AllPipes : q # Pipes12!Pipe("reqRes", k) => pipe'[q] = pipe[q]
      /\ pipe'[Pipes12!Pipe("reqRes", k)] = Rest(pipe[Pipes12!Pipe("reqRes", k)], 1)
      /\ got'[k] = Taken(pipe[Pipes12!Pipe("reqRes", k)], 1) /\ \A m \in Req : m # k => got'[m] = got[m]
  BY <1>1, <1>2, <1>4 DEF Pipe12Types
<1>7. CalcLoop'
  <2>1. CalcPipes' = CalcPipes /\ Pipes12!Pipe("calcOp", j)' = Pipes12!Pipe("calcOp", j)
        /\ Pipes12!Pipe("calcRes", j)' = Pipes12!Pipe("calcRes", j)
    BY <1>1, <1>4, Kinds12 DEF CalcPipes, Pipes12!Pipe
  <2>2. \A q \in CalcPipes : pipe'[q] = pipe[q]
    BY <1>2, <1>6
  <2>3. QED
    BY <1>1, <1>4, <1>5, <2>1, <2>2 DEF CalcLoop
<1>8. program = "pipe2" => Back2'
  <2>1. ASSUME program = "pipe2"
        PROVE  /\ got'[k] = <<Result(k)>> /\ pipe'[<<"reqRes", k>>] = <<>> /\ ~(k > Passed)
               /\ \A m \in Req : m # k => pipe'[<<"reqRes", m>>] = pipe[<<"reqRes", m>>]
    <3>1. Back2 /\ Pipes12!Pipe("reqRes", k) = <<"reqRes", k>>
      BY <1>4, <2>1, Names12
    <3>2. pipe[<<"reqRes", k>>] = <<Result(k)>> /\ k <= Passed
      BY <1>1, <3>1 DEF Back2
    <3>3. k <= Passed => ~(k > Passed)
      BY <1>4 DEF Passed
    <3>4. QED
      <4>1. got'[k] = <<Result(k)>> /\ pipe'[<<"reqRes", k>>] = <<>>
        <5>1. Taken(<<Result(k)>>, 1) = <<Result(k)>> /\ Rest(<<Result(k)>>, 1) = <<>>
          BY PipeRead
        <5>2. QED
          BY <1>6, <3>1, <3>2, <5>1
      <4>2. ASSUME NEW m \in Req, m # k PROVE pipe'[<<"reqRes", m>>] = pipe[<<"reqRes", m>>]
        <5>1. <<"reqRes", m>> \in Pipes12!AllPipes /\ <<"reqRes", m>> # <<"reqRes", k>>
          BY <4>2, Names12
        <5>2. QED
          BY <1>6, <3>1, <5>1
      <4>3. QED
        BY <3>2, <3>3, <4>1, <4>2
  <2>2. ASSUME program = "pipe2", NEW m \in Req
        PROVE  /\ m > Passed' => pc'[Asker(m)] = "read"
               /\ got'[m] = IF pc'[Asker(m)] = "gone" THEN <<Result(m)>> ELSE <<>>
               /\ pipe'[<<"reqRes", m>>] = IF m <= Passed' /\ pc'[Asker(m)] = "read" THEN <<Result(m)>> ELSE <<>>
    <3>1. Back2
      BY <1>4, <2>2
    <3>2. CASE m = k
      BY <1>5, <2>1, <2>2, <3>2
    <3>3. CASE m # k
      BY <1>5, <1>6, <2>1, <2>2, <3>1, <3>3 DEF Back2
    <3>4. QED
      BY <3>2, <3>3
  <2>3. QED
    BY <2>2 DEF Back2, Result
<1>9. program = "pipe1" => Back1'
  <2> SUFFICES ASSUME program = "pipe1" PROVE Back1'
    OBVIOUS
  <2> DEFINE S == {Result(m) : m \in Req}
  <2>1. Back1 /\ Pipes12!Pipe("reqRes", k) = <<"req", 0>>
    BY <1>4, Names12
  <2>2. Shared \in Seq(S) /\ Shared # <<>> /\ got[k] = <<>>
    BY <1>1, <2>1 DEF Back1, Shared
  <2>3. Shared' = Rest(Shared, 1) /\ got'[k] = Taken(Shared, 1)
    BY <1>6, <2>1 DEF Shared
  <2>4. /\ Len(Shared) \in Nat \ {0} /\ got'[k] = <<Shared[1]>> /\ Shared[1] \in S
        /\ Shared' \in Seq(S) /\ Len(Shared') = Len(Shared) - 1
        /\ \A n \in 1..Len(Shared') : Shared'[n] = Shared[n + 1]
    <3>1. Len(Shared) \in Nat \ {0}
      BY <2>2, EmptySeq
    <3>2. QED
      BY <2>2, <2>3, <3>1, FirstWord
  <2>5. \A n \in 1..Len(Shared') : n + 1 \in 1..Len(Shared) /\ n + 1 # 1
    BY <2>4
  <2>6. \A m, n \in 1..Len(Shared') : Shared'[m] = Shared'[n] => m = n
    <3>1. ASSUME NEW m \in 1..Len(Shared'), NEW n \in 1..Len(Shared'), Shared'[m] = Shared'[n] PROVE m = n
      <4>1. m + 1 = n + 1
        BY <2>1, <2>4, <2>5, <3>1 DEF Back1
      <4>2. QED
        BY <4>1, <2>4
    <3>2. QED
      BY <3>1
  <2>7. \A m \in Req : \A n \in 1..Len(Shared') : got'[m] # <<Shared'[n]>>
    <3>1. ASSUME NEW m \in Req, NEW n \in 1..Len(Shared') PROVE got'[m] # <<Shared'[n]>>
      <4>1. Shared'[n] = Shared[n + 1] /\ n + 1 \in 1..Len(Shared) /\ n + 1 # 1 /\ 1 \in 1..Len(Shared)
        BY <2>4, <2>5
      <4>2. CASE m = k
        <5>1. Shared[1] # Shared[n + 1]
          BY <2>1, <4>1 DEF Back1
        <5>2. QED
          BY <2>4, <4>1, <4>2, <5>1
      <4>3. CASE m # k
        BY <1>6, <2>1, <4>1, <4>3 DEF Back1
      <4>4. QED
        BY <4>2, <4>3
    <3>2. QED
      BY <3>1
  <2>8. \A m \in Req : got'[m] \in {<<>>} \cup {<<Result(r)>> : r \in 1..Passed}
    <3>1. PICK r \in 1..Passed : Shared[1] = Result(r)
      BY <2>1, <2>4 DEF Back1
    <3>2. got'[k] \in {<<Result(x)>> : x \in 1..Passed}
      BY <2>4, <3>1
    <3>3. QED
      BY <1>6, <2>1, <3>2 DEF Back1
  <2>9. \A m, r \in Req : got'[m] = got'[r] /\ got'[m] # <<>> => m = r
    <3>1. 1 \in 1..Len(Shared) /\ \A m \in Req : got[m] # <<Shared[1]>>
      BY <2>1, <2>4 DEF Back1
    <3>2. QED
      BY <1>6, <2>1, <2>4, <3>1 DEF Back1
  <2>10. \A m \in Req : pc'[Asker(m)] = "read" => got'[m] = <<>>
    BY <1>5, <1>6, <2>1 DEF Back1
  <2>11. S' = S /\ {<<Result(r)>> : r \in 1..Passed}' = {<<Result(r)>> : r \in 1..Passed}
    BY <1>5 DEF Result
  <2>12. \A n \in 1..Len(Shared') : \E r \in 1..Passed : Shared'[n] = Result(r)
    BY <2>1, <2>4, <2>5 DEF Back1
  <2>13. QED
    BY <1>5, <2>4, <2>6, <2>7, <2>8, <2>9, <2>10, <2>11, <2>12 DEF Back1, Result
<1>10. QED
  BY <1>4, <1>5, <1>7, <1>8, <1>9 DEF Pipe12Inv

\* Time goes on only when the result is there that the parent sleeps for.
LEMMA Tick12 ==
    ASSUME Pipe12Inv, program = "pipe1", program' = program, Pipes12!Tick
    PROVE  Pipe12Inv'
<1> USE Procs12
<1>1. /\ left' = [p \in Pipes12!Procs |-> IF left[p] > 0 THEN left[p] - 1 ELSE 0] /\ ~Pipes12!Busy
      /\ UNCHANGED <<pipe, pc, j, d, dat, op, got>>
  BY DEF Pipes12!Tick
<1>2. /\ pc[ParentP] \notin {"fork", "forkCalc", "writeReq", "writeRes"}
      /\ pc[ParentP] = "readReq" => pipe[Pipes12!Pipe("reqOp", j)] = <<>>
      /\ \A k \in Req : /\ pc[Asker(k)] # "write" /\ pc[Computer(k)] # "compute"
                        /\ pc[Computer(k)] = "read" => pipe[Pipes12!Pipe("calcOp", k)] = <<>>
  BY <1>1, Same12 DEF Pipes12!Busy, Pipes12!Ready
<1>3. j \in Req
  BY DEF Pipe12Inv, Pipe12Types
<1>10. /\ pc[Asker(j)] # "write" /\ pc[Computer(j)] # "compute"
       /\ pc[Computer(j)] = "read" => pipe[Pipes12!Pipe("calcOp", j)] = <<>>
  BY ONLY <1>2, <1>3
<1>4. ~AskLoop
  <2>1. SUFFICES ASSUME AskLoop PROVE FALSE
    OBVIOUS
  <2>2. pc[ParentP] = "readReq" /\ pc[Asker(j)] = "read"
    <3>1. pc[ParentP] \in {"fork", "readReq"} /\ (pc[ParentP] = "readReq" => pc[Asker(j)] \in {"write", "read"})
      BY <2>1 DEF AskLoop
    <3>2. QED
      BY <1>2, <1>10, <3>1
  <2>3. pipe[Pipes12!Pipe("reqOp", j)] = Data(j)
    BY <1>3, <2>1, <2>2, Kinds12 DEF AskLoop
  <2>4. QED
    BY <1>2, <1>3, <2>2, <2>3, DataWords
<1>5. /\ Pipe12Types /\ CalcLoop /\ IF program = "pipe1" THEN Back1 ELSE Back2
      /\ N \in Nat \ {0} /\ Req = 1..N
  BY <1>4, Second12 DEF Pipe12Inv, CalcLoop
<1>6. pc[ParentP] = "readRes" => pc[Computer(j)] = "gone"
  <2>1. ASSUME pc[ParentP] = "readRes", pc[Computer(j)] = "read" PROVE FALSE
    <3>1. pipe[Pipes12!Pipe("calcOp", j)] = Data(j)
      BY <1>3, <1>5, <2>1, Kinds12 DEF CalcLoop
    <3>2. QED
      <4>1. Data(j) # <<>>
        BY <1>3, DataWords
      <4>2. pipe[Pipes12!Pipe("calcOp", j)] = <<>>
        BY <1>10, <2>1
      <4>3. QED
        BY <3>1, <4>1, <4>2
  <2>2. pc[Computer(j)] # "compute"
    BY <1>10
  <2>3. pc[ParentP] = "readRes" => pc[Computer(j)] \in {"read", "compute", "gone"}
    BY <1>5 DEF CalcLoop
  <2>4. QED
    BY <2>1, <2>2, <2>3
<1>7. Pipe12Types' /\ Passed' = Passed
  <2>1. \A p \in Pipes12!Procs : left[p] \in Nat
    BY <1>5 DEF Pipe12Types
  <2>2. \A n \in Nat : (IF n > 0 THEN n - 1 ELSE 0) \in Nat
    OBVIOUS
  <2>3. left' \in [Pipes12!Procs -> Nat]
    BY <1>1, <2>1, <2>2
  <2>4. QED
    BY <1>1, <1>5, <2>3 DEF Pipe12Types, Passed
<1>8. CalcLoop'
  <2>1. CalcPipes' = CalcPipes /\ Pipes12!Pipe("calcOp", j)' = Pipes12!Pipe("calcOp", j)
        /\ Pipes12!Pipe("calcRes", j)' = Pipes12!Pipe("calcRes", j)
    BY <1>1 DEF CalcPipes, Pipes12!Pipe
  <2>2. QED
    BY <1>1, <1>5, <1>6, <1>7, <2>1 DEF CalcLoop
<1>9. QED
  BY <1>1, <1>5, <1>7, <1>8, BackKept DEF Pipe12Inv

LEMMA Same12Step ==
    ASSUME Pipe12Inv, program \in {"pipe1", "pipe2"}, UNCHANGED pipeVars
    PROVE  Pipe12Inv'
<1>1. UNCHANGED <<program, pipe, pc, left, j, d, dat, op, got>>
  BY DEF pipeVars
<1>2. Passed' = Passed /\ CalcPipes' = CalcPipes /\ \A kind, k : Pipes12!Pipe(kind, k)' = Pipes12!Pipe(kind, k)
  BY <1>1 DEF Passed, CalcPipes, Pipes12!Pipe
<1>3. AskLoop => AskLoop'
  BY <1>1, <1>2 DEF AskLoop, Pipes12!Pipe
<1>4. CalcLoop => CalcLoop'
  BY <1>1, <1>2 DEF CalcLoop, Pipes12!Pipe
<1>5. (Back1 => Back1') /\ (Back2 => Back2')
  BY <1>1, <1>2 DEF Back1, Back2, Shared
<1>6. Pipe12Types => Pipe12Types'
  BY <1>1 DEF Pipe12Types
<1>7. QED
  BY <1>1, <1>3, <1>4, <1>5, <1>6 DEF Pipe12Inv

LEMMA Inv12Step == Pipe12Inv /\ [MCNext]_allVars => Pipe12Inv'
<1> SUFFICES ASSUME Pipe12Inv, [MCNext]_allVars, program' = program, program \in {"pipe1", "pipe2"} PROVE Pipe12Inv'
  BY Steps DEF Pipe12Inv
<1>1. CASE UNCHANGED pipeVars
  BY <1>1, Same12Step
<1>2. CASE Pipes12!Main
  BY <1>2, ForkReq12, ReadReq12, ForkCalc12, WriteReq12, ReadRes12, WriteRes12, Reap12 DEF Pipes12!Main
<1>3. ASSUME NEW k \in Req, Pipes12!Requester(k) PROVE Pipe12Inv'
  BY <1>3, ReqWrite12, ReqRead12 DEF Pipes12!Requester
<1>4. ASSUME NEW k \in Req, Pipes12!Calculator(k) PROVE Pipe12Inv'
  BY <1>4, Same12, CalcRead12, CalcWrite12 DEF Pipes12!Calculator
<1>5. CASE UNCHANGED allVars
  BY <1>1, <1>5 DEF allVars
<1>6. CASE MainStep
  BY <1>1, <1>2, <1>6 DEF MainStep, OfParentChild, OfPipes
<1>7. CASE TickStep
  BY <1>7, Tick12 DEF TickStep, OfPipes
<1>8. ASSUME NEW k \in Req, RequesterStep(k) PROVE Pipe12Inv'
  BY <1>1, <1>3, <1>8 DEF RequesterStep, OfParentChild, OfPipes
<1>9. ASSUME NEW k \in Req, CalculatorStep(k) PROVE Pipe12Inv'
  BY <1>1, <1>4, <1>9 DEF CalculatorStep, OfParentChild, OfPipes
<1>10. QED
  BY <1>5, <1>6, <1>7, <1>8, <1>9 DEF MCNext

\* In pipe1 and pipe2 the parent and the calculating children read whole
\* requests and the clients whole results, no result twice, though in pipe1
\* nothing but sleep keeps the parent from reading back what it has written
\* (pipe1/server.c:61-64); in pipe2 each client reads its own (pipe2/server.c:113).
THEOREM ResultsDelivered == MCSpec => []PipesDeliver
<1>1. Pipe12Inv => PipesDeliver
  <2> SUFFICES ASSUME Pipe12Inv, program \in {"pipe1", "pipe2"} PROVE Pipes12!Delivered
    BY DEF PipesDeliver
  <2> USE Same12
  <2>1. Pipe12Types /\ N \in Nat /\ Req = 1..N
    BY ConstantsAssumption DEF Pipe12Inv, Req
  <2>2. \A p \in Pipes12!Children : op[p] \in {<<>>} \cup {Pipes12!Data(r) : r \in Req}
    BY <2>1 DEF Pipe12Types
  <2>3. \A k \in Req : d[k] \in {Nothing} \cup {Pipes12!Data(r) : r \in Req}
    BY <2>1 DEF Pipe12Inv, AskLoop, CalcLoop
  <2>4. Pipes12!Results = {<<Result(m)>> : m \in Req}
    BY DEF Pipes12!Results, Result
  <2>5. /\ \A k \in Req : got[k] \in {<<>>} \cup {<<Result(m)>> : m \in Req}
        /\ \A k, r \in Req : got[k] = got[r] /\ got[k] # <<>> => k = r
        /\ program = "pipe2" => \A k \in Req : got[k] \in {<<>>, <<Result(k)>>}
    <3>1. CASE AskLoop
      BY <3>1 DEF AskLoop
    <3>2. CASE program = "pipe1" /\ Back1
      <4>1. \A m \in 1..Passed : m \in Req
        BY <2>1 DEF Passed, Pipe12Types
      <4>2. QED
        BY <3>2, <4>1 DEF Back1
    <3>3. CASE program = "pipe2" /\ Back2
      <4>1. \A k, r \in Req : <<Result(k)>> = <<Result(r)>> => k = r
        BY DEF Result
      <4>2. \A k \in Req : got[k] \in {<<>>, <<Result(k)>>}
        BY <3>3 DEF Back2
      <4>3. QED
        BY <3>3, <4>1, <4>2
    <3>4. QED
      BY <3>1, <3>2, <3>3 DEF Pipe12Inv
  <2>6. \A k \in Req : Pipes12!Computed(Pipes12!Data(k)) = Result(k)
    BY DataResult DEF Result
  <2>7. QED
    BY <2>2, <2>3, <2>4, <2>5, <2>6 DEF Pipes12!Delivered, Nothing
<1>2. QED
  BY <1>1, Init12, Inv12Step, PTL DEF MCSpec

-----------------------------------------------------------------------------
(* pipe/pipe3: the requesting child computes as well.                      *)

OnePipe   == <<"calc", 0>>                   \* the pipe of operands and result
ReqKid   == Pipes3!ReqP(1)
CalcKid == Pipes3!CalcP(1)
Kids     == {ReqKid, CalcKid}
Answer   == [of |-> 1, part |-> 0]

Other(x) == IF x = ReqKid THEN CalcKid ELSE ReqKid

Pipe3Types ==
    /\ pc \in [Pipes3!Procs -> PipePcs] /\ DOMAIN pipe = Pipes3!AllPipes
    /\ DOMAIN op = Pipes3!Children /\ DOMAIN d = Req
    /\ j = 1

\* The parent has not yet passed the request on.
Asking3 ==
    /\ pc[ParentP] \in {"fork", "readReq", "passReq"} /\ pc[CalcKid] = "none"
    /\ pc[ParentP] = "fork" => pc[ReqKid] = "none"
    /\ pc[ParentP] = "readReq" => pc[ReqKid] \in {"write", "read"}
    /\ pc[ParentP] = "passReq" => pc[ReqKid] = "read"
    /\ pipe[<<"req", 0>>] = IF pc[ParentP] = "readReq" /\ pc[ReqKid] = "read" THEN Data(1) ELSE <<>>
    /\ pipe[OnePipe] = <<>> /\ dat = <<>>

Waiting == pc[ParentP] \in {"forkCalc", "readRes"} /\ dat = <<>>

\* Nobody has read the operands, or child x has and computes, or has written
\* the result, or the parent has read that and the other child waits.
Unread     == Waiting /\ pipe[OnePipe] = Data(1) /\ \A x \in Kids : pc[x] \in {"none", "read"}
Reading(x) == /\ Waiting /\ pipe[OnePipe] = <<>>
              /\ pc[x] = "compute" /\ op[x] = Data(1) /\ pc[Other(x)] \in {"none", "read"}
Answered(x) == /\ Waiting /\ pipe[OnePipe] = <<Answer>>
              /\ pc[x] = "gone" /\ pc[Other(x)] \in {"none", "read"}
Printed(x) == /\ pc[ParentP] = "reap" /\ dat = <<Answer>> /\ pipe[OnePipe] = <<>>
              /\ pc[x] = "gone" /\ pc[Other(x)] = "read"

\* The other child has read the result, and computes from it; or the parent
\* has read anything else.
Spoilt(x) == /\ Waiting /\ pc[x] = "gone"
             /\ \/ pc[Other(x)] = "compute" /\ op[Other(x)] # Data(1) /\ pipe[OnePipe] = <<>>
                \/ pc[Other(x)] = "gone" /\ \E w : w # Answer /\ pipe[OnePipe] = <<w>>
Wrong     == pc[ParentP] \in {"reap", "done"} /\ dat # <<Answer>>

Pipe3Inv ==
    program = "pipe3" =>
    /\ Pipe3Types
    /\ \A p \in Pipes3!Children \ Kids : pc[p] = "none"
    /\ pc[ParentP] = "forkCalc" => pc[CalcKid] = "none"
    /\ pc[ParentP] \in {"forkCalc", "readRes"} => pc[ReqKid] # "none"
    /\ pc[ParentP] = "readRes" => pc[CalcKid] # "none"
    /\ pc[ParentP] \in {"passReq", "forkCalc"} => d[1] = Data(1)
    /\ \/ Asking3 \/ Unread \/ Wrong
       \/ \E x \in Kids : Reading(x) \/ Answered(x) \/ Printed(x) \/ Spoilt(x)

-----------------------------------------------------------------------------
\* The processes of pipe3: a parent and two children.
LEMMA Kids3 ==
    /\ ParentP # ReqKid /\ ParentP # CalcKid /\ ReqKid # CalcKid
    /\ Kids \subseteq Pipes3!Children /\ Pipes3!Children \subseteq Pipes3!Procs /\ ParentP \in Pipes3!Procs
    /\ ParentP \notin Pipes3!Children
    /\ \A x \in Kids : Other(x) \in Kids /\ Other(x) # x /\ Other(Other(x)) = x
    /\ \A x, y \in Kids : y = x \/ y = Other(x)
    /\ 1 \in Req /\ 1 \in Pipes3!Req
<1>1. 1 \in Req /\ 1 \in Pipes3!Req
  BY ConstantsAssumption DEF Req, Pipes3!Req
<1>2. QED
  BY <1>1 DEF ParentP, ReqKid, CalcKid, Kids, Other, Pipes3!Parent, Pipes3!ReqP, Pipes3!CalcP,
              Pipes3!Children, Pipes3!Procs

\* Which pipe the words go through: one pipe carries operands and results.
LEMMA Pipe3Names ==
    ASSUME program = "pipe3"
    PROVE  /\ \A k : Pipes3!Pipe("reqOp", k) = <<"req", 0>> /\ Pipes3!Pipe("calcOp", k) = OnePipe
           /\ \A k : Pipes3!Pipe("calcRes", k) = OnePipe
           /\ \A k : Pipes12!Pipe("calcOp", k) = OnePipe /\ Pipes12!Pipe("calcRes", k) = OnePipe
           /\ <<"req", 0>> \in Pipes3!AllPipes /\ OnePipe \in Pipes3!AllPipes /\ OnePipe # <<"req", 0>>
BY DEF Pipes3!Pipe, Pipes12!Pipe, OnePipe, Pipes3!AllPipes

\* The words of the request, of its result, and of what is computed from
\* anything else.
LEMMA Words3 ==
    /\ Computed(Data(1)) = Answer /\ Data(1) # <<>> /\ Data(1) # <<Answer>> /\ Data(1)[3].part = 3
    /\ Taken(Data(1), 3) = Data(1) /\ Rest(Data(1), 3) = <<>> /\ Taken(Data(1), 1) # <<Answer>>
    /\ <<>> \o Data(1) = Data(1)
    /\ \A w : /\ Taken(<<w>>, 1) = <<w>> /\ Rest(<<w>>, 1) = <<>> /\ <<w>> # <<>>
              /\ Taken(<<w>>, 3) = <<w>> /\ Rest(<<w>>, 3) = <<>> /\ <<>> \o <<w>> = <<w>>
    /\ \A x : x # Data(1) => Computed(x) # Answer
<1>1. 1 \in Req /\ Data(1) \in Seq(Words)
  <2>1. 1 \in Req
    BY ConstantsAssumption DEF Req
  <2>2. Data(1) \in [1..3 -> Words]
    BY <2>1, DataWords
  <2>3. 3 \in Nat
    OBVIOUS
  <2>4. QED
    BY <2>1, <2>2, <2>3, Written
<1>2. Computed(Data(1)) = Answer /\ Data(1) # <<>>
  BY <1>1, DataResult, DataWords DEF Answer
<1>3. Data(1)[1] = [of |-> 1, part |-> 1] /\ Data(1)[3].part = 3 /\ Data(1)[1].part = 1
  BY DEF Data
<1>4. Taken(Data(1), 1) = <<Data(1)[1]>>
  BY <1>1, <1>2, FirstWord
<1>5. Data(1)[1] # Answer
  BY <1>3 DEF Answer
<1>6. \A w : <<w>> \in Seq({w}) /\ Len(<<w>>) = 1
  OBVIOUS
<1>7. ASSUME NEW w PROVE Taken(<<w>>, 3) = <<w>> /\ Rest(<<w>>, 3) = <<>> /\ <<>> \o <<w>> = <<w>> /\ <<w>> # <<>>
  <2>1. Taken(<<w>>, 3) = SubSeq(<<w>>, 1, Len(<<w>>))
    BY <1>6 DEF Taken
  <2>2. SubSeq(<<w>>, 1, Len(<<w>>)) = <<w>>
    BY <1>6, SubSeqFull
  <2>3. Rest(<<w>>, 3) = SubSeq(<<w>>, 4, 1)
    BY <1>6 DEF Rest
  <2>4. SubSeq(<<w>>, 4, 1) = <<>>
    BY <1>6, SubSeqEmpty
  <2>5. QED
    BY <1>6, <2>1, <2>2, <2>3, <2>4, ConcatEmptySeq
<1>8. ASSUME NEW x, x # Data(1) PROVE Computed(x) # Answer
  <2>1. None # 1 /\ \A k \in Req : Data(k)[1].of = k
    BY <1>1, ConstantsAssumption DEF Data
  <2>2. \A k \in Req : x = Data(k) => x[1].of # 1
    BY <1>8, <2>1
  <2>3. Computed(x).of # 1
    BY <2>1, <2>2 DEF Computed
  <2>4. QED
    BY <2>3 DEF Answer
<1>9. Data(1) # <<Answer>>
  BY <1>3, <1>5
<1>10. QED
  BY <1>1, <1>2, <1>3, <1>4, <1>5, <1>6, <1>7, <1>8, <1>9, PipeRead

-----------------------------------------------------------------------------
LEMMA Counted3 == \A S : Pipes3!Cardinality(S) = Cardinality(S) /\ Pipes12!Cardinality(S) = Cardinality(S)
BY DEF Pipes3!Cardinality, Pipes12!Cardinality, Cardinality

LEMMA Init3 == MCInit => Pipe3Inv
<1> SUFFICES ASSUME MCInit, program = "pipe3" PROVE Pipe3Inv
  BY DEF Pipe3Inv
<1> USE DEF MCInit, Pipes12!Init, Pipes3!Procs, Pipes12!Procs, Pipes3!AllPipes, Pipes12!AllPipes,
            Pipes3!Children, Pipes12!Children, Pipes3!Parent, Pipes12!Parent, Pipes3!Req, Pipes12!Req,
            Pipes3!ReqP, Pipes12!ReqP, Pipes3!CalcP, Pipes12!CalcP, Pipes3!Kinds, Pipes12!Kinds
<1>1. pc \in [Pipes3!Procs -> PipePcs]
  BY DEF PipePcs
<1>2. DOMAIN pipe = Pipes3!AllPipes /\ DOMAIN op = Pipes3!Children
  OBVIOUS
<1>3. DOMAIN d = Req
  BY DEF Req
<1>4. pc[ParentP] = "fork" /\ \A p \in Pipes3!Children : pc[p] = "none"
  BY Kids3 DEF ParentP, Pipes3!Parent
<1>5. pipe[<<"req", 0>>] = <<>> /\ pipe[OnePipe] = <<>> /\ dat = <<>> /\ j = 1
  BY Pipe3Names
<1>6. pc[ReqKid] = "none" /\ pc[CalcKid] = "none"
  BY <1>4, Kids3 DEF Kids
<1>7. QED
  BY <1>1, <1>2, <1>3, <1>4, <1>5, <1>6 DEF Pipe3Inv, Pipe3Types, Asking3

\* A step of the parent.
LEMMA Parent3 ==
    ASSUME Pipe3Inv, program = "pipe3", program' = program, Pipes3!Main3
    PROVE  Pipe3Inv'
<1> DEFINE P == ParentP
<1> USE Kids3, Pipe3Names
<1>0. Pipe3Types /\ pc[P] \in PipePcs
  BY DEF Pipe3Inv, Pipe3Types
<1>1. CASE Pipes3!ForkReq
  <2>1. pc[P] = "fork" /\ pc' = [pc EXCEPT ![P] = "readReq", ![ReqKid] = "write"] /\ UNCHANGED <<pipe, j, d, dat, op>>
    BY <1>0, <1>1 DEF Pipes3!ForkReq, Pipe3Types, ParentP, Pipes3!Parent, ReqKid
  <2>2. Asking3
    BY <2>1 DEF Pipe3Inv, Unread, Wrong, Reading, Answered, Printed, Spoilt, Waiting
  <2>3. /\ Pipe3Types' /\ pc'[P] = "readReq" /\ pc'[ReqKid] = "write" /\ pc'[CalcKid] = pc[CalcKid]
        /\ \A p \in Pipes3!Children \ Kids : pc'[p] = pc[p]
    BY <1>0, <2>1 DEF Pipe3Types, PipePcs, Kids
  <2>7. Asking3'
    BY <2>1, <2>2, <2>3 DEF Asking3
  <2>8. QED
    BY <2>3, <2>7 DEF Pipe3Inv
<1>2. CASE Pipes3!PassReq
  <2>1. /\ pc[P] = "readReq" /\ pc' = [pc EXCEPT ![P] = "passReq"] /\ UNCHANGED <<j, dat, op>>
        /\ pipe[<<"req", 0>>] # <<>>
        /\ pipe' = [pipe EXCEPT ![<<"req", 0>>] = Pipes3!Rest(@, 3)]
        /\ d' = [d EXCEPT ![1] = Pipes3!Filled(@, Pipes3!Taken(pipe[<<"req", 0>>], 3))]
    BY <1>0, <1>2 DEF Pipes3!PassReq, Pipes3!Read, Pipes3!FirstOf, Pipes3!Goto, ParentP, Pipes3!Parent
  <2>2. Asking3
    BY <2>1 DEF Pipe3Inv, Unread, Wrong, Reading, Answered, Printed, Spoilt, Waiting
  <2>3. pipe[<<"req", 0>>] = Data(1) /\ pc[ReqKid] = "read"
    BY <2>1, <2>2 DEF Asking3
  <2>4. Pipes3!Rest(Data(1), 3) = <<>> /\ Pipes3!Taken(Data(1), 3) = Data(1)
    BY Words3 DEF Pipes3!Rest, Rest, Pipes3!Taken, Taken
  <2>5. ASSUME NEW x PROVE Pipes3!Filled(x, Data(1)) = Data(1)
    BY DEF Pipes3!Filled, Data
  <2>6. d'[1] = Data(1) /\ pipe' = [pipe EXCEPT ![<<"req", 0>>] = <<>>] /\ DOMAIN d' = Req
    BY <1>0, <2>1, <2>3, <2>4, <2>5 DEF Pipe3Types
  <2>7. Asking3' /\ Pipe3Types'
    BY <1>0, <2>1, <2>2, <2>3, <2>6 DEF Asking3, Pipe3Types, PipePcs
  <2>8. \A p \in Pipes3!Children \ Kids : pc'[p] = "none"
    BY <1>0, <2>1 DEF Pipe3Types, Pipe3Inv, Kids
  <2>9. pc'[P] = "passReq"
    BY <1>0, <2>1 DEF Pipe3Types
  <2>10. QED
    BY <2>6, <2>7, <2>8, <2>9 DEF Pipe3Inv
<1>3. CASE Pipes3!WritePassed
  <2>1. /\ pc[P] = "passReq" /\ pc' = [pc EXCEPT ![P] = "forkCalc"] /\ UNCHANGED <<j, d, dat, op>>
        /\ pipe' = [pipe EXCEPT ![OnePipe] = @ \o d[1]]
    BY <1>0, <1>3 DEF Pipes3!WritePassed, Pipes3!Write, Pipes3!Goto, ParentP, Pipes3!Parent
  <2>2. Asking3 /\ d[1] = Data(1)
    BY <2>1 DEF Pipe3Inv, Unread, Wrong, Reading, Answered, Printed, Spoilt, Waiting
  <2>3. pipe'[OnePipe] = Data(1) /\ Pipe3Types' /\ pc'[P] = "forkCalc"
    BY <1>0, <2>1, <2>2, Words3 DEF Asking3, Pipe3Types, PipePcs
  <2>4. \A p \in Pipes3!Children : pc'[p] = pc[p]
    BY <1>0, <2>1 DEF Pipe3Types
  <2>5. Unread'
    BY <1>0, <2>1, <2>2, <2>3, <2>4 DEF Asking3, Unread, Waiting, Kids
  <2>6. QED
    BY <2>1, <2>2, <2>3, <2>4, <2>5 DEF Pipe3Inv, Asking3
<1>4. CASE Pipes3!ForkCalc("readRes")
  <2>1. /\ pc[P] = "forkCalc" /\ UNCHANGED <<pipe, j, d, dat, op>>
        /\ \E l \in IF d[1][3].part = 3 THEN {"read"} ELSE {"read", "gone"} :
              pc' = [pc EXCEPT ![P] = "readRes", ![CalcKid] = l]
    BY <1>0, <1>4 DEF Pipes3!ForkCalc, Pipe3Types, ParentP, Pipes3!Parent, CalcKid
  <2>2. d[1] = Data(1) /\ pc[CalcKid] = "none"
    BY <2>1 DEF Pipe3Inv
  <2>3. pc' = [pc EXCEPT ![P] = "readRes", ![CalcKid] = "read"]
    BY <2>1, <2>2, Words3
  <2>4. /\ pc'[P] = "readRes" /\ pc'[CalcKid] = "read" /\ Pipe3Types'
        /\ \A p \in Pipes3!Children \ {CalcKid} : pc'[p] = pc[p]
    BY <1>0, <2>1, <2>3 DEF Pipe3Types, PipePcs, Kids
  <2>5. pc[ReqKid] # "none" /\ \A p \in Pipes3!Children \ Kids : pc'[p] = "none"
    BY <2>1, <2>4 DEF Pipe3Inv, Kids
  <2>6. dat' = dat /\ op' = op /\ pipe' = pipe /\ ReqKid' = ReqKid /\ CalcKid' = CalcKid
    BY <2>1 DEF ReqKid, CalcKid, Pipes3!ReqP, Pipes3!CalcP
  <2>7. ~Asking3 /\ ~Wrong /\ \A x \in Kids : ~Printed(x)
    BY <2>1 DEF Asking3, Wrong, Printed
  <2>8. CASE Unread
    BY <1>0, <2>1, <2>4, <2>5, <2>6, <2>8 DEF Pipe3Inv, Unread, Waiting, Kids
  <2>9. ASSUME NEW x \in Kids, Reading(x) \/ Answered(x) \/ Spoilt(x)
        PROVE  Pipe3Inv'
    <3>1. x = ReqKid /\ Other(x) = CalcKid
      BY <2>2, <2>9 DEF Kids, Other, Reading, Answered, Spoilt
    <3>2. Reading(x) /\ Other(x) = CalcKid => Reading(x)'
      BY <2>4, <2>6, <3>1 DEF Reading, Waiting, Other
    <3>3. Answered(x) /\ Other(x) = CalcKid => Answered(x)'
      BY <2>4, <2>6, <3>1 DEF Answered, Waiting, Other
    <3>4. ~Spoilt(x)
      BY <2>2, <3>1 DEF Spoilt
    <3>5. QED
      BY <2>1, <2>4, <2>5, <2>6, <2>9, <3>1, <3>2, <3>3, <3>4 DEF Pipe3Inv, Kids
  <2>10. QED
    BY <2>7, <2>8, <2>9 DEF Pipe3Inv
<1>5. CASE Pipes3!ReadRes("reap")
  <2>1. /\ pc[P] = "readRes" /\ pipe[OnePipe] # <<>> /\ UNCHANGED <<j, d, op>>
        /\ pipe' = [pipe EXCEPT ![OnePipe] = Rest(@, 1)]
        /\ dat' = Taken(pipe[OnePipe], 1)
        /\ pc' = [pc EXCEPT ![P] = "reap"]
    BY <1>0, <1>5 DEF Pipes3!ReadRes, Pipes3!Read, Pipes3!FirstOf, Pipes3!Goto, ParentP, Pipes3!Parent, Pipes3!Rest, Rest,
                      Pipes3!Taken, Taken
  <2>2. pc'[P] = "reap" /\ Pipe3Types' /\ \A p \in Pipes3!Children : pc'[p] = pc[p]
    BY <1>0, <2>1 DEF Pipe3Types, PipePcs
  <2>3. CASE Taken(pipe[OnePipe], 1) # <<Answer>>
    BY <2>1, <2>2, <2>3 DEF Pipe3Inv, Wrong
  <2>4. CASE Taken(pipe[OnePipe], 1) = <<Answer>>
    <3>1. ~Unread /\ ~Asking3 /\ ~Wrong
      BY <2>1, <2>4, Words3 DEF Unread, Asking3, Wrong
    <3>2. PICK x \in Kids : Answered(x)
      BY <2>1, <2>4, <3>1, Words3 DEF Pipe3Inv, Reading, Printed, Spoilt
    <3>3. pipe'[OnePipe] = <<>>
      BY <1>0, <2>1, <3>2, Words3 DEF Answered, Pipe3Types
    <3>4. pc[Other(x)] = "read"
      BY <2>1, <3>2 DEF Answered, Pipe3Inv, Kids
    <3>5. Printed(x)'
      BY <2>1, <2>2, <2>4, <3>2, <3>3, <3>4 DEF Answered, Printed
    <3>6. QED
      BY <2>1, <2>2, <3>5 DEF Pipe3Inv
  <2>5. QED
    BY <2>3, <2>4
<1>6. CASE Pipes3!Reap(2)
  <2>1. /\ pc[P] = "reap" /\ pc' = [pc EXCEPT ![P] = "done"] /\ UNCHANGED <<pipe, j, d, dat, op>>
        /\ Pipes3!Cardinality({p \in Pipes3!Children : pc[p] = "gone"}) >= 2
    BY <1>6 DEF Pipes3!Reap, Pipes3!Goto, ParentP, Pipes3!Parent
  <2>2. pc'[P] = "done" /\ Pipe3Types' /\ \A p \in Pipes3!Children : pc'[p] = pc[p]
    BY <1>0, <2>1 DEF Pipe3Types, PipePcs
  <2>3. ASSUME NEW x \in Kids, Printed(x) PROVE FALSE
    <3>1. {p \in Pipes3!Children : pc[p] = "gone"} = {x}
      BY <2>3 DEF Pipe3Inv, Printed
    <3>2. QED
      BY <2>1, <3>1, FS_Singleton, Counted3
  <2>4. Wrong
    BY <2>1, <2>3 DEF Pipe3Inv, Asking3, Unread, Reading, Answered, Spoilt, Waiting
  <2>5. QED
    BY <2>1, <2>2, <2>4 DEF Pipe3Inv, Wrong
<1>7. QED
  BY <1>1, <1>2, <1>3, <1>4, <1>5, <1>6 DEF Pipes3!Main3

\* The children, both of which may read the operands.
LEMMA Child3 ==
    ASSUME Pipe3Inv, program = "pipe3", program' = program, NEW p \in Kids, pc[p] = "read",
           pipe[OnePipe] # <<>>,
           pipe' = [pipe EXCEPT ![OnePipe] = Rest(@, 3)],
           op' = [op EXCEPT ![p] = Taken(pipe[OnePipe], 3)],
           pc' = [pc EXCEPT ![p] = "compute"],
           UNCHANGED <<j, d, dat>>
    PROVE  Pipe3Inv'
<1> USE Kids3, Pipe3Names
<1>1. /\ pc'[p] = "compute" /\ pc'[ParentP] = pc[ParentP] /\ Pipe3Types'
      /\ \A x \in Pipes3!Children \ {p} : pc'[x] = pc[x] /\ op'[x] = op[x]
      /\ op'[p] = Taken(pipe[OnePipe], 3) /\ pipe'[OnePipe] = Rest(pipe[OnePipe], 3)
  BY DEF Pipe3Inv, Pipe3Types, PipePcs
<1>2. CASE Asking3
  BY <1>2 DEF Asking3
<1>3. CASE Wrong
  BY <1>1, <1>3 DEF Pipe3Inv, Wrong
<1>4. CASE Unread
  <2>1. Reading(p)'
    BY <1>1, <1>4, Words3 DEF Unread, Reading, Waiting
  <2>2. QED
    BY <1>1, <1>4, <2>1 DEF Pipe3Inv, Unread, Waiting
<1>5. ASSUME NEW x \in Kids, Reading(x) \/ Answered(x) \/ Printed(x) \/ Spoilt(x)
      PROVE  Pipe3Inv'
  <2>1. Answered(x) /\ p = Other(x)
    BY <1>5 DEF Reading, Answered, Printed, Spoilt
  <2>2. Spoilt(x)'
    BY <1>1, <2>1, Words3 DEF Answered, Spoilt, Waiting
  <2>3. QED
    BY <1>1, <2>1, <2>2 DEF Pipe3Inv, Answered, Waiting
<1>6. QED
  BY <1>2, <1>3, <1>4, <1>5 DEF Pipe3Inv

LEMMA Computes3 ==
    ASSUME Pipe3Inv, program = "pipe3", program' = program, NEW p \in Kids, pc[p] = "compute",
           pipe' = [pipe EXCEPT ![OnePipe] = @ \o <<Computed(op[p])>>],
           pc' = [pc EXCEPT ![p] = "gone"],
           UNCHANGED <<op, j, d, dat>>
    PROVE  Pipe3Inv'
<1> USE Kids3, Pipe3Names
<1>1. /\ pc'[p] = "gone" /\ pc'[ParentP] = pc[ParentP] /\ Pipe3Types'
      /\ \A x \in Pipes3!Children \ {p} : pc'[x] = pc[x]
      /\ pipe'[OnePipe] = pipe[OnePipe] \o <<Computed(op[p])>>
  BY DEF Pipe3Inv, Pipe3Types, PipePcs
<1>2. CASE Asking3
  BY <1>2 DEF Asking3, Kids
<1>3. CASE Wrong
  BY <1>1, <1>3 DEF Pipe3Inv, Wrong
<1>4. CASE Unread
  BY <1>4 DEF Unread
<1>5. ASSUME NEW x \in Kids, Reading(x)
      PROVE  Pipe3Inv'
  <2>1. p = x
    BY <1>5 DEF Reading
  <2>2. Answered(x)'
    BY <1>1, <1>5, <2>1, Words3 DEF Reading, Answered, Waiting
  <2>3. QED
    BY <1>1, <1>5, <2>2 DEF Pipe3Inv, Reading, Waiting
<1>6. ASSUME NEW x \in Kids, Answered(x) \/ Printed(x) PROVE FALSE
  BY <1>6 DEF Answered, Printed
<1>7. ASSUME NEW x \in Kids, Spoilt(x) PROVE Pipe3Inv'
  <2>1. p = Other(x) /\ op[p] # Data(1) /\ pipe[OnePipe] = <<>>
    BY <1>7 DEF Spoilt
  <2>2. Computed(op[p]) # Answer
    BY <2>1, Words3
  <2>3. Spoilt(x)'
    BY <1>1, <1>7, <2>1, <2>2, Words3 DEF Spoilt, Waiting
  <2>4. QED
    BY <1>1, <1>7, <2>3 DEF Pipe3Inv, Spoilt, Waiting
<1>8. QED
  BY <1>2, <1>3, <1>4, <1>5, <1>6, <1>7 DEF Pipe3Inv
\* Every step of pipe3.
LEMMA Inv3Step == Pipe3Inv /\ [MCNext]_allVars => Pipe3Inv'
<1> SUFFICES ASSUME Pipe3Inv, [MCNext]_allVars, program' = program, program = "pipe3" PROVE Pipe3Inv'
  BY Steps DEF Pipe3Inv
<1> USE Kids3, Pipe3Names
<1>1. CASE UNCHANGED pipeVars
  BY <1>1 DEF pipeVars, Pipe3Inv, Pipe3Types, Asking3, Unread, Wrong, Reading, Answered, Printed, Spoilt, Waiting
<1>2. CASE Pipes3!Main3
  BY <1>2, Parent3
<1>3. CASE Pipes3!ReqWrite(1)
  <2>1. /\ pc[ReqKid] = "write" /\ pc' = [pc EXCEPT ![ReqKid] = "read"]
        /\ pipe' = [pipe EXCEPT ![<<"req", 0>>] = @ \o Data(1)] /\ UNCHANGED <<j, d, dat, op>>
    BY <1>3 DEF Pipes3!ReqWrite, Pipes3!Write, Pipes3!Goto, ReqKid, Pipes3!Data, Data
  <2>2. Asking3 \/ Wrong
    BY <2>1 DEF Pipe3Inv, Unread, Reading, Answered, Printed, Spoilt, Kids
  <2>3. /\ Pipe3Types' /\ pc'[ReqKid] = "read" /\ pc'[ParentP] = pc[ParentP]
        /\ \A x \in Pipes3!Children \ {ReqKid} : pc'[x] = pc[x]
        /\ pipe'[OnePipe] = pipe[OnePipe] /\ pipe'[<<"req", 0>>] = pipe[<<"req", 0>>] \o Data(1)
    BY <2>1 DEF Pipe3Inv, Pipe3Types, PipePcs, Kids
  <2>4. CASE Asking3
    <3>1. Asking3'
      BY <2>1, <2>3, <2>4, Words3 DEF Asking3
    <3>2. QED
      BY <2>1, <2>3, <2>4, <3>1 DEF Pipe3Inv, Asking3, Kids
  <2>5. CASE Wrong
    BY <2>1, <2>3, <2>5 DEF Pipe3Inv, Wrong, Kids
  <2>6. QED
    BY <2>2, <2>4, <2>5
<1>4. CASE Pipes3!CalcRead(ReqKid, "read")
  BY <1>4, Child3 DEF Pipes3!CalcRead, Pipes3!Read, Pipes3!FirstOf, Pipes3!Goto, Pipes3!Rest, Rest, Pipes3!Taken, Taken,
     Kids
<1>5. CASE Pipes3!CalcWrite(ReqKid)
  <2>1. Pipes3!Computed(op[ReqKid]) = Computed(op[ReqKid])
    BY DEF Pipes3!Computed, Computed, Pipes3!Req, Req, Pipes3!Data, Data
  <2>2. QED
    BY <1>5, <2>1, Computes3 DEF Pipes3!CalcWrite, Pipes3!Write, Pipes3!Goto, Kids
<1>6. ASSUME NEW c \in Req, Pipes12!Calculator(c) PROVE Pipe3Inv'
  <2>1. CASE c = 1
    <3>1. Pipes12!CalcP(1) = CalcKid
      BY DEF Pipes12!CalcP, CalcKid, Pipes3!CalcP
    <3>2. CASE Pipes12!CalcRead(CalcKid, "read")
      BY <3>2, Child3 DEF Pipes12!CalcRead, Pipes12!Read, Pipes12!FirstOf, Pipes12!Goto, Pipes12!Rest, Rest,
         Pipes12!Taken, Taken, Kids
    <3>3. CASE Pipes12!CalcWrite(CalcKid)
      <4>1. Pipes12!Computed(op[CalcKid]) = Computed(op[CalcKid])
        BY DEF Pipes12!Computed, Computed, Pipes12!Req, Req, Pipes12!Data, Data
      <4>2. QED
        BY <3>3, <4>1, Computes3 DEF Pipes12!CalcWrite, Pipes12!Write, Pipes12!Goto, Kids
    <3>4. QED
      BY <1>6, <2>1, <3>1, <3>2, <3>3 DEF Pipes12!Calculator
  <2>2. CASE c # 1
    <3>1. Pipes12!CalcP(c) \in Pipes3!Children \ Kids
      BY <2>2 DEF Pipes12!CalcP, Pipes3!Children, Pipes3!CalcP, Pipes3!Req, Req, Kids, ReqKid, CalcKid, Pipes3!ReqP
    <3>2. pc[Pipes12!CalcP(c)] = "none"
      BY <3>1 DEF Pipe3Inv
    <3>3. QED
      BY <1>6, <3>2 DEF Pipes12!Calculator, Pipes12!CalcRead, Pipes12!CalcWrite
  <2>3. QED
    BY <2>1, <2>2
<1>7. QED
  <2>1. CASE UNCHANGED allVars
    BY <1>1, <2>1 DEF allVars
  <2>2. CASE MainStep
    BY <1>1, <1>2, <2>2 DEF MainStep, OfParentChild, OfPipes
  <2>3. CASE TickStep
    BY <2>3 DEF TickStep
  <2>4. ASSUME NEW k \in Req, RequesterStep(k) PROVE Pipe3Inv'
    BY <1>1, <1>3, <1>4, <1>5, <2>4 DEF RequesterStep, OfParentChild, OfPipes, Pipes3!Requester3, ReqKid
  <2>5. ASSUME NEW k \in Req, CalculatorStep(k) PROVE Pipe3Inv'
    BY <1>1, <1>6, <2>5 DEF CalculatorStep, OfParentChild, OfPipes
  <2>6. QED
    BY <2>1, <2>2, <2>3, <2>4, <2>5 DEF MCNext

\* In pipe3 the parent never both has the right result and ends: one of the two
\* children that read the operands has then nothing to read, and the parent
\* waits for it (pipe3/server.c:65-72).
THEOREM NeverRightAndOver == MCSpec => []RightNeverEnds
<1>1. Pipe3Inv => RightNeverEnds
  <2>1. Pipes3!Computed(Pipes3!Data(1)) = Answer
    BY Words3 DEF Pipes3!Computed, Computed, Pipes3!Req, Req, Pipes3!Data, Data
  <2>2. QED
    BY <2>1 DEF Pipe3Inv, RightNeverEnds, Pipes3!RightNeverEnds, Pipes3!Right, ParentP, Pipes3!Parent, Asking3, Unread, Wrong, Reading,
       Answered, Printed, Spoilt, Waiting
<1>2. QED
  BY <1>1, Init3, Inv3Step, PTL DEF MCSpec
=============================================================================
