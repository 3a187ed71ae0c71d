---------------------------- MODULE ParentChild1 ----------------------------
(***************************************************************************)
(* semaphore/parent_child1: N calculating children, one for each request.  *)
(* Semaphore 0 counts the results the parent has written for requesting    *)
(* children, semaphore 1 those calculating children have written for it.   *)
(***************************************************************************)
EXTENDS ParentChild

\* The first loop: fork, SETVAL 0 on both sides, the request.
Collect == ForkReq \/ InitReqSem(0) \/ ReadReq

\* semop -1 on semaphore 0.
ReqWait(k) ==
    /\ rpc[k] = "wait"
    /\ SemOp(ReqP(k), 0, -1)
    /\ RGoto(k, "read")
    /\ UNCHANGED <<reqPipe, calcPipe, parentVars, rgot, calcVars>>

Requester(k) ==
    ReqInitSem(k, 0) \/ ReqWrite(k) \/ ReqWait(k) \/ ReqRead(k) \/ ReqExit(k)

\* semop -1 on semaphore 1, before the read of the result.
WaitRes ==
    /\ ppc = "waitRes"
    /\ SemOp(Parent, 1, -1)
    /\ PGoto("readRes")
    /\ UNCHANGED <<reqPipe, calcPipe, i, a, res, reqVars, calcVars>>

\* Mutant: the parent forgets the semaphore.
PostForgotten ==
    /\ ppc = "post"
    /\ NextRound("forkCalc", "reap")
    /\ UNCHANGED <<semVars, reqPipe, calcPipe, a, res, reqVars, calcVars>>

\* semop +1 on semaphore 0, after the write of the result.
PostRes ==
    /\ ppc = "post"
    /\ SemOp(Parent, 0, 1)
    /\ NextRound("forkCalc", "reap")
    /\ UNCHANGED <<reqPipe, calcPipe, a, res, reqVars, calcVars>>

Distribute == \/ ForkCalc(i) \/ InitCalcSem("setvalCalc", 1, 0, "writeReq")
              \/ WriteReq("waitRes") \/ WaitRes \/ ReadRes \/ WriteRes \/ PostRes

\* semop +1 on semaphore 1, after the write of the result.
CalcPost(c) ==
    /\ cpc[c] = "post"
    /\ SemOp(CalcP(c), 1, 1)
    /\ served' = [served EXCEPT ![c] = @ + 1]
    /\ CGoto(c, "exit")
    /\ UNCHANGED <<reqPipe, calcPipe, parentVars, reqVars, b>>

Calculator(c) == \/ CalcInitSem(c, "setval", 1, 0, "read")
                 \/ CalcRead(c) \/ CalcWrite(c) \/ CalcPost(c) \/ CalcExit(c)

Main == Collect \/ Distribute \/ Reap

Next == Main \/ \E k \in Req : Requester(k) \/ Calculator(k)

Spec == Init /\ [][Next]_vars

-----------------------------------------------------------------------------
\* The parent waits for a semaphore that the calculating child has raised and
\* its exit has lowered again, SEM_UNDO taking back what it has done.
Lost ==
    ppc = "waitRes" /\ semval[1] = 0 /\ cpc[i] = "gone"
=============================================================================
