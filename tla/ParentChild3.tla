---------------------------- MODULE ParentChild3 ----------------------------
(***************************************************************************)
(* semaphore/parent_child3: the semaphores start at 1, who has written     *)
(* decrements, and who wants to read waits for 0 and increments, in one    *)
(* semop of two operations.  N calculating children, one for each request. *)
(***************************************************************************)
EXTENDS ParentChild

\* The first loop: fork, SETVAL 1 on both sides, the request.
Collect == ForkReq \/ InitReqSem(1) \/ ReadReq

\* semop {0, +1} on semaphore 0.
ReqWait(k) ==
    /\ rpc[k] = "wait"
    /\ WaitZeroInc(ReqP(k), 0)
    /\ RGoto(k, "read")
    /\ UNCHANGED <<reqPipe, calcPipe, parentVars, rgot, calcVars>>

Requester(k) ==
    ReqInitSem(k, 1) \/ ReqWrite(k) \/ ReqWait(k) \/ ReqRead(k) \/ ReqExit(k)

\* semop {0, +1} on semaphore 1, before the read of the result.
WaitRes ==
    /\ ppc = "waitRes"
    /\ WaitZeroInc(Parent, 1)
    /\ PGoto("readRes")
    /\ UNCHANGED <<reqPipe, calcPipe, i, a, res, reqVars, calcVars>>

\* semop -1 on semaphore 0, after the write of the result.
PostRes ==
    /\ ppc = "post"
    /\ SemOp(Parent, 0, -1)
    /\ NextRound("forkCalc", "reap")
    /\ UNCHANGED <<reqPipe, calcPipe, a, res, reqVars, calcVars>>

Distribute == \/ ForkCalc(i) \/ InitCalcSem("setvalCalc", 1, 1, "writeReq")
              \/ WriteReq("waitRes") \/ WaitRes \/ ReadRes \/ WriteRes \/ PostRes

\* semop -1 on semaphore 1, after the write of the result.
CalcPost(c) ==
    /\ cpc[c] = "post"
    /\ SemOp(CalcP(c), 1, -1)
    /\ served' = [served EXCEPT ![c] = @ + 1]
    /\ CGoto(c, "exit")
    /\ UNCHANGED <<reqPipe, calcPipe, parentVars, reqVars, b>>

Calculator(c) == \/ CalcInitSem(c, "setval", 1, 1, "read")
                 \/ CalcRead(c) \/ CalcWrite(c) \/ CalcPost(c) \/ CalcExit(c)

Main == Collect \/ Distribute \/ Reap

Next == Main \/ \E k \in Req : Requester(k) \/ Calculator(k)

Spec == Init /\ [][Next]_vars

-----------------------------------------------------------------------------
\* The calculating child's decrement was undone by its exit.
WakeUpUndone ==
    ppc = "waitRes" /\ semval[1] # 0 /\ cpc[i] = "gone"

\* The increments of requesting children were undone by their exits: there is
\* nothing left for the parent to decrement, and nobody to increment it.
NothingToDecrement ==
    ppc = "post" /\ semval[0] = 0 /\ \A k \in Req : rpc[k] = "gone"

\* What the parent waits for will not come.
Lost == WakeUpUndone \/ NothingToDecrement
=============================================================================
