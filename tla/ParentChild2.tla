---------------------------- MODULE ParentChild2 ----------------------------
(***************************************************************************)
(* semaphore/parent_child2: one calculating child (number 1) serves the N  *)
(* requests in turn.  Semaphore 0 counts the results for requesting        *)
(* children, 1 those the parent may read, 2 the requests the child may     *)
(* read.  Parent and child both initialise 1 and 2 after the fork.         *)
(***************************************************************************)
EXTENDS ParentChild

\* The first loop: fork, SETVAL 0 on both sides, the request.
Collect == ForkReq \/ InitReqSem(0) \/ ReadReq

\* semop -1 on semaphore 0.
ReqWait(k) ==
    /\ rpc[k] = "wait"
    /\ SemOp(ReqP(k), 0, -1)
    /\ RGoto(k, "read")
    /\ UNCHANGED <<reqPipe, calcPipe, parentVars, rgot, calcVars>>

Requester(k) ==
    ReqInitSem(k, 0) \/ ReqWrite(k) \/ ReqWait(k) \/ ReqRead(k) \/ ReqExit(k)

\* semop +1 on semaphore 2, after the write of the request.
PostReq ==
    /\ ppc = "postReq"
    /\ SemOp(Parent, 2, 1)
    /\ PGoto("waitRes")
    /\ UNCHANGED <<reqPipe, calcPipe, i, a, res, reqVars, calcVars>>

\* semop -1 on semaphore 1, before the read of the result.
WaitRes ==
    /\ ppc = "waitRes"
    /\ SemOp(Parent, 1, -1)
    /\ PGoto("readRes")
    /\ UNCHANGED <<reqPipe, calcPipe, i, a, res, reqVars, calcVars>>

\* semop +1 on semaphore 0, after the write of the result.
PostRes ==
    /\ ppc = "post"
    /\ SemOp(Parent, 0, 1)
    /\ NextRound("writeReq", "reap")
    /\ UNCHANGED <<reqPipe, calcPipe, a, res, reqVars, calcVars>>

Distribute == \/ ForkCalc(1)
              \/ InitCalcSem("setvalCalc", 1, 0, "setvalCalc2")
              \/ InitCalcSem("setvalCalc2", 2, 0, "writeReq")
              \/ WriteReq("postReq") \/ PostReq \/ WaitRes
              \/ ReadRes \/ WriteRes \/ PostRes

\* Mutant: the child reads without waiting for semaphore 2.
CalcNoWait(c) ==
    /\ cpc[c] = "wait"
    /\ CGoto(c, "read")
    /\ UNCHANGED <<semVars, reqPipe, calcPipe, parentVars, reqVars, b, served>>

\* semop -1 on semaphore 2, before the read of a request.
CalcWait(c) ==
    /\ cpc[c] = "wait"
    /\ SemOp(CalcP(c), 2, -1)
    /\ CGoto(c, "read")
    /\ UNCHANGED <<reqPipe, calcPipe, parentVars, reqVars, b, served>>

\* semop +1 on semaphore 1; after N rounds the child exits.
CalcPost(c) ==
    /\ cpc[c] = "post"
    /\ SemOp(CalcP(c), 1, 1)
    /\ served' = [served EXCEPT ![c] = @ + 1]
    /\ CGoto(c, IF served[c] + 1 = N THEN "exit" ELSE "wait")
    /\ UNCHANGED <<reqPipe, calcPipe, parentVars, reqVars, b>>

Calculator(c) == \/ CalcInitSem(c, "setval", 1, 0, "setval2")
                 \/ CalcInitSem(c, "setval2", 2, 0, "wait")
                 \/ CalcWait(c) \/ CalcRead(c) \/ CalcWrite(c)
                 \/ CalcPost(c) \/ CalcExit(c)

Main == Collect \/ Distribute \/ Reap

Next == Main \/ \E k \in Req : Requester(k) \/ Calculator(k)

Spec == Init /\ [][Next]_vars

-----------------------------------------------------------------------------
\* The parent's first increment of semaphore 2 came between its own SETVAL
\* and the child's, which erased it: parent and child wait for each other.
PostErased ==
    /\ ppc = "waitRes" /\ i = 1
    /\ cpc[1] = "wait" /\ served[1] = 0 /\ semval[2] = 0

\* The child's last increment of semaphore 1 was undone by its exit.
WakeUpUndone ==
    ppc = "waitRes" /\ i = N /\ semval[1] = 0 /\ cpc[1] = "gone"

\* What the parent waits for will not come.
Lost == PostErased \/ WakeUpUndone
=============================================================================
