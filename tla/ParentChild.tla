---------------------------- MODULE ParentChild ----------------------------
(***************************************************************************)
(* What the three programs semaphore/parent_child{1,2,3} have in common.   *)
(* The parent forks N requesting children, which write their operands to   *)
(* a pipe, and then calculating children, to which it passes the operands  *)
(* through a second pipe and whose results it passes back.  Both pipes are *)
(* used in both directions: what one side writes the same side could read, *)
(* and System V semaphores are there to prevent it.                        *)
(*                                                                         *)
(* Everything but the use of the semaphores is the same in the three; the  *)
(* definitions below follow parent_child1.c, and the modules ParentChild1, *)
(* ParentChild2 and ParentChild3 put the programs together.                *)
(*                                                                         *)
(* Semaphores have the semantics of semop(2): every semop of the programs  *)
(* has SEM_UNDO, so that the exit of a process takes back what it has done *)
(* to a semaphore (not below 0); SETVAL forgets what there is to be taken  *)
(* back.  Nobody sleeps in a semop: it is a step that waits for its turn.  *)
(***************************************************************************)
EXTENDS Pipes, Integers

VARIABLES semval,    \* the semaphores
          semadj,    \* what the exit of each process adds to each
          reqPipe,   \* between the parent and the requesting children
          calcPipe,  \* between the parent and the calculating children
          ppc,       \* where the parent is
          i,         \* its loop index
          a,         \* a[i]: the request it has read
          res,       \* the result it has read
          rpc,       \* where each requesting child is
          rgot,      \* what each has read as its result
          cpc,       \* where each calculating child is
          b,         \* what each has read as a request
          served     \* how many requests each has served

semVars    == <<semval, semadj>>
parentVars == <<ppc, i, a, res>>
reqVars    == <<rpc, rgot>>
calcVars   == <<cpc, b, served>>
vars == <<semVars, reqPipe, calcPipe, parentVars, reqVars, calcVars>>

Sems == 0..2

Parent  == <<"parent", 0>>
ReqP(k) == <<"req", k>>
CalcP(c) == <<"calc", c>>
Procs == {Parent} \cup {ReqP(k) : k \in Req} \cup {CalcP(c) : c \in Req}

-----------------------------------------------------------------------------
(* Semaphores.                                                             *)

SetVal(s, v) ==
    /\ semval' = [semval EXCEPT ![s] = v]
    /\ semadj' = [p \in Procs |-> [semadj[p] EXCEPT ![s] = 0]]

SemOp(p, s, n) ==
    /\ semval[s] + n >= 0
    /\ semval' = [semval EXCEPT ![s] = @ + n]
    /\ semadj' = [semadj EXCEPT ![p][s] = @ - n]

\* A semop of two operations: wait for zero, then increment.
WaitZeroInc(p, s) == semval[s] = 0 /\ SemOp(p, s, 1)

Undo(p) ==
    /\ semval' = [s \in Sems |-> IF semval[s] + semadj[p][s] < 0 THEN 0
                                 ELSE semval[s] + semadj[p][s]]
    /\ semadj' = [semadj EXCEPT ![p] = [s \in Sems |-> 0]]

-----------------------------------------------------------------------------
(* The loop over the requesting children.                                  *)

\* An earlier run that was killed may have left semaphores above 0.
Init ==
    /\ semval \in [Sems -> 0..1]
    /\ semadj = [p \in Procs |-> [s \in Sems |-> 0]]
    /\ reqPipe = <<>> /\ calcPipe = <<>>
    /\ ppc = "fork" /\ i = 1
    /\ a = [k \in Req |-> <<>>] /\ res = <<>>
    /\ rpc = [k \in Req |-> "none"] /\ rgot = [k \in Req |-> <<>>]
    /\ cpc = [c \in Req |-> "none"] /\ b = [c \in Req |-> <<>>]
    /\ served = [c \in Req |-> 0]

PGoto(l) == ppc' = l
RGoto(k, l) == rpc' = [rpc EXCEPT ![k] = l]
CGoto(c, l) == cpc' = [cpc EXCEPT ![c] = l]

\* Mutant: one round too many.
NextRoundTooFar(again, after) ==
    IF i > N THEN i' = 1 /\ PGoto(after) ELSE i' = i + 1 /\ PGoto(again)

\* The end of a round of a loop of the parent.
NextRound(again, after) ==
    IF i = N THEN i' = 1 /\ PGoto(after) ELSE i' = i + 1 /\ PGoto(again)

ForkReq ==
    /\ ppc = "fork"
    /\ RGoto(i, "setval")
    /\ PGoto("setval")
    /\ UNCHANGED <<semVars, reqPipe, calcPipe, i, a, res, rgot, calcVars>>

\* Parent and child both set the semaphore, one before the other.
InitReqSem(v) ==
    /\ ppc = "setval"
    /\ SetVal(0, v)
    /\ PGoto("readReq")
    /\ UNCHANGED <<reqPipe, calcPipe, i, a, res, reqVars, calcVars>>

ReqInitSem(k, v) ==
    /\ rpc[k] = "setval"
    /\ SetVal(0, v)
    /\ RGoto(k, "write")
    /\ UNCHANGED <<reqPipe, calcPipe, parentVars, rgot, calcVars>>

ReqWrite(k) ==
    /\ rpc[k] = "write"
    /\ reqPipe' = reqPipe \o Data(k)
    /\ RGoto(k, "wait")
    /\ UNCHANGED <<semVars, calcPipe, parentVars, rgot, calcVars>>

ReadReq ==
    /\ ppc = "readReq"
    /\ reqPipe # <<>>
    /\ a' = [a EXCEPT ![i] = Taken(reqPipe, 3)]
    /\ reqPipe' = Rest(reqPipe, 3)
    /\ NextRound("fork", "forkCalc")
    /\ UNCHANGED <<semVars, calcPipe, res, reqVars, calcVars>>

\* The child reads its result, after the semaphore operation that differs.
ReqRead(k) ==
    /\ rpc[k] = "read"
    /\ reqPipe # <<>>
    /\ rgot' = [rgot EXCEPT ![k] = Taken(reqPipe, 1)]
    /\ reqPipe' = Rest(reqPipe, 1)
    /\ RGoto(k, "exit")
    /\ UNCHANGED <<semVars, calcPipe, parentVars, calcVars>>

ReqExit(k) ==
    /\ rpc[k] = "exit"
    /\ Undo(ReqP(k))
    /\ RGoto(k, "gone")
    /\ UNCHANGED <<reqPipe, calcPipe, parentVars, rgot, calcVars>>

-----------------------------------------------------------------------------
(* Passing requests to the calculating children and results back.          *)

ForkCalc(c) ==
    /\ ppc = "forkCalc"
    /\ CGoto(c, "setval")
    /\ PGoto("setvalCalc")
    /\ UNCHANGED <<semVars, reqPipe, calcPipe, i, a, res, reqVars, b, served>>

\* Both set semaphore s, one before the other.
InitCalcSem(from, s, v, to) ==
    /\ ppc = from
    /\ SetVal(s, v)
    /\ PGoto(to)
    /\ UNCHANGED <<reqPipe, calcPipe, i, a, res, reqVars, calcVars>>

CalcInitSem(c, from, s, v, to) ==
    /\ cpc[c] = from
    /\ SetVal(s, v)
    /\ CGoto(c, to)
    /\ UNCHANGED <<reqPipe, calcPipe, parentVars, reqVars, b, served>>

\* Mutant: the first request for every child.
WriteFirst(to) ==
    /\ ppc = "writeReq"
    /\ calcPipe' = calcPipe \o a[1]
    /\ PGoto(to)
    /\ UNCHANGED <<semVars, reqPipe, i, a, res, reqVars, calcVars>>

WriteReq(to) ==
    /\ ppc = "writeReq"
    /\ calcPipe' = calcPipe \o a[i]
    /\ PGoto(to)
    /\ UNCHANGED <<semVars, reqPipe, i, a, res, reqVars, calcVars>>

CalcRead(c) ==
    /\ cpc[c] = "read"
    /\ calcPipe # <<>>
    /\ b' = [b EXCEPT ![c] = Taken(calcPipe, 3)]
    /\ calcPipe' = Rest(calcPipe, 3)
    /\ CGoto(c, "write")
    /\ UNCHANGED <<semVars, reqPipe, parentVars, reqVars, served>>

CalcWrite(c) ==
    /\ cpc[c] = "write"
    /\ calcPipe' = Append(calcPipe, Computed(b[c]))
    /\ CGoto(c, "post")
    /\ UNCHANGED <<semVars, reqPipe, parentVars, reqVars, b, served>>

CalcExit(c) ==
    /\ cpc[c] = "exit"
    /\ Undo(CalcP(c))
    /\ CGoto(c, "gone")
    /\ UNCHANGED <<reqPipe, calcPipe, parentVars, reqVars, b, served>>

ReadRes ==
    /\ ppc = "readRes"
    /\ calcPipe # <<>>
    /\ res' = Taken(calcPipe, 1)
    /\ calcPipe' = Rest(calcPipe, 1)
    /\ PGoto("writeRes")
    /\ UNCHANGED <<semVars, reqPipe, i, a, reqVars, calcVars>>

WriteRes ==
    /\ ppc = "writeRes"
    /\ reqPipe' = reqPipe \o res
    /\ PGoto("post")
    /\ UNCHANGED <<semVars, calcPipe, i, a, res, reqVars, calcVars>>

\* wait for every child, and removal of the semaphores.
Reap ==
    /\ ppc = "reap"
    /\ \A k \in Req : rpc[k] = "gone" /\ cpc[k] \in {"gone", "none"}
    /\ PGoto("done")
    /\ UNCHANGED <<semVars, reqPipe, calcPipe, i, a, res, reqVars, calcVars>>

-----------------------------------------------------------------------------
(* Properties the three programs share.                                    *)

ParentPcs == {"fork", "setval", "readReq", "forkCalc", "setvalCalc", "setvalCalc2", "writeReq",
              "postReq", "waitRes", "readRes", "writeRes", "post", "reap", "done"}
RequesterPcs  == {"none", "setval", "write", "wait", "read", "exit", "gone"}
CalculatorPcs == {"none", "setval", "setval2", "wait", "read", "write", "post", "exit", "gone"}

\* Every variable holds values of the kinds the programs give it.
TypeOK ==
    /\ semval \in [Sems -> Nat] /\ semadj \in [Procs -> [Sems -> Int]]
    /\ reqPipe \in Seq(Words) /\ calcPipe \in Seq(Words)
    /\ ppc \in ParentPcs /\ i \in Req
    /\ a \in [Req -> Seq(Words)] /\ res \in Seq(Words)
    /\ rpc \in [Req -> RequesterPcs] /\ rgot \in [Req -> Seq(Words)]
    /\ cpc \in [Req -> CalculatorPcs] /\ b \in [Req -> Seq(Words)]
    /\ served \in [Req -> 0..N]

\* Nobody reads back what it has written itself, or half of a message: what
\* is read as a request is a whole request and what is read as a result is a
\* result, though both pipes carry both.
WholeMessages ==
    /\ \A k \in Req : a[k] \in {<<>>} \cup {Data(r) : r \in Req}
    /\ \A c \in Req : b[c] \in {<<>>} \cup {Data(r) : r \in Req}
    /\ res \in {<<>>} \cup Results
    /\ \A k \in Req : rgot[k] \in {<<>>} \cup Results

\* No two children read the result of one request, and when the parent
\* returns the result of every request has been read by a child.
EachOnce ==
    /\ \A j, k \in Req : rgot[j] = rgot[k] /\ rgot[j] # <<>> => j = k
    /\ ppc = "done" => {rgot[k] : k \in Req} = Results
=============================================================================
