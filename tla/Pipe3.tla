------------------------------- MODULE Pipe3 -------------------------------
(***************************************************************************)
(* pipe/pipe3: one requesting and one calculating child, no clients to     *)
(* execute, and the parent keeps the result.  The parent writes the        *)
(* request to the calculating child's pipe and reads the result from the   *)
(* same pipe.  The requesting child does not stop after the loop it was    *)
(* forked in (server.c:49): in the second loop its ret_pid is 0, and it    *)
(* runs the calculating child's branch as well.                            *)
(***************************************************************************)
EXTENDS PipeServer

\* In the first loop the parent passes the request on at once.
PassReq ==
    /\ pc[Parent] = "readReq"
    /\ Read("reqOp", 1, 3)
    /\ d' = [d EXCEPT ![1] = Filled(@, FirstOf("reqOp", 1, 3))]
    /\ Goto(Parent, "passReq")
    /\ UNCHANGED <<program, left, j, dat, op, got>>

WritePassed ==
    /\ pc[Parent] = "passReq"
    /\ Write("calcOp", 1, d[1])
    /\ Goto(Parent, "forkCalc")
    /\ UNCHANGED <<program, left, j, d, dat, op, got>>

\* wait for both children.
Main3 == \/ ForkReq \/ PassReq \/ WritePassed
         \/ ForkCalc("readRes") \/ ReadRes("reap") \/ Reap(2)

\* After its write the child is where the calculating child starts.
Requester3 == ReqWrite(1) \/ CalcRead(ReqP(1), "read") \/ CalcWrite(ReqP(1))

-----------------------------------------------------------------------------
Right == dat = <<Computed(Data(1))>>

\* The parent never both prints the right result (server.c:65) and ends: if it
\* has the right result, one of the two children that read the operands still
\* waits for them (server.c:81), and the parent for that child (server.c:70).
RightNeverEnds == program = "pipe3" => ~(pc[Parent] = "done" /\ Right)
=============================================================================
