----------------------------- MODULE SignalServer -----------------------------
(***************************************************************************)
(* signal/client_server1.  In server2.c the parent forks N requesting      *)
(* children, each of which writes its operands to a pipe and suspends      *)
(* itself until SIGUSR1.  The parent then forks one calculating child per  *)
(* request, writes the request to a second pipe, suspends itself until the *)
(* child signals that the result is in that pipe, passes the result to the *)
(* first pipe and signals the child whose operation it was.  Each pipe is  *)
(* read and written on both sides, and only the signals say when.          *)
(* server.c is the same with one child and without a calculation: the      *)
(* parent answers with a number, signals the child and waits for it.       *)
(*                                                                         *)
(* A SIGUSR1 sent to a process is pending until it is delivered.  It is    *)
(* not delivered while blocked, which it is from sigprocmask(SIG_BLOCK) to *)
(* sigprocmask(SIG_UNBLOCK) but for the time in sigsuspend.                *)
(***************************************************************************)
EXTENDS Pipes, FiniteSets

VARIABLES program,   \* "server" or "server2"
          reqPipe,   \* req_fd
          procPipe,  \* proc_fd
          pc,        \* where each process is
          pending,   \* whether a SIGUSR1 is on its way to it
          handled,   \* whether sig_usr_handler is called for it
          sigFlag,   \* sig_flag
          resetHand, \* what the uninitialised act.sa_flags hold: SA_RESETHAND?
          i,         \* loop index of the parent
          a,         \* a[i]: the request it has read
          count,     \* the result it has read
          got,       \* what each requesting child has read
          b          \* what each calculating child has read

sigVars  == <<pending, handled, sigFlag, resetHand>>
dataVars == <<i, a, count, got, b>>
vars == <<program, reqPipe, procPipe, pc, sigVars, dataVars>>

Parent   == <<"parent", 0>>
ReqP(k)  == <<"req", k>>
CalcP(k) == <<"calc", k>>
Waiters  == {Parent} \cup {ReqP(k) : k \in Req}
Procs    == Waiters \cup {CalcP(k) : k \in Req}

Alive(p) == pc[p] \notin {"none", "gone", "killed"}

Init ==
    /\ program \in {"server", "server2"}
    /\ reqPipe = <<>> /\ procPipe = <<>>
    /\ pc = [p \in Procs |-> IF p = Parent THEN "fork" ELSE "none"]
    /\ pending = [p \in Procs |-> FALSE]
    /\ handled = [p \in Procs |-> TRUE]
    /\ sigFlag = [p \in Procs |-> FALSE]
    /\ resetHand \in BOOLEAN
    /\ i = 1
    /\ a = [k \in Req |-> <<>>] /\ count = <<>>
    /\ got = [k \in Req |-> <<>>] /\ b = [k \in Req |-> <<>>]

Goto(p, l) == pc' = [pc EXCEPT ![p] = l]

-----------------------------------------------------------------------------
(* Signals.                                                                *)

\* kill of every process of ps: a signal that is pending stays one signal.
Kill(ps) == pending' = [p \in Procs |-> pending[p] \/ (p \in ps /\ Alive(p))]

\* Mutant: sigsuspend without sigprocmask before it.
NeverBlocked(p) == FALSE

Blocked(p) == pc[p] \in {"test", "suspend", "unblock"}

\* The handler runs, and ends a sigsuspend.  With SA_RESETHAND it runs once.
Handle(p) ==
    /\ pending[p] /\ Alive(p) /\ ~Blocked(p) /\ handled[p]
    /\ sigFlag' = [sigFlag EXCEPT ![p] = TRUE]
    /\ pending' = [pending EXCEPT ![p] = FALSE]
    /\ handled' = [handled EXCEPT ![p] = ~resetHand]
    /\ Goto(p, IF pc[p] = "suspended" THEN "test" ELSE pc[p])
    /\ UNCHANGED <<program, resetHand, reqPipe, procPipe, dataVars>>

\* Without the handler SIGUSR1 ends the process.
Die(p) ==
    /\ pending[p] /\ Alive(p) /\ ~Blocked(p) /\ ~handled[p]
    /\ pending' = [pending EXCEPT ![p] = FALSE]
    /\ Goto(p, "killed")
    /\ UNCHANGED <<program, handled, sigFlag, resetHand, reqPipe, procPipe, dataVars>>

\* Waiting for a signal, which parent and requesting children do alike.
Block(p) ==
    /\ pc[p] = "block"
    /\ Goto(p, "test")
    /\ UNCHANGED <<program, sigVars, reqPipe, procPipe, dataVars>>

Test(p) ==
    /\ pc[p] = "test"
    /\ Goto(p, IF sigFlag[p] THEN "unblock" ELSE "suspend")
    /\ UNCHANGED <<program, sigVars, reqPipe, procPipe, dataVars>>

Suspend(p) ==
    /\ pc[p] = "suspend"
    /\ Goto(p, "suspended")
    /\ UNCHANGED <<program, sigVars, reqPipe, procPipe, dataVars>>

Unblock(p) ==
    /\ pc[p] = "unblock"
    /\ Goto(p, "reset")
    /\ UNCHANGED <<program, sigVars, reqPipe, procPipe, dataVars>>

ResetFlag(p) ==
    /\ pc[p] = "reset"
    /\ sigFlag' = [sigFlag EXCEPT ![p] = FALSE]
    /\ Goto(p, "read")
    /\ UNCHANGED <<program, pending, handled, resetHand, reqPipe, procPipe, dataVars>>

Await(p) == Block(p) \/ Test(p) \/ Suspend(p) \/ Unblock(p) \/ ResetFlag(p)

-----------------------------------------------------------------------------
(* The requesting children and the loop that forks them.                   *)

NextRound(again, after) ==
    IF i = N THEN i' = 1 /\ Goto(Parent, after)
    ELSE i' = i + 1 /\ Goto(Parent, again)

ForkReq ==
    /\ pc[Parent] = "fork"
    /\ pc' = [pc EXCEPT ![Parent] = "readReq", ![ReqP(i)] = "write"]
    /\ UNCHANGED <<program, sigVars, reqPipe, procPipe, dataVars>>

ReqWrite(k) ==
    /\ pc[ReqP(k)] = "write"
    /\ reqPipe' = reqPipe \o Data(k)
    /\ Goto(ReqP(k), "block")
    /\ UNCHANGED <<program, sigVars, procPipe, dataVars>>

ReadReq ==
    /\ program = "server2" /\ pc[Parent] = "readReq"
    /\ reqPipe # <<>>
    /\ a' = [a EXCEPT ![i] = Taken(reqPipe, 3)]
    /\ reqPipe' = Rest(reqPipe, 3)
    /\ NextRound("fork", "forkCalc")
    /\ UNCHANGED <<program, sigVars, procPipe, count, got, b>>

\* server.c: what the parent answers is not computed.
ReadOne ==
    /\ program = "server" /\ pc[Parent] = "readReq"
    /\ reqPipe # <<>>
    /\ a' = [a EXCEPT ![1] = Taken(reqPipe, 3)]
    /\ reqPipe' = Rest(reqPipe, 3)
    /\ count' = <<Computed(Data(1))>>
    /\ Goto(Parent, "writeRes")
    /\ UNCHANGED <<program, sigVars, procPipe, i, got, b>>

ReqRead(k) ==
    /\ pc[ReqP(k)] = "read"
    /\ reqPipe # <<>>
    /\ got' = [got EXCEPT ![k] = Taken(reqPipe, 1)]
    /\ reqPipe' = Rest(reqPipe, 1)
    /\ Goto(ReqP(k), "gone")
    /\ UNCHANGED <<program, sigVars, procPipe, i, a, count, b>>

-----------------------------------------------------------------------------
(* The calculating children and the loop that forks them.                  *)

ForkCalc ==
    /\ pc[Parent] = "forkCalc"
    /\ pc' = [pc EXCEPT ![Parent] = "writeReq", ![CalcP(i)] = "read"]
    /\ handled' = [handled EXCEPT ![CalcP(i)] = handled[Parent]]
    /\ UNCHANGED <<program, pending, sigFlag, resetHand, reqPipe, procPipe, dataVars>>

\* Mutant: the first request for every child.
WriteFirst ==
    /\ pc[Parent] = "writeReq"
    /\ procPipe' = procPipe \o a[1]
    /\ Goto(Parent, "block")
    /\ UNCHANGED <<program, sigVars, reqPipe, dataVars>>

\* Mutant: the parent does not wait for the child.
WriteNoWait ==
    /\ pc[Parent] = "writeReq"
    /\ procPipe' = procPipe \o a[i]
    /\ Goto(Parent, "read")
    /\ UNCHANGED <<program, sigVars, reqPipe, dataVars>>

WriteReq ==
    /\ pc[Parent] = "writeReq"
    /\ procPipe' = procPipe \o a[i]
    /\ Goto(Parent, "block")
    /\ UNCHANGED <<program, sigVars, reqPipe, dataVars>>

CalcRead(k) ==
    /\ pc[CalcP(k)] = "read"
    /\ procPipe # <<>>
    /\ b' = [b EXCEPT ![k] = Taken(procPipe, 3)]
    /\ procPipe' = Rest(procPipe, 3)
    /\ Goto(CalcP(k), "write")
    /\ UNCHANGED <<program, sigVars, reqPipe, i, a, count, got>>

CalcWrite(k) ==
    /\ pc[CalcP(k)] = "write"
    /\ procPipe' = Append(procPipe, Computed(b[k]))
    /\ Goto(CalcP(k), "notify")
    /\ UNCHANGED <<program, sigVars, reqPipe, dataVars>>

CalcNotify(k) ==
    /\ pc[CalcP(k)] = "notify"
    /\ Kill({Parent})
    /\ Goto(CalcP(k), "gone")
    /\ UNCHANGED <<program, handled, sigFlag, resetHand, reqPipe, procPipe, dataVars>>

ReadRes ==
    /\ pc[Parent] = "read"
    /\ procPipe # <<>>
    /\ count' = Taken(procPipe, 1)
    /\ procPipe' = Rest(procPipe, 1)
    /\ Goto(Parent, "writeRes")
    /\ UNCHANGED <<program, sigVars, reqPipe, i, a, got, b>>

WriteRes ==
    /\ pc[Parent] = "writeRes"
    /\ reqPipe' = reqPipe \o count
    /\ Goto(Parent, "wake")
    /\ UNCHANGED <<program, sigVars, procPipe, dataVars>>

\* wake_pid: the child with this operation.  Without one it is 0, which makes
\* kill signal every process of the group.
WakePids(r) ==
    LET js == {j \in Req : Len(r) = 3 /\ r[3] = Data(j)[3]}
    IN  IF js = {} THEN Procs ELSE {ReqP(j) : j \in js}

Wake ==
    /\ program = "server2" /\ pc[Parent] = "wake"
    /\ Kill(WakePids(a[i]))
    /\ NextRound("forkCalc", "reap")
    /\ UNCHANGED <<program, handled, sigFlag, resetHand, reqPipe, procPipe, a, count, got, b>>

\* server.c: the child that fork has returned.
WakeOne ==
    /\ program = "server" /\ pc[Parent] = "wake"
    /\ Kill({ReqP(1)})
    /\ Goto(Parent, "reap")
    /\ UNCHANGED <<program, handled, sigFlag, resetHand, reqPipe, procPipe, dataVars>>

\* Mutant: the child is signalled, and its result written afterwards.
KillFirst ==
    /\ pc[Parent] = "writeRes"
    /\ Kill(WakePids(a[i]))
    /\ Goto(Parent, "wake")
    /\ UNCHANGED <<program, handled, sigFlag, resetHand, reqPipe, procPipe, dataVars>>

WriteLast ==
    /\ pc[Parent] = "wake"
    /\ reqPipe' = reqPipe \o count
    /\ IF program = "server" THEN Goto(Parent, "reap") /\ i' = i ELSE NextRound("forkCalc", "reap")
    /\ UNCHANGED <<program, sigVars, procPipe, a, count, got, b>>

\* wait for every child.
Reap ==
    /\ pc[Parent] = "reap"
    /\ \A k \in Req : ~Alive(ReqP(k)) /\ ~Alive(CalcP(k))
    /\ Goto(Parent, "done")
    /\ UNCHANGED <<program, sigVars, reqPipe, procPipe, dataVars>>

-----------------------------------------------------------------------------
MainKillsFirst == \/ Await(Parent) \/ ForkReq \/ ReadReq \/ ReadOne
                  \/ ForkCalc \/ WriteReq \/ ReadRes \/ KillFirst \/ WriteLast \/ Reap
Main == \/ Await(Parent) \/ ForkReq \/ ReadReq \/ ReadOne
        \/ ForkCalc \/ WriteReq \/ ReadRes \/ WriteRes \/ Wake \/ WakeOne \/ Reap
Requester(k)  == Await(ReqP(k)) \/ ReqWrite(k) \/ ReqRead(k)
Calculator(k) == CalcRead(k) \/ CalcWrite(k) \/ CalcNotify(k)
Deliver(p) == Handle(p) \/ Die(p)

Next == \/ Main
        \/ \E k \in Req : Requester(k) \/ Calculator(k)
        \/ \E p \in Procs : Deliver(p)

Spec == Init /\ [][Next]_vars

\* Every process that can go on is scheduled, and signals are delivered.
FairSpec == /\ Spec /\ WF_vars(Main)
            /\ \A k \in Req : WF_vars(Requester(k)) /\ WF_vars(Calculator(k))
            /\ \A p \in Procs : WF_vars(Deliver(p))

-----------------------------------------------------------------------------
(* Properties.                                                             *)

\* Signals keep the two directions of a pipe apart: nobody reads back what it
\* has written itself, or half of a message.
WholeMessages ==
    /\ \A k \in Req : a[k] \in {<<>>} \cup {Data(r) : r \in Req}
    /\ \A k \in Req : b[k] \in {<<>>} \cup {Data(r) : r \in Req}
    /\ count \in {<<>>} \cup Results
    /\ \A k \in Req : got[k] \in {<<>>} \cup Results

\* The requesting children that have been signalled and have not read since.
Woken == {k \in Req : pending[ReqP(k)] \/ sigFlag[ReqP(k)] \/ pc[ReqP(k)] = "read"}

\* The data is written before the signal is sent (server2.c:143-151 and 171,
\* 172, server.c:56, 57).  In every state there is a result in the pipe for each
\* child that has been woken, and one more only if the parent is just about to
\* wake its child, so that nobody who wakes blocks in read; in server2.c only
\* children are woken whose own operation has been computed.  The parent, when
\* it has been woken, finds its result.
WakeFindsData ==
    /\ Cardinality({n \in 1..Len(reqPipe) : reqPipe[n].part = 0})
          = Cardinality(Woken) + (IF pc[Parent] = "wake" THEN 1 ELSE 0)
    /\ program = "server2" => \A k \in Woken : pc[CalcP(k)] = "gone"
    /\ pc[Parent] = "read" => procPipe # <<>>

Asking == IF program = "server" THEN {1} ELSE Req

\* The children may take each other's results, for a child that is slow to
\* wake up finds the next result written behind its own; but no result is read
\* twice, and when the parent returns each has been read.
EachOnce ==
    /\ \A j, k \in Req : got[j] = got[k] /\ got[j] # <<>> => j = k
    /\ pc[Parent] = "done" => {got[k] : k \in Asking} = {<<Computed(Data(k))>> : k \in Asking}

\* No signal is missed between the test of sig_flag and sigsuspend: the parent
\* gets to the end of its waits for all children (server2.c:177-192), unless
\* the sa_flags that nobody sets make its second SIGUSR1 deadly; in server.c
\* nobody gets a second one.
AllEnd == ~(resetHand /\ program = "server2") => <>(pc[Parent] = "done")
=============================================================================
