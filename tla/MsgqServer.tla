----------------------------- MODULE MsgqServer -----------------------------
(***************************************************************************)
(* threads/client_server_msgq: the calculator over two System V message    *)
(* queues.  A client puts a request of type 1, carrying its pid, into      *)
(* MSGQ_C_S.  The server takes MAX_THREAD requests; for each it starts a   *)
(* thread that puts the result into MSGQ_S_C as a message whose type is    *)
(* the client's pid; the client receives by that type.  The server then    *)
(* joins its threads and exits, leaving both queues in the kernel (the     *)
(* msgctl(IPC_RMID) calls are commented out), so a later server, and a     *)
(* later client with a recycled pid, find what is left in them.            *)
(*                                                                         *)
(* The three thread functions differ only in the operator and are one      *)
(* action here; a request stands for its operands and operator and for     *)
(* the result they determine.                                              *)
(***************************************************************************)
EXTENDS Naturals, Sequences, FiniteSets

CONSTANTS Pids,        \* process ids of clients
          Requests,    \* operands and operator of a request
          None,        \* no request, no result, no message
          MaxThread,   \* MAX_THREAD, requests the server takes before it joins
          QCap,        \* messages a queue holds before msgsnd blocks
          NoWaitPids,  \* pids with bit 04000 set, which msgsnd reads as IPC_NOWAIT
          MaxSessions, \* bound: how often the server program is run
          MaxCrashes,  \* bound: servers terminated from outside
          MaxKills,    \* bound: clients terminated from outside
          MaxReuse     \* bound: pids the kernel gives to a second client

ASSUME ConstantsAssumption ==
    /\ None \notin Requests \cup [pid : Pids, req : Requests]
    /\ MaxThread \in Nat \ {0}
    /\ QCap \in Nat \ {0}
    /\ NoWaitPids \subseteq Pids
    /\ MaxSessions \in Nat /\ MaxCrashes \in Nat
    /\ MaxKills \in Nat /\ MaxReuse \in Nat

VARIABLES cs,     \* MSGQ_C_S, in arrival order
          sc,     \* MSGQ_S_C, in arrival order
          spc,    \* the server's main: "off", "recv" or "join"
          slot,   \* the loop index i of main
          data,   \* client_data[i]: the request block handed to thread i
          tpc,    \* the state of thread_arr[i]
          cpc,    \* where each client is
          req,    \* the request the current process with this pid has sent
          got,    \* the result it has received
          sessions, crashes, kills, reused   \* counters of the bounds

serverVars == <<spc, slot, data, tpc>>
clientVars == <<cpc, req, got>>
boundVars  == <<sessions, crashes, kills, reused>>
vars == <<cs, sc, serverVars, clientVars, boundVars>>

Slots    == 1..MaxThread
Messages == [pid : Pids, req : Requests]   \* type/pid, and operands or result

ServerStates == {"off", "recv", "join"}
ThreadStates == {"none", "run", "exited"}
ClientStates == {"idle", "waiting", "done", "gone"}

-----------------------------------------------------------------------------
(* The state of a server process that has just started, or is not there.   *)
NoThreads == tpc' = [i \in Slots |-> "none"]
NoData    == data' = [i \in Slots |-> None]

Init ==
    /\ cs = <<>> /\ sc = <<>>
    /\ spc = "off" /\ slot = 1
    /\ data = [i \in Slots |-> None]
    /\ tpc = [i \in Slots |-> "none"]
    /\ cpc = [p \in Pids |-> "idle"]
    /\ req = [p \in Pids |-> None]
    /\ got = [p \in Pids |-> None]
    /\ sessions = 0 /\ crashes = 0 /\ kills = 0 /\ reused = 0

-----------------------------------------------------------------------------
(* The client.                                                             *)

\* msgsnd of the request with msgflg 1, which has no IPC_NOWAIT: blocks when full.
Send(p) ==
    /\ cpc[p] = "idle"
    /\ Len(cs) < QCap
    /\ \E r \in Requests :
          /\ req' = [req EXCEPT ![p] = r]
          /\ cs'  = Append(cs, [pid |-> p, req |-> r])
    /\ cpc' = [cpc EXCEPT ![p] = "waiting"]
    /\ UNCHANGED <<sc, got, serverVars, boundVars>>

\* Mutant: msgrcv with type 0, which takes the oldest message of any type.
AnyFirst(p, k) == k = 1

\* msgrcv by type returns the oldest message of that type.
IsFirstFor(p, k) ==
    /\ k \in 1..Len(sc)
    /\ sc[k].pid = p
    /\ \A j \in 1..(k-1) : sc[j].pid # p

\* Mutant: the message is copied and stays in the queue.
Unchanged(s, k) == s

\* What msgrcv leaves in a queue when it takes message k.
Without(s, k) == [j \in 1..(Len(s)-1) |-> IF j < k THEN s[j] ELSE s[j+1]]

Receive(p) ==
    /\ cpc[p] = "waiting"
    /\ \E k \in 1..Len(sc) :
          /\ IsFirstFor(p, k)
          /\ got' = [got EXCEPT ![p] = sc[k].req]
          /\ sc'  = Without(sc, k)
    /\ cpc' = [cpc EXCEPT ![p] = "done"]
    /\ UNCHANGED <<cs, req, serverVars, boundVars>>

\* The client is terminated from outside while it waits for its result.
KillClient(p) ==
    /\ cpc[p] = "waiting"
    /\ kills < MaxKills
    /\ cpc' = [cpc EXCEPT ![p] = "gone"]
    /\ kills' = kills + 1
    /\ UNCHANGED <<cs, sc, req, got, serverVars, sessions, crashes, reused>>

\* The kernel gives the pid of a finished client to a new one.
ReusePid(p) ==
    /\ cpc[p] \in {"done", "gone"}
    /\ reused < MaxReuse
    /\ cpc' = [cpc EXCEPT ![p] = "idle"]
    /\ req' = [req EXCEPT ![p] = None]
    /\ got' = [got EXCEPT ![p] = None]
    /\ reused' = reused + 1
    /\ UNCHANGED <<cs, sc, serverVars, sessions, crashes, kills>>

-----------------------------------------------------------------------------
(* The server's main thread.                                               *)

Start ==
    /\ spc = "off"
    /\ sessions < MaxSessions
    /\ spc' = "recv" /\ slot' = 1
    /\ NoData /\ NoThreads
    /\ sessions' = sessions + 1
    /\ UNCHANGED <<cs, sc, clientVars, crashes, kills, reused>>

\* Mutant: the loops run once too often.
AdvanceTooFar(nextPhase) ==
    IF slot > MaxThread THEN slot' = 1 /\ spc' = nextPhase
                        ELSE slot' = slot + 1 /\ spc' = spc

\* The loop index after one more round of a loop over the slots, and the
\* phase main is in: the last round leads to the phase given.
Advance(nextPhase) ==
    IF slot = MaxThread THEN slot' = 1 /\ spc' = nextPhase
                        ELSE slot' = slot + 1 /\ spc' = spc

\* Mutant: every thread is given the address of data_rcv itself.
ShareBlock(m) == [i \in Slots |-> m]

\* malloc and memcpy: the request gets a block of its own.
CopyToBlock(m) == [data EXCEPT ![slot] = m]

\* msgrcv of the oldest request, malloc and memcpy, pthread_create: clients
\* send only the operators the switch knows, so every request gets a thread.
Recv ==
    /\ spc = "recv"
    /\ cs # <<>>
    /\ data' = CopyToBlock(Head(cs))
    /\ tpc'  = [tpc EXCEPT ![slot] = "run"]
    /\ cs'   = Tail(cs)
    /\ Advance("join")
    /\ UNCHANGED <<sc, clientVars, boundVars>>

\* Mutant: main does not wait for the threads.
JoinNothing == TRUE

\* The thread main waits for in pthread_join.
Joinable == tpc[slot] = "exited"

\* pthread_join and free(client_data[i]); after the last one main returns.
Join ==
    /\ spc = "join"
    /\ Joinable
    /\ data' = [data EXCEPT ![slot] = None]
    /\ tpc'  = [tpc EXCEPT ![slot] = "none"]
    /\ Advance("off")
    /\ UNCHANGED <<cs, sc, clientVars, boundVars>>

\* The whole process ends: its threads and their memory with it.
ExitProcess ==
    /\ spc' = "off" /\ slot' = 1
    /\ NoData /\ NoThreads

KillServer ==
    /\ spc # "off"
    /\ crashes < MaxCrashes
    /\ ExitProcess
    /\ crashes' = crashes + 1
    /\ UNCHANGED <<cs, sc, clientVars, sessions, kills, reused>>

-----------------------------------------------------------------------------
(* The threads process_add, process_sub and process_mul.                   *)

\* The result message of thread i: typed with the pid of its request block.
Reply(i) == [pid |-> data[i].pid, req |-> data[i].req]

ThreadSend(i) ==
    /\ tpc[i] = "run"
    /\ Len(sc) < QCap
    /\ sc' = Append(sc, Reply(i))
    /\ tpc' = [tpc EXCEPT ![i] = "exited"]
    /\ UNCHANGED <<cs, spc, slot, data, clientVars, boundVars>>

\* The pid is passed as msgflg.  With bit 04000 in it msgsnd fails on a full
\* queue instead of blocking, and the thread calls exit for the whole server.
ThreadSendFails(i) ==
    /\ tpc[i] = "run"
    /\ Len(sc) >= QCap
    /\ data[i].pid \in NoWaitPids
    /\ ExitProcess
    /\ UNCHANGED <<cs, sc, clientVars, boundVars>>

-----------------------------------------------------------------------------
Client(p) == Send(p) \/ Receive(p) \/ KillClient(p) \/ ReusePid(p)
Main      == Start \/ Recv \/ Join \/ KillServer
Thread(i) == ThreadSend(i) \/ ThreadSendFails(i)

Next == \/ \E p \in Pids : Client(p)
        \/ Main
        \/ \E i \in Slots : Thread(i)

Spec == Init /\ [][Next]_vars

\* A process or thread that is not blocked is eventually scheduled.  Nothing
\* obliges a user to start the server or a client, or anyone to kill them.
Fairness == /\ \A p \in Pids : WF_vars(Receive(p))
            /\ WF_vars(Recv) /\ WF_vars(Join)
            /\ \A i \in Slots : WF_vars(Thread(i))

FairSpec == Spec /\ Fairness

-----------------------------------------------------------------------------
(* Properties.                                                             *)

\* Queues, slots and clients hold values of the kinds the code gives them.
TypeOK ==
    /\ cs \in Seq(Messages) /\ sc \in Seq(Messages)
    /\ spc \in ServerStates /\ slot \in Slots
    /\ data \in [Slots -> Messages \cup {None}]
    /\ tpc \in [Slots -> ThreadStates]
    /\ cpc \in [Pids -> ClientStates]
    /\ req \in [Pids -> Requests \cup {None}]
    /\ got \in [Pids -> Requests \cup {None}]
    /\ sessions \in 0..MaxSessions /\ crashes \in 0..MaxCrashes
    /\ kills \in 0..MaxKills /\ reused \in 0..MaxReuse

\* data.h:11-13: "field pid is included so that result is sent to intended
\* process and not by any other process": a client that has received a result
\* has received the one of the request it sent.
OwnResult == \A p \in Pids : cpc[p] = "done" => got[p] = req[p]

\* Where copies of a request of pid p are: in the request queue, with a
\* running thread, or, as its result, in the result queue.
QueuedFor(p)  == {k \in 1..Len(cs) : cs[k].pid = p}
RunningFor(p) == {i \in Slots : tpc[i] = "run" /\ data[i].pid = p}
RepliedFor(p) == {k \in 1..Len(sc) : sc[k].pid = p}

Places(p) == ({"cs"} \X QueuedFor(p)) \cup ({"thread"} \X RunningFor(p))
             \cup ({"sc"} \X RepliedFor(p))

\* A request is never in two places, and none is left once its client has
\* its result: no request is computed or answered twice, whatever is killed
\* or restarted, unless the pid of a killed client is recycled.
AtMostOnce ==
    \A p \in Pids :
        /\ \A x, y \in Places(p) : x = y
        /\ cpc[p] \in {"idle", "done"} => Places(p) = {}

\* While no server is killed and no reply can fail, a waiting client's request
\* is somewhere: in particular the server never returns from main with a request
\* taken and not answered (server.c:93-102 joins every thread first).
Undisturbed == crashes = 0 /\ NoWaitPids = {}
NothingLost == Undisturbed => \A p \in Pids : cpc[p] = "waiting" => Places(p) # {}

\* server.c:9-10: each thread has a separate copy of its request, released
\* when the thread has been joined: the block of a running thread is there,
\* and holds what a client that is still owed a result has asked.
OwnBlock ==
    \A i \in Slots : tpc[i] = "run" =>
        /\ data[i] # None
        /\ data[i].req = req[data[i].pid]
        /\ cpc[data[i].pid] \in {"waiting", "gone"}

\* A request the server has taken is answered to its client, as long as the
\* client is there to receive it and the server is not killed.
TakenIsAnswered ==
    \A p \in Pids : (RunningFor(p) # {}) ~> (cpc[p] = "done")

-----------------------------------------------------------------------------
(* MsgqServer implements the calculator service: "served" is the moment    *)
(* the result enters MSGQ_S_C.                                             *)
Phase == [p \in Pids |->
            IF cpc[p] = "waiting"
            THEN IF RepliedFor(p) = {} THEN "asked" ELSE "served"
            ELSE cpc[p]]

Service == INSTANCE CalcService WITH
              Clients <- Pids, phase <- Phase, asked <- req

\* A client that asks is served and delivered its own result, in this order and
\* once, whatever the threads and the two queues do in between.
ImplementsService == Service!Spec
=============================================================================
