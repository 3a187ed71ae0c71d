----------------------------- MODULE SemServer -----------------------------
(***************************************************************************)
(* threads/client_server_semaphore: the calculator over two FIFOs, three   *)
(* named semaphores and two signals.  A client takes sem1, opens FIFO_C_S, *)
(* writes its request field by field and posts sem1; it then opens         *)
(* FIFO_S_C, waits for SIGUSR1, reads one result, waits for SIGUSR2 and    *)
(* only then closes FIFO_C_S.  The server opens FIFO_C_S for every request,*)
(* reads four fields, closes it and starts a thread; the threads take sem2 *)
(* in turn, open FIFO_S_C through one global descriptor, write, close and  *)
(* signal.  Having taken MAX_THREAD requests the server joins the threads, *)
(* sending SIGUSR2 to the client of each.                                  *)
(*                                                                         *)
(* The FIFOs behave as in fifo(7): an open waits for the other side, but   *)
(* not if the other side is open already, and has succeeded for good once  *)
(* the other side has come; a write that nobody can read kills the writer  *)
(* (SIGPIPE); a read of an empty FIFO waits, or returns 0 if nobody can    *)
(* write; what is in a FIFO is lost when the last descriptor is closed.    *)
(*                                                                         *)
(* Requests are bytes: each stands for the client and the field of DATA it *)
(* belongs to, so that a read that came too early shifts those after it.   *)
(* A field read whole, and a result, stand for the client whose they are;  *)
(* None is any other value, and as a pid no process.  Not modelled: sem3,  *)
(* which is adjusted at the start and never used, and clients that start   *)
(* before the server is ready (server.c:24-28 forbids it).                 *)
(*                                                                         *)
(* threads/client_server_mutex has the same server, with '+' for the only  *)
(* operator, and the same client1 and client2.                             *)
(***************************************************************************)
EXTENDS Naturals, Sequences, FiniteSets

CONSTANTS Clients,    \* the client processes, each run once
          None,       \* a field or result that was not read
          MaxThread,  \* MAX_THREAD, the requests the server takes
          Leftover,   \* values an earlier run may have left in a semaphore
          MaxKills    \* bound: clients terminated from outside

ASSUME ConstantsAssumption ==
    /\ None \notin Clients
    /\ MaxThread \in Nat \ {0}
    /\ Leftover \subseteq 0..2   \* what main (server.c:90-104) provides for
    /\ MaxKills \in Nat

Slots   == 1..MaxThread
NFields == 4                 \* pid, op1, op2, ops
Bytes   == Clients \X (1..NFields)

\* sizeof(int), and sizeof(char) for ops.
SizeOf(f) == IF f = NFields THEN 1 ELSE 4

VARIABLES sem1, sem2,  \* semaphore values
          cs,          \* the bytes in FIFO_C_S
          sc,          \* the results in FIFO_S_C
          scOpen,      \* threads that hold FIFO_S_C open (or wait in open)
          fdw,         \* the global fd_w: the thread whose open returned it
          cpc,         \* where each client is
          wrote,       \* fields each client has written
          flag1,       \* sig_flag1: SIGUSR1 has come
          flag2,       \* sig_flag2: SIGUSR2 has come
          got,         \* the result each client has read
          spc,         \* where the server's main thread is
          slot,        \* the loop index i of main
          d1,          \* the fields read into d1[i]
          count,       \* thread_count
          tpc,         \* the state of thread_arr[i]
          kills        \* clients terminated from outside

fifoVars   == <<cs, sc, scOpen, fdw>>
clientVars == <<cpc, wrote, flag1, flag2, got>>
mainVars   == <<spc, slot, d1, count>>
vars == <<sem1, sem2, fifoVars, clientVars, mainVars, tpc, kills>>

\* The client's fd_w on FIFO_C_S is open from its open to its exit.
ReqFdStates == {"openReqWait", "write", "post", "openRes", "openResWait",
                "await1", "read", "closeRes", "await2"}
ResFdStates == {"openResWait", "await1", "read", "closeRes"}

ClientStates == {"start", "openReq", "done", "dead"} \cup ReqFdStates
ThreadStates == {"none", "wait", "open", "openWait", "assign", "write", "close",
                 "notify", "post", "exited"}
ServerStates == {"startup", "open", "openWait", "read", "switch", "join",
                 "done", "dead"}

-----------------------------------------------------------------------------
(* Who has the FIFOs open.                                                 *)
CsWriters == {c \in Clients : cpc[c] \in ReqFdStates}
CsHasReader == spc \in {"openWait", "read", "switch"}
ScReaders == {c \in Clients : cpc[c] \in ResFdStates}

\* What stays in a FIFO that held q, in the next state.
KeptCs(q) == IF (CsWriters = {} /\ ~CsHasReader)' THEN <<>> ELSE q
KeptSc(q) == IF (ScReaders = {} /\ scOpen = {})'  THEN <<>> ELSE q

Init ==
    /\ sem1 \in Leftover /\ sem2 \in Leftover
    /\ cs = <<>> /\ sc = <<>> /\ scOpen = {} /\ fdw = None
    /\ cpc = [c \in Clients |-> "start"]
    /\ wrote = [c \in Clients |-> 0]
    /\ flag1 = [c \in Clients |-> FALSE] /\ flag2 = [c \in Clients |-> FALSE]
    /\ got = [c \in Clients |-> None]
    /\ spc = "startup" /\ slot = 1 /\ count = 0
    /\ d1 = [i \in Slots |-> <<>>]
    /\ tpc = [i \in Slots |-> "none"]
    /\ kills = 0

-----------------------------------------------------------------------------
\* Mutant: the sem_post is forgotten.
PostForgotten(v) == v

\* sem_post.
Posted(v) == v + 1

-----------------------------------------------------------------------------
(* The client.                                                             *)
Goto(c, s) == cpc' = [cpc EXCEPT ![c] = s]

\* sem_wait(sem1), once the server is ready.
CWait(c) ==
    /\ cpc[c] = "start"
    /\ spc # "startup"
    /\ sem1 > 0
    /\ sem1' = sem1 - 1
    /\ Goto(c, "openReq")
    /\ UNCHANGED <<sem2, fifoVars, wrote, flag1, flag2, got, mainVars, tpc, kills>>

\* open(FIFO_C_S, O_WRONLY): wakes the server if that waits in its own open.
COpenReq(c) ==
    /\ cpc[c] = "openReq"
    /\ Goto(c, IF CsHasReader THEN "write" ELSE "openReqWait")
    /\ spc' = IF spc = "openWait" THEN "read" ELSE spc
    /\ UNCHANGED <<sem1, sem2, fifoVars, wrote, flag1, flag2, got, slot, d1,
                   count, tpc, kills>>

\* Mutants: one field too many, and one too few.
WritesTooMany(n) == n = NFields
WritesTooFew(n)  == n + 1 = NFields - 1

\* The write of the next field, of which the client has written n before.
LastWritten(n) == n + 1 = NFields

CWrite(c) ==
    /\ cpc[c] = "write"
    /\ CsHasReader
    /\ wrote' = [wrote EXCEPT ![c] = @ + 1]
    /\ cs' = cs \o [b \in 1..SizeOf(wrote[c] + 1) |-> <<c, wrote[c] + 1>>]
    /\ Goto(c, IF LastWritten(wrote[c]) THEN "post" ELSE "write")
    /\ UNCHANGED <<sem1, sem2, sc, scOpen, fdw, flag1, flag2, got, mainVars, tpc, kills>>

\* SIGPIPE: the server has closed FIFO_C_S since the client opened it.
CWriteBroken(c) ==
    /\ cpc[c] = "write"
    /\ ~CsHasReader
    /\ Goto(c, "dead")
    /\ UNCHANGED <<sem1, sem2, sc, scOpen, fdw, wrote, flag1, flag2, got,
                   mainVars, tpc, kills>>
    /\ cs' = KeptCs(cs)

CPost(c) ==
    /\ cpc[c] = "post"
    /\ sem1' = Posted(sem1)
    /\ Goto(c, "openRes")
    /\ UNCHANGED <<sem2, fifoVars, wrote, flag1, flag2, got, mainVars, tpc, kills>>

\* open(FIFO_S_C, O_RDONLY): wakes the threads that wait in their open.
COpenRes(c) ==
    /\ cpc[c] = "openRes"
    /\ Goto(c, IF scOpen # {} THEN "await1" ELSE "openResWait")
    /\ tpc' = [i \in Slots |-> IF tpc[i] = "openWait" THEN "assign" ELSE tpc[i]]
    /\ UNCHANGED <<sem1, sem2, fifoVars, wrote, flag1, flag2, got, mainVars, kills>>

\* sigsuspend until SIGUSR1 has been handled.
CAwait1(c) ==
    /\ cpc[c] = "await1"
    /\ flag1[c]
    /\ flag1' = [flag1 EXCEPT ![c] = FALSE]
    /\ Goto(c, "read")
    /\ UNCHANGED <<sem1, sem2, fifoVars, wrote, flag2, got, mainVars, tpc, kills>>

\* read of one result; the return value is ignored, so the end of the FIFO
\* leaves the client without a result.
CRead(c) ==
    /\ cpc[c] = "read"
    /\ \/ /\ sc # <<>>
          /\ got' = [got EXCEPT ![c] = Head(sc)]
          /\ sc' = Tail(sc)
       \/ /\ sc = <<>> /\ scOpen = {}
          /\ UNCHANGED <<got, sc>>
    /\ Goto(c, "closeRes")
    /\ UNCHANGED <<sem1, sem2, cs, scOpen, fdw, wrote, flag1, flag2, mainVars, tpc, kills>>

CCloseRes(c) ==
    /\ cpc[c] = "closeRes"
    /\ Goto(c, "await2")
    /\ UNCHANGED <<sem1, sem2, cs, scOpen, fdw, wrote, flag1, flag2, got,
                   mainVars, tpc, kills>>
    /\ sc' = KeptSc(sc)

\* Mutant: the client closes FIFO_C_S as soon as it has its result.
ReleasedAtOnce(c) == TRUE

\* The server lets go of the client: SIGUSR2 has been handled.
Released(c) == flag2[c]

\* sigsuspend until then, close(fd_w) and exit.
CAwait2(c) ==
    /\ cpc[c] = "await2"
    /\ Released(c)
    /\ flag2' = [flag2 EXCEPT ![c] = FALSE]
    /\ Goto(c, "done")
    /\ UNCHANGED <<sem1, sem2, sc, scOpen, fdw, wrote, flag1, got, mainVars, tpc, kills>>
    /\ cs' = KeptCs(cs)

\* The client is terminated from outside.
CKill(c) ==
    /\ cpc[c] \notin {"start", "done", "dead"}
    /\ kills < MaxKills
    /\ kills' = kills + 1
    /\ Goto(c, "dead")
    /\ UNCHANGED <<sem1, sem2, scOpen, fdw, wrote, flag1, flag2, got, mainVars, tpc>>
    /\ cs' = KeptCs(cs) /\ sc' = KeptSc(sc)

\* What a signal does to client c besides setting its flag: sa_flags is never
\* initialised (client1.c:33-46), so an open or read that waits either goes on
\* or fails with EINTR, after which the client exits or goes without a result.
AfterSignal(c) ==
    {cpc[c]} \cup (IF cpc[c] = "openResWait" THEN {"dead"} ELSE {})
             \cup (IF cpc[c] = "read" /\ sc = <<>> /\ scOpen # {} THEN {"closeRes"} ELSE {})

-----------------------------------------------------------------------------
(* The server's main thread.                                               *)

\* Mutants: main does not look for a value of 2, or of 0.
Adjusted0(v) == IF v = 0 THEN Posted(v) ELSE v
Adjusted2(v) == IF v = 2 THEN v - 1 ELSE v

\* A semaphore found at v by sem_getvalue, after the sem_post or sem_wait.
Adjusted(v) == IF v = 0 THEN Posted(v) ELSE IF v = 2 THEN v - 1 ELSE v

\* sem_open, the adjustments and create_fifo, before any client runs.
Startup ==
    /\ spc = "startup"
    /\ sem1' = Adjusted(sem1) /\ sem2' = Adjusted(sem2)
    /\ spc' = "open"
    /\ UNCHANGED <<fifoVars, clientVars, slot, d1, count, tpc, kills>>

\* open(FIFO_C_S, O_RDONLY): wakes a client that waits in its own open.
OpenReq ==
    /\ spc = "open"
    /\ spc' = IF CsWriters # {} THEN "read" ELSE "openWait"
    /\ cpc' = [c \in Clients |-> IF cpc[c] = "openReqWait" THEN "write" ELSE cpc[c]]
    /\ UNCHANGED <<sem1, sem2, fifoVars, wrote, flag1, flag2, got, slot, d1,
                   count, tpc, kills>>

\* Mutant: the operator field is not read.
ReadsTooFew(n) == n + 1 = NFields - 1

\* The read of the next field of d1[i], of which n are there.
LastRead(n) == n + 1 = NFields

\* The first bytes of the FIFO are field f of client c, and all of it.
HoldsField(c, f) ==
    /\ Len(cs) >= SizeOf(f)
    /\ \A b \in 1..SizeOf(f) : cs[b] = <<c, f>>

\* The field takes what the FIFO holds, up to its size.  The return value is
\* ignored: a field read in part, or at the end of the FIFO, is garbage.
ReadField ==
    /\ spc = "read"
    /\ cs # <<>> \/ CsWriters = {}
    /\ LET f == Len(d1[slot]) + 1
       IN  /\ \/ \E c \in Clients :
                    HoldsField(c, f) /\ d1' = [d1 EXCEPT ![slot] = Append(@, c)]
              \/ /\ \A c \in Clients : ~HoldsField(c, f)
                 /\ d1' = [d1 EXCEPT ![slot] = Append(@, None)]
           /\ cs' = SubSeq(cs, SizeOf(f) + 1, Len(cs))
    /\ spc' = IF LastRead(Len(d1[slot])) THEN "switch" ELSE "read"
    /\ UNCHANGED <<sem1, sem2, sc, scOpen, fdw, clientVars, slot, count, tpc, kills>>

\* Mutant: a thread is started and not counted.
CountForgotten(n) == n

\* thread_count++.
Counted(n) == n + 1

\* close(fd_r) and the switch: a client's operator starts a thread, the
\* value of a garbage field may start one or not.
Switch ==
    /\ spc = "switch"
    /\ \/ /\ tpc' = [tpc EXCEPT ![slot] = "wait"]
          /\ count' = Counted(count)
       \/ /\ d1[slot][Len(d1[slot])] = None   \* ops
          /\ UNCHANGED <<tpc, count>>
    /\ IF slot = MaxThread THEN slot' = 1 /\ spc' = "join"
                           ELSE slot' = slot + 1 /\ spc' = "open"
    /\ UNCHANGED <<sem1, sem2, sc, scOpen, fdw, clientVars, d1, kills>>
    /\ cs' = KeptCs(cs)

\* The process ends, its threads and descriptors with it.
ProcessEnds(s) ==
    /\ spc' = s
    /\ tpc' = [i \in Slots |-> "none"]
    /\ scOpen' = {} /\ fdw' = None
    /\ cs' = KeptCs(cs) /\ sc' = KeptSc(sc)

\* Mutant: a signal is missed by a client that does not wait for it yet.
KillFlagMissed(i, f) ==
    [f EXCEPT ![d1[i][1]] = cpc[d1[i][1]] \in {"await1", "await2"}]

\* kill(pid, sig) where the pid was read into d1[i]: f is the flag it sets.
KillFlag(i, f) == IF d1[i][1] \in Clients THEN [f EXCEPT ![d1[i][1]] = TRUE] ELSE f
KillState(i) ==
    IF d1[i][1] \in Clients
    THEN \E s \in AfterSignal(d1[i][1]) : Goto(d1[i][1], s)
    ELSE cpc' = cpc

\* pthread_join and kill(SIGUSR2); after the last one main leaves the loop.
Join ==
    /\ spc = "join"
    /\ slot <= count
    /\ tpc[slot] = "exited"
    /\ flag2' = KillFlag(slot, flag2)
    /\ KillState(slot)
    /\ slot' = slot + 1
    /\ UNCHANGED <<sem1, sem2, scOpen, fdw, wrote, flag1, got, spc, d1, count, tpc, kills>>
    /\ cs' = KeptCs(cs) /\ sc' = KeptSc(sc)

\* pthread_join of a thread_arr[i] that was never set, and free of an unset
\* ret_val: an error and a signal as for a thread that was there, or a crash.
JoinUnset ==
    /\ spc = "join"
    /\ slot <= count
    /\ tpc[slot] = "none"
    /\ \/ /\ flag2' = KillFlag(slot, flag2)
          /\ KillState(slot)
          /\ slot' = slot + 1
          /\ UNCHANGED <<scOpen, fdw, spc, tpc>>
          /\ cs' = KeptCs(cs) /\ sc' = KeptSc(sc)
       \/ /\ UNCHANGED <<flag2, cpc, slot>>
          /\ ProcessEnds("dead")
    /\ UNCHANGED <<sem1, sem2, wrote, flag1, got, d1, count, kills>>

\* sem_close, sem_unlink and return: clients keep the semaphores they opened.
Finish ==
    /\ spc = "join"
    /\ slot > count
    /\ UNCHANGED <<sem1, sem2, clientVars, slot, d1, count, kills>>
    /\ ProcessEnds("done")

-----------------------------------------------------------------------------
(* The threads process_add, process_sub and process_mul.                   *)
ThreadGoto(i, s) == tpc' = [tpc EXCEPT ![i] = s]

TWait(i) ==
    /\ tpc[i] = "wait"
    /\ sem2 > 0
    /\ sem2' = sem2 - 1
    /\ ThreadGoto(i, "open")
    /\ UNCHANGED <<sem1, fifoVars, clientVars, mainVars, kills>>

\* open(FIFO_S_C, O_WRONLY): wakes the clients that wait in their open.
TOpen(i) ==
    /\ tpc[i] = "open"
    /\ scOpen' = scOpen \cup {i}
    /\ ThreadGoto(i, IF ScReaders # {} THEN "assign" ELSE "openWait")
    /\ cpc' = [c \in Clients |-> IF cpc[c] = "openResWait" THEN "await1" ELSE cpc[c]]
    /\ UNCHANGED <<sem1, sem2, cs, sc, fdw, wrote, flag1, flag2, got, mainVars, kills>>

\* fd_w = the descriptor the open returned.
TAssign(i) ==
    /\ tpc[i] = "assign"
    /\ fdw' = i
    /\ ThreadGoto(i, "write")
    /\ UNCHANGED <<sem1, sem2, cs, sc, scOpen, clientVars, mainVars, kills>>

\* Mutant: every thread is given the address of d1[0].
ResultOfFirst(i) == d1[1][2]

\* The result the thread computed from its copy of d1[i].
Result(i) == IF d1[i][2] = d1[i][3] /\ d1[i][3] = d1[i][4] THEN d1[i][2] ELSE None

\* write(fd_w): the descriptor may have been closed by another thread.
TWrite(i) ==
    /\ tpc[i] = "write"
    /\ fdw \in scOpen => ScReaders # {}
    /\ sc' = IF fdw \in scOpen THEN Append(sc, Result(i)) ELSE sc
    /\ ThreadGoto(i, "close")
    /\ UNCHANGED <<sem1, sem2, cs, scOpen, fdw, clientVars, mainVars, kills>>

\* SIGPIPE in a thread kills the server.
TWriteBroken(i) ==
    /\ tpc[i] = "write"
    /\ fdw \in scOpen /\ ScReaders = {}
    /\ UNCHANGED <<sem1, sem2, clientVars, slot, d1, count, kills>>
    /\ ProcessEnds("dead")

TClose(i) ==
    /\ tpc[i] = "close"
    /\ scOpen' = scOpen \ {fdw}
    /\ ThreadGoto(i, "notify")
    /\ UNCHANGED <<sem1, sem2, cs, fdw, clientVars, mainVars, kills>>
    /\ sc' = KeptSc(sc)

\* kill(d.pid, SIGUSR1).
TNotify(i) ==
    /\ tpc[i] = "notify"
    /\ flag1' = KillFlag(i, flag1)
    /\ KillState(i)
    /\ ThreadGoto(i, "post")
    /\ UNCHANGED <<sem1, sem2, scOpen, fdw, wrote, flag2, got, mainVars, kills>>
    /\ cs' = KeptCs(cs) /\ sc' = KeptSc(sc)

TPost(i) ==
    /\ tpc[i] = "post"
    /\ sem2' = Posted(sem2)
    /\ ThreadGoto(i, "exited")
    /\ UNCHANGED <<sem1, fifoVars, clientVars, mainVars, kills>>

-----------------------------------------------------------------------------
Client(c) == \/ CWait(c) \/ COpenReq(c) \/ CWrite(c) \/ CWriteBroken(c) \/ CPost(c)
             \/ COpenRes(c) \/ CAwait1(c) \/ CRead(c) \/ CCloseRes(c) \/ CAwait2(c)
Main      == Startup \/ OpenReq \/ ReadField \/ Switch \/ Join \/ JoinUnset \/ Finish
Thread(i) == \/ TWait(i) \/ TOpen(i) \/ TAssign(i) \/ TWrite(i) \/ TWriteBroken(i)
             \/ TClose(i) \/ TNotify(i) \/ TPost(i)

\* What somebody does who is not blocked.
Step == (\E c \in Clients : Client(c)) \/ Main \/ (\E i \in Slots : Thread(i))

Next == \/ \E c \in Clients : Client(c) \/ CKill(c)
        \/ Main
        \/ \E i \in Slots : Thread(i)

Spec == Init /\ [][Next]_vars

-----------------------------------------------------------------------------
(* Properties.                                                             *)

\* Semaphores, FIFOs, the tables of the server and the states of clients and
\* threads hold values of the kinds the code gives them; in particular no
\* client writes, and no request has, more than the four fields of DATA.
TypeOK ==
    /\ sem1 \in Nat /\ sem2 \in Nat
    /\ cs \in Seq(Bytes) /\ sc \in Seq(Clients \cup {None})
    /\ scOpen \subseteq Slots /\ fdw \in Slots \cup {None}
    /\ cpc \in [Clients -> ClientStates]
    /\ wrote \in [Clients -> 0..NFields]
    /\ flag1 \in [Clients -> BOOLEAN] /\ flag2 \in [Clients -> BOOLEAN]
    /\ got \in [Clients -> Clients \cup {None}]
    /\ spc \in ServerStates /\ slot \in 1..(MaxThread + 1)
    /\ d1 \in [Slots -> Seq(Clients \cup {None})]
    /\ count \in 0..MaxThread
    /\ tpc \in [Slots -> ThreadStates]
    /\ kills \in 0..MaxKills

\* Between sem_wait and sem_post of sem1 and of sem2 respectively.
RequestStates == {"openReq", "openReqWait", "write", "post"}
ReplyStates   == {"open", "openWait", "assign", "write", "close", "notify", "post"}

\* server.c:17-18: "Write by the client and the server are both protected by
\* semaphore": one client at a time sends its request, whatever value an
\* earlier run left in sem1 and whichever client is killed.
ReqExclusive ==
    \A b, c \in Clients : cpc[b] \in RequestStates /\ cpc[c] \in RequestStates => b = c

\* All threads write and close through the one global fd_w (server.c:54): when
\* they do, it is the open descriptor that thread has opened itself.
FdwOwned ==
    \A i \in Slots : tpc[i] \in {"write", "close"} => fdw = i /\ i \in scOpen

\* Whatever the clients' and the server's timing, each field the server reads
\* is all there, and the fields of one request are of one client: no read comes
\* too early, in the middle of another field or at the end of the FIFO
\* (server.c:11-18: clients close FIFO_C_S only when told to), unless a client is
\* killed.  That a request has all its fields is not said: see WritesAtomic.
RecordsWhole ==
    kills = 0 => \A i \in Slots : \A j \in 1..Len(d1[i]) :
                    d1[i][j] # None /\ d1[i][j] = d1[i][1]

\* server.c:16-18: "Semaphore give atomic access to data": a request of which
\* main has read a part is there to its end, or its client still writes it.
WritesAtomic ==
    kills = 0 /\ spc = "read" /\ cs = <<>> /\ d1[slot] # <<>>
        => \A c \in Clients : d1[slot][1] = c => cpc[c] # "dead"

\* A result is written once and read by one client at most.
ResultsOnce ==
    \A c \in Clients :
        Cardinality({k \in 1..Len(sc) : sc[k] = c})
            + Cardinality({b \in Clients : got[b] = c}) <= 1

\* A semaphore is at 0 only while somebody is in the section it protects, or
\* a client has died there: no normal path forgets its sem_post.
SemaphoresHeld ==
    /\ spc # "startup" /\ sem1 = 0 =>
          \E c \in Clients : cpc[c] \in RequestStates \cup {"dead"}
    /\ spc \notin {"startup", "done", "dead"} =>
          (sem2 = 0 <=> \E i \in Slots : tpc[i] \in ReplyStates)

\* server.c:14-18: as long as the server takes requests no client has closed
\* its end of FIFO_C_S, and one that has done so later had its thread joined.
ReleasedAfterServed ==
    \A c \in Clients : cpc[c] = "done" =>
        /\ spc \in {"join", "done", "dead"}
        /\ \E i \in Slots : d1[i][1] = c /\ i < slot

\* server.c:162-171: main joins thread_arr[0] to thread_arr[thread_count - 1],
\* which are the threads it has started if each request has a known operator;
\* so when it returns no thread runs that its return would end, unless a client
\* was killed and a request is garbage.
ThreadsJoined ==
    [][kills = 0 /\ Finish => \A i \in Slots : tpc[i] = "exited"]_vars

\* data.h:11-14: the result is sent to the intended process and not to any
\* other: a client reads its own result.
OwnResult == \A c \in Clients : got[c] \in {c, None}

\* Nobody is ended by a signal but because of what two clients do at once,
\* unless a client is killed.  The server dies when the reader that let a thread
\* open FIFO_S_C (server.c:238) has its result already, and has closed before the
\* write (244), while the client whose result it is has still to open.  A client
\* dies when it opens FIFO_C_S while the server reads the request of another
\* and writes after the server has closed it (client1.c:80-86), or when its
\* SIGUSR1 interrupts its open because another's let the thread go on.
BrokenByOthers ==
    kills = 0 =>
        /\ spc = "dead" => \E b, c \in Clients :
                              /\ cpc[b] \in {"await2", "done"}
                              /\ cpc[c] \in {"post", "openRes", "openResWait"}
        /\ \A c \in Clients : cpc[c] = "dead" =>
              \E b \in Clients \ {c} : wrote[b] = NFields

\* Somebody has been ended by a signal, or a client comes to FIFO_S_C when another
\* has been there for its thread, and the server has gone.
Lost == \/ spc = "dead" \/ \E c \in Clients : cpc[c] = "dead"
        \/ spc = "done" /\ \E c \in Clients : cpc[c] = "openResWait"

\* Nobody misses a signal and suspends itself for ever (client1.c:98-113), or waits
\* for a semaphore or a FIFO for ever, when as many clients come as the server has
\* threads: whenever nobody can go on all have ended, whatever the semaphores
\* were left at and in whatever order signals come.  As every client and thread
\* takes a bounded number of steps, it comes to that if whoever can go on does so.
AllEndOrLost ==
    ~ENABLED Step => Lost \/ (spc = "done" /\ \A c \in Clients : cpc[c] = "done")
=============================================================================
