----------------------------- MODULE FifoServer -----------------------------
(***************************************************************************)
(* fifo/client_server1: the server takes a request from each of N          *)
(* requesting clients, in turn, then passes each to a calculating client   *)
(* and the result back.  Every client has two FIFOs of its own with fixed  *)
(* names, my_ro and my_rr or my_co and my_cr.  The server creates those    *)
(* that are not there yet, each just before it opens it, and never removes *)
(* them; a client that comes earlier fails to open its FIFO.  Nobody looks *)
(* at what open, read and write return: a client goes on without a         *)
(* descriptor, and a read at the end of a FIFO leaves its buffer alone.    *)
(*                                                                         *)
(* A FIFO has one reader and one writer.  The open of each waits for the   *)
(* other, and a write that nobody can read kills the writer (SIGPIPE).     *)
(***************************************************************************)
EXTENDS Pipes

CONSTANTS Leftover,   \* how many FIFOs an earlier run may have created
          MaxKills    \* bound: processes terminated from outside

ASSUME FifoAssumption == Leftover \subseteq 0..4 * N /\ MaxKills \in Nat

VARIABLES made,    \* the FIFOs that exist
          ends,    \* who has which FIFO open, or waits in its open
          met,     \* the FIFOs whose opens have found each other
          fifo,    \* what is in them
          pc,      \* the call each process has come to, and for which kind
          i,       \* loop index of the server
          d,       \* d[i]: the request it has read
          res,     \* the result it has read
          b,       \* what each calculating client has read
          got,     \* what each requesting client has read
          kills    \* processes terminated from outside

dataVars == <<i, d, res, b, got, kills>>
vars == <<made, ends, met, fifo, pc, dataVars>>

Kinds == {"ro", "rr", "co", "cr"}
Fifos == Kinds \X Req

Server   == <<"server", 0>>
ReqP(k)  == <<"req", k>>
CalcP(k) == <<"calc", k>>
Clients  == {ReqP(k) : k \in Req} \cup {CalcP(k) : k \in Req}
Procs    == Clients \cup {Server}

\* What is in n words that nothing has been read into.
Garbage(n) == [w \in 1..n |-> [of |-> None, part |-> 0]]

\* The order in which the server creates the FIFOs.
Turn(f) == CASE f[1] = "ro" -> f[2]
             [] f[1] = "co" -> N + 3 * f[2] - 2
             [] f[1] = "cr" -> N + 3 * f[2] - 1
             [] f[1] = "rr" -> N + 3 * f[2]

\* An earlier run has created the first of them, or all, or none.
Init ==
    /\ \E n \in Leftover : made = {f \in Fifos : Turn(f) <= n}
    /\ ends = {} /\ met = {}
    /\ fifo = [f \in Fifos |-> <<>>]
    /\ pc = [p \in Procs |-> CASE p[1] = "server" -> <<"make", "ro">>
                               [] p[1] = "req"    -> <<"open", "ro">>
                               [] p[1] = "calc"   -> <<"open", "co">>]
    /\ i = 1 /\ d = [k \in Req |-> Garbage(3)] /\ res = Garbage(1)
    /\ b = [k \in Req |-> Garbage(3)] /\ got = [k \in Req |-> Garbage(1)]
    /\ kills = 0

-----------------------------------------------------------------------------
(* Opening, reading and writing, which all processes do alike.             *)

Goto(p, call, kind) == pc' = [pc EXCEPT ![p] = <<call, kind>>]
At(p, call, kind) == pc[p] = <<call, kind>>
Fifo(p) == <<pc[p][2], IF p = Server THEN i ELSE p[2]>>

\* The process at the other side of a FIFO.
Client(f) == IF f[1] \in {"ro", "rr"} THEN ReqP(f[2]) ELSE CalcP(f[2])
Other(p, f) == IF p = Server THEN Client(f) ELSE Server
Reached(p) == <<Other(p, Fifo(p)), Fifo(p)>> \in ends

\* The exit of a process, or its end by a signal, closes what it has open.
End(p, how) ==
    /\ Goto(p, how, "none")
    /\ ends' = {e \in ends : e[1] # p}

Open(p) ==
    /\ pc[p][1] = "open" /\ Fifo(p) \in made
    /\ ends' = ends \cup {<<p, Fifo(p)>>}
    /\ met' = met \cup (IF Reached(p) THEN {Fifo(p)} ELSE {})
    /\ Goto(p, "wait", pc[p][2])
    /\ UNCHANGED <<made, fifo, dataVars>>

\* Requests and results are written by one side and read by the other.
Writes(p) == pc[p][2] \in (IF p = Server THEN {"co", "rr"} ELSE {"ro", "cr"})

\* The open returns.
Opened(p) ==
    /\ pc[p][1] = "wait" /\ Fifo(p) \in met
    /\ Goto(p, IF Writes(p) THEN "write" ELSE "read", pc[p][2])
    /\ UNCHANGED <<made, ends, met, fifo, dataVars>>

\* SIGPIPE.
Broken(p) ==
    /\ pc[p][1] = "write" /\ ~Reached(p)
    /\ End(p, "broken")
    /\ UNCHANGED <<made, met, fifo, dataVars>>

Put(p, kind, words) ==
    /\ At(p, "write", kind) /\ Reached(p)
    /\ fifo' = [fifo EXCEPT ![Fifo(p)] = @ \o words]

\* Mutant: a read that does not wait.
GetNoWait(p, kind, n) ==
    /\ At(p, "read", kind)
    /\ fifo' = [fifo EXCEPT ![Fifo(p)] = Rest(@, n)]

\* read of up to n words; without a writer it returns at once.
Get(p, kind, n) ==
    /\ At(p, "read", kind)
    /\ fifo[Fifo(p)] # <<>> \/ ~Reached(p)
    /\ fifo' = [fifo EXCEPT ![Fifo(p)] = Rest(@, n)]

\* What is in the buffer after the read.
Buffer(p, n, before) ==
    IF fifo[Fifo(p)] = <<>> THEN before ELSE Taken(fifo[Fifo(p)], n)

-----------------------------------------------------------------------------
(* The clients.                                                            *)

\* open returns -1, and so does the read or write that follows.
OpenFails(p) ==
    /\ p # Server /\ pc[p][1] = "open" /\ Fifo(p) \notin made
    /\ CASE pc[p][2] = "ro" -> Goto(p, "open", "rr") /\ UNCHANGED ends
         [] pc[p][2] = "co" -> Goto(p, "open", "cr") /\ UNCHANGED ends
         [] OTHER -> End(p, "gone")
    /\ UNCHANGED <<made, met, fifo, dataVars>>

ReqWrite(k) ==
    /\ Put(ReqP(k), "ro", Data(k))
    /\ Goto(ReqP(k), "open", "rr")
    /\ UNCHANGED <<made, ends, met, dataVars>>

ReqRead(k) ==
    /\ Get(ReqP(k), "rr", 1)
    /\ got' = [got EXCEPT ![k] = Buffer(ReqP(k), 1, @)]
    /\ End(ReqP(k), "gone")
    /\ UNCHANGED <<made, met, i, d, res, b, kills>>

CalcRead(k) ==
    /\ Get(CalcP(k), "co", 3)
    /\ b' = [b EXCEPT ![k] = Buffer(CalcP(k), 3, @)]
    /\ Goto(CalcP(k), "open", "cr")
    /\ UNCHANGED <<made, ends, met, i, d, res, got, kills>>

CalcWrite(k) ==
    /\ Put(CalcP(k), "cr", <<Computed(b[k])>>)
    /\ End(CalcP(k), "gone")
    /\ UNCHANGED <<made, met, dataVars>>

-----------------------------------------------------------------------------
(* The server.                                                             *)

\* create_fifo.
Make ==
    /\ pc[Server][1] = "make"
    /\ made' = made \cup {Fifo(Server)}
    /\ Goto(Server, "open", pc[Server][2])
    /\ UNCHANGED <<ends, met, fifo, dataVars>>

\* Mutant: one round too many.
NextRoundTooFar(again, after) ==
    IF i > N THEN i' = 1 /\ Goto(Server, after[1], after[2])
    ELSE i' = i + 1 /\ Goto(Server, "make", again)

NextRound(again, after) ==
    IF i = N THEN i' = 1 /\ Goto(Server, after[1], after[2])
    ELSE i' = i + 1 /\ Goto(Server, "make", again)

Close(kinds) == ends' = {e \in ends : e[1] = Server => e[2] \notin kinds \X {i}}

\* Mutant: the server opens my_cr first, and the client my_co.
ReadReqThenRes ==
    /\ Get(Server, "ro", 3)
    /\ d' = [d EXCEPT ![i] = Buffer(Server, 3, @)]
    /\ Close({"ro"})
    /\ NextRound("ro", <<"make", "cr">>)
    /\ UNCHANGED <<made, met, res, b, got, kills>>

\* The read of the request, and the close.
ReadReq ==
    /\ Get(Server, "ro", 3)
    /\ d' = [d EXCEPT ![i] = Buffer(Server, 3, @)]
    /\ Close({"ro"})
    /\ NextRound("ro", <<"make", "co">>)
    /\ UNCHANGED <<made, met, res, b, got, kills>>

\* Mutant: the first request for every calculating client.
WriteFirst ==
    /\ Put(Server, "co", d[1])
    /\ Goto(Server, "make", "cr")
    /\ UNCHANGED <<made, ends, met, dataVars>>

WriteReq ==
    /\ Put(Server, "co", d[i])
    /\ Goto(Server, "make", "cr")
    /\ UNCHANGED <<made, ends, met, dataVars>>

ReadRes ==
    /\ Get(Server, "cr", 1)
    /\ res' = Buffer(Server, 1, res)
    /\ Goto(Server, "make", "rr")
    /\ UNCHANGED <<made, ends, met, i, d, b, got, kills>>

\* The write of the result, and the three closes.
WriteRes ==
    /\ Put(Server, "rr", res)
    /\ Close({"co", "cr", "rr"})
    /\ NextRound("co", <<"done", "none">>)
    /\ UNCHANGED <<made, met, d, res, b, got, kills>>

-----------------------------------------------------------------------------
\* A process is terminated from outside.
Kill(p) ==
    /\ kills < MaxKills
    /\ pc[p][1] \notin {"gone", "done", "broken", "killed"}
    /\ End(p, "killed")
    /\ kills' = kills + 1
    /\ UNCHANGED <<made, met, fifo, i, d, res, b, got>>

Call(p) == Open(p) \/ Opened(p) \/ Broken(p)
Main == Call(Server) \/ Make \/ ReadReq \/ WriteReq \/ ReadRes \/ WriteRes
Requester(k) == Call(ReqP(k)) \/ OpenFails(ReqP(k)) \/ ReqWrite(k) \/ ReqRead(k)
Calculator(k) == Call(CalcP(k)) \/ OpenFails(CalcP(k)) \/ CalcRead(k) \/ CalcWrite(k)

Next == \/ Main
        \/ \E k \in Req : Requester(k) \/ Calculator(k)
        \/ \E p \in Procs : Kill(p)

Spec == Init /\ [][Next]_vars

\* Every client is started some time, and who can go on is scheduled.
FairSpec == /\ Spec /\ WF_vars(Main)
            /\ \A k \in Req : WF_vars(Requester(k)) /\ WF_vars(Calculator(k))

-----------------------------------------------------------------------------
(* Properties.                                                             *)

\* The calls a process can have come to, and how it can have ended.
Calls == {"make", "open", "wait", "read", "write", "done", "gone", "broken", "killed"}

\* Every variable holds values of the kinds the programs give it, and only
\* FIFOs that exist are open.
TypeOK ==
    /\ made \subseteq Fifos /\ met \subseteq made
    /\ ends \subseteq Procs \X made
    /\ fifo \in [Fifos -> Seq(Words)]
    /\ pc \in [Procs -> Calls \X (Kinds \cup {"none"})]
    /\ i \in Req
    /\ d \in [Req -> [1..3 -> Words]] /\ res \in [1..1 -> Words]
    /\ b \in [Req -> [1..3 -> Words]] /\ got \in [Req -> [1..1 -> Words]]
    /\ kills \in 0..MaxKills

Has(p, how) == pc[p][1] = how

\* A client that got through to the server reads the result of its own request
\* (req1.c:27).  The server keeps the last result in res when a calculating
\* client is terminated before it has written one (server.c:72), and passes
\* that on; nothing else gives a client the result of another.
OwnOrKilled ==
    \A k \in Req :
        /\ Has(ReqP(k), "gone") /\ <<"rr", k>> \in met
        /\ got[k] # <<Computed(Data(k))>>
        => Has(CalcP(k), "killed") \/ Has(Server, "killed")

\* SIGPIPE ends the server only if the client it writes to was terminated, and
\* a client only if the server was: otherwise nobody closes its end before the
\* other has written (server.c:54 and 83-85, req1.c:29, calc2.c:28).
BrokenByKill ==
    /\ Has(Server, "broken") => Has(ReqP(i), "killed") \/ Has(CalcP(i), "killed")
    /\ \A p \in Clients : Has(p, "broken") => Has(Server, "killed")

\* A client came to open a FIFO before the server had created it.
Missed(p) == Has(p, "gone") /\ \E f \in Fifos : Client(f) = p /\ f \notin met

\* Server and clients open their FIFOs in the same order, and nobody waits in
\* an open for ever (server.c:50, 62, 70, 79): all come to their end, unless a
\* client came too early on a first run, or a process was terminated.
EndOrMissed ==
    <>(\/ Has(Server, "done") /\ \A p \in Clients : Has(p, "gone")
       \/ kills > 0 \/ \E p \in Clients : Missed(p))
=============================================================================
