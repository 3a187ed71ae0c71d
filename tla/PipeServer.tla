----------------------------- MODULE PipeServer -----------------------------
(***************************************************************************)
(* pipe/pipe1 and pipe/pipe2, and what pipe/pipe3 has in common with them  *)
(* (module Pipe3).  A parent forks N requesting children, each of which    *)
(* executes a client that writes its operands to a pipe, and then N        *)
(* calculating children, to which it passes the operands and whose results *)
(* it passes back.                                                         *)
(*                                                                         *)
(* pipe2 has a pipe for every direction and child.  pipe1 has two, each    *)
(* used in both directions by all; that nobody reads back what it has      *)
(* written itself is left to sleep: one second for the parent, three for   *)
(* the requesting clients.  The program relies on processes that are       *)
(* faster than that, and so does the model: time does not go on while a    *)
(* process has something to do, but for the reads of the requesting        *)
(* clients, which may come at any time after their sleep.                  *)
(*                                                                         *)
(* Every process keeps both ends of all pipes open, so that no read comes  *)
(* to an end and no write breaks.                                          *)
(***************************************************************************)
EXTENDS Pipes, FiniteSets

VARIABLES program,  \* "pipe1", "pipe2" or "pipe3"
          pipe,     \* what is in the pipes
          pc,       \* where each process is
          left,     \* the seconds it still sleeps
          j,        \* i: loop index of the parent
          d,        \* d[i]: the request it has read
          dat,      \* result_dat: the result it has read
          op,       \* what each child has read as a request
          got       \* what each requesting client has read as its result

vars == <<program, pipe, pc, left, j, d, dat, op, got>>

Parent   == <<"parent", 0>>
ReqP(k)  == <<"req", k>>
CalcP(k) == <<"calc", k>>
Children == {ReqP(k) : k \in Req} \cup {CalcP(k) : k \in Req}
Procs    == Children \cup {Parent}

Kinds == {"reqOp", "reqRes", "calcOp", "calcRes"}
AllPipes == ({"req", "calc"} \X {0}) \cup (Kinds \X Req)

\* The pipe for what: of the parent and the children, or of child k alone.
Pipe(kind, k) ==
    IF program = "pipe2" THEN <<kind, k>>
    ELSE IF kind \in {"reqOp", "reqRes"} THEN <<"req", 0>> ELSE <<"calc", 0>>

Noise == [of |-> None, part |-> 0]

Init ==
    /\ pipe = [q \in AllPipes |-> <<>>]
    /\ pc = [p \in Procs |-> IF p = Parent THEN "fork" ELSE "none"]
    /\ left = [p \in Procs |-> 0]
    /\ j = 1 /\ d = [k \in Req |-> <<Noise, Noise, Noise>>] /\ dat = <<>>
    /\ op = [p \in Children |-> <<>>] /\ got = [k \in Req |-> <<>>]

Goto(p, l) == pc' = [pc EXCEPT ![p] = l]

Write(kind, k, words) == pipe' = [pipe EXCEPT ![Pipe(kind, k)] = @ \o words]

\* read of up to n words, and the words it reads.
Read(kind, k, n) == /\ pipe[Pipe(kind, k)] # <<>>
                    /\ pipe' = [pipe EXCEPT ![Pipe(kind, k)] = Rest(@, n)]
FirstOf(kind, k, n) == Taken(pipe[Pipe(kind, k)], n)

\* A DATA that words have been read into.
Filled(x, words) == [w \in 1..3 |-> IF w <= Len(words) THEN words[w] ELSE x[w]]

\* Mutant: nobody sleeps.
SleepNot(p, seconds) == left' = [left EXCEPT ![p] = 0]

Sleep(p, seconds) ==
    left' = [left EXCEPT ![p] = IF program = "pipe1" THEN seconds ELSE 0]

-----------------------------------------------------------------------------
(* The requesting children.                                                *)

NextRound(again, after) ==
    IF j = N THEN j' = 1 /\ Goto(Parent, after) ELSE j' = j + 1 /\ Goto(Parent, again)

ForkReq ==
    /\ pc[Parent] = "fork"
    /\ pc' = [pc EXCEPT ![Parent] = "readReq", ![ReqP(j)] = "write"]
    /\ UNCHANGED <<program, pipe, left, j, d, dat, op, got>>

ReqWrite(k) ==
    /\ pc[ReqP(k)] = "write"
    /\ Write("reqOp", k, Data(k))
    /\ Sleep(ReqP(k), 3)
    /\ Goto(ReqP(k), "read")
    /\ UNCHANGED <<program, j, d, dat, op, got>>

ReadReq(again, after) ==
    /\ pc[Parent] = "readReq"
    /\ Read("reqOp", j, 3)
    /\ d' = [d EXCEPT ![j] = Filled(@, FirstOf("reqOp", j, 3))]
    /\ NextRound(again, after)
    /\ UNCHANGED <<program, left, dat, op, got>>

ReqRead(k) ==
    /\ pc[ReqP(k)] = "read" /\ left[ReqP(k)] = 0
    /\ Read("reqRes", k, 1)
    /\ got' = [got EXCEPT ![k] = FirstOf("reqRes", k, 1)]
    /\ Goto(ReqP(k), "gone")
    /\ UNCHANGED <<program, left, j, d, dat, op>>

-----------------------------------------------------------------------------
(* The calculating children.                                               *)

\* Without an operator the child executes no client, and ends.
ForkCalc(to) ==
    /\ pc[Parent] = "forkCalc"
    /\ \E l \in IF d[j][3].part = 3 THEN {"read"} ELSE {"read", "gone"} :
          pc' = [pc EXCEPT ![Parent] = to, ![CalcP(j)] = l]
    /\ UNCHANGED <<program, pipe, left, j, d, dat, op, got>>

WriteReq ==
    /\ pc[Parent] = "writeReq"
    /\ Write("calcOp", j, d[j])
    /\ Sleep(Parent, 1)
    /\ Goto(Parent, "readRes")
    /\ UNCHANGED <<program, j, d, dat, op, got>>

CalcRead(p, l) ==
    /\ pc[p] = l
    /\ Read("calcOp", p[2], 3)
    /\ op' = [op EXCEPT ![p] = FirstOf("calcOp", p[2], 3)]
    /\ Goto(p, "compute")
    /\ UNCHANGED <<program, left, j, d, dat, got>>

CalcWrite(p) ==
    /\ pc[p] = "compute"
    /\ Write("calcRes", p[2], <<Computed(op[p])>>)
    /\ Goto(p, "gone")
    /\ UNCHANGED <<program, left, j, d, dat, op, got>>

ReadRes(to) ==
    /\ pc[Parent] = "readRes" /\ left[Parent] = 0
    /\ Read("calcRes", j, 1)
    /\ dat' = FirstOf("calcRes", j, 1)
    /\ Goto(Parent, to)
    /\ UNCHANGED <<program, left, j, d, op, got>>

WriteRes ==
    /\ pc[Parent] = "writeRes"
    /\ Write("reqRes", j, dat)
    /\ NextRound("forkCalc", "reap")
    /\ UNCHANGED <<program, left, d, dat, op, got>>

\* Mutant: wait for one child.
ReapOne(n) ==
    /\ pc[Parent] = "reap"
    /\ \E p \in Children : pc[p] = "gone"
    /\ Goto(Parent, "done")
    /\ UNCHANGED <<program, pipe, left, j, d, dat, op, got>>

\* wait for n children, of those that there are.
Reap(n) ==
    /\ pc[Parent] = "reap"
    /\ Cardinality({p \in Children : pc[p] = "gone"}) >= n
    /\ Goto(Parent, "done")
    /\ UNCHANGED <<program, pipe, left, j, d, dat, op, got>>

-----------------------------------------------------------------------------
\* pipe2 waits for as many children as it has requests, and not for all.
Waits == IF program = "pipe1" THEN 2 * N ELSE N

Main == \/ ForkReq \/ ReadReq("fork", "forkCalc")
        \/ ForkCalc("writeReq") \/ WriteReq \/ ReadRes("writeRes") \/ WriteRes
        \/ Reap(Waits)
Requester(k)  == ReqWrite(k) \/ ReqRead(k)
Calculator(k) == CalcRead(CalcP(k), "read") \/ CalcWrite(CalcP(k))

\* There is something to read.
Ready(kind, k) == pipe[Pipe(kind, k)] # <<>>

\* Some process has something to do that the sleeps are there to wait for: one
\* of the steps above but ReqRead is enabled.
Busy ==
    \/ pc[Parent] \in {"fork", "forkCalc", "writeReq", "writeRes"}
    \/ pc[Parent] = "readReq" /\ Ready("reqOp", j)
    \/ pc[Parent] = "readRes" /\ left[Parent] = 0 /\ Ready("calcRes", j)
    \/ pc[Parent] = "reap" /\ Cardinality({p \in Children : pc[p] = "gone"}) >= Waits
    \/ \E k \in Req : \/ pc[ReqP(k)] = "write" \/ pc[CalcP(k)] = "compute"
                      \/ pc[CalcP(k)] = "read" /\ Ready("calcOp", k)

\* A second of all sleeps.
Tick ==
    /\ \E p \in Procs : left[p] > 0
    /\ ~Busy
    /\ left' = [p \in Procs |-> IF left[p] > 0 THEN left[p] - 1 ELSE 0]
    /\ UNCHANGED <<program, pipe, pc, j, d, dat, op, got>>

-----------------------------------------------------------------------------
(* Properties.                                                             *)

\* pipe2: a client reads its own result.  pipe1: though the parent reads
\* calc_fds right after it has written there (server.c:61-64), and clients read
\* req_fds while results are still written to it, requests and results are
\* read whole, and no result twice.
Delivered ==
    /\ \A k \in Req : d[k] \in {<<Noise, Noise, Noise>>} \cup {Data(r) : r \in Req}
    /\ \A p \in Children : op[p] \in {<<>>} \cup {Data(r) : r \in Req}
    /\ \A k \in Req : got[k] \in {<<>>} \cup Results
    /\ \A k, r \in Req : got[k] = got[r] /\ got[k] # <<>> => k = r
    /\ program = "pipe2" => \A k \in Req : got[k] \in {<<>>, <<Computed(Data(k))>>}

\* Parent and children have come to their end.
Ended == pc[Parent] = "done" /\ \A p \in Children : pc[p] \in {"none", "gone"}
=============================================================================
