-------------------------- MODULE MsgqServerProofs --------------------------
(***************************************************************************)
(* What holds of MsgqServer for any number of clients, threads, servers    *)
(* and messages.  The argument is one of places: the request of a client   *)
(* that is owed a result is in at most one of the request queue, the block *)
(* of a running thread and the result queue, unchanged; of any other       *)
(* client nothing is anywhere.  The latter is what a recycled pid needs,   *)
(* and what fails for the pid of a client that was killed while it waited: *)
(* hence the assumption that no client is killed or no pid is recycled.    *)
(***************************************************************************)
EXTENDS MsgqServer, TLAPS, SequenceTheorems

Owed(p) == cpc[p] \in {"waiting", "gone"}
Runs(i) == tpc[i] = "run"

\* What waits in the queues is what its sender asked, and is still owed.
QueuedAsAsked  == \A k \in 1..Len(cs) : Owed(cs[k].pid) /\ cs[k].req = req[cs[k].pid]
RepliedAsAsked == \A k \in 1..Len(sc) : Owed(sc[k].pid) /\ sc[k].req = req[sc[k].pid]

\* No pid is twice in a queue, or in two running threads.
QueuedOnce  == \A k, l \in 1..Len(cs) : cs[k].pid = cs[l].pid => k = l
RepliedOnce == \A k, l \in 1..Len(sc) : sc[k].pid = sc[l].pid => k = l
RunOnce     == \A i, j \in Slots :
                  Runs(i) /\ Runs(j) /\ data[i].pid = data[j].pid => i = j

\* No pid is in two of the three places.
QueuedOrRuns    == \A k \in 1..Len(cs), i \in Slots : Runs(i) => cs[k].pid # data[i].pid
RunsOrReplied   == \A k \in 1..Len(sc), i \in Slots : Runs(i) => sc[k].pid # data[i].pid
QueuedOrReplied == \A k \in 1..Len(cs), l \in 1..Len(sc) : cs[k].pid # sc[l].pid

\* A client is gone only if one was killed.
GoneIsKilled == kills = 0 => \A p \in Pids : cpc[p] # "gone"

AsAsked  == QueuedAsAsked /\ OwnBlock /\ RepliedAsAsked
OnePlace == /\ QueuedOnce /\ RunOnce /\ RepliedOnce
            /\ QueuedOrRuns /\ RunsOrReplied /\ QueuedOrReplied

IInv == TypeOK /\ GoneIsKilled /\ OwnResult /\ AsAsked /\ OnePlace

-----------------------------------------------------------------------------
(* Type correctness.                                                       *)

\* Taking a message out of a queue (msgrcv, client1.c:43) leaves a queue.
LEMMA WithoutType ==
    ASSUME NEW S, NEW s \in Seq(S), NEW k \in 1..Len(s)
    PROVE  /\ Without(s, k) \in Seq(S)
           /\ Len(Without(s, k)) = Len(s) - 1
           /\ \A j \in 1..(Len(s)-1) :
                 Without(s, k)[j] = IF j < k THEN s[j] ELSE s[j+1]
<1>1. Len(s) \in Nat /\ Len(s) - 1 \in Nat
  BY LenProperties
<1>2. \A j \in 1..(Len(s)-1) : (IF j < k THEN s[j] ELSE s[j+1]) \in S
  BY <1>1, ElementOfSeq
<1>3. QED
  BY <1>1, <1>2, IsASeq, LenProperties DEF Without

\* A running thread has a block: it is freed only once main has joined it.
HasBlock == \A i \in Slots : Runs(i) => data[i] # None

\* The first state has the types, and no running thread.
LEMMA TypeInit == Init => TypeOK /\ HasBlock
BY ConstantsAssumption DEF Init, TypeOK, HasBlock, Runs, Slots, Messages, ServerStates, ThreadStates, ClientStates

\* Every step keeps the types, and the block of a running thread.
LEMMA TypeStep == TypeOK /\ HasBlock /\ [Next]_vars => TypeOK' /\ HasBlock'
<1> SUFFICES ASSUME TypeOK, HasBlock, [Next]_vars PROVE TypeOK' /\ HasBlock'
  OBVIOUS
<1> USE ConstantsAssumption DEF TypeOK, HasBlock, Runs, Slots, ServerStates, ThreadStates, ClientStates
<1>1. ASSUME NEW p \in Pids, Send(p) PROVE TypeOK' /\ HasBlock'
  <2>1. PICK r \in Requests : cs' = Append(cs, [pid |-> p, req |-> r])
                           /\ req' = [req EXCEPT ![p] = r]
    BY <1>1 DEF Send
  <2>2. cs' \in Seq(Messages)
    BY <2>1, AppendProperties DEF Messages
  <2>3. QED
    BY <1>1, <2>1, <2>2 DEF Send, serverVars, boundVars
<1>2. ASSUME NEW p \in Pids, Receive(p) PROVE TypeOK' /\ HasBlock'
  <2>1. PICK k \in 1..Len(sc) : sc' = Without(sc, k) /\ got' = [got EXCEPT ![p] = sc[k].req]
    BY <1>2 DEF Receive
  <2>2. sc' \in Seq(Messages)
    BY <2>1, WithoutType
  <2>3. sc[k].req \in Requests
    BY <2>1, ElementOfSeq DEF Messages
  <2>4. QED
    BY <1>2, <2>1, <2>2, <2>3 DEF Receive, serverVars, boundVars
<1>3. ASSUME NEW p \in Pids, KillClient(p) PROVE TypeOK' /\ HasBlock'
  BY <1>3 DEF KillClient, serverVars
<1>4. ASSUME NEW p \in Pids, ReusePid(p) PROVE TypeOK' /\ HasBlock'
  BY <1>4 DEF ReusePid, serverVars
<1>5. CASE Start
  BY <1>5 DEF Start, NoData, NoThreads, clientVars
<1>6. CASE Recv
  <2>1. Head(cs) \in Messages /\ cs' \in Seq(Messages)
    <3>1. cs # <<>> /\ cs' = Tail(cs) /\ cs \in Seq(Messages)
      BY <1>6 DEF Recv
    <3>2. QED
      BY ONLY <3>1, HeadTailProperties
  <2>2. Head(cs) # None
    BY <2>1 DEF Messages
  <2>3. Advance("join")
    BY <1>6 DEF Recv
  <2>4. slot' \in Slots /\ spc' \in ServerStates
    BY <2>3 DEF Advance
  <2>5. QED
    BY <1>6, <2>1, <2>2, <2>4 DEF Recv, CopyToBlock, clientVars, boundVars
<1>7. CASE Join
  BY <1>7 DEF Join, Advance, clientVars, boundVars
<1>8. CASE KillServer
  BY <1>8 DEF KillServer, ExitProcess, NoData, NoThreads, clientVars
<1>9. ASSUME NEW i \in Slots, ThreadSend(i) PROVE TypeOK' /\ HasBlock'
  <2>1. data[i] \in Messages
    BY <1>9 DEF ThreadSend
  <2>2. Reply(i) \in Messages
    BY <2>1 DEF Reply, Messages
  <2>3. QED
    BY <1>9, <2>2, AppendProperties DEF ThreadSend, clientVars, boundVars
<1>10. ASSUME NEW i \in Slots, ThreadSendFails(i) PROVE TypeOK' /\ HasBlock'
  BY <1>10 DEF ThreadSendFails, ExitProcess, NoData, NoThreads, clientVars, boundVars
<1>11. CASE UNCHANGED vars
  BY <1>11 DEF vars, serverVars, clientVars, boundVars
<1>12. QED
  BY <1>1, <1>2, <1>3, <1>4, <1>5, <1>6, <1>7, <1>8, <1>9, <1>10, <1>11
     DEF Next, Client, Main, Thread

-----------------------------------------------------------------------------
(* The requests that are owed a result: each in one place, as it was asked.*)

\* What the queues and the blocks hold, element by element.
LEMMA Elements ==
    ASSUME TypeOK
    PROVE  /\ Len(cs) \in Nat /\ Len(sc) \in Nat
           /\ \A k \in 1..Len(cs) : cs[k] \in Messages /\ cs[k].pid \in Pids
           /\ \A k \in 1..Len(sc) : sc[k] \in Messages /\ sc[k].pid \in Pids
           /\ \A i \in Slots : data[i] # None => data[i].pid \in Pids /\ data[i].req \in Requests
<1>1. cs \in Seq(Messages) /\ sc \in Seq(Messages)
  BY DEF TypeOK
<1>2. /\ \A k \in 1..Len(cs) : cs[k] \in Messages
      /\ \A k \in 1..Len(sc) : sc[k] \in Messages
  BY <1>1, ElementOfSeq
<1>3. \A m \in Messages : m.pid \in Pids /\ m.req \in Requests
  BY DEF Messages
<1>4. QED
  BY <1>1, <1>2, <1>3, LenProperties DEF TypeOK

\* A new request is the only one of its client, which waits for it.
LEMMA SendStep ==
    ASSUME IInv, NEW p \in Pids, Send(p)
    PROVE  GoneIsKilled' /\ OwnResult' /\ AsAsked' /\ OnePlace'
<1>1. PICK r \in Requests : cs' = Append(cs, [pid |-> p, req |-> r])
                         /\ req' = [req EXCEPT ![p] = r]
  BY DEF Send
<1>2. /\ Len(cs') = Len(cs) + 1
      /\ \A k \in 1..Len(cs) : cs'[k] = cs[k]
      /\ cs'[Len(cs')].pid = p /\ cs'[Len(cs')].req = r
  <2>1. cs \in Seq(Messages) /\ [pid |-> p, req |-> r] \in Messages
    BY DEF IInv, TypeOK, Messages
  <2>2. QED
    BY <1>1, <2>1, AppendProperties
<1>3. /\ cpc[p] = "idle" /\ cpc' = [cpc EXCEPT ![p] = "waiting"]
      /\ UNCHANGED <<sc, got, data, tpc, kills>>
      /\ cpc \in [Pids -> ClientStates] /\ req \in [Pids -> Requests \cup {None}]
  BY DEF Send, serverVars, boundVars, IInv, TypeOK
<1>4. TypeOK
  BY DEF IInv
<1>5. GoneIsKilled' /\ OwnResult'
  BY <1>1, <1>3 DEF IInv, GoneIsKilled, OwnResult, ClientStates
<1>6. AsAsked'
  BY <1>1, <1>2, <1>3, <1>4, Elements
     DEF IInv, AsAsked, QueuedAsAsked, OwnBlock, RepliedAsAsked, Owed
<1>7. \A k \in 1..Len(cs) : cs[k].pid # p
  BY <1>3 DEF IInv, AsAsked, QueuedAsAsked, Owed
<1>8. \A k \in 1..Len(sc) : sc[k].pid # p
  BY <1>3 DEF IInv, AsAsked, RepliedAsAsked, Owed
<1>9. \A i \in Slots : Runs(i) => data[i].pid # p
  BY <1>3 DEF IInv, AsAsked, OwnBlock, Runs
<1>10. \A k \in 1..Len(cs') : k \in 1..Len(cs) \/ k = Len(cs')
  BY <1>2, <1>4, Elements
<1>11. OnePlace'
  <2>1. QueuedOnce'
    BY <1>2, <1>7, <1>10 DEF IInv, OnePlace, QueuedOnce
  <2>2. QueuedOrRuns' /\ QueuedOrReplied'
    BY <1>2, <1>3, <1>8, <1>9, <1>10
       DEF IInv, OnePlace, QueuedOrRuns, QueuedOrReplied, Runs
  <2>3. RunOnce' /\ RepliedOnce' /\ RunsOrReplied'
    BY <1>3 DEF IInv, OnePlace, RunOnce, RepliedOnce, RunsOrReplied, Runs
  <2>4. QED
    BY <2>1, <2>2, <2>3 DEF OnePlace
<1>12. QED
  BY <1>5, <1>6, <1>11

\* A client takes the first result with its pid, and that is the only one.
LEMMA ReceiveStep ==
    ASSUME IInv, NEW p \in Pids, Receive(p)
    PROVE  GoneIsKilled' /\ OwnResult' /\ AsAsked' /\ OnePlace'
<1>1. PICK k \in 1..Len(sc) : /\ IsFirstFor(p, k)
                             /\ got' = [got EXCEPT ![p] = sc[k].req]
                             /\ sc' = Without(sc, k)
  BY DEF Receive
<1>2. /\ cpc' = [cpc EXCEPT ![p] = "done"]
      /\ UNCHANGED <<cs, req, data, tpc, kills>>
      /\ cpc \in [Pids -> ClientStates] /\ got \in [Pids -> Requests \cup {None}]
      /\ TypeOK
  BY DEF Receive, serverVars, boundVars, IInv, TypeOK
<1>3. sc[k].pid = p /\ sc[k].req = req[p]
  BY <1>1 DEF IInv, AsAsked, RepliedAsAsked, IsFirstFor
<1>4. /\ Len(sc') = Len(sc) - 1
      /\ \A j \in 1..Len(sc') : sc'[j] = IF j < k THEN sc[j] ELSE sc[j+1]
  BY <1>1, <1>2, WithoutType DEF TypeOK
<1> DEFINE Was(j) == IF j < k THEN j ELSE j+1
<1>5. /\ \A j \in 1..Len(sc') : Was(j) \in 1..Len(sc) /\ Was(j) # k /\ sc'[j] = sc[Was(j)]
      /\ \A i, j \in 1..Len(sc') : Was(i) = Was(j) => i = j
  BY <1>2, <1>4, Elements
<1> HIDE DEF Was
<1>6. /\ \A j \in 1..Len(sc') : sc'[j].pid # p
      /\ \A j \in 1..Len(cs) : cs[j].pid # p
      /\ \A i \in Slots : Runs(i) => data[i].pid # p
  BY <1>3, <1>5 DEF IInv, OnePlace, RepliedOnce, QueuedOrReplied, RunsOrReplied
<1>7. GoneIsKilled' /\ OwnResult'
  BY <1>1, <1>2, <1>3 DEF IInv, GoneIsKilled, OwnResult, ClientStates
<1>8. AsAsked'
  <2>1. QueuedAsAsked'
    BY <1>2, <1>6, Elements DEF IInv, AsAsked, QueuedAsAsked, Owed
  <2>2. RepliedAsAsked'
    BY <1>2, <1>5, <1>6, Elements DEF IInv, AsAsked, RepliedAsAsked, Owed
  <2>3. OwnBlock'
    BY <1>2, <1>6, Elements DEF IInv, AsAsked, OwnBlock, Runs
  <2>4. QED
    BY <2>1, <2>2, <2>3 DEF AsAsked
<1>9. OnePlace'
  <2>1. QueuedOnce' /\ RunOnce' /\ QueuedOrRuns'
    BY <1>2 DEF IInv, OnePlace, QueuedOnce, RunOnce, QueuedOrRuns, Runs
  <2>2. RepliedOnce'
    <3> SUFFICES ASSUME NEW i \in 1..Len(sc'), NEW j \in 1..Len(sc'), sc'[i].pid = sc'[j].pid
                 PROVE  i = j
      BY DEF RepliedOnce
    <3>1. Was(i) = Was(j)
      BY <1>5 DEF IInv, OnePlace, RepliedOnce
    <3>2. QED
      BY <3>1, <1>5
  <2>3. RunsOrReplied' /\ QueuedOrReplied'
    BY <1>2, <1>5, SMTT(20) DEF IInv, OnePlace, RunsOrReplied, QueuedOrReplied, Runs
  <2>4. QED
    BY <2>1, <2>2, <2>3 DEF OnePlace
<1>10. QED
  BY <1>7, <1>8, <1>9

\* A killed client goes on being owed its result.
LEMMA KillClientStep ==
    ASSUME IInv, NEW p \in Pids, KillClient(p)
    PROVE  GoneIsKilled' /\ OwnResult' /\ AsAsked' /\ OnePlace'
<1>1. /\ cpc' = [cpc EXCEPT ![p] = "gone"] /\ kills' = kills + 1 /\ kills \in Nat
      /\ UNCHANGED <<cs, sc, req, got, data, tpc>>
      /\ cpc \in [Pids -> ClientStates]
  BY ConstantsAssumption DEF KillClient, serverVars, IInv, TypeOK
<1>2. \A q \in Pids : Owed(q) => Owed(q)'
  BY <1>1 DEF Owed
<1>3. GoneIsKilled' /\ OwnResult'
  BY <1>1 DEF IInv, GoneIsKilled, OwnResult, ClientStates
<1>4. AsAsked'
  BY <1>1, <1>2, Elements
     DEF IInv, AsAsked, QueuedAsAsked, OwnBlock, RepliedAsAsked, Owed
<1>5. OnePlace'
  BY <1>1 DEF IInv, OnePlace, QueuedOnce, RunOnce, RepliedOnce, QueuedOrRuns,
              RunsOrReplied, QueuedOrReplied, Runs
<1>6. QED
  BY <1>3, <1>4, <1>5

\* Where no killed client's pid is recycled, the pid is that of a client that
\* has had its result, of which nothing is left.
LEMMA ReusePidStep ==
    ASSUME IInv, MaxKills = 0 \/ MaxReuse = 0, NEW p \in Pids, ReusePid(p)
    PROVE  GoneIsKilled' /\ OwnResult' /\ AsAsked' /\ OnePlace'
<1>1. /\ cpc' = [cpc EXCEPT ![p] = "idle"]
      /\ req' = [req EXCEPT ![p] = None] /\ got' = [got EXCEPT ![p] = None]
      /\ UNCHANGED <<cs, sc, data, tpc, kills>>
      /\ TypeOK
      /\ cpc \in [Pids -> ClientStates]
      /\ req \in [Pids -> Requests \cup {None}] /\ got \in [Pids -> Requests \cup {None}]
  BY DEF ReusePid, serverVars, IInv, TypeOK
<1>2. kills = 0
  BY ConstantsAssumption DEF ReusePid, IInv, TypeOK
<1>3. cpc[p] = "done"
  BY <1>2 DEF ReusePid, IInv, GoneIsKilled
<1>4. GoneIsKilled' /\ OwnResult'
  BY <1>1 DEF IInv, GoneIsKilled, OwnResult, ClientStates
<1>5. AsAsked'
  <2>1. QueuedAsAsked' /\ RepliedAsAsked'
    BY <1>1, <1>3, Elements DEF IInv, AsAsked, QueuedAsAsked, RepliedAsAsked, Owed
  <2>2. OwnBlock'
    BY <1>1, <1>3, Elements DEF IInv, AsAsked, OwnBlock
  <2>3. QED
    BY <2>1, <2>2 DEF AsAsked
<1>6. OnePlace'
  BY <1>1 DEF IInv, OnePlace, QueuedOnce, RunOnce, RepliedOnce, QueuedOrRuns,
              RunsOrReplied, QueuedOrReplied, Runs
<1>7. QED
  BY <1>4, <1>5, <1>6

\* A server that starts or dies runs no thread afterwards.
LEMMA NoThreadsStep ==
    ASSUME IInv, NoThreads, UNCHANGED <<cs, sc, clientVars, kills>>
    PROVE  GoneIsKilled' /\ OwnResult' /\ AsAsked' /\ OnePlace'
<1>1. \A i \in Slots : ~Runs(i)'
  BY DEF NoThreads, Runs
<1>2. UNCHANGED <<cpc, req, got>>
  BY DEF clientVars
<1>3. GoneIsKilled' /\ OwnResult'
  BY <1>2 DEF IInv, GoneIsKilled, OwnResult
<1>4. AsAsked'
  BY <1>1, <1>2 DEF IInv, AsAsked, QueuedAsAsked, OwnBlock, RepliedAsAsked, Owed, Runs
<1>5. OnePlace'
  BY <1>1 DEF IInv, OnePlace, QueuedOnce, RunOnce, RepliedOnce, QueuedOrRuns,
              RunsOrReplied, QueuedOrReplied
<1>6. QED
  BY <1>3, <1>4, <1>5

\* A joined thread has replied: its block is no longer a place of a request.
LEMMA JoinStep ==
    ASSUME IInv, Join
    PROVE  GoneIsKilled' /\ OwnResult' /\ AsAsked' /\ OnePlace'
<1>1. /\ UNCHANGED <<cs, sc, cpc, req, got, kills>>
      /\ \A i \in Slots : Runs(i)' => Runs(i) /\ data'[i] = data[i]
  BY DEF Join, clientVars, boundVars, Runs, IInv, TypeOK
<1>2. GoneIsKilled' /\ OwnResult'
  BY <1>1 DEF IInv, GoneIsKilled, OwnResult
<1>3. AsAsked'
  BY <1>1 DEF IInv, AsAsked, QueuedAsAsked, OwnBlock, RepliedAsAsked, Owed, Runs
<1>4. OnePlace'
  BY <1>1 DEF IInv, OnePlace, QueuedOnce, RunOnce, RepliedOnce, QueuedOrRuns,
              RunsOrReplied, QueuedOrReplied
<1>5. QED
  BY <1>2, <1>3, <1>4

\* The request moves from the head of the queue to the block of a thread.
LEMMA RecvStep ==
    ASSUME IInv, Recv
    PROVE  GoneIsKilled' /\ OwnResult' /\ AsAsked' /\ OnePlace'
<1>1. /\ cs # <<>> /\ cs' = Tail(cs) /\ cs \in Seq(Messages)
      /\ data' = [data EXCEPT ![slot] = Head(cs)]
      /\ tpc' = [tpc EXCEPT ![slot] = "run"]
      /\ UNCHANGED <<sc, cpc, req, got, kills>>
      /\ slot \in Slots /\ data \in [Slots -> Messages \cup {None}]
      /\ tpc \in [Slots -> ThreadStates]
  BY DEF Recv, CopyToBlock, clientVars, boundVars, IInv, TypeOK
<1>2. /\ Len(cs) \in Nat /\ Len(cs) >= 1 /\ Head(cs) = cs[1]
      /\ Len(cs') = Len(cs) - 1
      /\ \A k \in 1..Len(cs') : k + 1 \in 1..Len(cs) /\ cs'[k] = cs[k+1]
  BY <1>1, HeadTailProperties, EmptySeq, LenProperties
<1>3. /\ data'[slot] = cs[1] /\ data'[slot] \in Messages
      /\ \A i \in Slots : i # slot => data'[i] = data[i] /\ (Runs(i)' <=> Runs(i))
  <2>1. Head(cs) \in Messages
    BY <1>1, HeadTailProperties
  <2>2. data'[slot] = Head(cs) /\ \A i \in Slots : i # slot => data'[i] = data[i]
    BY <1>1
  <2>3. \A i \in Slots : i # slot => (Runs(i)' <=> Runs(i))
    BY <1>1 DEF Runs
  <2>4. QED
    BY <1>2, <2>1, <2>2, <2>3
<1>4. GoneIsKilled' /\ OwnResult'
  BY <1>1 DEF IInv, GoneIsKilled, OwnResult
<1>5. AsAsked'
  <2>1. QueuedAsAsked' /\ RepliedAsAsked'
    BY <1>1, <1>2 DEF IInv, AsAsked, QueuedAsAsked, RepliedAsAsked, Owed
  <2>2. Owed(cs[1].pid) /\ cs[1].req = req[cs[1].pid]
    BY <1>2 DEF IInv, AsAsked, QueuedAsAsked
  <2>3. data'[slot] # None
    BY <1>3, ConstantsAssumption DEF Messages
  <2>4. OwnBlock'
    BY <1>1, <1>3, <2>2, <2>3 DEF IInv, AsAsked, OwnBlock, Owed, Runs
  <2>5. QED
    BY <2>1, <2>4 DEF AsAsked
<1>6. /\ \A k \in 1..Len(cs') : cs'[k].pid # cs[1].pid
      /\ \A k \in 1..Len(sc) : sc[k].pid # cs[1].pid
      /\ \A i \in Slots : Runs(i) => data[i].pid # cs[1].pid
  BY <1>2 DEF IInv, OnePlace, QueuedOnce, QueuedOrReplied, QueuedOrRuns
<1>7. OnePlace'
  <2>1. QueuedOnce'
    <3> SUFFICES ASSUME NEW k \in 1..Len(cs'), NEW l \in 1..Len(cs'), cs'[k].pid = cs'[l].pid
                 PROVE  k = l
      BY DEF QueuedOnce
    <3>1. k + 1 = l + 1
      BY <1>2 DEF IInv, OnePlace, QueuedOnce
    <3>2. QED
      BY <3>1, <1>2
  <2>2. QueuedOrReplied' /\ RepliedOnce'
    BY <1>1, <1>2 DEF IInv, OnePlace, QueuedOrReplied, RepliedOnce
  <2>3. RunOnce' /\ QueuedOrRuns' /\ RunsOrReplied'
    BY <1>1, <1>2, <1>3, <1>6 DEF IInv, OnePlace, RunOnce, QueuedOrRuns, RunsOrReplied
  <2>4. QED
    BY <2>1, <2>2, <2>3 DEF OnePlace
<1>8. QED
  BY <1>4, <1>5, <1>7

\* The request moves, as its result, from the thread's block to the queue.
LEMMA ThreadSendStep ==
    ASSUME IInv, NEW i \in Slots, ThreadSend(i)
    PROVE  GoneIsKilled' /\ OwnResult' /\ AsAsked' /\ OnePlace'
<1>1. /\ Runs(i) /\ sc' = Append(sc, Reply(i)) /\ tpc' = [tpc EXCEPT ![i] = "exited"]
      /\ UNCHANGED <<cs, data, cpc, req, got, kills>>
      /\ tpc \in [Slots -> ThreadStates] /\ sc \in Seq(Messages) /\ TypeOK
      /\ data[i] \in Messages
  BY DEF ThreadSend, clientVars, boundVars, IInv, TypeOK, AsAsked, OwnBlock, Runs
<1>2. Reply(i) \in Messages /\ Reply(i).pid = data[i].pid /\ Reply(i).req = data[i].req
  BY <1>1 DEF Reply, Messages
<1>3. /\ Len(sc) \in Nat /\ Len(sc') = Len(sc) + 1
      /\ \A k \in 1..Len(sc) : sc'[k] = sc[k]
      /\ sc'[Len(sc')].pid = data[i].pid /\ sc'[Len(sc')].req = data[i].req
  BY <1>1, <1>2, AppendProperties, LenProperties
<1>4. \A k \in 1..Len(sc') : k \in 1..Len(sc) \/ k = Len(sc')
  BY <1>3
<1>5. \A j \in Slots : Runs(j)' => Runs(j) /\ j # i
  BY <1>1 DEF Runs
<1>6. GoneIsKilled' /\ OwnResult'
  BY <1>1 DEF IInv, GoneIsKilled, OwnResult
<1>7. AsAsked'
  <2>1. QueuedAsAsked' /\ OwnBlock'
    BY <1>1, <1>5 DEF IInv, AsAsked, QueuedAsAsked, OwnBlock, Owed, Runs
  <2>2. RepliedAsAsked'
    BY <1>1, <1>3, <1>4 DEF IInv, AsAsked, RepliedAsAsked, OwnBlock, Owed, Runs
  <2>3. QED
    BY <2>1, <2>2 DEF AsAsked
<1>8. OnePlace'
  <2>1. QueuedOnce' /\ RunOnce' /\ QueuedOrRuns'
    BY <1>1, <1>5 DEF IInv, OnePlace, QueuedOnce, RunOnce, QueuedOrRuns
  <2>2. RepliedOnce'
    BY <1>1, <1>3, <1>4 DEF IInv, OnePlace, RepliedOnce, RunsOrReplied
  <2>3. RunsOrReplied'
    BY <1>1, <1>3, <1>4, <1>5 DEF IInv, OnePlace, RunOnce, RunsOrReplied
  <2>4. QueuedOrReplied'
    BY <1>1, <1>3, <1>4 DEF IInv, OnePlace, QueuedOrRuns, QueuedOrReplied
  <2>5. QED
    BY <2>1, <2>2, <2>3, <2>4 DEF OnePlace
<1>9. QED
  BY <1>6, <1>7, <1>8

\* The inductive invariant is kept by every step of clients, main and threads.
LEMMA InvStep ==
    ASSUME MaxKills = 0 \/ MaxReuse = 0, IInv, [Next]_vars
    PROVE  IInv'
<1>1. TypeOK'
  BY TypeStep DEF IInv, HasBlock, AsAsked, OwnBlock, Runs
<1>2. GoneIsKilled' /\ OwnResult' /\ AsAsked' /\ OnePlace'
  <2>1. ASSUME NEW p \in Pids, Client(p)
        PROVE  GoneIsKilled' /\ OwnResult' /\ AsAsked' /\ OnePlace'
    BY <2>1, SendStep, ReceiveStep, KillClientStep, ReusePidStep DEF Client
  <2>2. CASE Start
    BY <2>2, NoThreadsStep DEF Start
  <2>3. CASE KillServer
    BY <2>3, NoThreadsStep DEF KillServer, ExitProcess
  <2>4. CASE Recv
    BY <2>4, RecvStep
  <2>5. CASE Join
    BY <2>5, JoinStep
  <2>6. ASSUME NEW i \in Slots, ThreadSend(i)
        PROVE  GoneIsKilled' /\ OwnResult' /\ AsAsked' /\ OnePlace'
    BY <2>6, ThreadSendStep
  <2>7. ASSUME NEW i \in Slots, ThreadSendFails(i)
        PROVE  GoneIsKilled' /\ OwnResult' /\ AsAsked' /\ OnePlace'
    BY <2>7, NoThreadsStep DEF ThreadSendFails, ExitProcess, boundVars
  <2>8. CASE UNCHANGED vars
    <3>1. UNCHANGED <<cs, sc, tpc, data, cpc, req, got, kills>>
      BY <2>8 DEF vars, serverVars, clientVars, boundVars
    <3>2. GoneIsKilled' /\ OwnResult' /\ AsAsked'
      BY <3>1 DEF IInv, GoneIsKilled, OwnResult, AsAsked, QueuedAsAsked, OwnBlock,
                  RepliedAsAsked, Owed
    <3>3. OnePlace'
      BY <3>1 DEF IInv, OnePlace, QueuedOnce, RunOnce, RepliedOnce, QueuedOrRuns,
                  RunsOrReplied, QueuedOrReplied, Runs
    <3>4. QED
      BY <3>2, <3>3
  <2>9. QED
    BY <2>1, <2>2, <2>3, <2>4, <2>5, <2>6, <2>7, <2>8 DEF Next, Main, Thread
<1>3. QED
  BY <1>1, <1>2 DEF IInv

\* It holds at first: there are no requests yet.
LEMMA InvInit == Init => IInv
BY TypeInit DEF Init, IInv, GoneIsKilled, OwnResult, AsAsked, OnePlace,
    QueuedAsAsked, OwnBlock, RepliedAsAsked, QueuedOnce, RunOnce, RepliedOnce,
    QueuedOrRuns, RunsOrReplied, QueuedOrReplied, Runs

\* So it holds always.
LEMMA InvAlways ==
    ASSUME MaxKills = 0 \/ MaxReuse = 0
    PROVE  Spec => []IInv
<1>1. IInv /\ [Next]_vars => IInv'
  BY InvStep
<1>2. QED
  BY InvInit, <1>1, PTL DEF Spec

\* Every variable keeps its type, whatever is killed and whichever pid is
\* recycled (main, server.c:36-118, and the three thread functions).
THEOREM TypeCorrect == Spec => []TypeOK
<1>1. TypeOK /\ HasBlock /\ [Next]_vars => (TypeOK /\ HasBlock)'
  BY TypeStep
<1>2. QED
  BY TypeInit, <1>1, PTL DEF Spec

\* A client that has received a result has received its own (data.h:11-13),
\* if no waiting client is killed or no pid is recycled.
THEOREM ResultIsOwn ==
    ASSUME MaxKills = 0 \/ MaxReuse = 0
    PROVE  Spec => []OwnResult
<1>1. IInv => OwnResult
  BY DEF IInv
<1>2. QED
  BY InvAlways, <1>1, PTL

\* The block a thread reads through its argument is there, and holds the
\* request of a client that is still owed the result (server.c:9-10), under
\* the same condition.
THEOREM BlockIsOwn ==
    ASSUME MaxKills = 0 \/ MaxReuse = 0
    PROVE  Spec => []OwnBlock
<1>1. IInv => OwnBlock
  BY DEF IInv, AsAsked
<1>2. QED
  BY InvAlways, <1>1, PTL

\* The request of a client is in one place at most, and in none once the
\* client has its result, under the same condition.
THEOREM NeverTwice ==
    ASSUME MaxKills = 0 \/ MaxReuse = 0
    PROVE  Spec => []AtMostOnce
<1>1. ASSUME IInv PROVE AtMostOnce
  <2>1. SUFFICES ASSUME NEW p \in Pids
                 PROVE  /\ \A x, y \in Places(p) : x = y
                        /\ cpc[p] \in {"idle", "done"} => Places(p) = {}
    BY DEF AtMostOnce
  <2>2. /\ \A k, l \in QueuedFor(p) : k = l
        /\ \A i, j \in RunningFor(p) : i = j
        /\ \A k, l \in RepliedFor(p) : k = l
    BY <1>1 DEF IInv, OnePlace, QueuedOnce, RunOnce, RepliedOnce,
                QueuedFor, RunningFor, RepliedFor, Runs
  <2>3. /\ QueuedFor(p) = {} \/ RunningFor(p) = {}
        /\ RunningFor(p) = {} \/ RepliedFor(p) = {}
        /\ QueuedFor(p) = {} \/ RepliedFor(p) = {}
    BY <1>1 DEF IInv, OnePlace, QueuedOrRuns, RunsOrReplied, QueuedOrReplied,
                QueuedFor, RunningFor, RepliedFor, Runs
  <2>4. ASSUME cpc[p] \in {"idle", "done"}
        PROVE  QueuedFor(p) = {} /\ RunningFor(p) = {} /\ RepliedFor(p) = {}
    BY <1>1, <2>4 DEF IInv, AsAsked, QueuedAsAsked, OwnBlock, RepliedAsAsked, Owed,
                QueuedFor, RunningFor, RepliedFor
  <2>5. QED
    BY <2>2, <2>3, <2>4 DEF Places
<1>2. QED
  BY InvAlways, <1>1, PTL

-----------------------------------------------------------------------------
(* The refinement: each step is one of the calculator service or a stutter.*)

\* A reply of p is in the queue exactly if a message of p is.
LEMMA PhaseOf ==
    ASSUME NEW p \in Pids
    PROVE  /\ cpc[p] # "waiting" => Phase[p] = cpc[p]
           /\ cpc[p] = "waiting" /\ (\E k \in 1..Len(sc) : sc[k].pid = p) => Phase[p] = "served"
           /\ cpc[p] = "waiting" /\ (\A k \in 1..Len(sc) : sc[k].pid # p) => Phase[p] = "asked"
BY DEF Phase, RepliedFor

\* A step that touches neither result queue nor clients changes no phase.
LEMMA PhaseUnchanged ==
    ASSUME UNCHANGED <<sc, cpc>>
    PROVE  Phase' = Phase
BY DEF Phase, RepliedFor

\* A change of one client's state, while the result queue stays as it is.
LEMMA PhaseChange ==
    ASSUME TypeOK, NEW p \in Pids, NEW s \in ClientStates, sc' = sc,
           cpc' = [cpc EXCEPT ![p] = s]
    PROVE  /\ s # "waiting" => Phase' = [Phase EXCEPT ![p] = s]
           /\ s = "waiting" /\ (\A k \in 1..Len(sc) : sc[k].pid # p)
                => Phase' = [Phase EXCEPT ![p] = "asked"]
<1>1. cpc \in [Pids -> ClientStates]
  BY DEF TypeOK
<1>2. \A q \in Pids : q # p => Phase'[q] = Phase[q]
  BY <1>1 DEF Phase, RepliedFor
<1>3. s # "waiting" => Phase'[p] = s
  BY <1>1 DEF Phase
<1>4. s = "waiting" /\ (\A k \in 1..Len(sc) : sc[k].pid # p) => Phase'[p] = "asked"
  BY <1>1 DEF Phase, RepliedFor
<1>5. /\ Phase = [q \in Pids |-> Phase[q]] /\ Phase' = [q \in Pids |-> Phase'[q]]
  BY DEF Phase
<1>6. QED
  BY <1>2, <1>3, <1>4, <1>5

\* Send is Ask: there is no result of an earlier request left in the queue.
LEMMA SendRefines ==
    ASSUME IInv, NEW p \in Pids, Send(p)
    PROVE  Service!Ask(p)
<1>1. /\ cpc[p] = "idle" /\ cpc' = [cpc EXCEPT ![p] = "waiting"] /\ UNCHANGED <<sc, got>>
      /\ \E r \in Requests : req' = [req EXCEPT ![p] = r]
      /\ TypeOK
  BY DEF Send, IInv
<1>2. \A k \in 1..Len(sc) : sc[k].pid # p
  BY <1>1 DEF IInv, AsAsked, RepliedAsAsked, Owed
<1>3. Phase[p] = "idle" /\ Phase' = [Phase EXCEPT ![p] = "asked"]
  BY <1>1, <1>2, PhaseOf, PhaseChange DEF ClientStates
<1>4. QED
  BY <1>1, <1>3 DEF Service!Ask

\* Receive is Deliver: the result received is that of the request asked.
LEMMA ReceiveRefines ==
    ASSUME IInv, NEW p \in Pids, Receive(p)
    PROVE  Service!Deliver(p)
<1>1. PICK k \in 1..Len(sc) : /\ IsFirstFor(p, k)
                             /\ got' = [got EXCEPT ![p] = sc[k].req]
                             /\ sc' = Without(sc, k)
  BY DEF Receive
<1>2. /\ cpc[p] = "waiting" /\ cpc' = [cpc EXCEPT ![p] = "done"] /\ req' = req
      /\ cpc \in [Pids -> ClientStates] /\ TypeOK
  BY DEF Receive, IInv, TypeOK
<1>3. sc[k].pid = p /\ sc[k].req = req[p]
  BY <1>1 DEF IInv, AsAsked, RepliedAsAsked, IsFirstFor
<1>4. /\ Len(sc') = Len(sc) - 1 /\ Len(sc) \in Nat
      /\ \A j \in 1..Len(sc') : sc'[j] = IF j < k THEN sc[j] ELSE sc[j+1]
  BY <1>1, <1>2, WithoutType, Elements DEF TypeOK
<1>5. ASSUME NEW q \in Pids, q # p
      PROVE  (RepliedFor(q) = {}) <=> (RepliedFor(q)' = {})
  <2>1. ASSUME NEW j \in 1..Len(sc'), sc'[j].pid = q
        PROVE  \E i \in 1..Len(sc) : sc[i].pid = q
    <3>1. CASE j < k
      BY <2>1, <3>1, <1>4
    <3>2. CASE ~(j < k)
      <4>1. j + 1 \in 1..Len(sc) /\ sc[j+1].pid = q
        BY <2>1, <3>2, <1>4
      <4>2. QED
        BY <4>1
    <3>3. QED
      BY <3>1, <3>2
  <2>2. ASSUME NEW i \in 1..Len(sc), sc[i].pid = q
        PROVE  \E j \in 1..Len(sc') : sc'[j].pid = q
    <3>1. i # k
      BY <2>2, <1>3, <1>5
    <3>2. CASE i < k
      <4>1. i \in 1..Len(sc') /\ sc'[i].pid = q
        BY <2>2, <3>2, <1>4
      <4>2. QED
        BY <4>1
    <3>3. CASE i > k
      <4>1. i - 1 \in 1..Len(sc') /\ sc'[i-1] = sc[(i-1)+1] /\ (i-1)+1 = i
        BY <3>3, <1>4
      <4>2. QED
        BY <4>1, <2>2
    <3>4. QED
      BY <3>1, <3>2, <3>3
  <2>3. QED
    BY <2>1, <2>2 DEF RepliedFor
<1>6. Phase[p] = "served"
  BY <1>2, <1>3, PhaseOf
<1>7. Phase' = [Phase EXCEPT ![p] = "done"]
  <2>1. \A q \in Pids : q # p => Phase'[q] = Phase[q]
    BY <1>2, <1>5 DEF Phase
  <2>2. Phase'[p] = "done"
    BY <1>2 DEF Phase
  <2>3. Phase = [q \in Pids |-> Phase[q]] /\ Phase' = [q \in Pids |-> Phase'[q]]
    BY DEF Phase
  <2>4. QED
    BY <2>1, <2>2, <2>3
<1>8. QED
  BY <1>1, <1>2, <1>3, <1>6, <1>7 DEF Service!Deliver

\* A reply serves its client, or is one for a client that has been killed.
LEMMA ThreadSendRefines ==
    ASSUME IInv, NEW i \in Slots, ThreadSend(i)
    PROVE  Service!Serve(data[i].pid) \/ UNCHANGED Service!svcVars
<1>1. data[i].pid \in Pids
  BY Elements DEF ThreadSend, IInv, AsAsked, OwnBlock
<1>2. PICK p \in Pids : p = data[i].pid
  BY <1>1
<1>3. /\ Runs(i) /\ sc' = Append(sc, Reply(i)) /\ UNCHANGED <<cpc, req, got>>
      /\ sc \in Seq(Messages) /\ TypeOK /\ data[i] \in Messages /\ Owed(p)
  BY <1>2 DEF ThreadSend, clientVars, IInv, TypeOK, AsAsked, OwnBlock, Runs, Owed
<1>4. Reply(i) \in Messages /\ Reply(i).pid = p
  BY <1>3, <1>2 DEF Reply, Messages
<1>5. /\ Len(sc) \in Nat /\ Len(sc') = Len(sc) + 1
      /\ \A k \in 1..Len(sc) : sc'[k] = sc[k]
      /\ sc'[Len(sc')].pid = p
  BY <1>3, <1>4, AppendProperties, LenProperties
<1>6. \A k \in 1..Len(sc) : sc[k].pid # p
  BY <1>3, <1>2 DEF IInv, OnePlace, RunsOrReplied
<1>7. \A q \in Pids : q # p => ((RepliedFor(q) = {}) <=> (RepliedFor(q)' = {}))
  BY <1>5 DEF RepliedFor
<1>8. \A q \in Pids : q # p => Phase'[q] = Phase[q]
  BY <1>3, <1>7 DEF Phase
<1>9. RepliedFor(p) = {} /\ RepliedFor(p)' # {}
  BY <1>5, <1>6 DEF RepliedFor
<1>10. Phase = [q \in Pids |-> Phase[q]] /\ Phase' = [q \in Pids |-> Phase'[q]]
  BY DEF Phase
<1>11. CASE cpc[p] = "waiting"
  <2>1. Phase[p] = "asked" /\ Phase'[p] = "served"
    BY <1>3, <1>4, <1>9, <1>11 DEF Phase
  <2>2. Phase' = [Phase EXCEPT ![p] = "served"]
    BY <1>4, <1>8, <1>10, <2>1
  <2>3. QED
    BY <1>3, <1>2, <2>1, <2>2 DEF Service!Serve
<1>12. CASE cpc[p] # "waiting"
  <2>1. Phase'[p] = Phase[p]
    BY <1>3, <1>4, <1>12 DEF Phase
  <2>2. Phase' = Phase
    BY <1>8, <1>10, <2>1
  <2>3. QED
    BY <1>3, <2>2 DEF Service!svcVars
<1>13. QED
  BY <1>11, <1>12

\* Every step is one of the service or a stutter.
LEMMA StepRefines ==
    ASSUME IInv, [Next]_vars
    PROVE  [Service!Next]_(Service!svcVars)
<1>1. ASSUME UNCHANGED <<sc, clientVars>> PROVE UNCHANGED Service!svcVars
  BY <1>1, PhaseUnchanged DEF clientVars, Service!svcVars
<1>2. ASSUME NEW p \in Pids, Client(p) PROVE Service!Next
  <2>1. CASE Send(p)
    BY <2>1, SendRefines DEF Service!Next
  <2>2. CASE Receive(p)
    BY <2>2, ReceiveRefines DEF Service!Next
  <2>3. CASE KillClient(p)
    <3>1. Phase[p] \in {"asked", "served"}
      BY <2>3 DEF KillClient, Phase
    <3>2. Phase' = [Phase EXCEPT ![p] = "gone"]
      BY <2>3, PhaseChange DEF KillClient, ClientStates, IInv
    <3>3. QED
      BY <2>3, <3>1, <3>2 DEF KillClient, Service!Next, Service!Abandon
  <2>4. CASE ReusePid(p)
    <3>1. Phase[p] \in {"done", "gone"}
      BY <2>4, PhaseOf DEF ReusePid
    <3>2. Phase' = [Phase EXCEPT ![p] = "idle"]
      BY <2>4, PhaseChange DEF ReusePid, ClientStates, IInv
    <3>3. QED
      BY <2>4, <3>1, <3>2 DEF ReusePid, Service!Next, Service!Renew
  <2>5. QED
    BY <1>2, <2>1, <2>2, <2>3, <2>4 DEF Client
<1>3. CASE Main
  BY <1>1, <1>3 DEF Main, Start, Recv, Join, KillServer
<1>4. ASSUME NEW i \in Slots, Thread(i) PROVE Service!Next \/ UNCHANGED Service!svcVars
  <2>1. CASE ThreadSend(i)
    <3>1. data[i].pid \in Pids
      BY <2>1, Elements DEF ThreadSend, IInv, AsAsked, OwnBlock
    <3>2. QED
      BY <2>1, <3>1, ThreadSendRefines DEF Service!Next
  <2>2. CASE ThreadSendFails(i)
    BY <1>1, <2>2 DEF ThreadSendFails
  <2>3. QED
    BY <1>4, <2>1, <2>2 DEF Thread
<1>5. CASE UNCHANGED vars
  BY <1>1, <1>5 DEF vars
<1>6. QED
  BY <1>2, <1>3, <1>4, <1>5 DEF Next

\* The calculator over message queues implements the calculator service, as
\* long as no waiting client is killed or no pid is recycled: each request is
\* served once and its result reaches the process that asked, and no other.
THEOREM Implements ==
    ASSUME MaxKills = 0 \/ MaxReuse = 0
    PROVE  Spec => ImplementsService
<1>1. Init => Service!Init
  BY DEF Init, Phase, Service!Init
<1>2. IInv /\ [Next]_vars => [Service!Next]_(Service!svcVars)
  BY StepRefines
<1>3. QED
  BY InvAlways, <1>1, <1>2, PTL DEF Spec, ImplementsService, Service!Spec
-----------------------------------------------------------------------------
(* What is not lost, which needs neither assumption.  A running thread is  *)
(* never overwritten: main starts threads from slot on, joins them from    *)
(* slot on, and no thread is left when it returns.                         *)
ThreadsInOrder ==
    /\ spc = "off" => \A i \in Slots : tpc[i] = "none"
    /\ spc = "recv" => \A i \in Slots : i >= slot => tpc[i] = "none"
    /\ spc = "join" => \A i \in Slots : i < slot => tpc[i] = "none"

\* A request that was sent and not yet received is in one of the places.
Somewhere(p) ==
    \/ \E k \in 1..Len(cs) : cs[k].pid = p
    \/ \E i \in Slots : Runs(i) /\ data[i].pid = p
    \/ \E k \in 1..Len(sc) : sc[k].pid = p

Kept == Undisturbed => \A p \in Pids : cpc[p] = "waiting" => Somewhere(p)

\* Main is at the slots in order, from the first to the last.
LEMMA OrderStep ==
    ASSUME TypeOK, ThreadsInOrder, [Next]_vars
    PROVE  ThreadsInOrder'
<1> USE ConstantsAssumption DEF TypeOK, ThreadsInOrder, Slots
<1>1. CASE NoThreads
  BY <1>1 DEF NoThreads
<1>2. CASE UNCHANGED <<tpc, spc, slot>>
  BY <1>2
<1>3. CASE Recv
  <2>1. /\ spc = "recv" /\ tpc' = [tpc EXCEPT ![slot] = "run"] /\ Advance("join")
    BY <1>3 DEF Recv
  <2>2. \A i \in Slots : i > slot => tpc'[i] = "none"
    BY <2>1
  <2>3. CASE slot = MaxThread
    BY <2>1, <2>3 DEF Advance
  <2>4. CASE slot # MaxThread
    <3>1. slot' = slot + 1 /\ spc' = "recv" /\ slot \in Nat
      BY <2>1, <2>4 DEF Advance
    <3>2. \A i \in 1..MaxThread : i >= slot + 1 => i > slot
      BY <3>1
    <3>3. QED
      BY <2>2, <3>1, <3>2
  <2>5. QED
    BY <2>3, <2>4
<1>4. CASE Join
  <2>1. /\ spc = "join" /\ tpc' = [tpc EXCEPT ![slot] = "none"] /\ Advance("off")
    BY <1>4 DEF Join
  <2>2. \A i \in Slots : i <= slot => tpc'[i] = "none"
    BY <2>1
  <2>3. CASE slot = MaxThread
    BY <2>1, <2>2, <2>3 DEF Advance
  <2>4. CASE slot # MaxThread
    <3>1. slot' = slot + 1 /\ spc' = "join" /\ slot \in Nat
      BY <2>1, <2>4 DEF Advance
    <3>2. \A i \in 1..MaxThread : i < slot + 1 => i <= slot
      BY <3>1, SMTT(20)
    <3>3. QED
      BY <2>2, <3>1, <3>2
  <2>5. QED
    BY <2>3, <2>4
<1>5. ASSUME NEW i \in Slots, ThreadSend(i) PROVE ThreadsInOrder'
  BY <1>5 DEF ThreadSend
<1>6. QED
  BY <1>1, <1>2, <1>3, <1>4, <1>5
     DEF Next, Client, Main, Thread, Send, Receive, KillClient, ReusePid, Start,
         KillServer, ThreadSendFails, ExitProcess, serverVars, vars

\* A request leaves a place only for the next one, or with its client.
LEMMA KeptStep ==
    ASSUME TypeOK, HasBlock, ThreadsInOrder, Kept, [Next]_vars
    PROVE  Kept'
<1> SUFFICES ASSUME Undisturbed', NEW p \in Pids, cpc'[p] = "waiting"
             PROVE  Somewhere(p)'
  BY DEF Kept
<1> USE DEF Runs
<1>1. Undisturbed /\ ~KillServer /\ \A i \in Slots : ~(ThreadSendFails(i))
  <2>1. crashes \in Nat /\ crashes' = 0 /\ NoWaitPids = {}
    BY ConstantsAssumption DEF Undisturbed, TypeOK
  <2>2. ~KillServer
    BY <2>1 DEF KillServer
  <2>3. crashes' = crashes
    BY <2>2 DEF Next, Client, Main, Thread, Send, Receive, KillClient, ReusePid, Start,
                Recv, Join, ThreadSend, ThreadSendFails, boundVars, vars
  <2>4. QED
    BY <2>1, <2>2, <2>3 DEF Undisturbed, ThreadSendFails
<1>2. cpc[p] = "waiting" => Somewhere(p)
  BY <1>1 DEF Kept
<1>3. cpc[p] = "waiting" \/ Send(p)
  BY <1>1 DEF Next, Client, Main, Thread, Send, Receive, KillClient, ReusePid, Start,
              Recv, Join, ThreadSend, clientVars, vars, TypeOK
<1>4. ASSUME NEW q \in Pids, Send(q) PROVE Somewhere(p)'
  <2>1. PICK r \in Requests : cs' = Append(cs, [pid |-> q, req |-> r])
    BY <1>4 DEF Send
  <2>2. /\ Len(cs) \in Nat /\ Len(cs') = Len(cs) + 1
        /\ \A k \in 1..Len(cs) : cs'[k] = cs[k]
        /\ cs'[Len(cs')].pid = q
    <3>1. cs \in Seq(Messages) /\ [pid |-> q, req |-> r] \in Messages
      BY DEF TypeOK, Messages
    <3>2. QED
      BY <2>1, <3>1, AppendProperties, LenProperties
  <2>3. UNCHANGED <<sc, data, tpc>> /\ q # p => cpc[p] = "waiting"
    BY <1>3, <1>4 DEF Send, serverVars, TypeOK
  <2>4. CASE q = p
    <3>1. Len(cs') \in 1..Len(cs')
      BY <2>2
    <3>2. QED
      BY <2>2, <2>4, <3>1 DEF Somewhere
  <2>5. CASE q # p
    <3>1. (\E k \in 1..Len(cs) : cs[k].pid = p) => \E k \in 1..Len(cs') : cs'[k].pid = p
      BY <2>2
    <3>2. QED
      BY <1>2, <1>3, <1>4, <2>3, <2>5, <3>1 DEF Somewhere, Send, serverVars
  <2>6. QED
    BY <2>4, <2>5
<1>5. ASSUME NEW q \in Pids, Receive(q) PROVE Somewhere(p)'
  <2>1. PICK k \in 1..Len(sc) : IsFirstFor(q, k) /\ sc' = Without(sc, k)
    BY <1>5 DEF Receive
  <2>2. q # p /\ cpc[p] = "waiting" /\ UNCHANGED <<cs, data, tpc>>
    BY <1>3, <1>5 DEF Receive, Send, serverVars, TypeOK
  <2>3. /\ Len(sc) \in Nat /\ Len(sc') = Len(sc) - 1
        /\ \A j \in 1..Len(sc') : sc'[j] = IF j < k THEN sc[j] ELSE sc[j+1]
    BY <2>1, WithoutType, LenProperties DEF TypeOK
  <2>4. ASSUME NEW i \in 1..Len(sc), sc[i].pid = p
        PROVE  \E j \in 1..Len(sc') : sc'[j].pid = p
    <3>1. i # k
      BY <2>1, <2>2, <2>4 DEF IsFirstFor
    <3>2. CASE i < k
      <4>1. i \in 1..Len(sc') /\ sc'[i] = sc[i]
        BY <2>3, <3>2
      <4>2. QED
        BY <2>4, <4>1
    <3>3. CASE i > k
      <4>1. i - 1 \in 1..Len(sc') /\ sc'[i - 1] = sc[(i - 1) + 1] /\ (i - 1) + 1 = i
        BY <2>3, <3>3
      <4>2. QED
        BY <2>4, <4>1
    <3>4. QED
      BY <3>1, <3>2, <3>3
  <2>5. QED
    BY <1>2, <2>2, <2>4 DEF Somewhere
<1>6. CASE UNCHANGED <<cs, sc, data, tpc>> /\ cpc[p] = "waiting"
  BY <1>2, <1>6 DEF Somewhere
<1>7. CASE Start
  <2>1. \A i \in Slots : ~Runs(i)
    BY <1>7 DEF Start, ThreadsInOrder
  <2>2. UNCHANGED <<cs, sc, cpc>>
    BY <1>7 DEF Start, clientVars
  <2>3. QED
    BY <1>2, <2>1, <2>2 DEF Somewhere
<1>8. CASE Recv
  <2>1. /\ cs # <<>> /\ cs \in Seq(Messages) /\ cs' = Tail(cs)
        /\ data' = [data EXCEPT ![slot] = Head(cs)] /\ tpc' = [tpc EXCEPT ![slot] = "run"]
        /\ sc' = sc /\ cpc' = cpc /\ tpc[slot] # "run" /\ slot \in Slots
        /\ data \in [Slots -> Messages \cup {None}] /\ tpc \in [Slots -> ThreadStates]
    <3>1. tpc[slot] = "none" /\ slot \in Slots
      BY <1>8, ConstantsAssumption DEF Recv, TypeOK, ThreadsInOrder, Slots
    <3>2. QED
      BY <1>8, <3>1 DEF Recv, CopyToBlock, TypeOK, clientVars
  <2>2. /\ Len(cs) \in Nat /\ Len(cs') = Len(cs) - 1
        /\ cs[1] = Head(cs) /\ \A k \in 1..Len(cs') : cs'[k] = cs[k + 1]
    BY <2>1, HeadTailProperties, LenProperties
  <2>3. ASSUME NEW k \in 1..Len(cs), cs[k].pid = p PROVE Somewhere(p)'
    <3>1. CASE k = 1
      <4>1. tpc'[slot] = "run" /\ data'[slot].pid = p
        BY <2>1, <2>2, <2>3, <3>1
      <4>2. QED
        BY <2>1, <4>1 DEF Somewhere
    <3>2. CASE k # 1
      <4>1. k - 1 \in 1..Len(cs') /\ cs'[k - 1] = cs[(k - 1) + 1] /\ (k - 1) + 1 = k
        BY <2>2, <3>2
      <4>2. QED
        BY <2>3, <4>1 DEF Somewhere
    <3>3. QED
      BY <3>1, <3>2
  <2>4. ASSUME NEW i \in Slots, Runs(i), data[i].pid = p PROVE Somewhere(p)'
    <3>1. i # slot
      BY <2>1, <2>4
    <3>2. tpc'[i] = "run" /\ data'[i].pid = p
      BY <2>1, <2>4, <3>1
    <3>3. QED
      BY <3>2 DEF Somewhere
  <2>5. QED
    BY <1>2, <2>1, <2>3, <2>4 DEF Somewhere
<1>9. CASE Join
  <2>1. /\ \A i \in Slots : Runs(i) => Runs(i)' /\ data'[i] = data[i]
        /\ UNCHANGED <<cs, sc, cpc>>
    BY <1>9 DEF Join, Joinable, clientVars, TypeOK
  <2>2. QED
    BY <1>2, <2>1 DEF Somewhere
<1>10. ASSUME NEW i \in Slots, ThreadSend(i) PROVE Somewhere(p)'
  <2>1. /\ Runs(i) /\ sc' = Append(sc, Reply(i)) /\ Reply(i).pid = data[i].pid
        /\ tpc' = [tpc EXCEPT ![i] = "exited"] /\ UNCHANGED <<cs, data, cpc>>
    BY <1>10 DEF ThreadSend, Reply, clientVars
  <2>2. sc \in Seq(Messages) /\ tpc \in [Slots -> ThreadStates]
    BY DEF TypeOK
  <2>3. /\ Len(sc) \in Nat /\ Len(sc') = Len(sc) + 1
        /\ \A k \in 1..Len(sc) : sc'[k] = sc[k]
        /\ sc'[Len(sc')].pid = data[i].pid
    <3>1. Reply(i) \in Messages
      BY <1>10, <2>1 DEF Reply, TypeOK, Messages, HasBlock
    <3>2. QED
      BY <2>1, <2>2, <3>1, AppendProperties, LenProperties
  <2>4. CASE data[i].pid = p
    <3>1. Len(sc') \in 1..Len(sc') /\ sc'[Len(sc')].pid = p
      BY <2>3, <2>4
    <3>2. QED
      BY <3>1 DEF Somewhere
  <2>5. CASE data[i].pid # p
    <3>1. \A j \in Slots : Runs(j) /\ data[j].pid = p => Runs(j)'
      BY <2>1, <2>2, <2>5
    <3>2. \A k \in 1..Len(sc) : sc[k].pid = p => k \in 1..Len(sc') /\ sc'[k].pid = p
      BY <2>3
    <3>3. QED
      BY <1>2, <2>1, <3>1, <3>2 DEF Somewhere
  <2>6. QED
    BY <2>4, <2>5
<1>11. QED
  BY <1>1, <1>3, <1>4, <1>5, <1>6, <1>7, <1>8, <1>9, <1>10
     DEF Next, Client, Main, Thread, KillClient, ReusePid, serverVars, vars

\* While no server is killed and no reply can fail, the request of a waiting
\* client is in a queue or with a thread (server.c:66-102): whatever clients are
\* killed and whichever pids come again.
THEOREM RequestsAreKept == Spec => []NothingLost
<1>1. Init => TypeOK /\ HasBlock /\ ThreadsInOrder /\ Kept
  <2>1. Init => ThreadsInOrder /\ Kept
    BY DEF Init, ThreadsInOrder, Kept
  <2>2. QED
    BY <2>1, TypeInit
<1>2. /\ TypeOK /\ HasBlock /\ ThreadsInOrder /\ Kept /\ [Next]_vars
      => (TypeOK /\ HasBlock /\ ThreadsInOrder /\ Kept)'
  BY TypeStep, OrderStep, KeptStep
<1>3. Kept => NothingLost
  <2> SUFFICES ASSUME Kept, Undisturbed, NEW p \in Pids, cpc[p] = "waiting"
               PROVE  Places(p) # {}
    BY DEF NothingLost
  <2>1. Somewhere(p)
    BY DEF Kept
  <2>2. QED
    <3>1. QueuedFor(p) # {} \/ RunningFor(p) # {} \/ RepliedFor(p) # {}
      BY <2>1 DEF Somewhere, QueuedFor, RunningFor, RepliedFor, Runs
    <3>2. QED
      <4>1. ASSUME NEW k \in QueuedFor(p) PROVE <<"cs", k>> \in Places(p)
        BY <4>1 DEF Places
      <4>2. ASSUME NEW i \in RunningFor(p) PROVE <<"thread", i>> \in Places(p)
        BY <4>2 DEF Places
      <4>3. ASSUME NEW k \in RepliedFor(p) PROVE <<"sc", k>> \in Places(p)
        BY <4>3 DEF Places
      <4>4. QED
        BY <3>1, <4>1, <4>2, <4>3
<1>4. QED
  BY <1>1, <1>2, <1>3, PTL DEF Spec
=============================================================================
