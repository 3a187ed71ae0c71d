---------------------------- MODULE ThreadedQueue ----------------------------
(***************************************************************************)
(* msgq/msgq_posix/threaded_queue.c: main starts MAX_THREAD writing and as *)
(* many reading threads on one POSIX queue, joins the writers, then the    *)
(* readers, and removes the queue.  A writer sends one message, with its   *)
(* number as priority; a reader receives one, whosever it is.  The queue   *)
(* has a fixed name: one that a killed run has left is opened with what is *)
(* in it.                                                                  *)
(***************************************************************************)
EXTENDS Naturals, Sequences, FiniteSets

CONSTANTS MAX_THREAD,  \* writers, and readers
          MAX_MSG      \* places of the queue

VARIABLES mq,       \* the queue, in the order of arrival
          stage,    \* threads that main has created, and then joined
          tpc,      \* where each thread is
          message,  \* what each reader has received
          stale     \* how many messages the queue held at first

tqVars == <<mq, stage, tpc, message, stale>>

Ids     == 0..(MAX_THREAD - 1)
Threads == {"write", "read"} \X Ids

\* The thread that main creates, and joins, as its n-th.
Nth(n) == IF n <= MAX_THREAD THEN <<"write", n - 1>> ELSE <<"read", n - MAX_THREAD - 1>>

\* A message that a killed run has left: any writer's of it.
OldMessage(prio) == [from |-> MAX_THREAD, prio |-> prio]

\* Runs that were killed before their mq_unlink have left messages, or none:
\* each of them as many as its writers had sent and its readers not received, so
\* that all priorities may be there in any order.
Init ==
    /\ stale \in 0..MAX_MSG
    /\ \E prio \in [1..stale -> Ids] : mq = [n \in 1..stale |-> OldMessage(prio[n])]
    /\ stage = <<"create", 1>>
    /\ tpc = [t \in Threads |-> "none"]
    /\ message = [r \in Ids |-> {}]

-----------------------------------------------------------------------------
Advance(after) ==
    stage' = IF stage[2] = 2 * MAX_THREAD THEN <<after, 1>>
             ELSE <<stage[1], stage[2] + 1>>

Create ==
    /\ stage[1] = "create"
    /\ tpc' = [tpc EXCEPT ![Nth(stage[2])] = "run"]
    /\ Advance("join")
    /\ UNCHANGED <<mq, message, stale>>

Join ==
    /\ stage[1] = "join" /\ tpc[Nth(stage[2])] = "gone"
    /\ Advance("unlink")
    /\ UNCHANGED <<mq, tpc, message, stale>>

\* mq_unlink: what is left in the queue is lost.
Unlink ==
    /\ stage[1] = "unlink"
    /\ stage' = <<"done", 1>>
    /\ UNCHANGED <<mq, tpc, message, stale>>

\* mq_send, which waits while the queue is full.
Send(w) ==
    /\ tpc[<<"write", w>>] = "run" /\ Len(mq) < MAX_MSG
    /\ mq' = Append(mq, [from |-> w, prio |-> w])
    /\ tpc' = [tpc EXCEPT ![<<"write", w>>] = "gone"]
    /\ UNCHANGED <<stage, message, stale>>

\* The oldest of the messages of the highest priority.
IsNext(k) == /\ \A n \in 1..Len(mq) : mq[n].prio <= mq[k].prio
             /\ \A n \in 1..(k - 1) : mq[n].prio < mq[k].prio

Without(k) == SubSeq(mq, 1, k - 1) \o SubSeq(mq, k + 1, Len(mq))

\* Mutant: the reader looks at a message without removing it.
Peek(r) ==
    /\ tpc[<<"read", r>>] = "run"
    /\ \E k \in 1..Len(mq) :
          IsNext(k) /\ message' = [message EXCEPT ![r] = {mq[k]}]
    /\ tpc' = [tpc EXCEPT ![<<"read", r>>] = "gone"]
    /\ UNCHANGED <<mq, stage, stale>>

\* mq_receive, which waits while the queue is empty.
Receive(r) ==
    /\ tpc[<<"read", r>>] = "run"
    /\ \E k \in 1..Len(mq) :
          /\ IsNext(k)
          /\ message' = [message EXCEPT ![r] = {mq[k]}]
          /\ mq' = Without(k)
    /\ tpc' = [tpc EXCEPT ![<<"read", r>>] = "gone"]
    /\ UNCHANGED <<stage, stale>>

-----------------------------------------------------------------------------
Main == Create \/ Join \/ Unlink
Thread(n) == Send(n) \/ Receive(n)

\* A writer's message is read by one reader or still in the queue, and by nobody
\* twice, whatever messages the queue held at first.  When main has joined all
\* threads as many messages are in it as at first: with old ones among them new
\* ones may be left, and are lost with the queue (mq_unlink), but without old ones
\* each writer's message has been read (threaded_queue.c:97-117).
EachMessageOnce ==
    /\ \A w \in Ids :
          Cardinality({n \in 1..Len(mq) : mq[n].from = w})
              + Cardinality({r \in Ids : \E m \in message[r] : m.from = w})
          = IF tpc[<<"write", w>>] = "gone" THEN 1 ELSE 0
    /\ stage[1] \in {"unlink", "done"} => Len(mq) = stale
=============================================================================
