------------------------------ MODULE MCBuffer ------------------------------
(* The bounded buffer and the two programs with a queue for TLC: one of    *)
(* them is chosen at the start and runs alone.                             *)
EXTENDS BoundedBuffer, TLC

CONSTANTS MAX_THREAD, MAX_MSG,                 \* of ThreadedQueue
          Sessions, Lines, QCap, Killable      \* of TextQueue

ASSUME QueuesAssumption ==
    /\ MAX_THREAD \in Nat \ {0} /\ MAX_MSG \in Nat
    /\ Sessions \in Nat /\ QCap \in Nat

VARIABLES program,
          mq, stage, tpc, message, stale,                     \* of ThreadedQueue
          queue, session, wpc, data, lines, rpc, killed       \* of TextQueue

Threaded == INSTANCE ThreadedQueue
Text     == INSTANCE TextQueue

tqVars   == <<mq, stage, tpc, message, stale>>
textVars == <<queue, session, wpc, data, lines, rpc, killed>>
allVars  == <<program, vars, tqVars, textVars>>

\* The variables of a program that does not run have one value.
MCInit ==
    /\ program \in {"buffer", "threaded_queue", "text_data"}
    /\ Init /\ Threaded!Init /\ Text!Init
    /\ program # "threaded_queue" => stale = 0

Of(name, A, others) == program = name /\ A /\ UNCHANGED <<program, others>>

OfBuffer(A)   == Of("buffer", A, <<tqVars, textVars>>)
OfThreaded(A) == Of("threaded_queue", A, <<vars, textVars>>)
OfText(A)     == Of("text_data", A, <<vars, tqVars>>)

MCNext ==
    \/ OfBuffer(Producer) \/ OfBuffer(Consumer)
    \/ OfThreaded(Threaded!Main)
    \/ \E n \in 0..(MAX_THREAD - 1) : OfThreaded(Threaded!Thread(n))
    \/ OfText(Text!Start)
    \/ \E s \in 1..Sessions : \/ OfText(Text!Process1(s)) \/ OfText(Text!Receive(s))
                              \/ OfText(Text!Kill(s))

\* Every thread and process is scheduled, and a user enters the lines.
MCSpec ==
    /\ MCInit /\ [][MCNext]_allVars
    /\ WF_allVars(OfBuffer(Producer)) /\ WF_allVars(OfBuffer(Consumer))
    /\ WF_allVars(OfThreaded(Threaded!Main))
    /\ \A n \in 0..(MAX_THREAD - 1) : /\ WF_allVars(OfThreaded(Threaded!Send(n)))
                                      /\ WF_allVars(OfThreaded(Threaded!Receive(n)))
    /\ WF_allVars(OfText(Text!Start))
    /\ \A s \in 1..Sessions : /\ WF_allVars(OfText(Text!Process1(s)))
                              /\ WF_allVars(OfText(Text!Receive(s)))

\* What is sent through a queue is received once (threaded_queue.c), and ends
\* who it is to end (msgq_sys5).
QueuesDeliver == Threaded!EachMessageOnce /\ Text!EndsBalance

\* Neither thread of the buffer waits for ever: main joins both, without either
\* lock (testSemaphore3.c:63, 64).  main of threaded_queue.c joins all its
\* threads, even if a killed run has left the queue full.  All sessions of
\* text_data come to their end, unless one of their processes is terminated.
AllJoined == <>(\/ program = "buffer" /\ Joined
                \/ program = "threaded_queue" /\ stage[1] = "done"
                \/ program = "text_data" /\ (Text!AllStopped \/ killed > 0))
=============================================================================
