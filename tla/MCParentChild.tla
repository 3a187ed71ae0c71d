--------------------------- MODULE MCParentChild ---------------------------
(* The programs with pipes for TLC: the three of semaphore/parent_child    *)
(* and the three of pipe.  One is chosen at the start and runs alone.      *)
EXTENDS ParentChild, TLC

CONSTANT Programs   \* which of the six

VARIABLES program, pipe, pc, left, j, d, dat, op, got  \* of PipeServer

pipeVars == <<program, pipe, pc, left, j, d, dat, op, got>>

P1 == INSTANCE ParentChild1
P2 == INSTANCE ParentChild2
P3 == INSTANCE ParentChild3
Pipes12 == INSTANCE PipeServer
Pipes3  == INSTANCE Pipe3

MCInit == /\ program \in Programs /\ Init /\ Pipes12!Init
          /\ program \in {"pipe1", "pipe2", "pipe3"} => semval = [s \in Sems |-> 0]

OfParentChild(A) == A /\ UNCHANGED pipeVars
OfPipes(A) == A /\ UNCHANGED vars

MainStep ==
    \/ program = "parent_child1" /\ OfParentChild(P1!Main)
    \/ program = "parent_child2" /\ OfParentChild(P2!Main)
    \/ program = "parent_child3" /\ OfParentChild(P3!Main)
    \/ program \in {"pipe1", "pipe2"} /\ OfPipes(Pipes12!Main)
    \/ program = "pipe3" /\ OfPipes(Pipes3!Main3)

RequesterStep(k) ==
    \/ program = "parent_child1" /\ OfParentChild(P1!Requester(k))
    \/ program = "parent_child2" /\ OfParentChild(P2!Requester(k))
    \/ program = "parent_child3" /\ OfParentChild(P3!Requester(k))
    \/ program \in {"pipe1", "pipe2"} /\ OfPipes(Pipes12!Requester(k))
    \/ program = "pipe3" /\ k = 1 /\ OfPipes(Pipes3!Requester3)

CalculatorStep(c) ==
    \/ program = "parent_child1" /\ OfParentChild(P1!Calculator(c))
    \/ program = "parent_child2" /\ OfParentChild(P2!Calculator(c))
    \/ program = "parent_child3" /\ OfParentChild(P3!Calculator(c))
    \/ program \in {"pipe1", "pipe2", "pipe3"} /\ OfPipes(Pipes12!Calculator(c))

TickStep == program = "pipe1" /\ OfPipes(Pipes12!Tick)

MCNext == \/ MainStep \/ TickStep
          \/ \E k \in Req : RequesterStep(k) \/ CalculatorStep(k)

\* Every process that can go on is scheduled, and time goes on.
allVars == <<vars, pipeVars>>
MCSpec == /\ MCInit /\ [][MCNext]_allVars
          /\ WF_allVars(MainStep) /\ WF_allVars(TickStep)
          /\ \A k \in Req : WF_allVars(RequesterStep(k)) /\ WF_allVars(CalculatorStep(k))

PipesDeliver   == program \in {"pipe1", "pipe2"} => Pipes12!Delivered
RightNeverEnds == program = "pipe3" => Pipes3!RightNeverEnds

\* The program has come to its end.
Ended == IF program \in {"pipe1", "pipe2", "pipe3"} THEN Pipes12!Ended ELSE ppc = "done"

\* What the parent waits for has been taken back by SEM_UNDO, or erased by an
\* initialisation that came too late, or read by the wrong process: the
\* programs' own definitions say how.
Lost == \/ program = "parent_child1" /\ P1!Lost
        \/ program = "parent_child2" /\ P2!Lost
        \/ program = "parent_child3" /\ P3!Lost
        \/ program = "pipe3" /\ Pipes3!Right

\* The parent waits for its children (parent_child1.c:184-197, pipe1/server.c:
\* 89-93): it and all of them come to their end, unless what it waits for was
\* lost for good.  In pipe2 the clients do, that the parent does not wait for.
EndsOrLost == <>[](Ended \/ Lost)

\* pipe3/server.c:67-72: "wait for child to be terminated": the children are,
\* and the parent ends.
ChildrenTerminate == program = "pipe3" => <>Pipes12!Ended
=============================================================================
