------------------------------ MODULE TextQueue ------------------------------
(***************************************************************************)
(* msgq/msgq_sys5/text_data, and structured_data, whose code is the same:  *)
(* start.sh starts process2 in the background and process1 in the          *)
(* foreground.  process1 sends the lines it is given to a System V queue   *)
(* until a line is "end"; process2 receives until then.  Nobody removes    *)
(* the queue, and process2 may still run when start.sh is run again: then  *)
(* the two take the lines of either session.                               *)
(*                                                                         *)
(* At the end of its input process1 sends its last line for ever, which    *)
(* here is the input of that line again.                                   *)
(***************************************************************************)
EXTENDS Naturals, Sequences, FiniteSets

CONSTANTS Sessions,  \* bound: runs of start.sh
          Lines,     \* bound: lines of a session before "end"
          QCap,      \* messages the queue holds
          Killable   \* bound: processes terminated from outside

VARIABLES queue,     \* the lines in the queue
          session,   \* how many sessions have started
          wpc,       \* where process1 of each session is
          data,      \* message1.data of each process1
          lines,     \* how many lines it was given
          rpc,       \* where process2 of each session is
          killed     \* how many processes have been terminated

textVars == <<queue, session, wpc, data, lines, rpc, killed>>

Runs == 1..Sessions

Init ==
    /\ queue = <<>> /\ session = 0
    /\ wpc = [s \in Runs |-> "none"] /\ rpc = [s \in Runs |-> "none"]
    /\ data = [s \in Runs |-> "garbage"] /\ lines = [s \in Runs |-> 0]
    /\ killed = 0

\* start.sh: the shell waits for process1 only.
Start ==
    /\ session < Sessions /\ \A s \in Runs : wpc[s] \in {"none", "gone", "killed"}
    /\ session' = session + 1
    /\ wpc' = [wpc EXCEPT ![session + 1] = "input"]
    /\ rpc' = [rpc EXCEPT ![session + 1] = "receive"]
    /\ UNCHANGED <<queue, data, lines, killed>>

\* fgets.
Input(s) ==
    /\ wpc[s] = "input"
    /\ \E l \in IF lines[s] < Lines THEN {"text", "end"} ELSE {"end"} :
          data' = [data EXCEPT ![s] = l]
    /\ lines' = [lines EXCEPT ![s] = @ + 1]
    /\ wpc' = [wpc EXCEPT ![s] = "send"]
    /\ UNCHANGED <<queue, session, rpc, killed>>

\* msgsnd waits while the queue is full.  (The type, 19, is passed as msgflg,
\* where it has no IPC_NOWAIT.)
Send(s) ==
    /\ wpc[s] = "send" /\ Len(queue) < QCap
    /\ queue' = Append(queue, data[s])
    /\ wpc' = [wpc EXCEPT ![s] = IF data[s] = "end" THEN "gone" ELSE "input"]
    /\ UNCHANGED <<session, data, lines, rpc, killed>>

\* Mutant: the reader leaves when the queue is empty.
ReceiveNoWait(s) ==
    /\ rpc[s] = "receive"
    /\ queue' = IF queue = <<>> THEN queue ELSE Tail(queue)
    /\ rpc' = [rpc EXCEPT ![s] = IF queue = <<>> \/ Head(queue) = "end" THEN "gone"
                                 ELSE "receive"]
    /\ UNCHANGED <<session, wpc, data, lines, killed>>

Receive(s) ==
    /\ rpc[s] = "receive" /\ queue # <<>>
    /\ queue' = Tail(queue)
    /\ rpc' = [rpc EXCEPT ![s] = IF Head(queue) = "end" THEN "gone" ELSE "receive"]
    /\ UNCHANGED <<session, wpc, data, lines, killed>>

KillWriter(s) ==
    /\ killed < Killable /\ wpc[s] \in {"input", "send"}
    /\ wpc' = [wpc EXCEPT ![s] = "killed"]
    /\ killed' = killed + 1
    /\ UNCHANGED <<queue, session, data, lines, rpc>>

KillReader(s) ==
    /\ killed < Killable /\ rpc[s] = "receive"
    /\ rpc' = [rpc EXCEPT ![s] = "killed"]
    /\ killed' = killed + 1
    /\ UNCHANGED <<queue, session, wpc, data, lines>>

-----------------------------------------------------------------------------
Process1(s) == Input(s) \/ Send(s)
Kill(s) == KillWriter(s) \/ KillReader(s)

Count(pc, S) == Cardinality({s \in Runs : pc[s] \in S})

\* There is an end in the queue, or yet to come, for every process2 that runs,
\* but for those whose process1 was terminated; and for every end there is a
\* process2, but for those that were terminated, so that without these nothing
\* is left in the queue for a later session (README: "Input end to stop both
\* the processes").
EndsBalance ==
    LET ends == Cardinality({n \in 1..Len(queue) : queue[n] = "end"})
    IN  /\ Count(rpc, {"receive", "killed"}) = ends + Count(wpc, {"input", "send", "killed"})
        /\ Count(rpc, {"killed"}) = 0 /\ Count(wpc, {"input", "send"}) = 0
              /\ Count(rpc, {"receive"}) = 0 => queue = <<>>

\* Without a process that was terminated, all sessions come to their end.
AllStopped == session = Sessions /\ \A s \in Runs : wpc[s] = "gone" /\ rpc[s] = "gone"
=============================================================================
