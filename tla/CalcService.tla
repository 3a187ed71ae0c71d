---------------------------- MODULE CalcService ----------------------------
(***************************************************************************)
(* What every client-server program of this repository promises.  A client *)
(* sends one request (two operands and an operator) to a server; a worker  *)
(* of the server computes the result of that request once; the client gets *)
(* that result, and no other.  The header comments of the servers          *)
(* (threads/client_server_*/server.c, data.h) say so in words; how the     *)
(* request and the result travel is what the programs differ in, and is    *)
(* not visible here.                                                       *)
(*                                                                         *)
(* A request stands for its operands and operator, and also for its own    *)
(* result: two requests are distinguished only by what they ask.           *)
(***************************************************************************)
CONSTANTS Clients,   \* the client processes
          Requests,  \* what a client may ask
          None       \* no request, or no result

VARIABLES phase,     \* where each client's request is
          asked,     \* the request each client has sent
          got        \* the result each client has received

svcVars == <<phase, asked, got>>

Phases == {"idle", "asked", "served", "done", "gone"}

Init ==
    /\ phase = [c \in Clients |-> "idle"]
    /\ asked = [c \in Clients |-> None]
    /\ got   = [c \in Clients |-> None]

\* The client sends its request.
Ask(c) ==
    /\ phase[c] = "idle"
    /\ \E r \in Requests : asked' = [asked EXCEPT ![c] = r]
    /\ phase' = [phase EXCEPT ![c] = "asked"]
    /\ UNCHANGED got

\* A worker computes the result; it becomes available to the client.
Serve(c) ==
    /\ phase[c] = "asked"
    /\ phase' = [phase EXCEPT ![c] = "served"]
    /\ UNCHANGED <<asked, got>>

\* The client receives the result of its own request.
Deliver(c) ==
    /\ phase[c] = "served"
    /\ phase' = [phase EXCEPT ![c] = "done"]
    /\ got'   = [got EXCEPT ![c] = asked[c]]
    /\ UNCHANGED asked

\* The client is terminated while it waits.
Abandon(c) ==
    /\ phase[c] \in {"asked", "served"}
    /\ phase' = [phase EXCEPT ![c] = "gone"]
    /\ UNCHANGED <<asked, got>>

\* Another client takes the place (the process id) of a finished one.
Renew(c) ==
    /\ phase[c] \in {"done", "gone"}
    /\ phase' = [phase EXCEPT ![c] = "idle"]
    /\ asked' = [asked EXCEPT ![c] = None]
    /\ got'   = [got EXCEPT ![c] = None]

Next == \E c \in Clients :
            Ask(c) \/ Serve(c) \/ Deliver(c) \/ Abandon(c) \/ Renew(c)

Spec == Init /\ [][Next]_svcVars
=============================================================================
