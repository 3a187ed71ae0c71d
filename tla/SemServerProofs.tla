-------------------------- MODULE SemServerProofs --------------------------
(***************************************************************************)
(* What holds of SemServer for any number of clients and threads, with     *)
(* clients killed at any point and semaphores left at any value main       *)
(* provides for: types, the two sections the semaphores protect, when a    *)
(* client is let go, and where each result is.  Then, while no client is   *)
(* killed: what the fields main reads are of, which threads it joins, and  *)
(* whom a signal may end.                                                  *)
(***************************************************************************)
EXTENDS SemServer, TLAPS, SequenceTheorems, FiniteSetTheorems

-----------------------------------------------------------------------------
(* Types.  What is needed besides: how many fields each side has passed.   *)
Taking == spc \in {"startup", "open", "openWait", "read", "switch"}

\* A slot is filled while main is at it, and is empty before.
SlotsFilled ==
    /\ Taking => /\ slot \in Slots /\ count < slot
                 /\ \A i \in Slots : i > slot => d1[i] = <<>>
    /\ spc \in {"startup", "open", "openWait"} => d1[slot] = <<>>
    /\ spc = "read" => Len(d1[slot]) < NFields
    /\ spc = "switch" => Len(d1[slot]) = NFields
    /\ \A i \in Slots : tpc[i] # "none" => Len(d1[i]) = NFields

FieldsWritten ==
    \A c \in Clients :
        /\ cpc[c] \in {"start", "openReq", "openReqWait"} => wrote[c] = 0
        /\ cpc[c] = "write" => wrote[c] < NFields

TypeInv == TypeOK /\ SlotsFilled /\ FieldsWritten

\* What stays in a FIFO when a descriptor is closed is a queue still.
LEMMA KeptType ==
    ASSUME NEW S, NEW q \in Seq(S)
    PROVE  KeptCs(q) \in Seq(S) /\ KeptSc(q) \in Seq(S)
BY DEF KeptCs, KeptSc

\* What a signal makes of a client: it stays, gives up, or goes on to close.
LEMMA SignalType ==
    ASSUME TypeInv, NEW i \in Slots, KillState(i)
    PROVE  /\ cpc' \in [Clients -> ClientStates]
           /\ \A c \in Clients : \/ cpc'[c] = cpc[c]
                                 \/ cpc[c] = "openResWait" /\ cpc'[c] = "dead"
                                 \/ cpc[c] = "read" /\ cpc'[c] = "closeRes"
<1>1. cpc \in [Clients -> ClientStates]
  BY DEF TypeInv, TypeOK
<1>2. CASE d1[i][1] \in Clients
  <2>1. PICK s \in AfterSignal(d1[i][1]) : cpc' = [cpc EXCEPT ![d1[i][1]] = s]
    BY <1>2 DEF KillState, Goto
  <2>2. \/ s = cpc[d1[i][1]]
        \/ cpc[d1[i][1]] = "openResWait" /\ s = "dead"
        \/ cpc[d1[i][1]] = "read" /\ s = "closeRes"
    BY <2>1 DEF AfterSignal
  <2>3. s \in ClientStates
    BY <1>1, <1>2, <2>2 DEF ClientStates, ReqFdStates
  <2>4. QED
    BY <1>1, <1>2, <2>1, <2>2, <2>3
<1>3. CASE d1[i][1] \notin Clients
  BY <1>1, <1>3 DEF KillState
<1>4. QED
  BY <1>2, <1>3

\* A signal sets the flag of one client or of none.
LEMMA FlagType ==
    ASSUME NEW f \in [Clients -> BOOLEAN], NEW i \in Slots
    PROVE  KillFlag(i, f) \in [Clients -> BOOLEAN]
BY DEF KillFlag

\* The bytes of one field.
LEMMA RepeatedType ==
    ASSUME NEW S, NEW x \in S, NEW n \in Nat
    PROVE  [b \in 1..n |-> x] \in Seq(S)
OBVIOUS

\* The first state has the types.
LEMMA TypeInit == Init => TypeInv
BY ConstantsAssumption DEF Init, TypeInv, TypeOK, SlotsFilled, FieldsWritten, Taking,
    Slots, NFields, ClientStates, ServerStates, ThreadStates

\* A client's step keeps them.
LEMMA ClientType ==
    ASSUME TypeInv, NEW c \in Clients, Client(c) \/ CKill(c)
    PROVE  TypeInv'
<1> USE ConstantsAssumption DEF TypeInv, TypeOK, SlotsFilled, FieldsWritten, Taking,
        Slots, NFields, Goto, fifoVars, mainVars
<1>1. CASE CWait(c)
  BY <1>1 DEF CWait, ClientStates
<1>2. CASE COpenReq(c)
  <2>1. cpc' \in [Clients -> ClientStates] /\ spc' \in ServerStates
    BY <1>2 DEF COpenReq, ClientStates, ReqFdStates, ServerStates
  <2>2. /\ UNCHANGED <<sem1, sem2, fifoVars, wrote, flag1, flag2, got, slot, d1,
                       count, tpc, kills>>
        /\ cpc[c] = "openReq" /\ spc' = IF spc = "openWait" THEN "read" ELSE spc
        /\ cpc' = [cpc EXCEPT ![c] = IF CsHasReader THEN "write" ELSE "openReqWait"]
    BY <1>2 DEF COpenReq
  <2>3. TypeOK'
    BY <2>1, <2>2
  <2>4. FieldsWritten'
    BY <2>2
  <2>5. SlotsFilled'
    BY <2>2
  <2>6. QED
    BY <2>3, <2>4, <2>5
<1>3. CASE CWrite(c)
  <2>1. cs' \in Seq(Bytes)
    <3>1. wrote[c] \in 0..NFields /\ wrote[c] < NFields
      BY <1>3 DEF CWrite
    <3>2. /\ SizeOf(wrote[c] + 1) \in Nat
          /\ <<c, wrote[c] + 1>> \in Bytes
      BY <3>1 DEF SizeOf, Bytes
    <3>3. [b \in 1..SizeOf(wrote[c] + 1) |-> <<c, wrote[c] + 1>>] \in Seq(Bytes)
      BY ONLY <3>2, RepeatedType
    <3>4. cs \in Seq(Bytes)
          /\ cs' = cs \o [b \in 1..SizeOf(wrote[c] + 1) |-> <<c, wrote[c] + 1>>]
      BY <1>3 DEF CWrite
    <3>5. QED
      BY ONLY <3>3, <3>4, ConcatProperties
  <2>2. /\ cpc[c] = "write" /\ wrote[c] \in 0..NFields /\ wrote[c] < NFields
        /\ wrote' = [wrote EXCEPT ![c] = wrote[c] + 1]
        /\ cpc' = [cpc EXCEPT ![c] = IF wrote[c] + 1 = NFields THEN "post" ELSE "write"]
    BY <1>3 DEF CWrite, LastWritten
  <2>3. wrote' \in [Clients -> 0..NFields] /\ cpc' \in [Clients -> ClientStates]
    BY <2>2 DEF ClientStates, ReqFdStates
  <2>4. FieldsWritten'
    <3>1. CASE wrote[c] + 1 = NFields
      BY <2>2, <3>1
    <3>2. CASE wrote[c] + 1 # NFields
      BY <2>2, <3>2
    <3>3. QED
      BY <3>1, <3>2
  <2>5. QED
    BY <1>3, <2>1, <2>3, <2>4 DEF CWrite
<1>4. CASE CWriteBroken(c)
  BY <1>4, KeptType DEF CWriteBroken, ClientStates
<1>5. CASE CPost(c)
  BY <1>5 DEF CPost, Posted, ClientStates, ReqFdStates
<1>6. CASE COpenRes(c)
  BY <1>6 DEF COpenRes, ClientStates, ReqFdStates, ThreadStates
<1>7. CASE CAwait1(c)
  BY <1>7 DEF CAwait1, ClientStates, ReqFdStates
<1>8. CASE CRead(c)
  <2>1. CASE sc # <<>> /\ got' = [got EXCEPT ![c] = Head(sc)] /\ sc' = Tail(sc)
    <3>1. sc \in Seq(Clients \cup {None})
      OBVIOUS
    <3>2. Head(sc) \in Clients \cup {None} /\ sc' \in Seq(Clients \cup {None})
      BY ONLY <2>1, <3>1, HeadTailProperties
    <3>3. QED
      BY <1>8, <2>1, <3>2 DEF CRead, ClientStates, ReqFdStates
  <2>2. CASE UNCHANGED <<got, sc>>
    BY <1>8, <2>2 DEF CRead, ClientStates, ReqFdStates
  <2>3. QED
    BY <1>8, <2>1, <2>2 DEF CRead
<1>9. CASE CCloseRes(c)
  BY <1>9, KeptType DEF CCloseRes, ClientStates, ReqFdStates
<1>10. CASE CAwait2(c)
  BY <1>10, KeptType DEF CAwait2, ClientStates
<1>11. CASE CKill(c)
  <2>1. cs' \in Seq(Bytes) /\ sc' \in Seq(Clients \cup {None})
    BY <1>11, KeptType DEF CKill
  <2>2. cpc' = [cpc EXCEPT ![c] = "dead"] /\ kills' \in 0..MaxKills
    BY <1>11 DEF CKill
  <2>3. QED
    BY <1>11, <2>1, <2>2 DEF CKill, ClientStates
<1>12. QED
  BY <1>1, <1>2, <1>3, <1>4, <1>5, <1>6, <1>7, <1>8, <1>9, <1>10, <1>11 DEF Client

\* A step of main keeps them.
LEMMA MainType ==
    ASSUME TypeInv, Main
    PROVE  TypeInv'
<1> USE ConstantsAssumption DEF TypeInv, TypeOK, SlotsFilled, FieldsWritten, Taking,
        Slots, NFields, ServerStates, fifoVars, clientVars
<1>1. CASE Startup
  <2>1. sem1' \in Nat /\ sem2' \in Nat
    BY <1>1 DEF Startup, Adjusted, Posted
  <2>2. QED
    BY <1>1, <2>1 DEF Startup
<1>2. CASE OpenReq
  <2>1. /\ spc = "open" /\ spc' \in {"read", "openWait"}
        /\ UNCHANGED <<sem1, sem2, cs, sc, scOpen, fdw, wrote, flag1, flag2, got,
                       slot, d1, count, tpc, kills>>
    BY <1>2 DEF OpenReq
  <2>2. /\ cpc' \in [Clients -> ClientStates]
        /\ \A c \in Clients : cpc'[c] = cpc[c] \/ (cpc[c] = "openReqWait" /\ cpc'[c] = "write")
    <3>1. cpc \in [Clients -> ClientStates] /\ "write" \in ClientStates
      BY DEF ClientStates, ReqFdStates
    <3>2. cpc' = [c \in Clients |-> IF cpc[c] = "openReqWait" THEN "write" ELSE cpc[c]]
      BY <1>2 DEF OpenReq
    <3>3. QED
      BY ONLY <3>1, <3>2
  <2>3. TypeOK'
    BY <2>1, <2>2
  <2>6. FieldsWritten'
    BY <2>1, <2>2, SMTT(20)
  <2>4. Len(d1[slot]) = 0
    BY <2>1
  <2>5. SlotsFilled'
    BY <2>1, <2>4
  <2>7. QED
    BY <2>3, <2>6, <2>5
<1>3. CASE ReadField
  <2>1. PICK x \in Clients \cup {None} :
           d1' = [d1 EXCEPT ![slot] = Append(@, x)] /\ cs' \in Seq(Bytes)
    <3>1. PICK x \in Clients \cup {None} : d1' = [d1 EXCEPT ![slot] = Append(@, x)]
      BY <1>3 DEF ReadField
    <3>2. /\ cs \in Seq(Bytes) /\ Len(d1[slot]) \in Nat
          /\ cs' = SubSeq(cs, SizeOf(Len(d1[slot]) + 1) + 1, Len(cs))
      BY <1>3, LenProperties DEF ReadField
    <3>3. SizeOf(Len(d1[slot]) + 1) \in Nat
      BY DEF SizeOf
    <3>4. cs' \in Seq(Bytes)
      BY ONLY <3>2, <3>3, SMT
    <3>5. QED
      BY <3>1, <3>4
  <2>2. /\ slot \in Slots /\ d1[slot] \in Seq(Clients \cup {None})
        /\ Len(d1[slot]) \in Nat /\ Len(d1[slot]) < NFields
    BY <1>3, LenProperties DEF ReadField
  <2>3. /\ Append(d1[slot], x) \in Seq(Clients \cup {None})
        /\ Len(Append(d1[slot], x)) = Len(d1[slot]) + 1
    BY <2>2, AppendProperties
  <2>4. /\ d1' \in [Slots -> Seq(Clients \cup {None})]
        /\ Len(d1'[slot]) = Len(d1[slot]) + 1
        /\ \A i \in Slots : i # slot => d1'[i] = d1[i]
    BY <2>1, <2>2, <2>3
  <2>5. /\ spc' = IF Len(d1[slot]) + 1 = NFields THEN "switch" ELSE "read"
        /\ UNCHANGED <<sem1, sem2, sc, scOpen, fdw, cpc, wrote, flag1, flag2, got,
                       slot, count, tpc, kills>>
        /\ spc = "read"
    BY <1>3 DEF ReadField, LastRead
  <2>6. SlotsFilled'
    <3>1. tpc[slot] = "none"
      <4>1. SUFFICES ASSUME tpc[slot] # "none" PROVE FALSE
        OBVIOUS
      <4>2. Len(d1[slot]) = NFields
        BY <2>2, <4>1
      <4>3. QED
        BY <2>2, <4>2
    <3>2. \A i \in Slots : tpc'[i] # "none" => Len(d1'[i]) = NFields
      <4>1. SUFFICES ASSUME NEW i \in Slots, tpc[i] # "none" PROVE Len(d1'[i]) = NFields
        BY <2>5
      <4>2. i # slot
        BY <3>1, <4>1
      <4>3. d1'[i] = d1[i] /\ Len(d1[i]) = NFields
        BY <2>4, <4>1, <4>2
      <4>4. QED
        BY <4>3
    <3>3. /\ slot' \in Slots /\ count' < slot'
          /\ \A i \in Slots : i > slot' => d1'[i] = <<>>
      BY <2>2, <2>4, <2>5
    <3>4. CASE Len(d1[slot]) + 1 = NFields
      BY <2>4, <2>5, <3>2, <3>3, <3>4
    <3>5. CASE Len(d1[slot]) + 1 # NFields
      BY <2>2, <2>4, <2>5, <3>2, <3>3, <3>5
    <3>6. QED
      BY <3>4, <3>5
  <2>7. TypeOK' /\ FieldsWritten'
    BY <2>1, <2>4, <2>5
  <2>8. QED
    BY <2>6, <2>7
<1>4. CASE Switch
  <2>1. /\ spc = "switch" /\ slot \in Slots /\ count < slot /\ count \in Nat
        /\ UNCHANGED <<sem1, sem2, sc, scOpen, fdw, clientVars, d1, kills>>
        /\ cs' = KeptCs(cs)
        /\ IF slot = MaxThread THEN slot' = 1 /\ spc' = "join"
                               ELSE slot' = slot + 1 /\ spc' = "open"
    BY <1>4 DEF Switch, Counted
  <2>2. \/ tpc' = [tpc EXCEPT ![slot] = "wait"] /\ count' = count + 1
        \/ tpc' = tpc /\ count' = count
    BY <1>4 DEF Switch, Counted
  <2>3. count' \in 0..MaxThread /\ count' <= slot
    BY <2>1, <2>2
  <2>4. /\ tpc' \in [Slots -> ThreadStates]
        /\ \A i \in Slots : tpc'[i] # "none" => tpc[i] # "none" \/ i = slot
    <3>1. tpc \in [Slots -> ThreadStates] /\ "wait" \in ThreadStates /\ slot \in Slots
      BY <2>1 DEF ThreadStates
    <3>2. QED
      BY ONLY <2>2, <3>1
  <2>5. spc' \in {"join", "open"} /\ slot' \in 1..(MaxThread + 1)
    BY <2>1, SMTT(20)
  <2>6. TypeOK'
    BY <2>1, <2>3, <2>4, <2>5, KeptType
  <2>7. FieldsWritten'
    BY <2>1
  <2>8. SlotsFilled'
    <3>1. /\ \A i \in Slots : i > slot => d1[i] = <<>>
          /\ Len(d1[slot]) = NFields
          /\ \A i \in Slots : tpc[i] # "none" => Len(d1[i]) = NFields
      BY <2>1
    <3>2. \A i \in Slots : tpc'[i] # "none" => Len(d1'[i]) = NFields
      BY <2>1, <2>4, <3>1
    <3>3. CASE slot = MaxThread
      BY <2>1, <3>2, <3>3
    <3>4. CASE slot # MaxThread
      BY <2>1, <2>3, <3>1, <3>2, <3>4
    <3>5. QED
      BY <3>3, <3>4
  <2>9. QED
    BY <2>6, <2>7, <2>8
<1>5. ASSUME NEW i \in Slots, i <= count, i = slot, spc = "join", KillState(i),
             flag2' = KillFlag(i, flag2), slot' = i + 1,
             cs' = KeptCs(cs), sc' = KeptSc(sc),
             UNCHANGED <<sem1, sem2, scOpen, fdw, wrote, flag1, got, spc, d1, count,
                         tpc, kills>>
      PROVE  TypeInv'
  <2>1. flag2' \in [Clients -> BOOLEAN]
    BY <1>5, FlagType
  <2>2. cs' \in Seq(Bytes) /\ sc' \in Seq(Clients \cup {None})
    BY <1>5, KeptType
  <2>3. cpc' \in [Clients -> ClientStates] /\ FieldsWritten'
    BY <1>5, SignalType
  <2>4. TypeOK' /\ SlotsFilled'
    BY <1>5, <2>1, <2>2, <2>3
  <2>5. QED
    BY <2>3, <2>4
<1>6. CASE Join \/ JoinUnset
  <2>1. slot \in Slots /\ slot <= count /\ spc = "join"
    BY <1>6 DEF Join, JoinUnset
  <2>2. CASE ProcessEnds("dead") /\ JoinUnset /\ UNCHANGED <<cpc, flag2, slot>>
    BY <2>2, KeptType DEF JoinUnset, ProcessEnds, ThreadStates
  <2>3. CASE ~(ProcessEnds("dead") /\ JoinUnset /\ UNCHANGED <<cpc, flag2, slot>>)
    BY <1>5, <1>6, <2>1, <2>3 DEF Join, JoinUnset
  <2>4. QED
    BY <2>2, <2>3
<1>7. CASE Finish
  BY <1>7, KeptType DEF Finish, ProcessEnds, ThreadStates
<1>8. QED
  BY <1>1, <1>2, <1>3, <1>4, <1>6, <1>7 DEF Main

\* A thread's step keeps them.
LEMMA ThreadType ==
    ASSUME TypeInv, NEW i \in Slots, Thread(i)
    PROVE  TypeInv'
<1> USE ConstantsAssumption DEF TypeInv, TypeOK, SlotsFilled, FieldsWritten, Taking,
        Slots, NFields, ThreadStates, ThreadGoto, fifoVars, clientVars, mainVars
<1>1. CASE TWait(i)
  BY <1>1 DEF TWait
<1>2. CASE TOpen(i)
  BY <1>2 DEF TOpen, ClientStates, ReqFdStates
<1>3. CASE TAssign(i)
  BY <1>3 DEF TAssign
<1>4. CASE TWrite(i)
  <2>1. Result(i) \in Clients \cup {None}
    <3>1. d1[i] \in Seq(Clients \cup {None}) /\ Len(d1[i]) = NFields
      BY <1>4 DEF TWrite
    <3>2. d1[i][2] \in Clients \cup {None}
      BY ONLY <3>1, ElementOfSeq DEF NFields
    <3>3. QED
      BY <3>2 DEF Result
  <2>2. sc' \in Seq(Clients \cup {None})
    BY <1>4, <2>1, AppendProperties DEF TWrite
  <2>3. QED
    BY <1>4, <2>2 DEF TWrite
<1>5. CASE TWriteBroken(i)
  BY <1>5, KeptType DEF TWriteBroken, ProcessEnds, ServerStates
<1>6. CASE TClose(i)
  BY <1>6, KeptType DEF TClose
<1>7. CASE TNotify(i)
  BY <1>7, KeptType, SignalType, FlagType DEF TNotify
<1>8. CASE TPost(i)
  BY <1>8 DEF TPost, Posted
<1>9. QED
  BY <1>1, <1>2, <1>3, <1>4, <1>5, <1>6, <1>7, <1>8 DEF Thread

\* So does every step.
LEMMA TypeStep ==
    ASSUME TypeInv, [Next]_vars
    PROVE  TypeInv'
<1>1. CASE UNCHANGED vars
  BY <1>1 DEF vars, fifoVars, clientVars, mainVars, TypeInv, TypeOK, SlotsFilled,
              FieldsWritten, Taking
<1>2. QED
  BY <1>1, ClientType, MainType, ThreadType DEF Next

\* Every variable keeps its type (main, the thread functions and the clients),
\* with clients killed at any point.
THEOREM TypeCorrect == Spec => []TypeOK
<1>1. TypeInv /\ [Next]_vars => TypeInv'
  BY TypeStep
<1>2. TypeInv => TypeOK
  BY DEF TypeInv
<1>3. QED
  BY TypeInit, <1>1, <1>2, PTL DEF Spec

-----------------------------------------------------------------------------
(* The section of sem1.  Once main has adjusted the semaphore, it is 1 and *)
(* nobody is in the section, or it is 0; a client that dies in the section *)
(* leaves it at 0 for ever.                                                *)
ReqInv ==
    /\ spc = "startup" => sem1 \in 0..2 /\ \A c \in Clients : cpc[c] = "start"
    /\ spc # "startup" => /\ sem1 \in 0..1
                          /\ \A c \in Clients : cpc[c] \in RequestStates => sem1 = 0
    /\ ReqExclusive

\* Before the adjustment nobody has waited for sem1.
LEMMA ReqInit == Init => ReqInv
BY ConstantsAssumption DEF Init, ReqInv, ReqExclusive, RequestStates

\* A step by which nobody enters the section and sem1 does not change.
LEMMA ReqKept ==
    ASSUME ReqInv, sem1' = sem1, spc # "startup", spc' # "startup",
           \A c \in Clients : cpc'[c] \in RequestStates => cpc[c] \in RequestStates
    PROVE  ReqInv'
BY DEF ReqInv, ReqExclusive

\* A client enters the section of sem1 when it takes the semaphore down.
LEMMA ClientReq ==
    ASSUME TypeInv, ReqInv, NEW c \in Clients, Client(c) \/ CKill(c)
    PROVE  ReqInv'
<1>1. cpc \in [Clients -> ClientStates] /\ sem1 \in Nat
  BY DEF TypeInv, TypeOK
<1>2. CASE CWait(c)
  <2>1. /\ sem1' = sem1 - 1 /\ sem1 > 0 /\ spc # "startup" /\ spc' = spc
        /\ cpc' = [cpc EXCEPT ![c] = "openReq"]
    BY <1>2 DEF CWait, Goto, mainVars
  <2>2. sem1 = 1 /\ \A b \in Clients : cpc[b] \notin RequestStates
    BY <2>1 DEF ReqInv
  <2>3. sem1' = 0 /\ \A b \in Clients : cpc'[b] \in RequestStates => b = c
    BY <1>1, <2>1, <2>2
  <2>4. QED
    BY <2>1, <2>3 DEF ReqInv, ReqExclusive
<1>3. CASE CPost(c)
  <2>1. /\ sem1' = sem1 + 1 /\ spc' = spc /\ cpc[c] = "post"
        /\ cpc' = [cpc EXCEPT ![c] = "openRes"]
    BY <1>3 DEF CPost, Posted, Goto, mainVars
  <2>2. spc # "startup" /\ sem1 = 0
    BY <2>1 DEF ReqInv, RequestStates
  <2>3. \A b \in Clients : cpc'[b] \notin RequestStates
    <3>1. \A b \in Clients : cpc[b] \in RequestStates => b = c
      BY <2>1 DEF ReqInv, ReqExclusive, RequestStates
    <3>2. QED
      BY <1>1, <2>1, <3>1 DEF RequestStates
  <2>4. QED
    BY <2>1, <2>2, <2>3 DEF ReqInv, ReqExclusive
<1>4. CASE ~CWait(c) /\ ~CPost(c)
  <2>1. cpc[c] # "start" /\ sem1' = sem1
    BY <1>4 DEF Client, COpenReq, CWrite, CWriteBroken, COpenRes, CAwait1, CRead,
                CCloseRes, CAwait2, CKill
  <2>2. spc # "startup"
    BY <2>1 DEF ReqInv
  <2>3. spc' # "startup"
    BY <1>4, <2>2 DEF Client, COpenReq, CWrite, CWriteBroken, COpenRes, CAwait1, CRead,
                CCloseRes, CAwait2, CKill, mainVars
  <2>4. PICK s : /\ cpc' = [cpc EXCEPT ![c] = s]
                 /\ s \in RequestStates => cpc[c] \in RequestStates
    BY <1>4 DEF Client, COpenReq, CWrite, CWriteBroken, COpenRes, CAwait1, CRead,
                CCloseRes, CAwait2, CKill, Goto, RequestStates
  <2>5. \A b \in Clients : cpc'[b] \in RequestStates => cpc[b] \in RequestStates
    BY <1>1, <2>4
  <2>6. QED
    BY <2>1, <2>2, <2>3, <2>5, ReqKept
<1>5. QED
  BY <1>2, <1>3, <1>4

\* Main adjusts sem1 before any client runs, and moves nobody into the section.
LEMMA MainReq ==
    ASSUME TypeInv, ReqInv, Main
    PROVE  ReqInv'
<1>1. cpc \in [Clients -> ClientStates]
  BY DEF TypeInv, TypeOK
<1>2. CASE Startup
  <2>1. spc = "startup" /\ spc' = "open" /\ cpc' = cpc /\ sem1' = Adjusted(sem1)
    BY <1>2 DEF Startup, clientVars
  <2>2. sem1' = 1
    BY <2>1 DEF ReqInv, Adjusted, Posted
  <2>3. QED
    BY <2>1, <2>2 DEF ReqInv, ReqExclusive, RequestStates
<1>3. CASE ~Startup
  <2>1. spc # "startup" /\ spc' # "startup" /\ sem1' = sem1
    BY <1>3 DEF Main, OpenReq, ReadField, Switch, Join, JoinUnset, Finish, ProcessEnds
  <2>2. \A c \in Clients : cpc'[c] \in RequestStates => cpc[c] \in RequestStates
    <3>1. CASE OpenReq
      BY <3>1 DEF OpenReq, RequestStates
    <3>2. CASE UNCHANGED cpc
      BY <3>2
    <3>3. CASE slot \in Slots /\ KillState(slot)
      BY <3>3, SignalType DEF RequestStates
    <3>4. slot <= count => slot \in Slots
      BY ConstantsAssumption DEF TypeInv, TypeOK, Slots
    <3>5. QED
      BY <1>3, <3>1, <3>2, <3>3, <3>4
         DEF Main, ReadField, Switch, Join, JoinUnset, Finish, clientVars
  <2>3. QED
    BY <2>1, <2>2, ReqKept
<1>4. QED
  BY <1>2, <1>3

\* Threads post no sem1; their signals move clients only on, or to their end.
LEMMA ThreadReq ==
    ASSUME TypeInv, ReqInv, spc # "startup", NEW i \in Slots, Thread(i)
    PROVE  ReqInv'
<1>1. spc' # "startup" /\ sem1' = sem1
  BY DEF Thread, TWait, TOpen, TAssign, TWrite, TWriteBroken, TClose, TNotify, TPost,
         ProcessEnds, mainVars
<1>2. \A c \in Clients : cpc'[c] \in RequestStates => cpc[c] \in RequestStates
  <2>1. CASE TOpen(i)
    BY <2>1 DEF TOpen, RequestStates
  <2>2. CASE TNotify(i)
    BY <2>2, SignalType DEF TNotify, RequestStates
  <2>3. CASE UNCHANGED cpc
    BY <2>3
  <2>4. QED
    BY <2>1, <2>2, <2>3
       DEF Thread, TWait, TAssign, TWrite, TWriteBroken, TClose, TPost, clientVars
<1>3. QED
  BY <1>1, <1>2, ReqKept

-----------------------------------------------------------------------------
(* The section of sem2, and the descriptor the threads share in it.        *)
ReplyInv ==
    /\ spc = "startup" => sem2 \in 0..2 /\ \A i \in Slots : tpc[i] = "none"
    /\ spc # "startup" => /\ sem2 \in 0..1
                          /\ \A i \in Slots : tpc[i] \in ReplyStates => sem2 = 0
    /\ \A i, j \in Slots : tpc[i] \in ReplyStates /\ tpc[j] \in ReplyStates => i = j
    /\ \A i \in Slots : tpc[i] \in {"openWait", "assign", "write", "close"} => i \in scOpen
    /\ \A i \in Slots : tpc[i] \in {"write", "close"} => fdw = i

\* Before the adjustment no thread has waited for sem2.
LEMMA ReplyInit == Init => ReplyInv
BY ConstantsAssumption DEF Init, ReplyInv, ReplyStates

\* A step by which no thread enters the section or moves on in it, except that
\* an open that waited has returned.
LEMMA ReplyKept ==
    ASSUME ReplyInv, UNCHANGED <<sem2, scOpen, fdw>>, spc # "startup", spc' # "startup",
           \A i \in Slots : \/ tpc'[i] = tpc[i]
                            \/ tpc[i] = "openWait" /\ tpc'[i] = "assign"
                            \/ tpc'[i] \notin ReplyStates
    PROVE  ReplyInv'
<1>1. \A i \in Slots : tpc'[i] \in ReplyStates => tpc[i] \in ReplyStates
  BY DEF ReplyStates
<1>2. /\ \A i \in Slots : tpc'[i] \in {"openWait", "assign", "write", "close"} => i \in scOpen'
      /\ \A i \in Slots : tpc'[i] \in {"write", "close"} => fdw' = i
  BY DEF ReplyInv, ReplyStates
<1>3. QED
  BY <1>1, <1>2 DEF ReplyInv

\* The end of the process ends its threads.
LEMMA ReplyEnds ==
    ASSUME ReplyInv, sem2' = sem2, spc # "startup", spc' # "startup",
           tpc' = [i \in Slots |-> "none"]
    PROVE  ReplyInv'
BY DEF ReplyInv, ReplyStates

\* A client does no more to the section of sem2 than to wake an open.
LEMMA ClientReply ==
    ASSUME TypeInv, ReplyInv, spc # "startup", NEW c \in Clients, Client(c) \/ CKill(c)
    PROVE  ReplyInv'
<1>1. UNCHANGED <<sem2, scOpen, fdw>> /\ spc' # "startup"
  BY DEF Client, CWait, COpenReq, CWrite, CWriteBroken, CPost, COpenRes, CAwait1, CRead,
         CCloseRes, CAwait2, CKill, fifoVars, mainVars
<1>2. CASE COpenRes(c)
  BY <1>1, <1>2, ReplyKept DEF COpenRes
<1>3. CASE tpc' = tpc
  BY <1>1, <1>3, ReplyKept
<1>4. QED
  BY <1>2, <1>3 DEF Client, CWait, COpenReq, CWrite, CWriteBroken, CPost, CAwait1, CRead,
         CCloseRes, CAwait2, CKill

\* Main starts threads outside the section and joins them outside it.
LEMMA MainReply ==
    ASSUME TypeInv, ReplyInv, Main
    PROVE  ReplyInv'
<1>1. tpc \in [Slots -> ThreadStates]
  BY DEF TypeInv, TypeOK
<1>2. CASE Startup
  <2>1. /\ spc = "startup" /\ spc' = "open" /\ sem2' = Adjusted(sem2)
        /\ UNCHANGED <<tpc, scOpen, fdw>>
    BY <1>2 DEF Startup, fifoVars
  <2>2. sem2' = 1
    BY <2>1 DEF ReplyInv, Adjusted, Posted
  <2>3. QED
    BY <2>1, <2>2 DEF ReplyInv, ReplyStates
<1>3. CASE ~Startup
  <2>1. spc # "startup" /\ spc' # "startup" /\ sem2' = sem2
    BY <1>3 DEF Main, OpenReq, ReadField, Switch, Join, JoinUnset, Finish, ProcessEnds
  <2>2. CASE ProcessEnds("dead") \/ ProcessEnds("done")
    BY <2>1, <2>2, ReplyEnds DEF ProcessEnds
  <2>3. CASE Switch
    <3>1. \A i \in Slots : tpc'[i] = tpc[i] \/ tpc'[i] \notin ReplyStates
      BY <1>1, <2>3 DEF Switch, ReplyStates
    <3>2. UNCHANGED <<scOpen, fdw>>
      BY <2>3 DEF Switch
    <3>3. QED
      BY <2>1, <3>1, <3>2, ReplyKept
  <2>4. CASE UNCHANGED <<tpc, scOpen, fdw>>
    BY <2>1, <2>4, ReplyKept
  <2>5. QED
    BY <1>3, <2>2, <2>3, <2>4
       DEF Main, OpenReq, ReadField, Join, JoinUnset, Finish, fifoVars
<1>4. QED
  BY <1>2, <1>3

\* A thread enters the section of sem2 when it takes the semaphore down.
LEMMA ThreadReply ==
    ASSUME TypeInv, ReplyInv, NEW i \in Slots, Thread(i)
    PROVE  ReplyInv'
<1>1. tpc \in [Slots -> ThreadStates] /\ sem2 \in Nat /\ scOpen \subseteq Slots
  BY DEF TypeInv, TypeOK
<1>2. spc # "startup"
  BY DEF Thread, TWait, TOpen, TAssign, TWrite, TWriteBroken, TClose, TNotify, TPost, ReplyInv
<1>3. CASE TWait(i)
  <2>1. /\ sem2' = sem2 - 1 /\ sem2 > 0 /\ tpc' = [tpc EXCEPT ![i] = "open"]
        /\ UNCHANGED <<spc, scOpen, fdw>>
    BY <1>3 DEF TWait, ThreadGoto, fifoVars, mainVars
  <2>2. sem2 = 1 /\ \A j \in Slots : tpc[j] \notin ReplyStates
    BY <1>2, <2>1 DEF ReplyInv
  <2>3. \A j \in Slots : j # i => tpc'[j] \notin ReplyStates
    BY <1>1, <2>1, <2>2
  <2>4. sem2' = 0 /\ tpc'[i] = "open"
    BY <1>1, <2>1, <2>2
  <2>5. QED
    BY <1>2, <2>1, <2>3, <2>4 DEF ReplyInv, ReplyStates
<1>4. CASE TWriteBroken(i)
  BY <1>2, <1>4, ReplyEnds DEF TWriteBroken, ProcessEnds
<1>5. CASE ~TWait(i) /\ ~TWriteBroken(i)
  <2>1. /\ UNCHANGED spc /\ tpc[i] \in ReplyStates
        /\ \E s \in ReplyStates \cup {"exited"} : tpc' = [tpc EXCEPT ![i] = s]
    BY <1>5 DEF Thread, TOpen, TAssign, TWrite, TClose, TNotify, TPost, ThreadGoto,
                ReplyStates, mainVars
  <2>2. sem2 = 0 /\ \A j \in Slots : j # i => tpc[j] \notin ReplyStates
    BY <1>2, <2>1 DEF ReplyInv
  <2>3. \A j \in Slots : j # i => tpc'[j] \notin ReplyStates
    BY <1>1, <2>1, <2>2
  <2>4. CASE TPost(i)
    <3>1. sem2' = 1 /\ tpc'[i] = "exited"
      BY <1>1, <2>2, <2>4 DEF TPost, Posted, ThreadGoto
    <3>2. \A j \in Slots : tpc'[j] \notin ReplyStates
      BY <2>3, <3>1 DEF ReplyStates
    <3>3. QED
      BY <1>2, <2>1, <3>1, <3>2 DEF ReplyInv, ReplyStates
  <2>5. CASE ~TPost(i)
    <3>1. sem2' = sem2
      BY <1>5, <2>5 DEF Thread, TOpen, TAssign, TWrite, TClose, TNotify
    <3>2. /\ tpc'[i] \in {"openWait", "assign", "write", "close"} => i \in scOpen'
          /\ tpc'[i] \in {"write", "close"} => fdw' = i
      BY <1>1, <1>5, <2>5 DEF Thread, TOpen, TAssign, TWrite, TClose, TNotify, ThreadGoto,
                              ReplyInv
    <3>3. QED
      BY <1>2, <2>1, <2>2, <2>3, <3>1, <3>2 DEF ReplyInv, ReplyStates
  <2>6. QED
    BY <2>4, <2>5
<1>6. QED
  BY <1>3, <1>4, <1>5

\* Every step keeps what is known of both sections.
LEMMA SectionsStep ==
    ASSUME TypeInv, ReqInv, ReplyInv, [Next]_vars
    PROVE  ReqInv' /\ ReplyInv'
<1>1. ASSUME NEW c \in Clients, Client(c) \/ CKill(c) PROVE ReqInv' /\ ReplyInv'
  <2>1. spc # "startup"
    BY <1>1 DEF ReqInv, Client, CWait, COpenReq, CWrite, CWriteBroken, CPost, COpenRes,
                CAwait1, CRead, CCloseRes, CAwait2, CKill
  <2>2. QED
    BY <1>1, <2>1, ClientReq, ClientReply
<1>2. CASE Main
  BY <1>2, MainReq, MainReply
<1>3. ASSUME NEW i \in Slots, Thread(i) PROVE ReqInv' /\ ReplyInv'
  <2>1. spc # "startup"
    BY <1>3 DEF ReplyInv, Thread, TWait, TOpen, TAssign, TWrite, TWriteBroken, TClose,
                TNotify, TPost
  <2>2. QED
    BY <1>3, <2>1, ThreadReq, ThreadReply
<1>4. CASE UNCHANGED vars
  BY <1>4 DEF vars, fifoVars, clientVars, mainVars, ReqInv, ReqExclusive, ReplyInv
<1>5. QED
  BY <1>1, <1>2, <1>3, <1>4 DEF Next

\* So both are kept always.
LEMMA SectionsAlways == Spec => [](ReqInv /\ ReplyInv)
<1>1. TypeInv /\ ReqInv /\ ReplyInv /\ [Next]_vars => (TypeInv /\ ReqInv /\ ReplyInv)'
  BY TypeStep, SectionsStep
<1>2. Init => TypeInv /\ ReqInv /\ ReplyInv
  BY TypeInit, ReqInit, ReplyInit
<1>3. QED
  BY <1>1, <1>2, PTL DEF Spec

\* Requests are written one at a time (client1.c:72-90), whatever value an
\* earlier run left in sem1 and whichever clients are killed.
THEOREM OneRequestAtATime == Spec => []ReqExclusive
<1>1. ReqInv => ReqExclusive
  BY DEF ReqInv
<1>2. QED
  BY SectionsAlways, <1>1, PTL

\* A thread writes its result to, and closes, the descriptor it has opened
\* itself, although all threads keep it in one global (server.c:54,237-247).
THEOREM OwnDescriptor == Spec => []FdwOwned
<1>1. ReplyInv => FdwOwned
  BY DEF ReplyInv, FdwOwned
<1>2. QED
  BY SectionsAlways, <1>1, PTL

-----------------------------------------------------------------------------
(* Somebody is there when a semaphore is at 0.  Main starts a thread in a   *)
(* slot that has none, so that it takes none out of the section of sem2.    *)
HeldInv ==
    /\ spc # "startup" /\ sem1 = 0 =>
          \E c \in Clients : cpc[c] \in RequestStates \cup {"dead"}
    /\ spc \notin {"startup", "done", "dead"} /\ sem2 = 0 =>
          \E i \in Slots : tpc[i] \in ReplyStates
    /\ Taking => \A i \in Slots : i >= slot => tpc[i] = "none"

\* A step that takes neither semaphore down, and takes nobody out of a section
\* but to its death.
LEMMA HeldKept ==
    ASSUME TypeInv, HeldInv, UNCHANGED <<sem1, sem2>>, spc # "startup", spc' # "startup",
           spc \in {"done", "dead"} => spc' \in {"done", "dead"},
           \A c \in Clients : cpc[c] \in RequestStates \cup {"dead"}
                                => cpc'[c] \in RequestStates \cup {"dead"},
           spc' \in {"done", "dead"} \/
              \A i \in Slots : tpc[i] \in ReplyStates => tpc'[i] \in ReplyStates,
           Taking' => \A i \in Slots : i >= slot' => tpc'[i] = "none"
    PROVE  HeldInv'
<1>1. (spc # "startup" /\ sem1 = 0 =>
          \E c \in Clients : cpc[c] \in RequestStates \cup {"dead"})'
  BY DEF HeldInv
<1>2. (spc \notin {"startup", "done", "dead"} /\ sem2 = 0 =>
          \E i \in Slots : tpc[i] \in ReplyStates)'
  BY DEF HeldInv
<1>3. QED
  BY <1>1, <1>2 DEF HeldInv

\* A client that takes sem1 down is in the section, and only its sem_post or
\* its death takes it out.
LEMMA ClientHeld ==
    ASSUME TypeInv, ReqInv, HeldInv, NEW c \in Clients, Client(c) \/ CKill(c),
           spc # "startup"
    PROVE  HeldInv'
<1>1. cpc \in [Clients -> ClientStates] /\ sem1 \in 0..1
  BY DEF TypeInv, TypeOK, ReqInv
<1>2. /\ sem2' = sem2 /\ slot' = slot
      /\ spc' = spc \/ (spc = "openWait" /\ spc' = "read")
  BY DEF Client, CWait, COpenReq, CWrite, CWriteBroken, CPost, COpenRes, CAwait1, CRead,
         CCloseRes, CAwait2, CKill, mainVars
<1>3. \A i \in Slots : tpc'[i] = tpc[i] \/ (tpc[i] = "openWait" /\ tpc'[i] = "assign")
  <2>1. CASE COpenRes(c)
    BY <2>1 DEF COpenRes
  <2>2. CASE UNCHANGED tpc
    BY <2>2
  <2>3. QED
    BY <2>1, <2>2 DEF Client, CWait, COpenReq, CWrite, CWriteBroken, CPost, CAwait1,
                      CRead, CCloseRes, CAwait2, CKill
<1>4. /\ Taking' => \A i \in Slots : i >= slot' => tpc'[i] = "none"
      /\ \A i \in Slots : tpc[i] \in ReplyStates => tpc'[i] \in ReplyStates
  BY <1>2, <1>3 DEF HeldInv, Taking, ReplyStates
<1>5. CASE CWait(c)
  <2>1. cpc' = [cpc EXCEPT ![c] = "openReq"]
    BY <1>5 DEF CWait, Goto
  <2>2. cpc'[c] \in RequestStates
    BY <1>1, <2>1 DEF RequestStates
  <2>3. QED
    BY <1>2, <1>4, <2>2 DEF HeldInv
<1>6. CASE CPost(c)
  BY <1>1, <1>2, <1>4, <1>6 DEF CPost, Posted, HeldInv
<1>7. CASE ~CWait(c) /\ ~CPost(c)
  <2>1. PICK s : /\ cpc' = [cpc EXCEPT ![c] = s] /\ sem1' = sem1
                 /\ cpc[c] \in RequestStates \cup {"dead"}
                       => s \in RequestStates \cup {"dead"}
    BY <1>7 DEF Client, COpenReq, CWrite, CWriteBroken, COpenRes, CAwait1, CRead,
                CCloseRes, CAwait2, CKill, Goto, RequestStates
  <2>2. \A b \in Clients : cpc[b] \in RequestStates \cup {"dead"}
                              => cpc'[b] \in RequestStates \cup {"dead"}
    BY <1>1, <2>1
  <2>3. QED
    BY <1>2, <1>4, <2>1, <2>2, HeldKept
<1>8. QED
  BY <1>5, <1>6, <1>7

\* Main adjusts the semaphores, and does not start a thread in a slot that has one.
LEMMA MainHeld ==
    ASSUME TypeInv, ReqInv, ReplyInv, HeldInv, Main
    PROVE  HeldInv'
<1>1. /\ cpc \in [Clients -> ClientStates] /\ tpc \in [Slots -> ThreadStates]
      /\ slot \in Nat
  BY ConstantsAssumption DEF TypeInv, TypeOK
<1>2. CASE Startup
  <2>1. sem1' = 1 /\ sem2' = 1
    BY <1>2 DEF Startup, ReqInv, ReplyInv, Adjusted, Posted
  <2>2. Taking /\ slot' = slot /\ tpc' = tpc
    BY <1>2 DEF Startup, Taking
  <2>3. QED
    BY <2>1, <2>2 DEF HeldInv
<1>3. CASE ~Startup
  <2>1. spc # "startup" /\ spc' # "startup" /\ UNCHANGED <<sem1, sem2>>
        /\ spc \notin {"done", "dead"}
    BY <1>3 DEF Main, OpenReq, ReadField, Switch, Join, JoinUnset, Finish, ProcessEnds
  <2>2. \A c \in Clients : cpc[c] \in RequestStates \cup {"dead"}
                              => cpc'[c] \in RequestStates \cup {"dead"}
    <3>1. CASE OpenReq
      BY <3>1 DEF OpenReq, RequestStates
    <3>2. CASE UNCHANGED cpc
      BY <3>2
    <3>3. CASE slot \in Slots /\ KillState(slot)
      BY <3>3, SignalType DEF RequestStates
    <3>4. slot <= count => slot \in Slots
      BY ConstantsAssumption DEF TypeInv, TypeOK, Slots
    <3>5. QED
      BY <1>3, <3>1, <3>2, <3>3, <3>4
         DEF Main, ReadField, Switch, Join, JoinUnset, Finish, clientVars
  <2>3. CASE OpenReq \/ ReadField
    <3>1. tpc' = tpc /\ slot' = slot /\ Taking
      BY <2>3 DEF OpenReq, ReadField, Taking
    <3>2. QED
      BY <2>1, <2>2, <3>1, HeldKept DEF HeldInv
  <2>4. CASE Switch
    <3>1. slot \in Slots /\ tpc[slot] = "none"
      <4>1. slot \in Slots /\ slot >= slot
        BY <1>1, <2>4 DEF Switch, Taking, TypeInv, SlotsFilled
      <4>2. QED
        BY <2>4, <4>1 DEF Switch, HeldInv, Taking
    <3>2. \A i \in Slots : i # slot => tpc'[i] = tpc[i]
      BY <1>1, <2>4 DEF Switch
    <3>3. \A i \in Slots : tpc[i] \in ReplyStates => tpc'[i] \in ReplyStates
      BY <3>1, <3>2 DEF ReplyStates
    <3>4. Taking' => slot' = slot + 1
      BY <2>4 DEF Switch, Taking
    <3>5. Taking' => \A i \in Slots : i >= slot' => tpc'[i] = "none"
      BY <1>1, <2>4, <3>2, <3>4 DEF Switch, HeldInv, Taking, Slots
    <3>6. QED
      BY <2>1, <2>2, <3>3, <3>5, HeldKept
  <2>5. CASE spc' \in {"done", "dead"}
    BY <2>1, <2>2, <2>5, HeldKept DEF Taking
  <2>6. CASE spc = "join" /\ spc' = "join" /\ tpc' = tpc
    BY <2>1, <2>2, <2>6, HeldKept DEF Taking
  <2>7. QED
    BY <1>3, <2>3, <2>4, <2>5, <2>6 DEF Main, Join, JoinUnset, Finish, ProcessEnds
<1>4. QED
  BY <1>2, <1>3

\* A thread that takes sem2 down is in its section until it posts.
LEMMA ThreadHeld ==
    ASSUME TypeInv, ReqInv, ReplyInv, HeldInv, NEW i \in Slots, Thread(i)
    PROVE  HeldInv'
<1>1. tpc \in [Slots -> ThreadStates] /\ spc # "startup" /\ sem2 \in 0..1
  BY DEF TypeInv, TypeOK, ReplyInv, Thread, TWait, TOpen, TAssign, TWrite, TWriteBroken,
         TClose, TNotify, TPost
<1>2. tpc[i] # "none" /\ sem1' = sem1 /\ slot' = slot
  BY DEF Thread, TWait, TOpen, TAssign, TWrite, TWriteBroken, TClose, TNotify, TPost, mainVars
<1>3. \A c \in Clients : cpc[c] \in RequestStates \cup {"dead"}
                            => cpc'[c] \in RequestStates \cup {"dead"}
  <2>1. CASE TOpen(i)
    BY <2>1 DEF TOpen, RequestStates
  <2>2. CASE TNotify(i)
    BY <2>2, SignalType DEF TNotify, RequestStates
  <2>3. CASE UNCHANGED cpc
    BY <2>3
  <2>4. QED
    BY <2>1, <2>2, <2>3
       DEF Thread, TWait, TAssign, TWrite, TWriteBroken, TClose, TPost, clientVars
<1>4. CASE TWriteBroken(i)
  <2>1. sem2' = sem2 /\ spc' = "dead"
    BY <1>4 DEF TWriteBroken, ProcessEnds
  <2>2. QED
    BY <1>1, <1>2, <1>3, <2>1, HeldKept DEF Taking
<1>5. CASE ~TWriteBroken(i)
  <2>1. PICK s \in ReplyStates \cup {"exited"} :
           spc' = spc /\ tpc' = [tpc EXCEPT ![i] = s]
    BY <1>5 DEF Thread, TWait, TOpen, TAssign, TWrite, TClose, TNotify, TPost, ThreadGoto,
                ReplyStates, mainVars
  <2>2. Taking' => \A j \in Slots : j >= slot' => tpc'[j] = "none"
    BY <1>1, <1>2, <2>1 DEF HeldInv, Taking
  <2>3. CASE TPost(i)
    <3>1. sem2' = sem2 + 1
      BY <2>3 DEF TPost, Posted
    <3>2. QED
      BY <1>1, <1>2, <1>3, <2>1, <2>2, <3>1 DEF HeldInv
  <2>4. CASE ~TPost(i)
    <3>1. tpc'[i] \in ReplyStates
      BY <1>1, <1>5, <2>4 DEF Thread, TWait, TOpen, TAssign, TWrite, TClose, TNotify,
                              ThreadGoto, ReplyStates
    <3>2. QED
      BY <1>1, <1>2, <1>3, <2>1, <2>2, <3>1 DEF HeldInv
  <2>5. QED
    BY <2>3, <2>4
<1>6. QED
  BY <1>4, <1>5

\* So does every step keep what is known of both.
LEMMA HeldStep ==
    ASSUME TypeInv, ReqInv, ReplyInv, HeldInv, [Next]_vars
    PROVE  HeldInv'
<1>1. ASSUME NEW c \in Clients, Client(c) \/ CKill(c) PROVE HeldInv'
  <2>1. spc # "startup"
    BY <1>1 DEF ReqInv, Client, CWait, COpenReq, CWrite, CWriteBroken, CPost,
                COpenRes, CAwait1, CRead, CCloseRes, CAwait2, CKill
  <2>2. QED
    BY <1>1, <2>1, ClientHeld
<1>2. CASE UNCHANGED vars
  BY <1>2 DEF vars, fifoVars, clientVars, mainVars, HeldInv, Taking
<1>3. QED
  BY <1>1, <1>2, MainHeld, ThreadHeld DEF Next

\* Neither semaphore is left at 0 with nobody in its section, but for a client
\* that was killed there or wrote where nobody reads (client1.c:72-90,
\* server.c:236-252): no path forgets a sem_post.
THEOREM NoPostForgotten == Spec => []SemaphoresHeld
<1>1. Init => HeldInv
  BY DEF Init, HeldInv, Taking
<1>2. TypeInv /\ ReqInv /\ ReplyInv /\ HeldInv /\ [Next]_vars => HeldInv'
  BY HeldStep
<1>3. TypeInv /\ ReqInv /\ ReplyInv /\ [Next]_vars => (TypeInv /\ ReqInv /\ ReplyInv)'
  BY TypeStep, SectionsStep
<1>4. Init => TypeInv /\ ReqInv /\ ReplyInv
  BY TypeInit, ReqInit, ReplyInit
<1>5. ReplyInv /\ HeldInv => SemaphoresHeld
  BY DEF ReplyInv, HeldInv, SemaphoresHeld
<1>6. QED
  BY <1>1, <1>2, <1>3, <1>4, <1>5, PTL DEF Spec

-----------------------------------------------------------------------------
(* When a client is let go.  SIGUSR2 comes from the join of a thread with   *)
(* the client's request, of which main keeps the pid.                       *)
ServedAndJoined(c) ==
    /\ spc \in {"join", "done", "dead"}
    /\ \E i \in Slots : d1[i][1] = c /\ i < slot

ReleaseInv == \A c \in Clients : flag2[c] \/ cpc[c] = "done" => ServedAndJoined(c)

\* A step by which nobody is let go: main goes on, and what it has read stays.
LEMMA ReleaseKept ==
    ASSUME TypeInv, ReleaseInv,
           \A c \in Clients : flag2'[c] \/ cpc'[c] = "done" => flag2[c] \/ cpc[c] = "done",
           spc \in {"join", "done", "dead"} =>
              /\ spc' \in {"join", "done", "dead"}
              /\ d1' = d1 /\ slot' \in Nat /\ slot' >= slot
    PROVE  ReleaseInv'
<1>1. SUFFICES ASSUME NEW c \in Clients, flag2'[c] \/ cpc'[c] = "done"
               PROVE  ServedAndJoined(c)'
  BY DEF ReleaseInv
<1>2. PICK i \in Slots : d1[i][1] = c /\ i < slot /\ spc \in {"join", "done", "dead"}
  BY <1>1 DEF ReleaseInv, ServedAndJoined
<1>3. i < slot'
  BY <1>2 DEF TypeInv, TypeOK, Slots
<1>4. QED
  BY <1>2, <1>3 DEF ServedAndJoined

\* A client ends when its flag says so.
LEMMA ClientRelease ==
    ASSUME TypeInv, ReleaseInv, NEW c \in Clients, Client(c) \/ CKill(c)
    PROVE  ReleaseInv'
<1>1. /\ cpc \in [Clients -> ClientStates] /\ flag2 \in [Clients -> BOOLEAN]
      /\ slot \in Nat /\ slot >= slot
  BY ConstantsAssumption DEF TypeInv, TypeOK
<1>2. /\ d1' = d1 /\ slot' = slot
      /\ spc' = spc \/ (spc = "openWait" /\ spc' = "read")
  BY DEF Client, CWait, COpenReq, CWrite, CWriteBroken, CPost, COpenRes, CAwait1, CRead,
         CCloseRes, CAwait2, CKill, mainVars
<1>3. \A b \in Clients : flag2'[b] \/ cpc'[b] = "done" => flag2[b] \/ cpc[b] = "done"
  <2>1. CASE CAwait2(c)
    BY <1>1, <2>1 DEF CAwait2, Released, Goto
  <2>2. CASE ~CAwait2(c)
    <3>1. flag2' = flag2 /\ \E s : s # "done" /\ cpc' = [cpc EXCEPT ![c] = s]
      BY <2>2 DEF Client, CWait, COpenReq, CWrite, CWriteBroken, CPost, COpenRes, CAwait1,
                  CRead, CCloseRes, CKill, Goto
    <3>2. QED
      BY <1>1, <3>1
  <2>3. QED
    BY <2>1, <2>2
<1>4. QED
  BY <1>1, <1>2, <1>3, ReleaseKept

\* The flag is set for the client whose thread is joined.
LEMMA JoinRelease ==
    ASSUME TypeInv, ReleaseInv, spc = "join", spc' = "join", slot \in Slots,
           slot' = slot + 1, d1' = d1, flag2' = KillFlag(slot, flag2), KillState(slot)
    PROVE  ReleaseInv'
<1>1. SUFFICES ASSUME NEW c \in Clients, flag2'[c] \/ cpc'[c] = "done"
               PROVE  \E i \in Slots : d1[i][1] = c /\ i < slot + 1
  BY DEF ReleaseInv, ServedAndJoined
<1>2. CASE flag2[c] \/ cpc[c] = "done"
  BY <1>2 DEF ReleaseInv, ServedAndJoined, Slots
<1>3. CASE ~(flag2[c] \/ cpc[c] = "done")
  <2>1. cpc'[c] # "done"
    BY <1>3, SignalType
  <2>2. d1[slot][1] = c
    BY <1>1, <1>3, <2>1 DEF KillFlag, TypeInv, TypeOK
  <2>3. QED
    BY <2>2 DEF Slots
<1>4. QED
  BY <1>2, <1>3

\* Of main's steps only the join lets a client go.
LEMMA MainRelease ==
    ASSUME TypeInv, ReleaseInv, Main
    PROVE  ReleaseInv'
<1>1. slot \in Nat /\ slot >= slot /\ (spc = "join" /\ slot <= count => slot \in Slots)
  BY ConstantsAssumption DEF TypeInv, TypeOK, Slots
<1>2. CASE Startup \/ OpenReq \/ ReadField \/ Switch
  BY <1>2, ReleaseKept DEF Startup, OpenReq, ReadField, Switch, clientVars
<1>3. CASE flag2' = KillFlag(slot, flag2) /\ (Join \/ JoinUnset) /\ slot' = slot + 1
  <2>1. spc' = spc /\ KillState(slot) /\ spc = "join" /\ slot \in Slots /\ d1' = d1
    BY <1>1, <1>3 DEF Join, JoinUnset
  <2>2. QED
    BY <1>3, <2>1, JoinRelease
<1>4. CASE UNCHANGED <<flag2, cpc, d1, slot>> /\ spc' \in {"done", "dead"}
  BY <1>1, <1>4, ReleaseKept
<1>5. QED
  BY <1>2, <1>3, <1>4 DEF Main, Join, JoinUnset, Finish, ProcessEnds, clientVars

\* Threads send the other signal.
LEMMA ThreadRelease ==
    ASSUME TypeInv, ReleaseInv, NEW i \in Slots, Thread(i)
    PROVE  ReleaseInv'
<1>1. /\ flag2' = flag2 /\ d1' = d1 /\ slot' = slot /\ slot \in Nat /\ slot >= slot
      /\ spc' = spc \/ spc' = "dead"
  BY ConstantsAssumption
     DEF TypeInv, TypeOK, Thread, TWait, TOpen, TAssign, TWrite, TWriteBroken, TClose,
         TNotify, TPost, ProcessEnds, mainVars, clientVars
<1>2. \A c \in Clients : cpc'[c] = "done" => cpc[c] = "done"
  <2>1. CASE TOpen(i)
    BY <2>1 DEF TOpen
  <2>2. CASE TNotify(i)
    BY <2>2, SignalType DEF TNotify
  <2>3. CASE UNCHANGED cpc
    BY <2>3
  <2>4. QED
    BY <2>1, <2>2, <2>3
       DEF Thread, TWait, TAssign, TWrite, TWriteBroken, TClose, TPost, clientVars
<1>3. QED
  BY <1>1, <1>2, ReleaseKept

\* So does every step keep what is known of who is let go.
LEMMA ReleaseStep ==
    ASSUME TypeInv, ReleaseInv, [Next]_vars
    PROVE  ReleaseInv'
<1>1. CASE UNCHANGED vars
  BY <1>1 DEF vars, clientVars, mainVars, ReleaseInv, ServedAndJoined
<1>2. QED
  BY <1>1, ClientRelease, MainRelease, ThreadRelease DEF Next

\* No client closes its end of FIFO_C_S on the normal path before the server has
\* taken all requests and joined the thread of this client (server.c:14-18).
THEOREM LetGoWhenServed == Spec => []ReleasedAfterServed
<1>1. Init => ReleaseInv
  BY DEF Init, ReleaseInv
<1>2. TypeInv /\ ReleaseInv /\ [Next]_vars => ReleaseInv'
  BY ReleaseStep
<1>3. TypeInv /\ [Next]_vars => TypeInv'
  BY TypeStep
<1>4. ReleaseInv => ReleasedAfterServed
  BY DEF ReleaseInv, ReleasedAfterServed, ServedAndJoined
<1>5. QED
  BY TypeInit, <1>1, <1>2, <1>3, <1>4, PTL DEF Spec

-----------------------------------------------------------------------------
(* The results.  A field is read whole by a read that takes all its bytes   *)
(* from FIFO_C_S, and so into one slot only; the result of that slot is      *)
(* written by its thread once, and is then at one place.                     *)

\* Slot i has got op1 of client c, which is what its result is made of.
HasOp1(i, c) == Len(d1[i]) >= 2 /\ d1[i][2] = c

\* What is left of op1 of client c in FIFO_C_S is at most one field, and is not
\* in a slot yet; no slot has it twice.
Op1Once(c) ==
    /\ \A p, q \in 1..Len(cs) : cs[p] = <<c, 2>> /\ cs[q] = <<c, 2>> => q < p + 4
    /\ \A i \in Slots, p \in 1..Len(cs) : HasOp1(i, c) => cs[p] # <<c, 2>>
    /\ \A i, j \in Slots : HasOp1(i, c) /\ HasOp1(j, c) => i = j
    /\ wrote[c] < 2 => /\ \A p \in 1..Len(cs) : cs[p] # <<c, 2>>
                       /\ \A i \in Slots : ~HasOp1(i, c)

\* The thread of a slot with op1 of client c has written its result.
Written(c) ==
    \E i \in Slots :
        /\ HasOp1(i, c)
        /\ \/ spc \in {"done", "dead"}
           \/ tpc[i] \in {"close", "notify", "post", "exited"}

\* The result of client c is at one place, and at none before it is written.
ResultOnce(c) ==
    /\ \A k \in 1..Len(sc) : sc[k] = c => Written(c)
    /\ \A b \in Clients : got[b] = c => Written(c)
    /\ \A k, l \in 1..Len(sc) : sc[k] = c /\ sc[l] = c => k = l
    /\ \A a, b \in Clients : got[a] = c /\ got[b] = c => a = b
    /\ \A k \in 1..Len(sc), b \in Clients : ~(sc[k] = c /\ got[b] = c)

ResultInv ==
    /\ \A c \in Clients : Op1Once(c) /\ ResultOnce(c)
    /\ spc \in {"done", "dead"} => \A i \in Slots : tpc[i] = "none"


\* A closed descriptor empties the FIFO or leaves it as it is.
LEMMA KeptOrEmpty ==
    ASSUME NEW q
    PROVE  KeptCs(q) \in {q, <<>>} /\ KeptSc(q) \in {q, <<>>}
BY DEF KeptCs, KeptSc

\* Where no field is written or read op1 stays where it is.
LEMMA Op1Kept ==
    ASSUME NEW c \in Clients, Op1Once(c), cs' \in {cs, <<>>}, d1' = d1, wrote' = wrote
    PROVE  Op1Once(c)'
<1>1. CASE cs' = cs
  BY <1>1 DEF Op1Once, HasOp1
<1>2. CASE cs' = <<>>
  BY <1>2 DEF Op1Once, HasOp1
<1>3. QED
  BY <1>1, <1>2

\* What the write of a field adds to FIFO_C_S.
LEMMA WriteEffect ==
    ASSUME TypeInv, NEW c \in Clients, CWrite(c)
    PROVE  /\ wrote[c] \in 0..3 /\ wrote' = [wrote EXCEPT ![c] = wrote[c] + 1]
           /\ Len(cs) \in Nat /\ Len(cs') = Len(cs) + SizeOf(wrote[c] + 1)
           /\ \A p \in 1..Len(cs) : cs'[p] = cs[p]
           /\ \A p \in 1..Len(cs') : p > Len(cs) => cs'[p] = <<c, wrote[c] + 1>>
<1> DEFINE n == wrote[c] + 1
           add == [b \in 1..SizeOf(n) |-> <<c, n>>]
<1>1. /\ n \in 1..NFields /\ cs \in Seq(Bytes) /\ SizeOf(n) \in Nat
      /\ wrote[c] \in 0..3 /\ Len(cs) \in Nat
  <2>1. /\ cs \in Seq(Bytes) /\ wrote \in [Clients -> 0..NFields]
        /\ cpc[c] = "write" /\ wrote[c] < NFields
    BY DEF TypeInv, TypeOK, FieldsWritten, CWrite
  <2>2. n \in 1..NFields /\ wrote[c] \in 0..3
    BY <2>1 DEF NFields
  <2>3. SizeOf(n) \in Nat
    BY DEF SizeOf
  <2>4. QED
    BY <2>1, <2>2, <2>3, LenProperties
<1>2. cs' = cs \o add /\ wrote' = [wrote EXCEPT ![c] = n]
  BY DEF CWrite
<1>3. add \in Seq(Bytes) /\ Len(add) = SizeOf(n)
  BY <1>1, RepeatedType DEF Bytes
<1> HIDE DEF n, add
<1>4. Len(cs') = Len(cs) + SizeOf(n) /\ \A p \in 1..Len(cs) : cs'[p] = cs[p]
  <2>1. /\ Len(cs') = Len(cs) + Len(add)
        /\ \A p \in 1..(Len(cs) + Len(add)) :
              cs'[p] = IF p <= Len(cs) THEN cs[p] ELSE add[p - Len(cs)]
    BY <1>1, <1>2, <1>3, ConcatProperties
  <2>2. QED
    BY <1>1, <1>3, <2>1
<1>5. ASSUME NEW p \in 1..Len(cs'), p > Len(cs) PROVE cs'[p] = <<c, n>>
  <2>1. p - Len(cs) \in 1..SizeOf(n)
    BY <1>1, <1>4, <1>5
  <2>2. cs'[p] = add[p - Len(cs)]
    BY <1>1, <1>2, <1>3, <1>4, <1>5, ConcatProperties
  <2>3. QED
    BY <2>1, <2>2 DEF add
<1>6. QED
  BY <1>1, <1>2, <1>4, <1>5 DEF n

\* A client writes its op1 once.
LEMMA WriteOp1 ==
    ASSUME TypeInv, NEW c \in Clients, NEW e \in Clients, Op1Once(e), CWrite(c)
    PROVE  Op1Once(e)'
<1> DEFINE n == wrote[c] + 1
<1>1. wrote[c] \in 0..3 /\ wrote \in [Clients -> 0..NFields] /\ Len(cs) \in Nat
  BY WriteEffect DEF TypeInv, TypeOK
<1>2. wrote' = [wrote EXCEPT ![c] = n] /\ d1' = d1
  BY WriteEffect DEF CWrite, mainVars
<1>3. SizeOf(n) \in Nat
  BY DEF SizeOf
<1>4. /\ Len(cs') = Len(cs) + SizeOf(n)
      /\ \A p \in 1..Len(cs) : cs'[p] = cs[p]
      /\ \A p \in 1..Len(cs') : p > Len(cs) => cs'[p] = <<c, n>>
  BY WriteEffect
<1>5. CASE e = c /\ n = 2
  <2>1. /\ \A p \in 1..Len(cs) : cs[p] # <<e, 2>>
        /\ \A i \in Slots : ~HasOp1(i, e)
    BY <1>1, <1>5 DEF Op1Once
  <2>2. SizeOf(n) = 4
    BY <1>5 DEF SizeOf, NFields
  <2>3. \A p \in 1..Len(cs') : cs'[p] = <<e, 2>> => p > Len(cs) /\ p <= Len(cs) + 4
    BY <1>1, <1>4, <2>1, <2>2
  <2>4. \A p, q \in 1..Len(cs') : cs'[p] = <<e, 2>> /\ cs'[q] = <<e, 2>> => q < p + 4
    BY <1>1, <2>3
  <2>5. wrote'[e] = 2 /\ \A i \in Slots : ~HasOp1(i, e)'
    BY <1>1, <1>2, <1>5, <2>1 DEF HasOp1
  <2>6. QED
    BY <2>4, <2>5 DEF Op1Once
<1>6. CASE ~(e = c /\ n = 2)
  <2>1. \A p \in 1..Len(cs') : cs'[p] = <<e, 2>> => p \in 1..Len(cs) /\ cs[p] = <<e, 2>>
    BY <1>1, <1>4, <1>6
  <2>2. wrote'[e] < 2 => wrote[e] < 2
    BY <1>1, <1>2, <1>6
  <2>3. \A i \in Slots : HasOp1(i, e)' <=> HasOp1(i, e)
    BY <1>2 DEF HasOp1
  <2>4. QED
    BY <2>1, <2>2, <2>3 DEF Op1Once
<1>7. QED
  BY <1>5, <1>6

\* What a read of a field leaves in FIFO_C_S, and what it makes of the slot.
LEMMA ReadEffect ==
    ASSUME TypeInv, ReadField
    PROVE  /\ slot \in Slots /\ Len(d1[slot]) \in 0..3
           /\ Len(cs') = IF SizeOf(Len(d1[slot]) + 1) <= Len(cs)
                         THEN Len(cs) - SizeOf(Len(d1[slot]) + 1) ELSE 0
           /\ \A p \in 1..Len(cs') :
                 /\ p + SizeOf(Len(d1[slot]) + 1) \in 1..Len(cs)
                 /\ cs'[p] = cs[p + SizeOf(Len(d1[slot]) + 1)]
           /\ \E x \in Clients \cup {None} :
                 /\ d1' = [d1 EXCEPT ![slot] = Append(d1[slot], x)]
                 /\ x \in Clients => HoldsField(x, Len(d1[slot]) + 1)
                 /\ x = None => \A c \in Clients : ~HoldsField(c, Len(d1[slot]) + 1)
<1> DEFINE f == Len(d1[slot]) + 1
<1>1. /\ slot \in Slots /\ d1[slot] \in Seq(Clients \cup {None})
      /\ Len(d1[slot]) \in 0..3 /\ cs \in Seq(Bytes) /\ Len(cs) \in Nat
  <2>1. /\ slot \in Slots /\ d1 \in [Slots -> Seq(Clients \cup {None})]
        /\ Len(d1[slot]) < 4 /\ cs \in Seq(Bytes)
    BY DEF TypeInv, TypeOK, SlotsFilled, Taking, ReadField, NFields
  <2>2. d1[slot] \in Seq(Clients \cup {None})
    BY <2>1
  <2>3. Len(d1[slot]) \in Nat /\ Len(cs) \in Nat
    BY <2>1, <2>2, LenProperties
  <2>4. Len(d1[slot]) \in 0..3
    <3>1. \A n \in Nat : n < 4 => n \in 0..3
      OBVIOUS
    <3>2. QED
      BY <2>1, <2>3, <3>1
  <2>5. QED
    BY <2>1, <2>2, <2>3, <2>4
<1>2. SizeOf(f) \in {1, 4} /\ cs' = SubSeq(cs, SizeOf(f) + 1, Len(cs))
  BY DEF ReadField, SizeOf
<1>3. /\ Len(cs') = IF SizeOf(f) <= Len(cs) THEN Len(cs) - SizeOf(f) ELSE 0
      /\ \A p \in 1..Len(cs') : p + SizeOf(f) \in 1..Len(cs) /\ cs'[p] = cs[p + SizeOf(f)]
  <2> HIDE DEF f
  <2>1. CASE SizeOf(f) <= Len(cs)
    <3>1. /\ Len(cs') = Len(cs) - SizeOf(f)
          /\ \A p \in 1..(Len(cs) - SizeOf(f)) : cs'[p] = cs[SizeOf(f) + 1 + p - 1]
      BY <1>1, <1>2, <2>1, SubSeqProperties
    <3>2. ASSUME NEW p \in 1..Len(cs')
          PROVE  p + SizeOf(f) \in 1..Len(cs) /\ cs'[p] = cs[p + SizeOf(f)]
      <4>1. /\ p \in 1..(Len(cs) - SizeOf(f)) /\ p + SizeOf(f) \in 1..Len(cs)
            /\ SizeOf(f) + 1 + p - 1 = p + SizeOf(f)
        <5>1. /\ Len(cs) \in Nat /\ SizeOf(f) \in Nat /\ SizeOf(f) <= Len(cs)
              /\ Len(cs') = Len(cs) - SizeOf(f) /\ p \in 1..Len(cs')
          BY <1>1, <1>2, <2>1, <3>1, SMTT(20)
        <5>2. QED
          BY ONLY <5>1
      <4>2. QED
        BY <3>1, <4>1
    <3>3. QED
      BY <2>1, <3>1, <3>2
  <2>2. CASE SizeOf(f) > Len(cs)
    <3>1. cs' = <<>>
      BY <1>1, <1>2, <2>2, SubSeqProperties
    <3>2. QED
      BY <2>2, <3>1, <1>1, <1>2
  <2>3. QED
    BY <1>1, <1>2, <2>1, <2>2
<1>4. \E x \in Clients \cup {None} :
         /\ d1' = [d1 EXCEPT ![slot] = Append(d1[slot], x)]
         /\ x \in Clients => HoldsField(x, f)
         /\ x = None => \A c \in Clients : ~HoldsField(c, f)
  BY ConstantsAssumption DEF ReadField
<1>5. QED
  BY <1>1, <1>3, <1>4

\* Only what a read appends is new in a slot.
LEMMA AppendedSlot ==
    ASSUME TypeInv, slot \in Slots, NEW x \in Clients \cup {None},
           d1' = [d1 EXCEPT ![slot] = Append(d1[slot], x)]
    PROVE  /\ Len(d1'[slot]) = Len(d1[slot]) + 1 /\ d1'[slot][Len(d1[slot]) + 1] = x
           /\ \A j \in 1..Len(d1[slot]) : d1'[slot][j] = d1[slot][j]
           /\ \A i \in Slots : i # slot => d1'[i] = d1[i]
<1>1. d1 \in [Slots -> Seq(Clients \cup {None})] /\ d1[slot] \in Seq(Clients \cup {None})
  BY DEF TypeInv, TypeOK
<1>2. d1'[slot] = Append(d1[slot], x) /\ \A i \in Slots : i # slot => d1'[i] = d1[i]
  BY <1>1
<1>3. QED
  BY <1>1, <1>2, AppendProperties

\* What a read makes of the op1s in the slots.
LEMMA AppendedOp1 ==
    ASSUME TypeInv, slot \in Slots, Len(d1[slot]) \in 0..3, NEW c \in Clients,
           NEW x \in Clients \cup {None}, d1' = [d1 EXCEPT ![slot] = Append(d1[slot], x)]
    PROVE  /\ \A i \in Slots : HasOp1(i, c) => HasOp1(i, c)'
           /\ \A i \in Slots : HasOp1(i, c)' => HasOp1(i, c)
                                    \/ (i = slot /\ Len(d1[slot]) = 1 /\ x = c)
<1>1. /\ Len(d1'[slot]) = Len(d1[slot]) + 1 /\ d1'[slot][Len(d1[slot]) + 1] = x
      /\ \A j \in 1..Len(d1[slot]) : d1'[slot][j] = d1[slot][j]
      /\ \A i \in Slots : i # slot => d1'[i] = d1[i]
  BY AppendedSlot
<1>2. SUFFICES ASSUME NEW i \in Slots
               PROVE  /\ HasOp1(i, c) => Len(d1'[i]) >= 2 /\ d1'[i][2] = c
                      /\ Len(d1'[i]) >= 2 /\ d1'[i][2] = c =>
                            HasOp1(i, c) \/ (i = slot /\ Len(d1[slot]) = 1 /\ x = c)
  BY DEF HasOp1
<1>3. CASE i # slot
  BY <1>1, <1>3 DEF HasOp1
<1>4. CASE i = slot /\ Len(d1[slot]) \in {2, 3}
  <2>1. Len(d1'[slot]) >= 2 /\ Len(d1[slot]) >= 2 /\ d1'[slot][2] = d1[slot][2]
    <3>1. CASE Len(d1[slot]) = 2
      BY <1>1, <3>1
    <3>2. CASE Len(d1[slot]) = 3
      BY <1>1, <3>2
    <3>3. QED
      BY <1>4, <3>1, <3>2
  <2>2. QED
    BY <1>4, <2>1, Zenon DEF HasOp1
<1>5. CASE i = slot /\ Len(d1[slot]) = 1
  BY <1>1, <1>5 DEF HasOp1
<1>6. CASE i = slot /\ Len(d1[slot]) = 0
  BY <1>1, <1>6 DEF HasOp1
<1>7. QED
  BY <1>3, <1>4, <1>5, <1>6

\* Main reads op1 of a client once: the read takes all its bytes.
LEMMA ReadOp1 ==
    ASSUME TypeInv, NEW c \in Clients, Op1Once(c), ReadField
    PROVE  Op1Once(c)'
<1>1. slot \in Slots /\ Len(d1[slot]) \in 0..3 /\ Len(cs) \in Nat /\ wrote' = wrote
      /\ slot' = slot
  BY ReadEffect, LenProperties DEF TypeInv, TypeOK, ReadField, clientVars
<1>2. PICK x \in Clients \cup {None} :
         /\ d1' = [d1 EXCEPT ![slot] = Append(d1[slot], x)]
         /\ x \in Clients => HoldsField(x, Len(d1[slot]) + 1)
  BY ReadEffect
<1>3. /\ Len(cs') \in Nat
      /\ \A p \in 1..Len(cs') : /\ p + SizeOf(Len(d1[slot]) + 1) \in 1..Len(cs)
                                /\ cs'[p] = cs[p + SizeOf(Len(d1[slot]) + 1)]
  <2>1. SizeOf(Len(d1[slot]) + 1) \in {1, 4}
    BY DEF SizeOf
  <2>2. Len(cs') = IF SizeOf(Len(d1[slot]) + 1) <= Len(cs)
                   THEN Len(cs) - SizeOf(Len(d1[slot]) + 1) ELSE 0
    BY ReadEffect
  <2>3. QED
    BY <1>1, <2>1, <2>2, ReadEffect
<1>4. /\ \A i \in Slots : HasOp1(i, c) => HasOp1(i, c)'
      /\ \A i \in Slots : HasOp1(i, c)' => HasOp1(i, c)
                               \/ (i = slot /\ Len(d1[slot]) = 1 /\ x = c)
  BY <1>1, <1>2, AppendedOp1 DEF HasOp1
<1>5. \A p, q \in 1..Len(cs') : cs'[p] = <<c, 2>> /\ cs'[q] = <<c, 2>> => q < p + 4
  <2>1. SizeOf(Len(d1[slot]) + 1) \in {1, 4}
    BY DEF SizeOf
  <2>2. SUFFICES ASSUME NEW p \in 1..Len(cs'), NEW q \in 1..Len(cs'),
                        cs'[p] = <<c, 2>>, cs'[q] = <<c, 2>>
                 PROVE  q < p + 4
    OBVIOUS
  <2>3. q + SizeOf(Len(d1[slot]) + 1) < p + SizeOf(Len(d1[slot]) + 1) + 4
    BY <1>3, <2>2 DEF Op1Once
  <2>4. QED
    BY <1>3, <2>1, <2>3
<1>6. CASE Len(d1[slot]) = 1 /\ x = c
  <2>1. /\ SizeOf(Len(d1[slot]) + 1) = 4 /\ Len(cs) >= 4
        /\ \A b \in 1..4 : cs[b] = <<c, 2>>
    BY <1>2, <1>6 DEF HoldsField, SizeOf, NFields
  <2>2. \A p \in 1..Len(cs) : cs[p] = <<c, 2>> => p < 1 + 4
    BY <1>1, <2>1 DEF Op1Once
  <2>3. ASSUME NEW p \in 1..Len(cs') PROVE cs'[p] # <<c, 2>>
    <3>1. p + 4 \in 1..Len(cs) /\ cs'[p] = cs[p + 4]
      BY <1>3, <2>1
    <3>2. ~(p + 4 < 1 + 4)
      BY <1>3
    <3>3. QED
      BY <2>2, <3>1, <3>2
  <2>4. (\A i \in Slots : ~HasOp1(i, c)) /\ ~(wrote[c] < 2)
    BY <1>1, <2>1 DEF Op1Once
  <2>5. QED
    BY <1>1, <1>4, <1>5, <2>3, <2>4 DEF Op1Once
<1>7. CASE ~(Len(d1[slot]) = 1 /\ x = c)
  BY <1>1, <1>3, <1>4, <1>5, <1>7 DEF Op1Once
<1>8. QED
  BY <1>6, <1>7

\* Every step leaves op1 of a client in one place at most.
LEMMA Op1Step ==
    ASSUME TypeInv, NEW c \in Clients, Op1Once(c), [Next]_vars
    PROVE  Op1Once(c)'
<1>1. ASSUME NEW e \in Clients, Client(e) \/ CKill(e), ~CWrite(e) PROVE Op1Once(c)'
  <2>1. cs' \in {cs, <<>>} /\ d1' = d1 /\ wrote' = wrote
    BY <1>1, KeptOrEmpty
       DEF Client, CWait, COpenReq, CWriteBroken, CPost, COpenRes, CAwait1, CRead,
           CCloseRes, CAwait2, CKill, mainVars, fifoVars
  <2>2. QED
    BY <2>1, Op1Kept
<1>2. CASE Main /\ ~ReadField
  <2>1. cs' \in {cs, <<>>} /\ d1' = d1 /\ wrote' = wrote
    BY <1>2, KeptOrEmpty
       DEF Main, Startup, OpenReq, Switch, Join, JoinUnset, Finish, ProcessEnds,
           clientVars, fifoVars
  <2>2. QED
    BY <2>1, Op1Kept
<1>3. ASSUME NEW i \in Slots, Thread(i) PROVE Op1Once(c)'
  <2>1. cs' \in {cs, <<>>} /\ d1' = d1 /\ wrote' = wrote
    BY <1>3, KeptOrEmpty
       DEF Thread, TWait, TOpen, TAssign, TWrite, TWriteBroken, TClose, TNotify, TPost,
           ProcessEnds, mainVars, clientVars, fifoVars
  <2>2. QED
    BY <2>1, Op1Kept
<1>4. CASE UNCHANGED vars
  BY <1>4, Op1Kept DEF vars, clientVars, mainVars, fifoVars
<1>5. QED
  BY <1>1, <1>2, <1>3, <1>4, WriteOp1, ReadOp1 DEF Next

\* What a step makes of a client's written result, where slots stay as they are.
LEMMA WrittenKept ==
    ASSUME NEW c \in Clients, Written(c), d1' = d1,
           spc \in {"done", "dead"} => spc' \in {"done", "dead"},
           spc' \in {"done", "dead"} \/
              \A i \in Slots : tpc[i] \in {"close", "notify", "post", "exited"}
                                  => tpc'[i] \in {"close", "notify", "post", "exited"}
    PROVE  Written(c)'
<1>1. PICK i \in Slots : /\ HasOp1(i, c)
                         /\ \/ spc \in {"done", "dead"}
                            \/ tpc[i] \in {"close", "notify", "post", "exited"}
  BY DEF Written
<1>2. /\ Len(d1'[i]) >= 2 /\ d1'[i][2] = c
      /\ \/ spc' \in {"done", "dead"}
         \/ tpc'[i] \in {"close", "notify", "post", "exited"}
  BY <1>1 DEF HasOp1
<1>3. QED
  BY <1>2 DEF Written, HasOp1

\* A result that has been written stays so, whatever happens.
LEMMA WrittenStep ==
    ASSUME TypeInv, HeldInv, NEW c \in Clients, Written(c), [Next]_vars
    PROVE  Written(c)'
<1>1. tpc \in [Slots -> ThreadStates]
  BY DEF TypeInv, TypeOK
<1>2. ASSUME NEW e \in Clients, Client(e) \/ CKill(e) PROVE Written(c)'
  <2>1. d1' = d1 /\ spc' \in {spc, IF spc = "openWait" THEN "read" ELSE spc}
    BY <1>2 DEF Client, CWait, COpenReq, CWrite, CWriteBroken, CPost, COpenRes, CAwait1,
                CRead, CCloseRes, CAwait2, CKill, mainVars
  <2>2. \A i \in Slots : tpc'[i] = tpc[i] \/ (tpc[i] = "openWait" /\ tpc'[i] = "assign")
    <3>1. CASE COpenRes(e)
      BY <3>1 DEF COpenRes
    <3>2. CASE tpc' = tpc
      BY <3>2
    <3>3. QED
      BY <1>2, <3>1, <3>2 DEF Client, CWait, COpenReq, CWrite, CWriteBroken, CPost,
                              CAwait1, CRead, CCloseRes, CAwait2, CKill
  <2>3. QED
    BY <2>1, <2>2, WrittenKept
<1>3. CASE ReadField
  <2>1. PICK x \in Clients \cup {None} : d1' = [d1 EXCEPT ![slot] = Append(d1[slot], x)]
    BY <1>3, ReadEffect
  <2>2. slot \in Slots /\ Len(d1[slot]) \in 0..3
    BY <1>3, ReadEffect
  <2>3. \A i \in Slots : HasOp1(i, c) => Len(d1'[i]) >= 2 /\ d1'[i][2] = c
    BY <2>1, <2>2, AppendedOp1 DEF HasOp1
  <2>4. tpc' = tpc /\ spc \notin {"done", "dead"}
    BY <1>3 DEF ReadField
  <2>5. QED
    BY <2>3, <2>4 DEF Written, HasOp1
<1>4. CASE Switch
  <2>1. spc = "switch" /\ slot \in Slots /\ slot >= slot
    BY <1>4 DEF Switch, TypeInv, SlotsFilled, Taking, Slots
  <2>2. tpc[slot] = "none"
    BY <2>1 DEF HeldInv, Taking
  <2>3. \A i \in Slots : tpc[i] # "none" => tpc'[i] = tpc[i]
    BY <1>1, <1>4, <2>2 DEF Switch
  <2>4. QED
    BY <1>4, <2>1, <2>3, WrittenKept DEF Switch
<1>5. CASE Main /\ ~ReadField /\ ~Switch
  <2>1. d1' = d1 /\ (tpc' = tpc \/ spc' \in {"done", "dead"}) /\ spc \notin {"done", "dead"}
    BY <1>5 DEF Main, Startup, OpenReq, Join, JoinUnset, Finish, ProcessEnds
  <2>2. QED
    BY <2>1, WrittenKept
<1>6. ASSUME NEW i \in Slots, Thread(i) PROVE Written(c)'
  <2>1. d1' = d1 /\ (spc' = spc \/ spc' = "dead")
    BY <1>6 DEF Thread, TWait, TOpen, TAssign, TWrite, TWriteBroken, TClose, TNotify, TPost,
                ProcessEnds, mainVars
  <2>2. CASE spc' = "dead"
    BY <2>1, <2>2, WrittenKept
  <2>3. CASE spc' # "dead"
    <3>1. PICK s : /\ tpc' = [tpc EXCEPT ![i] = s]
                   /\ tpc[i] \in {"close", "notify", "post", "exited"}
                         => s \in {"close", "notify", "post", "exited"}
      BY <1>6, <2>3 DEF Thread, TWait, TOpen, TAssign, TWrite, TWriteBroken, TClose, TNotify,
                        TPost, ThreadGoto, ProcessEnds
    <3>2. \A j \in Slots : tpc[j] \in {"close", "notify", "post", "exited"}
                              => tpc'[j] \in {"close", "notify", "post", "exited"}
      BY <1>1, <3>1
    <3>3. QED
      BY <2>1, <3>2, WrittenKept
  <2>4. QED
    BY <2>2, <2>3
<1>7. CASE UNCHANGED vars
  BY <1>7, WrittenKept DEF vars, mainVars
<1>8. QED
  BY <1>2, <1>3, <1>4, <1>5, <1>6, <1>7 DEF Next

\* A step that writes and reads no result.
LEMMA ResultKept ==
    ASSUME NEW c \in Clients, ResultOnce(c), Written(c) => Written(c)',
           got' = got, sc' \in {sc, <<>>}
    PROVE  ResultOnce(c)'
<1>1. CASE sc' = sc
  BY <1>1 DEF ResultOnce
<1>2. CASE sc' = <<>>
  BY <1>2 DEF ResultOnce
<1>3. QED
  BY <1>1, <1>2

\* A client that reads a result takes it out of the FIFO.
LEMMA ReadResult ==
    ASSUME TypeInv, NEW c \in Clients, NEW e \in Clients, ResultOnce(c),
           Written(c) => Written(c)', CRead(e)
    PROVE  ResultOnce(c)'
<1>1. CASE sc' = sc /\ got' = got
  BY <1>1, ResultKept
<1>2. CASE sc # <<>> /\ got' = [got EXCEPT ![e] = Head(sc)] /\ sc' = Tail(sc)
  <2>1. sc \in Seq(Clients \cup {None}) /\ got \in [Clients -> Clients \cup {None}]
    BY DEF TypeInv, TypeOK
  <2>2. /\ Len(sc) \in Nat \ {0} /\ Len(sc') = Len(sc) - 1 /\ Head(sc) = sc[1]
        /\ \A k \in 1..Len(sc') : sc'[k] = sc[k + 1]
    BY <1>2, <2>1, HeadTailProperties, EmptySeq
  <2>3. got'[e] = sc[1] /\ \A b \in Clients : b # e => got'[b] = got[b]
    BY <1>2, <2>1, <2>2
  <2>4. \A k \in 1..Len(sc') : sc'[k] = c => k + 1 \in 1..Len(sc) /\ sc[k + 1] = c
    BY <2>2
  <2>5. 1 \in 1..Len(sc)
    BY <2>2
  <2>6. \A b \in Clients : got'[b] = c =>
           got[b] = c \/ (b = e /\ sc[1] = c)
    BY <2>3
  <2>7. /\ \A k \in 1..Len(sc') : sc'[k] = c => Written(c)'
        /\ \A b \in Clients : got'[b] = c => Written(c)'
    BY <2>4, <2>5, <2>6 DEF ResultOnce
  <2>8. \A k, l \in 1..Len(sc') : sc'[k] = c /\ sc'[l] = c => k = l
    <3>1. SUFFICES ASSUME NEW k \in 1..Len(sc'), NEW l \in 1..Len(sc'), sc'[k] = c, sc'[l] = c
                   PROVE  k = l
      OBVIOUS
    <3>2. k + 1 = l + 1
      BY <2>4, <3>1 DEF ResultOnce
    <3>3. QED
      BY <2>2, <3>2
  <2>9. \A a, b \in Clients : got'[a] = c /\ got'[b] = c => a = b
    BY <2>5, <2>6 DEF ResultOnce
  <2>10. ASSUME NEW k \in 1..Len(sc'), NEW b \in Clients, sc'[k] = c, got'[b] = c
         PROVE  FALSE
    <3>1. k + 1 \in 1..Len(sc) /\ sc[k + 1] = c /\ k + 1 # 1
      BY <2>2, <2>4, <2>10
    <3>2. CASE got[b] = c
      BY <3>1, <3>2 DEF ResultOnce
    <3>3. CASE sc[1] = c
      BY <2>5, <3>1, <3>3 DEF ResultOnce
    <3>4. QED
      BY <2>6, <2>10, <3>2, <3>3
  <2>11. QED
    BY <2>7, <2>8, <2>9, <2>10 DEF ResultOnce
<1>3. QED
  BY <1>1, <1>2 DEF CRead

\* A thread writes the result of a client whose result was nowhere.
LEMMA WriteResult ==
    ASSUME TypeInv, ResultInv, NEW c \in Clients, NEW i \in Slots,
           Written(c) => Written(c)', TWrite(i)
    PROVE  ResultOnce(c)'
<1>1. /\ tpc[i] = "write" /\ tpc' = [tpc EXCEPT ![i] = "close"] /\ got' = got
      /\ d1' = d1 /\ spc' = spc /\ tpc \in [Slots -> ThreadStates]
      /\ sc' = sc \/ sc' = Append(sc, Result(i))
  BY DEF TWrite, ThreadGoto, mainVars, clientVars, TypeInv, TypeOK
<1>2. ResultOnce(c) /\ Op1Once(c)
  BY DEF ResultInv
<1>3. CASE sc' = sc
  BY <1>1, <1>2, <1>3, ResultKept
<1>4. CASE sc' = Append(sc, Result(i))
  <2>1. /\ sc \in Seq(Clients \cup {None}) /\ Len(d1[i]) = NFields
        /\ d1[i] \in Seq(Clients \cup {None})
    BY <1>1 DEF TypeInv, TypeOK, SlotsFilled
  <2>2. d1[i][2] \in Clients \cup {None}
    BY ONLY <2>1, ElementOfSeq DEF NFields
  <2>3. Result(i) \in Clients \cup {None}
    BY <2>2 DEF Result
  <2>4. /\ Len(sc) \in Nat /\ Len(sc') = Len(sc) + 1 /\ sc'[Len(sc) + 1] = Result(i)
        /\ \A k \in 1..Len(sc) : sc'[k] = sc[k]
    BY <1>4, <2>1, <2>3, AppendProperties, LenProperties
  <2>5. CASE Result(i) # c
    <3>1. \A k \in 1..Len(sc') : sc'[k] = c => k \in 1..Len(sc) /\ sc[k] = c
      BY <2>4, <2>5
    <3>2. QED
      BY <1>1, <1>2, <3>1 DEF ResultOnce
  <2>6. CASE Result(i) = c
    <3>1. HasOp1(i, c)
      BY <2>1, <2>6, ConstantsAssumption DEF Result, HasOp1, NFields
    <3>2. ~Written(c)
      <4>1. spc \notin {"done", "dead"}
        BY <1>1 DEF ResultInv
      <4>2. \A j \in Slots : HasOp1(j, c) => tpc[j] = "write"
        BY <1>1, <1>2, <3>1 DEF Op1Once
      <4>3. QED
        BY <4>1, <4>2 DEF Written
    <3>3. /\ \A k \in 1..Len(sc) : sc[k] # c
          /\ \A b \in Clients : got[b] # c
      BY <1>2, <3>2 DEF ResultOnce
    <3>4. \A k \in 1..Len(sc') : sc'[k] = c => k = Len(sc) + 1
      BY <2>4, <3>3
    <3>5. Written(c)'
      BY <1>1, <3>1 DEF Written, HasOp1
    <3>6. QED
      BY <1>1, <3>3, <3>4, <3>5 DEF ResultOnce
  <2>7. QED
    BY <2>5, <2>6
<1>5. QED
  BY <1>1, <1>3, <1>4

\* The threads of a server that has ended have ended, and no step revives them.
LEMMA EndedStep ==
    ASSUME TypeInv, ResultInv, [Next]_vars
    PROVE  (spc \in {"done", "dead"} => \A i \in Slots : tpc[i] = "none")'
<1>1. spc \in {"done", "dead"} => \A i \in Slots : tpc[i] = "none"
  BY DEF ResultInv
<1>2. ASSUME NEW c \in Clients, Client(c) \/ CKill(c)
      PROVE  (spc \in {"done", "dead"} => \A i \in Slots : tpc[i] = "none")'
  <2>1. spc' \in {"done", "dead"} => spc' = spc
    BY <1>2 DEF Client, CWait, COpenReq, CWrite, CWriteBroken, CPost, COpenRes, CAwait1,
                CRead, CCloseRes, CAwait2, CKill, mainVars
  <2>2. \A i \in Slots : tpc[i] = "none" => tpc'[i] = "none"
    <3>1. CASE COpenRes(c)
      BY <3>1 DEF COpenRes
    <3>2. CASE tpc' = tpc
      BY <3>2
    <3>3. QED
      BY <1>2, <3>1, <3>2 DEF Client, CWait, COpenReq, CWrite, CWriteBroken, CPost,
                              CAwait1, CRead, CCloseRes, CAwait2, CKill
  <2>3. QED
    BY <1>1, <2>1, <2>2
<1>3. CASE Main
  BY <1>3 DEF Main, Startup, OpenReq, ReadField, Switch, Join, JoinUnset, Finish, ProcessEnds
<1>4. ASSUME NEW i \in Slots, Thread(i)
      PROVE  (spc \in {"done", "dead"} => \A j \in Slots : tpc[j] = "none")'
  <2>1. tpc[i] # "none" /\ (TWriteBroken(i) \/ spc' = spc)
    BY <1>4 DEF Thread, TWait, TOpen, TAssign, TWrite, TWriteBroken, TClose, TNotify, TPost,
                mainVars
  <2>2. QED
    BY <1>1, <2>1 DEF TWriteBroken, ProcessEnds
<1>5. CASE UNCHANGED vars
  BY <1>1, <1>5 DEF vars, mainVars
<1>6. QED
  BY <1>2, <1>3, <1>4, <1>5 DEF Next

\* So every step leaves a result at one place at most.
LEMMA ResultStep ==
    ASSUME TypeInv, HeldInv, ResultInv, [Next]_vars
    PROVE  ResultInv'
<1>1. SUFFICES ASSUME NEW c \in Clients PROVE Op1Once(c)' /\ ResultOnce(c)'
  BY EndedStep DEF ResultInv
<1>2. Op1Once(c) /\ ResultOnce(c)
  BY DEF ResultInv
<1>3. Op1Once(c)'
  BY <1>2, Op1Step
<1>4. Written(c) => Written(c)'
  BY WrittenStep
<1>5. ASSUME NEW e \in Clients, Client(e) \/ CKill(e), ~CRead(e)
      PROVE  got' = got /\ sc' \in {sc, <<>>}
  BY <1>5, KeptOrEmpty
     DEF Client, CWait, COpenReq, CWrite, CWriteBroken, CPost, COpenRes, CAwait1,
         CCloseRes, CAwait2, CKill, mainVars, fifoVars
<1>6. CASE Main
  <2>1. got' = got /\ sc' \in {sc, <<>>}
    BY <1>6, KeptOrEmpty
       DEF Main, Startup, OpenReq, ReadField, Switch, Join, JoinUnset, Finish, ProcessEnds,
           clientVars, fifoVars
  <2>2. QED
    BY <1>2, <1>3, <1>4, <2>1, ResultKept
<1>7. ASSUME NEW i \in Slots, Thread(i), ~TWrite(i)
      PROVE  got' = got /\ sc' \in {sc, <<>>}
  BY <1>7, KeptOrEmpty
     DEF Thread, TWait, TOpen, TAssign, TWriteBroken, TClose, TNotify, TPost,
         ProcessEnds, mainVars, clientVars, fifoVars
<1>8. CASE UNCHANGED vars
  BY <1>2, <1>3, <1>4, <1>8, ResultKept DEF vars, clientVars, fifoVars
<1>9. QED
  BY <1>2, <1>3, <1>4, <1>5, <1>6, <1>7, <1>8, ReadResult, WriteResult, ResultKept DEF Next

\* A result is written once and read by one client at most (server.c:244,
\* client1.c:105), whatever is mixed up and whoever is killed.
THEOREM ResultOnlyOnce == Spec => []ResultsOnce
<1>1. Init => HeldInv /\ ResultInv
  BY ConstantsAssumption
     DEF Init, HeldInv, Taking, ResultInv, Op1Once, HasOp1, ResultOnce
<1>2. TypeInv /\ ReqInv /\ ReplyInv /\ HeldInv /\ ResultInv /\ [Next]_vars
        => (TypeInv /\ ReqInv /\ ReplyInv /\ HeldInv /\ ResultInv)'
  BY TypeStep, SectionsStep, HeldStep, ResultStep
<1>3. Init => TypeInv /\ ReqInv /\ ReplyInv
  BY TypeInit, ReqInit, ReplyInit
<1>4. TypeInv /\ ResultInv => ResultsOnce
  <2>1. SUFFICES ASSUME TypeInv, ResultInv, NEW c \in Clients
                 PROVE  Cardinality({k \in 1..Len(sc) : sc[k] = c})
                            + Cardinality({b \in Clients : got[b] = c}) <= 1
    BY DEF ResultsOnce
  <2> DEFINE A == {k \in 1..Len(sc) : sc[k] = c}
             B == {b \in Clients : got[b] = c}
  <2>2. /\ \A k, l \in A : k = l
        /\ \A a, b \in B : a = b
        /\ A = {} \/ B = {}
    BY <2>1 DEF ResultInv, ResultOnce
  <2>3. A = {} \/ \E k : A = {k}
    BY <2>2
  <2>4. B = {} \/ \E b : B = {b}
    BY <2>2
  <2> HIDE DEF A, B
  <2>5. Cardinality(A) + Cardinality(B) <= 1
    <3>1. Cardinality({}) = 0 /\ \A x : Cardinality({x}) = 1
      BY FS_EmptySet, FS_Singleton
    <3>2. /\ Cardinality(A) = 0 \/ Cardinality(A) = 1
          /\ Cardinality(B) = 0 \/ Cardinality(B) = 1
          /\ Cardinality(A) = 0 \/ Cardinality(B) = 0
      BY <2>2, <2>3, <2>4, <3>1, Zenon
    <3>3. QED
      BY ONLY <3>2
  <2>6. QED
    BY <2>5 DEF A, B
<1>5. QED
  BY <1>1, <1>2, <1>3, <1>4, PTL DEF Spec

-----------------------------------------------------------------------------
(* The bytes of FIFO_C_S while main takes requests and nobody is killed: they *)
(* continue the request main is reading, one request after the other, and     *)
(* only the last may be there in part.  Offset(p) is how far byte p is from   *)
(* the beginning of the request main is reading; requests are 13 bytes.       *)
SizeUpTo(n) == IF n = NFields THEN 13 ELSE 4 * n

Offset(p)  == SizeUpTo(Len(d1[slot])) + p - 1
StreamEnd  == SizeUpTo(Len(d1[slot])) + Len(cs)
FieldAt(x) == (x % 13) \div 4 + 1

\* What is there of request n, counted from the one main is reading, is of c.
OfOne(c, n) ==
    /\ \A p \in 1..Len(cs) : Offset(p) \div 13 = n => cs[p][1] = c
    /\ n = 0 /\ d1[slot] # <<>> => d1[slot][1] = c

\* Fields follow each other as in DATA, and those of one request are of one client.
InOrder ==
    /\ \A p \in 1..Len(cs) : cs[p][2] = FieldAt(Offset(p))
    /\ \A p, q \in 1..Len(cs) : Offset(p) \div 13 = Offset(q) \div 13 => cs[p][1] = cs[q][1]
    /\ \A p \in 1..Len(cs) : Offset(p) \div 13 = 0 /\ d1[slot] # <<>> => cs[p][1] = d1[slot][1]

\* What is there in part is of the client that is in the section of sem1.
Unfinished ==
    /\ StreamEnd % 13 \in {0, 4, 8, 12}
    /\ sem1 > 0 \/ spc = "startup" => StreamEnd % 13 = 0
    /\ \A c \in Clients : cpc[c] \in RequestStates =>
          /\ StreamEnd % 13 = SizeUpTo(wrote[c]) % 13
          /\ wrote[c] \in 1..3 => OfOne(c, StreamEnd \div 13)
          /\ cpc[c] = "post" => wrote[c] = NFields

Stream == InOrder /\ Unfinished

\* A thread that is past its open of FIFO_S_C has found a client there, and that
\* client stays until its thread is joined.
StayStates == {"await1", "read", "closeRes", "await2"}

Anchored ==
    (\E i \in Slots : tpc[i] \in {"assign", "write", "close", "notify", "post", "exited"})
        => \E c \in Clients : cpc[c] \in StayStates

\* Main reads from a FIFO that somebody can write to.
Supplied == spc = "read" => CsWriters # {}

SlotsWhole ==
    \A i \in Slots : \A j \in 1..Len(d1[i]) : d1[i][j] # None /\ d1[i][j] = d1[i][1]

RecordInv ==
    kills = 0 => SlotsWhole /\ (Taking => Stream /\ Anchored /\ Supplied)

\* Where a field lies in a request.
LEMMA FieldBounds ==
    ASSUME NEW x \in Nat, NEW n \in 0..3, x % 13 = SizeUpTo(n)
    PROVE  /\ \A y \in x..(x + SizeOf(n + 1) - 1) : FieldAt(y) = n + 1 /\ y \div 13 = x \div 13
           /\ (x + SizeOf(n + 1)) % 13 = SizeUpTo(n + 1) % 13
           /\ n + 1 \in 1..3 => (x + SizeOf(n + 1)) \div 13 = x \div 13
<1>1. SizeUpTo(n) = 4 * n /\ SizeOf(n + 1) = IF n = 3 THEN 1 ELSE 4
  BY DEF SizeUpTo, SizeOf, NFields
<1>2. SizeUpTo(n + 1) = IF n = 3 THEN 13 ELSE 4 * n + 4
  BY DEF SizeUpTo, NFields
<1>3. QED
  BY <1>1, <1>2 DEF FieldAt

\* The sizes, in numbers.
LEMMA FieldSizes ==
    ASSUME NEW n \in 0..3
    PROVE  /\ SizeUpTo(n) = 4 * n /\ SizeOf(n + 1) = IF n = 3 THEN 1 ELSE 4
           /\ SizeUpTo(n + 1) = SizeUpTo(n) + SizeOf(n + 1)
BY DEF SizeUpTo, SizeOf, NFields

\* The parts of the stream have the types of offsets.
LEMMA StreamTypes ==
    ASSUME TypeInv, Taking
    PROVE  /\ slot \in Slots /\ Len(d1[slot]) \in 0..4 /\ Len(cs) \in Nat
           /\ SizeUpTo(Len(d1[slot])) \in {0, 4, 8, 12, 13}
           /\ d1[slot] # <<>> <=> Len(d1[slot]) > 0
           /\ \A p \in 1..Len(cs) : cs[p] \in Clients \X (1..NFields)
<1>1. /\ slot \in Slots /\ d1[slot] \in Seq(Clients \cup {None}) /\ cs \in Seq(Bytes)
  BY DEF TypeInv, TypeOK, SlotsFilled
<1>2. Len(d1[slot]) \in Nat /\ Len(cs) \in Nat
  BY <1>1, LenProperties
<1>3. spc \in {"startup", "open", "openWait"} \/ spc = "read" \/ spc = "switch"
  BY DEF Taking
<1>4. Len(<<>>) = 0
  OBVIOUS
<1>5. Len(d1[slot]) = 0 \/ Len(d1[slot]) < 4 \/ Len(d1[slot]) = 4
  BY <1>3, <1>4 DEF TypeInv, SlotsFilled, NFields
<1>6. \A n \in Nat : n = 0 \/ n < 4 \/ n = 4 => n \in 0..4
  OBVIOUS
<1>7. Len(d1[slot]) \in 0..4
  BY <1>2, <1>5, <1>6
<1>8. SizeUpTo(Len(d1[slot])) \in {0, 4, 8, 12, 13}
  <2>1. \A n \in 0..4 : SizeUpTo(n) \in {0, 4, 8, 12, 13}
    BY DEF SizeUpTo, NFields
  <2>2. QED
    BY <1>7, <2>1
<1>9. d1[slot] # <<>> <=> Len(d1[slot]) > 0
  BY <1>1, <1>2, EmptySeq
<1>10. \A p \in 1..Len(cs) : cs[p] \in Clients \X (1..NFields)
  BY <1>1, ElementOfSeq DEF Bytes
<1>11. QED
  BY <1>1, <1>2, <1>7, <1>8, <1>9, <1>10

\* The bytes that are there stay as they are.
LEMMA BytesSame ==
    ASSUME UNCHANGED <<cs, d1, slot>>
    PROVE  (InOrder => InOrder') /\ StreamEnd' = StreamEnd
<1>1. InOrder => InOrder'
  BY DEF InOrder, Offset
<1>2. StreamEnd' = StreamEnd
  BY DEF StreamEnd
<1>3. QED
  BY <1>1, <1>2

\* A step by which nobody writes or reads and no bytes are lost.
LEMMA StreamSame ==
    ASSUME Stream, UNCHANGED <<cs, d1, slot, sem1, wrote>>, spc' = "startup" => spc = "startup",
           \A c \in Clients : cpc'[c] \in RequestStates => cpc[c] \in RequestStates,
           \A c \in Clients : cpc'[c] = "post" => cpc[c] = "post"
    PROVE  Stream'
<1>1. InOrder'
  BY BytesSame DEF Stream
<1>2. Unfinished'
  BY DEF Stream, Unfinished, StreamEnd, OfOne, Offset
<1>3. QED
  BY <1>1, <1>2 DEF Stream

\* A step by which the bytes are lost, because nobody has FIFO_C_S open.
LEMMA StreamLost ==
    ASSUME TypeInv', Taking', cs' = <<>>, CsWriters' = {}, ~CsHasReader'
    PROVE  Stream'
<1>1. d1'[slot'] = <<>>
  BY DEF TypeInv, SlotsFilled, Taking, CsHasReader
<1>2. InOrder'
  BY DEF InOrder
<1>3. StreamEnd' = 0
  BY <1>1 DEF StreamEnd, SizeUpTo, NFields
<1>4. \A c \in Clients : cpc'[c] \in RequestStates => cpc'[c] # "post" /\ wrote'[c] = 0
  BY DEF CsWriters, RequestStates, ReqFdStates, TypeInv, FieldsWritten
<1>5. SizeUpTo(0) % 13 = 0
  BY DEF SizeUpTo, NFields
<1>6. Unfinished'
  <2>1. StreamEnd' % 13 = 0
    BY <1>3
  <2>2. QED
    BY <1>4, <1>5, <2>1 DEF Unfinished
<1>7. QED
  BY <1>2, <1>6 DEF Stream

\* A step by which somebody closes FIFO_C_S or ends.
LEMMA StreamClosed ==
    ASSUME TypeInv', Taking', Stream, cs' = KeptCs(cs), UNCHANGED <<d1, slot, sem1, wrote>>,
           spc' = "startup" => spc = "startup",
           \A c \in Clients : cpc'[c] \in RequestStates => cpc[c] \in RequestStates,
           \A c \in Clients : cpc'[c] = "post" => cpc[c] = "post"
    PROVE  Stream'
<1>1. CASE cs' = cs
  BY <1>1, StreamSame
<1>2. CASE CsWriters' = {} /\ ~CsHasReader'
  BY <1>2, StreamLost DEF KeptCs
<1>3. QED
  BY <1>1, <1>2 DEF KeptCs

\* A client goes on with its own request, or begins one where the last ended.
LEMMA WriteStream ==
    ASSUME TypeInv, ReqInv, Taking, Stream, NEW c \in Clients, CWrite(c)
    PROVE  Stream'
<1> DEFINE o == SizeUpTo(Len(d1[slot]))
           T == o + Len(cs)
           n == wrote[c]
<1>1. /\ Len(cs) \in Nat /\ o \in {0, 4, 8, 12, 13}
      /\ \A p \in 1..Len(cs) : cs[p] \in Clients \X (1..NFields)
      /\ d1[slot] # <<>> <=> o > 0
  <2>1. \A m \in 0..4 : m > 0 <=> SizeUpTo(m) > 0
    BY DEF SizeUpTo, NFields
  <2>2. QED
    BY <2>1, StreamTypes
<1>2. /\ n \in 0..3 /\ wrote' = [wrote EXCEPT ![c] = n + 1]
      /\ Len(cs') = Len(cs) + SizeOf(n + 1)
      /\ \A p \in 1..Len(cs) : cs'[p] = cs[p]
      /\ \A p \in 1..Len(cs') : p > Len(cs) => cs'[p] = <<c, n + 1>>
  BY WriteEffect
<1>3. /\ UNCHANGED <<d1, slot, sem1, spc>> /\ cpc[c] = "write" /\ wrote \in [Clients -> 0..NFields]
      /\ cpc' = [cpc EXCEPT ![c] = IF n + 1 = NFields THEN "post" ELSE "write"]
      /\ cpc \in [Clients -> ClientStates]
  BY DEF CWrite, Goto, LastWritten, mainVars, TypeInv, TypeOK
<1>4. /\ sem1 = 0 /\ spc # "startup"
      /\ \A e \in Clients : cpc[e] \in RequestStates => e = c
  <2>1. cpc[c] \in RequestStates /\ cpc[c] # "start"
    BY <1>3 DEF RequestStates
  <2>2. QED
    BY <2>1 DEF ReqInv, ReqExclusive
<1>5. T % 13 = SizeUpTo(n) /\ (n \in 1..3 => OfOne(c, T \div 13))
  <2>1. T % 13 = SizeUpTo(n) % 13 /\ (n \in 1..3 => OfOne(c, T \div 13))
    BY <1>3 DEF Stream, Unfinished, StreamEnd, RequestStates
  <2>2. SizeUpTo(n) % 13 = SizeUpTo(n)
    BY <1>2 DEF SizeUpTo, NFields
  <2>3. QED
    BY <2>1, <2>2
<1>6. T \in Nat
  BY <1>1
<1>7. /\ \A y \in T..(T + SizeOf(n + 1) - 1) : FieldAt(y) = n + 1 /\ y \div 13 = T \div 13
      /\ (T + SizeOf(n + 1)) % 13 = SizeUpTo(n + 1) % 13
      /\ n + 1 \in 1..3 => (T + SizeOf(n + 1)) \div 13 = T \div 13
  BY <1>2, <1>5, <1>6, FieldBounds
<1>8. /\ \A p \in 1..Len(cs) : Offset(p) = o + p - 1 /\ Offset(p)' = o + p - 1
      /\ StreamEnd = T /\ StreamEnd' = T + SizeOf(n + 1)
      /\ \A p \in Nat : Offset(p)' = o + p - 1
  BY <1>1, <1>2, <1>3 DEF Offset, StreamEnd, SizeOf
<1>9. ASSUME NEW p \in 1..Len(cs'), p > Len(cs)
      PROVE  /\ cs'[p][1] = c /\ cs'[p][2] = n + 1
             /\ FieldAt(o + p - 1) = n + 1 /\ (o + p - 1) \div 13 = T \div 13
  <2>1. o + p - 1 \in T..(T + SizeOf(n + 1) - 1)
    BY <1>1, <1>2, <1>9 DEF SizeOf
  <2>2. QED
    BY <1>2, <1>7, <1>9, <2>1
<1>10. ASSUME NEW p \in 1..Len(cs), (o + p - 1) \div 13 = T \div 13
       PROVE  cs[p][1] = c
  <2>1. CASE n = 0
    <3>1. T % 13 = 0
      <4>1. SizeUpTo(0) = 0
        BY DEF SizeUpTo, NFields
      <4>2. QED
        BY <1>5, <2>1, <4>1
    <3>2. QED
      BY <1>1, <1>10, <3>1, SMTT(20)
  <2>2. CASE n \in 1..3
    BY <1>5, <1>8, <1>10, <2>2 DEF OfOne
  <2>3. QED
    BY <1>2, <2>1, <2>2
<1>11. T \div 13 = 0 /\ d1[slot] # <<>> => d1[slot][1] = c
  <2>1. CASE n = 0
    <3>1. T % 13 = 0
      <4>1. SizeUpTo(0) = 0
        BY DEF SizeUpTo, NFields
      <4>2. QED
        BY <1>5, <2>1, <4>1
    <3>2. QED
      BY <1>1, <3>1
  <2>2. CASE n \in 1..3
    BY <1>5, <2>2 DEF OfOne
  <2>3. QED
    BY <1>2, <2>1, <2>2
<1>12. \A p \in 1..Len(cs') : \/ p \in 1..Len(cs) /\ cs'[p] = cs[p]
                              \/ p > Len(cs)
  BY <1>1, <1>2
<1> HIDE DEF o, T, n
<1>13. \A p \in 1..Len(cs') : Offset(p)' = o + p - 1
  BY <1>8
<1>14. InOrder'
  <2>1. \A p \in 1..Len(cs') : cs'[p][2] = FieldAt(o + p - 1)
    BY <1>8, <1>9, <1>12 DEF Stream, InOrder
  <2>2. ASSUME NEW p \in 1..Len(cs'), NEW q \in 1..Len(cs'),
               (o + p - 1) \div 13 = (o + q - 1) \div 13
        PROVE  cs'[p][1] = cs'[q][1]
    <3>1. CASE p > Len(cs) \/ q > Len(cs)
      BY <1>9, <1>10, <1>12, <2>2, <3>1, SMTT(20)
    <3>2. CASE p \in 1..Len(cs) /\ q \in 1..Len(cs)
      <4>1. Offset(p) \div 13 = Offset(q) \div 13
        BY <1>8, <2>2, <3>2
      <4>2. cs[p][1] = cs[q][1]
        BY <3>2, <4>1 DEF Stream, InOrder
      <4>3. QED
        BY <1>2, <3>2, <4>2
    <3>3. QED
      BY <1>12, <3>1, <3>2
  <2>3. ASSUME NEW p \in 1..Len(cs'), (o + p - 1) \div 13 = 0, d1[slot] # <<>>
        PROVE  cs'[p][1] = d1[slot][1]
    <3>1. CASE p > Len(cs)
      BY <1>9, <1>11, <2>3, <3>1
    <3>2. CASE p \in 1..Len(cs)
      BY <1>2, <1>8, <2>3, <3>2 DEF Stream, InOrder
    <3>3. QED
      BY <1>12, <3>1, <3>2
  <2>4. QED
    BY <1>3, <1>13, <2>1, <2>2, <2>3 DEF InOrder
<1>15. Unfinished'
  <2>1. StreamEnd' % 13 = SizeUpTo(n + 1) % 13 /\ StreamEnd' % 13 \in {0, 4, 8, 12}
    <3>1. SizeUpTo(n + 1) % 13 \in {0, 4, 8, 12}
      BY <1>2 DEF SizeUpTo, NFields
    <3>2. QED
      BY <1>7, <1>8, <3>1
  <2>2. ASSUME n + 1 \in 1..3 PROVE OfOne(c, StreamEnd \div 13)'
    <3>1. StreamEnd' \div 13 = T \div 13
      BY <1>7, <1>8, <2>2
    <3>2. \A p \in 1..Len(cs') : (o + p - 1) \div 13 = T \div 13 => cs'[p][1] = c
      BY <1>9, <1>10, <1>12
    <3>3. QED
      BY <1>3, <1>11, <1>13, <3>1, <3>2 DEF OfOne
  <2>3. /\ \A e \in Clients : cpc'[e] \in RequestStates => e = c
        /\ wrote'[c] = n + 1 /\ (cpc'[c] = "post" => n + 1 = NFields)
    BY <1>2, <1>3, <1>4
  <2>4. QED
    BY <1>3, <1>4, <2>1, <2>2, <2>3 DEF Unfinished
<1>16. QED
  BY <1>14, <1>15 DEF Stream

\* The next field is all there, and of the client whose request main is reading.
LEMMA ReadWhole ==
    ASSUME TypeInv, Stream, Supplied, ReadField
    PROVE  /\ SizeOf(Len(d1[slot]) + 1) <= Len(cs) /\ Len(cs) > 0 /\ cs[1][1] \in Clients
           /\ d1[slot] # <<>> => d1[slot][1] = cs[1][1]
           /\ d1' = [d1 EXCEPT ![slot] = Append(d1[slot], cs[1][1])]
<1> DEFINE n == Len(d1[slot])
           o == SizeUpTo(n)
           T == o + Len(cs)
<1>1. /\ spc = "read" /\ Taking /\ n \in 0..3 /\ slot \in Slots
      /\ cs # <<>> \/ CsWriters = {}
  BY ReadEffect DEF ReadField, Taking
<1>2. /\ Len(cs) \in Nat /\ cs \in Seq(Bytes)
      /\ \A p \in 1..Len(cs) : cs[p] \in Clients \X (1..NFields)
  BY <1>1, StreamTypes DEF TypeInv, TypeOK
<1>3. Len(cs) > 0
  BY <1>1, <1>2, EmptySeq DEF Supplied
<1>4. o = 4 * n /\ SizeOf(n + 1) = IF n = 3 THEN 1 ELSE 4
  BY <1>1, FieldSizes
<1>5. T % 13 \in {0, 4, 8, 12}
  BY DEF Stream, Unfinished, StreamEnd
<1>6. SizeOf(n + 1) <= Len(cs)
  <2> HIDE DEF n
  <2>1. n \in 0..3 /\ Len(cs) \in Nat \ {0} /\ (4 * n + Len(cs)) % 13 \in {0, 4, 8, 12}
    BY <1>1, <1>2, <1>3, <1>4, <1>5
  <2>2. Len(cs) >= IF n = 3 THEN 1 ELSE 4
    BY ONLY <2>1
  <2>3. QED
    BY ONLY <1>2, <1>4, <2>2
<1>7. ASSUME NEW b \in 1..SizeOf(n + 1) PROVE cs[b] = <<cs[1][1], n + 1>>
  <2>1. b \in 1..Len(cs) /\ 1 \in 1..Len(cs)
    BY <1>2, <1>4, <1>6
  <2>2. Offset(b) = 4 * n + b - 1 /\ Offset(1) = 4 * n
    BY <1>1, <1>4 DEF Offset
  <2>3. FieldAt(Offset(b)) = n + 1 /\ Offset(b) \div 13 = Offset(1) \div 13
    <3> HIDE DEF n
    <3>1. QED
      BY <1>1, <1>4, <2>2 DEF FieldAt
  <2>4. cs[b][2] = n + 1 /\ cs[b][1] = cs[1][1]
    BY <2>1, <2>3 DEF Stream, InOrder
  <2>5. QED
    BY <1>2, <2>1, <2>4
<1>8. cs[1][1] \in Clients /\ 1 \in 1..SizeOf(n + 1)
  BY <1>2, <1>3, <1>4
<1>9. HoldsField(cs[1][1], n + 1)
  BY <1>6, <1>7 DEF HoldsField
<1>10. d1' = [d1 EXCEPT ![slot] = Append(d1[slot], cs[1][1])]
  <2>1. PICK x \in Clients \cup {None} :
           /\ d1' = [d1 EXCEPT ![slot] = Append(d1[slot], x)]
           /\ x \in Clients => HoldsField(x, n + 1)
           /\ x = None => \A c \in Clients : ~HoldsField(c, n + 1)
    BY ReadEffect
  <2>2. x \in Clients /\ HoldsField(x, n + 1)
    BY <1>8, <1>9, <2>1
  <2>3. cs[1] = <<x, n + 1>>
    BY <1>8, <2>2 DEF HoldsField
  <2>4. x = cs[1][1]
    BY <2>3
  <2>5. QED
    BY <2>1, <2>4
<1>11. d1[slot] # <<>> => d1[slot][1] = cs[1][1]
  <2>1. 1 \in 1..Len(cs) /\ Offset(1) \div 13 = 0
    <3>1. Offset(1) = 4 * n
      BY <1>1, <1>4 DEF Offset
    <3>2. (4 * n) \div 13 = 0
      <4> HIDE DEF n
      <4>1. QED
        BY <1>1
    <3>3. QED
      <4> HIDE DEF n
      <4>1. QED
        BY <1>2, <1>3, <3>1, <3>2
  <2>2. QED
    BY <2>1 DEF Stream, InOrder
<1>12. QED
  BY <1>3, <1>6, <1>8, <1>10, <1>11

\* The rest follows on what has been read, and the slot stays whole.
LEMMA ReadStream ==
    ASSUME TypeInv, Stream, Supplied, SlotsWhole, ReadField
    PROVE  Stream' /\ SlotsWhole' /\ StreamEnd' = StreamEnd
<1> DEFINE n == Len(d1[slot])
           o == SizeUpTo(n)
           k == SizeOf(n + 1)
           c == cs[1][1]
<1>1. /\ Taking /\ slot \in Slots /\ n \in 0..3 /\ spc = "read"
      /\ UNCHANGED <<slot, sem1, cpc, wrote>> /\ spc' # "startup"
  BY ReadEffect DEF ReadField, Taking, clientVars
<1>2. /\ k <= Len(cs) /\ Len(cs) > 0 /\ c \in Clients
      /\ d1[slot] # <<>> => d1[slot][1] = c
      /\ d1' = [d1 EXCEPT ![slot] = Append(d1[slot], c)]
  BY ReadWhole
<1>3. /\ Len(d1'[slot]) = n + 1 /\ d1'[slot][n + 1] = c
      /\ \A j \in 1..n : d1'[slot][j] = d1[slot][j]
      /\ \A i \in Slots : i # slot => d1'[i] = d1[i]
  BY <1>1, <1>2, AppendedSlot
<1>4. /\ Len(cs) \in Nat /\ d1[slot] # <<>> <=> n > 0
      /\ o = 4 * n /\ k = IF n = 3 THEN 1 ELSE 4
      /\ SizeUpTo(n + 1) = o + k
  BY <1>1, StreamTypes, FieldSizes
<1>5. /\ Len(cs') = Len(cs) - k
      /\ \A p \in 1..Len(cs') : p + k \in 1..Len(cs) /\ cs'[p] = cs[p + k]
  BY <1>2, ReadEffect
<1>6. /\ d1'[slot][1] = c /\ d1'[slot] # <<>>
      /\ \A j \in 1..(n + 1) : d1'[slot][j] = c
  <2>1. \A j \in 1..n : d1[slot][j] = c
    <3>1. CASE n = 0
      BY <3>1
    <3>2. CASE n # 0
      BY <1>1, <1>2, <1>4, <3>2 DEF SlotsWhole
    <3>3. QED
      BY <3>1, <3>2
  <2>2. \A j \in 1..(n + 1) : d1'[slot][j] = c
    <3>1. SUFFICES ASSUME NEW j \in 1..(n + 1) PROVE d1'[slot][j] = c
      OBVIOUS
    <3>2. CASE j = n + 1
      BY <1>3, <3>2
    <3>3. CASE j \in 1..n
      BY <1>3, <2>1, <3>3
    <3>4. QED
      BY <1>1, <3>2, <3>3
  <2>3. 1 \in 1..(n + 1)
    BY <1>1
  <2>4. d1'[slot] # <<>>
    <3>1. Len(<<>>) = 0 /\ n + 1 # 0
      BY <1>1
    <3>2. QED
      BY <1>3, <3>1
  <2>5. QED
    BY <2>2, <2>3, <2>4
<1>7. SlotsWhole'
  <2>1. c # None
    BY <1>2, ConstantsAssumption
  <2>2. SUFFICES ASSUME NEW i \in Slots, NEW j \in 1..Len(d1'[i])
                 PROVE  d1'[i][j] # None /\ d1'[i][j] = d1'[i][1]
    BY DEF SlotsWhole
  <2>3. CASE i = slot
    BY <1>3, <1>6, <2>1, <2>2, <2>3
  <2>4. CASE i # slot
    BY <1>3, <2>2, <2>4 DEF SlotsWhole
  <2>5. QED
    BY <2>3, <2>4
<1>8. /\ \A p \in 1..Len(cs) : Offset(p) = o + p - 1
      /\ \A p \in Nat : Offset(p)' = o + k + p - 1
      /\ StreamEnd = o + Len(cs) /\ StreamEnd' = StreamEnd
  BY <1>1, <1>2, <1>3, <1>4, <1>5 DEF Offset, StreamEnd
<1> HIDE DEF n, o, k, c
<1>9. ASSUME NEW p \in 1..Len(cs')
      PROVE  p + k \in 1..Len(cs) /\ cs'[p] = cs[p + k] /\ Offset(p)' = Offset(p + k)
  <2>1. k \in Nat /\ o \in Nat /\ p \in Nat
    BY <1>1, <1>4
  <2>2. p + k \in 1..Len(cs) /\ cs'[p] = cs[p + k]
    BY <1>5
  <2>3. o + k + p - 1 = o + (p + k) - 1
    BY <2>1
  <2>4. Offset(p)' = o + k + p - 1 /\ Offset(p + k) = o + (p + k) - 1
    BY <1>8, <2>1, <2>2
  <2>5. QED
    BY <2>2, <2>3, <2>4
<1>10. 1 \in 1..Len(cs) /\ Offset(1) \div 13 = 0
  <2>1. Offset(1) = o /\ o \in {0, 4, 8, 12}
    BY <1>1, <1>2, <1>4, <1>8
  <2>2. QED
    BY <1>2, <1>4, <2>1
<1>11. InOrder'
  <2>1. \A p \in 1..Len(cs') : cs'[p][2] = FieldAt(Offset(p)')
    BY <1>9 DEF Stream, InOrder
  <2>2. ASSUME NEW p \in 1..Len(cs'), NEW q \in 1..Len(cs'),
               Offset(p)' \div 13 = Offset(q)' \div 13
        PROVE  cs'[p][1] = cs'[q][1]
    BY <1>9, <2>2 DEF Stream, InOrder
  <2>3. ASSUME NEW p \in 1..Len(cs'), Offset(p)' \div 13 = 0
        PROVE  cs'[p][1] = d1'[slot][1]
    <3>1. cs[p + k][1] = c
      BY <1>9, <1>10, <2>3 DEF Stream, InOrder, c
    <3>2. QED
      BY <1>6, <1>9, <3>1
  <2>4. QED
    BY <1>1, <2>1, <2>2, <2>3 DEF InOrder
<1>12. Unfinished'
  <2>1. ASSUME NEW e \in Clients, OfOne(e, StreamEnd \div 13)
        PROVE  OfOne(e, StreamEnd \div 13)'
    <3>1. \A p \in 1..Len(cs') : Offset(p)' \div 13 = StreamEnd' \div 13 => cs'[p][1] = e
      BY <1>8, <1>9, <2>1 DEF OfOne
    <3>2. StreamEnd' \div 13 = 0 => d1'[slot][1] = e
      BY <1>6, <1>8, <1>10, <2>1 DEF OfOne, c
    <3>3. QED
      BY <1>1, <3>1, <3>2 DEF OfOne
  <2>2. QED
    BY <1>1, <1>8, <2>1 DEF Stream, Unfinished
<1>13. QED
  BY <1>7, <1>8, <1>11, <1>12 DEF Stream

\* A request read whole is one that ends where the next begins.
LEMMA SwitchStream ==
    ASSUME TypeInv, TypeInv', Taking', Stream, Switch
    PROVE  Stream'
<1>1. CASE cs' # cs
  BY <1>1, StreamLost DEF Switch, KeptCs
<1>2. CASE cs' = cs
  <2>1. /\ UNCHANGED <<d1, sem1, cpc, wrote>> /\ Len(d1[slot]) = 4 /\ slot' = slot + 1
        /\ spc' = "open" /\ d1'[slot'] = <<>>
    BY DEF Switch, Taking, TypeInv, SlotsFilled, NFields, clientVars
  <2>2. Taking /\ Len(cs) \in Nat
    BY StreamTypes DEF Switch, Taking
  <2>3. SizeUpTo(Len(d1[slot])) = 13 /\ SizeUpTo(Len(d1'[slot'])) = 0
    BY <2>1 DEF SizeUpTo, NFields
  <2>4. /\ \A p \in 1..Len(cs) : Offset(p) = p + 12 /\ Offset(p)' = p - 1
        /\ StreamEnd = Len(cs) + 13 /\ StreamEnd' = Len(cs)
    BY <1>2, <2>2, <2>3 DEF Offset, StreamEnd
  <2>5. ASSUME NEW p \in 1..Len(cs)
        PROVE  /\ FieldAt(p + 12) = FieldAt(p - 1) /\ (p + 12) \div 13 = (p - 1) \div 13 + 1
               /\ (p - 1) \div 13 \in Nat
    BY <2>2 DEF FieldAt
  <2>6. StreamEnd' % 13 = StreamEnd % 13 /\ StreamEnd \div 13 = StreamEnd' \div 13 + 1
    BY <2>2, <2>4
  <2>7. InOrder'
    <3>1. \A p \in 1..Len(cs) : cs[p][2] = FieldAt(Offset(p)')
      BY <2>4, <2>5 DEF Stream, InOrder
    <3>2. ASSUME NEW p \in 1..Len(cs), NEW q \in 1..Len(cs),
                 Offset(p)' \div 13 = Offset(q)' \div 13
          PROVE  cs[p][1] = cs[q][1]
      <4>1. Offset(p) \div 13 = Offset(q) \div 13
        BY <2>4, <2>5, <3>2
      <4>2. QED
        BY <4>1 DEF Stream, InOrder
    <3>3. QED
      BY <1>2, <2>1, <3>1, <3>2 DEF InOrder
  <2>8. ASSUME NEW c \in Clients, OfOne(c, StreamEnd \div 13)
        PROVE  OfOne(c, StreamEnd \div 13)'
    <3>1. ASSUME NEW p \in 1..Len(cs), (p - 1) \div 13 = StreamEnd' \div 13
          PROVE  cs[p][1] = c
      <4>1. Offset(p) \div 13 = StreamEnd \div 13
        BY <2>4, <2>5, <2>6, <3>1
      <4>2. QED
        BY <2>8, <4>1 DEF OfOne
    <3>2. QED
      BY <1>2, <2>1, <2>4, <3>1 DEF OfOne
  <2>9. Unfinished'
    BY <2>1, <2>6, <2>8 DEF Stream, Unfinished
  <2>10. QED
    BY <2>7, <2>9 DEF Stream
<1>3. QED
  BY <1>1, <1>2

\* Nobody stops being a writer of FIFO_C_S while main reads.
LEMMA SuppliedKept ==
    ASSUME Supplied, spc' = spc, \A c \in Clients : cpc[c] \in ReqFdStates => cpc'[c] \in ReqFdStates
    PROVE  Supplied'
BY DEF Supplied, CsWriters

\* A step by which no thread passes its open and the clients past theirs stay.
LEMMA AnchorKept ==
    ASSUME Anchored, \A c \in Clients : cpc[c] \in StayStates => cpc'[c] \in StayStates,
           \A i \in Slots : tpc'[i] \in {"assign", "write", "close", "notify", "post", "exited"}
              => tpc[i] \in {"assign", "write", "close", "notify", "post", "exited"}
    PROVE  Anchored'
BY DEF Anchored

\* Clients write their requests one after the other, and stay until let go.
LEMMA ClientRecords ==
    ASSUME TypeInv, TypeInv', ReqInv, ReplyInv, ReleaseInv, RecordInv,
           NEW c \in Clients, Client(c) \/ CKill(c)
    PROVE  RecordInv'
<1> SUFFICES ASSUME kills' = 0 PROVE RecordInv'
  BY DEF RecordInv
<1>1. Client(c) /\ kills = 0 /\ d1' = d1
  <2>1. ~CKill(c)
    <3>1. kills \in Nat
      BY ConstantsAssumption DEF TypeInv, TypeOK
    <3>2. QED
      BY <3>1 DEF CKill
  <2>2. kills' = kills /\ d1' = d1
    BY <2>1 DEF Client, CWait, COpenReq, CWrite, CWriteBroken, CPost, COpenRes, CAwait1,
                CRead, CCloseRes, CAwait2, mainVars
  <2>3. QED
    BY <2>1, <2>2
<1>2. SlotsWhole'
  BY <1>1 DEF RecordInv, SlotsWhole
<1> SUFFICES ASSUME Taking' PROVE Stream' /\ Anchored' /\ Supplied'
  BY <1>2 DEF RecordInv
<1>3. /\ spc' = spc \/ (spc = "openWait" /\ spc' = "read")
      /\ slot' = slot
  BY <1>1 DEF Client, CWait, COpenReq, CWrite, CWriteBroken, CPost, COpenRes, CAwait1,
              CRead, CCloseRes, CAwait2, mainVars
<1>4. Taking /\ Stream /\ Anchored /\ Supplied /\ SlotsWhole
  BY <1>1, <1>3 DEF Taking, RecordInv
<1>5. cpc \in [Clients -> ClientStates] /\ ~flag2[c] /\ sem1 \in Nat
  BY <1>4 DEF TypeInv, TypeOK, ReleaseInv, ServedAndJoined, Taking
<1>6. CASE CWait(c)
  <2>1. /\ UNCHANGED <<cs, d1, slot, spc, wrote, tpc>> /\ cpc[c] = "start" /\ wrote[c] = 0
        /\ cpc' = [cpc EXCEPT ![c] = "openReq"] /\ sem1 = 1 /\ sem1' = 0 /\ spc # "startup"
    BY <1>5, <1>6 DEF CWait, Goto, fifoVars, mainVars, TypeInv, FieldsWritten, ReqInv
  <2>2. \A e \in Clients : cpc'[e] \in RequestStates => e = c
    BY <1>5, <2>1 DEF ReqInv
  <2>3. InOrder' /\ StreamEnd' = StreamEnd
    BY <1>4, <2>1, BytesSame DEF Stream
  <2>4. Unfinished'
    <3>1. StreamEnd % 13 = 0
      BY <1>4, <2>1 DEF Stream, Unfinished
    <3>2. SizeUpTo(0) % 13 = 0
      BY DEF SizeUpTo, NFields
    <3>3. cpc'[c] # "post" /\ wrote'[c] = 0
      BY <1>5, <2>1
    <3>4. QED
      BY <2>1, <2>2, <2>3, <3>1, <3>2, <3>3 DEF Unfinished
  <2>5. Anchored' /\ Supplied'
    BY <1>4, <1>5, <2>1, AnchorKept, SuppliedKept DEF StayStates, ReqFdStates
  <2>6. QED
    BY <2>3, <2>4, <2>5 DEF Stream
<1>7. CASE COpenReq(c)
  <2>1. /\ UNCHANGED <<cs, d1, slot, sem1, wrote, tpc>> /\ cpc[c] = "openReq"
        /\ \E s \in {"write", "openReqWait"} : cpc' = [cpc EXCEPT ![c] = s]
        /\ spc' = "startup" => spc = "startup"
    BY <1>7 DEF COpenReq, Goto, fifoVars
  <2>2. Stream'
    BY <1>4, <1>5, <2>1, StreamSame DEF RequestStates
  <2>3. Anchored'
    BY <1>4, <1>5, <2>1, AnchorKept DEF StayStates
  <2>4. Supplied'
    BY <1>5, <2>1 DEF Supplied, CsWriters, ReqFdStates
  <2>5. QED
    BY <2>2, <2>3, <2>4
<1>8. CASE CWrite(c)
  <2>1. /\ UNCHANGED <<spc, tpc>> /\ cpc[c] = "write"
        /\ \E s \in {"write", "post"} : cpc' = [cpc EXCEPT ![c] = s]
    BY <1>8 DEF CWrite, Goto, mainVars
  <2>2. Anchored' /\ Supplied'
    BY <1>4, <1>5, <2>1, AnchorKept, SuppliedKept DEF StayStates, ReqFdStates
  <2>3. QED
    BY <1>4, <1>8, <2>2, WriteStream
<1>9. CASE CWriteBroken(c)
  <2>1. /\ UNCHANGED <<d1, slot, spc, sem1, wrote, tpc>> /\ cpc[c] = "write" /\ ~CsHasReader
        /\ cpc' = [cpc EXCEPT ![c] = "dead"] /\ cs' = KeptCs(cs)
    BY <1>9 DEF CWriteBroken, Goto, mainVars
  <2>2. Stream'
    BY <1>4, <1>5, <2>1, StreamClosed DEF RequestStates
  <2>3. Anchored' /\ Supplied'
    BY <1>4, <1>5, <2>1, AnchorKept DEF StayStates, Supplied, CsHasReader
  <2>4. QED
    BY <2>2, <2>3
<1>10. CASE CPost(c)
  <2>1. /\ UNCHANGED <<cs, d1, slot, spc, wrote, tpc>> /\ cpc[c] = "post"
        /\ cpc' = [cpc EXCEPT ![c] = "openRes"]
    BY <1>10 DEF CPost, Goto, fifoVars, mainVars
  <2>2. \A e \in Clients : cpc'[e] \notin RequestStates
    <3>1. \A e \in Clients : cpc[e] \in RequestStates => e = c
      BY <2>1 DEF ReqInv, ReqExclusive, RequestStates
    <3>2. QED
      BY <1>5, <2>1, <3>1 DEF RequestStates
  <2>3. InOrder' /\ StreamEnd' = StreamEnd
    BY <1>4, <2>1, BytesSame DEF Stream
  <2>4. StreamEnd % 13 = 0
    <3>1. StreamEnd % 13 = SizeUpTo(NFields) % 13
      BY <1>4, <2>1 DEF Stream, Unfinished, RequestStates
    <3>2. SizeUpTo(NFields) % 13 = 0
      BY DEF SizeUpTo
    <3>3. QED
      BY <3>1, <3>2
  <2>5. Unfinished'
    BY <2>2, <2>3, <2>4 DEF Unfinished
  <2>6. Anchored' /\ Supplied'
    BY <1>4, <1>5, <2>1, AnchorKept, SuppliedKept DEF StayStates, ReqFdStates
  <2>7. QED
    BY <2>3, <2>5, <2>6 DEF Stream
<1>11. CASE COpenRes(c)
  <2>1. /\ UNCHANGED <<cs, d1, slot, spc, sem1, wrote, scOpen>> /\ cpc[c] = "openRes"
        /\ cpc' = [cpc EXCEPT ![c] = IF scOpen # {} THEN "await1" ELSE "openResWait"]
        /\ tpc' = [i \in Slots |-> IF tpc[i] = "openWait" THEN "assign" ELSE tpc[i]]
    BY <1>11 DEF COpenRes, Goto, fifoVars, mainVars
  <2>2. Stream'
    BY <1>4, <1>5, <2>1, StreamSame DEF RequestStates
  <2>3. Supplied'
    BY <1>4, <1>5, <2>1, SuppliedKept DEF ReqFdStates
  <2>4. CASE \E i \in Slots : tpc[i] = "openWait"
    <3>1. scOpen # {}
      BY <2>4 DEF ReplyInv
    <3>2. cpc'[c] \in StayStates
      BY <1>5, <2>1, <3>1 DEF StayStates
    <3>3. QED
      BY <2>2, <2>3, <3>2 DEF Anchored
  <2>5. CASE ~\E i \in Slots : tpc[i] = "openWait"
    BY <1>4, <1>5, <2>1, <2>2, <2>3, <2>5, AnchorKept DEF StayStates
  <2>6. QED
    BY <2>4, <2>5
<1>12. CASE CAwait1(c) \/ CRead(c) \/ CCloseRes(c)
  <2>1. /\ UNCHANGED <<cs, d1, slot, spc, sem1, wrote, tpc>> /\ cpc[c] \in StayStates
        /\ \E s \in StayStates : cpc' = [cpc EXCEPT ![c] = s]
    BY <1>12 DEF CAwait1, CRead, CCloseRes, Goto, fifoVars, mainVars, StayStates
  <2>2. Stream'
    BY <1>4, <1>5, <2>1, StreamSame DEF RequestStates, StayStates
  <2>3. Anchored' /\ Supplied'
    BY <1>4, <1>5, <2>1, AnchorKept, SuppliedKept DEF StayStates, ReqFdStates
  <2>4. QED
    BY <2>2, <2>3
<1>13. ~CAwait2(c)
  BY <1>5 DEF CAwait2, Released
<1>14. QED
  BY <1>1, <1>6, <1>7, <1>8, <1>9, <1>10, <1>11, <1>12, <1>13 DEF Client

\* Main reads the requests one after the other.
LEMMA MainRecords ==
    ASSUME TypeInv, TypeInv', ReqInv, ReplyInv, RecordInv, Main
    PROVE  RecordInv'
<1> SUFFICES ASSUME kills' = 0 PROVE RecordInv'
  BY DEF RecordInv
<1>1. kills = 0 /\ SlotsWhole
  BY DEF Main, Startup, OpenReq, ReadField, Switch, Join, JoinUnset, Finish, RecordInv
<1>2. CASE Startup
  <2>1. /\ UNCHANGED <<cs, d1, slot, wrote, tpc, cpc>> /\ spc = "startup" /\ spc' = "open"
        /\ \A c \in Clients : cpc[c] = "start"
    BY <1>2 DEF Startup, fifoVars, clientVars, ReqInv
  <2>2. Stream /\ Anchored
    BY <1>1, <2>1 DEF RecordInv, Taking
  <2>3. InOrder' /\ StreamEnd' = StreamEnd
    BY <2>1, <2>2, BytesSame DEF Stream
  <2>4. Unfinished'
    <3>1. StreamEnd % 13 = 0
      BY <2>1, <2>2 DEF Stream, Unfinished
    <3>2. \A c \in Clients : cpc'[c] \notin RequestStates
      BY <2>1 DEF RequestStates
    <3>3. QED
      BY <2>3, <3>1, <3>2 DEF Unfinished
  <2>5. Anchored' /\ Supplied'
    BY <2>1, <2>2, AnchorKept DEF Supplied
  <2>6. SlotsWhole'
    BY <1>1, <2>1 DEF SlotsWhole
  <2>7. QED
    BY <2>3, <2>4, <2>5, <2>6 DEF RecordInv, Stream
<1>3. CASE OpenReq
  <2>1. /\ UNCHANGED <<cs, d1, slot, wrote, tpc, sem1>> /\ spc = "open"
        /\ spc' = IF CsWriters # {} THEN "read" ELSE "openWait"
        /\ cpc' = [c \in Clients |-> IF cpc[c] = "openReqWait" THEN "write" ELSE cpc[c]]
    BY <1>3 DEF OpenReq, fifoVars
  <2>2. Stream /\ Anchored
    BY <1>1, <2>1 DEF RecordInv, Taking
  <2>3. Stream'
    BY <2>1, <2>2, StreamSame DEF RequestStates
  <2>4. Anchored'
    BY <2>1, <2>2, AnchorKept DEF StayStates
  <2>5. Supplied'
    BY <2>1 DEF Supplied, CsWriters, ReqFdStates
  <2>6. SlotsWhole'
    BY <1>1, <2>1 DEF SlotsWhole
  <2>7. QED
    BY <2>3, <2>4, <2>5, <2>6 DEF RecordInv
<1>4. CASE ReadField
  <2>1. Stream /\ Anchored /\ Supplied
    BY <1>1, <1>4 DEF RecordInv, Taking, ReadField
  <2>2. Stream' /\ SlotsWhole'
    BY <1>1, <1>4, <2>1, ReadStream
  <2>3. cpc' = cpc /\ tpc' = tpc /\ spc = "read"
    BY <1>4 DEF ReadField, clientVars
  <2>4. Anchored' /\ Supplied'
    BY <2>1, <2>3, AnchorKept DEF Supplied, CsWriters
  <2>5. QED
    BY <2>2, <2>4 DEF RecordInv
<1>5. CASE Switch
  <2>1. /\ cpc' = cpc /\ d1' = d1 /\ spc' # "read" /\ spc = "switch" /\ slot \in Slots
        /\ tpc' = tpc \/ tpc' = [tpc EXCEPT ![slot] = "wait"]
    BY <1>5 DEF Switch, clientVars, TypeInv, SlotsFilled, Taking
  <2>2. Stream /\ Anchored
    BY <1>1, <2>1 DEF RecordInv, Taking
  <2>3. Anchored' /\ Supplied'
    <3>1. tpc \in [Slots -> ThreadStates]
      BY DEF TypeInv, TypeOK
    <3>2. \A i \in Slots : tpc'[i] = tpc[i] \/ tpc'[i] = "wait"
      BY <2>1, <3>1
    <3>3. QED
      BY <2>1, <2>2, <3>2, AnchorKept DEF Supplied
  <2>4. SlotsWhole'
    BY <1>1, <2>1 DEF SlotsWhole
  <2>5. Taking' => Stream'
    BY <1>5, <2>2, SwitchStream
  <2>6. QED
    BY <2>3, <2>4, <2>5 DEF RecordInv
<1>6. CASE Join \/ JoinUnset \/ Finish
  <2>1. d1' = d1 /\ ~Taking'
    BY <1>6 DEF Join, JoinUnset, Finish, ProcessEnds, Taking
  <2>2. QED
    BY <1>1, <2>1 DEF RecordInv, SlotsWhole
<1>7. QED
  BY <1>2, <1>3, <1>4, <1>5, <1>6 DEF Main

\* A thread that has passed its open leaves behind a client that stays.
LEMMA ThreadRecords ==
    ASSUME TypeInv, TypeInv', ReqInv, ReplyInv, RecordInv, NEW i \in Slots, Thread(i)
    PROVE  RecordInv'
<1> SUFFICES ASSUME kills' = 0 PROVE RecordInv'
  BY DEF RecordInv
<1>1. kills = 0 /\ SlotsWhole /\ d1' = d1
  BY DEF Thread, TWait, TOpen, TAssign, TWrite, TWriteBroken, TClose, TNotify, TPost,
         mainVars, RecordInv
<1>2. SlotsWhole'
  BY <1>1 DEF SlotsWhole
<1> SUFFICES ASSUME Taking' PROVE Stream' /\ Anchored' /\ Supplied'
  BY <1>2 DEF RecordInv
<1>3. UNCHANGED <<spc, slot, sem1, wrote>> /\ ~TWriteBroken(i)
  BY DEF Thread, TWait, TOpen, TAssign, TWrite, TWriteBroken, TClose, TNotify, TPost,
         ProcessEnds, mainVars, clientVars, Taking
<1>4. Taking /\ Stream /\ Anchored /\ Supplied
  BY <1>1, <1>3 DEF Taking, RecordInv
<1>5. tpc \in [Slots -> ThreadStates]
  BY DEF TypeInv, TypeOK
<1>6. CASE TOpen(i)
  <2>1. /\ cs' = cs /\ tpc[i] = "open"
        /\ tpc' = [tpc EXCEPT ![i] = IF ScReaders # {} THEN "assign" ELSE "openWait"]
        /\ cpc' = [c \in Clients |-> IF cpc[c] = "openResWait" THEN "await1" ELSE cpc[c]]
    BY <1>6 DEF TOpen, ThreadGoto
  <2>2. Stream'
    BY <1>1, <1>3, <1>4, <2>1, StreamSame DEF RequestStates
  <2>3. Supplied'
    BY <1>3, <1>4, <2>1, SuppliedKept DEF ReqFdStates
  <2>4. CASE ScReaders # {}
    <3>1. PICK c \in Clients : cpc[c] \in ResFdStates
      BY <2>4 DEF ScReaders
    <3>2. cpc'[c] \in StayStates
      BY <2>1, <3>1 DEF ResFdStates, StayStates
    <3>3. QED
      BY <2>2, <2>3, <3>2 DEF Anchored
  <2>5. CASE ScReaders = {}
    <3>1. \A j \in Slots : tpc'[j] = tpc[j] \/ tpc'[j] = "openWait"
      BY <1>5, <2>1, <2>5
    <3>2. Anchored'
      BY <1>4, <2>1, <3>1, AnchorKept DEF StayStates
    <3>3. QED
      BY <2>2, <2>3, <3>2
  <2>6. QED
    BY <2>4, <2>5
<1>7. CASE TNotify(i)
  <2>1. /\ cs' = KeptCs(cs) /\ tpc[i] = "notify" /\ KillState(i)
        /\ tpc' = [tpc EXCEPT ![i] = "post"]
    BY <1>7 DEF TNotify, ThreadGoto
  <2>2. \A c \in Clients : \/ cpc'[c] = cpc[c]
                           \/ cpc[c] = "openResWait" /\ cpc'[c] = "dead"
                           \/ cpc[c] = "read" /\ cpc'[c] = "closeRes"
    BY <2>1, SignalType
  <2>3. Stream'
    BY <1>1, <1>3, <1>4, <2>1, <2>2, StreamClosed DEF RequestStates
  <2>4. PICK c \in Clients : cpc[c] \in StayStates
    BY <1>4, <2>1 DEF Anchored
  <2>5. cpc'[c] \in StayStates
    BY <2>2, <2>4 DEF StayStates
  <2>6. Anchored' /\ Supplied'
    BY <2>5 DEF Anchored, Supplied, CsWriters, StayStates, ReqFdStates
  <2>7. QED
    BY <2>3, <2>6
<1>8. CASE TWait(i) \/ TAssign(i) \/ TWrite(i) \/ TClose(i) \/ TPost(i)
  <2>1. UNCHANGED <<cs, cpc>>
    BY <1>8 DEF TWait, TAssign, TWrite, TClose, TPost, fifoVars, clientVars
  <2>2. Stream' /\ Supplied'
    BY <1>1, <1>3, <1>4, <2>1, StreamSame, SuppliedKept
  <2>3. PICK s : /\ tpc' = [tpc EXCEPT ![i] = s]
                 /\ s \in {"assign", "write", "close", "notify", "post", "exited"}
                       => tpc[i] \in {"assign", "write", "close", "notify", "post", "exited"}
    BY <1>8 DEF TWait, TAssign, TWrite, TClose, TPost, ThreadGoto
  <2>4. \A j \in Slots : tpc'[j] \in {"assign", "write", "close", "notify", "post", "exited"}
           => tpc[j] \in {"assign", "write", "close", "notify", "post", "exited"}
    BY <1>5, <2>3
  <2>5. Anchored'
    BY <1>4, <2>1, <2>4, AnchorKept
  <2>6. QED
    BY <2>2, <2>5
<1>9. QED
  BY <1>3, <1>6, <1>7, <1>8 DEF Thread

\* The first state, in which nothing has been written.
LEMMA StateInit ==
    ASSUME Init
    PROVE  TypeInv /\ ReqInv /\ ReplyInv /\ HeldInv /\ ReleaseInv /\ ResultInv /\ RecordInv
<1>1. HeldInv /\ ReleaseInv
  BY DEF Init, HeldInv, Taking, ReleaseInv
<1>2. ResultInv
  BY ConstantsAssumption DEF Init, ResultInv, Op1Once, HasOp1, ResultOnce
<1>3. RecordInv
  <2>1. /\ cs = <<>> /\ spc = "startup" /\ slot \in Slots /\ d1[slot] = <<>>
        /\ \A c \in Clients : cpc[c] = "start"
        /\ \A i \in Slots : tpc[i] = "none" /\ d1[i] = <<>>
    BY ConstantsAssumption DEF Init, Slots
  <2>2. StreamEnd = 0
    BY <2>1 DEF StreamEnd, SizeUpTo, NFields
  <2>3. Stream
    BY <2>1, <2>2 DEF Stream, InOrder, Unfinished, RequestStates
  <2>4. QED
    BY <2>1, <2>3 DEF RecordInv, SlotsWhole, Anchored, Supplied
<1>4. QED
  BY <1>1, <1>2, <1>3, TypeInit, ReqInit, ReplyInit

\* Every step keeps the requests whole.
LEMMA RecordStep ==
    ASSUME TypeInv, TypeInv', ReqInv, ReplyInv, ReleaseInv, RecordInv, [Next]_vars
    PROVE  RecordInv'
<1>1. CASE UNCHANGED vars
  BY <1>1 DEF vars, fifoVars, clientVars, mainVars, RecordInv, SlotsWhole, Taking, Stream,
           InOrder, Unfinished, StreamEnd, OfOne, Offset, Anchored, Supplied, CsWriters
<1>2. QED
  BY <1>1, ClientRecords, MainRecords, ThreadRecords DEF Next

\* While nobody is killed every field main reads is all there and those of one
\* request are of one client, for any number of clients: no read of a field comes
\* too early, in the middle of another or at the end of FIFO_C_S (server.c:129-137,
\* client1.c:80-88), although main never looks at what read returns and a client
\* may be ended by SIGPIPE in the middle of its request, of which the fields that
\* are missing are then never read.
THEOREM NeverMixed == Spec => []RecordsWhole
<1> DEFINE Inv == TypeInv /\ ReqInv /\ ReplyInv /\ ReleaseInv
<1>1. Init => Inv /\ RecordInv
  BY StateInit
<1>2. Inv /\ [Next]_vars => Inv'
  BY TypeStep, SectionsStep, ReleaseStep
<1>3. Inv /\ Inv' /\ RecordInv /\ [Next]_vars => RecordInv'
  BY RecordStep
<1>4. RecordInv => RecordsWhole
  BY DEF RecordInv, SlotsWhole, RecordsWhole
<1>5. QED
  BY <1>1, <1>2, <1>3, <1>4, PTL DEF Spec

-----------------------------------------------------------------------------
(* While nobody is killed every request has the operator its client wrote,    *)
(* and each starts a thread: thread_count, by which main indexes thread_arr,  *)
(* is the number of requests it has read.                                     *)
JoinInv ==
    kills = 0 =>
        /\ Taking => count + 1 = slot /\ \A i \in Slots : i < slot => tpc[i] # "none"
        /\ spc = "join" =>
              /\ count = MaxThread
              /\ \A i \in Slots : tpc[i] # "none" /\ (i < slot => tpc[i] = "exited")

\* What keeps it: main and its count stay, and threads neither end nor come back.
LEMMA JoinKept ==
    ASSUME TypeInv, JoinInv, kills' = kills, slot' = slot, count' = count,
           Taking' => Taking, spc' = "join" => spc = "join",
           Taking' \/ spc' = "join" =>
              \A i \in Slots : (tpc[i] # "none" => tpc'[i] # "none")
                               /\ (tpc[i] = "exited" => tpc'[i] = "exited")
    PROVE  JoinInv'
<1> SUFFICES ASSUME kills = 0 PROVE JoinInv'
  BY DEF JoinInv
<1>1. (Taking => count + 1 = slot /\ \A i \in Slots : i < slot => tpc[i] # "none")'
  BY DEF JoinInv
<1>2. (spc = "join" =>
         /\ count = MaxThread
         /\ \A i \in Slots : tpc[i] # "none" /\ (i < slot => tpc[i] = "exited"))'
  BY DEF JoinInv
<1>3. QED
  BY <1>1, <1>2 DEF JoinInv

\* A thread that main has started takes its request and its client's signals.
LEMMA SlotGiven ==
    ASSUME TypeInv, RecordInv, kills = 0, NEW i \in Slots, Len(d1[i]) = NFields
    PROVE  /\ d1[i][1] \in Clients
           /\ \A j \in 1..NFields : d1[i][j] = d1[i][1]
<1>1. d1[i] \in Seq(Clients \cup {None})
  BY DEF TypeInv, TypeOK
<1>2. \A j \in 1..Len(d1[i]) : d1[i][j] # None /\ d1[i][j] = d1[i][1]
  BY DEF RecordInv, SlotsWhole
<1>3. 1 \in 1..Len(d1[i])
  BY DEF NFields
<1>4. d1[i][1] \in Clients \cup {None}
  BY <1>1, <1>3, ElementOfSeq
<1>5. QED
  BY <1>2, <1>3, <1>4

LEMMA JoinStep ==
    ASSUME TypeInv, RecordInv, ResultInv, JoinInv, [Next]_vars
    PROVE  JoinInv'
<1> USE DEF Taking
<1>1. ASSUME NEW c \in Clients, Client(c) \/ CKill(c) PROVE JoinInv'
  <2>1. slot' = slot /\ count' = count /\ (spc' = spc \/ (spc = "openWait" /\ spc' = "read"))
    BY <1>1 DEF Client, CWait, COpenReq, CWrite, CWriteBroken, CPost, COpenRes, CAwait1, CRead,
                CCloseRes, CAwait2, CKill, mainVars
  <2>2. \A i \in Slots : tpc'[i] = tpc[i] \/ (tpc[i] = "openWait" /\ tpc'[i] = "assign")
    <3>1. CASE COpenRes(c)
      BY <3>1 DEF COpenRes
    <3>2. CASE tpc' = tpc
      BY <3>2
    <3>3. QED
      BY <1>1, <3>1, <3>2 DEF Client, CWait, COpenReq, CWrite, CWriteBroken, CPost, CAwait1,
                              CRead, CCloseRes, CAwait2, CKill
  <2>3. CASE CKill(c)
    <3>1. kills' # 0
      BY <2>3, ConstantsAssumption DEF CKill, TypeInv, TypeOK
    <3>2. QED
      BY <3>1 DEF JoinInv
  <2>4. CASE Client(c)
    <3>1. kills' = kills
      BY <2>4 DEF Client, CWait, COpenReq, CWrite, CWriteBroken, CPost, COpenRes, CAwait1, CRead,
                  CCloseRes, CAwait2
    <3>2. QED
      BY <2>1, <2>2, <3>1, JoinKept
  <2>5. QED
    BY <1>1, <2>3, <2>4
<1>2. CASE Startup \/ OpenReq \/ ReadField
  BY <1>2, JoinKept DEF Startup, OpenReq, ReadField, clientVars
<1>3. CASE Switch
  <2> SUFFICES ASSUME kills = 0 PROVE JoinInv'
    BY <1>3 DEF JoinInv, Switch
  <2>1. /\ spc = "switch" /\ slot \in Slots /\ count + 1 = slot /\ count \in Nat
        /\ Len(d1[slot]) = NFields /\ tpc \in [Slots -> ThreadStates]
        /\ \A i \in Slots : i < slot => tpc[i] # "none"
    BY <1>3 DEF Switch, JoinInv, TypeInv, TypeOK, SlotsFilled
  <2>2. d1[slot][Len(d1[slot])] # None
    BY <2>1, ConstantsAssumption, SlotGiven DEF NFields
  <2>3. tpc' = [tpc EXCEPT ![slot] = "wait"] /\ count' = slot
    BY <1>3, <2>1, <2>2 DEF Switch, Counted
  <2>4. \A i \in Slots : i <= slot => tpc'[i] # "none"
    BY <2>1, <2>3 DEF Slots
  <2>5. CASE slot = MaxThread
    <3>1. slot' = 1 /\ spc' = "join"
      BY <1>3, <2>5 DEF Switch
    <3>2. QED
      BY <2>3, <2>4, <2>5, <3>1 DEF JoinInv, Slots
  <2>6. CASE slot # MaxThread
    <3>1. slot' = slot + 1 /\ spc' = "open"
      BY <1>3, <2>6 DEF Switch
    <3>2. QED
      BY <2>1, <2>3, <2>4, <3>1 DEF JoinInv, Slots
  <2>7. QED
    BY <2>5, <2>6
<1>4. CASE Join
  <2>1. /\ spc' = spc /\ count' = count /\ tpc' = tpc /\ kills' = kills
        /\ spc = "join" /\ slot' = slot + 1 /\ tpc[slot] = "exited"
    BY <1>4 DEF Join
  <2>2. slot \in Nat
    BY DEF TypeInv, TypeOK
  <2>3. QED
    BY <2>1, <2>2 DEF JoinInv, Slots
<1>5. CASE JoinUnset
  <2>1. spc = "join" /\ slot <= count /\ slot \in Slots /\ tpc[slot] = "none" /\ kills' = kills
    BY <1>5, ConstantsAssumption DEF JoinUnset, TypeInv, TypeOK, Slots
  <2>2. kills # 0
    BY <2>1 DEF JoinInv
  <2>3. QED
    BY <2>1, <2>2 DEF JoinInv
<1>6. CASE Finish
  BY <1>6 DEF Finish, ProcessEnds, JoinInv
<1>7. ASSUME NEW i \in Slots, Thread(i) PROVE JoinInv'
  <2>1. CASE TWriteBroken(i)
    BY <2>1 DEF TWriteBroken, ProcessEnds, JoinInv
  <2>2. CASE ~TWriteBroken(i)
    <3>1. UNCHANGED <<spc, slot, count, kills>>
      BY <1>7, <2>2 DEF Thread, TWait, TOpen, TAssign, TWrite, TClose, TNotify, TPost, mainVars
    <3>2. /\ tpc[i] # "exited"
          /\ \E s : s # "none" /\ tpc' = [tpc EXCEPT ![i] = s]
      BY <1>7, <2>2 DEF Thread, TWait, TOpen, TAssign, TWrite, TClose, TNotify, TPost, ThreadGoto
    <3>3. tpc \in [Slots -> ThreadStates]
      BY DEF TypeInv, TypeOK
    <3>4. QED
      BY <3>1, <3>2, <3>3, JoinKept
  <2>3. QED
    BY <2>1, <2>2
<1>8. CASE UNCHANGED vars
  BY <1>8, JoinKept DEF vars, mainVars
<1>9. QED
  BY <1>1, <1>2, <1>3, <1>4, <1>5, <1>6, <1>7, <1>8 DEF Next, Main

\* While nobody is killed main has joined every thread it has started when it
\* returns from the loop, and there is one for each request (server.c:147-171):
\* no entry of thread_arr is used that was not set, and no thread is left that
\* the return of main would end.
THEOREM AllThreadsJoined == Spec => ThreadsJoined
<1> DEFINE Inv == /\ TypeInv /\ ReqInv /\ ReplyInv /\ HeldInv /\ ReleaseInv
                  /\ ResultInv /\ RecordInv
<1>1. Init => Inv /\ JoinInv
  <2>1. Init => JoinInv
    BY ConstantsAssumption DEF Init, JoinInv, Taking, Slots
  <2>2. QED
    BY <2>1, StateInit
<1>2. Inv /\ [Next]_vars => Inv'
  BY TypeStep, SectionsStep, HeldStep, ReleaseStep, ResultStep, RecordStep
<1>3. Inv /\ JoinInv /\ [Next]_vars => JoinInv'
  BY JoinStep
<1>4. Inv /\ JoinInv /\ [Next]_vars
        => [kills = 0 /\ Finish => \A i \in Slots : tpc[i] = "exited"]_vars
  <2>1. ASSUME TypeInv, JoinInv, kills = 0, Finish, NEW i \in Slots PROVE tpc[i] = "exited"
    <3>1. /\ spc = "join" /\ slot > MaxThread
          /\ \A j \in Slots : j < slot => tpc[j] = "exited"
      BY <2>1 DEF JoinInv, Finish
    <3>2. i < slot
      BY <2>1, <3>1, ConstantsAssumption DEF Slots, TypeInv, TypeOK
    <3>3. QED
      BY <2>1, <3>1, <3>2
  <2>2. QED
    BY <2>1
<1>5. QED
  BY <1>1, <1>2, <1>3, <1>4, PTL DEF Spec, ThreadsJoined

-----------------------------------------------------------------------------
(* Who may be ended by a signal while nobody is killed.                       *)

\* A client has written the fields that are in FIFO_C_S or in a slot, and all
\* four when it goes on to its result.
ReplyWaits == {"post", "openRes", "openResWait", "await1", "read", "closeRes", "await2", "done"}

SentInv ==
    /\ \A p \in 1..Len(cs) : cs[p][2] <= wrote[cs[p][1]]
    /\ \A i \in Slots : \A j \in 1..Len(d1[i]) :
          d1[i][j] \in Clients => j <= wrote[d1[i][j]]
    /\ \A c \in Clients : cpc[c] \in ReplyWaits => wrote[c] = NFields

\* A step by which nothing is written or read.
LEMMA SentKept ==
    ASSUME SentInv, cs' \in {cs, <<>>}, d1' = d1, wrote' = wrote,
           \A c \in Clients : cpc'[c] \in ReplyWaits => cpc[c] \in ReplyWaits
    PROVE  SentInv'
<1>1. Len(<<>>) = 0
  OBVIOUS
<1>2. (\A p \in 1..Len(cs) : cs[p][2] <= wrote[cs[p][1]])'
  BY <1>1 DEF SentInv
<1>3. QED
  BY <1>2 DEF SentInv

\* A client writes its fields in turn.
LEMMA WriteSent ==
    ASSUME TypeInv, SentInv, NEW c \in Clients, CWrite(c)
    PROVE  SentInv'
<1>1. /\ wrote[c] \in 0..3 /\ wrote' = [wrote EXCEPT ![c] = wrote[c] + 1]
      /\ Len(cs) \in Nat
      /\ \A p \in 1..Len(cs) : cs'[p] = cs[p]
      /\ \A p \in 1..Len(cs') : p > Len(cs) => cs'[p] = <<c, wrote[c] + 1>>
  BY WriteEffect
<1>2. wrote \in [Clients -> 0..NFields] /\ cs \in Seq(Bytes) /\ cpc \in [Clients -> ClientStates]
  BY DEF TypeInv, TypeOK
<1>3. \A e \in Clients : wrote[e] <= wrote'[e] /\ wrote[e] \in Nat /\ wrote'[e] \in Nat
  BY <1>1, <1>2 DEF NFields
<1>4. ASSUME NEW p \in 1..Len(cs') PROVE cs'[p][2] <= wrote'[cs'[p][1]]
  <2>1. CASE p > Len(cs)
    BY <1>1, <1>2, <2>1
  <2>2. CASE p \in 1..Len(cs)
    <3>1. cs[p] \in Clients \X (1..NFields)
      BY <1>2, <2>2, ElementOfSeq DEF Bytes
    <3>2. cs[p][1] \in Clients /\ cs[p][2] \in Nat /\ cs[p][2] <= wrote[cs[p][1]]
      BY <2>2, <3>1 DEF SentInv, NFields
    <3>3. cs[p][2] <= wrote'[cs[p][1]]
      BY <1>3, <3>2
    <3>4. QED
      BY <1>1, <2>2, <3>3
  <2>3. p \in Nat /\ p >= 1
    <3>1. Len(cs') \in Nat
      <4>1. SizeOf(wrote[c] + 1) \in Nat /\ Len(cs') = Len(cs) + SizeOf(wrote[c] + 1)
        BY WriteEffect DEF SizeOf
      <4>2. QED
        BY <1>1, <4>1
    <3>2. QED
      BY <3>1
  <2>4. QED
    BY <1>1, <2>1, <2>2, <2>3
<1>5. d1' = d1 /\ \E s : cpc' = [cpc EXCEPT ![c] = s] /\ (s \in ReplyWaits => wrote[c] + 1 = NFields)
  BY DEF CWrite, Goto, LastWritten, mainVars, ReplyWaits
<1>6. \A e \in Clients : cpc'[e] \in ReplyWaits => wrote'[e] = NFields
  BY <1>1, <1>2, <1>5 DEF SentInv, CWrite, ReplyWaits
<1>7. ASSUME NEW i \in Slots, NEW j \in 1..Len(d1[i]), d1[i][j] \in Clients
      PROVE  j <= wrote'[d1[i][j]]
  <2>1. Len(d1[i]) \in Nat
    BY LenProperties DEF TypeInv, TypeOK
  <2>2. QED
    BY <1>3, <1>7, <2>1 DEF SentInv
<1>8. QED
  BY <1>4, <1>5, <1>6, <1>7 DEF SentInv

\* Main moves a field from FIFO_C_S to its slot.
LEMMA ReadSent ==
    ASSUME TypeInv, SentInv, ReadField
    PROVE  SentInv'
<1>1. /\ slot \in Slots /\ Len(d1[slot]) \in 0..3 /\ wrote' = wrote /\ cpc' = cpc
  BY ReadEffect DEF ReadField, clientVars
<1>2. \A p \in 1..Len(cs') : /\ p + SizeOf(Len(d1[slot]) + 1) \in 1..Len(cs)
                             /\ cs'[p] = cs[p + SizeOf(Len(d1[slot]) + 1)]
  BY ReadEffect
<1>3. PICK x \in Clients \cup {None} :
         /\ d1' = [d1 EXCEPT ![slot] = Append(d1[slot], x)]
         /\ x \in Clients => HoldsField(x, Len(d1[slot]) + 1)
  BY ReadEffect
<1>4. /\ Len(d1'[slot]) = Len(d1[slot]) + 1 /\ d1'[slot][Len(d1[slot]) + 1] = x
      /\ \A j \in 1..Len(d1[slot]) : d1'[slot][j] = d1[slot][j]
      /\ \A i \in Slots : i # slot => d1'[i] = d1[i]
  BY <1>1, <1>3, AppendedSlot
<1>5. x \in Clients => Len(d1[slot]) + 1 <= wrote[x]
  <2>1. SUFFICES ASSUME x \in Clients PROVE Len(d1[slot]) + 1 <= wrote[x]
    OBVIOUS
  <2>2. SizeOf(Len(d1[slot]) + 1) \in {1, 4} /\ Len(cs) \in Nat
    BY LenProperties DEF SizeOf, TypeInv, TypeOK
  <2>3. 1 \in 1..Len(cs) /\ cs[1] = <<x, Len(d1[slot]) + 1>>
    BY <1>3, <2>1, <2>2 DEF HoldsField
  <2>4. cs[1][2] <= wrote[cs[1][1]]
    BY <2>3 DEF SentInv
  <2>5. QED
    BY <2>3, <2>4
<1>6. ASSUME NEW i \in Slots, NEW j \in 1..Len(d1'[i]), d1'[i][j] \in Clients
      PROVE  j <= wrote[d1'[i][j]]
  <2>1. CASE i # slot
    BY <1>4, <1>6, <2>1 DEF SentInv
  <2>2. CASE i = slot /\ j = Len(d1[slot]) + 1
    BY <1>4, <1>5, <1>6, <2>2
  <2>3. CASE i = slot /\ j \in 1..Len(d1[slot])
    <3>1. d1[slot][j] \in Clients /\ d1'[i][j] = d1[slot][j]
      BY <1>4, <1>6, <2>3
    <3>2. j <= wrote[d1[slot][j]]
      BY <1>1, <2>3, <3>1 DEF SentInv
    <3>3. QED
      BY <3>1, <3>2
  <2>4. QED
    BY <1>1, <1>4, <2>1, <2>2, <2>3
<1>7. \A p \in 1..Len(cs') : cs'[p][2] <= wrote'[cs'[p][1]]
  BY <1>1, <1>2 DEF SentInv
<1>8. QED
  BY <1>1, <1>6, <1>7 DEF SentInv

LEMMA SentStep ==
    ASSUME TypeInv, SentInv, [Next]_vars
    PROVE  SentInv'
<1>1. cpc \in [Clients -> ClientStates]
  BY DEF TypeInv, TypeOK
<1>2. ASSUME NEW e \in Clients, Client(e) \/ CKill(e), ~CWrite(e) PROVE SentInv'
  <2>1. cs' \in {cs, <<>>} /\ d1' = d1 /\ wrote' = wrote
    BY <1>2, KeptOrEmpty
       DEF Client, CWait, COpenReq, CWriteBroken, CPost, COpenRes, CAwait1, CRead,
           CCloseRes, CAwait2, CKill, mainVars, fifoVars
  <2>2. \E s : cpc' = [cpc EXCEPT ![e] = s] /\ (s \in ReplyWaits => cpc[e] \in ReplyWaits)
    BY <1>2 DEF Client, CWait, COpenReq, CWriteBroken, CPost, COpenRes, CAwait1, CRead,
                CCloseRes, CAwait2, CKill, Goto, ReplyWaits
  <2>3. QED
    BY <1>1, <2>1, <2>2, SentKept
<1>3. CASE Main /\ ~ReadField
  <2>1. cs' \in {cs, <<>>} /\ d1' = d1 /\ wrote' = wrote
    BY <1>3, KeptOrEmpty
       DEF Main, Startup, OpenReq, Switch, Join, JoinUnset, Finish, ProcessEnds,
           clientVars, fifoVars
  <2>2. \A c \in Clients : cpc'[c] \in ReplyWaits => cpc[c] \in ReplyWaits
    <3>1. CASE OpenReq
      BY <1>1, <3>1 DEF OpenReq, ReplyWaits
    <3>2. CASE (Join \/ JoinUnset) /\ KillState(slot)
      <4>1. slot \in Slots
        BY <3>2, ConstantsAssumption DEF Join, JoinUnset, TypeInv, TypeOK, Slots
      <4>2. QED
        BY <3>2, <4>1, SignalType DEF ReplyWaits
    <3>3. CASE cpc' = cpc
      BY <3>3
    <3>4. QED
      BY <1>3, <3>1, <3>2, <3>3 DEF Main, Startup, Switch, Join, JoinUnset, Finish, clientVars
  <2>3. QED
    BY <2>1, <2>2, SentKept
<1>4. ASSUME NEW i \in Slots, Thread(i) PROVE SentInv'
  <2>1. cs' \in {cs, <<>>} /\ d1' = d1 /\ wrote' = wrote
    BY <1>4, KeptOrEmpty
       DEF Thread, TWait, TOpen, TAssign, TWrite, TWriteBroken, TClose, TNotify, TPost,
           ProcessEnds, mainVars, clientVars, fifoVars
  <2>2. \A c \in Clients : cpc'[c] \in ReplyWaits => cpc[c] \in ReplyWaits
    <3>1. CASE TOpen(i)
      BY <1>1, <3>1 DEF TOpen, ReplyWaits
    <3>2. CASE TNotify(i)
      BY <3>2, SignalType DEF TNotify, ReplyWaits
    <3>3. CASE cpc' = cpc
      BY <3>3
    <3>4. QED
      BY <1>4, <3>1, <3>2, <3>3
         DEF Thread, TWait, TAssign, TWrite, TWriteBroken, TClose, TPost, clientVars
  <2>3. QED
    BY <2>1, <2>2, SentKept
<1>5. CASE UNCHANGED vars
  BY <1>5, SentKept DEF vars, clientVars, mainVars, fifoVars
<1>6. QED
  BY <1>2, <1>3, <1>4, <1>5, WriteSent, ReadSent DEF Next

\* Some client other than c has written its whole request.
OtherComplete(c) == \E b \in Clients \ {c} : wrote[b] = NFields

Passed == {"assign", "write", "close", "notify", "post", "exited"}

\* A thread that is past its open of FIFO_S_C has met a client there, which stays
\* or ends of itself; and where a client writes when main has closed FIFO_C_S, or
\* has died, another has written its whole request.
MetInv ==
    kills = 0 =>
        /\ (\E i \in Slots : tpc[i] \in Passed) =>
              \E b \in Clients : cpc[b] \in StayStates \cup {"done"}
        /\ \A c \in Clients :
              (cpc[c] = "write" /\ ~CsHasReader) \/ cpc[c] = "dead" => OtherComplete(c)

\* A client learns of its result, or has its open interrupted, from its thread.
Told(c) == \E i \in Slots : tpc[i] \in {"post", "exited"} /\ d1[i][1] = c

Knows(c) == \/ flag1[c] \/ cpc[c] \in {"read", "closeRes", "await2", "done"}
            \/ cpc[c] = "dead" /\ wrote[c] = NFields

ToldInv ==
    kills = 0 /\ spc \notin {"done", "dead"} => \A c \in Clients : Knows(c) => Told(c)

\* The server dies between a client that has closed FIFO_S_C already and one that
\* has not opened it yet.
BrokenInv ==
    kills = 0 /\ spc = "dead" =>
        /\ scOpen = {}
        /\ \E b, c \in Clients : /\ cpc[b] \in {"await2", "done"}
                                 /\ cpc[c] \in {"post", "openRes", "openResWait"}

OthersInv == MetInv /\ ToldInv /\ BrokenInv

\* What a client's own step may do.
ClientEffect(c) ==
    /\ UNCHANGED <<kills, d1, scOpen>> /\ (spc' = spc \/ (spc = "openWait" /\ spc' = "read"))
    /\ \A e \in Clients : /\ wrote[e] = NFields => wrote'[e] = NFields
                          /\ flag1'[e] => flag1[e]
                          /\ e # c => cpc'[e] = cpc[e] /\ wrote'[e] = wrote[e]
    /\ \A i \in Slots : \/ tpc'[i] = tpc[i]
                        \/ tpc[i] = "openWait" /\ tpc'[i] = "assign" /\ cpc'[c] = "await1"
    /\ cpc[c] \in StayStates => cpc'[c] \in StayStates \cup {"done"}
    /\ cpc[c] \notin {"done", "dead", "openResWait"}
    /\ cpc'[c] \in {"read", "closeRes", "await2", "done"} =>
          flag1[c] \/ cpc[c] \in {"read", "closeRes", "await2"}
    /\ cpc'[c] = "write" => CsHasReader'
    /\ cpc'[c] = "dead" => cpc[c] = "write" /\ ~CsHasReader /\ wrote'[c] = wrote[c]
    /\ cpc[c] = "await2" => cpc'[c] = "done"
    /\ cpc[c] = "post" => cpc'[c] = "openRes"
    /\ cpc[c] = "openRes" /\ scOpen = {} => cpc'[c] = "openResWait"

LEMMA ClientDoes ==
    ASSUME TypeInv, ReplyInv, NEW c \in Clients, Client(c)
    PROVE  ClientEffect(c)
<1>1. /\ cpc \in [Clients -> ClientStates] /\ flag1 \in [Clients -> BOOLEAN]
      /\ wrote \in [Clients -> 0..NFields] /\ tpc \in [Slots -> ThreadStates]
  BY DEF TypeInv, TypeOK
<1> USE DEF ClientEffect, Goto, fifoVars, mainVars, StayStates
<1>2. CASE CWait(c)
  BY <1>1, <1>2 DEF CWait
<1>3. CASE COpenReq(c)
  BY <1>1, <1>3 DEF COpenReq, CsHasReader
<1>4. CASE CWrite(c)
  <2>1. /\ wrote' = [wrote EXCEPT ![c] = wrote[c] + 1] /\ wrote[c] < NFields /\ NFields = 4
        /\ \E s \in {"write", "post"} : cpc' = [cpc EXCEPT ![c] = s]
        /\ UNCHANGED <<kills, d1, scOpen, spc, flag1, tpc>> /\ cpc[c] = "write" /\ CsHasReader
    BY <1>4 DEF CWrite, TypeInv, FieldsWritten, NFields
  <2>2. \A e \in Clients : wrote[e] = NFields => wrote'[e] = NFields
    BY <1>1, <2>1
  <2>3. CsHasReader'
    BY <2>1 DEF CsHasReader
  <2>4. QED
    BY <1>1, <2>1, <2>2, <2>3
<1>5. CASE CWriteBroken(c)
  BY <1>1, <1>5 DEF CWriteBroken
<1>6. CASE CPost(c)
  BY <1>1, <1>6 DEF CPost
<1>7. CASE COpenRes(c)
  <2>1. \A i \in Slots : tpc[i] = "openWait" => scOpen # {}
    BY DEF ReplyInv
  <2>2. QED
    BY <1>1, <1>7, <2>1 DEF COpenRes
<1>8. CASE CAwait1(c)
  BY <1>1, <1>8 DEF CAwait1
<1>9. CASE CRead(c)
  BY <1>1, <1>9 DEF CRead
<1>10. CASE CCloseRes(c)
  BY <1>1, <1>10 DEF CCloseRes
<1>11. CASE CAwait2(c)
  BY <1>1, <1>11 DEF CAwait2
<1>12. QED
  BY <1>2, <1>3, <1>4, <1>5, <1>6, <1>7, <1>8, <1>9, <1>10, <1>11 DEF Client

LEMMA ClientOthers ==
    ASSUME TypeInv, SentInv, OthersInv, ResultInv, NEW c \in Clients, ClientEffect(c), kills = 0
    PROVE  OthersInv'
<1> USE DEF ClientEffect
<1>1. MetInv'
  <2>1. ASSUME NEW i \in Slots, tpc'[i] \in Passed
        PROVE  \E b \in Clients : cpc'[b] \in StayStates \cup {"done"}
    <3>1. CASE tpc'[i] = tpc[i]
      <4>1. PICK b \in Clients : cpc[b] \in StayStates \cup {"done"}
        BY <2>1, <3>1 DEF OthersInv, MetInv
      <4>2. QED
        BY <4>1
    <3>2. CASE cpc'[c] = "await1"
      BY <3>2 DEF StayStates
    <3>3. QED
      BY <3>1, <3>2
  <2>2. ASSUME NEW e \in Clients, OtherComplete(e) PROVE OtherComplete(e)'
    BY <2>2 DEF OtherComplete
  <2>3. ASSUME NEW e \in Clients, (cpc'[e] = "write" /\ ~CsHasReader') \/ cpc'[e] = "dead"
        PROVE  OtherComplete(e)
    <3>1. CASE e = c
      BY <2>3, <3>1 DEF OthersInv, MetInv
    <3>2. CASE e # c
      <4>1. cpc[e] = cpc'[e]
        BY <3>2
      <4>2. CsHasReader => CsHasReader'
        BY DEF CsHasReader
      <4>3. QED
        BY <2>3, <4>1, <4>2 DEF OthersInv, MetInv
    <3>3. QED
      BY <3>1, <3>2
  <2>4. QED
    BY <2>1, <2>2, <2>3 DEF MetInv
<1>2. ToldInv'
  <2>1. SUFFICES ASSUME spc' \notin {"done", "dead"}, NEW e \in Clients, Knows(e)' PROVE Told(e)'
    BY DEF ToldInv
  <2>2. Knows(e)
    <3>1. CASE e = c
      <4>1. cpc'[c] = "dead" => wrote'[c] # NFields
        BY DEF TypeInv, TypeOK, FieldsWritten, NFields
      <4>2. QED
        BY <2>1, <3>1, <4>1 DEF Knows
    <3>2. CASE e # c
      BY <2>1, <3>2 DEF Knows
    <3>3. QED
      BY <3>1, <3>2
  <2>3. spc \notin {"done", "dead"}
    BY <2>1
  <2>4. PICK i \in Slots : tpc[i] \in {"post", "exited"} /\ d1[i][1] = e
    BY <2>2, <2>3 DEF OthersInv, ToldInv, Told
  <2>5. tpc'[i] = tpc[i] /\ d1'[i][1] = e
    BY <2>4
  <2>6. QED
    BY <2>4, <2>5 DEF Told
<1>3. BrokenInv'
  <2>1. SUFFICES ASSUME spc' = "dead"
                 PROVE  /\ scOpen' = {}
                        /\ \E b, e \in Clients : /\ cpc'[b] \in {"await2", "done"}
                                                 /\ cpc'[e] \in {"post", "openRes", "openResWait"}
    BY DEF BrokenInv
  <2>2. PICK b, e \in Clients : /\ scOpen = {} /\ cpc[b] \in {"await2", "done"}
                                /\ cpc[e] \in {"post", "openRes", "openResWait"}
    BY <2>1 DEF OthersInv, BrokenInv
  <2>3. cpc'[b] \in {"await2", "done"} /\ cpc'[e] \in {"post", "openRes", "openResWait"}
    BY <2>2
  <2>4. QED
    BY <2>2, <2>3
<1>4. QED
  BY <1>1, <1>2, <1>3 DEF OthersInv

\* Each slot that has its request has another client's.
LEMMA OwnSlot ==
    ASSUME TypeInv, ResultInv, RecordInv, kills = 0, NEW i \in Slots, NEW j \in Slots,
           Len(d1[i]) = NFields, Len(d1[j]) = NFields, d1[i][1] = d1[j][1]
    PROVE  i = j
<1>1. d1[i][1] \in Clients /\ d1[i][2] = d1[i][1] /\ d1[j][2] = d1[j][1]
  BY SlotGiven DEF NFields
<1>2. HasOp1(i, d1[i][1]) /\ HasOp1(j, d1[i][1])
  BY <1>1 DEF HasOp1, NFields
<1>3. QED
  BY <1>1, <1>2 DEF ResultInv, Op1Once

\* Its client has written the whole of it.
LEMMA SlotSent ==
    ASSUME TypeInv, RecordInv, SentInv, kills = 0, NEW i \in Slots, Len(d1[i]) = NFields
    PROVE  d1[i][1] \in Clients /\ wrote[d1[i][1]] = NFields
<1>1. d1[i][1] \in Clients /\ d1[i][4] = d1[i][1]
  BY SlotGiven DEF NFields
<1>2. 4 <= wrote[d1[i][1]]
  BY <1>1 DEF SentInv, NFields
<1>3. wrote[d1[i][1]] \in 0..4
  BY <1>1 DEF TypeInv, TypeOK, NFields
<1>4. QED
  BY <1>1, <1>2, <1>3 DEF NFields

\* A step of the server by which no client goes on but in its opens, and nobody
\* learns anything.
LEMMA ServerKept ==
    ASSUME OthersInv, kills = 0, UNCHANGED <<wrote, flag1>>, spc # "dead", spc' # "dead",
           spc' # "done" => spc # "done",
           \A c \in Clients : \/ cpc'[c] = cpc[c]
                              \/ cpc[c] = "openReqWait" /\ cpc'[c] = "write" /\ CsHasReader'
                              \/ cpc[c] = "openResWait" /\ cpc'[c] = "await1",
           \A c \in Clients : cpc[c] = "write" /\ CsHasReader => CsHasReader' \/ OtherComplete(c),
           \A i \in Slots : tpc'[i] \in Passed =>
              tpc[i] \in Passed \/ \E b \in Clients : cpc'[b] \in StayStates,
           spc' # "done" => \A i \in Slots : tpc[i] \in {"post", "exited"} =>
              tpc'[i] \in {"post", "exited"} /\ d1'[i][1] = d1[i][1]
    PROVE  OthersInv'
<1>1. \A c \in Clients : OtherComplete(c)' <=> OtherComplete(c)
  BY DEF OtherComplete
<1>2. MetInv'
  <2>1. ASSUME NEW i \in Slots, tpc'[i] \in Passed
        PROVE  \E b \in Clients : cpc'[b] \in StayStates \cup {"done"}
    <3>1. CASE tpc[i] \in Passed
      <4>1. PICK b \in Clients : cpc[b] \in StayStates \cup {"done"}
        BY <3>1 DEF OthersInv, MetInv
      <4>2. cpc'[b] = cpc[b]
        BY <4>1 DEF StayStates
      <4>3. QED
        BY <4>1, <4>2
    <3>2. QED
      BY <2>1, <3>1
  <2>2. ASSUME NEW e \in Clients, (cpc'[e] = "write" /\ ~CsHasReader') \/ cpc'[e] = "dead"
        PROVE  OtherComplete(e)
    <3>1. cpc'[e] = cpc[e]
      BY <2>2
    <3>2. QED
      BY <2>2, <3>1 DEF OthersInv, MetInv
  <2>3. QED
    BY <1>1, <2>1, <2>2 DEF MetInv
<1>3. ToldInv'
  <2>1. SUFFICES ASSUME spc' \notin {"done", "dead"}, NEW e \in Clients, Knows(e)' PROVE Told(e)'
    BY DEF ToldInv
  <2>2. Knows(e)
    BY <2>1 DEF Knows
  <2>3. PICK i \in Slots : tpc[i] \in {"post", "exited"} /\ d1[i][1] = e
    BY <2>1, <2>2 DEF OthersInv, ToldInv, Told
  <2>4. QED
    BY <2>1, <2>3 DEF Told
<1>4. BrokenInv'
  BY DEF BrokenInv
<1>5. QED
  BY <1>2, <1>3, <1>4 DEF OthersInv

\* The signal of a thread that is past its open, to its client.
LEMMA SignalOthers ==
    ASSUME TypeInv, SentInv, RecordInv, OthersInv, kills = 0, spc \notin {"done", "dead"}, spc' = spc,
           UNCHANGED <<kills, wrote, d1>>, NEW i \in Slots, tpc[i] \in Passed, KillState(i),
           flag1' \in {flag1, KillFlag(i, flag1)}, tpc'[i] \in {"post", "exited"},
           \A j \in Slots : j # i => tpc'[j] = tpc[j]
    PROVE  OthersInv'
<1>1. \A c \in Clients : \/ cpc'[c] = cpc[c]
                         \/ cpc[c] = "openResWait" /\ cpc'[c] = "dead"
                         \/ cpc[c] = "read" /\ cpc'[c] = "closeRes"
  BY SignalType
<1>2. \A c \in Clients : c # d1[i][1] => cpc'[c] = cpc[c] /\ (flag1'[c] => flag1[c])
  BY DEF KillState, KillFlag, Goto, TypeInv, TypeOK
<1>3. PICK b \in Clients : cpc[b] \in StayStates \cup {"done"}
  BY DEF OthersInv, MetInv, Passed
<1>4. cpc'[b] \in StayStates \cup {"done"}
  BY <1>1, <1>3 DEF StayStates
<1>5. wrote[b] = NFields
  BY <1>3 DEF SentInv, StayStates, ReplyWaits
<1>6. \A c \in Clients : OtherComplete(c)' <=> OtherComplete(c)
  BY DEF OtherComplete
<1>7. MetInv'
  <2>1. ASSUME NEW e \in Clients, (cpc'[e] = "write" /\ ~CsHasReader') \/ cpc'[e] = "dead"
        PROVE  OtherComplete(e)
    <3>1. CASE cpc'[e] = cpc[e]
      BY <2>1, <3>1 DEF OthersInv, MetInv, CsHasReader
    <3>2. CASE cpc[e] = "openResWait"
      <4>1. b # e
        BY <1>3, <3>2 DEF StayStates
      <4>2. QED
        BY <1>5, <4>1 DEF OtherComplete
    <3>3. QED
      BY <1>1, <2>1, <3>1, <3>2
  <2>2. QED
    BY <1>4, <1>6, <2>1 DEF MetInv
<1>8. ToldInv'
  <2>1. SUFFICES ASSUME NEW e \in Clients, Knows(e)' PROVE Told(e)'
    BY DEF ToldInv
  <2>2. CASE e = d1[i][1]
    BY <2>2 DEF Told
  <2>3. CASE e # d1[i][1]
    <3>1. Knows(e)
      BY <1>2, <2>1, <2>3 DEF Knows
    <3>2. PICK j \in Slots : tpc[j] \in {"post", "exited"} /\ d1[j][1] = e
      BY <3>1 DEF OthersInv, ToldInv, Told
    <3>3. tpc'[j] \in {"post", "exited"} /\ d1'[j][1] = e
      BY <3>2
    <3>4. QED
      BY <3>3 DEF Told
  <2>4. QED
    BY <2>2, <2>3
<1>9. BrokenInv'
  BY DEF BrokenInv
<1>10. QED
  BY <1>7, <1>8, <1>9 DEF OthersInv

LEMMA MainOthers ==
    ASSUME TypeInv, HeldInv, RecordInv, JoinInv, SentInv, OthersInv, kills = 0, Main
    PROVE  OthersInv'
<1>1. /\ cpc \in [Clients -> ClientStates] /\ tpc \in [Slots -> ThreadStates]
      /\ d1 \in [Slots -> Seq(Clients \cup {None})] /\ slot \in Nat
  BY DEF TypeInv, TypeOK
<1>2. CASE Startup
  BY <1>2, ServerKept DEF Startup, clientVars, mainVars, CsHasReader
<1>3. CASE OpenReq
  <2>1. CsHasReader'
    BY <1>3 DEF OpenReq, CsHasReader
  <2>2. \A c \in Clients : cpc'[c] = cpc[c] \/ (cpc[c] = "openReqWait" /\ cpc'[c] = "write")
    BY <1>1, <1>3 DEF OpenReq
  <2>3. spc = "open" /\ spc' \in {"read", "openWait"} /\ UNCHANGED <<wrote, flag1, tpc, d1>>
    BY <1>3 DEF OpenReq
  <2>4. \A i \in Slots : tpc'[i] \in Passed => tpc[i] \in Passed
    BY <2>3
  <2>5. QED
    BY <2>1, <2>2, <2>3, <2>4, ServerKept
<1>4. CASE ReadField
  <2>1. /\ spc = "read" /\ spc' \in {"read", "switch"} /\ UNCHANGED <<wrote, flag1, tpc, cpc>>
        /\ slot \in Slots
    BY <1>4 DEF ReadField, clientVars, TypeInv, SlotsFilled, Taking
  <2>2. \A i \in Slots : i # slot => d1'[i] = d1[i]
    BY <1>1, <1>4, <2>1 DEF ReadField
  <2>3. tpc[slot] = "none"
    BY <1>1, <2>1 DEF HeldInv, Taking
  <2>4. \A i \in Slots : tpc[i] \in {"post", "exited"} => d1'[i][1] = d1[i][1]
    BY <2>2, <2>3
  <2>5. CsHasReader'
    BY <2>1 DEF CsHasReader
  <2>6. QED
    BY <2>1, <2>4, <2>5, ServerKept
<1>5. CASE Switch
  <2>1. /\ spc = "switch" /\ spc' \in {"open", "join"} /\ UNCHANGED <<wrote, flag1, cpc, d1>>
        /\ slot \in Slots /\ Len(d1[slot]) = NFields
    BY <1>5 DEF Switch, clientVars, TypeInv, SlotsFilled, Taking
  <2>2. \A c \in Clients : cpc[c] = "write" => OtherComplete(c)
    <3>1. d1[slot][1] \in Clients /\ wrote[d1[slot][1]] = NFields
      BY <2>1, SlotSent
    <3>2. \A c \in Clients : cpc[c] = "write" => wrote[c] # NFields
      BY DEF TypeInv, TypeOK, FieldsWritten, NFields
    <3>3. QED
      BY <3>1, <3>2 DEF OtherComplete
  <2>3. \A i \in Slots : tpc'[i] = tpc[i] \/ (i = slot /\ tpc'[i] = "wait")
    BY <1>1, <1>5 DEF Switch
  <2>4. tpc[slot] \notin {"post", "exited"}
    BY <1>1, <2>1 DEF HeldInv, Taking
  <2>5. QED
    BY <2>1, <2>2, <2>3, <2>4, ServerKept DEF Passed
<1>6. CASE Join
  <2>1. /\ spc = "join" /\ spc' = "join" /\ UNCHANGED <<kills, wrote, d1, flag1, tpc>>
        /\ tpc[slot] = "exited" /\ KillState(slot)
    BY <1>6 DEF Join
  <2>2. slot \in Slots
    BY <1>6, ConstantsAssumption DEF Join, TypeInv, TypeOK, Slots
  <2>3. QED
    BY <2>1, <2>2, SignalOthers DEF Passed
<1>7. ~JoinUnset
  <2>1. SUFFICES ASSUME JoinUnset PROVE FALSE
    OBVIOUS
  <2>2. spc = "join" /\ slot \in Slots /\ tpc[slot] = "none"
    BY <2>1, ConstantsAssumption DEF JoinUnset, TypeInv, TypeOK, Slots
  <2>3. QED
    BY <2>2 DEF JoinInv
<1>8. CASE Finish
  <2>1. /\ spc = "join" /\ spc' = "done" /\ UNCHANGED <<wrote, flag1, cpc>>
        /\ tpc' = [i \in Slots |-> "none"]
    BY <1>8 DEF Finish, ProcessEnds, clientVars
  <2>2. ~CsHasReader /\ ~CsHasReader' /\ \A i \in Slots : tpc'[i] \notin Passed
    BY <2>1 DEF CsHasReader, Passed
  <2>3. QED
    BY <2>1, <2>2, ServerKept
<1>9. QED
  BY <1>2, <1>3, <1>4, <1>5, <1>6, <1>7, <1>8 DEF Main

\* A thread dies of SIGPIPE when the client it has met has closed FIFO_S_C, and
\* its own, which it has not told yet, has not opened it.
LEMMA ThreadOthers ==
    ASSUME TypeInv, RecordInv, ResultInv, SentInv, OthersInv, kills = 0, NEW i \in Slots, Thread(i)
    PROVE  OthersInv'
<1>1. /\ cpc \in [Clients -> ClientStates] /\ tpc \in [Slots -> ThreadStates]
  BY DEF TypeInv, TypeOK
<1>2. tpc[i] # "none" /\ spc \notin {"done", "dead"} /\ Len(d1[i]) = NFields
  <2>1. tpc[i] # "none"
    BY DEF Thread, TWait, TOpen, TAssign, TWrite, TWriteBroken, TClose, TNotify, TPost
  <2>2. QED
    BY <2>1 DEF ResultInv, TypeInv, SlotsFilled
<1>3. CASE TWriteBroken(i)
  <2> DEFINE c == d1[i][1]
  <2>1. /\ tpc[i] = "write" /\ ScReaders = {} /\ spc' = "dead" /\ scOpen' = {}
        /\ tpc' = [j \in Slots |-> "none"] /\ UNCHANGED <<wrote, flag1, cpc, kills>>
    BY <1>3 DEF TWriteBroken, ProcessEnds, clientVars
  <2>2. c \in Clients /\ wrote[c] = NFields
    BY <1>2, SlotSent
  <2>3. \A b \in Clients : cpc[b] \notin {"openResWait", "await1", "read", "closeRes"}
    BY <2>1 DEF ScReaders, ResFdStates
  <2>4. PICK b \in Clients : cpc[b] \in StayStates \cup {"done"}
    BY <2>1 DEF OthersInv, MetInv, Passed
  <2>5. cpc[b] \in {"await2", "done"}
    BY <2>3, <2>4 DEF StayStates
  <2>6. cpc[c] \in {"post", "openRes"}
    <3>1. ~Told(c)
      <4>1. SUFFICES ASSUME NEW j \in Slots, tpc[j] \in {"post", "exited"}, d1[j][1] = c PROVE FALSE
        BY DEF Told
      <4>2. Len(d1[j]) = NFields
        BY <4>1 DEF TypeInv, SlotsFilled
      <4>3. j = i
        BY <1>2, <4>1, <4>2, OwnSlot
      <4>4. QED
        BY <2>1, <4>1, <4>3
    <3>2. cpc[c] \notin {"read", "closeRes", "await2", "done", "dead"}
      BY <1>2, <2>2, <3>1 DEF OthersInv, ToldInv, Knows
    <3>3. cpc[c] \notin {"start", "openReq", "openReqWait", "write"}
      BY <2>2 DEF TypeInv, FieldsWritten, NFields
    <3>4. cpc[c] \in ClientStates
      BY <1>1, <2>2
    <3>5. QED
      BY <2>2, <2>3, <3>2, <3>3, <3>4 DEF ClientStates, ReqFdStates
  <2>7. BrokenInv'
    BY <2>1, <2>2, <2>5, <2>6 DEF BrokenInv
  <2>8. ToldInv'
    BY <2>1 DEF ToldInv
  <2>9. MetInv'
    <3>1. ASSUME NEW e \in Clients, cpc[e] = "write" \/ cpc[e] = "dead" PROVE OtherComplete(e)
      <4>1. CASE cpc[e] = "dead"
        BY <4>1 DEF OthersInv, MetInv
      <4>2. CASE cpc[e] = "write"
        <5>1. e # c
          BY <2>6, <4>2
        <5>2. QED
          BY <2>2, <5>1 DEF OtherComplete
      <4>3. QED
        BY <3>1, <4>1, <4>2
    <3>2. \A e \in Clients : OtherComplete(e)' <=> OtherComplete(e)
      BY <2>1 DEF OtherComplete
    <3>3. \A j \in Slots : tpc'[j] \notin Passed
      BY <2>1 DEF Passed
    <3>4. QED
      BY <2>1, <3>1, <3>2, <3>3 DEF MetInv
  <2>10. QED
    BY <2>7, <2>8, <2>9 DEF OthersInv
<1>4. CASE TNotify(i)
  <2>1. /\ tpc[i] = "notify" /\ KillState(i) /\ flag1' = KillFlag(i, flag1)
        /\ UNCHANGED <<kills, wrote, d1, spc>> /\ tpc' = [tpc EXCEPT ![i] = "post"]
    BY <1>4 DEF TNotify, ThreadGoto, mainVars
  <2>2. tpc'[i] = "post" /\ \A j \in Slots : j # i => tpc'[j] = tpc[j]
    BY <1>1, <2>1
  <2>3. QED
    BY <1>2, <2>1, <2>2, SignalOthers DEF Passed
<1>5. CASE TOpen(i)
  <2>1. /\ UNCHANGED <<kills, wrote, d1, spc, flag1>> /\ tpc[i] = "open"
        /\ tpc' = [tpc EXCEPT ![i] = IF ScReaders # {} THEN "assign" ELSE "openWait"]
        /\ cpc' = [c \in Clients |-> IF cpc[c] = "openResWait" THEN "await1" ELSE cpc[c]]
    BY <1>5 DEF TOpen, ThreadGoto, mainVars
  <2>2. ASSUME ScReaders # {} PROVE \E b \in Clients : cpc'[b] \in StayStates
    BY <2>1, <2>2 DEF ScReaders, ResFdStates, StayStates
  <2>3. \A j \in Slots : tpc'[j] \in Passed => tpc[j] \in Passed \/ \E b \in Clients : cpc'[b] \in StayStates
    BY <1>1, <2>1, <2>2 DEF Passed
  <2>4. \A j \in Slots : tpc[j] \in {"post", "exited"} => tpc'[j] = tpc[j]
    BY <1>1, <2>1
  <2>5. CsHasReader' <=> CsHasReader
    BY <2>1 DEF CsHasReader
  <2>6. \A c \in Clients : cpc'[c] = cpc[c] \/ (cpc[c] = "openResWait" /\ cpc'[c] = "await1")
    BY <2>1
  <2>7. QED
    BY <1>2, <2>1, <2>3, <2>4, <2>5, <2>6, ServerKept
<1>6. CASE TWait(i) \/ TAssign(i) \/ TWrite(i) \/ TClose(i) \/ TPost(i)
  <2>1. UNCHANGED <<kills, wrote, d1, spc, flag1, cpc>>
    BY <1>6 DEF TWait, TAssign, TWrite, TClose, TPost, mainVars, clientVars
  <2>2. \E s : /\ tpc' = [tpc EXCEPT ![i] = s]
               /\ s \in Passed => tpc[i] \in Passed
               /\ tpc[i] \in {"post", "exited"} => s \in {"post", "exited"}
    BY <1>6 DEF TWait, TAssign, TWrite, TClose, TPost, ThreadGoto, Passed
  <2>3. \A j \in Slots : /\ tpc'[j] \in Passed => tpc[j] \in Passed
                         /\ tpc[j] \in {"post", "exited"} => tpc'[j] \in {"post", "exited"}
    BY <1>1, <2>2
  <2>4. CsHasReader' <=> CsHasReader
    BY <2>1 DEF CsHasReader
  <2>5. QED
    BY <1>2, <2>1, <2>3, <2>4, ServerKept
<1>7. QED
  BY <1>3, <1>4, <1>5, <1>6 DEF Thread

LEMMA OthersStep ==
    ASSUME TypeInv, ReplyInv, HeldInv, RecordInv, ResultInv, JoinInv, SentInv, OthersInv, [Next]_vars
    PROVE  OthersInv'
<1>1. CASE kills' # 0
  BY <1>1 DEF OthersInv, MetInv, ToldInv, BrokenInv
<1>2. CASE kills' = 0
  <2>1. kills = 0
    <3>1. kills \in Nat
      BY ConstantsAssumption DEF TypeInv, TypeOK
    <3>2. ASSUME NEW c \in Clients, Client(c) \/ CKill(c) PROVE kills' \in {kills, kills + 1}
      BY <3>2 DEF Client, CWait, COpenReq, CWrite, CWriteBroken, CPost, COpenRes, CAwait1, CRead,
                  CCloseRes, CAwait2, CKill
    <3>3. CASE Main
      BY <1>2, <3>3 DEF Main, Startup, OpenReq, ReadField, Switch, Join, JoinUnset, Finish
    <3>4. ASSUME NEW i \in Slots, Thread(i) PROVE kills' = kills
      BY <3>4 DEF Thread, TWait, TOpen, TAssign, TWrite, TWriteBroken, TClose, TNotify, TPost
    <3>5. CASE UNCHANGED vars
      BY <1>2, <3>5 DEF vars
    <3>6. QED
      BY <1>2, <3>1, <3>2, <3>3, <3>4, <3>5 DEF Next
  <2>2. CASE UNCHANGED vars
    BY <2>2 DEF vars, fifoVars, clientVars, mainVars, OthersInv, MetInv, ToldInv, BrokenInv,
                OtherComplete, Knows, Told, CsHasReader
  <2>3. ASSUME NEW c \in Clients, Client(c) \/ CKill(c) PROVE OthersInv'
    <3>1. ~CKill(c)
      BY <1>2, <2>1 DEF CKill
    <3>2. QED
      BY <2>1, <2>3, <3>1, ClientDoes, ClientOthers
  <2>4. QED
    BY <2>1, <2>2, <2>3, MainOthers, ThreadOthers DEF Next
<1>3. QED
  BY <1>1, <1>2

\* While nobody is killed a signal ends a process only because of two clients at
\* once, for any number of clients and threads: SIGPIPE ends the server between
\* one that has its result and has closed FIFO_S_C and another that has not opened
\* it (server.c:238-244), and a client is ended only when another has brought its
\* whole request (client1.c:80-86, 93), so never one that is alone.
THEOREM OnlyOthersBreak == Spec => []BrokenByOthers
<1> DEFINE Inv == /\ TypeInv /\ ReqInv /\ ReplyInv /\ HeldInv /\ ReleaseInv
                  /\ ResultInv /\ RecordInv
           Inv2 == JoinInv /\ SentInv /\ OthersInv
<1>1. Init => Inv /\ Inv2
  <2>1. SUFFICES ASSUME Init PROVE JoinInv /\ SentInv /\ OthersInv
    BY StateInit
  <2>2. /\ cs = <<>> /\ spc = "startup" /\ slot = 1 /\ count = 0
        /\ \A i \in Slots : tpc[i] = "none" /\ d1[i] = <<>>
        /\ \A c \in Clients : cpc[c] = "start" /\ flag1[c] = FALSE
    BY <2>1 DEF Init
  <2>3. JoinInv
    BY <2>2 DEF JoinInv, Slots
  <2>4. SentInv
    BY <2>2 DEF SentInv, ReplyWaits
  <2>5. OthersInv
    BY <2>2 DEF OthersInv, MetInv, ToldInv, BrokenInv, Passed, Knows
  <2>6. QED
    BY <2>3, <2>4, <2>5
<1>2. Inv /\ [Next]_vars => Inv'
  BY TypeStep, SectionsStep, HeldStep, ReleaseStep, ResultStep, RecordStep
<1>3. Inv /\ Inv2 /\ [Next]_vars => Inv2'
  BY JoinStep, SentStep, OthersStep
<1>4. Inv2 => BrokenByOthers
  BY DEF OthersInv, MetInv, BrokenInv, OtherComplete, BrokenByOthers
<1>5. QED
  BY <1>1, <1>2, <1>3, <1>4, PTL DEF Spec
=============================================================================
