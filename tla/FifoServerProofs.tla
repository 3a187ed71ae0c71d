--------------------------- MODULE FifoServerProofs ---------------------------
(***************************************************************************)
(* Proofs about FifoServer, for any number of clients, any FIFOs that an   *)
(* earlier run may have left and any number of processes terminated: which *)
(* FIFOs each process has open at each of its calls, who is at the other   *)
(* side, and what is in them.                                              *)
(***************************************************************************)
EXTENDS FifoServer, PipesProofs, TLAPS, SequenceTheorems

-----------------------------------------------------------------------------
(* The invariant.                                                          *)

Places == Calls \X (Kinds \cup {"none"})

Finished == {"gone", "broken", "killed"}

ServerPcs == {"make", "open", "wait"} \X Kinds
                \cup {"read"} \X {"ro", "cr"} \cup {"write"} \X {"co", "rr"}
                \cup {"done", "broken", "killed"} \X {"none"}
ReqPcs == {"open", "wait"} \X {"ro", "rr"} \cup {<<"write", "ro">>, <<"read", "rr">>}
                \cup Finished \X {"none"}
CalcPcs == {"open", "wait"} \X {"co", "cr"} \cup {<<"read", "co">>, <<"write", "cr">>}
                \cup Finished \X {"none"}

PcInv ==
    /\ pc[Server] \in ServerPcs
    /\ \A k \in Req : pc[ReqP(k)] \in ReqPcs /\ pc[CalcP(k)] \in CalcPcs

\* A FIFO holds nothing, or what has been written to it, in whole.
Messages(f) == IF f[1] = "ro" THEN {Data(f[2])}
               ELSE IF f[1] = "co" THEN [1..3 -> Words] ELSE [1..1 -> Words]
ContentsInv == \A f \in Fifos : fifo[f] \in {<<>>} \cup Messages(f)

TypeInv == TypeOK /\ PcInv /\ ContentsInv

Writer(f) == IF f[1] \in {"co", "rr"} THEN Server ELSE Client(f)
Reader(f) == IF f[1] \in {"co", "rr"} THEN Client(f) ELSE Server

\* p waits in its open of f, or has come to the read or write that follows it.
In(p, f) == pc[p][1] \in {"wait", "read", "write"} /\ Fifo(p) = f

\* p has still to open f, from the place it has come to in a round.
OpensFrom(p, f, place, round) ==
    IF p = Server
    THEN /\ place[2] \in Kinds
         /\ \/ Turn(<<place[2], round>>) < Turn(f)
            \/ <<place[2], round>> = f /\ place[1] \in {"make", "open"}
    ELSE \/ place = <<"open", f[1]>>
         \/ f[1] \in {"rr", "cr"} /\ place[2] \in {"ro", "co"}
Ahead(p, f) == OpensFrom(p, f, pc[p], i)

\* Who has f open, and whether the opens of f have met.
SideInv(p, f) ==
    /\ Ahead(p, f) => f \notin met
    /\ In(p, f) => <<p, f>> \in ends /\ (Has(p, "wait") \/ f \in met)
    /\ <<p, f>> \in ends => f \in met \/ (In(p, f) /\ Has(p, "wait"))

\* Once they have met, the reader stays until the writer has written.
PairInv(f) ==
    /\ f \in met /\ In(Writer(f), f) => In(Reader(f), f) \/ Has(Reader(f), "killed")
    /\ Ahead(Writer(f), f) \/ In(Writer(f), f) => fifo[f] = <<>>
    /\ pc[Server][2] \in Kinds /\ Turn(f) < Turn(Fifo(Server)) => f \in met
    /\ \A g \in Fifos : g \in met /\ Turn(f) < Turn(g) => f \in met

OpenInv == \A f \in Fifos : SideInv(Server, f) /\ SideInv(Client(f), f) /\ PairInv(f)

-----------------------------------------------------------------------------
(* Where a request has got to.                                             *)

\* The server has read from or written to f, or has ended.
Past(f) == f \in met /\ Fifo(Server) # f

RequestInv(k) ==
    /\ Past(<<"ro", k>>) /\ ~Has(ReqP(k), "killed") => d[k] = Data(k)
    /\ ~In(ReqP(k), <<"ro", k>>) /\ ~Has(ReqP(k), "killed") /\ <<"ro", k>> \in met
          => fifo[<<"ro", k>>] = Data(k) \/ Past(<<"ro", k>>)

CalcInv(k) ==
    /\ Past(<<"co", k>>) /\ ~Has(CalcP(k), "killed")
          => IF In(CalcP(k), <<"co", k>>) THEN fifo[<<"co", k>>] = d[k] ELSE b[k] = d[k]
    /\ ~In(CalcP(k), <<"cr", k>>) /\ ~Has(CalcP(k), "killed") /\ <<"cr", k>> \in met
          => fifo[<<"cr", k>>] = <<Computed(b[k])>> \/ Past(<<"cr", k>>)
    /\ Fifo(Server) = <<"rr", k>> /\ ~Has(CalcP(k), "killed") => res = <<Computed(d[k])>>

ResultInv(k) ==
    Past(<<"rr", k>>) /\ ~Has(CalcP(k), "killed") /\ ~Has(ReqP(k), "killed")
       => IF In(ReqP(k), <<"rr", k>>)
          THEN fifo[<<"rr", k>>] = <<Computed(d[k])>> ELSE got[k] = <<Computed(d[k])>>

ChainInv == ~Has(Server, "killed") => \A k \in Req : RequestInv(k) /\ CalcInv(k) /\ ResultInv(k)

-----------------------------------------------------------------------------
(* Processes and FIFOs.                                                    *)

LEMMA ProcFacts ==
    /\ \A p \in Procs : p = Server \/ \E k \in Req : p = ReqP(k) \/ p = CalcP(k)
    /\ \A k \in Req : /\ ReqP(k) \in Procs /\ CalcP(k) \in Procs
                      /\ ReqP(k)[2] = k /\ CalcP(k)[2] = k
    /\ \A k, j \in Req : ReqP(k) = ReqP(j) <=> k = j
    /\ \A k, j \in Req : CalcP(k) = CalcP(j) <=> k = j
    /\ \A k, j \in Req : ReqP(k) # CalcP(j) /\ ReqP(k) # Server /\ CalcP(k) # Server
    /\ Server \in Procs
BY DEF Procs, Clients, ReqP, CalcP, Server

LEMMA ClientFacts ==
    ASSUME NEW f \in Fifos
    PROVE  /\ f[1] \in Kinds /\ f[2] \in Req /\ f = <<f[1], f[2]>>
           /\ Client(f) \in Procs \ {Server} /\ Client(f)[2] = f[2]
           /\ Client(f) = IF f[1] \in {"ro", "rr"} THEN ReqP(f[2]) ELSE CalcP(f[2])
BY DEF Fifos, Kinds, Client, Procs, Clients, ReqP, CalcP, Server

\* The server opens the FIFOs one after the other.
LEMMA TurnFacts ==
    ASSUME NEW f \in Fifos, NEW g \in Fifos
    PROVE  /\ Turn(f) \in Int
           /\ Turn(f) = Turn(g) => f = g
<1>1. N \in Nat /\ f[2] \in 1..N /\ g[2] \in 1..N
  BY ClientFacts, ConstantsAssumption DEF Req
<1>2. f[1] \in {"ro", "rr", "co", "cr"} /\ g[1] \in {"ro", "rr", "co", "cr"}
  BY ClientFacts DEF Kinds
<1>3. f = <<f[1], f[2]>> /\ g = <<g[1], g[2]>>
  BY ClientFacts
<1>4. Turn(f) \in Int
  BY <1>1, <1>2 DEF Turn
<1>5. Turn(f) = Turn(g) => f[1] = g[1] /\ f[2] = g[2]
  BY <1>1, <1>2 DEF Turn
<1>6. QED
  BY <1>3, <1>4, <1>5

LEMMA FifoOf ==
    /\ Fifo(Server) = <<pc[Server][2], i>>
    /\ \A k \in Req : /\ Fifo(ReqP(k)) = <<pc[ReqP(k)][2], k>>
                      /\ Fifo(CalcP(k)) = <<pc[CalcP(k)][2], k>>
                      /\ <<"ro", k>> \in Fifos /\ <<"rr", k>> \in Fifos
                      /\ <<"co", k>> \in Fifos /\ <<"cr", k>> \in Fifos
<1>1. \A k \in Req : /\ <<"ro", k>> \in Fifos /\ <<"rr", k>> \in Fifos
                     /\ <<"co", k>> \in Fifos /\ <<"cr", k>> \in Fifos
  BY DEF Fifos, Kinds
<1>2. QED
  BY <1>1, ProcFacts DEF Fifo

LEMMA KindsFact == "ro" \in Kinds /\ "rr" \in Kinds /\ "co" \in Kinds /\ "cr" \in Kinds
BY DEF Kinds

LEMMA PlacesType == ServerPcs \cup ReqPcs \cup CalcPcs \subseteq Places
BY DEF Places, Calls, ServerPcs, ReqPcs, CalcPcs, Finished, Kinds

\* A process is where it was as long as it makes no call itself.
LEMMA PlaceKept ==
    ASSUME NEW p, pc'[p] = pc[p], p = Server => i' = i
    PROVE  /\ Fifo(p)' = Fifo(p)
           /\ \A f : In(p, f)' = In(p, f) /\ Ahead(p, f)' = Ahead(p, f)
           /\ \A how : Has(p, how)' = Has(p, how)
BY DEF Fifo, In, Ahead, OpensFrom, Has, Turn

\* Where a process is, by the call it has come to.
LEMMA Place ==
    ASSUME TypeInv, NEW p \in Procs
    PROVE  /\ pc[p][2] \in Kinds => Fifo(p) \in Fifos
           /\ pc[p][2] \in Kinds => p = Server \/ p = Client(Fifo(p))
           /\ Fifo(p)[1] = pc[p][2]
           /\ pc[p][1] \in {"make", "open", "wait", "read", "write"} <=> pc[p][2] \in Kinds
           /\ pc[p] = <<pc[p][1], pc[p][2]>>
           /\ pc[p][1] = "write" => Writer(Fifo(p)) = p
           /\ pc[p][1] = "read" => Reader(Fifo(p)) = p
           /\ Writes(p) /\ pc[p][1] = "wait" => Writer(Fifo(p)) = p
           /\ ~Writes(p) /\ pc[p][1] = "wait" => Reader(Fifo(p)) = p
           /\ pc[p][1] = "make" => p = Server
<1>1. /\ p = Server \/ \E k \in Req : p = ReqP(k) \/ p = CalcP(k)
      /\ i \in Req
  BY ProcFacts DEF TypeInv, TypeOK
<1>2. CASE p = Server
  BY <1>1, <1>2 DEF TypeInv, PcInv, ServerPcs, Fifo, Kinds, Fifos, Writer, Reader, Writes
<1>3. ASSUME NEW k \in Req, p = ReqP(k)
      PROVE  /\ p # Server /\ p[2] = k /\ pc[p] \in ReqPcs
             /\ \A f : f[1] \in {"ro", "rr"} /\ f[2] = k => Client(f) = p
  BY <1>3 DEF TypeInv, PcInv, ReqP, Server, Client
<1>4. ASSUME NEW k \in Req, p = CalcP(k)
      PROVE  /\ p # Server /\ p[2] = k /\ pc[p] \in CalcPcs
             /\ \A f : f[1] \in {"co", "cr"} /\ f[2] = k => Client(f) = p
  BY <1>4 DEF TypeInv, PcInv, CalcP, Server, Client
<1>5. CASE \E k \in Req : p = ReqP(k)
  BY <1>3, <1>5 DEF ReqPcs, Finished, Fifo, Kinds, Fifos, Writer, Reader, Writes
<1>6. CASE \E k \in Req : p = CalcP(k)
  BY <1>4, <1>6 DEF CalcPcs, Finished, Fifo, Kinds, Fifos, Writer, Reader, Writes
<1>7. QED
  BY <1>1, <1>2, <1>5, <1>6

-----------------------------------------------------------------------------
(* What is read and written.                                               *)

LEMMA WordFacts ==
    /\ \A k \in Req : Data(k) \in [1..3 -> Words]
    /\ \A n \in Nat : Garbage(n) \in [1..n -> Words]
    /\ \A x \in [1..3 -> Words] : Computed(x) \in Words /\ <<Computed(x)>> \in [1..1 -> Words]
<1>1. \A n \in Nat : Garbage(n) \in [1..n -> Words]
  BY DEF Garbage, Words
<1>2. QED
  BY <1>1, DataWords, ComputedWord

LEMMA MessageSeq ==
    ASSUME NEW f \in Fifos, NEW q \in {<<>>} \cup Messages(f)
    PROVE  q \in Seq(Words)
<1>1. f[2] \in Req
  BY ClientFacts
<1>2. q = <<>> \/ q \in [1..3 -> Words] \/ q \in [1..1 -> Words]
  BY <1>1, WordFacts DEF Messages
<1>3. <<>> \in Seq(Words)
  BY EmptySeq
<1>4. QED
  BY <1>2, <1>3, Written

\* A read that returns leaves nothing, and the buffer as it was if there was
\* nothing.
LEMMA ReadEffect ==
    ASSUME TypeInv, NEW p \in Procs, NEW kind \in Kinds, NEW n, Get(p, kind, n),
           n = IF kind \in {"ro", "co"} THEN 3 ELSE 1
    PROVE  /\ Fifo(p) \in Fifos /\ Fifo(p)[1] = kind /\ Reader(Fifo(p)) = p
           /\ In(p, Fifo(p)) /\ Has(p, "read")
           /\ fifo[Fifo(p)] # <<>> \/ ~Reached(p)
           /\ fifo' = [fifo EXCEPT ![Fifo(p)] = <<>>]
           /\ \A before : Buffer(p, n, before) = IF fifo[Fifo(p)] = <<>> THEN before
                                                 ELSE fifo[Fifo(p)]
<1>1. /\ Fifo(p) \in Fifos /\ Fifo(p)[1] = kind /\ Reader(Fifo(p)) = p
      /\ In(p, Fifo(p)) /\ Has(p, "read")
  BY Place DEF Get, At, In, Has
<1>0. n \in Nat \ {0}
  OBVIOUS
<1>2. fifo[Fifo(p)] = <<>> \/ fifo[Fifo(p)] \in [1..n -> Words]
  <2>1. Fifo(p)[2] \in Req
    BY <1>1, ClientFacts
  <2>2. fifo[Fifo(p)] # <<>> => fifo[Fifo(p)] \in Messages(Fifo(p))
    BY <1>1 DEF TypeInv, ContentsInv
  <2>3. CASE kind = "ro"
    BY <1>1, <2>1, <2>2, <2>3, WordFacts DEF Messages
  <2>4. CASE kind # "ro"
    BY <1>1, <2>2, <2>4 DEF Messages, Kinds
  <2>5. QED
    BY <2>3, <2>4
<1>3. Rest(<<>>, n) = <<>>
  BY <1>0, SubSeqEmpty DEF Rest
<1>4. Rest(fifo[Fifo(p)], n) = <<>>
  BY <1>0, <1>2, <1>3, WholeRead
<1>5. fifo[Fifo(p)] # <<>> => Taken(fifo[Fifo(p)], n) = fifo[Fifo(p)]
  BY <1>0, <1>2, WholeRead
<1>6. QED
  BY <1>1, <1>4, <1>5 DEF Get, Buffer

\* A message is written to a FIFO that is empty.
LEMMA WriteEffect ==
    ASSUME TypeInv, OpenInv, NEW p \in Procs, NEW kind \in Kinds, NEW words, Put(p, kind, words),
           words \in IF kind \in {"ro", "co"} THEN [1..3 -> Words] ELSE [1..1 -> Words]
    PROVE  /\ Fifo(p) \in Fifos /\ Fifo(p)[1] = kind /\ Writer(Fifo(p)) = p
           /\ In(p, Fifo(p)) /\ Has(p, "write") /\ Reached(p)
           /\ fifo[Fifo(p)] = <<>> /\ fifo' = [fifo EXCEPT ![Fifo(p)] = words]
<1>1. /\ Fifo(p) \in Fifos /\ Fifo(p)[1] = kind /\ Writer(Fifo(p)) = p
      /\ In(p, Fifo(p)) /\ Has(p, "write") /\ Reached(p)
  BY Place DEF Put, At, In, Has
<1>2. fifo[Fifo(p)] = <<>>
  BY <1>1 DEF OpenInv, PairInv
<1>3. <<>> \o words = words
  BY Written
<1>4. QED
  BY <1>1, <1>2, <1>3 DEF Put

\* What a process has open exists.
LEMMA EndsType ==
    ASSUME TypeInv, NEW p \in Procs
    PROVE  /\ \A how : End(p, how) => ends' \subseteq ends
           /\ \A kinds : Close(kinds) => ends' \subseteq ends
BY DEF End, Close

-----------------------------------------------------------------------------
(* The calls keep all values in their types.                               *)

LEMMA CallType ==
    ASSUME TypeInv, NEW p \in Procs, Call(p)
    PROVE  TypeInv'
<1>2. pc \in [Procs -> Places] /\ ends \subseteq Procs \X made /\ met \subseteq made
  BY DEF TypeInv, TypeOK, Places
<1>3. UNCHANGED <<made, fifo, dataVars>>
  BY DEF Call, Open, Opened, Broken
<1>4. ends' \subseteq Procs \X made /\ met' \subseteq made
  BY <1>2 DEF Call, Open, Opened, Broken, End
<1>5. \/ pc[p][1] = "open" /\ pc' = [pc EXCEPT ![p] = <<"wait", pc[p][2]>>]
      \/ pc[p][1] = "wait" /\ Writes(p) /\ pc' = [pc EXCEPT ![p] = <<"write", pc[p][2]>>]
      \/ pc[p][1] = "wait" /\ ~Writes(p) /\ pc' = [pc EXCEPT ![p] = <<"read", pc[p][2]>>]
      \/ pc[p][1] = "write" /\ pc' = [pc EXCEPT ![p] = <<"broken", "none">>]
  BY DEF Call, Open, Opened, Broken, End, Goto
<1>6. pc' \in [Procs -> Places]
  <2>1. pc[p][2] \in Kinds \cup {"none"}
    BY <1>2 DEF Places
  <2>2. QED
    BY <1>2, <1>5, <2>1 DEF Places, Calls
<1>7. PcInv'
  <2>1. CASE p = Server
    BY <1>2, <1>5, <2>1, ProcFacts
       DEF TypeInv, PcInv, ServerPcs, Kinds, Writes
  <2>2. CASE p # Server
    BY <1>2, <1>5, <2>2, ProcFacts
       DEF TypeInv, PcInv, ReqPcs, CalcPcs, Finished, Writes
  <2>3. QED
    BY <2>1, <2>2
<1>8. QED
  BY <1>3, <1>4, <1>6, <1>7 DEF TypeInv, TypeOK, Places, ContentsInv, Messages, dataVars

LEMMA ClientType ==
    ASSUME TypeInv, OpenInv, NEW k \in Req,
           \/ OpenFails(ReqP(k)) \/ OpenFails(CalcP(k))
           \/ ReqWrite(k) \/ ReqRead(k) \/ CalcRead(k) \/ CalcWrite(k)
    PROVE  TypeInv'
<1>1. /\ ReqP(k) \in Procs \ {Server} /\ CalcP(k) \in Procs \ {Server} /\ ReqP(k) # CalcP(k)
      /\ pc[ReqP(k)] \in ReqPcs /\ pc[CalcP(k)] \in CalcPcs
      /\ b[k] \in [1..3 -> Words] /\ got[k] \in [1..1 -> Words]
  BY ProcFacts DEF TypeInv, TypeOK, PcInv
<1>2. UNCHANGED <<made, met, i, d, res, kills>>
  BY DEF OpenFails, ReqWrite, ReqRead, CalcRead, CalcWrite, dataVars
<1>3. ends' \subseteq ends
  BY DEF OpenFails, ReqWrite, ReqRead, CalcRead, CalcWrite, End
<1>4. \/ \E s \in ReqPcs : pc' = [pc EXCEPT ![ReqP(k)] = s]
      \/ \E s \in CalcPcs : pc' = [pc EXCEPT ![CalcP(k)] = s]
  BY <1>1 DEF OpenFails, ReqWrite, ReqRead, CalcRead, CalcWrite, End, Goto,
              ReqPcs, CalcPcs, Finished
<1>5. PcInv'
  <2>1. pc \in [Procs -> Places]
    BY DEF TypeInv, TypeOK, Places
  <2>2. ASSUME NEW s \in ReqPcs, pc' = [pc EXCEPT ![ReqP(k)] = s] PROVE PcInv'
    BY <1>1, <2>1, <2>2, ProcFacts DEF TypeInv, PcInv
  <2>3. ASSUME NEW s \in CalcPcs, pc' = [pc EXCEPT ![CalcP(k)] = s] PROVE PcInv'
    BY <1>1, <2>1, <2>3, ProcFacts DEF TypeInv, PcInv
  <2>4. QED
    BY <1>4, <2>2, <2>3
<1>6. pc' \in [Procs -> Places]
  BY <1>4, PlacesType DEF TypeInv, TypeOK, Places
<1>7. /\ b' \in [Req -> [1..3 -> Words]] /\ got' \in [Req -> [1..1 -> Words]]
      /\ fifo' = fifo \/ \E f \in Fifos : \E q \in {<<>>} \cup Messages(f) : fifo' = [fifo EXCEPT ![f] = q]
  <2>1. CASE OpenFails(ReqP(k)) \/ OpenFails(CalcP(k))
    BY <2>1 DEF OpenFails, TypeInv, TypeOK, dataVars
  <2>2. CASE ReqWrite(k)
    <3>1. Fifo(ReqP(k)) \in Fifos /\ Fifo(ReqP(k)) = <<"ro", k>>
      <4>1. pc[ReqP(k)] = <<"write", "ro">>
        BY <2>2 DEF ReqWrite, Put, At
      <4>2. Fifo(ReqP(k)) = <<pc[ReqP(k)][2], k>>
        BY FifoOf
      <4>3. Fifo(ReqP(k)) = <<"ro", k>>
        BY <4>1, <4>2
      <4>4. QED
        BY <4>3, FifoOf
    <3>2. fifo' = [fifo EXCEPT ![Fifo(ReqP(k))] = Data(k)]
      BY <1>1, <2>2, WriteEffect, WordFacts DEF ReqWrite, Kinds
    <3>3. QED
      BY <2>2, <3>1, <3>2 DEF ReqWrite, Messages, TypeInv, TypeOK, dataVars
  <2>3. CASE ReqRead(k)
    <3>1. Fifo(ReqP(k)) \in Fifos /\ Fifo(ReqP(k)) = <<"rr", k>>
      <4>1. pc[ReqP(k)] = <<"read", "rr">>
        BY <2>3 DEF ReqRead, Get, At
      <4>2. Fifo(ReqP(k)) = <<pc[ReqP(k)][2], k>>
        BY FifoOf
      <4>3. Fifo(ReqP(k)) = <<"rr", k>>
        BY <4>1, <4>2
      <4>4. QED
        BY <4>3, FifoOf
    <3>2. /\ fifo' = [fifo EXCEPT ![Fifo(ReqP(k))] = <<>>]
          /\ Buffer(ReqP(k), 1, got[k]) = IF fifo[Fifo(ReqP(k))] = <<>> THEN got[k]
                                          ELSE fifo[Fifo(ReqP(k))]
      <4>1. Get(ReqP(k), "rr", 1)
        BY <2>3 DEF ReqRead
      <4>2. QED
        BY <1>1, <4>1, KindsFact, ReadEffect
    <3>3. Buffer(ReqP(k), 1, got[k]) \in [1..1 -> Words]
      BY <1>1, <3>1, <3>2 DEF TypeInv, ContentsInv, Messages
    <3>4. QED
      BY <2>3, <3>1, <3>2, <3>3 DEF ReqRead, TypeInv, TypeOK
  <2>4. CASE CalcRead(k)
    <3>1. Fifo(CalcP(k)) \in Fifos /\ Fifo(CalcP(k)) = <<"co", k>>
      <4>1. pc[CalcP(k)] = <<"read", "co">>
        BY <2>4 DEF CalcRead, Get, At
      <4>2. Fifo(CalcP(k)) = <<pc[CalcP(k)][2], k>>
        BY FifoOf
      <4>3. Fifo(CalcP(k)) = <<"co", k>>
        BY <4>1, <4>2
      <4>4. QED
        BY <4>3, FifoOf
    <3>2. /\ fifo' = [fifo EXCEPT ![Fifo(CalcP(k))] = <<>>]
          /\ Buffer(CalcP(k), 3, b[k]) = IF fifo[Fifo(CalcP(k))] = <<>> THEN b[k]
                                         ELSE fifo[Fifo(CalcP(k))]
      <4>1. Get(CalcP(k), "co", 3)
        BY <2>4 DEF CalcRead
      <4>2. QED
        BY <1>1, <4>1, KindsFact, ReadEffect
    <3>3. Buffer(CalcP(k), 3, b[k]) \in [1..3 -> Words]
      BY <1>1, <3>1, <3>2 DEF TypeInv, ContentsInv, Messages
    <3>4. QED
      BY <2>4, <3>1, <3>2, <3>3 DEF CalcRead, TypeInv, TypeOK
  <2>5. CASE CalcWrite(k)
    <3>1. Fifo(CalcP(k)) \in Fifos /\ Fifo(CalcP(k)) = <<"cr", k>>
      <4>1. pc[CalcP(k)] = <<"write", "cr">>
        BY <2>5 DEF CalcWrite, Put, At
      <4>2. Fifo(CalcP(k)) = <<pc[CalcP(k)][2], k>>
        BY FifoOf
      <4>3. Fifo(CalcP(k)) = <<"cr", k>>
        BY <4>1, <4>2
      <4>4. QED
        BY <4>3, FifoOf
    <3>2. <<Computed(b[k])>> \in [1..1 -> Words]
      BY <1>1, WordFacts
    <3>3. fifo' = [fifo EXCEPT ![Fifo(CalcP(k))] = <<Computed(b[k])>>]
      BY <1>1, <2>5, <3>2, WriteEffect DEF CalcWrite, Kinds
    <3>4. QED
      BY <2>5, <3>1, <3>2, <3>3 DEF CalcWrite, Messages, TypeInv, TypeOK, dataVars
  <2>6. QED
    BY <2>1, <2>2, <2>3, <2>4, <2>5
<1>8. ContentsInv' /\ fifo' \in [Fifos -> Seq(Words)]
  BY <1>7, MessageSeq DEF TypeInv, TypeOK, ContentsInv, Messages
<1>9. QED
  BY <1>2, <1>3, <1>5, <1>6, <1>7, <1>8 DEF TypeInv, TypeOK, Places

LEMMA KillType ==
    ASSUME TypeInv, NEW p \in Procs, Kill(p)
    PROVE  TypeInv'
<1>1. ends' \subseteq ends /\ pc' = [pc EXCEPT ![p] = <<"killed", "none">>]
  BY DEF Kill, End, Goto
<1>2. pc \in [Procs -> Places] /\ p \in Procs
  BY DEF TypeInv, TypeOK, Places
<1>3. kills' \in 0..MaxKills
  BY FifoAssumption DEF Kill, TypeInv, TypeOK
<1>4. PcInv'
  BY <1>1, <1>2, ProcFacts DEF TypeInv, PcInv, ServerPcs, ReqPcs, CalcPcs, Finished
<1>5. pc' \in [Procs -> Places]
  BY <1>1, <1>2 DEF Places, Calls
<1>6. QED
  BY <1>1, <1>3, <1>4, <1>5 DEF Kill, TypeInv, TypeOK, Places, ContentsInv, Messages

LEMMA MainType ==
    ASSUME TypeInv, OpenInv, Make \/ ReadReq \/ WriteReq \/ ReadRes \/ WriteRes
    PROVE  TypeInv'
<1>1. /\ Server \in Procs /\ i \in 1..N /\ N \in Nat /\ pc[Server] \in ServerPcs
      /\ Fifo(Server) = <<pc[Server][2], i>>
      /\ d \in [Req -> [1..3 -> Words]] /\ res \in [1..1 -> Words]
  BY ProcFacts, FifoOf, ConstantsAssumption DEF TypeInv, TypeOK, PcInv, Req
<1>2. UNCHANGED <<met, b, got, kills>>
  BY DEF Make, ReadReq, WriteReq, ReadRes, WriteRes, dataVars
<1>3. ends' \subseteq ends
  BY DEF Make, ReadReq, WriteReq, ReadRes, WriteRes, Close
<1>4. i' \in 1..N /\ \E s \in ServerPcs : pc' = [pc EXCEPT ![Server] = s]
  <2>1. CASE Make
    BY <1>1, <2>1 DEF Make, Goto, ServerPcs, dataVars
  <2>2. CASE WriteReq \/ ReadRes
    BY <1>1, <2>2 DEF WriteReq, ReadRes, Goto, ServerPcs, Kinds, dataVars
  <2>3. CASE ReadReq \/ WriteRes
    BY <1>1, <2>3 DEF ReadReq, WriteRes, NextRound, Goto, ServerPcs, Kinds
  <2>4. QED
    BY <2>1, <2>2, <2>3
<1>5. PcInv'
  BY <1>1, <1>4, ProcFacts DEF TypeInv, TypeOK, PcInv
<1>6. pc' \in [Procs -> Places]
  BY <1>1, <1>4, PlacesType DEF TypeInv, TypeOK, Places
<1>7. made \subseteq made' /\ made' \subseteq Fifos
  <2>1. CASE Make
    BY <2>1, Place, <1>1 DEF Make, TypeInv, TypeOK
  <2>2. CASE ~Make
    BY <2>2 DEF ReadReq, WriteReq, ReadRes, WriteRes, TypeInv, TypeOK
  <2>3. QED
    BY <2>1, <2>2
<1>8. /\ d' \in [Req -> [1..3 -> Words]] /\ res' \in [1..1 -> Words]
      /\ \/ fifo' = fifo
         \/ \E f \in Fifos : \E q \in {<<>>} \cup Messages(f) : fifo' = [fifo EXCEPT ![f] = q]
  <2>1. CASE Make
    BY <1>1, <2>1 DEF Make, dataVars
  <2>2. CASE ReadReq
    <3>1. Get(Server, "ro", 3) /\ pc[Server] = <<"read", "ro">>
      BY <2>2 DEF ReadReq, Get, At
    <3>2. /\ Fifo(Server) \in Fifos /\ fifo' = [fifo EXCEPT ![Fifo(Server)] = <<>>]
          /\ Buffer(Server, 3, d[i]) = IF fifo[Fifo(Server)] = <<>> THEN d[i] ELSE fifo[Fifo(Server)]
      BY <1>1, <3>1, KindsFact, ReadEffect
    <3>3. Fifo(Server) = <<"ro", i>>
      BY <1>1, <3>1
    <3>4. Buffer(Server, 3, d[i]) \in [1..3 -> Words]
      BY <1>1, <3>2, <3>3, WordFacts DEF TypeInv, ContentsInv, Messages, Req
    <3>5. QED
      BY <1>1, <2>2, <3>2, <3>4 DEF ReadReq, Req
  <2>3. CASE WriteReq
    <3>1. Put(Server, "co", d[i]) /\ pc[Server] = <<"write", "co">> /\ d[i] \in [1..3 -> Words]
      BY <1>1, <2>3 DEF WriteReq, Put, At, Req
    <3>2. Fifo(Server) \in Fifos /\ fifo' = [fifo EXCEPT ![Fifo(Server)] = d[i]]
      BY <1>1, <3>1, KindsFact, WriteEffect
    <3>3. Fifo(Server) = <<"co", i>>
      BY <1>1, <3>1
    <3>4. QED
      BY <1>1, <2>3, <3>1, <3>2, <3>3 DEF WriteReq, Messages, dataVars
  <2>4. CASE ReadRes
    <3>1. Get(Server, "cr", 1) /\ pc[Server] = <<"read", "cr">>
      BY <2>4 DEF ReadRes, Get, At
    <3>2. /\ Fifo(Server) \in Fifos /\ fifo' = [fifo EXCEPT ![Fifo(Server)] = <<>>]
          /\ Buffer(Server, 1, res) = IF fifo[Fifo(Server)] = <<>> THEN res ELSE fifo[Fifo(Server)]
      BY <1>1, <3>1, KindsFact, ReadEffect
    <3>3. Fifo(Server) = <<"cr", i>>
      BY <1>1, <3>1
    <3>4. Buffer(Server, 1, res) \in [1..1 -> Words]
      BY <1>1, <3>2, <3>3 DEF TypeInv, ContentsInv, Messages
    <3>5. QED
      BY <1>1, <2>4, <3>2, <3>4 DEF ReadRes
  <2>5. CASE WriteRes
    <3>1. Put(Server, "rr", res) /\ pc[Server] = <<"write", "rr">> /\ res \in [1..1 -> Words]
      BY <1>1, <2>5 DEF WriteRes, Put, At
    <3>2. Fifo(Server) \in Fifos /\ fifo' = [fifo EXCEPT ![Fifo(Server)] = res]
      BY <1>1, <3>1, KindsFact, WriteEffect
    <3>3. Fifo(Server) = <<"rr", i>>
      BY <1>1, <3>1
    <3>4. QED
      BY <1>1, <2>5, <3>1, <3>2, <3>3 DEF WriteRes, Messages
  <2>6. QED
    BY <2>1, <2>2, <2>3, <2>4, <2>5
<1>9. ContentsInv' /\ fifo' \in [Fifos -> Seq(Words)]
  BY <1>8, MessageSeq DEF TypeInv, TypeOK, ContentsInv, Messages
<1>10. QED
  BY <1>2, <1>3, <1>4, <1>5, <1>6, <1>7, <1>8, <1>9 DEF TypeInv, TypeOK, Places, Req

\* What can happen in a step.
LEMMA Steps ==
    ASSUME [Next]_vars
    PROVE  \/ UNCHANGED vars
           \/ \E p \in Procs : Call(p) \/ Kill(p)
           \/ Make \/ ReadReq \/ WriteReq \/ ReadRes \/ WriteRes
           \/ \E k \in Req : \/ OpenFails(ReqP(k)) \/ OpenFails(CalcP(k))
                            \/ ReqWrite(k) \/ ReqRead(k) \/ CalcRead(k) \/ CalcWrite(k)
<1>1. CASE Main
  BY <1>1, ProcFacts DEF Main
<1>2. CASE \E k \in Req : Requester(k) \/ Calculator(k)
  <2>1. PICK k \in Req : Requester(k) \/ Calculator(k)
    BY <1>2
  <2>2. ReqP(k) \in Procs /\ CalcP(k) \in Procs
    BY ProcFacts
  <2>3. QED
    BY <2>1, <2>2 DEF Requester, Calculator
<1>3. QED
  BY <1>1, <1>2 DEF Next

LEMMA TypeStep == TypeInv /\ OpenInv /\ [Next]_vars => TypeInv'
<1>1. ASSUME TypeInv, UNCHANGED vars PROVE TypeInv'
  BY <1>1 DEF vars, dataVars, TypeInv, TypeOK, PcInv, ContentsInv
<1>2. QED
  BY <1>1, Steps, CallType, ClientType, KillType, MainType

-----------------------------------------------------------------------------
(* Who has what open.                                                      *)

\* The two processes of a FIFO.
LEMMA Sides ==
    ASSUME NEW f \in Fifos
    PROVE  /\ Server \in Procs /\ Client(f) \in Procs /\ Client(f) # Server
           /\ \/ Writer(f) = Server /\ Reader(f) = Client(f)
              \/ Writer(f) = Client(f) /\ Reader(f) = Server
           /\ Other(Server, f) = Client(f) /\ Other(Client(f), f) = Server
BY ClientFacts, ProcFacts DEF Writer, Reader, Other

\* Who reads or writes has got through its open.
LEMMA Met ==
    ASSUME TypeInv, OpenInv, NEW p \in Procs, pc[p][1] \in {"read", "write"}
    PROVE  Fifo(p) \in met /\ <<p, Fifo(p)>> \in ends
<1>1. Fifo(p) \in Fifos /\ p \in {Server, Client(Fifo(p))} /\ In(p, Fifo(p)) /\ ~Has(p, "wait")
  BY Place DEF In, Has
<1>2. QED
  BY <1>1 DEF OpenInv, SideInv

\* A read does not return before the writer has written or gone.
LEMMA ReadWaits ==
    ASSUME TypeInv, OpenInv, NEW p \in Procs, Fifo(p) \in Fifos, p = Reader(Fifo(p)),
           fifo[Fifo(p)] # <<>> \/ ~Reached(p)
    PROVE  ~In(Writer(Fifo(p)), Fifo(p))
<1> DEFINE f == Fifo(p)
<1>1. Writer(f) \in {Server, Client(f)} /\ Other(p, f) = Writer(f)
  BY Sides
<1>2. In(Writer(f), f) => fifo[f] = <<>> /\ <<Writer(f), f>> \in ends
  BY <1>1 DEF OpenInv, SideInv, PairInv
<1>3. QED
  BY <1>1, <1>2 DEF Reached

\* One process goes on from its FIFO, or ends: it opens nothing, and a reader
\* that goes on has read what its writer has written.
Leaves(p) ==
    /\ ~Has(p, "killed")
    /\ \A q \in Procs \ {p} : pc'[q] = pc[q]
    /\ p # Server => i' = i
    /\ pc'[p][1] \notin {"wait", "read", "write"}
    /\ \A f \in Fifos : p \in {Server, Client(f)} => /\ OpensFrom(p, f, pc'[p], i') => Ahead(p, f)
                                                     /\ <<p, f>> \in ends' => f \in met
    /\ met' = met /\ ends' \subseteq ends
    /\ \A q \in Procs, f \in Fifos : q # p /\ <<q, f>> \in ends => <<q, f>> \in ends'
    /\ \A f \in Fifos : \/ fifo'[f] = fifo[f]
                        \/ /\ f \in met /\ f = Fifo(p)
                           /\ p = Writer(f) \/ (p = Reader(f) /\ fifo'[f] = <<>>)
    /\ \A f \in Fifos : p = Reader(f) /\ In(p, f) /\ In(Writer(f), f) => pc'[p][1] = "killed"
    /\ p = Server /\ pc'[Server][2] \in Kinds
          => \A f \in Fifos : Turn(f) < Turn(<<pc'[Server][2], i'>>) => f \in met

LEMMA LeaveStep ==
    ASSUME TypeInv, OpenInv, NEW p \in Procs, Leaves(p)
    PROVE  OpenInv'
<1> SUFFICES ASSUME NEW f \in Fifos
             PROVE  SideInv(Server, f)' /\ SideInv(Client(f), f)' /\ PairInv(f)'
  BY DEF OpenInv
<1>0. /\ ~In(p, f)' /\ (p \in {Server, Client(f)} /\ Ahead(p, f)' => Ahead(p, f))
      /\ p \in {Server, Client(f)} /\ <<p, f>> \in ends' => f \in met
      /\ met' = met /\ ~Has(p, "killed")
      /\ \A q \in Procs : q # p => (<<q, f>> \in ends <=> <<q, f>> \in ends')
  <2>1. ~In(p, f)'
    BY DEF Leaves, In
  <2>2. p \in {Server, Client(f)} /\ Ahead(p, f)' => Ahead(p, f)
    <3>1. Ahead(p, f)' = OpensFrom(p, f, pc'[p], i')
      BY DEF Ahead, OpensFrom, Turn
    <3>2. QED
      BY <3>1 DEF Leaves
  <2>3. p \in {Server, Client(f)} /\ <<p, f>> \in ends' => f \in met
    BY DEF Leaves
  <2>4. met' = met /\ ~Has(p, "killed")
    BY DEF Leaves
  <2>5. \A q \in Procs : q # p => (<<q, f>> \in ends <=> <<q, f>> \in ends')
    BY DEF Leaves
  <2>6. QED
    BY <2>1, <2>2, <2>3, <2>4, <2>5
<1>1. /\ SideInv(Server, f) /\ SideInv(Client(f), f) /\ PairInv(f)
      /\ \A g \in Fifos : Turn(f) < Turn(g) /\ g \in met => f \in met
  BY DEF OpenInv, PairInv
<1>2. ASSUME NEW q \in Procs \ {p}
      PROVE  /\ In(q, f)' = In(q, f) /\ Ahead(q, f)' = Ahead(q, f) /\ Fifo(q)' = Fifo(q)
             /\ \A how : Has(q, how)' = Has(q, how)
  BY PlaceKept DEF Leaves
<1>3. ASSUME NEW q \in {Server, Client(f)} PROVE SideInv(q, f)'
  <2>1. SideInv(q, f) /\ q \in Procs
    BY <1>1, Sides
  <2>2. CASE q = p
    BY <1>0, <2>1, <2>2 DEF SideInv
  <2>3. CASE q # p
    BY <1>0, <1>2, <2>1, <2>3 DEF SideInv
  <2>4. QED
    BY <2>2, <2>3
<1>4. f \in met /\ In(Writer(f), f)' => In(Reader(f), f)' \/ Has(Reader(f), "killed")'
  <2>1. SUFFICES ASSUME f \in met, In(Writer(f), f)'
                 PROVE  In(Reader(f), f)' \/ Has(Reader(f), "killed")'
    OBVIOUS
  <2>2. Writer(f) \in Procs \ {p} /\ Reader(f) \in Procs /\ In(Writer(f), f)
    BY <1>0, <1>2, <2>1, Sides
  <2>3. In(Reader(f), f) \/ Has(Reader(f), "killed")
    BY <1>1, <2>1, <2>2 DEF PairInv
  <2>4. CASE Reader(f) = p
    BY <2>1, <2>2, <2>3, <2>4 DEF Leaves, Has
  <2>5. CASE Reader(f) # p
    BY <1>2, <2>2, <2>3, <2>5
  <2>6. QED
    BY <2>4, <2>5
<1>5. Ahead(Writer(f), f)' \/ In(Writer(f), f)' => fifo'[f] = <<>>
  <2>1. SUFFICES ASSUME Ahead(Writer(f), f)' \/ In(Writer(f), f)'
                 PROVE  fifo'[f] = <<>>
    OBVIOUS
  <2>2. Ahead(Writer(f), f) \/ (Writer(f) # p /\ In(Writer(f), f))
    BY <1>0, <1>2, <2>1, Sides
  <2>3. fifo[f] = <<>>
    BY <1>1, <2>2 DEF PairInv
  <2>4. CASE Writer(f) = p
    BY <1>1, <2>2, <2>3, <2>4, Sides DEF SideInv, Leaves
  <2>5. CASE Writer(f) # p
    BY <2>3, <2>5 DEF Leaves
  <2>6. QED
    BY <2>4, <2>5
<1>6. pc'[Server][2] \in Kinds /\ Turn(f)' < Turn(Fifo(Server))' => f \in met
  <2>1. /\ Turn(f)' = Turn(f) /\ Fifo(Server)' = <<pc'[Server][2], i'>>
        /\ Turn(Fifo(Server))' = Turn(Fifo(Server)')
    BY DEF Turn, Fifo
  <2>2. CASE p = Server
    BY <2>1, <2>2 DEF Leaves
  <2>3. CASE p # Server
    <3>1. pc'[Server] = pc[Server] /\ Fifo(Server)' = Fifo(Server)
      BY <1>2, <2>3, Sides DEF Leaves
    <3>2. QED
      BY <1>1, <2>1, <3>1 DEF PairInv
  <2>4. QED
    BY <2>2, <2>3
<1>7. \A g \in Fifos : g \in met' /\ Turn(f)' < Turn(g)' => f \in met'
  BY <1>1 DEF Turn, Leaves
<1>8. QED
  BY <1>3, <1>4, <1>5, <1>6, <1>7 DEF PairInv, Writer, Reader, Client, Leaves

\* The end of a process.
LEMMA EndStep ==
    ASSUME TypeInv, OpenInv, NEW p \in Procs, Kill(p) \/ Broken(p)
    PROVE  OpenInv'
<1>1. \E how \in {"killed", "broken"} : End(p, how) /\ (how = "broken" <=> Broken(p))
  BY DEF Kill, Broken, Has
<1>2. /\ pc \in [Procs -> Calls \X (Kinds \cup {"none"})] /\ ends \subseteq Procs \X made
      /\ UNCHANGED <<made, met, fifo, i>>
  BY DEF TypeInv, TypeOK, Kill, Broken, dataVars
<1>3. pc'[p] = <<"killed", "none">> \/ (pc'[p] = <<"broken", "none">> /\ Broken(p))
  BY <1>1, <1>2 DEF End, Goto
<1>4. \A q \in Procs \ {p} : pc'[q] = pc[q]
  BY <1>1, <1>2 DEF End, Goto
<1>5. ends' = {e \in ends : e[1] # p}
  BY <1>1 DEF End
<1>6. ~Has(p, "killed")
  BY DEF Kill, Broken, Has
<1>7. pc'[p][2] \notin Kinds /\ (Broken(p) \/ Has(p, "killed")') /\ pc'[p][1] \in {"killed", "broken"}
  BY <1>3 DEF Kinds, Has
<1>8. \A f \in Fifos : ~OpensFrom(p, f, pc'[p], i')
  <2>1. \A f \in Fifos : f[1] \in Kinds
    BY ClientFacts
  <2>2. pc'[p][1] # "open"
    BY <1>7
  <2>3. QED
    BY <1>7, <2>1, <2>2 DEF OpensFrom, Kinds
<1>9. \A f \in Fifos : p = Reader(f) /\ In(p, f) => ~Broken(p)
  BY Place, Sides DEF In, Broken
<1>10. /\ ends' \subseteq ends
       /\ \A q \in Procs, f \in Fifos : q # p /\ <<q, f>> \in ends => <<q, f>> \in ends'
       /\ \A f \in Fifos : ~(<<p, f>> \in ends')
  BY <1>5
<1>11. \A f \in Fifos : p = Reader(f) /\ In(p, f) => pc'[p][1] = "killed"
  BY <1>7, <1>9 DEF Has
<1>12. p = Server => ~(pc'[Server][2] \in Kinds)
  BY <1>7
<1>13. Leaves(p)
  <2>1. \A f \in Fifos : p \in {Server, Client(f)} => /\ OpensFrom(p, f, pc'[p], i') => Ahead(p, f)
                                                      /\ <<p, f>> \in ends' => f \in met
    BY <1>8, <1>10
  <2>2. pc'[p][1] \notin {"wait", "read", "write"}
    BY <1>7
  <2>3. \A f \in Fifos : fifo'[f] = fifo[f]
    BY <1>2
  <2>4. QED
    BY <1>2, <1>4, <1>6, <1>10, <1>11, <1>12, <2>1, <2>2, <2>3 DEF Leaves
<1>14. QED
  BY <1>13, LeaveStep

\* The client's calls.
LEMMA ClientOpen ==
    ASSUME TypeInv, OpenInv, NEW k \in Req,
           \/ OpenFails(ReqP(k)) \/ OpenFails(CalcP(k))
           \/ ReqWrite(k) \/ ReqRead(k) \/ CalcRead(k) \/ CalcWrite(k)
    PROVE  OpenInv'
<1>1. PICK p \in {ReqP(k), CalcP(k)} : 
        \/ OpenFails(p) 
        \/ p = ReqP(k) /\ (ReqWrite(k) \/ ReqRead(k))
        \/ p = CalcP(k) /\ (CalcRead(k) \/ CalcWrite(k))
  OBVIOUS
<1>2. /\ p \in Procs /\ p # Server /\ p[2] = k
      /\ pc \in [Procs -> Calls \X (Kinds \cup {"none"})] /\ ends \subseteq Procs \X made
  BY <1>1, ProcFacts DEF TypeInv, TypeOK
<1>3. UNCHANGED <<made, met, i>>
  BY <1>1 DEF OpenFails, ReqWrite, ReqRead, CalcRead, CalcWrite, dataVars
<1>4. \/ /\ pc[p][2] \in {"ro", "co"} /\ ends' = ends
         /\ \E kind \in {"rr", "cr"} : pc' = [pc EXCEPT ![p] = <<"open", kind>>]
      \/ /\ pc[p][2] \in {"rr", "cr"} /\ ends' = {e \in ends : e[1] # p}
         /\ pc' = [pc EXCEPT ![p] = <<"gone", "none">>]
  <2>1. CASE OpenFails(p)
    <3>1. pc[p] \in ReqPcs \cup CalcPcs /\ pc[p][1] = "open"
      BY <1>1, <2>1 DEF TypeInv, PcInv, OpenFails
    <3>2. pc[p][2] \in {"ro", "rr", "co", "cr"}
      BY <3>1 DEF ReqPcs, CalcPcs, Finished
    <3>3. QED
      BY <2>1, <3>2 DEF OpenFails, Goto, End
  <2>2. CASE p = ReqP(k) /\ (ReqWrite(k) \/ ReqRead(k))
    BY <2>2 DEF ReqWrite, ReqRead, Put, Get, At, Goto, End
  <2>3. CASE p = CalcP(k) /\ (CalcRead(k) \/ CalcWrite(k))
    BY <2>3 DEF CalcRead, CalcWrite, Put, Get, At, Goto, End
  <2>4. QED
    BY <1>1, <2>1, <2>2, <2>3
<1>5. pc[p][1] \in {"open", "read", "write"} /\ ~Has(p, "killed")
  BY <1>1 DEF OpenFails, ReqWrite, ReqRead, CalcRead, CalcWrite, Put, Get, At, Has
<1>6. \A q \in Procs \ {p} : pc'[q] = pc[q]
  BY <1>2, <1>4
<1>7. pc'[p][1] \notin {"wait", "read", "write"}
  BY <1>2, <1>4
<1>8. \A f \in Fifos : p = Client(f) /\ OpensFrom(p, f, pc'[p], i') => Ahead(p, f)
  <2>1. \A f \in Fifos : f[1] \in Kinds
    BY ClientFacts
  <2>2. QED
    BY <1>2, <1>4, <2>1 DEF Ahead, OpensFrom, Kinds
<1>9. \A f \in Fifos : p = Client(f) /\ <<p, f>> \in ends' => f \in met
  <2>1. SUFFICES ASSUME NEW f \in Fifos, p = Client(f), <<p, f>> \in ends' PROVE f \in met
    OBVIOUS
  <2>2. <<p, f>> \in ends /\ ~Has(p, "wait")
    BY <1>4, <1>5, <2>1 DEF Has
  <2>3. QED
    BY <2>1, <2>2 DEF OpenInv, SideInv
<1>10. \/ fifo' = fifo /\ pc[p][1] = "open"
       \/ /\ pc[p][1] = "write" /\ Fifo(p) \in Fifos /\ Writer(Fifo(p)) = p
          /\ \E q : fifo' = [fifo EXCEPT ![Fifo(p)] = q]
       \/ /\ pc[p][1] = "read" /\ Fifo(p) \in Fifos
          /\ Reader(Fifo(p)) = p /\ ~In(Writer(Fifo(p)), Fifo(p))
          /\ fifo' = [fifo EXCEPT ![Fifo(p)] = <<>>]
  <2>1. CASE OpenFails(p)
    BY <2>1 DEF OpenFails
  <2>2. ASSUME NEW kind \in Kinds, NEW words, Put(p, kind, words)
        PROVE  /\ pc[p][1] = "write" /\ Fifo(p) \in Fifos /\ Writer(Fifo(p)) = p
               /\ \E q : fifo' = [fifo EXCEPT ![Fifo(p)] = q]
    <3>1. pc[p] = <<"write", kind>> /\ fifo' = [fifo EXCEPT ![Fifo(p)] = @ \o words]
      BY <2>2 DEF Put, At
    <3>2. pc[p][1] = "write" /\ pc[p][2] \in Kinds
      BY <3>1
    <3>3. QED
      BY <1>2, <3>1, <3>2, Place
  <2>3. ASSUME NEW kind \in Kinds, NEW n, Get(p, kind, n),
               n = IF kind \in {"ro", "co"} THEN 3 ELSE 1
        PROVE  /\ pc[p][1] = "read" /\ Fifo(p) \in Fifos
               /\ Reader(Fifo(p)) = p /\ ~In(Writer(Fifo(p)), Fifo(p))
               /\ fifo' = [fifo EXCEPT ![Fifo(p)] = <<>>]
    BY <1>2, <2>3, ReadEffect, ReadWaits DEF Has
  <2>4. CASE ReqWrite(k) /\ p = ReqP(k)
    BY <2>2, <2>4, KindsFact DEF ReqWrite
  <2>5. CASE ReqRead(k) /\ p = ReqP(k)
    BY <2>3, <2>5, KindsFact DEF ReqRead
  <2>6. CASE CalcRead(k) /\ p = CalcP(k)
    BY <2>3, <2>6, KindsFact DEF CalcRead
  <2>7. CASE CalcWrite(k) /\ p = CalcP(k)
    BY <2>2, <2>7, KindsFact DEF CalcWrite
  <2>8. QED
    BY <1>1, <2>1, <2>4, <2>5, <2>6, <2>7
<1>11. \A f \in Fifos : \/ fifo'[f] = fifo[f]
                        \/ /\ f \in met /\ f = Fifo(p)
                           /\ p = Writer(f) \/ (p = Reader(f) /\ fifo'[f] = <<>>)
  <2>1. fifo' = fifo \/ Fifo(p) \in met
    BY <1>2, <1>5, <1>10, Met
  <2>2. DOMAIN fifo = Fifos
    BY DEF TypeInv, TypeOK
  <2>3. QED
    BY <1>10, <2>1, <2>2
<1>12. \A f \in Fifos : ~(p = Reader(f) /\ In(p, f) /\ In(Writer(f), f))
  BY <1>2, <1>10, Sides DEF In
<1>13. \A f \in Fifos : p \in {Server, Client(f)} => p = Client(f)
  BY <1>2
<1>14. ends' \subseteq ends
  BY <1>4
<1>15. \A q \in Procs, f \in Fifos : q # p /\ <<q, f>> \in ends => <<q, f>> \in ends'
  BY <1>4
<1>16. \A f \in Fifos : p \in {Server, Client(f)} => /\ OpensFrom(p, f, pc'[p], i') => Ahead(p, f)
                                                     /\ <<p, f>> \in ends' => f \in met
  BY <1>8, <1>9, <1>13
<1>17. Leaves(p)
  <2>1. p # Server
    BY <1>2
  <2>2. QED
    BY <2>1, <1>3, <1>5, <1>6, <1>7, <1>11, <1>12, <1>14, <1>15, <1>16 DEF Leaves
<1>18. QED
  BY <1>2, <1>17, LeaveStep

\* Who is in f has it open, and does not open it again.
LEMMA InNotAhead ==
    ASSUME TypeInv, NEW f \in Fifos, NEW q \in {Server, Client(f)}, In(q, f)
    PROVE  ~Ahead(q, f)
<1>1. pc[q][1] \in {"wait", "read", "write"} /\ Fifo(q) = f /\ q \in Procs
  BY Sides DEF In
<1>2. f[1] = pc[q][2] /\ Turn(f) \in Int
  BY <1>1, Place, TurnFacts
<1>3. CASE q = Server
  BY <1>1, <1>2, <1>3 DEF Ahead, OpensFrom, Fifo
<1>4. CASE q # Server
  BY <1>1, <1>2, <1>4 DEF Ahead, OpensFrom
<1>5. QED
  BY <1>3, <1>4

\* An open that returns, and the server's create_fifo.
LEMMA OpenedStep ==
    ASSUME TypeInv, OpenInv, NEW p \in Procs, Opened(p) \/ (Make /\ p = Server)
    PROVE  OpenInv'
<1> SUFFICES ASSUME NEW f \in Fifos
             PROVE  SideInv(Server, f)' /\ SideInv(Client(f), f)' /\ PairInv(f)'
  BY DEF OpenInv
<1>1. /\ SideInv(Server, f) /\ SideInv(Client(f), f) /\ PairInv(f)
      /\ pc \in [Procs -> Calls \X (Kinds \cup {"none"})]
  BY DEF OpenInv, TypeInv, TypeOK
<1>2. UNCHANGED <<met, ends, fifo, i>>
  BY DEF Opened, Make, dataVars
<1>3. \A q \in Procs \ {p} : pc'[q] = pc[q]
  BY <1>1 DEF Opened, Make, Goto
<1>4. /\ pc'[p][2] = pc[p][2] /\ Fifo(p)' = Fifo(p)
      /\ \/ pc[p][1] = "wait" /\ Fifo(p) \in met /\ pc'[p][1] \in {"read", "write"}
         \/ pc[p][1] = "make" /\ pc'[p][1] = "open" /\ p = Server
  BY <1>1, <1>2 DEF Opened, Make, Goto, Fifo
<1>5. pc[p] = <<pc[p][1], pc[p][2]>> /\ pc[p][1] # "open"
  BY <1>4, Place
<1>6. ASSUME NEW q \in Procs
      PROVE  /\ In(q, f)' = In(q, f) /\ Fifo(q)' = Fifo(q)
             /\ Has(q, "killed")' = Has(q, "killed")
             /\ Ahead(q, f)' => Ahead(q, f)
  <2>1. CASE q # p
    BY <1>2, <1>3, <2>1, PlaceKept
  <2>2. CASE q = p
    <3>1. In(p, f)' = In(p, f) /\ Has(p, "killed")' = Has(p, "killed")
      BY <1>4 DEF In, Has
    <3>2. Ahead(p, f)' = OpensFrom(p, f, pc'[p], i)
      BY <1>2 DEF Ahead, OpensFrom, Turn
    <3>3. OpensFrom(p, f, pc'[p], i) => OpensFrom(p, f, pc[p], i)
      BY <1>4, <1>5 DEF OpensFrom
    <3>4. QED
      BY <1>4, <2>2, <3>1, <3>2, <3>3 DEF Ahead
  <2>3. QED
    BY <2>1, <2>2
<1>7. ASSUME NEW q \in {Server, Client(f)} PROVE SideInv(q, f)'
  <2>1. SideInv(q, f) /\ q \in Procs
    BY <1>1, Sides
  <2>2. CASE q # p
    <3>1. Has(q, "wait")' = Has(q, "wait")
      BY <1>3, <2>1, <2>2 DEF Has
    <3>2. QED
      BY <1>2, <1>6, <2>1, <3>1 DEF SideInv
  <2>3. CASE q = p
    <3>1. In(q, f) => f \in met
      BY <1>4, <2>3 DEF In
    <3>2. QED
      BY <1>2, <1>6, <2>1, <3>1 DEF SideInv
  <2>4. QED
    BY <2>2, <2>3
<1>8. PairInv(f)'
  <2>1. /\ Turn(f)' = Turn(f) /\ Turn(Fifo(Server))' = Turn(Fifo(Server)) /\ pc'[Server][2] = pc[Server][2]
        /\ Writer(f)' = Writer(f) /\ Reader(f)' = Reader(f)
        /\ \A g \in Fifos : Turn(g)' = Turn(g)
    BY <1>3, <1>4, <1>6, Sides DEF Turn, Writer, Reader, Client
  <2>2. Writer(f) \in Procs /\ Reader(f) \in Procs
    BY Sides
  <2>3. QED
    BY <1>1, <1>2, <1>6, <2>1, <2>2 DEF PairInv
<1>9. QED
  BY <1>7, <1>8

\* An open meets that of the other side, or waits for it.
LEMMA OpenStep ==
    ASSUME TypeInv, OpenInv, NEW p \in Procs, Open(p)
    PROVE  OpenInv'
<1> DEFINE g == Fifo(p)
<1> SUFFICES ASSUME NEW f \in Fifos
             PROVE  SideInv(Server, f)' /\ SideInv(Client(f), f)' /\ PairInv(f)'
  BY DEF OpenInv
<1>1. /\ SideInv(Server, f) /\ SideInv(Client(f), f) /\ PairInv(f)
      /\ pc \in [Procs -> Calls \X (Kinds \cup {"none"})]
  BY DEF OpenInv, TypeInv, TypeOK
<1>2. /\ g \in Fifos /\ g \in made /\ p \in {Server, Client(g)} /\ g[1] = pc[p][2] 
      /\ pc[p] = <<"open", pc[p][2]>> /\ pc[p][2] \in Kinds
  BY Place DEF Open, TypeInv, TypeOK
<1>3. Ahead(p, g) /\ g \notin met
  <2>1. Ahead(p, g)
    BY <1>2 DEF Ahead, OpensFrom, Fifo
  <2>2. QED
    BY <1>2, <2>1 DEF OpenInv, SideInv
<1>4. /\ UNCHANGED <<fifo, i>> /\ \A q \in Procs \ {p} : pc'[q] = pc[q]
      /\ pc'[p] = <<"wait", pc[p][2]>> /\ g' = g
      /\ ends' = ends \cup {<<p, g>>}
      /\ met' = met \cup (IF Reached(p) THEN {g} ELSE {})
  BY <1>1 DEF Open, Goto, Fifo, dataVars
<1>5. /\ In(p, f)' <=> f = g
      /\ ~In(p, f) /\ Has(p, "wait")' /\ ~Has(p, "killed")
  BY <1>2, <1>4 DEF In, Has
<1>6. p \in {Server, Client(f)} /\ Ahead(p, f)' => Ahead(p, f) /\ f # g
  <2>1. CASE p = Server
    <3>1. g' = <<pc'[p][2], i'>> /\ g = <<pc[p][2], i>> /\ pc'[p][1] = "wait"
      BY <1>4, <2>1 DEF Fifo
    <3>2. Turn(g) \in Int
      BY <1>2, TurnFacts
    <3>3. QED
      BY <1>4, <2>1, <3>1, <3>2 DEF Ahead, OpensFrom
  <2>2. CASE p # Server
    <3>1. p = Client(f) /\ p = Client(g) => f[2] = g[2]
      BY <1>2, ClientFacts
    <3>2. p = Client(f) /\ f[1] \in {"rr", "cr"} /\ pc[p][2] \in {"ro", "co"} => f # g
      BY <1>2
    <3>3. QED
      BY <1>2, <1>4, <2>2, <3>2 DEF Ahead, OpensFrom
  <2>3. QED
    BY <2>1, <2>2
<1>7. ASSUME NEW q \in Procs \ {p}
      PROVE  /\ In(q, f)' = In(q, f) /\ Ahead(q, f)' = Ahead(q, f) /\ Fifo(q)' = Fifo(q)
             /\ \A how : Has(q, how)' = Has(q, how)
             /\ <<q, f>> \in ends' <=> <<q, f>> \in ends
  BY <1>4, PlaceKept
<1>8. \* Who has g open without having met p waits for it.
      Reached(p) => In(Other(p, g), g) /\ Has(Other(p, g), "wait")
  <2>1. Other(p, g) \in {Server, Client(g)} /\ Reached(p) = (<<Other(p, g), g>> \in ends)
    BY <1>2, Sides DEF Reached
  <2>2. SideInv(Other(p, g), g)
    BY <1>2, <2>1 DEF OpenInv
  <2>3. QED
    BY <1>3, <2>1, <2>2 DEF SideInv
<1>9. ASSUME NEW q \in {Server, Client(f)} PROVE SideInv(q, f)'
  <2>1. SideInv(q, f) /\ q \in Procs
    BY <1>1, Sides
  <2>2. CASE q = p
    <3>1. f \in met' /\ f # g => f \in met
      BY <1>4
    <3>2. Ahead(q, f)' => f \notin met'
      BY <1>6, <2>1, <2>2, <3>1 DEF SideInv
    <3>3. In(q, f)' => <<q, f>> \in ends' /\ Has(q, "wait")'
      BY <1>4, <1>5, <2>2
    <3>4. <<q, f>> \in ends' => f \in met' \/ (In(q, f)' /\ Has(q, "wait")')
      BY <1>4, <1>5, <2>1, <2>2 DEF SideInv
    <3>5. QED
      BY <3>2, <3>3, <3>4 DEF SideInv
  <2>3. CASE q # p
    <3>1. f = g => q = Other(p, g)
      BY <1>2, <2>3, Sides
    <3>2. f = g /\ Reached(p) => ~Ahead(q, f)
      BY <1>8, <3>1, InNotAhead, <2>1
    <3>3. Ahead(q, f)' => f \notin met'
      BY <1>4, <1>7, <2>1, <2>3, <3>2 DEF SideInv
    <3>4. QED
      BY <1>4, <1>7, <2>1, <2>3, <3>3 DEF SideInv
  <2>4. QED
    BY <2>2, <2>3
<1>10. f \in met' /\ In(Writer(f), f)' => In(Reader(f), f)' \/ Has(Reader(f), "killed")'
  <2>1. CASE f = g
    <3>1. PICK q \in Procs \ {p} : q = Other(p, g)
      BY <1>2, <2>1, Sides
    <3>2. (Writer(f) = p /\ Reader(f) = q) \/ (Writer(f) = q /\ Reader(f) = p)
      BY <1>2, <2>1, <3>1, Sides
    <3>3. f \in met' => Reached(p)
      BY <1>3, <1>4, <2>1
    <3>4. f \in met' => In(p, f)' /\ In(q, f)'
      BY <1>5, <1>7, <1>8, <2>1, <3>1, <3>3
    <3>5. QED
      BY <3>2, <3>4
  <2>2. CASE f # g
    <3>1. f \in met' => f \in met
      BY <1>4, <2>2
    <3>2. Writer(f) \in Procs /\ Reader(f) \in Procs
      BY Sides
    <3>3. QED
      BY <1>1, <1>5, <1>7, <2>2, <3>1, <3>2 DEF PairInv
  <2>3. QED
    BY <2>1, <2>2
<1>11. Ahead(Writer(f), f)' \/ In(Writer(f), f)' => fifo'[f] = <<>>
  <2>1. Ahead(Writer(f), f)' => Ahead(Writer(f), f)
    BY <1>6, <1>7, Sides
  <2>2. In(Writer(f), f)' => In(Writer(f), f) \/ Ahead(Writer(f), f)
    BY <1>3, <1>5, <1>7, Sides
  <2>3. QED
    BY <1>1, <1>4, <2>1, <2>2 DEF PairInv
<1>12. /\ Turn(f)' = Turn(f) /\ Fifo(Server)' = Fifo(Server) /\ pc'[Server][2] = pc[Server][2]
       /\ Turn(Fifo(Server))' = Turn(Fifo(Server)) /\ \A h \in Fifos : Turn(h)' = Turn(h)
  <2>1. Fifo(Server)' = Fifo(Server) /\ pc'[Server][2] = pc[Server][2]
    <3>1. CASE p = Server
      BY <1>4, <3>1 DEF Fifo
    <3>2. CASE p # Server
      BY <1>4, <1>7, <3>2, Sides
    <3>3. QED
      BY <3>1, <3>2
  <2>2. QED
    BY <2>1 DEF Turn
<1>13. pc'[Server][2] \in Kinds /\ Turn(f)' < Turn(Fifo(Server))' => f \in met'
  BY <1>1, <1>4, <1>12 DEF PairInv
<1>14. \A h \in Fifos : h \in met' /\ Turn(f)' < Turn(h)' => f \in met'
  <2>1. SUFFICES ASSUME NEW h \in Fifos, h \in met', Turn(f) < Turn(h) PROVE f \in met'
    BY <1>12
  <2>2. CASE h \in met
    BY <1>1, <1>4, <2>1, <2>2 DEF PairInv
  <2>3. CASE h \notin met
    <3>1. h = g /\ Reached(p)
      BY <1>4, <2>1, <2>3
    <3>2. Fifo(Server) = g /\ pc[Server][2] \in Kinds
      <4>1. CASE p = Server
        BY <1>2, <4>1
      <4>2. CASE p # Server
        <5>1. In(Server, g)
          BY <1>8, <3>1, <4>2 DEF Other
        <5>2. QED
          BY <5>1, Place, Sides DEF In
      <4>3. QED
        BY <4>1, <4>2
    <3>3. QED
      BY <1>1, <1>4, <2>1, <3>1, <3>2 DEF PairInv
  <2>4. QED
    BY <2>2, <2>3
<1>15. QED
  BY <1>9, <1>10, <1>11, <1>13, <1>14 DEF PairInv, Writer, Reader, Client

\* The server goes on to the next FIFO.
LEMMA NextTurn ==
    ASSUME TypeInv, ReadReq \/ WriteReq \/ ReadRes \/ WriteRes
    PROVE  LET next == <<pc'[Server][2], i'>>
           IN  /\ pc[Server][1] \in {"read", "write"} /\ pc'[Server][1] \in {"make", "done"}
               /\ pc'[Server][2] \notin Kinds
                     \/ (next \in Fifos /\ Turn(next) = Turn(Fifo(Server)) + 1)
<1>1. /\ pc \in [Procs -> Calls \X (Kinds \cup {"none"})] /\ Server \in Procs
      /\ i \in 1..N /\ N \in Nat /\ Fifo(Server) = <<pc[Server][2], i>>
  BY ProcFacts, FifoOf, ConstantsAssumption DEF TypeInv, TypeOK, Req
<1>2. CASE ReadReq
  <2>1. pc[Server] = <<"read", "ro">>
    BY <1>2 DEF ReadReq, Get, At
  <2>2. \/ i = N /\ i' = 1 /\ pc'[Server] = <<"make", "co">>
        \/ i # N /\ i' = i + 1 /\ pc'[Server] = <<"make", "ro">>
    BY <1>1, <1>2 DEF ReadReq, NextRound, Goto
  <2>3. QED
    BY <1>1, <2>1, <2>2 DEF Turn, Fifos, Kinds, Req
<1>3. CASE WriteReq
  <2>1. pc[Server] = <<"write", "co">> /\ pc'[Server] = <<"make", "cr">> /\ i' = i
    BY <1>1, <1>3 DEF WriteReq, Put, At, Goto, dataVars
  <2>2. QED
    BY <1>1, <2>1 DEF Turn, Fifos, Kinds, Req
<1>4. CASE ReadRes
  <2>1. pc[Server] = <<"read", "cr">> /\ pc'[Server] = <<"make", "rr">> /\ i' = i
    BY <1>1, <1>4 DEF ReadRes, Get, At, Goto
  <2>2. QED
    BY <1>1, <2>1 DEF Turn, Fifos, Kinds, Req
<1>5. CASE WriteRes
  <2>1. pc[Server] = <<"write", "rr">>
    BY <1>5 DEF WriteRes, Put, At
  <2>2. \/ i = N /\ i' = 1 /\ pc'[Server] = <<"done", "none">>
        \/ i # N /\ i' = i + 1 /\ pc'[Server] = <<"make", "co">>
    BY <1>1, <1>5 DEF WriteRes, NextRound, Goto
  <2>3. QED
    BY <1>1, <2>1, <2>2 DEF Turn, Fifos, Kinds, Req
<1>6. QED
  BY <1>2, <1>3, <1>4, <1>5

LEMMA MainStep ==
    ASSUME TypeInv, OpenInv, ReadReq \/ WriteReq \/ ReadRes \/ WriteRes
    PROVE  OpenInv'
<1> DEFINE g == Fifo(Server)
           next == <<pc'[Server][2], i'>>
<1>1. /\ Server \in Procs /\ met' = met
      /\ pc \in [Procs -> Calls \X (Kinds \cup {"none"})]
      /\ ends \subseteq Procs \X made
  BY ProcFacts DEF TypeInv, TypeOK, ReadReq, WriteReq, ReadRes, WriteRes, dataVars
<1>2. /\ pc[Server][1] \in {"read", "write"} /\ pc'[Server][1] \in {"make", "done"}
      /\ pc'[Server][2] \notin Kinds \/ (next \in Fifos /\ Turn(next) = Turn(g) + 1)
  BY NextTurn
<1>3. g \in Fifos /\ g \in met /\ In(Server, g) /\ Turn(g) \in Int
  <2>1. g \in Fifos /\ g \in met
    BY <1>1, <1>2, Place, Met
  <2>2. QED
    BY <1>2, <2>1, TurnFacts DEF In
<1>4. \A q \in Procs \ {Server} : pc'[q] = pc[q]
  BY <1>1 DEF ReadReq, WriteReq, ReadRes, WriteRes, NextRound, Goto
<1>5. /\ ends' \subseteq ends
      /\ \A q \in Procs, f \in Fifos : q # Server /\ <<q, f>> \in ends => <<q, f>> \in ends'
  BY DEF ReadReq, WriteReq, ReadRes, WriteRes, Close
<1>6. \A f \in Fifos : <<Server, f>> \in ends' => f \in met
  BY <1>2, <1>5 DEF OpenInv, SideInv, Has
<1>7. \A f \in Fifos : OpensFrom(Server, f, pc'[Server], i') => Ahead(Server, f)
  <2>1. SUFFICES ASSUME NEW f \in Fifos, OpensFrom(Server, f, pc'[Server], i')
                 PROVE  Turn(g) < Turn(f) /\ pc[Server][2] \in Kinds
    BY DEF Ahead, OpensFrom, Fifo
  <2>2. pc[Server][2] \in Kinds
    BY <1>1, <1>2, Place
  <2>3. pc'[Server][2] \in Kinds /\ (Turn(next) < Turn(f) \/ next = f)
    BY <2>1 DEF OpensFrom
  <2>4. Turn(f) \in Int /\ Turn(next) = Turn(g) + 1
    BY <1>2, <2>3, TurnFacts
  <2>5. QED
    BY <1>3, <2>2, <2>3, <2>4
<1>8. pc'[Server][2] \in Kinds => \A f \in Fifos : Turn(f) < Turn(next) => f \in met
  <2>1. SUFFICES ASSUME pc'[Server][2] \in Kinds, NEW f \in Fifos, Turn(f) < Turn(next) 
                 PROVE  f \in met
    OBVIOUS
  <2>2. Turn(f) \in Int /\ Turn(next) = Turn(g) + 1
    BY <1>2, <2>1, TurnFacts
  <2>3. Turn(f) < Turn(g) \/ Turn(f) = Turn(g)
    BY <1>3, <2>1, <2>2
  <2>4. CASE Turn(f) = Turn(g)
    BY <1>3, <2>4, TurnFacts
  <2>5. CASE Turn(f) < Turn(g)
    BY <1>3, <2>5 DEF OpenInv, PairInv
  <2>6. QED
    BY <2>3, <2>4, <2>5
<1>9. \/ Writer(g) = Server /\ \E q : fifo' = [fifo EXCEPT ![g] = q]
      \/ /\ Reader(g) = Server /\ ~In(Writer(g), g)
         /\ fifo' = [fifo EXCEPT ![g] = <<>>]
  <2>1. ASSUME NEW kind \in Kinds, NEW words, Put(Server, kind, words)
        PROVE  Writer(g) = Server /\ \E q : fifo' = [fifo EXCEPT ![g] = q]
    <3>1. pc[Server] = <<"write", kind>> /\ fifo' = [fifo EXCEPT ![g] = @ \o words]
      BY <2>1 DEF Put, At
    <3>2. pc[Server][1] = "write"
      BY <3>1
    <3>3. QED
      BY <1>1, <3>1, <3>2, Place
  <2>2. ASSUME NEW kind \in Kinds, NEW n, Get(Server, kind, n),
               n = IF kind \in {"ro", "co"} THEN 3 ELSE 1
        PROVE  /\ Reader(g) = Server /\ ~In(Writer(g), g)
               /\ fifo' = [fifo EXCEPT ![g] = <<>>]
    BY <1>1, <2>2, ReadEffect, ReadWaits
  <2>3. CASE ReadReq
    BY <2>2, <2>3, KindsFact DEF ReadReq
  <2>4. CASE WriteReq
    BY <2>1, <2>4, KindsFact DEF WriteReq
  <2>5. CASE ReadRes
    BY <2>2, <2>5, KindsFact DEF ReadRes
  <2>6. CASE WriteRes
    BY <2>1, <2>6, KindsFact DEF WriteRes
  <2>7. QED
    BY <2>3, <2>4, <2>5, <2>6
<1>10. \A f \in Fifos : \/ fifo'[f] = fifo[f]
                        \/ /\ f \in met /\ f = g
                           /\ Server = Writer(f) \/ (Server = Reader(f) /\ fifo'[f] = <<>>)
  <2>1. DOMAIN fifo = Fifos
    BY DEF TypeInv, TypeOK
  <2>2. QED
    BY <1>3, <1>9, <2>1
<1>11. \A f \in Fifos : ~(Server = Reader(f) /\ In(Server, f) /\ In(Writer(f), f))
  BY <1>9, Sides DEF In
<1>12. Leaves(Server)
  <2>1. \A f \in Fifos : Server \in {Server, Client(f)} =>
            /\ OpensFrom(Server, f, pc'[Server], i') => Ahead(Server, f)
            /\ <<Server, f>> \in ends' => f \in met
    BY <1>6, <1>7
  <2>2. pc'[Server][1] \notin {"wait", "read", "write"} /\ ~Has(Server, "killed")
    BY <1>2 DEF Has
  <2>3. QED
    BY <1>1, <1>4, <1>5, <1>8, <1>10, <1>11, <2>1, <2>2 DEF Leaves
<1>13. QED
  BY <1>1, <1>12, LeaveStep

LEMMA StepOpen == TypeInv /\ OpenInv /\ [Next]_vars => OpenInv'
<1>1. ASSUME OpenInv, UNCHANGED vars PROVE OpenInv'
  <2>1. UNCHANGED <<met, ends, fifo, pc, i>>
    BY <1>1 DEF vars, dataVars
  <2>3. ASSUME NEW f \in Fifos, NEW q, SideInv(q, f) PROVE SideInv(q, f)'
    BY <2>1, <2>3, PlaceKept DEF SideInv
  <2>4. ASSUME NEW f \in Fifos, PairInv(f) PROVE PairInv(f)'
    BY <2>1, <2>4, PlaceKept DEF PairInv, Turn, Writer, Reader, Client
  <2>5. QED
    BY <1>1, <2>3, <2>4 DEF OpenInv
<1>2. Server \in Procs
  BY ProcFacts
<1>3. \A p \in Procs : Call(p) => Open(p) \/ Opened(p) \/ Broken(p)
  BY DEF Call
<1>4. QED
  BY <1>1, <1>2, <1>3, Steps, OpenStep, OpenedStep, EndStep, ClientOpen, MainStep

LEMMA InitInv == Init => TypeInv /\ OpenInv
<1> SUFFICES ASSUME Init PROVE TypeInv /\ OpenInv
  OBVIOUS
<1>1. /\ made \subseteq Fifos /\ ends = {} /\ met = {} /\ i = 1 /\ kills = 0
      /\ fifo = [f \in Fifos |-> <<>>]
      /\ pc \in [Procs -> Calls \X (Kinds \cup {"none"})]
      /\ pc[Server] = <<"make", "ro">>
      /\ \A k \in Req : pc[ReqP(k)] = <<"open", "ro">> /\ pc[CalcP(k)] = <<"open", "co">>
  <2>1. /\ Server[1] = "server" /\ \A p \in Procs : p[1] \in {"server", "req", "calc"}
        /\ \A k \in Req : ReqP(k)[1] = "req" /\ CalcP(k)[1] = "calc"
    BY DEF Procs, Clients, Server, ReqP, CalcP
  <2>2. pc = [p \in Procs |-> IF p[1] = "server" THEN <<"make", "ro">>
                              ELSE IF p[1] = "req" THEN <<"open", "ro">> ELSE <<"open", "co">>]
    BY <2>1 DEF Init
  <2>3. /\ <<"make", "ro">> \in Calls \X (Kinds \cup {"none"})
        /\ <<"open", "ro">> \in Calls \X (Kinds \cup {"none"})
        /\ <<"open", "co">> \in Calls \X (Kinds \cup {"none"})
    BY DEF Calls, Kinds
  <2>4. pc \in [Procs -> Calls \X (Kinds \cup {"none"})]
    BY <2>2, <2>3
  <2>5. QED
    BY <2>1, <2>2, <2>4, ProcFacts DEF Init
<1>2. TypeInv
  <2>1. <<>> \in Seq(Words)
    BY EmptySeq
  <2>2. /\ d \in [Req -> [1..3 -> Words]] /\ res \in [1..1 -> Words]
        /\ b \in [Req -> [1..3 -> Words]] /\ got \in [Req -> [1..1 -> Words]]
    BY WordFacts DEF Init
  <2>3. 1 \in Req /\ 0 \in 0..MaxKills
    BY ConstantsAssumption, FifoAssumption DEF Req
  <2>4. TypeOK
    BY <1>1, <2>1, <2>2, <2>3 DEF TypeOK
  <2>5. PcInv
    BY <1>1 DEF PcInv, ServerPcs, ReqPcs, CalcPcs, Kinds
  <2>6. QED
    BY <1>1, <2>4, <2>5 DEF TypeInv, ContentsInv
<1>3. ASSUME NEW f \in Fifos PROVE SideInv(Server, f) /\ SideInv(Client(f), f) /\ PairInv(f)
  <2>1. Fifo(Server) = <<"ro", 1>> /\ Turn(Fifo(Server)) = 1
    BY <1>1, FifoOf DEF Turn
  <2>2. ~(Turn(f) < 1)
    BY ClientFacts, ConstantsAssumption DEF Turn, Req, Kinds
  <2>3. \A q \in Procs : ~In(q, f)
    BY <1>1, ProcFacts DEF In
  <2>4. QED
    BY <1>1, <2>1, <2>2, <2>3, Sides DEF SideInv, PairInv
<1>4. QED
  BY <1>2, <1>3 DEF OpenInv

\* Every variable of FifoServer keeps to its type: a FIFO holds one message at
\* most, a read takes the whole of it, and the loop index stays among the
\* requests (server.c:46, 58).
THEOREM TypeCorrect == Spec => []TypeOK
<1>1. TypeInv => TypeOK
  BY DEF TypeInv
<1>2. QED
  BY <1>1, InitInv, TypeStep, StepOpen, PTL DEF Spec

-----------------------------------------------------------------------------
(* Who is ended by SIGPIPE.                                                *)

\* A process that has ended stays as it is.
LEMMA EndedStays ==
    ASSUME TypeInv, [Next]_vars, NEW p \in Procs
    PROVE  /\ Has(p, "killed") => Has(p, "killed")'
           /\ Has(p, "broken")' => Has(p, "broken") \/ Broken(p)
           /\ Has(p, "broken") \/ Has(p, "gone") \/ Has(p, "killed")
                 => pc'[p] = pc[p] /\ (p = Server => i' = i)
<1>1. /\ pc \in [Procs -> Calls \X (Kinds \cup {"none"})]
      /\ \A k \in Req : ReqP(k) # Server /\ CalcP(k) # Server
  BY ProcFacts DEF TypeInv, TypeOK
<1>2. CASE UNCHANGED vars
  BY <1>2 DEF vars, dataVars, Has
<1>3. CASE \E q \in Procs : Call(q) \/ Kill(q)
  <2>1. PICK q \in Procs : Open(q) \/ Opened(q) \/ Broken(q) \/ Kill(q)
    BY <1>3 DEF Call
  <2>2. i' = i
    BY <2>1 DEF Open, Opened, Broken, Kill, dataVars
  <2>3. q # p => pc'[p] = pc[p]
    BY <1>1, <2>1 DEF Open, Opened, Broken, Kill, End, Goto
  <2>4. CASE q = p
    <3>1. pc[p][1] \notin {"gone", "done", "broken", "killed"}
      BY <2>1, <2>4 DEF Open, Opened, Broken, Kill
    <3>2. Broken(p) \/ pc'[p][1] # "broken"
      BY <1>1, <2>1, <2>4 DEF Open, Opened, Kill, End, Goto
    <3>3. QED
      BY <3>1, <3>2 DEF Has
  <2>5. QED
    BY <2>2, <2>3, <2>4 DEF Has
<1>4. CASE Make \/ ReadReq \/ WriteReq \/ ReadRes \/ WriteRes
  <2>1. pc[Server][1] \in {"make", "read", "write"} /\ pc'[Server][1] \in {"make", "open", "done"}
    BY <1>1, <1>4, NextTurn, ProcFacts DEF Make, Goto
  <2>2. p # Server => pc'[p] = pc[p]
    BY <1>1, <1>4 DEF Make, ReadReq, WriteReq, ReadRes, WriteRes, NextRound, Goto
  <2>3. QED
    BY <2>1, <2>2 DEF Has
<1>5. CASE \E k \in Req : \/ OpenFails(ReqP(k)) \/ OpenFails(CalcP(k))
                          \/ ReqWrite(k) \/ ReqRead(k) \/ CalcRead(k) \/ CalcWrite(k)
  <2>1. PICK k \in Req : \/ OpenFails(ReqP(k)) \/ OpenFails(CalcP(k))
                         \/ ReqWrite(k) \/ ReqRead(k) \/ CalcRead(k) \/ CalcWrite(k)
    BY <1>5
  <2>2. i' = i
    BY <2>1 DEF OpenFails, ReqWrite, ReqRead, CalcRead, CalcWrite, dataVars
  <2>3. \E q \in {ReqP(k), CalcP(k)} : 
           /\ pc[q][1] \in {"open", "read", "write"}
           /\ \E s \in {<<"open", "rr">>, <<"open", "cr">>, <<"gone", "none">>} :
                 pc' = [pc EXCEPT ![q] = s]
    BY <2>1 DEF OpenFails, ReqWrite, ReqRead, CalcRead, CalcWrite, Put, Get, At, End, Goto
  <2>4. QED
    BY <1>1, <2>2, <2>3, ProcFacts DEF Has
<1>6. QED
  BY <1>2, <1>3, <1>4, <1>5, Steps

LEMMA BrokenStep ==
    ASSUME TypeInv, OpenInv, BrokenByKill, [Next]_vars
    PROVE  BrokenByKill'
<1>1. ASSUME NEW p \in Procs, Broken(p)
      PROVE  /\ Fifo(p) \in Fifos /\ Other(p, Fifo(p)) \in Procs
             /\ Has(Other(p, Fifo(p)), "killed")
  <2>1. /\ Fifo(p) \in Fifos /\ Writer(Fifo(p)) = p /\ In(p, Fifo(p)) /\ Fifo(p) \in met
        /\ <<Other(p, Fifo(p)), Fifo(p)>> \notin ends
    BY <1>1, Place, Met DEF Broken, In, Reached
  <2>2. Other(p, Fifo(p)) = Reader(Fifo(p)) /\ Reader(Fifo(p)) \in {Server, Client(Fifo(p))}
    BY <2>1, Sides
  <2>3. ~In(Reader(Fifo(p)), Fifo(p))
    BY <2>1, <2>2 DEF OpenInv, SideInv
  <2>4. QED
    BY <2>1, <2>2, <2>3, Sides DEF OpenInv, PairInv
<1>2. Server \in Procs /\ i \in Req /\ \A k \in Req : ReqP(k) \in Procs /\ CalcP(k) \in Procs
  BY ProcFacts DEF TypeInv, TypeOK
<1>3. PICK k \in Req : k = i
  BY <1>2
<1>4. i' = i \/ ~Has(Server, "broken")'
  <2>1. Broken(Server) => i' = i
    BY DEF Broken, dataVars
  <2>2. QED
    BY <1>2, <2>1, EndedStays
<1>5. Has(Server, "broken")' => Has(ReqP(k), "killed")' \/ Has(CalcP(k), "killed")'
  <2>1. CASE Has(Server, "broken")
    BY <1>2, <1>3, <2>1, EndedStays DEF BrokenByKill
  <2>2. CASE Broken(Server)
    <3>1. Fifo(Server)[2] = k
      BY <1>3, FifoOf
    <3>2. Other(Server, Fifo(Server)) \in {ReqP(k), CalcP(k)}
      BY <3>1 DEF Other, Client
    <3>3. Has(ReqP(k), "killed") \/ Has(CalcP(k), "killed")
      BY <1>1, <1>2, <2>2, <3>2
    <3>4. QED
      BY <1>2, <3>3, EndedStays
  <2>3. QED
    BY <1>2, <2>1, <2>2, EndedStays
<1>6. ASSUME NEW p \in Clients, Has(p, "broken")' PROVE Has(Server, "killed")'
  <2>1. p \in Procs /\ p # Server
    BY DEF Clients, Procs, ReqP, CalcP, Server
  <2>2. CASE Has(p, "broken")
    BY <1>2, <2>1, <2>2, EndedStays DEF BrokenByKill
  <2>3. CASE Broken(p)
    BY <1>1, <1>2, <2>1, <2>3, EndedStays DEF Other
  <2>4. QED
    BY <1>6, <2>1, <2>2, <2>3, EndedStays
<1>7. QED
  BY <1>3, <1>4, <1>5, <1>6 DEF BrokenByKill, Has

\* Whoever is ended by SIGPIPE wrote to a process that was terminated from
\* outside: reader and writer of a FIFO stay until the one has written and the
\* other has read (server.c:54, 83-85, req1.c:29, calc2.c:28).
THEOREM BrokenOnlyByKill == Spec => []BrokenByKill
<1>1. Init => BrokenByKill
  <2>1. SUFFICES ASSUME Init PROVE \A p \in Procs : ~Has(p, "broken")
    BY DEF BrokenByKill, Procs
  <2>2. TypeInv /\ OpenInv
    BY <2>1, InitInv
  <2>3. \A p \in Procs : p[1] \in {"server", "req", "calc"}
    BY DEF Procs, Clients, Server, ReqP, CalcP
  <2>4. QED
    BY <2>1, <2>3 DEF Init, Has
<1>2. QED
  BY <1>1, InitInv, TypeStep, StepOpen, BrokenStep, PTL DEF Spec

-----------------------------------------------------------------------------
(* Whose result a client reads.                                            *)

\* A step that is none of f's: its client may only end by being killed.
SameFifo(f) ==
    pc'[Client(f)][1] # "killed" =>
        LET inside == pc'[Client(f)][1] \in {"wait", "read", "write"} /\ pc'[Client(f)][2] = f[1]
        IN  /\ (f \in met' /\ <<pc'[Server][2], i'>> # f) <=> Past(f)
            /\ fifo'[f] = fifo[f]
            /\ f \in met' /\ ~inside => f \in met /\ ~In(Client(f), f)
            /\ Past(f) => (inside <=> In(Client(f), f))

\* What SameFifo says, in terms of the invariant.
LEMMA FifoKept ==
    ASSUME NEW f \in Fifos, SameFifo(f), ~Has(Client(f), "killed")'
    PROVE  /\ Past(f)' <=> Past(f)
           /\ fifo'[f] = fifo[f]
           /\ f \in met' /\ ~In(Client(f), f)' => f \in met /\ ~In(Client(f), f)
           /\ Past(f) => (In(Client(f), f)' <=> In(Client(f), f))
<1>1. Past(f)' <=> f \in met' /\ <<pc'[Server][2], i'>> # f
  BY DEF Past, Fifo
<1>2. In(Client(f), f)' <=> pc'[Client(f)][1] \in {"wait", "read", "write"} /\ pc'[Client(f)][2] = f[1]
  <2>1. f = <<f[1], f[2]>> /\ Client(f) # Server /\ Client(f)[2] = f[2]
    BY ClientFacts
  <2>2. QED
    BY <2>1 DEF In, Fifo, Client
<1>3. pc'[Client(f)][1] # "killed"
  BY DEF Has, Client
<1>4. QED
  BY <1>1, <1>2, <1>3 DEF SameFifo

LEMMA ClientOf ==
    ASSUME NEW k \in Req
    PROVE  /\ Client(<<"ro", k>>) = ReqP(k) /\ Client(<<"rr", k>>) = ReqP(k)
           /\ Client(<<"co", k>>) = CalcP(k) /\ Client(<<"cr", k>>) = CalcP(k)
           /\ <<"ro", k>> \in Fifos /\ <<"rr", k>> \in Fifos
           /\ <<"co", k>> \in Fifos /\ <<"cr", k>> \in Fifos
           /\ ReqP(k) \in Procs /\ CalcP(k) \in Procs
BY FifoOf, ProcFacts DEF Client

LEMMA RequestKept ==
    ASSUME NEW k \in Req, RequestInv(k), SameFifo(<<"ro", k>>), d'[k] = d[k],
           Has(ReqP(k), "killed") => Has(ReqP(k), "killed")'
    PROVE  RequestInv(k)'
<1>1. CASE Has(ReqP(k), "killed")'
  BY <1>1 DEF RequestInv
<1>2. CASE ~Has(ReqP(k), "killed")'
  <2>1. /\ Past(<<"ro", k>>)' <=> Past(<<"ro", k>>)
        /\ fifo'[<<"ro", k>>] = fifo[<<"ro", k>>]
        /\ <<"ro", k>> \in met' /\ ~In(ReqP(k), <<"ro", k>>)' 
              => <<"ro", k>> \in met /\ ~In(ReqP(k), <<"ro", k>>)
    BY <1>2, ClientOf, FifoKept
  <2>2. QED
    BY <1>2, <2>1 DEF RequestInv
<1>3. QED
  BY <1>1, <1>2

LEMMA CalcKept ==
    ASSUME NEW k \in Req, CalcInv(k), SameFifo(<<"co", k>>), SameFifo(<<"cr", k>>),
           d'[k] = d[k], b'[k] = b[k],
           Fifo(Server)' = <<"rr", k>> => Fifo(Server) = <<"rr", k>> /\ res' = res,
           Has(CalcP(k), "killed") => Has(CalcP(k), "killed")'
    PROVE  CalcInv(k)'
<1>1. CASE Has(CalcP(k), "killed")'
  BY <1>1 DEF CalcInv
<1>2. CASE ~Has(CalcP(k), "killed")'
  <2>1. /\ Past(<<"co", k>>)' <=> Past(<<"co", k>>)
        /\ fifo'[<<"co", k>>] = fifo[<<"co", k>>]
        /\ Past(<<"co", k>>) => (In(CalcP(k), <<"co", k>>)' <=> In(CalcP(k), <<"co", k>>))
    BY <1>2, ClientOf, FifoKept
  <2>2. /\ Past(<<"cr", k>>)' <=> Past(<<"cr", k>>)
        /\ fifo'[<<"cr", k>>] = fifo[<<"cr", k>>]
        /\ <<"cr", k>> \in met' /\ ~In(CalcP(k), <<"cr", k>>)' 
              => <<"cr", k>> \in met /\ ~In(CalcP(k), <<"cr", k>>)
    BY <1>2, ClientOf, FifoKept
  <2>3. Computed(b[k])' = Computed(b[k]) /\ Computed(d[k])' = Computed(d[k])
    BY DEF Computed
  <2>4. QED
    BY <1>2, <2>1, <2>2, <2>3 DEF CalcInv
<1>3. QED
  BY <1>1, <1>2

LEMMA ResultKept ==
    ASSUME NEW k \in Req, ResultInv(k), SameFifo(<<"rr", k>>), d'[k] = d[k], got'[k] = got[k],
           Has(ReqP(k), "killed") => Has(ReqP(k), "killed")',
           Has(CalcP(k), "killed") => Has(CalcP(k), "killed")'
    PROVE  ResultInv(k)'
<1>1. CASE Has(ReqP(k), "killed")'
  BY <1>1 DEF ResultInv
<1>2. CASE ~Has(ReqP(k), "killed")'
  <2>1. /\ Past(<<"rr", k>>)' <=> Past(<<"rr", k>>)
        /\ fifo'[<<"rr", k>>] = fifo[<<"rr", k>>]
        /\ Past(<<"rr", k>>) => (In(ReqP(k), <<"rr", k>>)' <=> In(ReqP(k), <<"rr", k>>))
    BY <1>2, ClientOf, FifoKept
  <2>2. Computed(d[k])' = Computed(d[k])
    BY DEF Computed
  <2>3. QED
    BY <1>2, <2>1, <2>2 DEF ResultInv
<1>3. QED
  BY <1>1, <1>2

\* What a step of one process leaves alone.
LEMMA SameStep ==
    ASSUME TypeInv, OpenInv, NEW f \in Fifos, NEW p \in Procs,
           \/ UNCHANGED vars
           \/ Open(p) \/ Opened(p) \/ (Kill(p) /\ p # Server)
           \/ (Broken(p) /\ p = Server)
           \/ Make
           \/ OpenFails(p)
    PROVE  SameFifo(f)
<1>1. /\ pc \in [Procs -> Calls \X (Kinds \cup {"none"})] /\ Server \in Procs
      /\ Client(f) \in Procs /\ Client(f) # Server /\ f = <<f[1], f[2]>> /\ Client(f)[2] = f[2]
      /\ SideInv(Server, f) /\ SideInv(Client(f), f) /\ PairInv(f)
  BY ProcFacts, Sides, ClientFacts DEF TypeInv, TypeOK, OpenInv
<1>2. Fifo(Server) = <<pc[Server][2], i>>
  BY FifoOf
<1>3. In(Client(f), f) <=> pc[Client(f)][1] \in {"wait", "read", "write"} /\ pc[Client(f)][2] = f[1]
  BY <1>1 DEF In, Fifo
<1>4. fifo' = fifo /\ i' = i
  BY DEF Open, Opened, Kill, Broken, Make, OpenFails, dataVars, vars
<1>5. CASE UNCHANGED vars
  BY <1>2, <1>3, <1>5 DEF vars, dataVars, SameFifo, Past
<1>6. CASE Open(p)
  <2>1. /\ Fifo(p) \in Fifos /\ p \in {Server, Client(Fifo(p))} /\ pc[p][1] = "open"
        /\ pc' = [pc EXCEPT ![p] = <<"wait", pc[p][2]>>]
        /\ met' = met \cup (IF Reached(p) THEN {Fifo(p)} ELSE {})
    BY <1>6, Place DEF Open, Goto, TypeInv, TypeOK
  <2>2. pc'[Server][2] = pc[Server][2]
    BY <1>1, <2>1
  <2>3. CASE f # Fifo(p)
    <3>1. f \in met' <=> f \in met
      BY <2>1, <2>3
    <3>2. p = Client(f) => pc[p][2] # f[1]
      BY <1>1, <2>3 DEF Fifo
    <3>3. QED
      BY <1>1, <1>2, <1>3, <1>4, <2>1, <2>2, <3>1, <3>2 DEF SameFifo, Past
  <2>4. CASE f = Fifo(p)
    <3>1. f \notin met
      <4>1. Ahead(p, f)
        BY <1>1, <2>1, <2>4, Place DEF Ahead, OpensFrom, Fifo
      <4>2. QED
        BY <2>1, <2>4, <1>1, <4>1 DEF SideInv
    <3>2. Reached(p) => In(Other(p, f), f)
      BY <1>1, <2>1, <2>4, <3>1, Sides DEF Reached, SideInv
    <3>3. f \in met' => Fifo(Server) = f
      BY <2>1, <2>4, <3>1, <3>2, Sides DEF In
    <3>4. f \in met' => pc'[Client(f)][1] \in {"wait", "read", "write"} /\ pc'[Client(f)][2] = f[1]
      <4>1. p = Client(f) => pc'[p] = <<"wait", f[1]>>
        BY <1>1, <2>1, <2>4, Place
      <4>2. p # Client(f) => p = Server /\ pc'[Client(f)] = pc[Client(f)]
        BY <1>1, <2>1, <2>4
      <4>3. QED
        BY <1>3, <2>1, <2>4, <3>1, <3>2, <4>1, <4>2, Sides
    <3>5. ~Past(f)
      BY <3>1 DEF Past
    <3>6. QED
      BY <1>2, <1>4, <2>2, <3>3, <3>4, <3>5 DEF SameFifo
  <2>5. QED
    BY <2>3, <2>4
<1>7. CASE Opened(p)
  <2>1. /\ pc[p][1] = "wait" /\ met' = met
        /\ \E call \in {"read", "write"} : pc' = [pc EXCEPT ![p] = <<call, pc[p][2]>>]
    BY <1>7 DEF Opened, Goto
  <2>2. QED
    BY <1>1, <1>2, <1>3, <1>4, <2>1 DEF SameFifo, Past
<1>8. CASE Make
  <2>1. pc' = [pc EXCEPT ![Server] = <<"open", pc[Server][2]>>] /\ met' = met
    BY <1>8 DEF Make, Goto
  <2>2. QED
    BY <1>1, <1>2, <1>3, <1>4, <2>1 DEF SameFifo, Past
<1>9. CASE Kill(p) /\ p # Server
  <2>1. pc' = [pc EXCEPT ![p] = <<"killed", "none">>] /\ met' = met
    BY <1>9 DEF Kill, End, Goto
  <2>2. QED
    BY <1>1, <1>2, <1>3, <1>4, <1>9, <2>1 DEF SameFifo, Past
<1>10. CASE OpenFails(p)
  <2>1. /\ p # Server /\ met' = met /\ pc[p][1] = "open"
        /\ \E s \in {<<"open", "rr">>, <<"open", "cr">>, <<"gone", "none">>} : pc' = [pc EXCEPT ![p] = s]
    BY <1>10 DEF OpenFails, End, Goto
  <2>2. QED
    BY <1>1, <1>2, <1>3, <1>4, <2>1 DEF SameFifo, Past
<1>11. CASE Broken(p) /\ p = Server
  <2>1. /\ pc' = [pc EXCEPT ![p] = <<"broken", "none">>] /\ met' = met
        /\ pc[p][1] = "write" /\ ~Reached(p)
    BY <1>11 DEF Broken, End, Goto
  <2>2. pc'[Client(f)] = pc[Client(f)] /\ pc'[Server][2] = "none"
    BY <1>1, <1>11, <2>1
  <2>3. CASE Fifo(Server) = f
    <3>1. Writer(f) = Server /\ In(Server, f) /\ f \in met /\ Reader(f) = Client(f)
      BY <1>1, <1>11, <2>1, <2>3, Place, Met, Sides DEF In
    <3>2. ~In(Client(f), f)
      BY <1>1, <1>11, <2>1, <2>3, Sides DEF Reached, SideInv
    <3>3. pc[Client(f)][1] = "killed"
      BY <1>1, <3>1, <3>2 DEF PairInv, Has
    <3>4. QED
      BY <2>2, <3>3 DEF SameFifo
  <2>4. CASE Fifo(Server) # f
    <3>1. f[1] # "none"
      BY ClientFacts DEF Kinds
    <3>2. <<pc'[Server][2], i'>> # f
      BY <1>1, <2>2, <3>1
    <3>3. QED
      BY <1>3, <1>4, <2>1, <2>2, <2>4, <3>2 DEF SameFifo, Past
  <2>5. QED
    BY <2>3, <2>4
<1>12. QED
  BY <1>5, <1>6, <1>7, <1>8, <1>9, <1>10, <1>11

\* A read or write of a client touches its own FIFO only.
LEMMA ClientSame ==
    ASSUME TypeInv, OpenInv, NEW k \in Req, NEW p \in {ReqP(k), CalcP(k)},
           \/ p = ReqP(k) /\ (ReqWrite(k) \/ ReqRead(k))
           \/ p = CalcP(k) /\ (CalcRead(k) \/ CalcWrite(k))
    PROVE  /\ \A f \in Fifos : f # Fifo(p) => SameFifo(f)
           /\ p \in Procs /\ Fifo(p) \in Fifos /\ Fifo(Server)' = Fifo(Server) /\ met' = met
           /\ ~Has(p, "killed") /\ In(p, Fifo(p)) /\ \A f : ~In(p, f)'
           /\ \A q \in Procs \ {p} : pc'[q] = pc[q]
<1>1. /\ p \in Procs /\ p # Server /\ p[2] = k /\ Server \in Procs
      /\ pc \in [Procs -> Calls \X (Kinds \cup {"none"})] /\ DOMAIN fifo = Fifos
  BY ProcFacts DEF TypeInv, TypeOK
<1>2. /\ pc[p][1] \in {"read", "write"} /\ met' = met /\ i' = i
      /\ \E s \in {<<"open", "rr">>, <<"open", "cr">>, <<"gone", "none">>} : pc' = [pc EXCEPT ![p] = s]
      /\ \E q : fifo' = [fifo EXCEPT ![Fifo(p)] = q]
  BY DEF ReqWrite, ReqRead, CalcRead, CalcWrite, Put, Get, At, End, Goto, dataVars
<1>3. Fifo(p) \in Fifos /\ In(p, Fifo(p))
  BY <1>1, <1>2, Place DEF In
<1>4. pc'[p][1] \in {"open", "gone"} /\ \A q \in Procs \ {p} : pc'[q] = pc[q]
  BY <1>1, <1>2
<1>5. Fifo(Server) = <<pc[Server][2], i>> /\ Fifo(Server)' = Fifo(Server)
  BY <1>1, <1>2, <1>4 DEF Fifo
<1>6. ASSUME NEW f \in Fifos, f # Fifo(p) PROVE SameFifo(f)
  <2>1. /\ Client(f) \in Procs /\ Client(f) # Server /\ f = <<f[1], f[2]>> /\ Client(f)[2] = f[2]
    BY ClientFacts
  <2>2. In(Client(f), f) <=> pc[Client(f)][1] \in {"wait", "read", "write"} /\ pc[Client(f)][2] = f[1]
    BY <2>1 DEF In, Fifo
  <2>3. fifo'[f] = fifo[f]
    BY <1>1, <1>2, <1>6
  <2>4. Client(f) = p => ~In(Client(f), f)
    BY <1>6 DEF In
  <2>5. pc'[Server] = pc[Server]
    BY <1>1, <1>4
  <2>6. QED
    BY <1>1, <1>2, <1>4, <1>5, <2>1, <2>2, <2>3, <2>4, <2>5 DEF SameFifo, Past
<1>7. ~Has(p, "killed") /\ \A f : ~In(p, f)'
  BY <1>2, <1>4 DEF In, Has
<1>8. QED
  BY <1>1, <1>2, <1>3, <1>4, <1>5, <1>6, <1>7

\* A read or write of the server touches the FIFO it is in, which is then past.
LEMMA ServerSame ==
    ASSUME TypeInv, OpenInv, ReadReq \/ WriteReq \/ ReadRes \/ WriteRes
    PROVE  /\ \A f \in Fifos : f # Fifo(Server) => SameFifo(f)
           /\ \A f \in Fifos : Past(f)' <=> f \in met
           /\ Fifo(Server) \in Fifos /\ Fifo(Server) \in met /\ In(Server, Fifo(Server))
           /\ Fifo(Server)' \notin met
           /\ met' = met /\ \A q \in Procs \ {Server} : pc'[q] = pc[q]
<1> DEFINE g == Fifo(Server)
           next == <<pc'[Server][2], i'>>
<1>1. /\ Server \in Procs /\ met' = met /\ DOMAIN fifo = Fifos
      /\ pc \in [Procs -> Calls \X (Kinds \cup {"none"})] /\ g = <<pc[Server][2], i>>
      /\ next = Fifo(Server)'
  BY ProcFacts, FifoOf DEF TypeInv, TypeOK, ReadReq, WriteReq, ReadRes, WriteRes, dataVars, Fifo
<1>2. /\ pc[Server][1] \in {"read", "write"} /\ pc'[Server][1] \in {"make", "done"}
      /\ pc'[Server][2] \notin Kinds \/ (next \in Fifos /\ Turn(next) = Turn(g) + 1)
  BY NextTurn
<1>3. g \in Fifos /\ g \in met /\ In(Server, g) /\ Turn(g) \in Int /\ pc[Server][2] \in Kinds
  <2>1. g \in Fifos /\ g \in met /\ pc[Server][2] \in Kinds
    BY <1>1, <1>2, Place, Met
  <2>2. QED
    BY <1>2, <2>1, TurnFacts DEF In
<1>4. \A q \in Procs \ {Server} : pc'[q] = pc[q]
  BY <1>1 DEF ReadReq, WriteReq, ReadRes, WriteRes, NextRound, Goto
<1>5. \A f \in Fifos : f \in met => next # f
  <2>1. SUFFICES ASSUME NEW f \in Fifos, f \in met, next = f PROVE FALSE
    OBVIOUS
  <2>2. Turn(f) = Turn(g) + 1
    BY <1>2, <2>1, ClientFacts
  <2>3. Ahead(Server, f)
    BY <1>1, <1>3, <2>2 DEF Ahead, OpensFrom
  <2>4. QED
    BY <2>1, <2>3 DEF OpenInv, SideInv
<1>6. \E q : fifo' = [fifo EXCEPT ![g] = q]
  BY DEF ReadReq, WriteReq, ReadRes, WriteRes, Put, Get
<1>7. ASSUME NEW f \in Fifos, f # g PROVE SameFifo(f)
  <2>1. /\ Client(f) \in Procs /\ Client(f) # Server /\ f = <<f[1], f[2]>> /\ Client(f)[2] = f[2]
    BY ClientFacts
  <2>2. In(Client(f), f) <=> pc[Client(f)][1] \in {"wait", "read", "write"} /\ pc[Client(f)][2] = f[1]
    BY <2>1 DEF In, Fifo
  <2>3. fifo'[f] = fifo[f]
    BY <1>1, <1>6, <1>7
  <2>4. QED
    BY <1>1, <1>4, <1>5, <1>7, <2>1, <2>2, <2>3 DEF SameFifo, Past
<1>8. \A f \in Fifos : Past(f)' <=> f \in met
  BY <1>1, <1>5 DEF Past
<1>9. met \subseteq Fifos
  BY DEF TypeInv, TypeOK
<1>10. QED
  BY <1>1, <1>3, <1>4, <1>5, <1>7, <1>8, <1>9

\* A client's own read or write.
LEMMA ClientChain ==
    ASSUME TypeInv, OpenInv, NEW k \in Req, NEW j \in Req,
           ReqWrite(k) \/ ReqRead(k) \/ CalcRead(k) \/ CalcWrite(k),
           RequestInv(j), CalcInv(j), ResultInv(j),
           Has(ReqP(j), "killed") => Has(ReqP(j), "killed")',
           Has(CalcP(j), "killed") => Has(CalcP(j), "killed")'
    PROVE  RequestInv(j)' /\ CalcInv(j)' /\ ResultInv(j)'
<1>1. /\ <<"ro", j>> \in Fifos /\ <<"rr", j>> \in Fifos /\ <<"co", j>> \in Fifos /\ <<"cr", j>> \in Fifos
      /\ ReqP(k) \in Procs /\ CalcP(k) \in Procs /\ ReqP(k) # CalcP(k)
      /\ ReqP(j) \in Procs /\ CalcP(j) \in Procs
      /\ Fifo(ReqP(k)) = <<pc[ReqP(k)][2], k>> /\ Fifo(CalcP(k)) = <<pc[CalcP(k)][2], k>>
      /\ b[k] \in [1..3 -> Words] /\ DOMAIN b = Req /\ DOMAIN got = Req /\ DOMAIN fifo = Fifos
  BY FifoOf, ProcFacts DEF TypeInv, TypeOK
<1>2. d' = d /\ res' = res
  BY DEF ReqWrite, ReqRead, CalcRead, CalcWrite, dataVars
<1>3. CASE ReqWrite(k)
  <2>1. Fifo(ReqP(k)) = <<"ro", k>> /\ b' = b /\ got' = got
    BY <1>1, <1>3 DEF ReqWrite, Put, At, dataVars
  <2>2. /\ \A f \in Fifos : f # <<"ro", k>> => SameFifo(f)
        /\ Fifo(Server)' = Fifo(Server) /\ met' = met
    BY <1>3, <2>1, ClientSame
  <2>3. fifo' = [fifo EXCEPT ![<<"ro", k>>] = Data(k)]
    BY <1>1, <1>3, <2>1, KindsFact, WordFacts, WriteEffect DEF ReqWrite
  <2>4. CalcInv(j)' /\ ResultInv(j)'
    BY <1>1, <1>2, <2>1, <2>2, CalcKept, ResultKept
  <2>5. CASE j = k
    <3>1. Past(<<"ro", k>>)' <=> Past(<<"ro", k>>)
      BY <2>2 DEF Past
    <3>2. fifo'[<<"ro", k>>] = Data(k)
      BY <1>1, <2>3, <2>5
    <3>3. Data(k)' = Data(k)
      BY DEF Data
    <3>4. QED
      BY <1>2, <2>4, <2>5, <3>1, <3>2, <3>3 DEF RequestInv
  <2>6. CASE j # k
    BY <1>1, <1>2, <2>2, <2>4, <2>6, RequestKept
  <2>7. QED
    BY <2>5, <2>6
<1>4. CASE ReqRead(k)
  <2>0. b' = b /\ Get(ReqP(k), "rr", 1) /\ pc[ReqP(k)] = <<"read", "rr">>
    BY <1>4 DEF ReqRead, Get, At
  <2>1. Fifo(ReqP(k)) = <<"rr", k>> /\ b' = b /\ Get(ReqP(k), "rr", 1)
    BY <1>1, <2>0
  <2>2. /\ \A f \in Fifos : f # <<"rr", k>> => SameFifo(f)
        /\ Fifo(Server)' = Fifo(Server) /\ met' = met /\ ~Has(ReqP(k), "killed")
        /\ In(ReqP(k), <<"rr", k>>) /\ ~In(ReqP(k), <<"rr", k>>)'
    BY <1>4, <2>1, ClientSame
  <2>3. got' = [got EXCEPT ![k] = IF fifo[<<"rr", k>>] = <<>> THEN @ ELSE fifo[<<"rr", k>>]]
    <3>1. \A x : Buffer(ReqP(k), 1, x) = IF fifo[<<"rr", k>>] = <<>> THEN x ELSE fifo[<<"rr", k>>]
      BY <1>1, <2>1, KindsFact, ReadEffect
    <3>2. QED
      BY <1>4, <3>1 DEF ReqRead
  <2>4. RequestInv(j)' /\ CalcInv(j)'
    BY <1>1, <1>2, <2>1, <2>2, CalcKept, RequestKept
  <2>5. CASE j = k
    <3>1. Past(<<"rr", k>>)' <=> Past(<<"rr", k>>)
      BY <2>2 DEF Past
    <3>3. fifo[<<"rr", k>>] = <<Computed(d[k])>> => got'[k] = <<Computed(d[k])>>
      BY <1>1, <2>3
    <3>4. Computed(d[k])' = Computed(d[k])
      BY <1>2 DEF Computed
    <3>5. QED
      BY <1>2, <2>2, <2>4, <2>5, <3>1, <3>3, <3>4 DEF ResultInv
  <2>6. CASE j # k
    BY <1>1, <1>2, <2>2, <2>3, <2>4, <2>6, ResultKept
  <2>7. QED
    BY <2>5, <2>6
<1>5. CASE CalcRead(k)
  <2>0. got' = got /\ Get(CalcP(k), "co", 3) /\ pc[CalcP(k)] = <<"read", "co">>
    BY <1>5 DEF CalcRead, Get, At
  <2>1. Fifo(CalcP(k)) = <<"co", k>> /\ got' = got /\ Get(CalcP(k), "co", 3)
    BY <1>1, <2>0
  <2>2. /\ \A f \in Fifos : f # <<"co", k>> => SameFifo(f)
        /\ Fifo(Server)' = Fifo(Server) /\ met' = met /\ ~Has(CalcP(k), "killed")
        /\ In(CalcP(k), <<"co", k>>) /\ ~In(CalcP(k), <<"co", k>>)'
    BY <1>5, <2>1, ClientSame
  <2>3. b' = [b EXCEPT ![k] = IF fifo[<<"co", k>>] = <<>> THEN @ ELSE fifo[<<"co", k>>]]
    <3>1. \A x : Buffer(CalcP(k), 3, x) = IF fifo[<<"co", k>>] = <<>> THEN x ELSE fifo[<<"co", k>>]
      BY <1>1, <2>1, KindsFact, ReadEffect
    <3>2. QED
      BY <1>5, <3>1 DEF CalcRead
  <2>4. RequestInv(j)' /\ ResultInv(j)'
    BY <1>1, <1>2, <2>1, <2>2, ResultKept, RequestKept
  <2>5. CASE j = k
    <3>1. Past(<<"co", k>>)' <=> Past(<<"co", k>>)
      BY <2>2 DEF Past
    <3>3. <<"cr", k>> \notin met'
      <4>1. CalcP(k) # Server /\ Client(<<"cr", k>>) = CalcP(k)
        BY ClientOf, ProcFacts
      <4>2. Ahead(CalcP(k), <<"cr", k>>)
        BY <2>0, <4>1 DEF Ahead, OpensFrom
      <4>3. QED
        BY <1>1, <2>2, <2>5, <4>1, <4>2 DEF OpenInv, SideInv
    <3>4. d[k] \in [1..3 -> Words]
      BY DEF TypeInv, TypeOK
    <3>5. fifo[<<"co", k>>] = d[k] => b'[k] = d[k]
      <4>0. \A x \in [1..3 -> Words] : x # <<>>
        <5>1. 3 \in Nat \ {0}
          OBVIOUS
        <5>2. QED
          BY <5>1, WholeRead
      <4>1. d[k] # <<>>
        BY <3>4, <4>0
      <4>2. QED
        BY <1>1, <2>3, <4>1
    <3>6. Computed(d[k])' = Computed(d[k])
      BY <1>2 DEF Computed
    <3>7. QED
      BY <1>2, <2>2, <2>4, <2>5, <3>1, <3>3, <3>5, <3>6 DEF CalcInv
  <2>6. CASE j # k
    BY <1>1, <1>2, <2>2, <2>3, <2>4, <2>6, CalcKept
  <2>7. QED
    BY <2>5, <2>6
<1>6. CASE CalcWrite(k)
  <2>1. Fifo(CalcP(k)) = <<"cr", k>> /\ b' = b /\ got' = got
    BY <1>1, <1>6 DEF CalcWrite, Put, At, dataVars
  <2>2. /\ \A f \in Fifos : f # <<"cr", k>> => SameFifo(f)
        /\ Fifo(Server)' = Fifo(Server) /\ met' = met /\ ~Has(CalcP(k), "killed")
    BY <1>6, <2>1, ClientSame
  <2>3. fifo' = [fifo EXCEPT ![<<"cr", k>>] = <<Computed(b[k])>>]
    BY <1>1, <1>6, <2>1, KindsFact, WordFacts, WriteEffect DEF CalcWrite
  <2>4. RequestInv(j)' /\ ResultInv(j)'
    BY <1>1, <1>2, <2>1, <2>2, RequestKept, ResultKept
  <2>5. CASE j = k
    <3>1. /\ Past(<<"co", k>>)' <=> Past(<<"co", k>>)
          /\ Past(<<"cr", k>>)' <=> Past(<<"cr", k>>)
      BY <2>2 DEF Past
    <3>2. fifo'[<<"cr", k>>] = <<Computed(b[k])>> /\ fifo'[<<"co", k>>] = fifo[<<"co", k>>]
      BY <1>1, <2>3, <2>5
    <3>3. ~In(CalcP(k), <<"co", k>>)' /\ ~In(CalcP(k), <<"co", k>>)
      BY <1>6 DEF In, CalcWrite, Put, At, End, Goto, Fifo, TypeInv, TypeOK
    <3>4. Computed(d[k])' = Computed(d[k]) /\ Computed(b[k])' = Computed(b[k])
      BY <1>2, <2>1 DEF Computed
    <3>5. QED
      BY <1>2, <2>1, <2>2, <2>4, <2>5, <3>1, <3>2, <3>3, <3>4 DEF CalcInv
  <2>6. CASE j # k
    BY <1>1, <1>2, <2>1, <2>2, <2>4, <2>6, CalcKept
  <2>7. QED
    BY <2>5, <2>6
<1>7. QED
  BY <1>3, <1>4, <1>5, <1>6

\* The server reads or writes.
LEMMA ServerChain ==
    ASSUME TypeInv, OpenInv, ReadReq \/ WriteReq \/ ReadRes \/ WriteRes, NEW j \in Req,
           RequestInv(j), CalcInv(j), ResultInv(j)
    PROVE  RequestInv(j)' /\ CalcInv(j)' /\ ResultInv(j)'
<1>1. PICK k \in Req : k = i
  BY DEF TypeInv, TypeOK
<1> DEFINE ro == <<"ro", j>>
           rr == <<"rr", j>>
           co == <<"co", j>>
           cr == <<"cr", j>>
           Req_j == ReqP(j)
           Calc_j == CalcP(j)
<1> HIDE DEF ro, rr, co, cr, Req_j, Calc_j
<1>2. /\ ro \in Fifos /\ rr \in Fifos /\ co \in Fifos /\ cr \in Fifos
      /\ Req_j \in Procs \ {Server} /\ Calc_j \in Procs \ {Server}
      /\ Client(ro) = Req_j /\ Client(rr) = Req_j /\ Client(co) = Calc_j /\ Client(cr) = Calc_j
      /\ Fifo(Server) = <<pc[Server][2], k>> /\ Server \in Procs
      /\ d[j] \in [1..3 -> Words] /\ DOMAIN d = Req /\ DOMAIN fifo = Fifos
      /\ ro # rr /\ ro # co /\ ro # cr /\ rr # co /\ rr # cr /\ co # cr
      /\ Turn(ro) = j /\ Turn(co) = N + 3 * j - 2 /\ Turn(cr) = N + 3 * j - 1 /\ Turn(rr) = N + 3 * j
      /\ j \in 1..N /\ N \in Nat
  BY <1>1, ClientOf, FifoOf, ProcFacts, ConstantsAssumption
     DEF TypeInv, TypeOK, ro, rr, co, cr, Req_j, Calc_j, Turn, Req
<1>3. /\ \A f \in Fifos : f # Fifo(Server) => SameFifo(f)
      /\ \A f \in Fifos : Past(f)' <=> f \in met
      /\ Fifo(Server) \in Fifos /\ Fifo(Server) \in met /\ In(Server, Fifo(Server))
      /\ Fifo(Server)' \notin met /\ met' = met
      /\ \A q \in Procs \ {Server} : pc'[q] = pc[q]
  BY ServerSame
<1>4. /\ b' = b /\ got' = got
      /\ Has(Req_j, "killed")' <=> Has(Req_j, "killed")
      /\ Has(Calc_j, "killed")' <=> Has(Calc_j, "killed")
      /\ \A f : In(Req_j, f)' <=> In(Req_j, f)
      /\ \A f : In(Calc_j, f)' <=> In(Calc_j, f)
  <2>1. b' = b /\ got' = got
    BY DEF ReadReq, WriteReq, ReadRes, WriteRes, dataVars
  <2>2. pc'[Req_j] = pc[Req_j] /\ pc'[Calc_j] = pc[Calc_j] /\ Req_j # Server /\ Calc_j # Server
    BY <1>2, <1>3
  <2>3. /\ Has(Req_j, "killed")' <=> Has(Req_j, "killed")
        /\ \A f : In(Req_j, f)' <=> In(Req_j, f)
    BY <2>2, PlaceKept DEF Req_j
  <2>4. /\ Has(Calc_j, "killed")' <=> Has(Calc_j, "killed")
        /\ \A f : In(Calc_j, f)' <=> In(Calc_j, f)
    BY <2>2, PlaceKept DEF Calc_j
  <2>5. QED
    BY <2>1, <2>3, <2>4
<1>5. /\ RequestInv(j) <=>
            /\ Past(ro) /\ ~Has(Req_j, "killed") => d[j] = Data(j)
            /\ ~In(Req_j, ro) /\ ~Has(Req_j, "killed") /\ ro \in met => fifo[ro] = Data(j) \/ Past(ro)
      /\ CalcInv(j) <=>
            /\ Past(co) /\ ~Has(Calc_j, "killed")
                  => IF In(Calc_j, co) THEN fifo[co] = d[j] ELSE b[j] = d[j]
            /\ ~In(Calc_j, cr) /\ ~Has(Calc_j, "killed") /\ cr \in met
                  => fifo[cr] = <<Computed(b[j])>> \/ Past(cr)
            /\ Fifo(Server) = rr /\ ~Has(Calc_j, "killed") => res = <<Computed(d[j])>>
      /\ ResultInv(j) <=>
            (Past(rr) /\ ~Has(Calc_j, "killed") /\ ~Has(Req_j, "killed")
                => IF In(Req_j, rr) THEN fifo[rr] = <<Computed(d[j])>>
                   ELSE got[j] = <<Computed(d[j])>>)
  BY DEF RequestInv, CalcInv, ResultInv, ro, rr, co, cr, Req_j, Calc_j
<1>6. /\ (~Has(Req_j, "killed") => d'[j] = Data(j)) => RequestInv(j)' \/ ro \notin met
      /\ (~Has(Calc_j, "killed") => /\ co \in met => IF In(Calc_j, co) THEN fifo'[co] = d'[j] ELSE b[j] = d'[j]
                                    /\ Fifo(Server)' = rr => res' = <<Computed(d'[j])>>)
            => CalcInv(j)'
      /\ (~Has(Calc_j, "killed") /\ ~Has(Req_j, "killed") /\ rr \in met
              => IF In(Req_j, rr) THEN fifo'[rr] = <<Computed(d'[j])>> ELSE got[j] = <<Computed(d'[j])>>)
            => ResultInv(j)'
  <2>1. /\ Data(j)' = Data(j) /\ Computed(d[j])' = Computed(d'[j]) /\ Computed(b[j])' = Computed(b'[j])
    BY DEF Data, Computed
  <2>2. QED
    BY <1>2, <1>3, <1>4, <2>1 DEF RequestInv, CalcInv, ResultInv, ro, rr, co, cr, Req_j, Calc_j
<1>7. ASSUME NEW f \in Fifos, f # Fifo(Server), f \in met PROVE Past(f)
  BY <1>7 DEF Past
<1>8. \* A FIFO that comes later has not been opened by the server.
      ASSUME NEW f \in Fifos, pc[Server][2] \in Kinds, Turn(Fifo(Server)) < Turn(f)
      PROVE  f \notin met
  <2>1. Ahead(Server, f)
    BY <1>8 DEF Ahead, OpensFrom, Fifo
  <2>2. QED
    BY <2>1 DEF OpenInv, SideInv
<1>9. /\ pc \in [Procs -> Calls \X (Kinds \cup {"none"})]
      /\ pc'[Server][2] # "rr" => Fifo(Server)' # rr
  <2>1. Fifo(Server)'[1] = pc'[Server][2]
    BY DEF Fifo
  <2>2. QED
    BY <2>1 DEF rr, TypeInv, TypeOK
<1>10. \* The requests of the other rounds stay where they are.
       ASSUME j # k, d'[j] = d[j], Fifo(Server)' # rr
       PROVE  RequestInv(j)' /\ CalcInv(j)' /\ ResultInv(j)'
  <2>1. ro # Fifo(Server) /\ co # Fifo(Server) /\ cr # Fifo(Server) /\ rr # Fifo(Server)
    BY <1>2, <1>10 DEF ro, co, cr, rr
  <2>2. SameFifo(ro) /\ SameFifo(co) /\ SameFifo(cr) /\ SameFifo(rr)
    BY <1>2, <1>3, <2>1
  <2>3. QED
    BY <1>4, <1>10, <2>2, RequestKept, CalcKept, ResultKept DEF ro, co, cr, rr, Req_j, Calc_j
<1>11. CASE ReadReq
  <2>1. /\ pc[Server] = <<"read", "ro">> /\ Get(Server, "ro", 3) /\ res' = res
        /\ d' = [d EXCEPT ![i] = Buffer(Server, 3, @)]
    BY <1>11 DEF ReadReq, Get, At
  <2>2. Fifo(Server) = <<"ro", k>> /\ pc[Server][2] \in Kinds
    BY <1>2, <2>1, KindsFact
  <2>3. Fifo(Server)' # rr
    BY <1>2, <1>9, <1>11 DEF ReadReq, NextRound, Goto
  <2>4. CASE j = k
    <3>1. Fifo(Server) = ro
      BY <2>2, <2>4 DEF ro
    <3>2. co \notin met /\ cr \notin met /\ rr \notin met
      BY <1>2, <1>8, <2>2, <3>1
    <3>3. ~Has(Req_j, "killed") => fifo[ro] = Data(j)
      <4>1. Reader(ro) = Server /\ Writer(ro) = Req_j /\ (fifo[ro] # <<>> \/ ~Reached(Server))
        BY <1>2, <2>1, <3>1, KindsFact, ReadEffect, Sides
      <4>2. ~In(Req_j, ro)
        BY <1>2, <3>1, <4>1, ReadWaits
      <4>3. QED
        BY <1>3, <1>5, <3>1, <4>2 DEF Past
    <3>4. fifo[ro] = Data(j) => d'[j] = Data(j)
      <4>1. Data(j) # <<>>
        BY WholeRead, WordFacts
      <4>2. Buffer(Server, 3, d[j]) = IF fifo[ro] = <<>> THEN d[j] ELSE fifo[ro]
        BY <1>2, <2>1, <3>1, KindsFact, ReadEffect
      <4>3. QED
        BY <1>1, <1>2, <2>1, <2>4, <4>1, <4>2
    <3>5. QED
      BY <1>3, <1>6, <2>3, <3>1, <3>2, <3>3, <3>4
  <2>5. CASE j # k
    BY <1>1, <1>2, <1>10, <2>1, <2>3, <2>5
  <2>6. QED
    BY <2>4, <2>5
<1>12. CASE WriteReq
  <2>1. /\ pc[Server] = <<"write", "co">> /\ Put(Server, "co", d[k]) /\ res' = res /\ d' = d
        /\ pc'[Server] = <<"make", "cr">>
    BY <1>1, <1>2, <1>9, <1>12 DEF WriteReq, Put, At, Goto, dataVars
  <2>2. Fifo(Server) = <<"co", k>> /\ pc[Server][2] \in Kinds /\ Fifo(Server)' # rr
    BY <1>2, <1>9, <2>1, KindsFact
  <2>3. CASE j = k
    <3>1. Fifo(Server) = co /\ ro # Fifo(Server)
      BY <1>2, <2>2, <2>3 DEF co
    <3>2. rr \notin met
      BY <1>2, <1>8, <2>2, <3>1
    <3>3. fifo'[co] = d[j]
      BY <1>2, <2>1, <2>3, <3>1, KindsFact, WriteEffect
    <3>4. ~Has(Calc_j, "killed") => In(Calc_j, co)
      <4>1. Writer(co) = Server /\ Reader(co) = Calc_j
        BY <1>2 DEF Writer, Reader, co
      <4>2. QED
        BY <1>2, <1>3, <3>1, <4>1 DEF OpenInv, PairInv
    <3>5. RequestInv(j)'
      BY <1>2, <1>3, <1>4, <2>1, <3>1, RequestKept DEF ro, Req_j
    <3>6. QED
      BY <1>6, <2>1, <2>2, <3>2, <3>3, <3>4, <3>5
  <2>4. CASE j # k
    BY <1>10, <2>1, <2>2, <2>4
  <2>5. QED
    BY <2>3, <2>4
<1>13. CASE ReadRes
  <2>1. /\ pc[Server] = <<"read", "cr">> /\ Get(Server, "cr", 1) /\ d' = d
        /\ res' = Buffer(Server, 1, res) /\ pc'[Server] = <<"make", "rr">> /\ i' = i
    BY <1>2, <1>9, <1>13 DEF ReadRes, Get, At, Goto
  <2>2. Fifo(Server) = <<"cr", k>> /\ Fifo(Server)' = <<"rr", k>>
    BY <1>1, <1>2, <2>1 DEF Fifo
  <2>3. CASE j = k
    <3>1. Fifo(Server) = cr /\ ro # cr /\ rr # cr /\ co # cr
      BY <1>2, <2>2, <2>3 DEF cr
    <3>2. co \in met /\ Past(co)
      <4>1. PairInv(co) /\ cr \in met
        BY <1>2, <1>3, <3>1 DEF OpenInv
      <4>2. Turn(co) < Turn(cr)
        BY <1>2
      <4>3. QED
        BY <1>2, <1>7, <3>1, <4>1, <4>2 DEF PairInv
    <3>3. ~In(Calc_j, co)
      <4>1. In(Calc_j, co) => pc[Calc_j][2] = "co" /\ cr[1] = "cr"
        BY <1>2 DEF In, Fifo, co, cr
      <4>2. In(Calc_j, co) => Ahead(Calc_j, cr)
        BY <1>2, <4>1 DEF Ahead, OpensFrom
      <4>3. QED
        BY <1>2, <1>3, <3>1, <4>2 DEF OpenInv, SideInv
    <3>4. ~Has(Calc_j, "killed") => fifo[cr] = <<Computed(d[j])>>
      <4>1. Reader(cr) = Server /\ Writer(cr) = Calc_j /\ (fifo[cr] # <<>> \/ ~Reached(Server))
        BY <1>2, <2>1, <3>1, KindsFact, ReadEffect, Sides
      <4>2. ~In(Calc_j, cr)
        BY <1>2, <3>1, <4>1, ReadWaits
      <4>3. QED
        BY <1>3, <1>5, <3>1, <3>2, <3>3, <4>2 DEF Past
    <3>5. ~Has(Calc_j, "killed") => res' = <<Computed(d[j])>>
      <4>1. res' = IF fifo[cr] = <<>> THEN res ELSE fifo[cr]
        BY <1>2, <2>1, <3>1, KindsFact, ReadEffect
      <4>2. <<Computed(d[j])>> # <<>>
        OBVIOUS
      <4>3. QED
        BY <3>4, <4>1, <4>2
    <3>6. RequestInv(j)' /\ ResultInv(j)'
      BY <1>2, <1>3, <1>4, <2>1, <3>1, RequestKept, ResultKept DEF ro, rr, Req_j, Calc_j
    <3>7. ~Has(Calc_j, "killed") => b[j] = d[j]
      BY <1>5, <3>2, <3>3
    <3>8. QED
      BY <1>6, <2>1, <3>3, <3>5, <3>6, <3>7
  <2>4. CASE j # k
    BY <1>10, <2>1, <2>2, <2>4 DEF rr
  <2>5. QED
    BY <2>3, <2>4
<1>14. CASE WriteRes
  <2>1. pc[Server] = <<"write", "rr">> /\ Put(Server, "rr", res) /\ res' = res /\ d' = d
    BY <1>14 DEF WriteRes, Put, At
  <2>2. Fifo(Server) = <<"rr", k>> /\ pc'[Server][2] # "rr" /\ Fifo(Server)' # rr
    BY <1>2, <1>9, <1>14, <2>1 DEF WriteRes, NextRound, Goto
  <2>3. CASE j = k
    <3>1. Fifo(Server) = rr /\ ro # rr /\ co # rr /\ cr # rr
      BY <1>2, <2>2, <2>3 DEF rr
    <3>2. fifo'[rr] = res
      <4>1. res \in [1..1 -> Words]
        BY DEF TypeInv, TypeOK
      <4>2. fifo' = [fifo EXCEPT ![rr] = res]
        BY <1>2, <2>1, <3>1, <4>1, KindsFact, WriteEffect
      <4>3. QED
        BY <1>2, <4>2
    <3>3. ~Has(Req_j, "killed") => In(Req_j, rr)
      <4>1. Writer(rr) = Server /\ Reader(rr) = Req_j
        BY <1>2, <3>1 DEF Writer, Reader, rr
      <4>2. QED
        BY <1>2, <1>3, <3>1, <4>1 DEF OpenInv, PairInv
    <3>4. RequestInv(j)' /\ CalcInv(j)'
      BY <1>2, <1>3, <1>4, <2>1, <2>2, <3>1, RequestKept, CalcKept DEF ro, co, cr, rr, Req_j, Calc_j
    <3>5. ~Has(Calc_j, "killed") => res = <<Computed(d[j])>>
      BY <1>5, <3>1
    <3>6. QED
      BY <1>6, <2>1, <3>2, <3>3, <3>4, <3>5
  <2>4. CASE j # k
    BY <1>10, <2>1, <2>2, <2>4
  <2>5. QED
    BY <2>3, <2>4
<1>15. QED
  BY <1>11, <1>12, <1>13, <1>14

\* What is in every FIFO and buffer stays that of its own round.
LEMMA ChainStep ==
    ASSUME TypeInv, OpenInv, BrokenByKill, ChainInv, [Next]_vars
    PROVE  ChainInv'
<1>1. BrokenByKill' /\ TypeInv'
  BY BrokenStep, TypeStep
<1>2. SUFFICES ASSUME ~Has(Server, "killed")', NEW j \in Req
               PROVE  RequestInv(j)' /\ CalcInv(j)' /\ ResultInv(j)'
  BY DEF ChainInv
<1>3. /\ Server \in Procs /\ ReqP(j) \in Procs /\ CalcP(j) \in Procs
      /\ \A p \in Procs : p # Server => p \in Clients
      /\ <<"ro", j>> \in Fifos /\ <<"rr", j>> \in Fifos /\ <<"co", j>> \in Fifos /\ <<"cr", j>> \in Fifos
      /\ pc \in [Procs -> Calls \X (Kinds \cup {"none"})]
  BY ProcFacts, FifoOf DEF Procs, TypeInv, TypeOK
<1>4. /\ Has(ReqP(j), "killed") => Has(ReqP(j), "killed")'
      /\ Has(CalcP(j), "killed") => Has(CalcP(j), "killed")'
  BY <1>3, EndedStays
<1>5. RequestInv(j) /\ CalcInv(j) /\ ResultInv(j)
  BY <1>2, <1>3, EndedStays DEF ChainInv
<1>6. ASSUME NEW p \in Procs, Kill(p) \/ Broken(p) PROVE IF Kill(p) THEN p # Server ELSE p = Server
  <2>1. Kill(p) => pc'[p][1] = "killed"
    BY <1>3 DEF Kill, End, Goto
  <2>2. Broken(p) => pc'[p][1] = "broken"
    BY <1>3 DEF Broken, End, Goto
  <2>3. pc'[Server][1] # "killed" /\ \A q \in Clients : pc'[q][1] # "broken"
    BY <1>1, <1>2 DEF BrokenByKill, Has
  <2>4. QED
    BY <1>3, <1>6, <2>1, <2>2, <2>3
<1>7. CASE \/ UNCHANGED vars
           \/ \E p \in Procs : Call(p) \/ Kill(p)
           \/ Make
           \/ \E k \in Req : OpenFails(ReqP(k)) \/ OpenFails(CalcP(k))
  <2>1. PICK p \in Procs : \/ UNCHANGED vars
                           \/ Open(p) \/ Opened(p) \/ (Kill(p) /\ p # Server)
                           \/ (Broken(p) /\ p = Server)
                           \/ Make
                           \/ OpenFails(p)
    <3>1. \A k \in Req : ReqP(k) \in Procs /\ CalcP(k) \in Procs
      BY ProcFacts
    <3>2. QED
      BY <1>3, <1>6, <1>7, <3>1 DEF Call
  <2>2. ASSUME NEW f \in Fifos PROVE SameFifo(f)
    BY <2>1, SameStep
  <2>3. d' = d /\ b' = b /\ got' = got /\ res' = res
    BY <2>1 DEF Open, Opened, Kill, Broken, Make, OpenFails, vars, dataVars
  <2>4. Fifo(Server)' = <<"rr", j>> => Fifo(Server) = <<"rr", j>>
    <3>1. i' = i
      BY <2>1 DEF Open, Opened, Kill, Broken, Make, OpenFails, vars, dataVars
    <3>2. pc'[Server][2] = pc[Server][2] \/ pc'[Server][2] = "none"
      BY <1>3, <2>1 DEF Open, Opened, Kill, Broken, Make, OpenFails, End, Goto, vars
    <3>3. Fifo(Server)' = <<pc'[Server][2], i'>> /\ Fifo(Server) = <<pc[Server][2], i>>
      BY DEF Fifo
    <3>4. QED
      BY <3>1, <3>2, <3>3
  <2>5. QED
    BY <1>3, <1>4, <1>5, <2>2, <2>3, <2>4, RequestKept, CalcKept, ResultKept
<1>8. CASE \E k \in Req : ReqWrite(k) \/ ReqRead(k) \/ CalcRead(k) \/ CalcWrite(k)
  BY <1>4, <1>5, <1>8, ClientChain
<1>9. CASE ReadReq \/ WriteReq \/ ReadRes \/ WriteRes
  BY <1>5, <1>9, ServerChain
<1>10. QED
  BY <1>7, <1>8, <1>9, Steps

\* A client that has gone after it got through to the server has the result of
\* its own request, or its calculating client or the server was terminated:
\* what the server passes on is never that of another round (server.c:58-81,
\* req1.c:27).
THEOREM OwnUnlessKilled == Spec => []OwnOrKilled
<1>1. ASSUME Init PROVE BrokenByKill /\ ChainInv
  <2>1. /\ TypeInv /\ OpenInv /\ met = {} /\ Server \in Procs
        /\ \A p \in Procs : pc[p][1] # "broken"
        /\ pc[Server] = <<"make", "ro">>
    <3>1. Server[1] = "server" /\ \A p \in Procs : p[1] \in {"server", "req", "calc"}
      BY DEF Procs, Clients, Server, ReqP, CalcP
    <3>2. QED
      BY <1>1, <3>1, InitInv, ProcFacts DEF Init
  <2>2. BrokenByKill
    BY <2>1 DEF BrokenByKill, Has, Procs
  <2>3. \A j \in Req : Fifo(Server) # <<"rr", j>>
    BY <2>1, FifoOf
  <2>4. QED
    BY <2>1, <2>2, <2>3 DEF ChainInv, RequestInv, CalcInv, ResultInv, Past
<1>2. ASSUME TypeInv, OpenInv, ChainInv PROVE OwnOrKilled
  <2>1. SUFFICES ASSUME NEW k \in Req, Has(ReqP(k), "gone"), <<"rr", k>> \in met,
                        ~Has(CalcP(k), "killed"), ~Has(Server, "killed")
                 PROVE  got[k] = <<Computed(Data(k))>>
    BY DEF OwnOrKilled
  <2> DEFINE ro == <<"ro", k>>
             rr == <<"rr", k>>
  <2>0. /\ RequestInv(k) <=>
              /\ Past(ro) /\ ~Has(ReqP(k), "killed") => d[k] = Data(k)
              /\ ~In(ReqP(k), ro) /\ ~Has(ReqP(k), "killed") /\ ro \in met => fifo[ro] = Data(k) \/ Past(ro)
        /\ ResultInv(k) <=>
              (Past(rr) /\ ~Has(CalcP(k), "killed") /\ ~Has(ReqP(k), "killed")
                  => IF In(ReqP(k), rr) THEN fifo[rr] = <<Computed(d[k])>>
                     ELSE got[k] = <<Computed(d[k])>>)
    BY DEF RequestInv, ResultInv
  <2> HIDE DEF ro, rr
  <2>2. /\ ro \in Fifos /\ rr \in Fifos /\ Client(ro) = ReqP(k) /\ Client(rr) = ReqP(k)
        /\ Writer(rr) = Server /\ Reader(rr) = ReqP(k)
        /\ Turn(ro) < Turn(rr) /\ ro[1] = "ro" /\ rr[1] = "rr"
        /\ rr \in met
    <3>1. N \in Nat /\ k \in 1..N
      BY ConstantsAssumption DEF Req
    <3>2. Turn(ro) = k /\ Turn(rr) = N + 3 * k
      BY DEF Turn, ro, rr
    <3>3. Turn(ro) < Turn(rr)
      BY <3>1, <3>2
    <3>4. Client(ro) = ReqP(k) /\ Client(rr) = ReqP(k) /\ ro \in Fifos /\ rr \in Fifos
      BY ClientOf DEF ro, rr
    <3>5. ro[1] = "ro" /\ rr[1] = "rr" /\ rr \in met
      BY <2>1 DEF ro, rr
    <3>6. QED
      BY <3>3, <3>4, <3>5 DEF Writer, Reader
  <2>3. ~In(ReqP(k), rr) /\ ~Has(ReqP(k), "killed")
    BY <2>1 DEF In, Has
  <2>4. /\ ro \in met /\ SideInv(Server, rr)
        /\ In(Writer(rr), rr) => In(Reader(rr), rr) \/ Has(Reader(rr), "killed")
    <3>1. PairInv(ro) /\ PairInv(rr) /\ SideInv(Server, rr)
      BY <1>2, <2>2 DEF OpenInv
    <3>2. QED
      BY <2>2, <3>1 DEF PairInv
  <2>5. Past(rr)
    <3>1. Fifo(Server) = rr /\ ~In(Server, rr) => Ahead(Server, rr)
      <4>1. SUFFICES ASSUME Fifo(Server) = rr, ~In(Server, rr) PROVE Ahead(Server, rr)
        OBVIOUS
      <4>2. pc[Server][2] = "rr" /\ pc[Server][1] \in {"make", "open"}
        <5>1. pc[Server][2] = "rr" /\ pc[Server] \in ServerPcs
          BY <1>2, <2>2, <4>1, FifoOf DEF TypeInv, PcInv
        <5>2. pc[Server][1] \notin {"wait", "read", "write"}
          BY <4>1 DEF In
        <5>3. QED
          BY <5>1, <5>2 DEF ServerPcs
      <4>3. QED
        BY <4>1, <4>2, KindsFact DEF Ahead, OpensFrom, Fifo
    <3>2. ~In(Server, rr)
      BY <2>2, <2>3, <2>4
    <3>3. QED
      BY <2>2, <2>4, <3>1, <3>2 DEF SideInv, Past
  <2>6. Past(ro)
    <3>1. Fifo(Server) = ro => Ahead(Server, rr)
      <4>1. SUFFICES ASSUME Fifo(Server) = ro PROVE Ahead(Server, rr)
        OBVIOUS
      <4>2. pc[Server][2] = "ro" /\ Fifo(Server) = <<pc[Server][2], i>>
        BY <2>2, <4>1, FifoOf
      <4>3. QED
        BY <2>2, <4>1, <4>2, KindsFact DEF Ahead, OpensFrom
    <3>2. QED
      BY <2>2, <2>4, <3>1 DEF SideInv, Past
  <2>7. d[k] = Data(k) /\ got[k] = <<Computed(d[k])>>
    <3>1. RequestInv(k) /\ ResultInv(k)
      BY <1>2, <2>1 DEF ChainInv
    <3>2. QED
      BY <2>0, <2>1, <2>3, <2>5, <2>6, <3>1
  <2>8. QED
    BY <2>7
<1>3. QED
  BY <1>1, <1>2, InitInv, TypeStep, StepOpen, BrokenStep, ChainStep, PTL DEF Spec
=============================================================================
