----------------------------- MODULE PipesProofs -----------------------------
(***************************************************************************)
(* Facts about what is written to a pipe and read from it, for the proofs  *)
(* about the programs that share these operators.                          *)
(***************************************************************************)
EXTENDS Pipes, TLAPS, SequenceTheorems

\* A read takes the whole of a message.
LEMMA WholeRead ==
    ASSUME NEW n \in Nat \ {0}, NEW S, NEW q \in [1..n -> S]
    PROVE  q \in Seq(S) /\ q # <<>> /\ Taken(q, n) = q /\ Rest(q, n) = <<>>
<1>1. q \in Seq(S) /\ Len(q) = n
  <2>1. q \in Seq(S)
    OBVIOUS
  <2>2. Len(q) \in Nat /\ DOMAIN q = 1..Len(q) /\ DOMAIN q = 1..n
    BY <2>1, LenProperties
  <2>3. QED
    BY <2>1, <2>2
<1>2. q # <<>>
  BY <1>1
<1>3. Taken(q, n) = q
  <2>1. Taken(q, n) = SubSeq(q, 1, Len(q))
    BY <1>1 DEF Taken
  <2>2. QED
    BY <1>1, <2>1, SubSeqFull
<1>4. Rest(q, n) = <<>>
  BY <1>1, SubSeqEmpty DEF Rest
<1>5. QED
  BY <1>1, <1>2, <1>3, <1>4

LEMMA Written ==
    ASSUME NEW S, NEW n \in Nat, NEW q \in [1..n -> S]
    PROVE  <<>> \o q = q /\ q \in Seq(S)
<1>1. q \in Seq(S)
  OBVIOUS
<1>2. QED
  BY <1>1, ConcatEmptySeq

\* What the programs write are words.
LEMMA DataWords == \A k \in Req : Data(k) \in [1..3 -> Words] /\ Data(k) # <<>>
<1>1. \A k \in Req : Data(k) \in [1..3 -> Words]
  BY DEF Data, Words
<1>2. 3 \in Nat \ {0}
  OBVIOUS
<1>3. \A x \in [1..3 -> Words] : x # <<>>
  BY <1>2, WholeRead
<1>4. QED
  BY <1>1, <1>3

LEMMA ComputedWord ==
    \A x \in [1..3 -> Words] : Computed(x) \in Words /\ <<Computed(x)>> \in [1..1 -> Words]
<1>1. ASSUME NEW x \in [1..3 -> Words] PROVE Computed(x) \in Words
  <2>1. x[1].of \in Req \cup {None}
    BY DEF Words
  <2>2. QED
    BY <2>1 DEF Computed, Words
<1>2. \A w \in Words : <<w>> \in [1..1 -> Words]
  OBVIOUS
<1>3. QED
  BY <1>1, <1>2

\* Requests are told apart by what they ask, and so are their results.
LEMMA DataResult ==
    ASSUME NEW k \in Req
    PROVE  /\ Computed(Data(k)) = [of |-> k, part |-> 0]
           /\ \A j \in Req : Data(k) = Data(j) => k = j
<1>1. \A j \in Req : Data(j)[1] = [of |-> j, part |-> 1] /\ Data(j)[3] = [of |-> j, part |-> 3]
  BY DEF Data
<1>2. \A j \in Req : [of |-> j, part |-> 1].of = j
  OBVIOUS
<1>3. ASSUME NEW j \in Req, Data(k) = Data(j) PROVE k = j
  <2>1. Data(k)[1].of = k /\ Data(j)[1].of = j
    BY <1>1, <1>2
  <2>2. QED
    BY <1>3, <2>1
<1>4. Data(k)[1].of = k
  BY <1>1, <1>2
<1>5. QED
  BY <1>3, <1>4 DEF Computed

\* A read from a pipe that holds one message takes it, and leaves it empty.
LEMMA PipeRead ==
    /\ \A k \in Req : Taken(Data(k), 3) = Data(k) /\ Rest(Data(k), 3) = <<>>
    /\ \A k \in Req : <<>> \o Data(k) = Data(k)
    /\ \A w : Taken(<<w>>, 1) = <<w>> /\ Rest(<<w>>, 1) = <<>>
<1>1. 3 \in Nat \ {0}
  OBVIOUS
<1>2. \A k \in Req : Taken(Data(k), 3) = Data(k) /\ Rest(Data(k), 3) = <<>>
  BY <1>1, DataWords, WholeRead
<1>3. \A k \in Req : <<>> \o Data(k) = Data(k)
  BY <1>1, DataWords, Written
<1>4. ASSUME NEW w PROVE Taken(<<w>>, 1) = <<w>> /\ Rest(<<w>>, 1) = <<>>
  <2>1. <<w>> \in [1..1 -> {w}] /\ 1 \in Nat \ {0}
    OBVIOUS
  <2>2. QED
    BY <2>1, WholeRead
<1>5. QED
  BY <1>2, <1>3, <1>4

\* A read of one word takes the first, and leaves the others in order.
LEMMA FirstWord ==
    ASSUME NEW S, NEW q \in Seq(S), q # <<>>
    PROVE  /\ Taken(q, 1) = <<q[1]>> /\ q[1] \in S
           /\ Rest(q, 1) \in Seq(S) /\ Len(Rest(q, 1)) = Len(q) - 1
           /\ \A n \in 1..Len(q) - 1 : Rest(q, 1)[n] = q[n + 1]
<1>1. Len(q) \in Nat \ {0} /\ \A n \in 1..Len(q) : q[n] \in S
  BY EmptySeq
<1> DEFINE head == SubSeq(q, 1, 1)
           rest == SubSeq(q, 2, Len(q))
<1>2. Rest(q, 1) = rest /\ Taken(q, 1) = head
  BY <1>1 DEF Rest, Taken
<1>3. /\ head \in Seq(S) /\ Len(head) = 1 /\ head[1] = q[1]
      /\ rest \in Seq(S)
      /\ Len(rest) = IF 2 <= Len(q) THEN Len(q) - 2 + 1 ELSE 0
      /\ \A n \in 1..Len(q) - 2 + 1 : rest[n] = q[2 + n - 1]
  BY <1>1, SubSeqProperties
<1> HIDE DEF head, rest
<1>4. head = <<q[1]>>
  <2>1. <<q[1]>> \in Seq(S) /\ Len(<<q[1]>>) = 1 /\ <<q[1]>>[1] = q[1]
    BY <1>1
  <2>2. QED
    BY <1>3, <2>1, SeqEqual
<1>5. Len(rest) = Len(q) - 1 /\ \A n \in 1..Len(q) - 1 : rest[n] = q[n + 1]
  BY <1>1, <1>3
<1>6. QED
  BY <1>1, <1>2, <1>3, <1>4, <1>5
=============================================================================
