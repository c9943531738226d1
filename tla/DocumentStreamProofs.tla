------------------------ MODULE DocumentStreamProofs ------------------------
(***************************************************************************)
(* Either direction of a document stream implements the abstract pipe:     *)
(* whole messages, in order, none twice, none invented, for every chunk    *)
(* size, window and message limit and for every message length, wherever   *)
(* the control connection, the loopback socket or the browser goes away.   *)
(* And the send window keeps its accounts: what the codec counts as        *)
(* unacknowledged is what is under way, and fits the window.               *)
(***************************************************************************)
EXTENDS DocumentStream, SequenceTheorems, FiniteSetTheorems, WellFoundedInduction,
        NaturalsInduction, TLAPS

----------------------------------------------------------------------------
(* Where the bytes of a direction are. *)

Message == Seq(Nat)
DataFrame == [type : {"ws.data"}, seq : Nat, bytes : Message, fin : BOOLEAN]
AckFrame == [type : {"ws.data.ack"}, seq : Nat]
Frame == DataFrame \cup AckFrame \cup [type : {"ws.close", "ws.open"}]

CodecType ==
    [txSeq : Nat, unacked : Nat, unackedBySeq : SUBSET (Nat \X Nat), outbound : Seq(DataFrame),
     inbound : Message]

\* A plan says which message each sequence number carries, and from which byte:
\* messages follow each other, and so do the chunks of one.
Planned(sent, msg, at, last) ==
    /\ msg \in [Nat -> Nat] /\ at \in [Nat -> Nat]
    /\ msg[last] = Len(sent) + 1 /\ at[last] = 0
    /\ \A s \in Nat : s < last =>
         /\ msg[s] \in 1..Len(sent) /\ at[s] <= Len(sent[msg[s]])
         /\ \/ msg[s + 1] = msg[s] /\ at[s] <= at[s + 1] /\ at[s + 1] <= Len(sent[msg[s]])
            \/ msg[s + 1] = msg[s] + 1 /\ at[s + 1] = 0

\* The frame with sequence number s carries what the plan says.
IsChunk(f, s, sent, msg, at) ==
    /\ f.type = "ws.data" /\ f.seq = s
    /\ f.fin <=> msg[s + 1] # msg[s]
    /\ f.bytes = SubSeq(sent[msg[s]], at[s] + 1,
                        IF msg[s + 1] # msg[s] THEN Len(sent[msg[s]]) ELSE at[s + 1])

\* The data frames on the connection are those from lo to mid, in order.
OnWire(wire, lo, mid, sent, msg, at) ==
    /\ \A i \in 1..Len(wire) : wire[i].type = "ws.data" =>
         /\ lo <= wire[i].seq /\ wire[i].seq < mid
         /\ IsChunk(wire[i], wire[i].seq, sent, msg, at)
    /\ \A i, j \in 1..Len(wire) :
         i < j /\ wire[i].type = "ws.data" /\ wire[j].type = "ws.data" => wire[i].seq < wire[j].seq
    /\ \A s \in Nat : lo <= s /\ s < mid =>
         \E i \in 1..Len(wire) : wire[i].type = "ws.data" /\ wire[i].seq = s

\* The frames the codec holds back are those from mid on.
Queued(queue, mid, sent, msg, at) ==
    \A i \in 1..Len(queue) : IsChunk(queue[i], mid + i - 1, sent, msg, at)

\* What a receiver has of the message under way.
Begun(sent, msg, at, lo) == IF at[lo] = 0 THEN <<>> ELSE SubSeq(sent[msg[lo]], 1, at[lo])

\* The receiver has "got" messages and the beginning of the next; the rest of
\* what was sent is on the connection, then in the codec's queue.
CarriedBy(txSeq, queue, wire, inbound, sent, got, lo, mid, msg, at) ==
    /\ lo <= mid /\ txSeq = mid + Len(queue)
    /\ Planned(sent, msg, at, txSeq)
    /\ OnWire(wire, lo, mid, sent, msg, at)
    /\ Queued(queue, mid, sent, msg, at)
    /\ msg[lo] = got + 1
    /\ inbound = Begun(sent, msg, at, lo)

Carried(txSeq, queue, wire, inbound, sent, got) ==
    \E lo, mid \in Nat, msg, at \in [Nat -> Nat] :
        CarriedBy(txSeq, queue, wire, inbound, sent, got, lo, mid, msg, at)

----------------------------------------------------------------------------
(* Sequences. *)

LEMMA ConcatFacts ==
    ASSUME NEW S, NEW a \in Seq(S), NEW b \in Seq(S)
    PROVE  /\ a \o b \in Seq(S)
           /\ Len(a) \in Nat /\ Len(b) \in Nat /\ Len(a \o b) = Len(a) + Len(b)
           /\ \A i \in 1..Len(a) : (a \o b)[i] = a[i]
           /\ \A i \in 1..Len(b) : (a \o b)[Len(a) + i] = b[i]
OBVIOUS

LEMMA TailFacts ==
    ASSUME NEW S, NEW a \in Seq(S), a # <<>>
    PROVE  /\ Tail(a) \in Seq(S) /\ Head(a) \in S /\ Head(a) = a[1]
           /\ Len(a) \in Nat /\ Len(a) >= 1 /\ Len(Tail(a)) = Len(a) - 1
           /\ \A i \in 1..(Len(a) - 1) : Tail(a)[i] = a[i + 1]
BY HeadTailProperties, LenProperties

\* The first elements of a sequence, and the others.
LEMMA PartFacts ==
    ASSUME NEW S, NEW q \in Seq(S), NEW n \in Nat, n <= Len(q)
    PROVE  /\ SubSeq(q, 1, n) \in Seq(S) /\ Len(SubSeq(q, 1, n)) = n
           /\ \A i \in 1..n : SubSeq(q, 1, n)[i] = q[i]
           /\ SubSeq(q, n + 1, Len(q)) \in Seq(S) /\ Len(SubSeq(q, n + 1, Len(q))) = Len(q) - n
           /\ \A i \in 1..(Len(q) - n) : SubSeq(q, n + 1, Len(q))[i] = q[n + i]
<1>1. Len(q) \in Nat /\ \A i \in 1..Len(q) : q[i] \in S
  OBVIOUS
<1>2. /\ SubSeq(q, 1, n) \in Seq(S)
      /\ Len(SubSeq(q, 1, n)) = IF 1 <= n THEN n - 1 + 1 ELSE 0
      /\ \A i \in 1..(n - 1 + 1) : SubSeq(q, 1, n)[i] = q[1 + i - 1]
  <2>1. \A i \in 1..n : q[i] \in S
    BY <1>1
  <2> QED
    BY <2>1, SubSeqProperties
<1>3. /\ SubSeq(q, n + 1, Len(q)) \in Seq(S)
      /\ Len(SubSeq(q, n + 1, Len(q))) = IF n + 1 <= Len(q) THEN Len(q) - (n + 1) + 1 ELSE 0
      /\ \A i \in 1..(Len(q) - (n + 1) + 1) : SubSeq(q, n + 1, Len(q))[i] = q[(n + 1) + i - 1]
  <2>1. \A i \in (n + 1)..Len(q) : q[i] \in S
    BY <1>1
  <2>2. n + 1 \in Int /\ Len(q) \in Int
    BY <1>1
  <2> QED
    BY <2>1, <2>2, SubSeqProperties
<1>4. ASSUME NEW i \in 1..n PROVE SubSeq(q, 1, n)[i] = q[i]
  <2>1. i \in 1..(n - 1 + 1) /\ 1 + i - 1 = i
    OBVIOUS
  <2> QED
    BY <1>2, <2>1
<1>5. ASSUME NEW i \in 1..(Len(q) - n) PROVE SubSeq(q, n + 1, Len(q))[i] = q[n + i]
  <2>1. i \in 1..(Len(q) - (n + 1) + 1) /\ (n + 1) + i - 1 = n + i
    BY <1>1
  <2> QED
    BY <1>3, <2>1
<1> QED
  BY <1>1, <1>2, <1>3, <1>4, <1>5

\* Adjacent parts of a message join.
LEMMA PartsAdjacent ==
    ASSUME NEW m \in Message, NEW a \in Nat, NEW b \in Nat, a <= b, b <= Len(m)
    PROVE  SubSeq(m, 1, a) \o SubSeq(m, a + 1, b) = SubSeq(m, 1, b)
<1>1. Len(m) \in Nat /\ m \in Seq(Nat)
  BY DEF Message
<1>2. 1 \in 1..Len(m) + 1 /\ a \in (1 - 1)..Len(m) /\ b \in a..Len(m)
  BY <1>1
<1> QED
  BY <1>1, <1>2, ConcatAdjacentSubSeq

\* The empty and the full part of a message.
LEMMA WholePart ==
    ASSUME NEW m \in Message
    PROVE  /\ Len(m) \in Nat
           /\ SubSeq(m, 1, 0) = <<>> /\ SubSeq(m, 1, Len(m)) = m
<1>1. Len(m) \in Nat /\ m \in Seq(Nat)
  BY DEF Message
<1>2. SubSeq(m, 1, 0) = <<>>
  BY SubSeqEmpty
<1>3. SubSeq(m, 1, Len(m)) = m
  BY <1>1
<1> QED
  BY <1>1, <1>2, <1>3

----------------------------------------------------------------------------
(* What travels on a connection. *)

\* A new stream carries nothing.
LEMMA NothingCarried ==
    ASSUME NEW wire, \A i \in 1..Len(wire) : wire[i].type # "ws.data"
    PROVE  Carried(0, <<>>, wire, <<>>, <<>>, 0)
<1> DEFINE msg == [s \in Nat |-> 1]
           at == [s \in Nat |-> 0]
<1>1. CarriedBy(0, <<>>, wire, <<>>, <<>>, 0, 0, 0, msg, at)
  BY DEF CarriedBy, Planned, OnWire, Queued, Begun
<1>2. msg \in [Nat -> Nat] /\ at \in [Nat -> Nat]
  OBVIOUS
<1> QED
  BY <1>1, <1>2 DEF Carried

\* Frames that carry no data change nothing.
LEMMA OthersAppended ==
    ASSUME NEW txSeq \in Nat, NEW queue, NEW wire \in Seq(Frame), NEW more \in Seq(Frame),
           \A i \in 1..Len(more) : more[i].type # "ws.data",
           NEW inbound, NEW sent, NEW got,
           Carried(txSeq, queue, wire, inbound, sent, got)
    PROVE  Carried(txSeq, queue, wire \o more, inbound, sent, got)
<1>1. PICK lo, mid \in Nat, msg, at \in [Nat -> Nat] :
          CarriedBy(txSeq, queue, wire, inbound, sent, got, lo, mid, msg, at)
  BY DEF Carried
<1>2. PICK w \in Seq(Frame) : w = wire \o more
  BY ConcatFacts
<1>3. PICK l, m \in Nat : l = Len(wire) /\ m = Len(more)
  BY ConcatFacts
<1>4. /\ Len(w) = l + m
      /\ \A i \in 1..l : w[i] = wire[i]
      /\ \A i \in 1..m : w[l + i] = more[i]
  BY <1>2, <1>3, ConcatFacts
<1>5. \A i \in 1..(l + m) : w[i].type = "ws.data" => i \in 1..l
  <2> SUFFICES ASSUME NEW i \in 1..(l + m), i \notin 1..l PROVE w[i].type # "ws.data"
    OBVIOUS
  <2>1. PICK j \in 1..m : i = l + j
    <3>1. i - l \in 1..m /\ i = l + (i - l)
      BY <1>3
    <3> QED
      BY <3>1
  <2> QED
    BY <1>3, <1>4, <2>1
<1>6. OnWire(w, lo, mid, sent, msg, at)
  <2>1. OnWire(wire, lo, mid, sent, msg, at)
    BY <1>1 DEF CarriedBy
  <2>2. \A i \in 1..l : i \in 1..(l + m)
    BY <1>3
  <2> QED
    BY <2>1, <2>2, <1>3, <1>4, <1>5, ZenonT(40) DEF OnWire
<1>7. CarriedBy(txSeq, queue, w, inbound, sent, got, lo, mid, msg, at)
  BY <1>1, <1>6 DEF CarriedBy
<1> QED
  BY <1>2, <1>7 DEF Carried

\* Neither does reading a frame that carries no data.
LEMMA OtherRead ==
    ASSUME NEW txSeq \in Nat, NEW queue, NEW wire \in Seq(Frame), wire # <<>>,
           Head(wire).type # "ws.data", NEW inbound, NEW sent, NEW got,
           Carried(txSeq, queue, wire, inbound, sent, got)
    PROVE  Carried(txSeq, queue, Tail(wire), inbound, sent, got)
<1>1. PICK lo, mid \in Nat, msg, at \in [Nat -> Nat] :
          CarriedBy(txSeq, queue, wire, inbound, sent, got, lo, mid, msg, at)
  BY DEF Carried
<1>2. PICK w \in Seq(Frame) : w = Tail(wire)
  BY TailFacts
<1>3. PICK l \in Nat : l = Len(wire) /\ l >= 1
  BY TailFacts
<1>4. /\ Len(w) = l - 1 /\ \A i \in 1..(l - 1) : w[i] = wire[i + 1]
      /\ wire[1].type # "ws.data"
  BY <1>2, <1>3, TailFacts
<1>5. \A i \in 1..l : wire[i].type = "ws.data" => i - 1 \in 1..(l - 1) /\ w[i - 1] = wire[i]
  <2>1. \A i \in 1..l : i = 1 \/ (i - 1 \in 1..(l - 1) /\ (i - 1) + 1 = i)
    BY <1>3
  <2> QED
    BY <1>4, <2>1
<1>6. OnWire(w, lo, mid, sent, msg, at)
  <2>1. OnWire(wire, lo, mid, sent, msg, at)
    BY <1>1 DEF CarriedBy
  <2>2. \A i \in 1..(l - 1) : i + 1 \in 1..l
    BY <1>3
  <2>3. \A i \in 1..Len(w) : w[i].type = "ws.data" =>
         /\ lo <= w[i].seq /\ w[i].seq < mid
         /\ IsChunk(w[i], w[i].seq, sent, msg, at)
    <3> SUFFICES ASSUME NEW i \in 1..(l - 1), w[i].type = "ws.data"
                 PROVE  /\ lo <= w[i].seq /\ w[i].seq < mid
                        /\ IsChunk(w[i], w[i].seq, sent, msg, at)
      BY <1>4
    <3>1. PICK k \in 1..l : k = i + 1
      BY <2>2
    <3>2. w[i] = wire[k]
      BY <3>1, <1>4
    <3> QED
      BY <3>2, <2>1, <1>3 DEF OnWire
  <2>4. \A i, j \in 1..Len(w) :
         i < j /\ w[i].type = "ws.data" /\ w[j].type = "ws.data" => w[i].seq < w[j].seq
    <3> SUFFICES ASSUME NEW i \in 1..(l - 1), NEW j \in 1..(l - 1), i < j,
                        w[i].type = "ws.data", w[j].type = "ws.data"
                 PROVE  w[i].seq < w[j].seq
      BY <1>4
    <3>1. PICK k \in 1..l, n \in 1..l : k = i + 1 /\ n = j + 1 /\ k < n
      BY <2>2
    <3>2. w[i] = wire[k] /\ w[j] = wire[n]
      BY <3>1, <1>4
    <3> QED
      BY <3>1, <3>2, <2>1, <1>3 DEF OnWire
  <2>5. \A s \in Nat : lo <= s /\ s < mid =>
         \E i \in 1..Len(w) : w[i].type = "ws.data" /\ w[i].seq = s
    <3> SUFFICES ASSUME NEW s \in Nat, lo <= s, s < mid
                 PROVE  \E i \in 1..Len(w) : w[i].type = "ws.data" /\ w[i].seq = s
      OBVIOUS
    <3>1. PICK k \in 1..l : wire[k].type = "ws.data" /\ wire[k].seq = s
      BY <2>1, <1>3 DEF OnWire
    <3>2. PICK i \in 1..(l - 1) : w[i] = wire[k]
      BY <3>1, <1>5
    <3> QED
      BY <3>1, <3>2, <1>4
  <2> QED
    BY <2>3, <2>4, <2>5 DEF OnWire
<1>7. CarriedBy(txSeq, queue, w, inbound, sent, got, lo, mid, msg, at)
  BY <1>1, <1>6 DEF CarriedBy
<1> QED
  BY <1>2, <1>7 DEF Carried

\* The frame ends the message under way, or continues it.
Continues(f, inbound, sent, msg, at, lo) ==
    /\ msg[lo] \in 1..Len(sent)
    /\ f.fin => /\ inbound \o f.bytes = sent[msg[lo]]
                /\ msg[lo + 1] = msg[lo] + 1 /\ <<>> = Begun(sent, msg, at, lo + 1)
    /\ ~f.fin => /\ msg[lo + 1] = msg[lo]
                 /\ inbound \o f.bytes = Begun(sent, msg, at, lo + 1)

\* The next frame continues the message the receiver has begun.
LEMMA ChunkFits ==
    ASSUME NEW txSeq \in Nat, NEW lo \in Nat, lo < txSeq, NEW sent \in Seq(Message),
           NEW msg \in [Nat -> Nat], NEW at \in [Nat -> Nat], Planned(sent, msg, at, txSeq),
           NEW f \in DataFrame, IsChunk(f, lo, sent, msg, at),
           NEW inbound \in Message, inbound = Begun(sent, msg, at, lo)
    PROVE  Continues(f, inbound, sent, msg, at, lo)
<1>1. PICK m \in Message, a, l \in Nat : m = sent[msg[lo]] /\ a = at[lo] /\ l = Len(m)
  <2>1. msg[lo] \in 1..Len(sent)
    BY DEF Planned
  <2>2. sent[msg[lo]] \in Message
    BY <2>1
  <2>3. Len(sent[msg[lo]]) \in Nat
    BY <2>2, WholePart
  <2>4. at[lo] \in Nat
    OBVIOUS
  <2> QED
    BY <2>2, <2>3, <2>4
<1>2. /\ msg[lo] \in 1..Len(sent) /\ a <= l
      /\ \/ msg[lo + 1] = msg[lo] /\ a <= at[lo + 1] /\ at[lo + 1] <= l
         \/ msg[lo + 1] = msg[lo] + 1 /\ at[lo + 1] = 0
  BY <1>1 DEF Planned
<1>3. inbound = SubSeq(m, 1, a)
  BY <1>1, WholePart DEF Begun
<1>4. CASE f.fin
  <2>1. msg[lo + 1] = msg[lo] + 1 /\ at[lo + 1] = 0
    BY <1>2, <1>4 DEF IsChunk
  <2>2. f.bytes = SubSeq(m, a + 1, l)
    <3>1. msg[lo + 1] # msg[lo]
      BY <2>1
    <3> QED
      BY <1>1, <3>1 DEF IsChunk
  <2>3. SubSeq(m, 1, a) \o SubSeq(m, a + 1, l) = m
    <3>1. SubSeq(m, 1, l) = m
      BY <1>1, WholePart
    <3>2. l <= Len(m)
      BY <1>1
    <3> QED
      BY <1>1, <1>2, <3>1, <3>2, PartsAdjacent
  <2> QED
    BY <1>1, <1>2, <1>3, <1>4, <2>1, <2>2, <2>3 DEF Begun, Continues
<1>5. CASE ~f.fin
  <2>1. msg[lo + 1] = msg[lo]
    BY <1>5 DEF IsChunk
  <2>2. PICK b \in Nat : b = at[lo + 1] /\ a <= b /\ b <= l
    <3>1. at[lo + 1] \in Nat /\ msg[lo] \in Nat
      <4>1. lo + 1 \in Nat
        OBVIOUS
      <4> QED
        BY <4>1, Zenon
    <3>2. msg[lo + 1] # msg[lo] + 1
      BY <3>1, <2>1
    <3> QED
      BY <3>1, <3>2, <1>2
  <2>3. f.bytes = SubSeq(m, a + 1, b)
    BY <1>1, <2>1, <2>2 DEF IsChunk
  <2>4. SubSeq(m, 1, a) \o SubSeq(m, a + 1, b) = SubSeq(m, 1, b)
    <3>1. b <= Len(m)
      BY <1>1, <2>2
    <3> QED
      BY <1>1, <2>2, <3>1, PartsAdjacent
  <2>5. SubSeq(m, 1, b) = Begun(sent, msg, at, lo + 1)
    BY <1>1, <2>1, <2>2, WholePart DEF Begun
  <2> QED
    BY <1>2, <1>3, <1>5, <2>1, <2>3, <2>4, <2>5 DEF Continues
<1> QED
  BY <1>4, <1>5

\* The next data frame on the connection is the one the receiver waits for.
LEMMA DataRead ==
    ASSUME NEW txSeq \in Nat, NEW queue, Len(queue) \in Nat, NEW wire \in Seq(Frame), wire # <<>>,
           Head(wire) \in DataFrame, NEW inbound \in Message, NEW sent \in Seq(Message),
           NEW got \in Nat, Carried(txSeq, queue, wire, inbound, sent, got)
    PROVE  /\ got + 1 \in 1..Len(sent)
           /\ Head(wire).fin =>
                /\ inbound \o Head(wire).bytes = sent[got + 1]
                /\ Carried(txSeq, queue, Tail(wire), <<>>, sent, got + 1)
           /\ ~Head(wire).fin =>
                Carried(txSeq, queue, Tail(wire), inbound \o Head(wire).bytes, sent, got)
<1>1. PICK lo, mid \in Nat, msg, at \in [Nat -> Nat] :
          CarriedBy(txSeq, queue, wire, inbound, sent, got, lo, mid, msg, at)
  BY DEF Carried
<1>2. PICK w \in Seq(Frame) : w = Tail(wire)
  BY TailFacts
<1>3. PICK l \in Nat : l = Len(wire) /\ l >= 1
  BY TailFacts
<1>4. /\ Len(w) = l - 1 /\ \A i \in 1..(l - 1) : w[i] = wire[i + 1]
      /\ Head(wire) = wire[1]
  BY <1>2, <1>3, TailFacts
<1>5. PICK f \in DataFrame : f = Head(wire) /\ f = wire[1]
  BY <1>4
<1>6. OnWire(wire, lo, mid, sent, msg, at)
  BY <1>1 DEF CarriedBy
<1>7. f.type = "ws.data" /\ \E q \in Nat : q = f.seq
  BY DEF DataFrame
<1>8. lo <= f.seq /\ f.seq < mid /\ IsChunk(f, f.seq, sent, msg, at)
  <2>1. 1 \in 1..Len(wire)
    BY <1>3
  <2> QED
    BY <2>1, <1>5, <1>6, <1>7 DEF OnWire
<1>9. f.seq = lo
  <2>a. PICK q \in Nat : q = f.seq
    BY <1>7
  <2>b. lo <= q /\ q < mid
    BY <2>a, <1>8, Zenon
  <2>0. lo <= q /\ q < mid /\ lo <= lo /\ lo < mid
    BY <2>b
  <2>1. PICK k \in 1..l : wire[k].type = "ws.data" /\ wire[k].seq = lo
    BY <1>3, <1>6, <2>0 DEF OnWire
  <2>2. ASSUME k # 1 PROVE FALSE
    <3>1. 1 \in 1..l /\ 1 < k
      BY <1>3, <2>2
    <3>a. f.seq < lo
      BY <1>3, <1>5, <1>6, <1>7, <2>1, <3>1 DEF OnWire
    <3>2. q < lo
      BY <2>a, <3>a, Zenon
    <3> QED
      BY <2>0, <3>2
  <2> QED
    BY <1>5, <2>1, <2>2
<1>10. lo < mid /\ lo < txSeq /\ lo + 1 \in Nat /\ lo + 1 <= mid
  BY <1>1, <1>8, <1>9 DEF CarriedBy
<1>11. OnWire(w, lo + 1, mid, sent, msg, at)
  <2>1. \A i \in 1..(l - 1) : i + 1 \in 1..l /\ 1 < i + 1
    BY <1>3
  <2>2. ASSUME NEW i \in 1..Len(w), w[i].type = "ws.data"
        PROVE  /\ lo + 1 <= w[i].seq /\ w[i].seq < mid
               /\ IsChunk(w[i], w[i].seq, sent, msg, at)
    <3>1. PICK k \in 1..l : k = i + 1 /\ 1 < k
      BY <1>4, <2>1
    <3>2. w[i] = wire[k] /\ 1 \in 1..l
      BY <1>3, <1>4, <3>1
    <3>3. /\ lo < wire[k].seq /\ wire[k].seq < mid /\ lo <= wire[k].seq
          /\ IsChunk(wire[k], wire[k].seq, sent, msg, at)
      BY <1>3, <1>5, <1>6, <1>7, <1>9, <2>2, <3>1, <3>2, ZenonT(40) DEF OnWire
    <3>4. PICK q \in Nat : q = wire[k].seq
      <4>1. wire[k] \in Frame
        BY <1>3
      <4>2. wire[k] \in DataFrame
        BY <4>1, <2>2, <3>2 DEF Frame, AckFrame, DataFrame
      <4> QED
        BY <4>2 DEF DataFrame
    <3>a. lo < q
      BY <3>3, <3>4, Zenon
    <3>5. lo + 1 <= q
      BY <3>a
    <3> QED
      BY <3>2, <3>3, <3>4, <3>5
  <2>3. \A i, j \in 1..Len(w) :
         i < j /\ w[i].type = "ws.data" /\ w[j].type = "ws.data" => w[i].seq < w[j].seq
    <3> SUFFICES ASSUME NEW i \in 1..(l - 1), NEW j \in 1..(l - 1), i < j,
                        w[i].type = "ws.data", w[j].type = "ws.data"
                 PROVE  w[i].seq < w[j].seq
      BY <1>4
    <3>1. PICK k \in 1..l, n \in 1..l : k = i + 1 /\ n = j + 1
      BY <2>1
    <3>a. k < n
      BY <3>1
    <3>2. w[i] = wire[k] /\ w[j] = wire[n] /\ k < n
      BY <3>1, <3>a, <1>4
    <3> QED
      BY <3>1, <3>2, <1>6, <1>3 DEF OnWire
  <2>4. \A s \in Nat : lo + 1 <= s /\ s < mid =>
         \E i \in 1..Len(w) : w[i].type = "ws.data" /\ w[i].seq = s
    <3> SUFFICES ASSUME NEW s \in Nat, lo + 1 <= s, s < mid
                 PROVE  \E i \in 1..Len(w) : w[i].type = "ws.data" /\ w[i].seq = s
      OBVIOUS
    <3>1. lo <= s /\ s # lo
      OBVIOUS
    <3>2. PICK k \in 1..l : wire[k].type = "ws.data" /\ wire[k].seq = s
      BY <1>6, <1>3, <3>1 DEF OnWire
    <3>3. k # 1
      BY <1>5, <1>9, <3>1, <3>2
    <3>4. PICK i \in 1..(l - 1) : k = i + 1
      <4>1. k - 1 \in 1..(l - 1) /\ k = (k - 1) + 1
        BY <3>3, <1>3
      <4> QED
        BY <4>1
    <3>5. w[i] = wire[k]
      BY <3>4, <1>4
    <3> QED
      BY <3>2, <3>5, <1>4
  <2> QED
    BY <2>2, <2>3, <2>4 DEF OnWire
<1>12. /\ Planned(sent, msg, at, txSeq) /\ inbound = Begun(sent, msg, at, lo)
       /\ msg[lo] = got + 1 /\ txSeq = mid + Len(queue) /\ Queued(queue, mid, sent, msg, at)
  BY <1>1 DEF CarriedBy
<1>13. Continues(f, inbound, sent, msg, at, lo)
  <2>1. IsChunk(f, lo, sent, msg, at) /\ lo < txSeq
    BY <1>8, <1>9, <1>10
  <2> QED
    BY <2>1, <1>12, ChunkFits
<1>14. ASSUME f.fin PROVE CarriedBy(txSeq, queue, w, <<>>, sent, got + 1, lo + 1, mid, msg, at)
  BY <1>10, <1>11, <1>12, <1>13, <1>14 DEF CarriedBy, Continues
<1>15. ASSUME ~f.fin
       PROVE  CarriedBy(txSeq, queue, w, inbound \o f.bytes, sent, got, lo + 1, mid, msg, at)
  BY <1>10, <1>11, <1>12, <1>13, <1>15 DEF CarriedBy, Continues
<1>16. f.fin => Carried(txSeq, queue, w, <<>>, sent, got + 1)
  BY <1>10, <1>14 DEF Carried
<1>17. ~f.fin => Carried(txSeq, queue, w, inbound \o f.bytes, sent, got)
  BY <1>10, <1>15 DEF Carried
<1> QED
  BY <1>2, <1>5, <1>12, <1>13, <1>16, <1>17 DEF Continues

----------------------------------------------------------------------------
(* The codec. *)

\* A bounded set of numbers has a greatest one.
LEMMA Greatest ==
    ASSUME NEW k \in Nat, NEW T \in SUBSET (0..k), T # {}
    PROVE  Max(T) \in T /\ \A y \in T : Max(T) >= y
<1> DEFINE below == {n \in Nat : k - n \in T}
<1>1. below # {}
  <2>1. PICK x \in T : TRUE
    OBVIOUS
  <2>2. k - x \in Nat /\ k - (k - x) = x
    BY <2>1
  <2>3. k - x \in below
    BY <2>2
  <2> QED
    BY <2>3
<1>2. PICK n \in below : \A m \in below : ~(m < n)
  <2>1. \E n \in below : \A m \in below : ~(<<m, n>> \in OpToRel(<, Nat))
    <3>1. below \in SUBSET Nat
      OBVIOUS
    <3> HIDE DEF below
    <3> QED
      BY <1>1, <3>1, NatLessThanWellFounded, WFMin
  <2> QED
    BY <2>1 DEF OpToRel
<1>3. \A y \in T : k - y \in below
  <2> SUFFICES ASSUME NEW y \in T PROVE k - y \in below
    OBVIOUS
  <2>1. k - y \in Nat /\ k - (k - y) = y
    OBVIOUS
  <2> QED
    BY <2>1
<1>4. \A y \in T : k - n >= y
  BY <1>2, <1>3
<1>5. k - n \in T
  BY <1>2
<1> QED
  BY <1>4, <1>5 DEF Max

\* pullSendable takes a number of frames that there are.
LEMMA SendableBound ==
    ASSUME NEW codec \in CodecType
    PROVE  Sendable(codec) \in 0..Len(codec.outbound)
<1> DEFINE before(i) == codec.unacked + Bytes(SubSeq(codec.outbound, 1, i - 1))
           fits(i) == before(i) = 0 \/ before(i) + Len(codec.outbound[i].bytes) <= WindowBytes
           T == {n \in 0..Len(codec.outbound) : \A i \in 1..n : fits(i)}
<1>1. Sendable(codec) = Max(T)
  BY Zenon DEF Sendable
<1> HIDE DEF fits
<1>2. Len(codec.outbound) \in Nat
  BY DEF CodecType
<1>3. 0 \in T
  BY <1>2
<1>4. T \in SUBSET (0..Len(codec.outbound)) /\ T # {}
  BY <1>3
<1> HIDE DEF T
<1>5. Max(T) \in T
  BY <1>2, <1>4, Greatest
<1> QED
  BY <1>1, <1>4, <1>5

\* The frames that are sent leave the queue for the connection.
LEMMA PulledCarried ==
    ASSUME NEW txSeq \in Nat, NEW queue \in Seq(DataFrame), NEW wire \in Seq(Frame),
           NEW inbound, NEW sent, NEW got, NEW n \in 0..Len(queue),
           Carried(txSeq, queue, wire, inbound, sent, got)
    PROVE  /\ SubSeq(queue, 1, n) \in Seq(DataFrame)
           /\ SubSeq(queue, n + 1, Len(queue)) \in Seq(DataFrame)
           /\ Carried(txSeq, SubSeq(queue, n + 1, Len(queue)), wire \o SubSeq(queue, 1, n),
                      inbound, sent, got)
<1>1. PICK lo, mid \in Nat, msg, at \in [Nat -> Nat] :
          CarriedBy(txSeq, queue, wire, inbound, sent, got, lo, mid, msg, at)
  BY DEF Carried
<1>2. PICK k \in Nat : k = Len(queue)
  OBVIOUS
<1>3. n \in Nat /\ n <= k
  BY <1>2
<1>a. /\ SubSeq(queue, 1, n) \in Seq(DataFrame) /\ Len(SubSeq(queue, 1, n)) = n
      /\ \A i \in 1..n : SubSeq(queue, 1, n)[i] = queue[i]
      /\ SubSeq(queue, n + 1, Len(queue)) \in Seq(DataFrame)
      /\ Len(SubSeq(queue, n + 1, Len(queue))) = Len(queue) - n
      /\ \A i \in 1..(Len(queue) - n) : SubSeq(queue, n + 1, Len(queue))[i] = queue[n + i]
  <2>1. n \in Nat /\ n <= Len(queue)
    BY <1>2
  <2> QED
    BY <2>1, PartFacts, ZenonT(40)
<1>4. PICK frames \in Seq(DataFrame) :
          frames = SubSeq(queue, 1, n) /\ Len(frames) = n /\ \A i \in 1..n : frames[i] = queue[i]
  BY <1>a
<1>5. PICK rest \in Seq(DataFrame) :
          rest = SubSeq(queue, n + 1, k) /\ Len(rest) = k - n
          /\ \A i \in 1..(k - n) : rest[i] = queue[n + i]
  BY <1>a, <1>2
<1>6. frames \in Seq(Frame)
  <2>1. DataFrame \subseteq Frame
    BY DEF Frame
  <2> QED
    BY <2>1, SeqMonotonic
<1>7. PICK w \in Seq(Frame) : w = wire \o frames
  BY <1>6, ConcatFacts
<1>8. PICK l \in Nat : l = Len(wire)
  BY <1>6, ConcatFacts
<1>9. /\ Len(w) = l + n
      /\ \A i \in 1..l : w[i] = wire[i]
      /\ \A i \in 1..n : w[l + i] = frames[i]
  <2>1. /\ Len(wire \o frames) = Len(wire) + Len(frames)
        /\ \A i \in 1..Len(wire) : (wire \o frames)[i] = wire[i]
        /\ \A i \in 1..Len(frames) : (wire \o frames)[Len(wire) + i] = frames[i]
    BY <1>6, ConcatFacts
  <2> QED
    BY <2>1, <1>4, <1>7, <1>8
<1>10. /\ OnWire(wire, lo, mid, sent, msg, at) /\ Queued(queue, mid, sent, msg, at)
       /\ lo <= mid /\ txSeq = mid + k
  BY <1>1, <1>2 DEF CarriedBy
<1>11. \A i \in 1..n : /\ IsChunk(frames[i], mid + i - 1, sent, msg, at)
                       /\ frames[i].type = "ws.data" /\ frames[i].seq = mid + i - 1
  <2> SUFFICES ASSUME NEW i \in 1..n PROVE IsChunk(frames[i], mid + i - 1, sent, msg, at)
    BY DEF IsChunk
  <2>1. i \in 1..k
    BY <1>3
  <2> QED
    BY <2>1, <1>2, <1>4, <1>10 DEF Queued
<1>12. mid + n \in Nat /\ lo <= mid + n /\ txSeq = (mid + n) + Len(rest)
  <2>1. mid + k = (mid + n) + (k - n) /\ mid + n \in Nat /\ lo <= mid + n
    BY <1>3, <1>10
  <2> QED
    BY <2>1, <1>5, <1>10
<1>13. Queued(rest, mid + n, sent, msg, at)
  <2> SUFFICES ASSUME NEW i \in 1..(k - n)
               PROVE  IsChunk(rest[i], (mid + n) + i - 1, sent, msg, at)
    BY <1>5 DEF Queued
  <2>1. PICK j \in 1..k : j = n + i
    BY <1>3
  <2>2. (mid + n) + i - 1 = mid + j - 1 /\ rest[i] = queue[j]
    BY <2>1, <1>3, <1>5
  <2> QED
    BY <2>1, <2>2, <1>2, <1>10 DEF Queued
<1>14. OnWire(w, lo, mid + n, sent, msg, at)
  <2>0. \A i \in 1..Len(w) : i \in 1..l \/ \E j \in 1..n : i = l + j
    <3> SUFFICES ASSUME NEW i \in 1..(l + n), i \notin 1..l PROVE \E j \in 1..n : i = l + j
      BY <1>9
    <3>1. i - l \in 1..n /\ i = l + (i - l)
      BY <1>3, <1>8
    <3> QED
      BY <3>1
  <2>1. ASSUME NEW i \in 1..Len(w), w[i].type = "ws.data"
        PROVE  /\ lo <= w[i].seq /\ w[i].seq < mid + n
               /\ IsChunk(w[i], w[i].seq, sent, msg, at)
    <3>1. CASE i \in 1..l
      <4>1. w[i] = wire[i]
        BY <3>1, <1>9
      <4>2. /\ lo <= wire[i].seq /\ wire[i].seq < mid
            /\ IsChunk(wire[i], wire[i].seq, sent, msg, at)
        BY <3>1, <2>1, <4>1, <1>8, <1>10 DEF OnWire
      <4>3. PICK q \in Nat : q = wire[i].seq
        <5>0. i \in 1..Len(wire)
          BY <3>1, <1>8
        <5>a. wire[i] \in Frame
          BY <5>0, ElementOfSeq
        <5>1. wire[i] \in Frame /\ wire[i].type = "ws.data"
          BY <5>a, <2>1, <4>1
        <5>2. wire[i] \in DataFrame
          BY <5>1 DEF Frame, AckFrame, DataFrame
        <5> QED
          BY <5>2 DEF DataFrame
      <4>4. q < mid
        BY <4>2, <4>3, Zenon
      <4>5. q < mid + n
        BY <4>4, <1>3
      <4> QED
        BY <4>1, <4>2, <4>3, <4>5, Zenon
    <3>2. ASSUME NEW j \in 1..n, i = l + j
          PROVE  /\ lo <= w[i].seq /\ w[i].seq < mid + n
                 /\ IsChunk(w[i], w[i].seq, sent, msg, at)
      <4>1. w[i] = frames[j]
        BY <3>2, <1>9
      <4>2. PICK q \in Nat : q = mid + j - 1 /\ lo <= q /\ q < mid + n
        <5>1. mid + j - 1 \in Nat /\ lo <= mid + j - 1 /\ mid + j - 1 < mid + n
          BY <1>3, <1>10
        <5> QED
          BY <5>1
      <4> QED
        BY <4>1, <4>2, <1>11
    <3> QED
      BY <2>0, <3>1, <3>2
  <2>2. ASSUME NEW i \in 1..Len(w), NEW j \in 1..Len(w), i < j,
               w[i].type = "ws.data", w[j].type = "ws.data"
        PROVE  w[i].seq < w[j].seq
    <3>1. CASE i \in 1..l /\ j \in 1..l
      BY <2>2, <3>1, <1>8, <1>9, <1>10 DEF OnWire
    <3>2. ASSUME i \in 1..l, NEW b \in 1..n, j = l + b
          PROVE  w[i].seq < w[j].seq
      <4>1. w[i] = wire[i] /\ w[j].seq = mid + b - 1
        BY <3>2, <1>9, <1>11
      <4>2. wire[i].seq < mid
        BY <2>2, <3>2, <4>1, <1>8, <1>10 DEF OnWire
      <4>3. PICK q \in Nat : q = wire[i].seq
        <5>0. i \in 1..Len(wire)
          BY <3>2, <1>8
        <5>a. wire[i] \in Frame
          BY <5>0, ElementOfSeq
        <5>1. wire[i] \in Frame /\ wire[i].type = "ws.data"
          BY <5>a, <2>2, <4>1
        <5>2. wire[i] \in DataFrame
          BY <5>1 DEF Frame, AckFrame, DataFrame
        <5> QED
          BY <5>2 DEF DataFrame
      <4>4. q < mid
        BY <4>2, <4>3, Zenon
      <4>5. q < mid + b - 1
        BY <4>4
      <4> QED
        BY <4>1, <4>3, <4>5, Zenon
    <3>3. ASSUME NEW a \in 1..n, i = l + a, NEW b \in 1..n, j = l + b
          PROVE  w[i].seq < w[j].seq
      <4>1. w[i].seq = mid + a - 1 /\ w[j].seq = mid + b - 1
        BY <3>3, <1>9, <1>11
      <4>2. mid + a - 1 < mid + b - 1
        BY <2>2, <3>3, <1>8
      <4> QED
        BY <4>1, <4>2
    <3>4. ASSUME NEW a \in 1..n, i = l + a PROVE j \notin 1..l
      BY <2>2, <3>4, <1>8
    <3> QED
      BY <2>0, <3>1, <3>2, <3>3, <3>4
  <2>3. ASSUME NEW s \in Nat, lo <= s, s < mid + n
        PROVE  \E i \in 1..Len(w) : w[i].type = "ws.data" /\ w[i].seq = s
    <3>1. CASE s < mid
      <4>1. PICK i \in 1..l : wire[i].type = "ws.data" /\ wire[i].seq = s
        BY <2>3, <3>1, <1>8, <1>10 DEF OnWire
      <4>a. i \in 1..(l + n)
        BY <4>1, <1>3, <1>8
      <4>2. i \in 1..Len(w) /\ w[i] = wire[i]
        BY <4>1, <4>a, <1>9
      <4> QED
        BY <4>1, <4>2
    <3>2. CASE ~(s < mid)
      <4>1. PICK j \in 1..n : s = mid + j - 1
        <5>1. s - mid + 1 \in 1..n /\ s = mid + (s - mid + 1) - 1
          BY <2>3, <3>2, <1>3
        <5> QED
          BY <5>1
      <4>2. l + j \in 1..Len(w)
        BY <1>3, <1>8, <1>9
      <4> QED
        BY <4>1, <4>2, <1>9, <1>11
    <3> QED
      BY <3>1, <3>2
  <2> QED
    BY <2>1, <2>2, <2>3 DEF OnWire
<1>15. CarriedBy(txSeq, rest, w, inbound, sent, got, lo, mid + n, msg, at)
  BY <1>1, <1>12, <1>13, <1>14 DEF CarriedBy
<1>16. Carried(txSeq, rest, w, inbound, sent, got)
  BY <1>12, <1>15 DEF Carried
<1> QED
  BY <1>2, <1>4, <1>5, <1>7, <1>16

LEMMA MinOfTwo ==
    ASSUME NEW a \in Nat, NEW b \in Nat
    PROVE  Min({a, b}) = IF a <= b THEN a ELSE b
BY DEF Min

\* Multiples of the chunk size.
LEMMA Multiples ==
    ASSUME NEW i \in Nat, NEW j \in Nat, i <= j
    PROVE  i * ChunkBytes \in Nat /\ i * ChunkBytes <= j * ChunkBytes
BY StreamBounds

\* The chunks of a message begin one after the other and end with the message.
LEMMA ChunksCover ==
    ASSUME NEW bytes \in Message, NEW n, n = ChunkCount(bytes)
    PROVE  /\ n \in Nat /\ n >= 1
           /\ \A i \in 1..n : (i - 1) * ChunkBytes \in Nat /\ (i - 1) * ChunkBytes <= Len(bytes)
           /\ \A i \in 1..n : i < n => /\ Min({i * ChunkBytes, Len(bytes)}) = i * ChunkBytes
                                       /\ i * ChunkBytes <= Len(bytes)
           /\ Min({n * ChunkBytes, Len(bytes)}) = Len(bytes)
<1>1. PICK l \in Nat : l = Len(bytes)
  BY WholePart
<1>2. CASE bytes = <<>>
  <2>1. l = 0 /\ n = 1
    BY <1>1, <1>2 DEF ChunkCount
  <2>2. 1 * ChunkBytes \in Nat /\ 0 <= 1 * ChunkBytes /\ (1 - 1) * ChunkBytes = 0
    BY StreamBounds
  <2>3. Min({1 * ChunkBytes, 0}) = 0
    BY <2>2, MinOfTwo
  <2>4. \A i \in 1..1 : i = 1
    OBVIOUS
  <2> QED
    BY <1>1, <2>1, <2>2, <2>3, <2>4
<1>3. CASE bytes # <<>>
  <2>1. l > 0 /\ n = (l + ChunkBytes - 1) \div ChunkBytes
    BY <1>1, <1>3 DEF ChunkCount, Message
  <2>2. n \in Nat /\ n >= 1 /\ (n - 1) * ChunkBytes < l /\ l <= n * ChunkBytes
    BY <2>1, StreamBounds
  <2>3. ASSUME NEW i \in 1..n
        PROVE  /\ (i - 1) * ChunkBytes \in Nat /\ (i - 1) * ChunkBytes <= l
               /\ i < n => i * ChunkBytes \in Nat /\ i * ChunkBytes <= l
    <3>1. i - 1 \in Nat /\ n - 1 \in Nat /\ i - 1 <= n - 1 /\ i \in Nat /\ (i < n => i <= n - 1)
      BY <2>2
    <3>2. (i - 1) * ChunkBytes \in Nat /\ (i - 1) * ChunkBytes <= (n - 1) * ChunkBytes
      BY <3>1, Multiples
    <3>3. i < n => i * ChunkBytes \in Nat /\ i * ChunkBytes <= (n - 1) * ChunkBytes
      BY <3>1, Multiples
    <3>4. (n - 1) * ChunkBytes \in Nat
      BY <3>1, Multiples
    <3> QED
      BY <2>2, <3>2, <3>3, <3>4
  <2>4. n * ChunkBytes \in Nat
    BY <2>2, Multiples
  <2>5. Min({n * ChunkBytes, l}) = l
    BY <2>2, <2>4, MinOfTwo
  <2>6. \A i \in 1..n : i < n => Min({i * ChunkBytes, l}) = i * ChunkBytes
    BY <2>3, MinOfTwo
  <2> QED
    BY <1>1, <2>2, <2>3, <2>5, <2>6
<1> QED
  BY <1>2, <1>3

\* The frame of the i-th chunk.
ChunkFrame(codec, bytes, n, i) ==
    [type |-> "ws.data", seq |-> codec.txSeq + i - 1,
     bytes |-> SubSeq(bytes, (i - 1) * ChunkBytes + 1, Min({i * ChunkBytes, Len(bytes)})),
     fin |-> i = n]

LEMMA EnqueueFields ==
    ASSUME NEW codec \in CodecType, NEW bytes \in Message
    PROVE  \E n \in Nat, chunks \in Seq(DataFrame), e \in CodecType :
             /\ e = Enqueue(codec, bytes)
             /\ n = ChunkCount(bytes) /\ Len(chunks) = n
             /\ \A i \in 1..n : chunks[i] = ChunkFrame(codec, bytes, n, i)
             /\ e.txSeq = codec.txSeq + n /\ e.outbound = codec.outbound \o chunks
             /\ e.unacked = codec.unacked /\ e.unackedBySeq = codec.unackedBySeq
             /\ e.inbound = codec.inbound
<1>1. PICK n : n = ChunkCount(bytes)
  OBVIOUS
<1>2. n \in Nat
  BY <1>1, ChunksCover
<1>3. codec.txSeq \in Nat /\ codec.outbound \in Seq(DataFrame)
  BY DEF CodecType
<1>4. \A i \in 1..n : ChunkFrame(codec, bytes, n, i) \in DataFrame
  <2> SUFFICES ASSUME NEW i \in 1..n PROVE ChunkFrame(codec, bytes, n, i) \in DataFrame
    OBVIOUS
  <2>1. PICK a, b \in Nat :
            a = (i - 1) * ChunkBytes /\ b = Min({i * ChunkBytes, Len(bytes)}) /\ b <= Len(bytes)
    <3>1. i \in Nat /\ i * ChunkBytes \in Nat
      BY <1>2, Multiples
    <3>2. Len(bytes) \in Nat
      BY WholePart
    <3>3. (i - 1) * ChunkBytes \in Nat
      BY <1>1, ChunksCover
    <3>4. Min({i * ChunkBytes, Len(bytes)}) \in Nat /\ Min({i * ChunkBytes, Len(bytes)}) <= Len(bytes)
      BY <3>1, <3>2, MinOfTwo
    <3> QED
      BY <3>3, <3>4
  <2>2. SubSeq(bytes, a + 1, b) \in Message
    <3>1. \A k \in (a + 1)..b : bytes[k] \in Nat
      BY <2>1 DEF Message
    <3> QED
      BY <3>1, SubSeqProperties DEF Message
  <2>3. codec.txSeq + i - 1 \in Nat
    BY <1>2, <1>3
  <2> QED
    BY <2>1, <2>2, <2>3 DEF ChunkFrame, DataFrame
<1>5. PICK chunks : chunks = [i \in 1..n |-> ChunkFrame(codec, bytes, n, i)]
  OBVIOUS
<1>6. chunks \in Seq(DataFrame) /\ Len(chunks) = n /\ \A i \in 1..n : chunks[i] = ChunkFrame(codec, bytes, n, i)
  <2>1. chunks \in [1..n -> DataFrame]
    BY <1>4, <1>5
  <2> QED
    BY <1>2, <1>5, <2>1
<1>7. PICK e : e = [codec EXCEPT !.txSeq = codec.txSeq + n, !.outbound = codec.outbound \o chunks]
  OBVIOUS
<1>8. e = Enqueue(codec, bytes)
  BY <1>1, <1>5, <1>7 DEF Enqueue, ChunkFrame
<1>9. codec.txSeq + n \in Nat /\ codec.outbound \o chunks \in Seq(DataFrame)
  BY <1>2, <1>3, <1>6, ConcatFacts
<1>10. /\ e \in CodecType
       /\ e.txSeq = codec.txSeq + n /\ e.outbound = codec.outbound \o chunks
       /\ e.unacked = codec.unacked /\ e.unackedBySeq = codec.unackedBySeq
       /\ e.inbound = codec.inbound
  BY <1>7, <1>9 DEF CodecType
<1> QED
  BY <1>1, <1>2, <1>6, <1>8, <1>10

\* A frame carries the same when the plan and the messages agree where it looks.
LEMMA ChunkStays ==
    ASSUME NEW f, NEW s \in Nat, NEW sent, NEW msg, NEW at, NEW sent2, NEW msg2, NEW at2,
           IsChunk(f, s, sent, msg, at),
           msg2[s] = msg[s], msg2[s + 1] = msg[s + 1], at2[s] = at[s], at2[s + 1] = at[s + 1],
           sent2[msg[s]] = sent[msg[s]]
    PROVE  IsChunk(f, s, sent2, msg2, at2)
BY DEF IsChunk

\* A message that is written is planned behind the ones before it, and its
\* frames join the queue.
LEMMA EnqueuedCarried ==
    ASSUME NEW codec \in CodecType, NEW bytes \in Message, NEW wire \in Seq(Frame),
           NEW inbound, NEW sent \in Seq(Message), NEW got,
           Carried(codec.txSeq, codec.outbound, wire, inbound, sent, got)
    PROVE  \E e \in CodecType :
             /\ e = Enqueue(codec, bytes)
             /\ e.unacked = codec.unacked /\ e.unackedBySeq = codec.unackedBySeq
             /\ e.inbound = codec.inbound
             /\ Carried(e.txSeq, e.outbound, wire, inbound, Append(sent, bytes), got)
<1>1. PICK n \in Nat, chunks \in Seq(DataFrame), e \in CodecType :
             /\ e = Enqueue(codec, bytes)
             /\ n = ChunkCount(bytes) /\ Len(chunks) = n
             /\ \A i \in 1..n : chunks[i] = ChunkFrame(codec, bytes, n, i)
             /\ e.txSeq = codec.txSeq + n /\ e.outbound = codec.outbound \o chunks
             /\ e.unacked = codec.unacked /\ e.unackedBySeq = codec.unackedBySeq
             /\ e.inbound = codec.inbound
  BY EnqueueFields
<1>2. PICK t, k, m, l \in Nat :
          t = codec.txSeq /\ k = Len(codec.outbound) /\ m = Len(sent) /\ l = Len(bytes)
  <2>1. codec.txSeq \in Nat /\ codec.outbound \in Seq(DataFrame)
    BY DEF CodecType
  <2>2. Len(codec.outbound) \in Nat /\ Len(sent) \in Nat /\ Len(bytes) \in Nat
    BY <2>1, WholePart
  <2> QED
    BY <2>1, <2>2
<1>3. PICK lo, mid \in Nat, msg, at \in [Nat -> Nat] :
          CarriedBy(t, codec.outbound, wire, inbound, sent, got, lo, mid, msg, at)
  BY <1>2 DEF Carried
<1>4. /\ Planned(sent, msg, at, t) /\ OnWire(wire, lo, mid, sent, msg, at)
      /\ Queued(codec.outbound, mid, sent, msg, at) /\ lo <= mid /\ t = mid + k
      /\ msg[lo] = got + 1 /\ inbound = Begun(sent, msg, at, lo)
  BY <1>2, <1>3 DEF CarriedBy
<1>5. PICK sent2 \in Seq(Message) : sent2 = Append(sent, bytes)
  <2>1. Append(sent, bytes) \in Seq(Message)
    BY AppendProperties
  <2> QED
    BY <2>1
<1>6. Len(sent2) = m + 1 /\ sent2[m + 1] = bytes /\ \A i \in 1..m : sent2[i] = sent[i]
  BY <1>2, <1>5, AppendProperties
<1>7. n >= 1
  BY <1>1, ChunksCover
<1>8. PICK msg2, at2 \in [Nat -> Nat] :
          \A s \in Nat :
            /\ msg2[s] = IF s < t THEN msg[s] ELSE IF s < t + n THEN m + 1 ELSE m + 2
            /\ at2[s] = IF s < t THEN at[s] ELSE IF s < t + n THEN (s - t) * ChunkBytes ELSE 0
  <2> DEFINE msgAt(s) == IF s < t THEN msg[s] ELSE IF s < t + n THEN m + 1 ELSE m + 2
             atAt(s) == IF s < t THEN at[s] ELSE IF s < t + n THEN (s - t) * ChunkBytes ELSE 0
  <2>1. ASSUME NEW s \in Nat PROVE msgAt(s) \in Nat
    <3>1. msg[s] \in Nat
      BY Zenon
    <3>2. m + 1 \in Nat /\ m + 2 \in Nat
      OBVIOUS
    <3> QED
      BY <3>1, <3>2, Zenon
  <2>2. ASSUME NEW s \in Nat PROVE atAt(s) \in Nat
    <3>1. CASE s < t
      BY <3>1
    <3>2. CASE ~(s < t)
      <4>1. s - t \in Nat /\ s - t <= s - t
        BY <3>2
      <4>2. (s - t) * ChunkBytes \in Nat
        BY <4>1, Multiples
      <4> QED
        BY <3>2, <4>2
    <3> QED
      BY <3>1, <3>2
  <2> HIDE DEF msgAt, atAt
  <2>3. [s \in Nat |-> msgAt(s)] \in [Nat -> Nat] /\ [s \in Nat |-> atAt(s)] \in [Nat -> Nat]
    BY <2>1, <2>2
  <2>4. \A s \in Nat : [r \in Nat |-> msgAt(r)][s] = msgAt(s) /\ [r \in Nat |-> atAt(r)][s] = atAt(s)
    OBVIOUS
  <2> QED
    BY <2>3, <2>4, Zenon DEF msgAt, atAt
<1>9. \A s \in Nat : s <= t => msg2[s] = msg[s] /\ at2[s] = at[s]
  <2>1. msg[t] = m + 1 /\ at[t] = 0
    BY <1>2, <1>4 DEF Planned
  <2>2. (t - t) * ChunkBytes = 0
    BY StreamBounds
  <2>4. ~(t < t) /\ t < t + n
    BY <1>7
  <2>3. msg2[t] = m + 1 /\ at2[t] = 0
    BY <1>8, <2>2, <2>4
  <2>5. ASSUME NEW s \in Nat, s < t PROVE msg2[s] = msg[s] /\ at2[s] = at[s]
    BY <1>8, <2>5
  <2>6. \A s \in Nat : s <= t => s < t \/ s = t
    OBVIOUS
  <2> QED
    BY <2>1, <2>3, <2>5, <2>6, Zenon
<1>10. \A i \in 1..n : /\ msg2[t + i - 1] = m + 1 /\ at2[t + i - 1] = (i - 1) * ChunkBytes
                       /\ i < n => msg2[(t + i - 1) + 1] = m + 1 /\ at2[(t + i - 1) + 1] = i * ChunkBytes
                       /\ i = n => msg2[(t + i - 1) + 1] = m + 2 /\ at2[(t + i - 1) + 1] = 0
  <2> SUFFICES ASSUME NEW i \in 1..n
               PROVE  /\ msg2[t + i - 1] = m + 1 /\ at2[t + i - 1] = (i - 1) * ChunkBytes
                      /\ i < n => msg2[(t + i - 1) + 1] = m + 1 /\ at2[(t + i - 1) + 1] = i * ChunkBytes
                      /\ i = n => msg2[(t + i - 1) + 1] = m + 2 /\ at2[(t + i - 1) + 1] = 0
    OBVIOUS
  <2>1. t + i - 1 \in Nat /\ ~(t + i - 1 < t) /\ t + i - 1 < t + n /\ (t + i - 1) - t = i - 1
    OBVIOUS
  <2>2. (t + i - 1) + 1 \in Nat /\ ~((t + i - 1) + 1 < t) /\ ((t + i - 1) + 1) - t = i
    OBVIOUS
  <2>3. (i < n => (t + i - 1) + 1 < t + n) /\ (i = n => ~((t + i - 1) + 1 < t + n))
    OBVIOUS
  <2>4. /\ msg2[t + i - 1] = m + 1 /\ at2[t + i - 1] = ((t + i - 1) - t) * ChunkBytes
    BY <1>8, <2>1
  <2>5. i < n => msg2[(t + i - 1) + 1] = m + 1 /\ at2[(t + i - 1) + 1] = (((t + i - 1) + 1) - t) * ChunkBytes
    BY <1>8, <2>2, <2>3
  <2>6. i = n => msg2[(t + i - 1) + 1] = m + 2 /\ at2[(t + i - 1) + 1] = 0
    BY <1>8, <2>2, <2>3
  <2> QED
    BY <2>1, <2>2, <2>4, <2>5, <2>6
<1>11. \A s \in Nat : s < t + n => s < t \/ \E i \in 1..n : s = t + i - 1
  <2> SUFFICES ASSUME NEW s \in Nat, s < t + n, ~(s < t) PROVE \E i \in 1..n : s = t + i - 1
    OBVIOUS
  <2>1. s - t + 1 \in 1..n /\ s = t + (s - t + 1) - 1
    OBVIOUS
  <2> QED
    BY <2>1
<1>12. Planned(sent2, msg2, at2, t + n)
  <2>1. msg2[t + n] = (m + 1) + 1 /\ at2[t + n] = 0
    <3>1. n \in 1..n /\ (t + n - 1) + 1 = t + n /\ m + 2 = (m + 1) + 1
      BY <1>7
    <3>2. msg2[(t + n - 1) + 1] = m + 2 /\ at2[(t + n - 1) + 1] = 0
      BY <1>10, <3>1, Zenon
    <3> QED
      BY <3>1, <3>2
  <2>2. ASSUME NEW s \in Nat, s < t
        PROVE  /\ msg2[s] \in 1..(m + 1) /\ at2[s] <= Len(sent2[msg2[s]])
               /\ \/ msg2[s + 1] = msg2[s] /\ at2[s] <= at2[s + 1] /\ at2[s + 1] <= Len(sent2[msg2[s]])
                  \/ msg2[s + 1] = msg2[s] + 1 /\ at2[s + 1] = 0
    <3>1. s <= t /\ s + 1 \in Nat /\ s + 1 <= t
      BY <2>2
    <3>2. msg2[s] = msg[s] /\ msg2[s + 1] = msg[s + 1] /\ at2[s] = at[s] /\ at2[s + 1] = at[s + 1]
      BY <3>1, <1>9
    <3>3. /\ msg[s] \in 1..m /\ at[s] <= Len(sent[msg[s]])
          /\ \/ msg[s + 1] = msg[s] /\ at[s] <= at[s + 1] /\ at[s + 1] <= Len(sent[msg[s]])
             \/ msg[s + 1] = msg[s] + 1 /\ at[s + 1] = 0
      BY <2>2, <1>2, <1>4 DEF Planned
    <3>a. PICK x \in 1..m : x = msg[s]
      BY <3>3
    <3>c. sent2[x] = sent[x]
      BY <1>6
    <3>b. sent2[x] = sent[x] /\ x \in 1..(m + 1)
      BY <3>c
    <3>4. sent2[msg[s]] = sent[msg[s]] /\ msg[s] \in 1..(m + 1)
      BY <3>a, <3>b
    <3> QED
      BY <3>2, <3>3, <3>4, Zenon
  <2>3. ASSUME NEW i \in 1..n, NEW s \in Nat, s = t + i - 1
        PROVE  /\ msg2[s] \in 1..(m + 1) /\ at2[s] <= Len(sent2[msg2[s]])
               /\ \/ msg2[s + 1] = msg2[s] /\ at2[s] <= at2[s + 1] /\ at2[s + 1] <= Len(sent2[msg2[s]])
                  \/ msg2[s + 1] = msg2[s] + 1 /\ at2[s + 1] = 0
    <3>1. msg2[s] = m + 1 /\ at2[s] = (i - 1) * ChunkBytes /\ sent2[msg2[s]] = bytes
      BY <2>3, <1>6, <1>10
    <3>2. (i - 1) * ChunkBytes <= l
      BY <1>1, <1>2, ChunksCover
    <3>3. CASE i < n
      <4>1. msg2[s + 1] = m + 1 /\ at2[s + 1] = i * ChunkBytes
        BY <2>3, <3>3, <1>10
      <4>2. i * ChunkBytes <= l
        BY <3>3, <1>1, <1>2, ChunksCover
      <4>3. (i - 1) * ChunkBytes <= i * ChunkBytes
        <5>1. i - 1 \in Nat /\ i \in Nat /\ i - 1 <= i
          OBVIOUS
        <5> QED
          BY <5>1, Multiples
      <4> QED
        BY <3>1, <3>2, <4>1, <4>2, <4>3, <1>2
    <3>4. CASE i = n
      <4>1. msg2[s + 1] = m + 2 /\ at2[s + 1] = 0
        BY <2>3, <3>4, <1>10
      <4> QED
        BY <3>1, <3>2, <4>1, <1>2
    <3> QED
      BY <3>3, <3>4
  <2>4. ASSUME NEW s \in Nat, s < t + n
        PROVE  /\ msg2[s] \in 1..(m + 1) /\ at2[s] <= Len(sent2[msg2[s]])
               /\ \/ msg2[s + 1] = msg2[s] /\ at2[s] <= at2[s + 1] /\ at2[s + 1] <= Len(sent2[msg2[s]])
                  \/ msg2[s + 1] = msg2[s] + 1 /\ at2[s + 1] = 0
    BY <2>2, <2>3, <2>4, <1>11
  <2> QED
    BY <2>1, <2>4, <1>6, <1>8 DEF Planned
<1>13. \A f : \A s \in Nat : s < t /\ IsChunk(f, s, sent, msg, at) => IsChunk(f, s, sent2, msg2, at2)
  <2> SUFFICES ASSUME NEW s \in Nat, NEW f, s < t, IsChunk(f, s, sent, msg, at)
               PROVE  IsChunk(f, s, sent2, msg2, at2)
    OBVIOUS
  <2>1. s <= t /\ s + 1 \in Nat /\ s + 1 <= t
    OBVIOUS
  <2>2. msg2[s] = msg[s] /\ msg2[s + 1] = msg[s + 1] /\ at2[s] = at[s] /\ at2[s + 1] = at[s + 1]
    BY <2>1, <1>9
  <2>3. msg[s] \in 1..m
    BY <1>2, <1>4 DEF Planned
  <2>4. sent2[msg[s]] = sent[msg[s]]
    BY <2>3, <1>6
  <2> QED
    BY <2>2, <2>4, ChunkStays
<1>14. Queued(e.outbound, mid, sent2, msg2, at2) /\ t + n = mid + Len(e.outbound)
  <2>1. /\ Len(codec.outbound \o chunks) = k + n
        /\ \A i \in 1..k : (codec.outbound \o chunks)[i] = codec.outbound[i]
        /\ \A i \in 1..n : (codec.outbound \o chunks)[k + i] = chunks[i]
    <3>1. codec.outbound \in Seq(DataFrame)
      BY DEF CodecType
    <3>a. chunks \in Seq(DataFrame)
      BY <1>1
    <3>b. PICK o, c \in Seq(DataFrame) : o = codec.outbound /\ c = chunks
      BY <3>1, <3>a
    <3>c. /\ Len(o \o c) = Len(o) + Len(c)
          /\ \A i \in 1..Len(o) : (o \o c)[i] = o[i]
          /\ \A i \in 1..Len(c) : (o \o c)[Len(o) + i] = c[i]
      BY ConcatFacts
    <3>2. /\ Len(codec.outbound \o chunks) = Len(codec.outbound) + Len(chunks)
          /\ \A i \in 1..Len(codec.outbound) : (codec.outbound \o chunks)[i] = codec.outbound[i]
          /\ \A i \in 1..Len(chunks) : (codec.outbound \o chunks)[Len(codec.outbound) + i] = chunks[i]
      BY <3>b, <3>c, Zenon
    <3>3. Len(codec.outbound) = k /\ Len(chunks) = n
      BY <1>1, <1>2
    <3> QED
      BY <3>2, <3>3, Zenon
  <2>2. ASSUME NEW i \in 1..k PROVE IsChunk(codec.outbound[i], mid + i - 1, sent2, msg2, at2)
    <3>1. mid + i - 1 \in Nat /\ mid + i - 1 < t
      BY <1>4
    <3>2. IsChunk(codec.outbound[i], mid + i - 1, sent, msg, at)
      BY <1>2, <1>4 DEF Queued
    <3> QED
      BY <3>1, <3>2, <1>13
  <2>3. ASSUME NEW i \in 1..n PROVE IsChunk(chunks[i], t + i - 1, sent2, msg2, at2)
    <3>1. chunks[i] = ChunkFrame(codec, bytes, n, i)
      BY <1>1
    <3>b. PICK q, y, b : /\ q = codec.txSeq + i - 1 /\ b = (i = n)
                         /\ y = SubSeq(bytes, (i - 1) * ChunkBytes + 1, Min({i * ChunkBytes, Len(bytes)}))
      OBVIOUS
    <3>c. chunks[i] = [type |-> "ws.data", seq |-> q, bytes |-> y, fin |-> b]
      BY <3>1, <3>b, Zenon DEF ChunkFrame
    <3>e. chunks[i].type = "ws.data" /\ chunks[i].seq = q /\ chunks[i].fin = b /\ chunks[i].bytes = y
      BY <3>c
    <3>d. chunks[i].type = "ws.data" /\ chunks[i].seq = q /\ (chunks[i].fin <=> i = n) /\ chunks[i].bytes = y
      BY <3>b, <3>e, Zenon
    <3>a. /\ chunks[i].type = "ws.data" /\ chunks[i].seq = codec.txSeq + i - 1 /\ (chunks[i].fin <=> i = n)
          /\ chunks[i].bytes = SubSeq(bytes, (i - 1) * ChunkBytes + 1, Min({i * ChunkBytes, Len(bytes)}))
      BY <3>b, <3>d, Zenon
    <3>2. /\ chunks[i].type = "ws.data" /\ chunks[i].seq = t + i - 1 /\ (chunks[i].fin <=> i = n)
          /\ chunks[i].bytes = SubSeq(bytes, (i - 1) * ChunkBytes + 1, Min({i * ChunkBytes, l}))
      BY <3>a, <1>2, Zenon
    <3>3. msg2[t + i - 1] = m + 1 /\ at2[t + i - 1] = (i - 1) * ChunkBytes /\ sent2[msg2[t + i - 1]] = bytes
      BY <1>6, <1>10
    <3>4. CASE i < n
      <4>1. msg2[(t + i - 1) + 1] = m + 1 /\ at2[(t + i - 1) + 1] = i * ChunkBytes
        BY <3>4, <1>10
      <4>2. Min({i * ChunkBytes, l}) = i * ChunkBytes
        BY <3>4, <1>1, <1>2, ChunksCover
      <4>3. ~(i = n)
        BY <3>4
      <4> QED
        BY <3>2, <3>3, <4>1, <4>2, <4>3 DEF IsChunk
    <3>5. CASE i = n
      <4>0. m + 2 # m + 1
        OBVIOUS
      <4>1. msg2[(t + i - 1) + 1] = m + 2 /\ m + 2 # m + 1
        BY <3>5, <1>10, <4>0
      <4>2. Min({i * ChunkBytes, l}) = l
        BY <3>5, <1>1, <1>2, ChunksCover
      <4> QED
        BY <3>2, <3>3, <3>5, <4>1, <4>2, <1>2 DEF IsChunk
    <3> QED
      BY <3>4, <3>5
  <2>4. ASSUME NEW i \in 1..(k + n) PROVE IsChunk((codec.outbound \o chunks)[i], mid + i - 1, sent2, msg2, at2)
    <3>1. CASE i \in 1..k
      BY <3>1, <2>1, <2>2
    <3>2. CASE i \notin 1..k
      <4>1. PICK j \in 1..n : i = k + j
        <5>1. i - k \in 1..n /\ i = k + (i - k)
          BY <3>2
        <5> QED
          BY <5>1
      <4>2. mid + i - 1 = t + j - 1
        BY <4>1, <1>4
      <4> QED
        BY <4>1, <4>2, <2>1, <2>3
    <3> QED
      BY <3>1, <3>2
  <2>5. t + n = mid + (k + n)
    BY <1>4
  <2> QED
    BY <2>1, <2>4, <2>5, <1>1 DEF Queued
<1>15. OnWire(wire, lo, mid, sent2, msg2, at2)
  <2>1. ASSUME NEW i \in 1..Len(wire), wire[i].type = "ws.data"
        PROVE  IsChunk(wire[i], wire[i].seq, sent2, msg2, at2)
    <3>1. wire[i].seq < mid /\ IsChunk(wire[i], wire[i].seq, sent, msg, at)
      BY <2>1, <1>4 DEF OnWire
    <3>2. PICK q \in Nat : q = wire[i].seq
      <4>1. wire[i] \in Frame
        BY ElementOfSeq
      <4>2. wire[i] \in DataFrame
        BY <4>1, <2>1 DEF Frame, AckFrame, DataFrame
      <4> QED
        BY <4>2 DEF DataFrame
    <3>3. q < mid
      BY <3>1, <3>2, Zenon
    <3>4. q < t
      BY <3>3, <1>4
    <3> QED
      BY <3>1, <3>2, <3>4, <1>13, Zenon
  <2> QED
    BY <2>1, <1>4 DEF OnWire
<1>16. msg2[lo] = got + 1 /\ inbound = Begun(sent2, msg2, at2, lo)
  <2>1. lo <= t
    BY <1>4
  <2>2. msg2[lo] = msg[lo] /\ at2[lo] = at[lo]
    BY <2>1, <1>9
  <2>3. CASE lo < t
    <3>1. msg[lo] \in 1..m
      BY <2>3, <1>2, <1>4 DEF Planned
    <3>2. sent2[msg[lo]] = sent[msg[lo]]
      BY <3>1, <1>6
    <3> QED
      BY <2>2, <3>2, <1>4 DEF Begun
  <2>4. CASE lo = t
    <3>1. at[lo] = 0
      BY <2>4, <1>4 DEF Planned
    <3> QED
      BY <2>2, <3>1, <1>4 DEF Begun
  <2> QED
    BY <2>1, <2>3, <2>4
<1>17. CarriedBy(t + n, e.outbound, wire, inbound, sent2, got, lo, mid, msg2, at2)
  BY <1>4, <1>12, <1>14, <1>15, <1>16 DEF CarriedBy
<1>18. Carried(e.txSeq, e.outbound, wire, inbound, sent2, got)
  <2>1. e.txSeq = t + n
    BY <1>1, <1>2
  <2>2. Carried(t + n, e.outbound, wire, inbound, sent2, got)
    BY <1>8, <1>17, Zenon DEF Carried
  <2> QED
    BY <2>1, <2>2, Zenon
<1> QED
  BY <1>1, <1>5, <1>18

\* A number of bytes is a number.
LEMMA ByteCountNat ==
    ASSUME NEW messages \in Seq(Message)
    PROVE  ByteCount(messages) \in Nat
<1> DEFINE part(i) == {i} \X DOMAIN messages[i]
           parts == {part(i) : i \in DOMAIN messages}
<1>1. DOMAIN messages = 1..Len(messages) /\ Len(messages) \in Nat
  OBVIOUS
<1>2. IsFiniteSet(DOMAIN messages)
  BY <1>1, FS_Interval
<1>3. ASSUME NEW i \in DOMAIN messages PROVE IsFiniteSet(part(i))
  <2>1. messages[i] \in Message
    BY <1>1, ElementOfSeq
  <2>2. DOMAIN messages[i] = 1..Len(messages[i]) /\ Len(messages[i]) \in Nat
    BY <2>1 DEF Message
  <2>3. IsFiniteSet(DOMAIN messages[i]) /\ IsFiniteSet({i})
    <3>a. PICK l \in Nat : l = Len(messages[i])
      BY <2>2
    <3>1. l \in Int /\ 1 \in Int /\ l = Len(messages[i])
      BY <3>a
    <3>2. IsFiniteSet(1..l)
      BY <3>1, FS_Interval
    <3>3. IsFiniteSet({i})
      BY FS_Singleton
    <3> QED
      BY <2>2, <3>1, <3>2, <3>3
  <2> QED
    BY <2>3, FS_Product
<1> HIDE DEF part
<1>4. IsFiniteSet(parts)
  <2>1. PICK f : f = [i \in DOMAIN messages |-> part(i)]
    OBVIOUS
  <2>2. f \in Surjection(DOMAIN messages, parts)
    BY <2>1 DEF Surjection
  <2> HIDE DEF parts
  <2> QED
    BY <1>2, <2>2, FS_Surjection
<1>5. \A x \in parts : IsFiniteSet(x)
  BY <1>3
<1>6. IsFiniteSet(UNION parts)
  BY <1>4, <1>5, FS_UNION
<1>7. Cardinality(UNION parts) \in Nat
  BY <1>6, FS_CardinalityType
<1> QED
  BY <1>7 DEF ByteCount, part

LEMMA BytesNat ==
    ASSUME NEW frames \in Seq(DataFrame)
    PROVE  Bytes(frames) \in Nat
<1>1. [i \in DOMAIN frames |-> frames[i].bytes] \in Seq(Message)
  <2>1. Len(frames) \in Nat /\ DOMAIN frames = 1..Len(frames)
    OBVIOUS
  <2>2. \A i \in 1..Len(frames) : frames[i].bytes \in Message
    <3> SUFFICES ASSUME NEW i \in 1..Len(frames) PROVE frames[i].bytes \in Message
      OBVIOUS
    <3>1. frames[i] \in DataFrame
      BY ElementOfSeq
    <3> QED
      BY <3>1 DEF DataFrame
  <2>3. [i \in DOMAIN frames |-> frames[i].bytes] \in [1..Len(frames) -> Message]
    BY <2>1, <2>2
  <2> QED
    BY <2>1, <2>3, IsASeq
<1> QED
  BY <1>1, ByteCountNat DEF Bytes

\* pullSendable moves frames from the head of the queue to the connection and
\* touches nothing of what is received.
LEMMA Pulled ==
    ASSUME NEW codec \in CodecType
    PROVE  \E n \in 0..Len(codec.outbound), c \in CodecType, frames \in Seq(DataFrame) :
             /\ PullSendable(codec).codec = c /\ PullSendable(codec).frames = frames
             /\ frames = SubSeq(codec.outbound, 1, n)
             /\ c.outbound = SubSeq(codec.outbound, n + 1, Len(codec.outbound))
             /\ c.txSeq = codec.txSeq /\ c.inbound = codec.inbound
<1>1. PICK n \in 0..Len(codec.outbound) : n = Sendable(codec)
  BY SendableBound
<1>2. codec.outbound \in Seq(DataFrame) /\ codec.unacked \in Nat /\ codec.unackedBySeq \in SUBSET (Nat \X Nat)
  BY DEF CodecType
<1>3. n \in Nat /\ n <= Len(codec.outbound)
  BY <1>2
<1>4. PICK frames \in Seq(DataFrame), rest \in Seq(DataFrame) :
          /\ frames = SubSeq(codec.outbound, 1, n) /\ Len(frames) = n
          /\ rest = SubSeq(codec.outbound, n + 1, Len(codec.outbound))
  <2>1. PICK q \in Seq(DataFrame) : q = codec.outbound
    BY <1>2
  <2>2. n <= Len(q)
    BY <2>1, <1>3
  <2>3. SubSeq(q, 1, n) \in Seq(DataFrame) /\ Len(SubSeq(q, 1, n)) = n /\ SubSeq(q, n + 1, Len(q)) \in Seq(DataFrame)
    BY <1>3, <2>2, PartFacts
  <2> QED
    BY <2>1, <2>3, Zenon
<1>5. PICK held \in SUBSET (Nat \X Nat) :
          held = codec.unackedBySeq \cup
                   {<<frames[i].seq, Len(frames[i].bytes)>> : i \in {j \in 1..n : frames[j].bytes # <<>>}}
  <2>1. \A i \in 1..n : frames[i].seq \in Nat /\ Len(frames[i].bytes) \in Nat
    <3> SUFFICES ASSUME NEW i \in 1..n PROVE frames[i].seq \in Nat /\ Len(frames[i].bytes) \in Nat
      OBVIOUS
    <3>1. frames[i] \in DataFrame
      BY <1>4, ElementOfSeq
    <3>2. frames[i].seq \in Nat /\ frames[i].bytes \in Message
      BY <3>1 DEF DataFrame
    <3> QED
      BY <3>2, WholePart
  <2>2. \A i \in {j \in 1..n : frames[j].bytes # <<>>} : <<frames[i].seq, Len(frames[i].bytes)>> \in Nat \X Nat
    BY <2>1
  <2> QED
    BY <1>2, <2>2, Zenon
<1>6. PICK u \in Nat : u = codec.unacked + Bytes(frames)
  BY <1>2, BytesNat
<1>7. PICK c : c = [codec EXCEPT !.outbound = rest, !.unacked = u, !.unackedBySeq = held]
  OBVIOUS
<1>8. c \in CodecType /\ c.outbound = rest /\ c.txSeq = codec.txSeq /\ c.inbound = codec.inbound
  BY <1>7 DEF CodecType
<1>9. PullSendable(codec) = [frames |-> frames, codec |-> c]
  BY <1>1, <1>4, <1>5, <1>6, <1>7, Zenon DEF PullSendable
<1>10. PullSendable(codec).codec = c /\ PullSendable(codec).frames = frames
  BY <1>9
<1> QED
  BY <1>4, <1>8, <1>10

\* The same, for a codec whose messages are under way.
LEMMA FlushCarried ==
    ASSUME NEW codec \in CodecType
    PROVE  \E c \in CodecType, frames \in Seq(DataFrame) :
             /\ PullSendable(codec).codec = c /\ PullSendable(codec).frames = frames
             /\ c.inbound = codec.inbound
             /\ \A wire \in Seq(Frame) : \A inbound, sent, got :
                  Carried(codec.txSeq, codec.outbound, wire, inbound, sent, got)
                    => Carried(c.txSeq, c.outbound, wire \o frames, inbound, sent, got)
<1>1. PICK n \in 0..Len(codec.outbound), c \in CodecType, frames \in Seq(DataFrame) :
             /\ PullSendable(codec).codec = c /\ PullSendable(codec).frames = frames
             /\ frames = SubSeq(codec.outbound, 1, n)
             /\ c.outbound = SubSeq(codec.outbound, n + 1, Len(codec.outbound))
             /\ c.txSeq = codec.txSeq /\ c.inbound = codec.inbound
  BY Pulled
<1>2. ASSUME NEW wire \in Seq(Frame), NEW inbound, NEW sent, NEW got,
             Carried(codec.txSeq, codec.outbound, wire, inbound, sent, got)
      PROVE  Carried(c.txSeq, c.outbound, wire \o frames, inbound, sent, got)
  <2>1. codec.txSeq \in Nat /\ codec.outbound \in Seq(DataFrame)
    BY DEF CodecType
  <2>2. Carried(codec.txSeq, SubSeq(codec.outbound, n + 1, Len(codec.outbound)),
                wire \o SubSeq(codec.outbound, 1, n), inbound, sent, got)
    BY <2>1, <1>2, PulledCarried
  <2> QED
    BY <2>2, <1>1, Zenon
<1> QED
  BY <1>1, <1>2, Zenon

\* An ack changes what the codec holds against the window, and nothing else.
LEMMA Acked ==
    ASSUME NEW codec \in CodecType, NEW seq
    PROVE  \E c \in CodecType :
             /\ OnAck(codec, seq) = c /\ c.txSeq = codec.txSeq
             /\ c.outbound = codec.outbound /\ c.inbound = codec.inbound
<1> DEFINE held == {e \in codec.unackedBySeq : e[1] = seq}
<1>1. codec.unackedBySeq \in SUBSET (Nat \X Nat) /\ codec.unacked \in Nat
  BY DEF CodecType
<1>2. CASE held = {}
  BY <1>2 DEF OnAck
<1>3. CASE held # {}
  <2>1. PICK e \in held : e = CHOOSE x \in held : TRUE
    BY <1>3
  <2>2. e[2] \in Nat
    BY <1>1
  <2>3. PICK u \in Nat : u = IF codec.unacked > e[2] THEN codec.unacked - e[2] ELSE 0
    BY <1>1, <2>2
  <2>4. PICK h \in SUBSET (Nat \X Nat) : h = codec.unackedBySeq \ {e}
    BY <1>1
  <2>5. PICK c : c = [codec EXCEPT !.unackedBySeq = h, !.unacked = u]
    OBVIOUS
  <2>6. OnAck(codec, seq) = c
    BY <1>3, <2>1, <2>3, <2>4, <2>5, Zenon DEF OnAck
  <2>7. c \in CodecType /\ c.txSeq = codec.txSeq /\ c.outbound = codec.outbound /\ c.inbound = codec.inbound
    BY <2>5 DEF CodecType
  <2> QED
    BY <2>6, <2>7
<1> QED
  BY <1>2, <1>3

----------------------------------------------------------------------------
(* Messages that have arrived. *)

\* The first messages that were sent, in order.
Begins(got, sent) == Len(got) <= Len(sent) /\ \A i \in 1..Len(got) : got[i] = sent[i]

LEMMA BeginsIsPart ==
    ASSUME NEW got \in Seq(Message), NEW sent \in Seq(Message), Begins(got, sent)
    PROVE  got = SubSeq(sent, 1, Len(got))
<1>1. PICK n \in Nat : n = Len(got) /\ n <= Len(sent)
  BY DEF Begins
<1>2. /\ SubSeq(sent, 1, n) \in Seq(Message) /\ Len(SubSeq(sent, 1, n)) = n
      /\ \A i \in 1..n : SubSeq(sent, 1, n)[i] = sent[i]
  BY <1>1, PartFacts
<1>3. PICK p \in Seq(Message) : p = SubSeq(sent, 1, n)
  BY <1>2
<1>4. Len(p) = Len(got) /\ \A i \in 1..Len(got) : p[i] = got[i]
  BY <1>1, <1>2, <1>3 DEF Begins
<1>5. p = got
  BY <1>4, SeqEqual
<1> QED
  BY <1>1, <1>3, <1>5

\* Writing one more leaves what has arrived.
LEMMA BeginsStill ==
    ASSUME NEW got \in Seq(Message), NEW sent \in Seq(Message), NEW m \in Message, Begins(got, sent)
    PROVE  /\ Begins(got, Append(sent, m)) /\ Append(sent, m) \in Seq(Message)
           /\ Len(Append(sent, m)) = Len(sent) + 1
           /\ SubSeq(Append(sent, m), 1, Len(sent)) = sent
<1>1. PICK s \in Seq(Message) : s = Append(sent, m)
  BY AppendProperties
<1>2. Len(s) = Len(sent) + 1 /\ \A i \in 1..Len(sent) : s[i] = sent[i]
  BY <1>1, AppendProperties
<1>3. PICK l, k \in Nat : l = Len(sent) /\ k = Len(got)
  OBVIOUS
<1>4. k <= l /\ \A i \in 1..k : got[i] = sent[i]
  BY <1>3 DEF Begins
<1>5. \A i \in 1..k : i \in 1..l
  BY <1>4
<1>6. Begins(got, s)
  BY <1>2, <1>3, <1>4, <1>5 DEF Begins
<1>7. Begins(sent, s)
  BY <1>2, <1>3 DEF Begins
<1>8. SubSeq(s, 1, Len(sent)) = sent
  BY <1>7, BeginsIsPart
<1> QED
  BY <1>1, <1>2, <1>6, <1>8

\* The next message arrives.
LEMMA BeginsNext ==
    ASSUME NEW got \in Seq(Message), NEW sent \in Seq(Message), Begins(got, sent),
           Len(got) + 1 \in 1..Len(sent), NEW m \in Message, m = sent[Len(got) + 1]
    PROVE  /\ Append(got, m) \in Seq(Message) /\ Len(Append(got, m)) = Len(got) + 1
           /\ Begins(Append(got, m), sent)
<1>1. PICK g \in Seq(Message) : g = Append(got, m)
  BY AppendProperties
<1>2. Len(g) = Len(got) + 1 /\ g[Len(got) + 1] = m /\ \A i \in 1..Len(got) : g[i] = got[i]
  BY <1>1, AppendProperties
<1>3. PICK k \in Nat : k = Len(got)
  OBVIOUS
<1>4. \A i \in 1..(k + 1) : i \in 1..k \/ i = k + 1
  OBVIOUS
<1>5. \A i \in 1..(k + 1) : g[i] = sent[i]
  BY <1>2, <1>3, <1>4 DEF Begins
<1>6. Begins(g, sent)
  BY <1>2, <1>3, <1>5 DEF Begins
<1> QED
  BY <1>1, <1>2, <1>6

\* So do its first ones.
LEMMA BeginsFirst ==
    ASSUME NEW got \in Seq(Message), NEW more \in Seq(Message), NEW sent \in Seq(Message),
           Begins(got \o more, sent)
    PROVE  Begins(got, sent)
<1>1. PICK k, l \in Nat : k = Len(got) /\ l = Len(more)
  OBVIOUS
<1>2. Len(got \o more) = k + l /\ \A i \in 1..k : (got \o more)[i] = got[i]
  BY <1>1, ConcatFacts
<1>3. \A i \in 1..k : i \in 1..(k + l)
  BY <1>1
<1>4. Len(sent) \in Nat
  OBVIOUS
<1>5. k + l <= Len(sent) /\ \A i \in 1..(k + l) : (got \o more)[i] = sent[i]
  BY <1>2 DEF Begins
<1>6. k <= Len(sent)
  BY <1>4, <1>5
<1>7. \A i \in 1..k : got[i] = sent[i]
  BY <1>2, <1>3, <1>5
<1> QED
  BY <1>1, <1>6, <1>7 DEF Begins

----------------------------------------------------------------------------
(* The invariant of a stream. *)

Open == [type |-> "ws.open"]
PlainFrame == DataFrame \cup AckFrame \cup {Close}

MuxType == [live : BOOLEAN, codec : CodecType, loopbackOpen : BOOLEAN, paused : BOOLEAN,
            pendingInbound : Seq(Message)]
RemoteType == [known : BOOLEAN, codec : CodecType]

StreamTypeOK ==
    /\ control \in BOOLEAN /\ ackLost \in BOOLEAN
    /\ mux \in MuxType /\ remote \in RemoteType
    /\ loopback \in {"none", "connecting", "open", "closing", "closed"}
    /\ toRelay \in Seq(PlainFrame) /\ toDaemon \in Seq(Frame)
    /\ outSent \in Seq(Message) /\ outGot \in Seq(Message)
    /\ inSent \in Seq(Message) /\ inGot \in Seq(Message)

\* The stream is opened once, by the first frame.
Opening == toDaemon # <<>> /\ Head(toDaemon) = Open /\ Tail(toDaemon) \in Seq(PlainFrame)

DaemonWire ==
    /\ ackLost => toDaemon \in Seq({Close})
    /\ loopback = "none" /\ ~ackLost => Opening
    /\ loopback # "none" \/ ackLost => toDaemon \in Seq(PlainFrame)

\* How far the stream has come.
Life ==
    /\ remote.known => control /\ ~ackLost
    /\ DaemonWire
    /\ loopback \in {"none", "connecting"} => ~mux.loopbackOpen
    /\ loopback \in {"open", "closing"} => mux.loopbackOpen
    /\ mux.loopbackOpen => mux.pendingInbound = <<>>
    /\ loopback \in {"none", "closed"} => ~mux.live

\* The direction to the loopback socket is up.
UpIn == ~ackLost /\ (loopback = "none" \/ (mux.live /\ loopback # "closing"))

\* What the browser has is what was sent first; while the relay knows the stream
\* the rest is under way.
OutOk ==
    /\ Begins(outGot, outSent)
    /\ remote.known => Carried(mux.codec.txSeq, mux.codec.outbound, toRelay,
                               remote.codec.inbound, outSent, Len(outGot))

\* The same for the loopback socket and the messages that wait for it to open.
InOk ==
    /\ Begins(inGot \o mux.pendingInbound, inSent)
    /\ UpIn => Carried(remote.codec.txSeq, remote.codec.outbound, toDaemon,
                       mux.codec.inbound, inSent, Len(inGot) + Len(mux.pendingInbound))

StreamInv == StreamTypeOK /\ Life /\ OutOk /\ InOk

\* A step of the stream is a step of either pipe, or none.
OutStep == ToBrowser!PipeNext \/ UNCHANGED <<outSent, outGot, remote.known>>
InStep == ToLoopback!PipeNext \/ UNCHANGED <<inSent, inGot, UpIn>>

----------------------------------------------------------------------------
(* Steps of the two pipes. *)

LEMMA OutStays ==
    ASSUME UNCHANGED <<outSent, outGot>>, StreamTypeOK, StreamTypeOK',
           remote'.known => remote.known
    PROVE  OutStep
<1>1. remote.known \in BOOLEAN /\ remote'.known \in BOOLEAN
  BY DEF StreamTypeOK, RemoteType
<1>2. CASE remote.known /\ ~remote'.known
  BY <1>2, Zenon DEF OutStep, ToBrowser!PipeNext, ToBrowser!Cut
<1>3. CASE remote'.known = remote.known
  BY <1>3, Zenon DEF OutStep
<1> QED
  BY <1>1, <1>2, <1>3

LEMMA InStays ==
    ASSUME UNCHANGED <<inSent, inGot>>, UpIn' => UpIn
    PROVE  InStep
<1>1. CASE UpIn /\ ~UpIn'
  BY <1>1, Zenon DEF InStep, UpIn, ToLoopback!PipeNext, ToLoopback!Cut
<1>2. CASE UpIn /\ UpIn'
  BY <1>2, Zenon DEF InStep
<1>3. CASE ~UpIn /\ ~UpIn'
  <2>1. UpIn = FALSE
    BY <1>3 DEF UpIn
  <2>2. UpIn' = FALSE
    BY <1>3 DEF UpIn
  <2> QED
    BY <2>1, <2>2, Zenon DEF InStep
<1> QED
  BY <1>1, <1>2, <1>3

LEMMA OutWrites ==
    ASSUME NEW m \in Message, outSent \in Seq(Message), outGot \in Seq(Message),
           Begins(outGot, outSent), outSent' = Append(outSent, m), outGot' = outGot,
           remote'.known = remote.known
    PROVE  OutStep
<1>1. Len(outSent') = Len(outSent) + 1 /\ SubSeq(outSent', 1, Len(outSent)) = outSent
  BY BeginsStill
<1> QED
  BY <1>1, Zenon DEF OutStep, ToBrowser!PipeNext, ToBrowser!Write

LEMMA OutArrives ==
    ASSUME outSent \in Seq(Message), outGot \in Seq(Message), outGot' \in Seq(Message),
           Begins(outGot', outSent), Len(outGot') > Len(outGot), outSent' = outSent,
           remote'.known => remote.known
    PROVE  OutStep
<1>1. outGot' = SubSeq(outSent, 1, Len(outGot'))
  BY BeginsIsPart
<1>2. PICK k, n, l \in Nat : k = Len(outGot) /\ n = Len(outGot') /\ l = Len(outSent)
  OBVIOUS
<1>3. n > k /\ n <= l
  BY <1>2 DEF Begins
<1>4. n \in (k + 1)..l
  BY <1>3
<1>5. \E i \in (Len(outGot) + 1)..Len(outSent) : outGot' = SubSeq(outSent, 1, i)
  BY <1>1, <1>2, <1>4, Zenon
<1> QED
  BY <1>5, Zenon DEF OutStep, ToBrowser!PipeNext, ToBrowser!Deliver, ToBrowser!Arrive

LEMMA InWrites ==
    ASSUME NEW m \in Message, inSent \in Seq(Message), inGot \in Seq(Message),
           Begins(inGot, inSent), inSent' = Append(inSent, m), inGot' = inGot,
           UNCHANGED <<ackLost, loopback, mux>>
    PROVE  InStep
<1>1. Len(inSent') = Len(inSent) + 1 /\ SubSeq(inSent', 1, Len(inSent)) = inSent
  BY BeginsStill
<1>2. ToLoopback!Write
  BY <1>1 DEF ToLoopback!Write
<1> QED
  BY <1>2, Zenon DEF InStep, ToLoopback!PipeNext

LEMMA InArrives ==
    ASSUME inSent \in Seq(Message), inGot \in Seq(Message), inGot' \in Seq(Message),
           Begins(inGot', inSent), Len(inGot') > Len(inGot), inSent' = inSent,
           UpIn' => UpIn
    PROVE  InStep
<1>1. inGot' = SubSeq(inSent, 1, Len(inGot'))
  BY BeginsIsPart
<1>2. PICK k, n, l \in Nat : k = Len(inGot) /\ n = Len(inGot') /\ l = Len(inSent)
  OBVIOUS
<1>3. n > k /\ n <= l
  BY <1>2 DEF Begins
<1>4. n \in (k + 1)..l
  BY <1>3
<1>5. \E i \in (Len(inGot) + 1)..Len(inSent) : inGot' = SubSeq(inSent, 1, i)
  BY <1>1, <1>2, <1>4, Zenon
<1> QED
  BY <1>5, Zenon DEF InStep, UpIn, ToLoopback!PipeNext, ToLoopback!Deliver, ToLoopback!Arrive

----------------------------------------------------------------------------
(* The connection. *)

LEMMA FrameKinds ==
    /\ PlainFrame \subseteq Frame /\ DataFrame \subseteq PlainFrame /\ AckFrame \subseteq PlainFrame
    /\ Close \in PlainFrame /\ Close.type = "ws.close"
    /\ \A f \in PlainFrame :
         \/ f \in DataFrame /\ f.type = "ws.data"
         \/ f \in AckFrame /\ f.type = "ws.data.ack"
         \/ f = Close /\ f.type = "ws.close"
    /\ Seq(PlainFrame) \subseteq Seq(Frame) /\ Seq(DataFrame) \subseteq Seq(PlainFrame)
<1>1. Close.type = "ws.close" /\ Close \in [type : {"ws.close", "ws.open"}]
  BY DEF Close
<1>2. PlainFrame \subseteq Frame /\ DataFrame \subseteq PlainFrame /\ AckFrame \subseteq PlainFrame
      /\ Close \in PlainFrame
  BY <1>1 DEF PlainFrame, Frame
<1>3. \A f \in PlainFrame :
         \/ f \in DataFrame /\ f.type = "ws.data"
         \/ f \in AckFrame /\ f.type = "ws.data.ack"
         \/ f = Close /\ f.type = "ws.close"
  BY <1>1 DEF PlainFrame, DataFrame, AckFrame
<1>4. Seq(PlainFrame) \subseteq Seq(Frame) /\ Seq(DataFrame) \subseteq Seq(PlainFrame)
  BY <1>2, SeqMonotonic
<1> QED
  BY <1>1, <1>2, <1>3, <1>4

LEMMA AppendOne ==
    ASSUME NEW S, NEW s \in Seq(S), NEW x \in S
    PROVE  Append(s, x) = s \o <<x>> /\ <<x>> \in Seq(S) /\ <<x>>[1] = x /\ Len(<<x>>) = 1
           /\ \A i \in 1..Len(<<x>>) : <<x>>[i] = x
OBVIOUS

LEMMA AppendLast ==
    ASSUME NEW S, NEW a \in Seq(S), NEW b \in Seq(S), NEW x \in S
    PROVE  a \o Append(b, x) = Append(a \o b, x)
OBVIOUS

LEMMA HeadStays ==
    ASSUME NEW S, NEW a \in Seq(S), NEW b \in Seq(S), a # <<>>
    PROVE  a \o b # <<>> /\ Head(a \o b) = Head(a) /\ Tail(a \o b) = Tail(a) \o b
OBVIOUS

\* Frames that the relay sends keep the place of the first one.
LEMMA DaemonWireGrows ==
    ASSUME StreamTypeOK, DaemonWire, NEW more \in Seq(PlainFrame), toDaemon' = toDaemon \o more,
           UNCHANGED <<loopback, ackLost>>, ackLost => more \in Seq({Close})
    PROVE  DaemonWire' /\ toDaemon' \in Seq(Frame)
<1>1. toDaemon \in Seq(Frame) /\ more \in Seq(Frame)
  BY FrameKinds DEF StreamTypeOK
<1>2. toDaemon' \in Seq(Frame)
  BY <1>1, ConcatFacts
<1>3. ackLost' => toDaemon' \in Seq({Close})
  BY ConcatFacts DEF DaemonWire
<1>4. ASSUME loopback # "none" \/ ackLost PROVE toDaemon' \in Seq(PlainFrame)
  BY <1>4, ConcatFacts DEF DaemonWire
<1>5. ASSUME loopback = "none", ~ackLost PROVE Opening'
  <2>1. toDaemon # <<>> /\ Head(toDaemon) = Open /\ Tail(toDaemon) \in Seq(PlainFrame)
    BY <1>5 DEF DaemonWire, Opening
  <2>2. toDaemon' # <<>> /\ Head(toDaemon') = Head(toDaemon) /\ Tail(toDaemon') = Tail(toDaemon) \o more
    BY <1>1, <2>1, HeadStays
  <2>3. Tail(toDaemon) \o more \in Seq(PlainFrame)
    BY <2>1, ConcatFacts
  <2> QED
    BY <2>1, <2>2, <2>3 DEF Opening
<1> QED
  BY <1>2, <1>3, <1>4, <1>5 DEF DaemonWire

LEMMA DaemonWireStays ==
    ASSUME DaemonWire, UNCHANGED <<toDaemon, ackLost>>, (loopback = "none") = (loopback' = "none")
    PROVE  DaemonWire'
BY DEF DaemonWire, Opening

\* A frame that is read.
LEMMA DaemonWireRead ==
    ASSUME StreamTypeOK, DaemonWire, toDaemon # <<>>, toDaemon' = Tail(toDaemon), ackLost' = ackLost,
           loopback' # "none" \/ ackLost
    PROVE  DaemonWire' /\ toDaemon' \in Seq(Frame)
<1>1. toDaemon' \in Seq(Frame)
  BY TailFacts DEF StreamTypeOK
<1>2. ackLost' => toDaemon' \in Seq({Close})
  BY TailFacts DEF DaemonWire
<1>3. toDaemon' \in Seq(PlainFrame)
  <2>1. CASE loopback # "none" \/ ackLost
    BY <2>1, TailFacts DEF DaemonWire
  <2>2. CASE loopback = "none" /\ ~ackLost
    BY <2>2 DEF DaemonWire, Opening
  <2> QED
    BY <2>1, <2>2
<1> QED
  BY <1>1, <1>2, <1>3 DEF DaemonWire

\* The messages to the browser, when the mux sends nothing but frames without data.
LEMMA OutKept ==
    ASSUME StreamTypeOK, OutOk, UNCHANGED <<outSent, outGot>>,
           remote'.known => remote.known /\ remote'.codec.inbound = remote.codec.inbound,
           mux'.codec.txSeq = mux.codec.txSeq, mux'.codec.outbound = mux.codec.outbound,
           NEW more \in Seq(PlainFrame), \A i \in 1..Len(more) : more[i].type # "ws.data",
           remote'.known => toRelay' = toRelay \/ toRelay' = toRelay \o more
    PROVE  OutOk'
<1>1. Begins(outGot', outSent')
  BY DEF OutOk
<1>2. ASSUME remote'.known
      PROVE  Carried(mux.codec.txSeq, mux.codec.outbound, toRelay', remote.codec.inbound, outSent, Len(outGot))
  <2>1. Carried(mux.codec.txSeq, mux.codec.outbound, toRelay, remote.codec.inbound, outSent, Len(outGot))
    BY <1>2 DEF OutOk
  <2>2. mux.codec.txSeq \in Nat
    BY DEF StreamTypeOK, MuxType, CodecType
  <2>3. toRelay \in Seq(Frame) /\ more \in Seq(Frame)
    BY FrameKinds DEF StreamTypeOK
  <2>4. Carried(mux.codec.txSeq, mux.codec.outbound, toRelay \o more, remote.codec.inbound, outSent, Len(outGot))
    BY <2>1, <2>2, <2>3, OthersAppended
  <2> QED
    BY <1>2, <2>1, <2>4
<1> QED
  BY <1>1, <1>2, Zenon DEF OutOk

\* The messages to the loopback socket, when the relay does so.
LEMMA InKept ==
    ASSUME StreamTypeOK, InOk, UNCHANGED <<inSent, inGot>>,
           mux'.pendingInbound = mux.pendingInbound,
           UpIn' => UpIn /\ mux'.codec.inbound = mux.codec.inbound,
           remote'.codec.txSeq = remote.codec.txSeq, remote'.codec.outbound = remote.codec.outbound,
           NEW more \in Seq(PlainFrame), \A i \in 1..Len(more) : more[i].type # "ws.data",
           UpIn' => toDaemon' = toDaemon \/ toDaemon' = toDaemon \o more
    PROVE  InOk'
<1>1. Begins(inGot' \o mux'.pendingInbound, inSent')
  BY DEF InOk
<1> DEFINE got == Len(inGot) + Len(mux.pendingInbound)
<1> HIDE DEF got
<1>2. ASSUME UpIn'
      PROVE  Carried(remote.codec.txSeq, remote.codec.outbound, toDaemon', mux.codec.inbound, inSent, got)
  <2>1. Carried(remote.codec.txSeq, remote.codec.outbound, toDaemon, mux.codec.inbound, inSent, got)
    BY <1>2 DEF InOk, got
  <2>2. remote.codec.txSeq \in Nat
    BY DEF StreamTypeOK, RemoteType, CodecType
  <2>3. toDaemon \in Seq(Frame) /\ more \in Seq(Frame)
    BY FrameKinds DEF StreamTypeOK
  <2>4. Carried(remote.codec.txSeq, remote.codec.outbound, toDaemon \o more, mux.codec.inbound, inSent, got)
    BY <2>1, <2>2, <2>3, OthersAppended
  <2> QED
    BY <1>2, <2>1, <2>4
<1>3. got' = got
  BY DEF got
<1> QED
  BY <1>1, <1>2, <1>3, Zenon DEF InOk, got

\* The frames of nothing.
LEMMA NoFrames == <<>> \in Seq(PlainFrame) /\ \A i \in 1..Len(<<>>) : <<>>[i].type # "ws.data"
OBVIOUS

LEMMA CloseFrames ==
    /\ <<Close>> \in Seq(PlainFrame) /\ <<Close>> \in Seq({Close})
    /\ \A i \in 1..Len(<<Close>>) : <<Close>>[i].type # "ws.data"
<1>1. Close \in PlainFrame /\ Close.type # "ws.data" /\ Close \in {Close} /\ Close \in Frame
  BY FrameKinds
<1>2. Len(<<Close>>) = 1 /\ <<Close>>[1] = Close
  OBVIOUS
<1> QED
  BY <1>1, <1>2

----------------------------------------------------------------------------
(* One step of the stream keeps the invariant and is one of either pipe. *)

Kept == StreamInv' /\ OutStep /\ InStep

LEMMA LossKept ==
    ASSUME StreamInv, ControlLost \/ DisposeAll
    PROVE  Kept
<1> USE DEF StreamInv
<1>1. /\ control' = FALSE /\ ackLost' = TRUE /\ toRelay' = <<>> /\ toDaemon' = <<>>
      /\ remote' = [remote EXCEPT !.known = FALSE]
      /\ UNCHANGED <<outSent, outGot, inSent, inGot>>
      /\ \/ mux' = mux
         \/ mux' = [mux EXCEPT !.live = FALSE]
      /\ \/ loopback' = loopback
         \/ loopback = "open" /\ loopback' = "closing"
  BY DEF ControlLost, DisposeAll, CloseLoopback
<1>2. remote' \in RemoteType /\ ~remote'.known
  BY <1>1 DEF StreamTypeOK, RemoteType
<1>3. /\ mux' \in MuxType /\ (mux'.live => mux.live) /\ mux'.loopbackOpen = mux.loopbackOpen
      /\ mux'.pendingInbound = mux.pendingInbound
  BY <1>1 DEF StreamTypeOK, MuxType
<1>4. StreamTypeOK'
  <2>1. loopback' \in {"none", "connecting", "open", "closing", "closed"}
    BY <1>1 DEF StreamTypeOK
  <2>2. toRelay' \in Seq(PlainFrame) /\ toDaemon' \in Seq(Frame)
    BY <1>1
  <2> QED
    BY <1>1, <1>2, <1>3, <2>1, <2>2 DEF StreamTypeOK
<1>5. DaemonWire'
  BY <1>1, NoFrames DEF DaemonWire
<1>6. Life'
  BY <1>1, <1>2, <1>3, <1>5 DEF Life, StreamTypeOK
<1>7. OutOk'
  BY <1>1, <1>2 DEF OutOk
<1>8. ~UpIn'
  BY <1>1 DEF UpIn
<1>9. InOk'
  BY <1>1, <1>3, <1>8 DEF InOk
<1>10. OutStep
  BY <1>1, <1>2, <1>4, OutStays
<1>11. InStep
  BY <1>1, <1>8, InStays
<1> QED
  BY <1>4, <1>6, <1>7, <1>9, <1>10, <1>11 DEF Kept

LEMMA ReconnectKept ==
    ASSUME StreamInv, ControlReconnects
    PROVE  Kept
<1> USE DEF StreamInv
<1>1. /\ control' = TRUE
      /\ UNCHANGED <<mux, loopback, toRelay, toDaemon, remote, outSent, outGot, inSent, inGot, ackLost>>
  BY DEF ControlReconnects
<1>2. StreamTypeOK'
  BY <1>1 DEF StreamTypeOK
<1>3. Life'
  BY <1>1 DEF Life, DaemonWire, Opening
<1>4. OutOk' /\ (UpIn' => UpIn)
  BY <1>1 DEF OutOk, UpIn
<1>5. InOk'
  BY <1>1 DEF InOk, UpIn
<1> QED
  BY <1>1, <1>2, <1>3, <1>4, <1>5, OutStays, InStays DEF Kept

LEMMA ClosingKept ==
    ASSUME StreamInv, LoopbackClosing
    PROVE  Kept
<1> USE DEF StreamInv
<1>1. /\ loopback = "open" /\ loopback' = "closing"
      /\ UNCHANGED <<control, mux, toRelay, toDaemon, remote, outSent, outGot, inSent, inGot, ackLost>>
  BY DEF LoopbackClosing
<1>2. StreamTypeOK'
  BY <1>1 DEF StreamTypeOK
<1>3. DaemonWire'
  BY <1>1 DEF Life, DaemonWire
<1>4. Life'
  BY <1>1, <1>3 DEF Life
<1>5. OutOk' /\ ~UpIn'
  BY <1>1 DEF OutOk, UpIn
<1>6. InOk'
  BY <1>1, <1>5 DEF InOk
<1> QED
  BY <1>1, <1>2, <1>4, <1>5, <1>6, OutStays, InStays DEF Kept

LEMMA ClosesKept ==
    ASSUME StreamInv, LoopbackCloses
    PROVE  Kept
<1> USE DEF StreamInv
<1>1. /\ loopback \in {"connecting", "closing"} /\ loopback' = "closed"
      /\ mux' = [mux EXCEPT !.live = FALSE]
      /\ toRelay' = toRelay \/ toRelay' = toRelay \o <<Close>>
      /\ UNCHANGED <<control, toDaemon, remote, outSent, outGot, inSent, inGot, ackLost>>
  BY DEF LoopbackCloses, SendFrames
<1>2. /\ mux' \in MuxType /\ ~mux'.live /\ mux'.loopbackOpen = mux.loopbackOpen
      /\ mux'.codec = mux.codec /\ mux'.pendingInbound = mux.pendingInbound
  BY <1>1 DEF StreamTypeOK, MuxType
<1>3. toRelay' \in Seq(PlainFrame)
  <2>1. toRelay \in Seq(PlainFrame) /\ <<Close>> \in Seq(PlainFrame)
    BY CloseFrames DEF StreamTypeOK
  <2>2. toRelay \o <<Close>> \in Seq(PlainFrame)
    BY <2>1, ConcatFacts
  <2> QED
    BY <1>1, <2>1, <2>2
<1>4. StreamTypeOK'
  BY <1>1, <1>2, <1>3 DEF StreamTypeOK
<1>5. DaemonWire'
  BY <1>1 DEF Life, DaemonWire
<1>6. Life'
  BY <1>1, <1>2, <1>5 DEF Life
<1>7. OutOk'
  BY <1>1, <1>2, CloseFrames, OutKept
<1>8. ~UpIn'
  BY <1>1, <1>2 DEF UpIn
<1>9. InOk'
  BY <1>1, <1>2, <1>8 DEF InOk
<1> QED
  BY <1>1, <1>4, <1>6, <1>7, <1>8, <1>9, OutStays, InStays DEF Kept

LEMMA OpensKept ==
    ASSUME StreamInv, LoopbackOpens
    PROVE  Kept
<1> USE DEF StreamInv
<1>1. /\ loopback = "connecting" /\ loopback' = "open" /\ inGot' = inGot \o mux.pendingInbound
      /\ mux' = [mux EXCEPT !.loopbackOpen = TRUE, !.pendingInbound = <<>>]
      /\ UNCHANGED <<control, toRelay, toDaemon, remote, outSent, outGot, inSent, ackLost>>
  BY DEF LoopbackOpens
<1>2. PICK p \in Seq(Message) : p = mux.pendingInbound
  BY DEF StreamTypeOK, MuxType
<1>a. <<>> \in Seq(Message)
  OBVIOUS
<1>3. /\ mux' \in MuxType /\ mux'.live = mux.live /\ mux'.loopbackOpen
      /\ mux'.codec = mux.codec /\ mux'.pendingInbound = <<>>
  BY <1>1, <1>a DEF StreamTypeOK, MuxType
<1>4. inGot \in Seq(Message) /\ inGot' \in Seq(Message) /\ Len(inGot') = Len(inGot) + Len(p)
  BY <1>1, <1>2, ConcatFacts DEF StreamTypeOK
<1>5. StreamTypeOK'
  BY <1>1, <1>3, <1>4 DEF StreamTypeOK
<1>6. DaemonWire'
  BY <1>1 DEF Life, DaemonWire
<1>7. Life'
  BY <1>1, <1>3, <1>6 DEF Life
<1>8. OutOk'
  BY <1>1, <1>3 DEF OutOk
<1>9. UpIn' => UpIn
  BY <1>1, <1>3 DEF UpIn
<1>10. Begins(inGot', inSent)
  BY <1>1 DEF InOk
<1>11. InOk'
  <2>1. inGot' \o mux'.pendingInbound = inGot'
    BY <1>3, <1>4
  <2>2. Len(inGot') + Len(mux'.pendingInbound) = Len(inGot) + Len(mux.pendingInbound)
    <3>1. Len(inGot) \in Nat /\ Len(p) \in Nat /\ Len(mux'.pendingInbound) = 0
      BY <1>3, <1>4
    <3> QED
      BY <1>2, <1>4, <3>1
  <2>3. UpIn' => Carried(remote.codec.txSeq, remote.codec.outbound, toDaemon, mux.codec.inbound,
                         inSent, Len(inGot) + Len(mux.pendingInbound))
    BY <1>9 DEF InOk
  <2> QED
    BY <1>1, <1>3, <1>10, <2>1, <2>2, <2>3, Zenon DEF InOk
<1>12. InStep
  <2>1. CASE p = <<>>
    <3>1. inGot' = inGot
      BY <2>1, <1>1, <1>2, <1>4
    <3> QED
      BY <3>1, <1>1, <1>9, InStays
  <2>2. CASE p # <<>>
    <3>1. Len(p) > 0 /\ Len(p) \in Nat /\ Len(inGot) \in Nat
      BY <2>2, <1>4
    <3>2. Len(inGot') > Len(inGot)
      BY <3>1, <1>4
    <3>3. inSent \in Seq(Message)
      BY DEF StreamTypeOK
    <3> QED
      BY <3>2, <3>3, <1>1, <1>4, <1>9, <1>10, InArrives
  <2> QED
    BY <2>1, <2>2
<1>13. OutStep
  BY <1>1, <1>5, OutStays
<1> QED
  BY <1>5, <1>7, <1>8, <1>11, <1>12, <1>13 DEF Kept

LEMMA RemoteClosesKept ==
    ASSUME StreamInv, RemoteCloses
    PROVE  Kept
<1> USE DEF StreamInv
<1>1. /\ control /\ remote.known /\ remote' = [remote EXCEPT !.known = FALSE]
      /\ toDaemon' = Append(toDaemon, Close)
      /\ UNCHANGED <<control, mux, loopback, toRelay, outSent, outGot, inSent, inGot, ackLost>>
  BY DEF RemoteCloses
<1>2. remote' \in RemoteType /\ ~remote'.known /\ remote'.codec = remote.codec
  BY <1>1 DEF StreamTypeOK, RemoteType
<1>3. toDaemon' = toDaemon \o <<Close>>
  BY <1>1, FrameKinds, AppendOne DEF StreamTypeOK
<1>4. DaemonWire' /\ toDaemon' \in Seq(Frame)
  BY <1>1, <1>3, CloseFrames, DaemonWireGrows DEF Life
<1>5. StreamTypeOK'
  BY <1>1, <1>2, <1>4 DEF StreamTypeOK
<1>6. Life'
  BY <1>1, <1>2, <1>4 DEF Life
<1>7. OutOk'
  BY <1>1, <1>2 DEF OutOk
<1>8. UpIn' => UpIn
  BY <1>1 DEF UpIn
<1>9. InOk'
  BY <1>1, <1>2, <1>3, <1>8, CloseFrames, InKept
<1>10. OutStep
  BY <1>1, <1>2, <1>5, OutStays
<1>11. InStep
  BY <1>1, <1>8, InStays
<1> QED
  BY <1>5, <1>6, <1>7, <1>9, <1>10, <1>11 DEF Kept

\* The relay reads a frame.
LEMMA RemoteReadsOther ==
    ASSUME StreamTypeOK, OutOk, toRelay # <<>>, toRelay' = Tail(toRelay),
           Head(toRelay).type # "ws.data", UNCHANGED <<mux, outSent, outGot>>,
           remote'.known => remote.known /\ remote'.codec.inbound = remote.codec.inbound
    PROVE  OutOk'
<1>1. Begins(outGot', outSent')
  BY DEF OutOk
<1>2. ASSUME remote'.known
      PROVE  Carried(mux.codec.txSeq, mux.codec.outbound, toRelay', remote.codec.inbound, outSent, Len(outGot))
  <2>1. Carried(mux.codec.txSeq, mux.codec.outbound, toRelay, remote.codec.inbound, outSent, Len(outGot))
    BY <1>2 DEF OutOk
  <2>2. mux.codec.txSeq \in Nat
    BY DEF StreamTypeOK, MuxType, CodecType
  <2>3. toRelay \in Seq(Frame)
    BY FrameKinds DEF StreamTypeOK
  <2> QED
    BY <2>1, <2>2, <2>3, OtherRead
<1> QED
  BY <1>1, <1>2, Zenon DEF OutOk

\* The mux reads a frame.
LEMMA DaemonReadsOther ==
    ASSUME StreamTypeOK, InOk, toDaemon # <<>>, toDaemon' = Tail(toDaemon),
           UpIn' => Head(toDaemon).type # "ws.data", UNCHANGED <<remote, inSent, inGot>>,
           mux'.pendingInbound = mux.pendingInbound,
           UpIn' => UpIn /\ mux'.codec.inbound = mux.codec.inbound
    PROVE  InOk'
<1>1. Begins(inGot' \o mux'.pendingInbound, inSent')
  BY DEF InOk
<1> DEFINE got == Len(inGot) + Len(mux.pendingInbound)
<1> HIDE DEF got
<1>2. ASSUME UpIn'
      PROVE  Carried(remote.codec.txSeq, remote.codec.outbound, toDaemon', mux.codec.inbound, inSent, got)
  <2>1. Carried(remote.codec.txSeq, remote.codec.outbound, toDaemon, mux.codec.inbound, inSent, got)
    BY <1>2 DEF InOk, got
  <2>2. remote.codec.txSeq \in Nat
    BY DEF StreamTypeOK, RemoteType, CodecType
  <2>3. toDaemon \in Seq(Frame)
    BY DEF StreamTypeOK
  <2> QED
    BY <1>2, <2>1, <2>2, <2>3, OtherRead
<1>3. got' = got
  BY DEF got
<1> QED
  BY <1>1, <1>2, <1>3, Zenon DEF InOk, got

\* ingest of a frame.
LEMMA IngestFields ==
    ASSUME NEW codec \in CodecType, NEW f \in DataFrame
    PROVE  \E c \in CodecType, whole \in Message :
             /\ Ingest(codec, f).codec = c /\ Ingest(codec, f).message = whole
             /\ whole = codec.inbound \o f.bytes
             /\ c.inbound = IF f.fin THEN <<>> ELSE whole
             /\ c.txSeq = codec.txSeq /\ c.outbound = codec.outbound
<1>1. codec.inbound \in Message /\ f.bytes \in Message
  BY DEF CodecType, DataFrame
<1>2. PICK whole \in Message : whole = codec.inbound \o f.bytes
  BY <1>1, ConcatFacts DEF Message
<1>3. PICK in \in Message : in = IF f.fin THEN <<>> ELSE whole
  <2>1. <<>> \in Message
    BY DEF Message
  <2> QED
    BY <2>1
<1>4. PICK c : c = [codec EXCEPT !.inbound = in]
  OBVIOUS
<1>5. c \in CodecType /\ c.inbound = in /\ c.txSeq = codec.txSeq /\ c.outbound = codec.outbound
  BY <1>4 DEF CodecType
<1>6. Ingest(codec, f) = [codec |-> c, message |-> whole]
  BY <1>2, <1>3, <1>4, Zenon DEF Ingest
<1>7. Ingest(codec, f).codec = c /\ Ingest(codec, f).message = whole
  BY <1>6
<1> QED
  BY <1>2, <1>3, <1>5, <1>7

\* What the relay does with the frame it reads.
LEMMA RemoteFrameCases ==
    ASSUME StreamTypeOK, RemoteFrame, NEW f, f = Head(toRelay)
    PROVE  /\ control /\ toRelay # <<>> /\ toRelay' = Tail(toRelay)
           /\ UNCHANGED <<control, mux, loopback, outSent, inSent, inGot, ackLost>>
           /\ f \in PlainFrame
           /\ \/ /\ f = Close
                 /\ remote' = [remote EXCEPT !.known = FALSE]
                 /\ UNCHANGED <<toDaemon, outGot>>
              \/ /\ ~remote.known
                 /\ toDaemon' = Append(toDaemon, Close)
                 /\ UNCHANGED <<remote, outGot>>
              \/ /\ f \in DataFrame /\ remote.known
                 /\ remote' = [remote EXCEPT !.known = FALSE]
                 /\ toDaemon' = Append(toDaemon, Close)
                 /\ UNCHANGED outGot
              \/ /\ f \in DataFrame /\ remote.known
                 /\ remote' = [remote EXCEPT !.codec = Ingest(remote.codec, f).codec]
                 /\ toDaemon' = Append(toDaemon, Ack(f))
                 /\ outGot' = IF f.fin THEN Append(outGot, Ingest(remote.codec, f).message) ELSE outGot
              \/ /\ f \in AckFrame /\ remote.known
                 /\ RemoteFlush(OnAck(remote.codec, f.seq))
                 /\ UNCHANGED outGot
<1>1. /\ control /\ toRelay # <<>> /\ toRelay' = Tail(toRelay)
      /\ UNCHANGED <<control, mux, loopback, outSent, inSent, inGot, ackLost>>
  BY DEF RemoteFrame
<1>2. f \in PlainFrame
  BY <1>1, TailFacts DEF StreamTypeOK
<1>3. CASE f \in DataFrame /\ f.type = "ws.data"
  <2>1. CASE remote.known
    BY <1>1, <1>2, <1>3, <2>1 DEF RemoteFrame
  <2>2. CASE ~remote.known
    BY <1>1, <1>2, <1>3, <2>2 DEF RemoteFrame
  <2> QED
    BY <2>1, <2>2
<1>4. CASE f \in AckFrame /\ f.type = "ws.data.ack"
  <2>1. CASE remote.known
    BY <1>1, <1>2, <1>4, <2>1 DEF RemoteFrame
  <2>2. CASE ~remote.known
    BY <1>1, <1>2, <1>4, <2>2 DEF RemoteFrame
  <2> QED
    BY <2>1, <2>2
<1>5. CASE f = Close /\ f.type = "ws.close"
  BY <1>1, <1>2, <1>5 DEF RemoteFrame
<1> QED
  BY <1>2, <1>3, <1>4, <1>5, FrameKinds

\* What the relay sends leaves its queue for the connection.
LEMMA RemoteFlushes ==
    ASSUME StreamTypeOK, DaemonWire, ~ackLost, NEW codec \in CodecType, RemoteFlush(codec),
           UNCHANGED <<loopback, ackLost>>
    PROVE  /\ remote' \in RemoteType /\ remote'.known = remote.known
           /\ remote'.codec.inbound = codec.inbound
           /\ DaemonWire' /\ toDaemon' \in Seq(Frame)
           /\ \A inbound, sent, got :
                Carried(codec.txSeq, codec.outbound, toDaemon, inbound, sent, got)
                  => Carried(remote'.codec.txSeq, remote'.codec.outbound, toDaemon', inbound, sent, got)
<1>1. PICK c \in CodecType, frames \in Seq(DataFrame) :
             /\ PullSendable(codec).codec = c /\ PullSendable(codec).frames = frames
             /\ c.inbound = codec.inbound
             /\ \A wire \in Seq(Frame) : \A inbound, sent, got :
                  Carried(codec.txSeq, codec.outbound, wire, inbound, sent, got)
                    => Carried(c.txSeq, c.outbound, wire \o frames, inbound, sent, got)
  BY FlushCarried
<1>2. toDaemon' = toDaemon \o frames /\ remote' = [remote EXCEPT !.codec = c]
  BY <1>1, Zenon DEF RemoteFlush
<1>3. remote' \in RemoteType /\ remote'.known = remote.known /\ remote'.codec = c
  BY <1>2 DEF StreamTypeOK, RemoteType
<1>4. DaemonWire' /\ toDaemon' \in Seq(Frame)
  BY <1>2, FrameKinds, DaemonWireGrows
<1>5. toDaemon \in Seq(Frame)
  BY DEF StreamTypeOK
<1> QED
  BY <1>1, <1>2, <1>3, <1>4, <1>5, Zenon

LEMMA RemoteFrameKept ==
    ASSUME StreamInv, RemoteFrame
    PROVE  Kept
<1> USE DEF StreamInv
<1>1. PICK f : f = Head(toRelay)
  OBVIOUS
<1>2. /\ control /\ toRelay # <<>> /\ toRelay' = Tail(toRelay)
      /\ UNCHANGED <<control, mux, loopback, outSent, inSent, inGot, ackLost>>
      /\ f \in PlainFrame
  BY <1>1, RemoteFrameCases
<1>3. toRelay' \in Seq(PlainFrame)
  BY <1>2, TailFacts DEF StreamTypeOK
<1>4. UpIn' => UpIn
  BY <1>2 DEF UpIn
<1>5. InStep
  BY <1>2, <1>4, InStays
<1>6. ASSUME f = Close, remote' = [remote EXCEPT !.known = FALSE], UNCHANGED <<toDaemon, outGot>>
      PROVE  Kept
  <2>1. remote' \in RemoteType /\ ~remote'.known /\ remote'.codec = remote.codec
    BY <1>6 DEF StreamTypeOK, RemoteType
  <2>2. StreamTypeOK'
    BY <1>2, <1>3, <1>6, <2>1 DEF StreamTypeOK
  <2>3. DaemonWire'
    BY <1>2, <1>6 DEF Life, DaemonWire, Opening
  <2>4. Life'
    BY <1>2, <2>1, <2>3 DEF Life
  <2>5. OutOk'
    BY <1>2, <1>6, <2>1 DEF OutOk
  <2>6. InOk'
    BY <1>2, <1>4, <1>6, <2>1, NoFrames, InKept
  <2>7. OutStep
    BY <1>2, <1>6, <2>1, <2>2, OutStays
  <2> QED
    BY <1>5, <2>2, <2>4, <2>5, <2>6, <2>7 DEF Kept
<1>7. ASSUME toDaemon' = Append(toDaemon, Close), UNCHANGED outGot,
             (remote' = remote /\ ~remote.known) \/ remote' = [remote EXCEPT !.known = FALSE]
      PROVE  Kept
  <2>1. remote' \in RemoteType /\ ~remote'.known /\ remote'.codec = remote.codec
    BY <1>7 DEF StreamTypeOK, RemoteType
  <2>2. toDaemon' = toDaemon \o <<Close>>
    BY <1>7, FrameKinds, AppendOne DEF StreamTypeOK
  <2>3. DaemonWire' /\ toDaemon' \in Seq(Frame)
    BY <1>2, <2>2, CloseFrames, DaemonWireGrows DEF Life
  <2>4. StreamTypeOK'
    BY <1>2, <1>3, <1>7, <2>1, <2>3 DEF StreamTypeOK
  <2>5. Life'
    BY <1>2, <2>1, <2>3 DEF Life
  <2>6. OutOk'
    BY <1>2, <1>7, <2>1 DEF OutOk
  <2>7. InOk'
    BY <1>2, <1>4, <2>1, <2>2, CloseFrames, InKept
  <2>8. OutStep
    BY <1>2, <1>7, <2>1, <2>4, OutStays
  <2> QED
    BY <1>5, <2>4, <2>5, <2>6, <2>7, <2>8 DEF Kept
<1>8. ASSUME f \in DataFrame, remote.known,
             remote' = [remote EXCEPT !.codec = Ingest(remote.codec, f).codec],
             toDaemon' = Append(toDaemon, Ack(f)),
             outGot' = IF f.fin THEN Append(outGot, Ingest(remote.codec, f).message) ELSE outGot
      PROVE  Kept
  <2>0. remote.codec \in CodecType /\ outGot \in Seq(Message) /\ outSent \in Seq(Message)
    BY DEF StreamTypeOK, RemoteType
  <2>1. PICK c \in CodecType, whole \in Message :
             /\ Ingest(remote.codec, f).codec = c /\ Ingest(remote.codec, f).message = whole
             /\ whole = remote.codec.inbound \o f.bytes
             /\ c.inbound = IF f.fin THEN <<>> ELSE whole
             /\ c.txSeq = remote.codec.txSeq /\ c.outbound = remote.codec.outbound
    BY <1>8, <2>0, IngestFields
  <2>2. remote' = [remote EXCEPT !.codec = c] /\ outGot' = IF f.fin THEN Append(outGot, whole) ELSE outGot
    BY <1>8, <2>1, Zenon
  <2>3. remote' \in RemoteType /\ remote'.known = remote.known /\ remote'.codec = c
    BY <2>2 DEF StreamTypeOK, RemoteType
  <2>4. /\ Ack(f) \in PlainFrame /\ <<Ack(f)>> \in Seq(PlainFrame)
        /\ \A i \in 1..Len(<<Ack(f)>>) : <<Ack(f)>>[i].type # "ws.data"
    <3>1. Ack(f) \in AckFrame /\ Ack(f).type # "ws.data"
      BY <1>8 DEF Ack, AckFrame, DataFrame
    <3>2. Ack(f) \in PlainFrame
      BY <3>1, FrameKinds
    <3> QED
      BY <3>1, <3>2, AppendOne
  <2>5. toDaemon' = toDaemon \o <<Ack(f)>>
    BY <1>8, <2>4, FrameKinds, AppendOne DEF StreamTypeOK
  <2>6. ~ackLost
    BY <1>8 DEF Life
  <2>7. DaemonWire' /\ toDaemon' \in Seq(Frame)
    BY <1>2, <2>4, <2>5, <2>6, DaemonWireGrows DEF Life
  <2>8. outGot' \in Seq(Message)
    BY <2>0, <2>2, AppendProperties
  <2>9. StreamTypeOK'
    BY <1>2, <1>3, <2>3, <2>7, <2>8 DEF StreamTypeOK
  <2>10. Life'
    BY <1>2, <1>8, <2>3, <2>7 DEF Life
  <2>11. InOk'
    BY <1>2, <1>4, <2>1, <2>3, <2>4, <2>5, InKept
  <2>12. PICK k \in Nat : k = Len(outGot)
    BY <2>0
  <2>13. /\ k + 1 \in 1..Len(outSent)
         /\ f.fin => /\ whole = outSent[k + 1]
                     /\ Carried(mux.codec.txSeq, mux.codec.outbound, toRelay', <<>>, outSent, k + 1)
         /\ ~f.fin => Carried(mux.codec.txSeq, mux.codec.outbound, toRelay', whole, outSent, k)
    <3>1. Carried(mux.codec.txSeq, mux.codec.outbound, toRelay, remote.codec.inbound, outSent, k)
      BY <1>8, <2>12 DEF OutOk
    <3>2. mux.codec.txSeq \in Nat /\ Len(mux.codec.outbound) \in Nat /\ remote.codec.inbound \in Message
      <4>1. remote.codec \in CodecType /\ mux.codec \in CodecType
        BY DEF StreamTypeOK, MuxType, RemoteType
      <4>2. mux.codec.txSeq \in Nat /\ mux.codec.outbound \in Seq(DataFrame)
        BY <4>1 DEF CodecType
      <4>3. remote.codec.inbound \in Message
        BY <4>1 DEF CodecType
      <4>4. Len(mux.codec.outbound) \in Nat
        BY <4>2
      <4> QED
        BY <4>2, <4>3, <4>4
    <3>3. toRelay \in Seq(Frame) /\ Head(toRelay) \in DataFrame
      BY <1>1, <1>8, FrameKinds DEF StreamTypeOK
    <3>4. /\ k + 1 \in 1..Len(outSent)
          /\ Head(toRelay).fin =>
                /\ remote.codec.inbound \o Head(toRelay).bytes = outSent[k + 1]
                /\ Carried(mux.codec.txSeq, mux.codec.outbound, Tail(toRelay), <<>>, outSent, k + 1)
          /\ ~Head(toRelay).fin =>
                Carried(mux.codec.txSeq, mux.codec.outbound, Tail(toRelay),
                        remote.codec.inbound \o Head(toRelay).bytes, outSent, k)
      BY <1>2, <2>0, <3>1, <3>2, <3>3, DataRead
    <3> QED
      BY <1>1, <1>2, <2>1, <3>4, Zenon
  <2>14. CASE f.fin
    <3>1. /\ outGot' = Append(outGot, whole) /\ Len(outGot') = k + 1 /\ Begins(outGot', outSent)
      BY <2>0, <2>2, <2>12, <2>13, <2>14, BeginsNext DEF OutOk
    <3>2. OutOk'
      BY <1>2, <2>1, <2>3, <2>13, <2>14, <3>1, Zenon DEF OutOk
    <3>3. Len(outGot') > Len(outGot)
      BY <2>12, <3>1
    <3>4. OutStep
      BY <1>2, <2>0, <2>3, <2>8, <3>1, <3>3, OutArrives
    <3> QED
      BY <1>5, <2>9, <2>10, <2>11, <3>2, <3>4 DEF Kept
  <2>15. CASE ~f.fin
    <3>1. outGot' = outGot
      BY <2>2, <2>15
    <3>2. OutOk'
      BY <1>2, <2>1, <2>3, <2>12, <2>13, <2>15, <3>1, Zenon DEF OutOk
    <3>4. OutStep
      BY <1>2, <2>3, <2>9, <3>1, OutStays
    <3> QED
      BY <1>5, <2>9, <2>10, <2>11, <3>2, <3>4 DEF Kept
  <2> QED
    BY <2>14, <2>15
<1>9. ASSUME f \in AckFrame, remote.known, RemoteFlush(OnAck(remote.codec, f.seq)), UNCHANGED outGot
      PROVE  Kept
  <2>1. remote.codec \in CodecType /\ ~ackLost /\ f.type # "ws.data"
    BY <1>9 DEF StreamTypeOK, RemoteType, Life, AckFrame
  <2>2. PICK c \in CodecType :
             /\ OnAck(remote.codec, f.seq) = c /\ c.txSeq = remote.codec.txSeq
             /\ c.outbound = remote.codec.outbound /\ c.inbound = remote.codec.inbound
    BY <2>1, Acked
  <2>3. RemoteFlush(c)
    BY <1>9, <2>2, Zenon
  <2>4. /\ remote' \in RemoteType /\ remote'.known = remote.known
        /\ remote'.codec.inbound = c.inbound
        /\ DaemonWire' /\ toDaemon' \in Seq(Frame)
        /\ \A inbound, sent, got :
             Carried(c.txSeq, c.outbound, toDaemon, inbound, sent, got)
               => Carried(remote'.codec.txSeq, remote'.codec.outbound, toDaemon', inbound, sent, got)
    BY <1>2, <2>1, <2>3, RemoteFlushes DEF Life
  <2>5. StreamTypeOK'
    BY <1>2, <1>3, <1>9, <2>4 DEF StreamTypeOK
  <2>6. Life'
    BY <1>2, <2>4 DEF Life
  <2>7. OutOk'
    BY <1>1, <1>2, <1>9, <2>1, <2>2, <2>4, RemoteReadsOther
  <2>8. InOk'
    <3>1. Begins(inGot' \o mux'.pendingInbound, inSent')
      BY <1>2 DEF InOk
    <3>2. UpIn' => Carried(remote'.codec.txSeq, remote'.codec.outbound, toDaemon', mux.codec.inbound,
                           inSent, Len(inGot) + Len(mux.pendingInbound))
      BY <1>4, <2>2, <2>4, Zenon DEF InOk
    <3> QED
      BY <1>2, <3>1, <3>2, Zenon DEF InOk
  <2>9. OutStep
    BY <1>2, <1>9, <2>4, <2>5, OutStays
  <2> QED
    BY <1>5, <2>5, <2>6, <2>7, <2>8, <2>9 DEF Kept
<1> QED
  BY <1>1, <1>6, <1>7, <1>8, <1>9, RemoteFrameCases

\* The message of a write.
LEMMA NewMessage ==
    ASSUME NEW n \in Nat, NEW x \in Nat
    PROVE  [i \in 1..n |-> x] \in Message
<1>1. [i \in 1..n |-> x] \in [1..n -> Nat]
  OBVIOUS
<1> QED
  BY <1>1, IsASeq DEF Message

LEMMA RemoteSendsKept ==
    ASSUME StreamInv, RemoteSends
    PROVE  Kept
<1> USE DEF StreamInv
<1>1. /\ control /\ remote.known
      /\ UNCHANGED <<control, mux, loopback, toRelay, outSent, outGot, inGot, ackLost>>
  BY DEF RemoteSends
<1>0. remote.codec \in CodecType /\ inSent \in Seq(Message) /\ inGot \in Seq(Message)
      /\ toDaemon \in Seq(Frame) /\ mux.pendingInbound \in Seq(Message) /\ ~ackLost
  BY <1>1 DEF StreamTypeOK, RemoteType, MuxType, Life
<1>2. PICK m \in Message : inSent' = Append(inSent, m) /\ RemoteFlush(Enqueue(remote.codec, m))
  <2>1. PICK n \in InSizes :
          LET message == [i \in 1..n |-> Len(inSent) + 1]
          IN  inSent' = Append(inSent, message) /\ RemoteFlush(Enqueue(remote.codec, message))
    BY DEF RemoteSends
  <2>2. n \in Nat /\ Len(inSent) + 1 \in Nat
    BY <1>0, StreamBounds
  <2>3. [i \in 1..n |-> Len(inSent) + 1] \in Message
    BY <2>2, NewMessage
  <2> QED
    BY <2>1, <2>3, Zenon
<1>3. PICK e \in CodecType : e = Enqueue(remote.codec, m) /\ e.inbound = remote.codec.inbound
  BY <1>0, EnqueueFields
<1>4. /\ remote' \in RemoteType /\ remote'.known = remote.known
      /\ remote'.codec.inbound = e.inbound
      /\ DaemonWire' /\ toDaemon' \in Seq(Frame)
      /\ \A inbound, sent, got :
           Carried(e.txSeq, e.outbound, toDaemon, inbound, sent, got)
             => Carried(remote'.codec.txSeq, remote'.codec.outbound, toDaemon', inbound, sent, got)
  <2>1. RemoteFlush(e)
    BY <1>2, <1>3, Zenon
  <2> QED
    BY <1>0, <1>1, <2>1, RemoteFlushes DEF Life
<1>5. PICK all \in Seq(Message) : all = inGot \o mux.pendingInbound /\ Begins(all, inSent)
  BY <1>0, ConcatFacts DEF InOk
<1>6. inSent' \in Seq(Message) /\ Begins(all, inSent')
  BY <1>0, <1>2, <1>5, BeginsStill
<1>7. StreamTypeOK'
  BY <1>1, <1>4, <1>6 DEF StreamTypeOK
<1>8. Life'
  BY <1>1, <1>4 DEF Life
<1>9. OutOk'
  BY <1>1, <1>3, <1>4, NoFrames, OutKept
<1>10. UpIn' => UpIn
  BY <1>1 DEF UpIn
<1> DEFINE got == Len(inGot) + Len(mux.pendingInbound)
<1> HIDE DEF got
<1>11. UpIn' => Carried(remote'.codec.txSeq, remote'.codec.outbound, toDaemon', mux.codec.inbound, inSent', got)
  <2> SUFFICES ASSUME UpIn
               PROVE  Carried(remote'.codec.txSeq, remote'.codec.outbound, toDaemon', mux.codec.inbound, inSent', got)
    BY <1>10
  <2>1. Carried(remote.codec.txSeq, remote.codec.outbound, toDaemon, mux.codec.inbound, inSent, got)
    BY DEF InOk, got
  <2>2. PICK x \in CodecType :
             /\ x = Enqueue(remote.codec, m)
             /\ Carried(x.txSeq, x.outbound, toDaemon, mux.codec.inbound, Append(inSent, m), got)
    BY <1>0, <2>1, EnqueuedCarried
  <2>3. Carried(e.txSeq, e.outbound, toDaemon, mux.codec.inbound, inSent', got)
    BY <1>2, <1>3, <2>2, Zenon
  <2> QED
    BY <1>4, <2>3, Zenon
<1>12. InOk'
  <2>1. got' = got
    BY <1>1 DEF got
  <2> QED
    BY <1>1, <1>5, <1>6, <1>11, <2>1, Zenon DEF InOk, got
<1>13. OutStep
  BY <1>1, <1>4, <1>7, OutStays
<1>14. InStep
  <2>1. Begins(inGot, inSent)
    BY <1>0, <1>5, BeginsFirst
  <2> QED
    BY <1>0, <1>1, <1>2, <2>1, InWrites
<1> QED
  BY <1>7, <1>8, <1>9, <1>12, <1>13, <1>14 DEF Kept

\* What the mux sends leaves its queue for the connection.
LEMMA MuxFlushes ==
    ASSUME StreamTypeOK, NEW codec \in CodecType, FlushOutbound([mux EXCEPT !.codec = codec])
    PROVE  /\ mux' \in MuxType /\ mux'.live = mux.live /\ mux'.loopbackOpen = mux.loopbackOpen
           /\ mux'.pendingInbound = mux.pendingInbound /\ mux'.codec.inbound = codec.inbound
           /\ toRelay' \in Seq(PlainFrame)
           /\ control => \A inbound, sent, got :
                Carried(codec.txSeq, codec.outbound, toRelay, inbound, sent, got)
                  => Carried(mux'.codec.txSeq, mux'.codec.outbound, toRelay', inbound, sent, got)
<1>1. PICK c \in CodecType, frames \in Seq(DataFrame) :
             /\ PullSendable(codec).codec = c /\ PullSendable(codec).frames = frames
             /\ c.inbound = codec.inbound
             /\ \A wire \in Seq(Frame) : \A inbound, sent, got :
                  Carried(codec.txSeq, codec.outbound, wire, inbound, sent, got)
                    => Carried(c.txSeq, c.outbound, wire \o frames, inbound, sent, got)
  BY FlushCarried
<1>2. PICK m : m = [mux EXCEPT !.codec = codec]
  OBVIOUS
<1>3. /\ m \in MuxType /\ m.codec = codec /\ m.live = mux.live /\ m.loopbackOpen = mux.loopbackOpen
      /\ m.pendingInbound = mux.pendingInbound
  BY <1>2 DEF StreamTypeOK, MuxType
<1>4. PICK b \in BOOLEAN : b = (c.outbound # <<>>)
  OBVIOUS
<1>5. mux' = [m EXCEPT !.codec = c, !.paused = b] /\ SendFrames(frames)
  <2>1. FlushOutbound(m)
    BY <1>2, Zenon
  <2> QED
    BY <1>1, <1>3, <1>4, <2>1, Zenon DEF FlushOutbound
<1>6. /\ mux' \in MuxType /\ mux'.codec = c /\ mux'.live = m.live /\ mux'.loopbackOpen = m.loopbackOpen
      /\ mux'.pendingInbound = m.pendingInbound
  BY <1>3, <1>5 DEF MuxType
<1>7. toRelay \in Seq(PlainFrame) /\ frames \in Seq(PlainFrame) /\ toRelay \in Seq(Frame)
  BY FrameKinds DEF StreamTypeOK
<1>8. toRelay' \in Seq(PlainFrame) /\ (control => toRelay' = toRelay \o frames)
  BY <1>5, <1>7, ConcatFacts DEF SendFrames
<1> QED
  BY <1>1, <1>3, <1>6, <1>7, <1>8, Zenon

LEMMA LoopbackMessageKept ==
    ASSUME StreamInv, LoopbackMessage
    PROVE  Kept
<1> USE DEF StreamInv
<1>1. /\ loopback = "open"
      /\ UNCHANGED <<control, loopback, toDaemon, remote, outGot, inSent, inGot, ackLost>>
  BY DEF LoopbackMessage
<1>0. mux.codec \in CodecType /\ outSent \in Seq(Message) /\ outGot \in Seq(Message)
      /\ toRelay \in Seq(Frame)
  BY FrameKinds DEF StreamTypeOK, MuxType
<1>2. PICK m \in Message : outSent' = Append(outSent, m)
                           /\ FlushOutbound([mux EXCEPT !.codec = Enqueue(mux.codec, m)])
  <2>1. PICK n \in OutSizes :
          LET message == [i \in 1..n |-> Len(outSent) + 1]
          IN  outSent' = Append(outSent, message)
              /\ FlushOutbound([mux EXCEPT !.codec = Enqueue(mux.codec, message)])
    BY DEF LoopbackMessage
  <2>2. n \in Nat /\ Len(outSent) + 1 \in Nat
    BY <1>0, StreamBounds
  <2>3. [i \in 1..n |-> Len(outSent) + 1] \in Message
    BY <2>2, NewMessage
  <2> QED
    BY <2>1, <2>3, Zenon
<1>3. PICK e \in CodecType : e = Enqueue(mux.codec, m) /\ e.inbound = mux.codec.inbound
  BY <1>0, EnqueueFields
<1>4. /\ mux' \in MuxType /\ mux'.live = mux.live /\ mux'.loopbackOpen = mux.loopbackOpen
      /\ mux'.pendingInbound = mux.pendingInbound /\ mux'.codec.inbound = e.inbound
      /\ toRelay' \in Seq(PlainFrame)
      /\ control => \A inbound, sent, got :
           Carried(e.txSeq, e.outbound, toRelay, inbound, sent, got)
             => Carried(mux'.codec.txSeq, mux'.codec.outbound, toRelay', inbound, sent, got)
  <2>1. FlushOutbound([mux EXCEPT !.codec = e])
    BY <1>2, <1>3, Zenon
  <2> QED
    BY <2>1, MuxFlushes
<1>5. outSent' \in Seq(Message) /\ Begins(outGot, outSent')
  BY <1>0, <1>2, BeginsStill DEF OutOk
<1>6. StreamTypeOK'
  BY <1>1, <1>4, <1>5 DEF StreamTypeOK
<1>7. Life'
  BY <1>1, <1>4 DEF Life, DaemonWire, Opening
<1>8. OutOk'
  <2>1. ASSUME remote.known
        PROVE  Carried(mux'.codec.txSeq, mux'.codec.outbound, toRelay', remote.codec.inbound, outSent', Len(outGot))
    <3>1. Carried(mux.codec.txSeq, mux.codec.outbound, toRelay, remote.codec.inbound, outSent, Len(outGot))
      BY <2>1 DEF OutOk
    <3>2. PICK x \in CodecType :
             /\ x = Enqueue(mux.codec, m)
             /\ Carried(x.txSeq, x.outbound, toRelay, remote.codec.inbound, Append(outSent, m), Len(outGot))
      BY <1>0, <3>1, EnqueuedCarried
    <3>3. Carried(e.txSeq, e.outbound, toRelay, remote.codec.inbound, outSent', Len(outGot))
      BY <1>2, <1>3, <3>2, Zenon
    <3>4. control
      BY <2>1 DEF Life
    <3> QED
      BY <1>4, <3>3, <3>4, Zenon
  <2> QED
    BY <1>1, <1>5, <2>1, Zenon DEF OutOk
<1>9. UpIn' => UpIn
  BY <1>1, <1>4 DEF UpIn
<1>10. InOk'
  BY <1>1, <1>3, <1>4, <1>9, NoFrames, InKept
<1>11. OutStep
  BY <1>0, <1>1, <1>2, OutWrites DEF OutOk
<1>12. InStep
  BY <1>1, <1>9, InStays
<1> QED
  BY <1>6, <1>7, <1>8, <1>10, <1>11, <1>12 DEF Kept

\* What the mux does with the frame it reads.
LEMMA ControlFrameCases ==
    ASSUME StreamInv, ControlFrame, NEW f, f = Head(toDaemon)
    PROVE  /\ control /\ toDaemon # <<>> /\ toDaemon' = Tail(toDaemon)
           /\ UNCHANGED <<control, remote, outSent, outGot, inSent, ackLost>>
           /\ \/ loopback = "none" /\ ~ackLost /\ f = Open /\ HandleOpen
              \/ /\ loopback # "none" \/ ackLost
                 /\ \/ f = Close /\ HandleClose
                    \/ f \in AckFrame /\ ~ackLost /\ HandleDataAck(f)
                    \/ f \in DataFrame /\ ~ackLost /\ HandleData(f)
<1>1. /\ control /\ toDaemon # <<>> /\ toDaemon' = Tail(toDaemon)
      /\ UNCHANGED <<control, remote, outSent, outGot, inSent, ackLost>>
  BY DEF ControlFrame
<1>2. CASE loopback = "none" /\ ~ackLost
  <2>1. f = Open /\ f.type = "ws.open"
    BY <1>2 DEF StreamInv, Life, DaemonWire, Opening, Open
  <2> QED
    BY <1>1, <1>2, <2>1 DEF ControlFrame
<1>3. CASE ackLost
  <2>1. f = Close /\ f.type = "ws.close"
    <3>1. f \in {Close}
      BY <1>1, <1>3, TailFacts DEF StreamInv, Life, DaemonWire
    <3> QED
      BY <3>1, FrameKinds
  <2>2. HandleClose
    BY <2>1 DEF ControlFrame
  <2> QED
    BY <1>1, <1>3, <2>1, <2>2
<1>4. CASE loopback # "none" /\ ~ackLost
  <2>1. f \in PlainFrame
    BY <1>1, <1>4, TailFacts DEF StreamInv, Life, DaemonWire
  <2>2. CASE f \in DataFrame /\ f.type = "ws.data"
    <3>1. HandleData(f)
      BY <2>2 DEF ControlFrame
    <3> QED
      BY <1>1, <1>4, <2>2, <3>1
  <2>3. CASE f \in AckFrame /\ f.type = "ws.data.ack"
    <3>1. HandleDataAck(f)
      BY <2>3 DEF ControlFrame
    <3> QED
      BY <1>1, <1>4, <2>3, <3>1
  <2>4. CASE f = Close /\ f.type = "ws.close"
    <3>1. HandleClose
      BY <2>4 DEF ControlFrame
    <3> QED
      BY <1>1, <1>4, <2>4, <3>1
  <2> QED
    BY <2>1, <2>2, <2>3, <2>4, FrameKinds
<1> QED
  BY <1>2, <1>3, <1>4

\* A frame the mux reads, with the frames to the relay it answers with: all but
\* the messages to the loopback socket.
LEMMA ControlRead ==
    ASSUME StreamInv, control, toDaemon # <<>>, toDaemon' = Tail(toDaemon),
           UNCHANGED <<control, remote, outSent, outGot, inSent, ackLost>>,
           loopback' # "none" \/ ackLost,
           loopback' \in {"none", "connecting", "open", "closing", "closed"},
           mux' \in MuxType, inGot' \in Seq(Message),
           mux'.codec.txSeq = mux.codec.txSeq, mux'.codec.outbound = mux.codec.outbound,
           NEW more \in Seq(PlainFrame), \A i \in 1..Len(more) : more[i].type # "ws.data",
           toRelay' = toRelay \/ toRelay' = toRelay \o more,
           loopback' \in {"none", "connecting"} => ~mux'.loopbackOpen,
           loopback' \in {"open", "closing"} => mux'.loopbackOpen,
           mux'.loopbackOpen => mux'.pendingInbound = <<>>,
           loopback' \in {"none", "closed"} => ~mux'.live
    PROVE  StreamTypeOK' /\ Life' /\ OutOk' /\ OutStep
<1> USE DEF StreamInv
<1>1. DaemonWire' /\ toDaemon' \in Seq(Frame)
  BY DaemonWireRead DEF Life
<1>2. toRelay' \in Seq(PlainFrame)
  BY ConcatFacts, ZenonT(40) DEF StreamTypeOK
<1>3. StreamTypeOK'
  BY <1>1, <1>2 DEF StreamTypeOK
<1>4. Life'
  BY <1>1 DEF Life
<1>5. OutOk'
  BY OutKept
<1>6. OutStep
  BY <1>3, OutStays
<1> QED
  BY <1>3, <1>4, <1>5, <1>6

LEMMA HandleOpenKept ==
    ASSUME StreamInv, control, toDaemon # <<>>, toDaemon' = Tail(toDaemon),
           UNCHANGED <<control, remote, outSent, outGot, inSent, ackLost>>,
           loopback = "none", ~ackLost, Head(toDaemon) = Open, HandleOpen
    PROVE  Kept
<1> USE DEF StreamInv
<1>1. /\ mux' = [mux EXCEPT !.live = TRUE] /\ loopback' = "connecting" /\ UNCHANGED <<toRelay, inGot>>
  BY DEF HandleOpen, Life
<1>2. /\ mux' \in MuxType /\ mux'.loopbackOpen = mux.loopbackOpen
      /\ mux'.codec = mux.codec /\ mux'.pendingInbound = mux.pendingInbound
  BY <1>1 DEF StreamTypeOK, MuxType
<1>3. ~mux.loopbackOpen /\ inGot \in Seq(Message)
  BY DEF Life, StreamTypeOK
<1>4. StreamTypeOK' /\ Life' /\ OutOk' /\ OutStep
  BY <1>1, <1>2, <1>3, NoFrames, ControlRead
<1>5. UpIn
  BY DEF UpIn
<1>6. Head(toDaemon).type # "ws.data"
  BY DEF Open
<1>7. InOk'
  BY <1>1, <1>2, <1>5, <1>6, DaemonReadsOther
<1>8. InStep
  BY <1>1, <1>5, InStays
<1> QED
  BY <1>4, <1>7, <1>8 DEF Kept

LEMMA HandleCloseKept ==
    ASSUME StreamInv, control, toDaemon # <<>>, toDaemon' = Tail(toDaemon),
           UNCHANGED <<control, remote, outSent, outGot, inSent, ackLost>>,
           loopback # "none" \/ ackLost, HandleClose
    PROVE  Kept
<1> USE DEF StreamInv
<1>1. /\ mux' = [mux EXCEPT !.live = FALSE] /\ UNCHANGED <<toRelay, inGot>>
      /\ loopback' = loopback \/ (loopback = "open" /\ loopback' = "closing")
  BY DEF HandleClose, CloseLoopback
<1>2. /\ mux' \in MuxType /\ mux'.loopbackOpen = mux.loopbackOpen /\ ~mux'.live
      /\ mux'.codec = mux.codec /\ mux'.pendingInbound = mux.pendingInbound
  BY <1>1 DEF StreamTypeOK, MuxType
<1>3. inGot' \in Seq(Message) /\ loopback' \in {"none", "connecting", "open", "closing", "closed"}
      /\ (loopback' # "none" \/ ackLost)
  BY <1>1 DEF StreamTypeOK
<1>4. /\ loopback' \in {"none", "connecting"} => ~mux'.loopbackOpen
      /\ loopback' \in {"open", "closing"} => mux'.loopbackOpen
      /\ mux'.loopbackOpen => mux'.pendingInbound = <<>>
  BY <1>1, <1>2 DEF Life
<1>5. StreamTypeOK' /\ Life' /\ OutOk' /\ OutStep
  BY <1>1, <1>2, <1>3, <1>4, NoFrames, ControlRead
<1>6. ~UpIn'
  BY <1>2, <1>3 DEF UpIn
<1>7. InOk'
  BY <1>1, <1>2, <1>6, DaemonReadsOther
<1>8. InStep
  BY <1>1, <1>6, InStays
<1> QED
  BY <1>5, <1>7, <1>8 DEF Kept

LEMMA HandleDataAckKept ==
    ASSUME StreamInv, control, toDaemon # <<>>, toDaemon' = Tail(toDaemon),
           UNCHANGED <<control, remote, outSent, outGot, inSent, ackLost>>,
           loopback # "none", NEW f \in AckFrame, f = Head(toDaemon), HandleDataAck(f)
    PROVE  Kept
<1> USE DEF StreamInv
<1>1. UNCHANGED <<loopback, inGot>>
  BY DEF HandleDataAck
<1>2. Head(toDaemon).type # "ws.data"
  BY DEF AckFrame
<1>3. CASE ~mux.live
  <2>1. UNCHANGED <<mux, toRelay>>
    BY <1>3 DEF HandleDataAck
  <2>2. StreamTypeOK' /\ Life' /\ OutOk' /\ OutStep
    <3>1. DaemonWire' /\ toDaemon' \in Seq(Frame)
      BY <1>1, DaemonWireRead DEF Life
    <3>2. StreamTypeOK'
      BY <1>1, <2>1, <3>1 DEF StreamTypeOK
    <3>3. Life'
      BY <1>1, <2>1, <3>1 DEF Life
    <3>4. OutOk'
      BY <2>1 DEF OutOk
    <3> QED
      BY <3>2, <3>3, <3>4, OutStays
  <2>3. UpIn' => UpIn
    BY <1>1, <2>1 DEF UpIn
  <2>4. InOk'
    BY <1>1, <1>2, <2>1, <2>3, DaemonReadsOther
  <2> QED
    BY <1>1, <2>2, <2>3, <2>4, InStays DEF Kept
<1>4. CASE mux.live
  <2>0. mux.codec \in CodecType
    BY DEF StreamTypeOK, MuxType
  <2>1. FlushOutbound([mux EXCEPT !.codec = OnAck(mux.codec, f.seq)])
    BY <1>4 DEF HandleDataAck
  <2>2. PICK c \in CodecType :
             /\ OnAck(mux.codec, f.seq) = c /\ c.txSeq = mux.codec.txSeq
             /\ c.outbound = mux.codec.outbound /\ c.inbound = mux.codec.inbound
    BY <2>0, Acked
  <2>3. FlushOutbound([mux EXCEPT !.codec = c])
    BY <2>1, <2>2, Zenon
  <2>4. /\ mux' \in MuxType /\ mux'.live = mux.live /\ mux'.loopbackOpen = mux.loopbackOpen
        /\ mux'.pendingInbound = mux.pendingInbound /\ mux'.codec.inbound = c.inbound
        /\ toRelay' \in Seq(PlainFrame)
        /\ control => \A inbound, sent, got :
             Carried(c.txSeq, c.outbound, toRelay, inbound, sent, got)
               => Carried(mux'.codec.txSeq, mux'.codec.outbound, toRelay', inbound, sent, got)
    BY <2>3, MuxFlushes
  <2>5. DaemonWire' /\ toDaemon' \in Seq(Frame)
    BY <1>1, DaemonWireRead DEF Life
  <2>6. StreamTypeOK'
    BY <1>1, <2>4, <2>5 DEF StreamTypeOK
  <2>7. Life'
    BY <1>1, <2>4, <2>5 DEF Life
  <2>8. OutOk'
    <3>1. remote.known => Carried(mux'.codec.txSeq, mux'.codec.outbound, toRelay', remote.codec.inbound,
                                  outSent, Len(outGot))
      BY <2>2, <2>4, Zenon DEF OutOk
    <3> QED
      BY <3>1, Zenon DEF OutOk
  <2>9. UpIn' => UpIn
    BY <1>1, <2>4 DEF UpIn
  <2>10. InOk'
    BY <1>1, <1>2, <2>2, <2>4, <2>9, DaemonReadsOther
  <2> QED
    BY <1>1, <2>6, <2>7, <2>8, <2>9, <2>10, OutStays, InStays DEF Kept
<1> QED
  BY <1>3, <1>4

\* A frame that ends the stream: the direction to the loopback socket goes down.
LEMMA TearDownKept ==
    ASSUME StreamInv, control, toDaemon # <<>>, toDaemon' = Tail(toDaemon),
           UNCHANGED <<control, remote, outSent, outGot, inSent, inGot, ackLost>>,
           loopback # "none", NEW m \in MuxType, TearDown(m),
           m.codec.txSeq = mux.codec.txSeq, m.codec.outbound = mux.codec.outbound,
           m.loopbackOpen = mux.loopbackOpen, m.pendingInbound = mux.pendingInbound
    PROVE  Kept
<1> USE DEF StreamInv
<1>1. /\ mux' = [m EXCEPT !.live = FALSE]
      /\ toRelay' = toRelay \/ toRelay' = toRelay \o <<Close>>
      /\ loopback' = loopback \/ (loopback = "open" /\ loopback' = "closing")
  BY DEF TearDown, SendFrames, CloseLoopback
<1>2. /\ mux' \in MuxType /\ mux'.loopbackOpen = m.loopbackOpen /\ ~mux'.live
      /\ mux'.codec = m.codec /\ mux'.pendingInbound = m.pendingInbound
  BY <1>1 DEF MuxType
<1>3. inGot' \in Seq(Message) /\ loopback' \in {"none", "connecting", "open", "closing", "closed"}
      /\ loopback' # "none"
  BY <1>1 DEF StreamTypeOK
<1>4. /\ loopback' \in {"none", "connecting"} => ~mux'.loopbackOpen
      /\ loopback' \in {"open", "closing"} => mux'.loopbackOpen
      /\ mux'.loopbackOpen => mux'.pendingInbound = <<>>
  BY <1>1, <1>2 DEF Life
<1>5. StreamTypeOK' /\ Life' /\ OutOk' /\ OutStep
  BY <1>1, <1>2, <1>3, <1>4, CloseFrames, ControlRead
<1>6. ~UpIn'
  BY <1>2, <1>3 DEF UpIn
<1>7. InOk'
  BY <1>1, <1>2, <1>6, DaemonReadsOther
<1>8. InStep
  BY <1>1, <1>6, InStays
<1> QED
  BY <1>5, <1>7, <1>8 DEF Kept

LEMMA HandleDataKept ==
    ASSUME StreamInv, control, toDaemon # <<>>, toDaemon' = Tail(toDaemon),
           UNCHANGED <<control, remote, outSent, outGot, inSent, ackLost>>,
           loopback # "none", ~ackLost, NEW f \in DataFrame, f = Head(toDaemon), HandleData(f)
    PROVE  Kept
<1> USE DEF StreamInv
<1>0. /\ mux \in MuxType /\ mux.codec \in CodecType /\ inGot \in Seq(Message) /\ inSent \in Seq(Message)
      /\ mux.pendingInbound \in Seq(Message) /\ toDaemon \in Seq(Frame)
  BY DEF StreamTypeOK, MuxType
<1>1. PICK c \in CodecType, whole \in Message :
             /\ Ingest(mux.codec, f).codec = c /\ Ingest(mux.codec, f).message = whole
             /\ whole = mux.codec.inbound \o f.bytes
             /\ c.inbound = IF f.fin THEN <<>> ELSE whole
             /\ c.txSeq = mux.codec.txSeq /\ c.outbound = mux.codec.outbound
  BY <1>0, IngestFields
<1>2. PICK m : m = [mux EXCEPT !.codec = c]
  OBVIOUS
<1>3. /\ m \in MuxType /\ m.codec = c /\ m.live = mux.live /\ m.loopbackOpen = mux.loopbackOpen
      /\ m.pendingInbound = mux.pendingInbound
  BY <1>0, <1>2 DEF MuxType
<1>4. /\ <<Ack(f)>> \in Seq(PlainFrame)
      /\ \A i \in 1..Len(<<Ack(f)>>) : <<Ack(f)>>[i].type # "ws.data"
  <2>1. Ack(f) \in AckFrame /\ Ack(f).type # "ws.data"
    BY DEF Ack, AckFrame, DataFrame
  <2>2. Ack(f) \in PlainFrame
    BY <2>1, FrameKinds
  <2> QED
    BY <2>1, <2>2, AppendOne
<1>5. \/ ~mux.live /\ UNCHANGED <<mux, toRelay, loopback, inGot>>
      \/ mux.live /\ TearDown([mux EXCEPT !.codec.inbound = <<>>]) /\ UNCHANGED inGot
      \/ mux.live /\ ~f.fin /\ mux' = m /\ SendFrames(<<Ack(f)>>) /\ UNCHANGED <<loopback, inGot>>
      \/ /\ mux.live /\ f.fin /\ mux.loopbackOpen /\ mux' = m
         /\ WriteLoopback(<<whole>>) /\ SendFrames(<<Ack(f)>>) /\ UNCHANGED loopback
      \/ mux.live /\ f.fin /\ ~mux.loopbackOpen /\ TearDown(m) /\ UNCHANGED inGot
      \/ /\ mux.live /\ f.fin /\ ~mux.loopbackOpen
         /\ mux' = [m EXCEPT !.pendingInbound = Append(m.pendingInbound, whole)]
         /\ SendFrames(<<Ack(f)>>) /\ UNCHANGED <<loopback, inGot>>
  <2>1. Ingest(mux.codec, f).codec = c /\ Ingest(mux.codec, f).message = whole
        /\ m = [mux EXCEPT !.codec = c]
    BY <1>1, <1>2
  <2>2. [mux EXCEPT !.codec = Ingest(mux.codec, f).codec] = m
    BY <2>1, Zenon
  <2> QED
    BY <2>1, <2>2, Zenon DEF HandleData
<1>6. loopback \in {"connecting", "open", "closing", "closed"}
  BY DEF StreamTypeOK
<1> DEFINE got == Len(inGot) + Len(mux.pendingInbound)
<1>7. got \in Nat
  BY <1>0
<1> HIDE DEF got
\* What a frame brings while the direction is up.
<1>8. ASSUME UpIn
      PROVE  /\ got + 1 \in 1..Len(inSent)
             /\ f.fin => /\ whole = inSent[got + 1]
                         /\ Carried(remote.codec.txSeq, remote.codec.outbound, toDaemon', <<>>, inSent, got + 1)
             /\ ~f.fin => Carried(remote.codec.txSeq, remote.codec.outbound, toDaemon', whole, inSent, got)
  <2>1. Carried(remote.codec.txSeq, remote.codec.outbound, toDaemon, mux.codec.inbound, inSent, got)
    BY <1>8 DEF InOk, got
  <2>2. remote.codec.txSeq \in Nat /\ Len(remote.codec.outbound) \in Nat /\ mux.codec.inbound \in Message
    <3>1. remote.codec \in CodecType /\ mux.codec \in CodecType
      BY DEF StreamTypeOK, MuxType, RemoteType
    <3>2. remote.codec.txSeq \in Nat /\ remote.codec.outbound \in Seq(DataFrame)
      BY <3>1 DEF CodecType
    <3>3. mux.codec.inbound \in Message
      BY <3>1 DEF CodecType
    <3>4. Len(remote.codec.outbound) \in Nat
      BY <3>2
    <3> QED
      BY <3>2, <3>3, <3>4
  <2>3. Head(toDaemon) \in DataFrame
    OBVIOUS
  <2>4. /\ got + 1 \in 1..Len(inSent)
        /\ Head(toDaemon).fin =>
              /\ mux.codec.inbound \o Head(toDaemon).bytes = inSent[got + 1]
              /\ Carried(remote.codec.txSeq, remote.codec.outbound, Tail(toDaemon), <<>>, inSent, got + 1)
        /\ ~Head(toDaemon).fin =>
              Carried(remote.codec.txSeq, remote.codec.outbound, Tail(toDaemon),
                      mux.codec.inbound \o Head(toDaemon).bytes, inSent, got)
    BY <1>0, <1>7, <2>1, <2>2, <2>3, DataRead
  <2> QED
    BY <1>1, <2>4, Zenon
<1>9. PICK all \in Seq(Message) : all = inGot \o mux.pendingInbound /\ Begins(all, inSent) /\ Len(all) = got
  <2>1. PICK p \in Seq(Message) : p = mux.pendingInbound
    BY <1>0
  <2>2. inGot \o p \in Seq(Message) /\ Len(inGot \o p) = Len(inGot) + Len(p)
    BY <1>0, ConcatFacts
  <2>3. Begins(inGot \o p, inSent)
    BY <2>1 DEF InOk
  <2> QED
    BY <2>1, <2>2, <2>3, Zenon DEF got
<1>10. CASE ~mux.live /\ UNCHANGED <<mux, toRelay, loopback, inGot>>
  <2>1. DaemonWire' /\ toDaemon' \in Seq(Frame)
    BY <1>10, DaemonWireRead DEF Life
  <2>2. StreamTypeOK'
    BY <1>10, <2>1 DEF StreamTypeOK
  <2>3. Life'
    BY <1>10, <2>1 DEF Life
  <2>4. OutOk' /\ ~UpIn'
    BY <1>10 DEF OutOk, UpIn
  <2>5. InOk'
    BY <1>10, <2>4, DaemonReadsOther
  <2> QED
    BY <1>10, <2>2, <2>3, <2>4, <2>5, OutStays, InStays DEF Kept
<1>11. CASE mux.live /\ TearDown([mux EXCEPT !.codec.inbound = <<>>]) /\ UNCHANGED inGot
  <2>1. PICK d : d = [mux.codec EXCEPT !.inbound = <<>>]
    OBVIOUS
  <2>2. d \in CodecType /\ d.txSeq = mux.codec.txSeq /\ d.outbound = mux.codec.outbound
    <3>1. <<>> \in Message
      BY DEF Message
    <3> QED
      BY <1>0, <2>1, <3>1 DEF CodecType
  <2>3. PICK x : x = [mux EXCEPT !.codec = d]
    OBVIOUS
  <2>4. x \in MuxType /\ x.codec = d /\ x.loopbackOpen = mux.loopbackOpen /\ x.pendingInbound = mux.pendingInbound
    BY <1>0, <2>2, <2>3 DEF MuxType
  <2>5. [mux EXCEPT !.codec.inbound = <<>>] = x
    BY <1>0, <2>1, <2>3 DEF MuxType
  <2>6. TearDown(x)
    BY <1>11, <2>5, Zenon
  <2> QED
    BY <1>11, <2>2, <2>4, <2>6, TearDownKept
<1>12. CASE mux.live /\ ~f.fin /\ mux' = m /\ SendFrames(<<Ack(f)>>) /\ UNCHANGED <<loopback, inGot>>
  <2>1. StreamTypeOK' /\ Life' /\ OutOk' /\ OutStep
    <3>1. toRelay' = toRelay \/ toRelay' = toRelay \o <<Ack(f)>>
      BY <1>12 DEF SendFrames
    <3> QED
      BY <1>0, <1>1, <1>3, <1>4, <1>6, <1>12, <3>1, ControlRead DEF Life
  <2>2. UpIn' => UpIn
    BY <1>3, <1>12 DEF UpIn
  <2>3. InOk'
    <3>1. UpIn' => Carried(remote.codec.txSeq, remote.codec.outbound, toDaemon', whole, inSent, got)
      BY <1>8, <1>12, <2>2
    <3>2. mux'.codec.inbound = whole /\ mux'.pendingInbound = mux.pendingInbound
      BY <1>1, <1>3, <1>12
    <3>3. got' = got
      BY <1>12, <3>2 DEF got
    <3> QED
      BY <1>9, <1>12, <3>1, <3>2, <3>3, Zenon DEF InOk, got
  <2> QED
    BY <1>12, <2>1, <2>2, <2>3, InStays DEF Kept
<1>13. CASE /\ mux.live /\ f.fin /\ mux.loopbackOpen /\ mux' = m
            /\ WriteLoopback(<<whole>>) /\ SendFrames(<<Ack(f)>>) /\ UNCHANGED loopback
  <2>1. mux.pendingInbound = <<>> /\ loopback \in {"open", "closing"}
    BY <1>6, <1>13 DEF Life
  <2>2. all = inGot /\ got = Len(inGot)
    BY <1>0, <1>9, <2>1
  <2>3. inGot' = (IF loopback = "open" THEN Append(inGot, whole) ELSE inGot) /\ inGot' \in Seq(Message)
    <3>1. inGot \o <<whole>> = Append(inGot, whole) /\ Append(inGot, whole) \in Seq(Message)
      BY <1>0, AppendOne, AppendProperties
    <3> QED
      BY <1>0, <1>13, <3>1 DEF WriteLoopback
  <2>4. StreamTypeOK' /\ Life' /\ OutOk' /\ OutStep
    <3>1. toRelay' = toRelay \/ toRelay' = toRelay \o <<Ack(f)>>
      BY <1>13 DEF SendFrames
    <3> QED
      BY <1>1, <1>3, <1>4, <1>6, <1>13, <2>1, <2>3, <3>1, ControlRead
  <2>5. UpIn' => UpIn
    BY <1>3, <1>13 DEF UpIn
  <2>6. mux'.pendingInbound = <<>> /\ mux'.codec.inbound = <<>>
    BY <1>1, <1>3, <1>13, <2>1
  <2>7. inGot' \o mux'.pendingInbound = inGot'
    BY <2>3, <2>6
  <2>8. CASE loopback = "open"
    <3>1. UpIn
      BY <1>13, <2>8 DEF UpIn
    <3>2. inGot' = Append(inGot, whole)
      BY <2>3, <2>8
    <3>3. Len(inGot') = got + 1 /\ Begins(inGot', inSent)
      BY <1>0, <1>8, <1>9, <1>13, <2>2, <3>1, <3>2, BeginsNext
    <3>4. Len(inGot') > Len(inGot)
      BY <1>7, <2>2, <3>3
    <3>5. InStep
      BY <1>0, <2>3, <2>5, <3>3, <3>4, InArrives
    <3>6. InOk'
      <4>1. Len(inGot') + Len(mux'.pendingInbound) = got + 1
        BY <1>7, <2>6, <3>3
      <4>2. Carried(remote.codec.txSeq, remote.codec.outbound, toDaemon', <<>>, inSent, got + 1)
        BY <1>8, <1>13, <3>1
      <4> QED
        BY <2>6, <2>7, <3>3, <4>1, <4>2, Zenon DEF InOk
    <3> QED
      BY <2>4, <3>5, <3>6 DEF Kept
  <2>9. CASE loopback = "closing"
    <3>1. ~UpIn' /\ inGot' = inGot
      BY <1>13, <2>3, <2>9 DEF UpIn
    <3>2. InOk'
      BY <1>9, <2>2, <2>7, <3>1 DEF InOk
    <3> QED
      BY <2>4, <3>1, <3>2, InStays DEF Kept
  <2> QED
    BY <2>1, <2>8, <2>9
<1>14. CASE mux.live /\ f.fin /\ ~mux.loopbackOpen /\ TearDown(m) /\ UNCHANGED inGot
  BY <1>1, <1>3, <1>14, TearDownKept
<1>15. CASE /\ mux.live /\ f.fin /\ ~mux.loopbackOpen
            /\ mux' = [m EXCEPT !.pendingInbound = Append(m.pendingInbound, whole)]
            /\ SendFrames(<<Ack(f)>>) /\ UNCHANGED <<loopback, inGot>>
  <2>1. loopback = "connecting" /\ UpIn
    BY <1>6, <1>15 DEF Life, UpIn
  <2>2. PICK p \in Seq(Message) : p = Append(mux.pendingInbound, whole) /\ Len(p) = Len(mux.pendingInbound) + 1
    <3>1. PICK q \in Seq(Message) : q = mux.pendingInbound
      BY <1>0
    <3>2. Append(q, whole) \in Seq(Message) /\ Len(Append(q, whole)) = Len(q) + 1
      BY AppendProperties
    <3> QED
      BY <3>1, <3>2, Zenon
  <2>3. mux' = [m EXCEPT !.pendingInbound = p]
    BY <1>3, <1>15, <2>2, Zenon
  <2>4. /\ mux' \in MuxType /\ mux'.pendingInbound = p /\ mux'.codec = c /\ mux'.live = mux.live
        /\ mux'.loopbackOpen = mux.loopbackOpen
    BY <1>3, <2>3 DEF MuxType
  <2>5. StreamTypeOK' /\ Life' /\ OutOk' /\ OutStep
    <3>1. toRelay' = toRelay \/ toRelay' = toRelay \o <<Ack(f)>>
      BY <1>15 DEF SendFrames
    <3> QED
      BY <1>0, <1>1, <1>4, <1>15, <2>1, <2>4, <3>1, ControlRead
  <2>6. UpIn' => UpIn
    BY <2>1
  <2>7. inGot \o p = Append(all, whole)
    <3>1. PICK g, q \in Seq(Message) : g = inGot /\ q = mux.pendingInbound
      BY <1>0
    <3>2. g \o Append(q, whole) = Append(g \o q, whole)
      BY AppendLast
    <3> QED
      BY <1>9, <2>2, <3>1, <3>2, Zenon
  <2>8. Begins(Append(all, whole), inSent)
    BY <1>0, <1>8, <1>9, <1>15, <2>1, BeginsNext
  <2>9. InOk'
    <3>1. Len(inGot') + Len(mux'.pendingInbound) = got + 1
      <4>1. Len(inGot) \in Nat /\ Len(mux.pendingInbound) \in Nat
        BY <1>0
      <4>2. PICK k, l \in Nat : k = Len(inGot) /\ l = Len(mux.pendingInbound)
        BY <4>1
      <4>3. Len(inGot') = k /\ Len(mux'.pendingInbound) = l + 1
        BY <1>15, <2>2, <2>4, <4>2, Zenon
      <4>4. got = k + l
        BY <4>2, Zenon DEF got
      <4> QED
        BY <4>3, <4>4
    <3>2. Carried(remote.codec.txSeq, remote.codec.outbound, toDaemon', <<>>, inSent, got + 1)
      BY <1>8, <1>15, <2>1
    <3>3. mux'.codec.inbound = <<>>
      BY <1>1, <1>15, <2>4
    <3> QED
      BY <1>15, <2>4, <2>7, <2>8, <3>1, <3>2, <3>3, Zenon DEF InOk
  <2> QED
    BY <1>15, <2>5, <2>6, <2>9, InStays DEF Kept
<1> QED
  BY <1>5, <1>10, <1>11, <1>12, <1>13, <1>14, <1>15

LEMMA ControlFrameKept ==
    ASSUME StreamInv, ControlFrame
    PROVE  Kept
<1>1. PICK f : f = Head(toDaemon)
  OBVIOUS
<1>2. /\ control /\ toDaemon # <<>> /\ toDaemon' = Tail(toDaemon)
      /\ UNCHANGED <<control, remote, outSent, outGot, inSent, ackLost>>
      /\ \/ loopback = "none" /\ ~ackLost /\ f = Open /\ HandleOpen
         \/ /\ loopback # "none" \/ ackLost
            /\ \/ f = Close /\ HandleClose
               \/ f \in AckFrame /\ ~ackLost /\ HandleDataAck(f)
               \/ f \in DataFrame /\ ~ackLost /\ HandleData(f)
  BY <1>1, ControlFrameCases
<1> QED
  BY <1>1, <1>2, HandleOpenKept, HandleCloseKept, HandleDataAckKept, HandleDataKept

----------------------------------------------------------------------------

LEMMA StreamInvInit ==
    ASSUME StreamInit
    PROVE  StreamInv /\ ToBrowser!PipeInit /\ ToLoopback!PipeInit
<1>1. NewCodec \in CodecType /\ NewCodec.txSeq = 0 /\ NewCodec.outbound = <<>> /\ NewCodec.inbound = <<>>
  BY DEF NewCodec, CodecType, Message
<1>2. PICK c \in CodecType : c = NewCodec
  BY <1>1
<1>3. /\ mux \in MuxType /\ mux.codec = c /\ ~mux.live /\ ~mux.loopbackOpen /\ mux.pendingInbound = <<>>
      /\ remote \in RemoteType /\ remote.codec = c /\ remote.known = TRUE
  BY <1>2 DEF StreamInit, MuxType, RemoteType
<1>4. /\ toDaemon = <<Open>> /\ toRelay = <<>> /\ control = TRUE /\ ackLost = FALSE /\ loopback = "none"
      /\ outSent = <<>> /\ outGot = <<>> /\ inSent = <<>> /\ inGot = <<>>
  BY DEF StreamInit, Open
<1>5. /\ Open \in Frame /\ Open.type # "ws.data"
  BY DEF Open, Frame
<1>6. /\ toDaemon \in Seq(Frame) /\ toDaemon # <<>> /\ Head(toDaemon) = Open
      /\ Tail(toDaemon) \in Seq(PlainFrame) /\ Len(toDaemon) = 1 /\ toDaemon[1] = Open
  BY <1>4, <1>5
<1>7. StreamTypeOK
  <2>1. toRelay \in Seq(PlainFrame) /\ outSent \in Seq(Message) /\ outGot \in Seq(Message)
        /\ inSent \in Seq(Message) /\ inGot \in Seq(Message)
    BY <1>4
  <2> QED
    BY <1>3, <1>4, <1>6, <2>1 DEF StreamTypeOK
<1>8. Life
  BY <1>3, <1>4, <1>6 DEF Life, DaemonWire, Opening
<1>9. Carried(0, <<>>, toRelay, <<>>, <<>>, 0) /\ Carried(0, <<>>, toDaemon, <<>>, <<>>, 0)
  <2>1. \A i \in 1..Len(toRelay) : toRelay[i].type # "ws.data"
    BY <1>4
  <2>2. \A i \in 1..Len(toDaemon) : toDaemon[i].type # "ws.data"
    BY <1>5, <1>6
  <2> QED
    BY <2>1, <2>2, NothingCarried
<1>10. Begins(<<>>, <<>>) /\ <<>> \o <<>> = <<>> /\ Len(<<>>) = 0 /\ 0 + 0 = 0
  BY DEF Begins
<1>11. OutOk
  BY <1>1, <1>2, <1>3, <1>4, <1>9, <1>10, Zenon DEF OutOk
<1>12. InOk
  BY <1>1, <1>2, <1>3, <1>4, <1>9, <1>10, Zenon DEF InOk
<1>13. ToBrowser!PipeInit
  BY <1>3, <1>4 DEF ToBrowser!PipeInit
<1>14. ToLoopback!PipeInit
  BY <1>4 DEF ToLoopback!PipeInit
<1> QED
  BY <1>7, <1>8, <1>11, <1>12, <1>13, <1>14 DEF StreamInv

LEMMA StreamStep ==
    ASSUME StreamInv, [StreamNext]_streamVars
    PROVE  Kept
<1>1. CASE UNCHANGED streamVars
  <2>1. StreamInv'
    BY <1>1 DEF StreamInv, streamVars, StreamTypeOK, Life, DaemonWire, Opening, OutOk, InOk, UpIn
  <2>2. OutStep
    BY <1>1, <2>1, OutStays DEF StreamInv, streamVars
  <2>3. InStep
    BY <1>1, InStays DEF UpIn, streamVars
  <2> QED
    BY <2>1, <2>2, <2>3 DEF Kept
<1>2. CASE StreamNext
  BY <1>2, ControlFrameKept, OpensKept, LoopbackMessageKept, ClosingKept, ClosesKept, LossKept,
     ReconnectKept, RemoteFrameKept, RemoteSendsKept, RemoteClosesKept DEF StreamNext
<1> QED
  BY <1>1, <1>2

\* The invariant the two pipes rest on: every byte of a direction that is up is at
\* the receiver, on the connection or in the sender's queue, in order.
THEOREM StreamSafe == StreamSpec => []StreamInv
<1>1. StreamInit => StreamInv
  BY StreamInvInit
<1>2. StreamInv /\ [StreamNext]_streamVars => StreamInv'
  BY StreamStep DEF Kept
<1> QED
  BY <1>1, <1>2, PTL DEF StreamSpec

\* Either direction of a stream (StreamMux and the DocumentStreamCodec on both
\* ends) implements the safety half of the pipe: the messages that arrive are
\* the ones written, whole, in their order, none skipped and none twice, and a
\* direction that went down stays down.
THEOREM StreamIsTwoPipes == StreamSpec => ToBrowser!PipeSafety /\ ToLoopback!PipeSafety
<1>1. StreamInit => ToBrowser!PipeInit /\ ToLoopback!PipeInit
  BY StreamInvInit
<1>2. StreamInv /\ [StreamNext]_streamVars => [ToBrowser!PipeNext]_(ToBrowser!pipeVars)
  BY StreamStep DEF Kept, OutStep, ToBrowser!pipeVars
<1>3. StreamInv /\ [StreamNext]_streamVars => [ToLoopback!PipeNext]_(ToLoopback!pipeVars)
  BY StreamStep DEF Kept, InStep, ToLoopback!pipeVars, UpIn
<1>4. StreamSpec => []StreamInv
  BY StreamSafe
<1> QED
  BY <1>1, <1>2, <1>3, <1>4, PTL DEF StreamSpec, ToBrowser!PipeSafety, ToLoopback!PipeSafety

----------------------------------------------------------------------------
(* The credit of the direction to the browser. *)

DataOn(wire) == {f \in Range(wire) : f.type = "ws.data"}
AcksOn(wire) == {f \in Range(wire) : f.type = "ws.data.ack"}

\* No frame is acknowledged twice.
AckedOnce(back) ==
    \A k, l \in 1..Len(back) :
        /\ k # l
        /\ back[k].type = "ws.data.ack" /\ back[l].type = "ws.data.ack"
        => back[k].seq # back[l].seq

Entry == Nat \X Nat

\* Credit held by entries for data frames on the connection and acks coming
\* back, when mid is the number of the next frame to be sent.
CreditOf(unacked, held, mid, data, acks) ==
    /\ held \in SUBSET Entry /\ IsFiniteSet(held)
    /\ \A a \in acks : a.seq < mid /\ \A f \in data : a.seq < f.seq
    /\ \A e, d \in held : e[1] = d[1] => e = d
    /\ \A e \in held : e[1] < mid
    /\ \A f \in data : f.bytes # <<>> => <<f.seq, Len(f.bytes)>> \in held
    /\ \A e \in held : \/ \E f \in data : f.bytes # <<>> /\ f.seq = e[1]
                       \/ \E a \in acks : a.seq = e[1]
    /\ unacked = EntryBytes(held)
    /\ unacked <= Max({WindowBytes, ChunkBytes})

SmallChunks(queue) == \A i \in 1..Len(queue) : Len(queue[i].bytes) <= ChunkBytes

\* The next frame to be sent.
NextOut(codec) == codec.txSeq - Len(codec.outbound)

Credit(codec, wire, back) ==
    /\ AckedOnce(back)
    /\ CreditOf(codec.unacked, codec.unackedBySeq, NextOut(codec), DataOn(wire), AcksOn(back))

\* The stream has not been opened yet, or the mux holds it and the relay knows it.
Crediting == remote.known /\ (mux.live \/ loopback = "none")

CreditInv ==
    /\ SmallChunks(mux.codec.outbound)
    /\ Crediting => Credit(mux.codec, toRelay, toDaemon)

Units(entries) == UNION {{e} \X (1..e[2]) : e \in entries}

LEMMA UnitsOf ==
    ASSUME NEW E \in SUBSET Entry, NEW x
    PROVE  x \in Units(E) <=> \E e \in E : \E j \in 1..e[2] : x = <<e, j>>
BY DEF Units

LEMMA UnitsFinite ==
    ASSUME NEW E \in SUBSET Entry, IsFiniteSet(E)
    PROVE  IsFiniteSet(Units(E)) /\ EntryBytes(E) = Cardinality(Units(E)) /\ EntryBytes(E) \in Nat
<1> DEFINE part(e) == {e} \X (1..e[2])
           parts == {part(e) : e \in E}
<1>1. ASSUME NEW e \in E PROVE IsFiniteSet(part(e))
  <2>1. e[2] \in Int /\ 1 \in Int
    BY DEF Entry
  <2>2. IsFiniteSet(1..e[2])
    BY <2>1, FS_Interval
  <2>3. IsFiniteSet({e})
    BY FS_Singleton
  <2> QED
    BY <2>2, <2>3, FS_Product
<1>2. Units(E) = UNION parts
  BY DEF Units
<1>3. EntryBytes(E) = Cardinality(Units(E))
  BY DEF EntryBytes, Units
<1> HIDE DEF part
<1>4. IsFiniteSet(parts)
  <2>1. PICK f : f = [e \in E |-> part(e)]
    OBVIOUS
  <2>2. f \in Surjection(E, parts)
    BY <2>1 DEF Surjection
  <2> HIDE DEF parts
  <2> QED
    BY <2>2, FS_Surjection
<1>5. IsFiniteSet(UNION parts)
  BY <1>1, <1>4, FS_UNION
<1> QED
  BY <1>2, <1>3, <1>5, FS_CardinalityType

LEMMA UnitsJoin ==
    ASSUME NEW E \in SUBSET Entry, NEW F \in SUBSET Entry, IsFiniteSet(E), IsFiniteSet(F), E \cap F = {}
    PROVE  /\ EntryBytes(E \cup F) = EntryBytes(E) + EntryBytes(F)
           /\ EntryBytes(E) \in Nat /\ EntryBytes(F) \in Nat /\ IsFiniteSet(E \cup F)
<1>1. Units(E \cup F) = Units(E) \cup Units(F)
  BY DEF Units
<1>2. Units(E) \cap Units(F) = {}
  BY UnitsOf
<1>3. IsFiniteSet(E \cup F) /\ E \cup F \in SUBSET Entry
  BY FS_Union
<1>4. /\ IsFiniteSet(Units(E)) /\ EntryBytes(E) = Cardinality(Units(E)) /\ EntryBytes(E) \in Nat
      /\ IsFiniteSet(Units(F)) /\ EntryBytes(F) = Cardinality(Units(F)) /\ EntryBytes(F) \in Nat
      /\ EntryBytes(E \cup F) = Cardinality(Units(E \cup F))
  BY <1>3, UnitsFinite
<1>5. Cardinality(Units(E) \cup Units(F))
        = Cardinality(Units(E)) + Cardinality(Units(F)) - Cardinality(Units(E) \cap Units(F))
  BY <1>4, FS_Union
<1>6. Cardinality(Units(E) \cap Units(F)) = 0
  BY <1>2, FS_EmptySet
<1>7. PICK m, n \in Nat : m = Cardinality(Units(E)) /\ n = Cardinality(Units(F))
  BY <1>4
<1>8. EntryBytes(E \cup F) = m + n - 0
  BY <1>1, <1>4, <1>5, <1>6, <1>7, Zenon
<1>9. EntryBytes(E \cup F) = m + n
  BY <1>8
<1> QED
  BY <1>3, <1>4, <1>7, <1>9

LEMMA UnitsOne ==
    ASSUME NEW e \in Entry
    PROVE  IsFiniteSet({e}) /\ EntryBytes({e}) = e[2]
<1>1. e[2] \in Nat /\ IsFiniteSet({e}) /\ Cardinality({e}) = 1
  BY FS_Singleton DEF Entry
<1>2. UNION {{d} \X (1..d[2]) : d \in {e}} = {e} \X (1..e[2])
  OBVIOUS
<1>3. PICK n \in Nat : n = e[2]
  BY <1>1
<1>4. n \in Int /\ 1 \in Int
  OBVIOUS
<1>5. IsFiniteSet(1..n) /\ Cardinality(1..n) = n
  <2>1. IsFiniteSet(1..n) /\ Cardinality(1..n) = IF 1 > n THEN 0 ELSE n - 1 + 1
    BY <1>4, FS_Interval
  <2> QED
    BY <1>3, <2>1
<1>6. Cardinality({e} \X (1..n)) = Cardinality({e}) * Cardinality(1..n)
  BY <1>1, <1>5, FS_Product
<1>7. Cardinality({e} \X (1..n)) = n
  BY <1>1, <1>5, <1>6
<1> QED
  BY <1>1, <1>2, <1>3, <1>7 DEF EntryBytes

\* The entries of frames.
EntriesOf(frames, D) == {<<frames[i].seq, Len(frames[i].bytes)>> : i \in {j \in D : frames[j].bytes # <<>>}}

\* The bytes of frames are those of their entries.
LEMMA FrameUnits ==
    ASSUME NEW D, IsFiniteSet(D), NEW frames, DOMAIN frames = D, \A i \in D : frames[i] \in DataFrame,
           \A i, j \in D : frames[i].seq = frames[j].seq => i = j
    PROVE  /\ EntriesOf(frames, D) \in SUBSET Entry /\ IsFiniteSet(EntriesOf(frames, D))
           /\ Bytes(frames) = EntryBytes(EntriesOf(frames, D))
<1> DEFINE E == EntriesOf(frames, D)
           key(i) == <<frames[i].seq, Len(frames[i].bytes)>>
           D1 == {j \in D : frames[j].bytes # <<>>}
           msgs == [i \in DOMAIN frames |-> frames[i].bytes]
           S == UNION {{i} \X DOMAIN msgs[i] : i \in DOMAIN msgs}
           g == [x \in S |-> <<key(x[1]), x[2]>>]
<1>1. ASSUME NEW i \in D
      PROVE  /\ frames[i].seq \in Nat /\ Len(frames[i].bytes) \in Nat
             /\ DOMAIN frames[i].bytes = 1..Len(frames[i].bytes) /\ key(i) \in Entry
             /\ key(i)[1] = frames[i].seq /\ key(i)[2] = Len(frames[i].bytes)
             /\ (frames[i].bytes = <<>> => 1..Len(frames[i].bytes) = {})
  <2>1. frames[i].seq \in Nat /\ frames[i].bytes \in Seq(Nat)
    BY DEF DataFrame, Message
  <2>2. Len(frames[i].bytes) \in Nat /\ DOMAIN frames[i].bytes = 1..Len(frames[i].bytes)
    BY <2>1
  <2>3. frames[i].bytes = <<>> => 1..Len(frames[i].bytes) = {}
    OBVIOUS
  <2> QED
    BY <2>1, <2>2, <2>3 DEF Entry
<1>2. E \in SUBSET Entry
  BY <1>1 DEF EntriesOf
<1>3. IsFiniteSet(E)
  <2>1. IsFiniteSet(D1)
    BY FS_Subset
  <2>2. PICK f : f = [i \in D1 |-> key(i)]
    OBVIOUS
  <2>3. f \in Surjection(D1, E)
    BY <2>2 DEF Surjection, EntriesOf
  <2> HIDE DEF E, D1
  <2> QED
    BY <2>1, <2>3, FS_Surjection
<1>4. Bytes(frames) = Cardinality(S)
  BY DEF Bytes, ByteCount
<1>5. \A x : x \in S <=> \E i \in D : \E j \in 1..Len(frames[i].bytes) : x = <<i, j>>
  BY <1>1
<1>6. \A x : x \in Units(E) <=> \E i \in D : \E j \in 1..Len(frames[i].bytes) : x = <<key(i), j>>
  <2> SUFFICES ASSUME NEW x
               PROVE  x \in Units(E) <=> \E i \in D : \E j \in 1..Len(frames[i].bytes) : x = <<key(i), j>>
    OBVIOUS
  <2>1. x \in Units(E) <=> \E e \in E : \E j \in 1..e[2] : x = <<e, j>>
    BY <1>2, UnitsOf
  <2>2. \A e : e \in E <=> \E i \in D1 : e = key(i)
    BY DEF EntriesOf
  <2>3. ASSUME NEW i \in D, NEW j \in 1..Len(frames[i].bytes) PROVE i \in D1
    BY <1>1
  <2> HIDE DEF E, key
  <2>4. ASSUME x \in Units(E) PROVE \E i \in D : \E j \in 1..Len(frames[i].bytes) : x = <<key(i), j>>
    BY <2>4, <2>1, <2>2, <1>1
  <2>5. ASSUME NEW i \in D, NEW j \in 1..Len(frames[i].bytes), x = <<key(i), j>> PROVE x \in Units(E)
    BY <2>5, <2>1, <2>2, <2>3, <1>1
  <2> QED
    BY <2>4, <2>5
<1> HIDE DEF S, E
<1>7. g \in Injection(S, Units(E))
  <2>1. ASSUME NEW x \in S PROVE g[x] \in Units(E)
    <3>1a. PICK i \in D : \E j \in 1..Len(frames[i].bytes) : x = <<i, j>>
      BY <1>5
    <3>1. PICK j \in 1..Len(frames[i].bytes) : x = <<i, j>>
      BY <3>1a
    <3>2. g[x] = <<key(i), j>>
      BY <3>1
    <3> QED
      BY <1>6, <3>1, <3>2
  <2>2. ASSUME NEW x \in S, NEW y \in S, g[x] = g[y] PROVE x = y
    <3>1a. PICK i \in D : \E j \in 1..Len(frames[i].bytes) : x = <<i, j>>
      BY <1>5
    <3>1. PICK j \in 1..Len(frames[i].bytes) : x = <<i, j>>
      BY <3>1a
    <3>2a. PICK k \in D : \E l \in 1..Len(frames[k].bytes) : y = <<k, l>>
      BY <1>5
    <3>2. PICK l \in 1..Len(frames[k].bytes) : y = <<k, l>>
      BY <3>2a
    <3>3. <<key(i), j>> = <<key(k), l>>
      BY <2>2, <3>1, <3>2
    <3>4. key(i) = key(k) /\ j = l
      BY <3>3
    <3>5. frames[i].seq = frames[k].seq
      BY <3>4
    <3>6. i = k
      BY <3>5
    <3> QED
      BY <3>1, <3>2, <3>4, <3>6
  <2>3. g \in [S -> Units(E)] /\ DOMAIN g = S
    BY <2>1
  <2> HIDE DEF g
  <2>4. IsInjective(g)
    BY <2>2, <2>3 DEF IsInjective
  <2> QED
    BY <2>3, <2>4 DEF Injection
<1>8. g \in Surjection(S, Units(E))
  <2>1. ASSUME NEW y \in Units(E) PROVE \E x \in S : g[x] = y
    <3>1a. PICK i \in D : \E j \in 1..Len(frames[i].bytes) : y = <<key(i), j>>
      BY <1>6
    <3>1. PICK j \in 1..Len(frames[i].bytes) : y = <<key(i), j>>
      BY <3>1a
    <3>2. <<i, j>> \in S
      BY <1>5, <3>1
    <3>3. g[<<i, j>>] = y
      BY <3>1, <3>2
    <3> QED
      BY <3>2, <3>3
  <2> QED
    BY <1>7, <2>1 DEF Surjection, Injection
<1> HIDE DEF g
<1>9. IsFiniteSet(Units(E)) /\ EntryBytes(E) = Cardinality(Units(E))
  BY <1>2, <1>3, UnitsFinite
<1>10. Cardinality(S) = Cardinality(Units(E))
  BY <1>7, <1>8, <1>9, FS_Injection
<1> QED
  BY <1>2, <1>3, <1>4, <1>9, <1>10 DEF E

----------------------------------------------------------------------------
(* What a step does to the credit, in terms of the frames under way. *)

LEMMA MaxOfTwo ==
    ASSUME NEW a \in Nat, NEW b \in Nat
    PROVE  Max({a, b}) = IF a <= b THEN b ELSE a
BY DEF Max

LEMMA CreditCounts ==
    ASSUME NEW u, NEW held, NEW mid \in Nat, NEW D, NEW A, CreditOf(u, held, mid, D, A)
    PROVE  /\ u \in Nat /\ held \in SUBSET Entry /\ IsFiniteSet(held)
           /\ \A e \in held : e[1] \in Nat /\ e[2] \in Nat
<1>1. held \in SUBSET Entry /\ IsFiniteSet(held) /\ u = EntryBytes(held)
  BY DEF CreditOf
<1>2. EntryBytes(held) \in Nat
  BY <1>1, UnitsFinite
<1> QED
  BY <1>1, <1>2 DEF Entry

\* The relay reads a frame and its ack sets out.
LEMMA CreditRead ==
    ASSUME NEW u, NEW held, NEW mid \in Nat, NEW D \in SUBSET DataFrame, NEW A,
           CreditOf(u, held, mid, D, A),
           NEW h \in D, h.seq < mid, NEW E \in SUBSET D, D = {h} \cup E, \A g \in E : h.seq < g.seq
    PROVE  CreditOf(u, held, mid, E, A \cup {Ack(h)})
<1>1. Ack(h).seq = h.seq
  BY DEF Ack
<1>2. \A a \in A \cup {Ack(h)} : a.seq < mid /\ \A f \in E : a.seq < f.seq
  BY <1>1 DEF CreditOf
<1>3. \A e \in held : \/ \E f \in E : f.bytes # <<>> /\ f.seq = e[1]
                      \/ \E a \in A \cup {Ack(h)} : a.seq = e[1]
  <2> SUFFICES ASSUME NEW e \in held,
                      NEW f \in D, f.bytes # <<>>, f.seq = e[1], f \notin E
               PROVE  \E a \in A \cup {Ack(h)} : a.seq = e[1]
    BY DEF CreditOf
  <2>1. f = h
    OBVIOUS
  <2> QED
    BY <1>1, <2>1
<1> QED
  BY <1>2, <1>3 DEF CreditOf

\* The ack of a frame arrives.
AckTaken(codec, seq, mid, data, acks) ==
    \E c \in CodecType :
        /\ OnAck(codec, seq) = c /\ c.txSeq = codec.txSeq
        /\ c.outbound = codec.outbound /\ c.inbound = codec.inbound
        /\ CreditOf(c.unacked, c.unackedBySeq, mid, data, acks)

\* The acks without a, which is the only one of its frame.
OtherAcks(a, acks, others) == acks = {a} \cup others /\ \A b \in others : b.seq # a.seq

LEMMA CreditAcked ==
    ASSUME NEW codec \in CodecType, NEW mid \in Nat, NEW D \in SUBSET DataFrame, NEW A, NEW B,
           CreditOf(codec.unacked, codec.unackedBySeq, mid, D, A),
           NEW a \in AckFrame, OtherAcks(a, A, B)
    PROVE  AckTaken(codec, a.seq, mid, D, B)
<1>0. a.seq \in Nat /\ a \in A /\ B \in SUBSET A /\ A = {a} \cup B /\ \A b \in B : b.seq # a.seq
  BY DEF AckFrame, OtherAcks
<1> DEFINE mine == {e \in codec.unackedBySeq : e[1] = a.seq}
<1>1. PICK u \in Nat, held \in SUBSET Entry : u = codec.unacked /\ held = codec.unackedBySeq
  BY DEF CodecType, Entry
<1>2. CreditOf(u, held, mid, D, A) /\ IsFiniteSet(held)
  BY <1>1 DEF CreditOf
<1>3. \A b \in B : b.seq < mid /\ \A f \in D : b.seq < f.seq
  BY <1>0, <1>2 DEF CreditOf
<1>4. CASE mine = {}
  <2>1. OnAck(codec, a.seq) = codec
    BY <1>4 DEF OnAck
  <2>2. \A e \in held : \/ \E f \in D : f.bytes # <<>> /\ f.seq = e[1]
                        \/ \E b \in B : b.seq = e[1]
    <3> SUFFICES ASSUME NEW e \in held, NEW b \in A, b.seq = e[1] PROVE b \in B
      BY <1>2 DEF CreditOf
    <3>1. b # a
      BY <1>1, <1>4
    <3> QED
      BY <1>0, <3>1
  <2>3. CreditOf(u, held, mid, D, B)
    BY <1>2, <1>3, <2>2 DEF CreditOf
  <2> QED
    BY <1>1, <2>1, <2>3 DEF AckTaken
<1>5. CASE mine # {}
  <2>1. PICK e \in mine : e = CHOOSE x \in mine : TRUE
    BY <1>5
  <2>2. e \in held /\ e[1] = a.seq /\ e \in Entry /\ e[2] \in Nat
    BY <1>1, <2>1 DEF Entry
  <2>3. PICK rest \in SUBSET Entry : rest = held \ {e}
    OBVIOUS
  <2>4. /\ IsFiniteSet(rest) /\ IsFiniteSet({e}) /\ rest \cap {e} = {} /\ rest \cup {e} = held
        /\ {e} \in SUBSET Entry /\ EntryBytes({e}) = e[2]
    BY <1>2, <2>2, <2>3, FS_Subset, UnitsOne
  <2>5. EntryBytes(rest \cup {e}) = EntryBytes(rest) + EntryBytes({e}) /\ EntryBytes(rest) \in Nat
    BY <2>4, UnitsJoin
  <2>6. PICK w, k \in Nat : w = EntryBytes(rest) /\ k = e[2]
    BY <2>2, <2>5
  <2>7. u = w + k
    <3>1. u = EntryBytes(held)
      BY <1>2 DEF CreditOf
    <3> QED
      BY <2>4, <2>5, <2>6, <3>1, Zenon
  <2>8. w = IF u > k THEN u - k ELSE 0
    BY <2>7
  <2>9. PICK c : c = [codec EXCEPT !.unackedBySeq = rest, !.unacked = w]
    OBVIOUS
  <2>10. OnAck(codec, a.seq) = c
    <3>1. PICK x : x = IF codec.unacked > e[2] THEN codec.unacked - e[2] ELSE 0
      OBVIOUS
    <3>2. x = w
      BY <1>1, <2>6, <2>8, <3>1, Zenon
    <3>3. OnAck(codec, a.seq) = [codec EXCEPT !.unackedBySeq = codec.unackedBySeq \ {e}, !.unacked = x]
      BY <1>5, <2>1, <3>1, Zenon DEF OnAck
    <3> QED
      BY <1>1, <2>3, <2>9, <3>2, <3>3, Zenon
  <2>11. /\ c \in CodecType /\ c.txSeq = codec.txSeq /\ c.outbound = codec.outbound
         /\ c.inbound = codec.inbound /\ c.unacked = w /\ c.unackedBySeq = rest
    BY <2>9 DEF CodecType, Entry
  <2>12. CreditOf(w, rest, mid, D, B)
    <3>1. \A f \in D : f.bytes # <<>> => <<f.seq, Len(f.bytes)>> \in rest
      <4> SUFFICES ASSUME NEW f \in D, f.bytes # <<>> PROVE <<f.seq, Len(f.bytes)>> \in rest
        OBVIOUS
      <4>1. <<f.seq, Len(f.bytes)>> \in held /\ a.seq < f.seq
        BY <1>0, <1>2 DEF CreditOf
      <4>2. PICK q \in Nat : q = f.seq
        BY DEF DataFrame
      <4>3. f.seq # a.seq
        BY <1>0, <4>1, <4>2
      <4>4. <<f.seq, Len(f.bytes)>> # e
        BY <2>2, <4>3
      <4> QED
        BY <2>3, <4>1, <4>4
    <3>2. \A d \in rest : \/ \E f \in D : f.bytes # <<>> /\ f.seq = d[1]
                          \/ \E b \in B : b.seq = d[1]
      <4> SUFFICES ASSUME NEW d \in rest, NEW b \in A, b.seq = d[1] PROVE b \in B
        BY <1>2, <2>3 DEF CreditOf
      <4>1. d[1] # e[1]
        BY <1>2, <2>2, <2>3 DEF CreditOf
      <4>2. b # a
        BY <2>2, <4>1
      <4> QED
        BY <1>0, <4>2
    <3>3. w <= Max({WindowBytes, ChunkBytes})
      <4>1. PICK m \in Nat : m = Max({WindowBytes, ChunkBytes})
        BY StreamBounds, MaxOfTwo
      <4>2. u <= m
        BY <1>2, <4>1 DEF CreditOf
      <4>3. w <= m
        BY <2>7, <4>2
      <4> QED
        BY <4>1, <4>3
    <3>4. /\ \A d, x \in rest : d[1] = x[1] => d = x
          /\ \A d \in rest : d[1] < mid
      BY <1>2, <2>3 DEF CreditOf
    <3> QED
      BY <1>3, <2>4, <2>6, <3>1, <3>2, <3>3, <3>4 DEF CreditOf
  <2> QED
    BY <2>10, <2>11, <2>12 DEF AckTaken
<1> QED
  BY <1>4, <1>5

\* The last frame that is sent fits in the window, or nothing was outstanding.
LEMMA SendableFits ==
    ASSUME NEW codec \in CodecType, NEW n \in Nat, n = Sendable(codec), n > 0,
           NEW b, b = codec.unacked + Bytes(SubSeq(codec.outbound, 1, n - 1))
    PROVE  b = 0 \/ b + Len(codec.outbound[n].bytes) <= WindowBytes
<1> DEFINE before(i) == codec.unacked + Bytes(SubSeq(codec.outbound, 1, i - 1))
           fits(i) == before(i) = 0 \/ before(i) + Len(codec.outbound[i].bytes) <= WindowBytes
           T == {m \in 0..Len(codec.outbound) : \A i \in 1..m : fits(i)}
<1>1. Sendable(codec) = Max(T)
  BY Zenon DEF Sendable
<1> HIDE DEF fits
<1>2. Len(codec.outbound) \in Nat
  BY DEF CodecType
<1>3. 0 \in T
  BY <1>2
<1>4. T \in SUBSET (0..Len(codec.outbound)) /\ T # {}
  BY <1>3
<1>5. Max(T) \in T
  <2> HIDE DEF T
  <2> QED
    BY <1>2, <1>4, Greatest
<1>6. n \in 1..n
  OBVIOUS
<1>7. fits(n)
  BY <1>1, <1>5, <1>6
<1> QED
  BY <1>7 DEF fits

\* The frames of a queue are numbered from mid.
Numbered(queue, mid) == \A i \in 1..Len(queue) : queue[i].seq = mid + i - 1

\* The first frames of such a queue.
FirstFrames(queue, mid, n, frames) ==
    /\ frames \in Seq(DataFrame) /\ Len(frames) = n /\ DOMAIN frames = 1..n
    /\ \A i \in 1..n : frames[i] = queue[i] /\ frames[i] \in DataFrame /\ frames[i].seq = mid + i - 1
    /\ EntriesOf(frames, 1..n) \in SUBSET Entry /\ IsFiniteSet(EntriesOf(frames, 1..n))
    /\ Bytes(frames) = EntryBytes(EntriesOf(frames, 1..n))

LEMMA QueueEntries ==
    ASSUME NEW queue \in Seq(DataFrame), NEW mid \in Nat, Numbered(queue, mid),
           NEW n \in Nat, n <= Len(queue), NEW frames, frames = SubSeq(queue, 1, n)
    PROVE  FirstFrames(queue, mid, n, frames)
<1>1. frames \in Seq(DataFrame) /\ Len(frames) = n /\ \A i \in 1..n : frames[i] = queue[i]
  BY PartFacts
<1>2. DOMAIN frames = 1..n
  BY <1>1
<1>3. ASSUME NEW i \in 1..n PROVE frames[i] \in DataFrame /\ frames[i].seq = mid + i - 1
  <2>1. i \in 1..Len(queue)
    OBVIOUS
  <2> QED
    BY <1>1, <2>1 DEF Numbered
<1>4. IsFiniteSet(1..n)
  <2>1. 1 \in Int /\ n \in Int
    OBVIOUS
  <2> QED
    BY <2>1, FS_Interval
<1>5. \A i, j \in 1..n : frames[i].seq = frames[j].seq => i = j
  <2> SUFFICES ASSUME NEW i \in 1..n, NEW j \in 1..n, frames[i].seq = frames[j].seq PROVE i = j
    OBVIOUS
  <2>1. mid + i - 1 = mid + j - 1
    BY <1>3
  <2> QED
    BY <2>1
<1>6. /\ EntriesOf(frames, 1..n) \in SUBSET Entry /\ IsFiniteSet(EntriesOf(frames, 1..n))
      /\ Bytes(frames) = EntryBytes(EntriesOf(frames, 1..n))
  BY <1>2, <1>3, <1>4, <1>5, FrameUnits
<1> QED
  BY <1>1, <1>2, <1>3, <1>6 DEF FirstFrames

LEMMA EntryIn ==
    ASSUME NEW frames, NEW D, NEW x
    PROVE  x \in EntriesOf(frames, D) <=>
             \E i \in D : frames[i].bytes # <<>> /\ x = <<frames[i].seq, Len(frames[i].bytes)>>
BY DEF EntriesOf

\* The bytes of the first frames are those of the ones before the last, and the last.
LEMMA LastBytes ==
    ASSUME NEW queue \in Seq(DataFrame), NEW mid \in Nat,
           Numbered(queue, mid), NEW n \in Nat, n > 0, n <= Len(queue)
    PROVE  /\ Bytes(SubSeq(queue, 1, n)) = Bytes(SubSeq(queue, 1, n - 1)) + Len(queue[n].bytes)
           /\ Bytes(SubSeq(queue, 1, n - 1)) \in Nat /\ Len(queue[n].bytes) \in Nat
<1>1. PICK m \in Nat : m = n - 1
  OBVIOUS
<1>2. m <= Len(queue) /\ n \in 1..n /\ (\A i \in 1..m : i \in 1..n) /\ (\A i \in 1..n : i \in 1..m \/ i = n)
  BY <1>1
<1>3. PICK frames : frames = SubSeq(queue, 1, n)
  OBVIOUS
<1>4. PICK firsts : firsts = SubSeq(queue, 1, m)
  OBVIOUS
<1>a. FirstFrames(queue, mid, n, frames)
  BY <1>3, QueueEntries
<1>b. FirstFrames(queue, mid, m, firsts)
  BY <1>2, <1>4, QueueEntries
<1>5. /\ \A i \in 1..n : frames[i] = queue[i] /\ frames[i] \in DataFrame /\ frames[i].seq = mid + i - 1
      /\ EntriesOf(frames, 1..n) \in SUBSET Entry /\ IsFiniteSet(EntriesOf(frames, 1..n))
      /\ Bytes(frames) = EntryBytes(EntriesOf(frames, 1..n))
  BY <1>a DEF FirstFrames
<1>6. /\ \A i \in 1..m : firsts[i] = queue[i]
      /\ EntriesOf(firsts, 1..m) \in SUBSET Entry /\ IsFiniteSet(EntriesOf(firsts, 1..m))
      /\ Bytes(firsts) = EntryBytes(EntriesOf(firsts, 1..m))
  BY <1>b DEF FirstFrames
<1>c. \A i \in 1..m : firsts[i] = frames[i]
  BY <1>2, <1>5, <1>6
<1>d. /\ \A x : x \in EntriesOf(frames, 1..n) <=>
             \E i \in 1..n : frames[i].bytes # <<>> /\ x = <<frames[i].seq, Len(frames[i].bytes)>>
      /\ \A x : x \in EntriesOf(firsts, 1..m) <=>
             \E i \in 1..m : firsts[i].bytes # <<>> /\ x = <<firsts[i].seq, Len(firsts[i].bytes)>>
  BY EntryIn
<1>f. \A x \in EntriesOf(firsts, 1..m) : x \in EntriesOf(frames, 1..n)
  <2> SUFFICES ASSUME NEW x \in EntriesOf(firsts, 1..m) PROVE x \in EntriesOf(frames, 1..n)
    OBVIOUS
  <2>1. PICK i \in 1..m : firsts[i].bytes # <<>> /\ x = <<firsts[i].seq, Len(firsts[i].bytes)>>
    BY <1>d
  <2>2. i \in 1..n /\ firsts[i] = frames[i]
    BY <1>2, <1>c
  <2> QED
    BY <1>d, <2>1, <2>2
<1>e. frames[n] = queue[n]
  BY <1>2, <1>5
<1>7. PICK l \in Nat : l = Len(queue[n].bytes)
  <2>1. queue[n] \in DataFrame
    BY <1>2, <1>5
  <2>2. queue[n].bytes \in Message
    BY <2>1 DEF DataFrame
  <2> QED
    BY <2>2, WholePart
<1>8. EntryBytes(EntriesOf(firsts, 1..m)) \in Nat
  BY <1>6, UnitsFinite
<1>9. CASE queue[n].bytes = <<>>
  <2>1. EntriesOf(frames, 1..n) = EntriesOf(firsts, 1..m)
    <3>1. ASSUME NEW x \in EntriesOf(frames, 1..n) PROVE x \in EntriesOf(firsts, 1..m)
      <4>1. PICK i \in 1..n : frames[i].bytes # <<>> /\ x = <<frames[i].seq, Len(frames[i].bytes)>>
        BY <1>d
      <4>2. i \in 1..m
        BY <1>2, <1>9, <1>e, <4>1
      <4> QED
        BY <1>c, <1>d, <4>1, <4>2
    <3>2. ASSUME NEW x \in EntriesOf(firsts, 1..m) PROVE x \in EntriesOf(frames, 1..n)
      BY <1>f, <3>2
    <3> QED
      BY <3>1, <3>2
  <2>2. l = 0
    BY <1>7, <1>9
  <2> QED
    BY <1>1, <1>3, <1>4, <1>5, <1>6, <1>7, <1>8, <2>1, <2>2
<1>10. CASE queue[n].bytes # <<>>
  <2>1. PICK e : e = <<queue[n].seq, l>>
    OBVIOUS
  <2>2. queue[n].seq = mid + n - 1 /\ mid + n - 1 \in Nat
    <3>1. n \in 1..n /\ mid + n - 1 \in Nat
      BY <1>2
    <3>2. frames[n].seq = mid + n - 1
      BY <1>5, <3>1
    <3> QED
      BY <1>e, <3>1, <3>2
  <2>3. e \in Entry /\ e[1] = mid + n - 1 /\ e[2] = l
    BY <2>1, <2>2 DEF Entry
  <2>4. EntriesOf(frames, 1..n) = EntriesOf(firsts, 1..m) \cup {e}
    <3>1. <<frames[n].seq, Len(frames[n].bytes)>> = e /\ frames[n].bytes # <<>>
      BY <1>2, <1>5, <1>7, <1>10, <2>1
    <3>2. ASSUME NEW x \in EntriesOf(frames, 1..n), x # e PROVE x \in EntriesOf(firsts, 1..m)
      <4>1. PICK i \in 1..n : frames[i].bytes # <<>> /\ x = <<frames[i].seq, Len(frames[i].bytes)>>
        BY <1>d
      <4>2. i \in 1..m
        BY <1>2, <3>1, <3>2, <4>1
      <4> QED
        BY <1>c, <1>d, <4>1, <4>2
    <3>3. e \in EntriesOf(frames, 1..n)
      BY <1>2, <1>d, <3>1
    <3> QED
      BY <1>f, <3>2, <3>3
  <2>5. e \notin EntriesOf(firsts, 1..m)
    <3> SUFFICES ASSUME NEW i \in 1..m, e = <<firsts[i].seq, Len(firsts[i].bytes)>> PROVE FALSE
      BY DEF EntriesOf
    <3>1. firsts[i].seq = mid + i - 1
      BY <1>2, <1>5, <1>6
    <3>2. mid + i - 1 = mid + n - 1
      BY <2>3, <3>1
    <3> QED
      BY <1>1, <3>2
  <2>6. IsFiniteSet({e}) /\ EntryBytes({e}) = l
    BY <2>3, UnitsOne
  <2>7. EntryBytes(EntriesOf(firsts, 1..m) \cup {e}) = EntryBytes(EntriesOf(firsts, 1..m)) + EntryBytes({e})
    <3>1. {e} \in SUBSET Entry /\ EntriesOf(firsts, 1..m) \cap {e} = {}
      BY <2>3, <2>5
    <3> QED
      BY <1>6, <2>6, <3>1, UnitsJoin
  <2>8. Bytes(frames) = Bytes(firsts) + l
    BY <1>5, <1>6, <2>4, <2>6, <2>7, Zenon
  <2> QED
    BY <1>1, <1>3, <1>4, <1>6, <1>7, <1>8, <2>8, Zenon
<1> QED
  BY <1>9, <1>10

\* pullSendable, with what it counts.
LEMMA PulledCounts ==
    ASSUME NEW codec \in CodecType, NEW mid \in Nat, Numbered(codec.outbound, mid)
    PROVE  \E n \in 0..Len(codec.outbound), c \in CodecType, frames \in Seq(DataFrame) :
             /\ n = Sendable(codec)
             /\ PullSendable(codec).codec = c /\ PullSendable(codec).frames = frames
             /\ frames = SubSeq(codec.outbound, 1, n)
             /\ c.outbound = SubSeq(codec.outbound, n + 1, Len(codec.outbound))
             /\ c.txSeq = codec.txSeq
             /\ c.unacked = codec.unacked + Bytes(frames)
             /\ c.unackedBySeq = codec.unackedBySeq \cup EntriesOf(frames, 1..n)
             /\ FirstFrames(codec.outbound, mid, n, frames)
<1>1. PICK n \in 0..Len(codec.outbound) : n = Sendable(codec)
  BY SendableBound
<1>2. PICK q \in Seq(DataFrame) : q = codec.outbound
  BY DEF CodecType
<1>3. n \in Nat /\ n <= Len(q)
  BY <1>2
<1>4. PICK rest \in Seq(DataFrame) : rest = SubSeq(q, n + 1, Len(q))
  BY <1>3, PartFacts
<1>5. PICK frames : frames = SubSeq(q, 1, n)
  OBVIOUS
<1>6. FirstFrames(q, mid, n, frames)
  BY <1>2, <1>3, <1>5, QueueEntries
<1>7. frames \in Seq(DataFrame) /\ EntriesOf(frames, 1..n) \in SUBSET (Nat \X Nat)
  BY <1>6 DEF FirstFrames, Entry
<1>8. PICK held \in SUBSET (Nat \X Nat) : held = codec.unackedBySeq \cup EntriesOf(frames, 1..n)
  BY <1>7 DEF CodecType
<1>9. PICK u \in Nat : u = codec.unacked + Bytes(frames)
  BY <1>7, BytesNat DEF CodecType
<1>10. PICK c : c = [codec EXCEPT !.outbound = rest, !.unacked = u, !.unackedBySeq = held]
  OBVIOUS
<1>11. /\ c \in CodecType /\ c.outbound = rest /\ c.txSeq = codec.txSeq
       /\ c.unacked = u /\ c.unackedBySeq = held
  BY <1>10 DEF CodecType
<1>12. PullSendable(codec) = [frames |-> frames, codec |-> c]
  BY <1>1, <1>2, <1>4, <1>5, <1>8, <1>9, <1>10, Zenon DEF PullSendable, EntriesOf
<1>13. PullSendable(codec).codec = c /\ PullSendable(codec).frames = frames
  BY <1>12
<1> QED
  BY <1>1, <1>2, <1>4, <1>5, <1>6, <1>7, <1>8, <1>9, <1>11, <1>13

\* Frames that are sent take credit, and never more than there is.
LEMMA CreditPulled ==
    ASSUME NEW codec \in CodecType, NEW mid \in Nat, Numbered(codec.outbound, mid),
           SmallChunks(codec.outbound), NEW D \in SUBSET DataFrame, \A f \in D : f.seq < mid,
           NEW A \in SUBSET AckFrame,
           CreditOf(codec.unacked, codec.unackedBySeq, mid, D, A),
           NEW n \in 0..Len(codec.outbound), NEW frames, n = Sendable(codec),
           frames = SubSeq(codec.outbound, 1, n), FirstFrames(codec.outbound, mid, n, frames)
    PROVE  CreditOf(codec.unacked + Bytes(frames), codec.unackedBySeq \cup EntriesOf(frames, 1..n),
                    mid + n, D \cup Range(frames), A)
<1>1. PICK u \in Nat, held \in SUBSET Entry, queue \in Seq(DataFrame) :
          u = codec.unacked /\ held = codec.unackedBySeq /\ queue = codec.outbound
  BY DEF CodecType, Entry
<1>2. CreditOf(u, held, mid, D, A) /\ IsFiniteSet(held) /\ u = EntryBytes(held)
  BY <1>1 DEF CreditOf
<1>3. PICK new \in SUBSET Entry : new = EntriesOf(frames, 1..n) /\ IsFiniteSet(new) /\ Bytes(frames) = EntryBytes(new)
  BY DEF FirstFrames
<1>4. /\ n \in Nat /\ n <= Len(queue) /\ Len(queue) \in Nat /\ DOMAIN frames = 1..n
      /\ \A i \in 1..n : /\ frames[i] \in DataFrame /\ frames[i] = queue[i]
                          /\ frames[i].seq = mid + i - 1
  BY <1>1 DEF FirstFrames
<1>5. \A i \in 1..n : frames[i].seq \in Nat /\ mid <= frames[i].seq /\ frames[i].seq < mid + n
  BY <1>4
<1>6. ASSUME NEW e \in new
      PROVE  \E i \in 1..n : frames[i].bytes # <<>> /\ e = <<frames[i].seq, Len(frames[i].bytes)>> /\ e[1] = frames[i].seq
  <2>0. e \in EntriesOf(frames, 1..n)
    BY <1>3
  <2>1. PICK i \in 1..n : frames[i].bytes # <<>> /\ e = <<frames[i].seq, Len(frames[i].bytes)>>
    BY <2>0 DEF EntriesOf
  <2>2. e[1] = frames[i].seq
    BY <2>1
  <2> QED
    BY <2>1, <2>2
<1>7. \A e \in new : e[1] \in Nat /\ mid <= e[1] /\ e[1] < mid + n
  BY <1>5, <1>6
<1>8. \A e \in held : e[1] \in Nat /\ e[1] < mid /\ e[1] < mid + n
  <2>1. \A e \in held : e[1] \in Nat /\ e[1] < mid
    BY <1>2 DEF CreditOf, Entry
  <2> QED
    BY <1>4, <2>1
<1>9. held \cap new = {}
  BY <1>7, <1>8
<1>10. /\ EntryBytes(held \cup new) = EntryBytes(held) + EntryBytes(new)
       /\ EntryBytes(held) \in Nat /\ EntryBytes(new) \in Nat /\ IsFiniteSet(held \cup new)
  BY <1>2, <1>3, <1>9, UnitsJoin
<1>11. \A a \in A : a.seq \in Nat /\ a.seq < mid
  BY <1>2 DEF CreditOf, AckFrame
<1>12. \A f \in D \cup Range(frames) : f \in D \/ \E i \in 1..n : f = frames[i]
  BY <1>4 DEF Range
<1>13. \A a \in A : a.seq < mid + n /\ \A f \in D \cup Range(frames) : a.seq < f.seq
  <2> SUFFICES ASSUME NEW a \in A PROVE a.seq < mid + n /\ \A f \in D \cup Range(frames) : a.seq < f.seq
    OBVIOUS
  <2>1. \A f \in D : a.seq < f.seq
    BY <1>2 DEF CreditOf
  <2>2. \A i \in 1..n : a.seq < frames[i].seq
    BY <1>5, <1>11
  <2>3. a.seq < mid + n
    BY <1>4, <1>11
  <2> QED
    BY <1>12, <2>1, <2>2, <2>3
<1>14. \A e, d \in held \cup new : e[1] = d[1] => e = d
  <2>1. \A e, d \in held : e[1] = d[1] => e = d
    BY <1>2 DEF CreditOf
  <2>2. ASSUME NEW e \in new, NEW d \in new, e[1] = d[1] PROVE e = d
    <3>1. PICK i \in 1..n : e = <<frames[i].seq, Len(frames[i].bytes)>> /\ e[1] = frames[i].seq
      BY <1>6
    <3>2. PICK j \in 1..n : d = <<frames[j].seq, Len(frames[j].bytes)>> /\ d[1] = frames[j].seq
      BY <1>6
    <3>3. mid + i - 1 = mid + j - 1
      BY <1>4, <2>2, <3>1, <3>2
    <3>4. i = j
      BY <1>4, <3>3
    <3> QED
      BY <3>1, <3>2, <3>4
  <2>3. ASSUME NEW e \in held, NEW d \in new PROVE e[1] # d[1]
    BY <1>7, <1>8
  <2> QED
    BY <2>1, <2>2, <2>3
<1>15. \A f \in D \cup Range(frames) : f.bytes # <<>> => <<f.seq, Len(f.bytes)>> \in held \cup new
  <2>1. \A f \in D : f.bytes # <<>> => <<f.seq, Len(f.bytes)>> \in held
    BY <1>2 DEF CreditOf
  <2>2. \A i \in 1..n : frames[i].bytes # <<>> => <<frames[i].seq, Len(frames[i].bytes)>> \in new
    BY <1>3, EntryIn
  <2> QED
    BY <1>12, <2>1, <2>2
<1>16. \A e \in held \cup new : \/ \E f \in D \cup Range(frames) : f.bytes # <<>> /\ f.seq = e[1]
                                \/ \E a \in A : a.seq = e[1]
  <2>1. \A e \in held : \/ \E f \in D : f.bytes # <<>> /\ f.seq = e[1]
                        \/ \E a \in A : a.seq = e[1]
    BY <1>2 DEF CreditOf
  <2>2. \A i \in 1..n : frames[i] \in Range(frames)
    BY <1>4 DEF Range
  <2>3. ASSUME NEW e \in new PROVE \E f \in Range(frames) : f.bytes # <<>> /\ f.seq = e[1]
    BY <1>6, <2>2
  <2> QED
    BY <2>1, <2>3
<1>17. PICK w \in Nat : w = u + Bytes(frames) /\ w = EntryBytes(held \cup new)
  BY <1>2, <1>3, <1>10
<1>18. PICK max \in Nat : max = Max({WindowBytes, ChunkBytes}) /\ WindowBytes <= max /\ ChunkBytes <= max
  BY StreamBounds, MaxOfTwo
<1>19. w <= max
  <2>1. CASE n = 0
    <3>1. new = {}
      <4>1. 1..n = {}
        BY <2>1
      <4> QED
        BY <1>6, <4>1
    <3>2. held \cup new = held
      BY <3>1
    <3>3. w = u
      BY <1>2, <1>17, <3>2
    <3> QED
      BY <1>2, <1>18, <3>3 DEF CreditOf
  <2>2. CASE n > 0
    <3>0. Numbered(queue, mid)
      BY <1>1
    <3>1. /\ Bytes(SubSeq(queue, 1, n)) = Bytes(SubSeq(queue, 1, n - 1)) + Len(queue[n].bytes)
          /\ Bytes(SubSeq(queue, 1, n - 1)) \in Nat /\ Len(queue[n].bytes) \in Nat
      BY <1>4, <2>2, <3>0, LastBytes
    <3>2. PICK k, l \in Nat : k = Bytes(SubSeq(queue, 1, n - 1)) /\ l = Len(queue[n].bytes)
      BY <3>1
    <3>3. w = u + k + l
      <4>1. Bytes(frames) = k + l
        BY <1>1, <3>1, <3>2, Zenon
      <4>2. w = u + (k + l)
        BY <1>17, <4>1
      <4> QED
        BY <4>2
    <3>4. u + k = 0 \/ u + k + l <= WindowBytes
      <4>1. PICK b : b = codec.unacked + Bytes(SubSeq(codec.outbound, 1, n - 1))
        OBVIOUS
      <4>2. b = 0 \/ b + Len(codec.outbound[n].bytes) <= WindowBytes
        BY <1>4, <2>2, <4>1, SendableFits
      <4> QED
        BY <1>1, <3>2, <4>1, <4>2, Zenon
    <3>5. l <= ChunkBytes
      <4>1. n \in 1..Len(queue)
        BY <1>4, <2>2
      <4> QED
        BY <1>1, <3>2, <4>1 DEF SmallChunks
    <3> QED
      BY <1>18, <3>3, <3>4, <3>5, StreamBounds
  <2> QED
    BY <1>4, <2>1, <2>2
<1>20. \A e \in held \cup new : e[1] < mid + n
  BY <1>7, <1>8
<1>21. CreditOf(w, held \cup new, mid + n, D \cup Range(frames), A)
  BY <1>10, <1>13, <1>14, <1>15, <1>16, <1>17, <1>18, <1>19, <1>20 DEF CreditOf
<1> QED
  BY <1>1, <1>3, <1>17, <1>21

----------------------------------------------------------------------------
(* Frames under way. *)

LEMMA OnJoined ==
    ASSUME NEW a \in Seq(Frame), NEW b \in Seq(Frame)
    PROVE  /\ DataOn(a \o b) = DataOn(a) \cup DataOn(b)
           /\ AcksOn(a \o b) = AcksOn(a) \cup AcksOn(b)
<1>1. Range(a \o b) = Range(a) \cup Range(b)
  BY RangeConcatenation
<1> QED
  BY <1>1 DEF DataOn, AcksOn

LEMMA OnRange ==
    ASSUME NEW a \in Seq(Frame)
    PROVE  /\ \A f : f \in Range(a) <=> \E i \in 1..Len(a) : f = a[i]
           /\ Range(a) \in SUBSET Frame
           /\ DataOn(a) \in SUBSET DataFrame /\ AcksOn(a) \in SUBSET AckFrame
<1>1. Range(a) = {a[i] : i \in 1..Len(a)}
  BY RangeEquality
<1>2. \A i \in 1..Len(a) : a[i] \in Frame
  OBVIOUS
<1>3. \A f \in Frame : /\ f.type = "ws.data" => f \in DataFrame
                       /\ f.type = "ws.data.ack" => f \in AckFrame
  BY DEF Frame, DataFrame, AckFrame
<1> QED
  BY <1>1, <1>2, <1>3 DEF DataOn, AcksOn

\* Data frames only.
LEMMA OnlyData ==
    ASSUME NEW frames \in Seq(DataFrame)
    PROVE  frames \in Seq(Frame) /\ DataOn(frames) = Range(frames) /\ AcksOn(frames) = {}
<1>1. frames \in Seq(Frame)
  BY FrameKinds
<1>2. \A f \in Range(frames) : f \in DataFrame
  BY RangeOfSeq
<1>3. \A f \in DataFrame : f.type = "ws.data"
  BY DEF DataFrame
<1> QED
  BY <1>1, <1>2, <1>3 DEF DataOn, AcksOn

\* Frames without data, and without acks.
LEMMA NoneOn ==
    ASSUME NEW a \in Seq(Frame)
    PROVE  /\ (\A i \in 1..Len(a) : a[i].type # "ws.data") => DataOn(a) = {}
           /\ (\A i \in 1..Len(a) : a[i].type # "ws.data.ack") => AcksOn(a) = {}
BY OnRange DEF DataOn, AcksOn

LEMMA OnRead ==
    ASSUME NEW a \in Seq(Frame), a # <<>>
    PROVE  /\ Tail(a) \in Seq(Frame)
           /\ DataOn(a) = (IF Head(a).type = "ws.data" THEN {Head(a)} ELSE {}) \cup DataOn(Tail(a))
           /\ AcksOn(a) = (IF Head(a).type = "ws.data.ack" THEN {Head(a)} ELSE {}) \cup AcksOn(Tail(a))
<1>1. PICK h \in Frame, t \in Seq(Frame) : h = Head(a) /\ t = Tail(a)
  BY TailFacts
<1>2. a = <<h>> \o t /\ <<h>> \in Seq(Frame)
  BY <1>1
<1>3. Range(a) = Range(<<h>>) \cup Range(t)
  <2>1. PICK b \in Seq(Frame) : b = <<h>>
    BY <1>2
  <2>2. Range(b \o t) = Range(b) \cup Range(t)
    BY RangeConcatenation
  <2> QED
    BY <1>2, <2>1, <2>2, Zenon
<1>4. Range(<<h>>) = {h}
  BY DEF Range
<1> QED
  BY <1>1, <1>3, <1>4 DEF DataOn, AcksOn

\* Frames that are no acks leave each frame acknowledged once.
LEMMA OnceGrows ==
    ASSUME NEW back \in Seq(Frame), NEW more \in Seq(Frame), AckedOnce(back), AcksOn(more) = {}
    PROVE  AckedOnce(back \o more)
<1>1. PICK w \in Seq(Frame) : w = back \o more
  BY ConcatFacts
<1>2. PICK l, m \in Nat : l = Len(back) /\ m = Len(more)
  BY ConcatFacts
<1>3. /\ Len(w) = l + m
      /\ \A i \in 1..l : w[i] = back[i]
      /\ \A i \in 1..m : w[l + i] = more[i]
  BY <1>1, <1>2, ConcatFacts
<1>4. \A i \in 1..m : more[i].type # "ws.data.ack"
  BY <1>2, OnRange DEF AcksOn
<1>5. \A i \in 1..(l + m) : w[i].type = "ws.data.ack" => i \in 1..l
  <2> SUFFICES ASSUME NEW i \in 1..(l + m), i \notin 1..l PROVE w[i].type # "ws.data.ack"
    OBVIOUS
  <2>1. PICK j \in 1..m : i = l + j
    <3>1. i - l \in 1..m /\ i = l + (i - l)
      BY <1>2
    <3> QED
      BY <3>1
  <2> QED
    BY <1>3, <1>4, <2>1
<1>6. \A i, j \in 1..l : i # j /\ back[i].type = "ws.data.ack" /\ back[j].type = "ws.data.ack"
                         => back[i].seq # back[j].seq
  BY <1>2 DEF AckedOnce
<1>7. AckedOnce(w)
  <2> SUFFICES ASSUME NEW i \in 1..(l + m), NEW j \in 1..(l + m), i # j,
                      w[i].type = "ws.data.ack", w[j].type = "ws.data.ack"
               PROVE  w[i].seq # w[j].seq
    BY <1>3 DEF AckedOnce
  <2>1. i \in 1..l /\ j \in 1..l
    BY <1>5
  <2>2. w[i] = back[i] /\ w[j] = back[j]
    BY <1>3, <2>1
  <2> QED
    BY <1>6, <2>1, <2>2
<1> QED
  BY <1>1, <1>7

\* Neither does reading a frame, and an ack that is read was the only one of its frame.
LEMMA OnceRead ==
    ASSUME NEW back \in Seq(Frame), back # <<>>, AckedOnce(back)
    PROVE  /\ AckedOnce(Tail(back))
           /\ Head(back).type = "ws.data.ack" => \A g \in AcksOn(Tail(back)) : g.seq # Head(back).seq
<1>1. PICK w \in Seq(Frame) : w = Tail(back)
  BY TailFacts
<1>2. PICK l \in Nat : l = Len(back) /\ l >= 1
  BY TailFacts
<1>3. /\ Len(w) = l - 1 /\ \A i \in 1..(l - 1) : w[i] = back[i + 1]
      /\ Head(back) = back[1]
  BY <1>1, <1>2, TailFacts
<1>4. \A i \in 1..(l - 1) : i + 1 \in 1..l /\ i + 1 # 1
  BY <1>2
<1>5. AckedOnce(w)
  <2> SUFFICES ASSUME NEW i \in 1..(l - 1), NEW j \in 1..(l - 1), i # j,
                      w[i].type = "ws.data.ack", w[j].type = "ws.data.ack"
               PROVE  w[i].seq # w[j].seq
    BY <1>3 DEF AckedOnce
  <2>1. PICK k \in 1..l, n \in 1..l : k = i + 1 /\ n = j + 1 /\ k # n
    BY <1>4
  <2>2. w[i] = back[k] /\ w[j] = back[n]
    BY <1>3, <2>1
  <2> QED
    BY <1>2, <2>1, <2>2 DEF AckedOnce
<1>6. ASSUME Head(back).type = "ws.data.ack", NEW g \in AcksOn(w) PROVE g.seq # Head(back).seq
  <2>1. g.type = "ws.data.ack" /\ g \in Range(w)
    BY DEF AcksOn
  <2>a. \E i \in 1..Len(w) : g = w[i]
    BY <2>1, OnRange
  <2>2. PICK i \in 1..(l - 1) : g = w[i]
    BY <1>3, <2>a
  <2>3. PICK k \in 1..l : k = i + 1 /\ k # 1
    BY <1>4
  <2>4. g = back[k] /\ 1 \in 1..l
    BY <1>2, <1>3, <2>2, <2>3
  <2> QED
    BY <1>2, <1>3, <1>6, <2>1, <2>3, <2>4 DEF AckedOnce
<1> QED
  BY <1>1, <1>5, <1>6

\* The ack of a frame that has none.
LEMMA OnceMore ==
    ASSUME NEW back \in Seq(Frame), AckedOnce(back), NEW x \in AckFrame,
           \A a \in AcksOn(back) : a.seq # x.seq
    PROVE  AckedOnce(Append(back, x)) /\ AcksOn(Append(back, x)) = AcksOn(back) \cup {x}
           /\ Append(back, x) \in Seq(Frame)
<1>1. x \in Frame /\ x.type = "ws.data.ack"
  BY DEF Frame, AckFrame
<1>2. PICK w \in Seq(Frame) : w = Append(back, x)
  BY <1>1, AppendProperties
<1>3. PICK l \in Nat : l = Len(back)
  OBVIOUS
<1>4. Len(w) = l + 1 /\ w[l + 1] = x /\ \A i \in 1..l : w[i] = back[i]
  BY <1>1, <1>2, <1>3, AppendProperties
<1>5. \A i \in 1..(l + 1) : i \in 1..l \/ i = l + 1
  OBVIOUS
<1>6. \A i \in 1..l : back[i].type = "ws.data.ack" => back[i].seq # x.seq
  <2> SUFFICES ASSUME NEW i \in 1..l, back[i].type = "ws.data.ack" PROVE back[i].seq # x.seq
    OBVIOUS
  <2>1. back[i] \in Range(back)
    BY <1>3, OnRange
  <2> QED
    BY <2>1 DEF AcksOn
<1>7. AckedOnce(w)
  <2>1. \A i, j \in 1..l : i # j /\ back[i].type = "ws.data.ack" /\ back[j].type = "ws.data.ack"
                           => back[i].seq # back[j].seq
    BY <1>3 DEF AckedOnce
  <2> SUFFICES ASSUME NEW i \in 1..(l + 1), NEW j \in 1..(l + 1), i # j,
                      w[i].type = "ws.data.ack", w[j].type = "ws.data.ack"
               PROVE  w[i].seq # w[j].seq
    BY <1>4 DEF AckedOnce
  <2>2. CASE i \in 1..l /\ j \in 1..l
    BY <1>4, <2>1, <2>2
  <2>3. CASE i \in 1..l /\ j = l + 1
    BY <1>4, <1>6, <2>3
  <2>4. CASE i = l + 1 /\ j \in 1..l
    BY <1>4, <1>6, <2>4
  <2> QED
    BY <1>5, <2>2, <2>3, <2>4
<1>8. AcksOn(w) = AcksOn(back) \cup {x}
  <2>1. w = back \o <<x>> /\ <<x>> \in Seq(Frame)
    BY <1>1, <1>2, AppendOne
  <2>2. AcksOn(w) = AcksOn(back) \cup AcksOn(<<x>>)
    BY <2>1, OnJoined
  <2>3. Range(<<x>>) = {x}
    BY DEF Range
  <2>4. AcksOn(<<x>>) = {x}
    BY <1>1, <2>3 DEF AcksOn
  <2> QED
    BY <2>2, <2>4
<1> QED
  BY <1>2, <1>7, <1>8

----------------------------------------------------------------------------
(* The steps of a stream. *)

\* The frames on the connection come in the order of their numbers, up to mid;
\* those in the queue are numbered from there.
Shape(codec, wire, mid) ==
    /\ codec.txSeq = mid + Len(codec.outbound) /\ NextOut(codec) = mid
    /\ Numbered(codec.outbound, mid)
    /\ \A f \in DataOn(wire) : f.seq < mid
    /\ \A i, j \in 1..Len(wire) :
         i < j /\ wire[i].type = "ws.data" /\ wire[j].type = "ws.data" => wire[i].seq < wire[j].seq

LEMMA WireShape ==
    ASSUME NEW codec \in CodecType, NEW wire \in Seq(Frame), NEW inbound, NEW sent, NEW got,
           Carried(codec.txSeq, codec.outbound, wire, inbound, sent, got)
    PROVE  \E mid \in Nat : Shape(codec, wire, mid)
<1>1. PICK lo, mid \in Nat, msg, at \in [Nat -> Nat] :
          CarriedBy(codec.txSeq, codec.outbound, wire, inbound, sent, got, lo, mid, msg, at)
  BY DEF Carried
<1>2. PICK k \in Nat : k = Len(codec.outbound)
  BY DEF CodecType
<1>3. codec.txSeq = mid + k
  BY <1>1, <1>2 DEF CarriedBy
<1>4. NextOut(codec) = mid
  <2>1. (mid + k) - k = mid
    OBVIOUS
  <2> QED
    BY <1>2, <1>3, <2>1 DEF NextOut
<1>5. Numbered(codec.outbound, mid)
  BY <1>1 DEF CarriedBy, Queued, IsChunk, Numbered
<1>6. OnWire(wire, lo, mid, sent, msg, at)
  BY <1>1 DEF CarriedBy
<1>7. \A f \in DataOn(wire) : f.seq < mid
  <2> SUFFICES ASSUME NEW f \in DataOn(wire) PROVE f.seq < mid
    OBVIOUS
  <2>1. f \in Range(wire) /\ f.type = "ws.data"
    BY DEF DataOn
  <2>2. PICK i \in 1..Len(wire) : f = wire[i]
    BY <2>1, OnRange
  <2> QED
    BY <1>6, <2>1, <2>2 DEF OnWire
<1> QED
  BY <1>2, <1>3, <1>4, <1>5, <1>6, <1>7 DEF Shape, OnWire

\* The frame at the head of the connection has the least number.
LEMMA HeadIsLeast ==
    ASSUME NEW codec, NEW wire \in Seq(Frame), wire # <<>>, NEW mid \in Nat, Shape(codec, wire, mid),
           Head(wire).type = "ws.data"
    PROVE  \A g \in DataOn(Tail(wire)) : Head(wire).seq < g.seq
<1>1. PICK w \in Seq(Frame) : w = Tail(wire)
  BY TailFacts
<1>2. PICK l \in Nat : l = Len(wire) /\ l >= 1
  BY TailFacts
<1>3. /\ Len(w) = l - 1 /\ \A i \in 1..(l - 1) : w[i] = wire[i + 1]
      /\ Head(wire) = wire[1]
  BY <1>1, <1>2, TailFacts
<1> SUFFICES ASSUME NEW g \in DataOn(w) PROVE Head(wire).seq < g.seq
  BY <1>1
<1>4. g.type = "ws.data" /\ g \in Range(w)
  BY DEF DataOn
<1>5. \E i \in 1..Len(w) : g = w[i]
  BY <1>4, OnRange
<1>6. PICK i \in 1..(l - 1) : g = w[i]
  BY <1>3, <1>5
<1>7. PICK k \in 1..l : k = i + 1 /\ 1 < k /\ 1 \in 1..l
  BY <1>2
<1>8. g = wire[k]
  BY <1>3, <1>6, <1>7
<1> QED
  BY <1>2, <1>3, <1>4, <1>7, <1>8 DEF Shape

\* What a codec counts depends on four of its fields.
LEMMA SameCredit ==
    ASSUME NEW codec, NEW c, NEW wire, NEW back, Credit(codec, wire, back),
           c.txSeq = codec.txSeq, c.outbound = codec.outbound,
           c.unacked = codec.unacked, c.unackedBySeq = codec.unackedBySeq
    PROVE  Credit(c, wire, back)
BY DEF Credit, NextOut

\* Frames that are neither data of this direction nor acks of it come and go.
LEMMA CreditStays ==
    ASSUME NEW codec, NEW wire \in Seq(Frame), NEW back \in Seq(Frame), Credit(codec, wire, back),
           NEW more \in Seq(Frame)
    PROVE  /\ DataOn(more) = {} => Credit(codec, wire \o more, back)
           /\ AcksOn(more) = {} => Credit(codec, wire, back \o more)
           /\ wire # <<>> /\ Head(wire).type # "ws.data" => Credit(codec, Tail(wire), back)
           /\ back # <<>> /\ Head(back).type # "ws.data.ack" => Credit(codec, wire, Tail(back))
<1>1. ASSUME DataOn(more) = {} PROVE Credit(codec, wire \o more, back)
  <2>a. DataOn(wire \o more) = DataOn(wire) \cup DataOn(more)
    BY OnJoined
  <2>1. DataOn(wire \o more) = DataOn(wire)
    BY <1>1, <2>a
  <2> QED
    BY <2>1 DEF Credit
<1>2. ASSUME AcksOn(more) = {} PROVE Credit(codec, wire, back \o more)
  <2>a. AcksOn(back \o more) = AcksOn(back) \cup AcksOn(more)
    BY OnJoined
  <2>1. AcksOn(back \o more) = AcksOn(back)
    BY <1>2, <2>a
  <2>2. AckedOnce(back \o more)
    BY <1>2, OnceGrows DEF Credit
  <2> QED
    BY <2>1, <2>2 DEF Credit
<1>3. ASSUME wire # <<>>, Head(wire).type # "ws.data" PROVE Credit(codec, Tail(wire), back)
  <2>1. DataOn(Tail(wire)) = DataOn(wire)
    BY <1>3, OnRead
  <2> QED
    BY <2>1 DEF Credit
<1>4. ASSUME back # <<>>, Head(back).type # "ws.data.ack" PROVE Credit(codec, wire, Tail(back))
  <2>1. AcksOn(Tail(back)) = AcksOn(back)
    BY <1>4, OnRead
  <2>2. AckedOnce(Tail(back))
    BY <1>4, OnceRead DEF Credit
  <2> QED
    BY <2>1, <2>2 DEF Credit
<1> QED
  BY <1>1, <1>2, <1>3, <1>4

\* The relay reads a data frame and answers with its ack.
LEMMA CreditReadAck ==
    ASSUME NEW codec \in CodecType, NEW wire \in Seq(Frame), NEW back \in Seq(Frame),
           Credit(codec, wire, back), wire # <<>>, NEW f \in DataFrame, f = Head(wire),
           NEW mid \in Nat, Shape(codec, wire, mid)
    PROVE  Credit(codec, Tail(wire), Append(back, Ack(f)))
<1>1. f.type = "ws.data" /\ f.seq \in Nat /\ Ack(f) \in AckFrame /\ Ack(f).seq = f.seq
  BY DEF DataFrame, AckFrame, Ack
<1>2. PICK t \in Seq(Frame) : t = Tail(wire)
  BY TailFacts
<1>3. DataOn(wire) = {f} \cup DataOn(t)
  BY <1>1, <1>2, OnRead
<1>4. /\ CreditOf(codec.unacked, codec.unackedBySeq, mid, DataOn(wire), AcksOn(back))
      /\ AckedOnce(back) /\ f.seq < mid /\ NextOut(codec) = mid
  BY <1>3 DEF Credit, Shape
<1>5. \A g \in DataOn(t) : f.seq < g.seq
  BY <1>1, <1>2, HeadIsLeast
<1>6. DataOn(wire) \in SUBSET DataFrame
  BY OnRange
<1>7. CreditOf(codec.unacked, codec.unackedBySeq, mid, DataOn(t), AcksOn(back) \cup {Ack(f)})
  BY <1>3, <1>4, <1>5, <1>6, CreditRead
<1>8. \A a \in AcksOn(back) : a.seq # Ack(f).seq
  <2> SUFFICES ASSUME NEW a \in AcksOn(back) PROVE a.seq # f.seq
    BY <1>1
  <2>1. a.seq < f.seq
    BY <1>3, <1>4 DEF CreditOf
  <2>2. PICK p, q \in Nat : p = a.seq /\ q = f.seq
    <3>1. a \in AckFrame
      BY OnRange
    <3> QED
      BY <1>1, <3>1 DEF AckFrame
  <2>3. p # q
    BY <2>1, <2>2
  <2> QED
    BY <2>2, <2>3
<1>9. AckedOnce(Append(back, Ack(f))) /\ AcksOn(Append(back, Ack(f))) = AcksOn(back) \cup {Ack(f)}
  BY <1>1, <1>4, <1>8, OnceMore
<1> QED
  BY <1>2, <1>4, <1>7, <1>9 DEF Credit

\* The mux reads an ack.
LEMMA CreditAckRead ==
    ASSUME NEW codec \in CodecType, NEW wire \in Seq(Frame), NEW back \in Seq(Frame),
           Credit(codec, wire, back), back # <<>>, NEW f \in AckFrame, f = Head(back),
           NEW mid \in Nat, Shape(codec, wire, mid)
    PROVE  \E c \in CodecType :
             /\ OnAck(codec, f.seq) = c /\ c.txSeq = codec.txSeq
             /\ c.outbound = codec.outbound /\ c.inbound = codec.inbound
             /\ Credit(c, wire, Tail(back)) /\ Shape(c, wire, mid)
<1>1. f.type = "ws.data.ack" /\ f.seq \in Nat
  BY DEF AckFrame
<1>2. PICK t \in Seq(Frame) : t = Tail(back)
  BY TailFacts
<1>3. AcksOn(back) = {f} \cup AcksOn(t)
  BY <1>1, <1>2, OnRead
<1>4. /\ CreditOf(codec.unacked, codec.unackedBySeq, mid, DataOn(wire), AcksOn(back))
      /\ AckedOnce(back) /\ NextOut(codec) = mid
  BY DEF Credit, Shape
<1>5. AckedOnce(t) /\ \A g \in AcksOn(t) : g.seq # f.seq
  BY <1>1, <1>2, <1>4, OnceRead
<1>6. DataOn(wire) \in SUBSET DataFrame
  BY OnRange
<1>7. PICK c \in CodecType :
             /\ OnAck(codec, f.seq) = c /\ c.txSeq = codec.txSeq
             /\ c.outbound = codec.outbound /\ c.inbound = codec.inbound
             /\ CreditOf(c.unacked, c.unackedBySeq, mid, DataOn(wire), AcksOn(t))
  <2>1. PICK D, A, B : D = DataOn(wire) /\ A = AcksOn(back) /\ B = AcksOn(t)
    OBVIOUS
  <2>2. /\ D \in SUBSET DataFrame /\ OtherAcks(f, A, B)
        /\ CreditOf(codec.unacked, codec.unackedBySeq, mid, D, A)
    BY <1>3, <1>4, <1>5, <1>6, <2>1 DEF OtherAcks
  <2>3. AckTaken(codec, f.seq, mid, D, B)
    BY <2>2, CreditAcked
  <2> QED
    BY <2>1, <2>3, Zenon DEF AckTaken
<1>8. NextOut(c) = mid
  BY <1>4, <1>7 DEF NextOut
<1>9. Credit(c, wire, t)
  BY <1>5, <1>7, <1>8 DEF Credit
<1>10. Shape(c, wire, mid)
  BY <1>7, <1>8 DEF Shape
<1> QED
  BY <1>2, <1>7, <1>9, <1>10

\* The rest of a queue of small chunks, and the chunks of a message.
LEMMA SmallRest ==
    ASSUME NEW queue \in Seq(DataFrame), SmallChunks(queue), NEW n \in 0..Len(queue)
    PROVE  SmallChunks(SubSeq(queue, n + 1, Len(queue)))
<1>1. PICK k \in Nat : k = Len(queue)
  OBVIOUS
<1>2. n \in Nat /\ n <= Len(queue) /\ n <= k
  BY <1>1
<1>3. PICK rest : rest = SubSeq(queue, n + 1, Len(queue))
  OBVIOUS
<1>4. Len(rest) = k - n /\ \A i \in 1..(k - n) : rest[i] = queue[n + i]
  BY <1>1, <1>2, <1>3, PartFacts
<1>5. \A i \in 1..(k - n) : n + i \in 1..k
  BY <1>2
<1>6. SmallChunks(rest)
  BY <1>1, <1>4, <1>5 DEF SmallChunks
<1> QED
  BY <1>3, <1>6

\* What the mux sends leaves the queue for the connection, with its credit.
LEMMA CreditFlushed ==
    ASSUME NEW codec \in CodecType, NEW wire \in Seq(Frame), NEW back \in Seq(Frame),
           Credit(codec, wire, back), SmallChunks(codec.outbound),
           NEW mid \in Nat, Shape(codec, wire, mid)
    PROVE  Credit(PullSendable(codec).codec, wire \o PullSendable(codec).frames, back)
<1>1. PICK n \in 0..Len(codec.outbound), c \in CodecType, frames \in Seq(DataFrame) :
             /\ n = Sendable(codec)
             /\ PullSendable(codec).codec = c /\ PullSendable(codec).frames = frames
             /\ frames = SubSeq(codec.outbound, 1, n)
             /\ c.outbound = SubSeq(codec.outbound, n + 1, Len(codec.outbound))
             /\ c.txSeq = codec.txSeq
             /\ c.unacked = codec.unacked + Bytes(frames)
             /\ c.unackedBySeq = codec.unackedBySeq \cup EntriesOf(frames, 1..n)
             /\ FirstFrames(codec.outbound, mid, n, frames)
  BY PulledCounts DEF Shape
<1>2. /\ CreditOf(codec.unacked, codec.unackedBySeq, mid, DataOn(wire), AcksOn(back))
      /\ AckedOnce(back) /\ Numbered(codec.outbound, mid) /\ \A f \in DataOn(wire) : f.seq < mid
      /\ codec.txSeq = mid + Len(codec.outbound)
  BY DEF Credit, Shape
<1>3. DataOn(wire) \in SUBSET DataFrame /\ AcksOn(back) \in SUBSET AckFrame
  BY OnRange
<1>4. CreditOf(codec.unacked + Bytes(frames), codec.unackedBySeq \cup EntriesOf(frames, 1..n),
               mid + n, DataOn(wire) \cup Range(frames), AcksOn(back))
  BY <1>1, <1>2, <1>3, CreditPulled
<1>5. DataOn(wire \o frames) = DataOn(wire) \cup Range(frames)
  BY OnlyData, OnJoined
<1>6. NextOut(c) = mid + n
  <2>1. PICK k \in Nat, queue \in Seq(DataFrame) : queue = codec.outbound /\ k = Len(queue)
    BY DEF CodecType
  <2>2. n \in Nat /\ n <= k
    BY <2>1
  <2>3. Len(SubSeq(queue, n + 1, Len(queue))) = k - n
    BY <2>1, <2>2, PartFacts
  <2>4. (mid + k) - (k - n) = mid + n
    BY <2>2
  <2>5. Len(c.outbound) = k - n
    BY <1>1, <2>1, <2>3, Zenon
  <2>6. c.txSeq = mid + k
    BY <1>1, <1>2, <2>1, Zenon
  <2> QED
    BY <2>4, <2>5, <2>6 DEF NextOut
<1>7. Credit(c, wire \o frames, back)
  BY <1>1, <1>2, <1>4, <1>5, <1>6, Zenon DEF Credit
<1> QED
  BY <1>1, <1>7, Zenon

\* A message that is written waits without credit.
LEMMA CreditEnqueued ==
    ASSUME NEW codec \in CodecType, NEW bytes \in Message, SmallChunks(codec.outbound)
    PROVE  \E e \in CodecType :
             /\ e = Enqueue(codec, bytes) /\ SmallChunks(e.outbound)
             /\ \A wire, back : Credit(codec, wire, back) => Credit(e, wire, back)
<1>1. PICK n \in Nat, chunks \in Seq(DataFrame), e \in CodecType :
             /\ e = Enqueue(codec, bytes)
             /\ n = ChunkCount(bytes) /\ Len(chunks) = n
             /\ \A i \in 1..n : chunks[i] = ChunkFrame(codec, bytes, n, i)
             /\ e.txSeq = codec.txSeq + n /\ e.outbound = codec.outbound \o chunks
             /\ e.unacked = codec.unacked /\ e.unackedBySeq = codec.unackedBySeq
             /\ e.inbound = codec.inbound
  BY EnqueueFields
<1>2. PICK queue \in Seq(DataFrame), k, t \in Nat : queue = codec.outbound /\ k = Len(queue) /\ t = codec.txSeq
  BY DEF CodecType
<1>3. /\ Len(queue \o chunks) = k + n
      /\ \A i \in 1..k : (queue \o chunks)[i] = queue[i]
      /\ \A i \in 1..n : (queue \o chunks)[k + i] = chunks[i]
  <2>1. /\ Len(queue \o chunks) = Len(queue) + Len(chunks)
        /\ \A i \in 1..Len(queue) : (queue \o chunks)[i] = queue[i]
        /\ \A i \in 1..Len(chunks) : (queue \o chunks)[Len(queue) + i] = chunks[i]
    BY ConcatFacts
  <2> QED
    BY <1>1, <1>2, <2>1, Zenon
<1>4. ASSUME NEW i \in 1..n PROVE Len(chunks[i].bytes) <= ChunkBytes
  <2>1. PICK l \in Nat : l = Len(bytes)
    BY WholePart
  <2>2. PICK a \in Nat : a = (i - 1) * ChunkBytes /\ i * ChunkBytes = a + ChunkBytes
    <3>1. i - 1 \in Nat /\ i - 1 <= i - 1
      OBVIOUS
    <3>2. (i - 1) * ChunkBytes \in Nat
      BY <3>1, Multiples
    <3>3. i * ChunkBytes = (i - 1) * ChunkBytes + ChunkBytes
      BY StreamBounds
    <3> QED
      BY <3>2, <3>3
  <2>3. PICK b \in Nat : b = Min({i * ChunkBytes, l}) /\ b <= a + ChunkBytes /\ b <= l
    <3>1. i * ChunkBytes \in Nat
      BY <2>2, StreamBounds
    <3>2. Min({i * ChunkBytes, l}) = IF i * ChunkBytes <= l THEN i * ChunkBytes ELSE l
      BY <2>1, <3>1, MinOfTwo
    <3> QED
      BY <2>1, <2>2, <3>1, <3>2
  <2>4. chunks[i].bytes = SubSeq(bytes, a + 1, b)
    <3>1. chunks[i] = ChunkFrame(codec, bytes, n, i)
      BY <1>1
    <3>2. ChunkFrame(codec, bytes, n, i).bytes
            = SubSeq(bytes, (i - 1) * ChunkBytes + 1, Min({i * ChunkBytes, Len(bytes)}))
      BY DEF ChunkFrame
    <3> QED
      BY <2>1, <2>2, <2>3, <3>1, <3>2, Zenon
  <2>5. Len(SubSeq(bytes, a + 1, b)) = IF a + 1 <= b THEN b - (a + 1) + 1 ELSE 0
    <3>1. \A j \in (a + 1)..b : bytes[j] \in Nat
      BY <2>1, <2>3 DEF Message
    <3> QED
      BY <3>1, SubSeqProperties
  <2> QED
    BY <2>3, <2>4, <2>5, StreamBounds
<1>5. SmallChunks(e.outbound)
  <2>1. PICK q : q = queue \o chunks /\ q = e.outbound
    BY <1>1, <1>2
  <2> SUFFICES ASSUME NEW i \in 1..(k + n) PROVE Len(q[i].bytes) <= ChunkBytes
    BY <1>3, <2>1 DEF SmallChunks
  <2>2. CASE i \in 1..k
    BY <1>2, <1>3, <2>1, <2>2 DEF SmallChunks
  <2>3. CASE i \notin 1..k
    <3>1. PICK j \in 1..n : i = k + j
      <4>1. i - k \in 1..n /\ i = k + (i - k)
        BY <2>3
      <4> QED
        BY <4>1
    <3> QED
      BY <1>3, <1>4, <2>1, <3>1
  <2> QED
    BY <2>2, <2>3
<1>6. NextOut(e) = NextOut(codec)
  <2>1. (t + n) - (k + n) = t - k
    OBVIOUS
  <2>2. e.txSeq = t + n /\ Len(e.outbound) = k + n
    BY <1>1, <1>2, <1>3, Zenon
  <2> QED
    BY <1>2, <2>1, <2>2 DEF NextOut
<1>7. \A wire, back : Credit(codec, wire, back) => Credit(e, wire, back)
  BY <1>1, <1>6, Zenon DEF Credit
<1> QED
  BY <1>1, <1>5, <1>7

\* On a wire of the stream, a step brings or takes no data, or no acks.
RelayQuiet(more) ==
    \/ toRelay' = toRelay \/ toRelay' = toRelay \o more
    \/ toRelay # <<>> /\ Head(toRelay).type # "ws.data" /\ toRelay' = Tail(toRelay)

DaemonQuiet(more) ==
    \/ toDaemon' = toDaemon \/ toDaemon' = toDaemon \o more
    \/ toDaemon # <<>> /\ Head(toDaemon).type # "ws.data.ack" /\ toDaemon' = Tail(toDaemon)

LEMMA StreamWires ==
    ASSUME StreamTypeOK
    PROVE  /\ toRelay \in Seq(Frame) /\ toDaemon \in Seq(Frame)
           /\ mux \in MuxType /\ mux.codec \in CodecType /\ remote.codec \in CodecType
           /\ mux.codec.outbound \in Seq(DataFrame)
<1>1. mux \in MuxType /\ mux.codec \in CodecType /\ remote.codec \in CodecType
  BY DEF StreamTypeOK, MuxType, RemoteType
<1> QED
  BY <1>1, FrameKinds DEF StreamTypeOK, CodecType

LEMMA QuietStep ==
    ASSUME StreamTypeOK, CreditInv,
           mux'.codec.outbound = mux.codec.outbound,
           NEW more \in Seq(Frame), DataOn(more) = {}, NEW add \in Seq(Frame), AcksOn(add) = {},
           Crediting' => /\ Crediting /\ RelayQuiet(more) /\ DaemonQuiet(add)
                         /\ mux'.codec.txSeq = mux.codec.txSeq
                         /\ mux'.codec.unacked = mux.codec.unacked
                         /\ mux'.codec.unackedBySeq = mux.codec.unackedBySeq
    PROVE  CreditInv'
<1>1. SmallChunks(mux'.codec.outbound)
  BY DEF CreditInv
<1>2. ASSUME Crediting' PROVE Credit(mux'.codec, toRelay', toDaemon')
  <2>1. Credit(mux.codec, toRelay, toDaemon) /\ RelayQuiet(more) /\ DaemonQuiet(add)
    BY <1>2 DEF CreditInv
  <2>2. Credit(mux'.codec, toRelay, toDaemon)
    BY <1>2, <2>1, SameCredit
  <2>3. toRelay \in Seq(Frame) /\ toDaemon \in Seq(Frame)
    BY StreamWires
  <2>4. Credit(mux'.codec, toRelay', toDaemon)
    BY <2>1, <2>2, <2>3, CreditStays DEF RelayQuiet
  <2>5. toRelay' \in Seq(Frame)
    <3>1. toRelay \o more \in Seq(Frame)
      BY <2>3, ConcatFacts
    <3>2. toRelay # <<>> => Tail(toRelay) \in Seq(Frame)
      BY <2>3, TailFacts
    <3> QED
      BY <2>1, <2>3, <3>1, <3>2 DEF RelayQuiet
  <2> QED
    BY <2>1, <2>3, <2>4, <2>5, CreditStays DEF DaemonQuiet
<1> QED
  BY <1>1, <1>2 DEF CreditInv

\* Nothing, a close and an ack are quiet frames of their directions.
LEMMA QuietFrames ==
    /\ <<>> \in Seq(Frame) /\ DataOn(<<>>) = {} /\ AcksOn(<<>>) = {}
    /\ \A f \in AckFrame : <<f>> \in Seq(Frame) /\ DataOn(<<f>>) = {}
<1>1. <<>> \in Seq(Frame) /\ Range(<<>>) = {}
  BY DEF Range
<1>2. ASSUME NEW f \in AckFrame PROVE <<f>> \in Seq(Frame) /\ DataOn(<<f>>) = {}
  <2>1. f \in Frame /\ f.type # "ws.data"
    BY DEF Frame, AckFrame
  <2>2. Range(<<f>>) = {f}
    BY DEF Range
  <2> QED
    BY <2>1, <2>2 DEF DataOn
<1> QED
  BY <1>1, <1>2 DEF DataOn, AcksOn

\* A step that takes the stream from the mux or from the relay.
LEMMA CreditEnds ==
    ASSUME StreamTypeOK, CreditInv, mux'.codec.outbound = mux.codec.outbound, ~Crediting'
    PROVE  CreditInv'
BY QuietFrames, QuietStep

\* A step that leaves the codec and the connection.
LEMMA CreditUntouched ==
    ASSUME StreamTypeOK, CreditInv, mux'.codec = mux.codec, UNCHANGED <<toRelay, toDaemon>>,
           Crediting' => Crediting
    PROVE  CreditInv'
BY QuietFrames, QuietStep DEF RelayQuiet, DaemonQuiet

LEMMA CreditEdges ==
    ASSUME StreamInv, CreditInv,
           \/ LoopbackOpens \/ LoopbackClosing \/ LoopbackCloses \/ DisposeAll \/ ControlLost
           \/ ControlReconnects \/ RemoteCloses \/ UNCHANGED streamVars
    PROVE  CreditInv'
<1>0. StreamTypeOK /\ mux \in MuxType /\ remote \in RemoteType
  BY DEF StreamInv, StreamTypeOK
<1>1. CASE LoopbackOpens
  <2>1. mux'.codec = mux.codec /\ mux'.live = mux.live /\ loopback' = "open" /\ UNCHANGED <<toRelay, toDaemon, remote>>
    BY <1>0, <1>1 DEF LoopbackOpens, MuxType
  <2> QED
    BY <1>0, <2>1, CreditUntouched DEF Crediting
<1>2. CASE LoopbackClosing \/ ControlReconnects \/ UNCHANGED streamVars
  <2>1. /\ UNCHANGED <<mux, toRelay, toDaemon, remote>>
        /\ loopback' = loopback \/ loopback' = "closing"
    BY <1>2 DEF LoopbackClosing, ControlReconnects, streamVars
  <2> QED
    BY <1>0, <2>1, CreditUntouched DEF Crediting
<1>3. CASE LoopbackCloses
  <2>1. mux'.codec = mux.codec /\ ~mux'.live /\ loopback' = "closed"
    BY <1>0, <1>3 DEF LoopbackCloses, MuxType
  <2> QED
    BY <1>0, <2>1, CreditEnds DEF Crediting
<1>4. CASE DisposeAll \/ ControlLost \/ RemoteCloses
  <2>1. mux'.codec = mux.codec
    BY <1>0, <1>4 DEF DisposeAll, ControlLost, RemoteCloses, MuxType
  <2>2. ~remote'.known
    BY <1>0, <1>4 DEF DisposeAll, ControlLost, RemoteCloses, RemoteType
  <2> QED
    BY <1>0, <2>1, <2>2, CreditEnds DEF Crediting
<1> QED
  BY <1>1, <1>2, <1>3, <1>4

\* The shape of the connection of a stream that the relay knows.
LEMMA CreditShape ==
    ASSUME StreamInv, remote.known
    PROVE  \E mid \in Nat : Shape(mux.codec, toRelay, mid)
BY StreamWires, WireShape DEF StreamInv, OutOk

LEMMA CreditRemoteFrame ==
    ASSUME StreamInv, CreditInv, RemoteFrame
    PROVE  CreditInv'
<1>0. StreamTypeOK /\ remote \in RemoteType
  BY DEF StreamInv, StreamTypeOK
<1>1. PICK f : f = Head(toRelay)
  OBVIOUS
<1>2. /\ control /\ toRelay # <<>> /\ toRelay' = Tail(toRelay)
      /\ UNCHANGED <<control, mux, loopback, outSent, inSent, inGot, ackLost>>
      /\ f \in PlainFrame
      /\ \/ /\ f = Close
            /\ remote' = [remote EXCEPT !.known = FALSE]
            /\ UNCHANGED <<toDaemon, outGot>>
         \/ /\ ~remote.known
            /\ toDaemon' = Append(toDaemon, Close)
            /\ UNCHANGED <<remote, outGot>>
         \/ /\ f \in DataFrame /\ remote.known
            /\ remote' = [remote EXCEPT !.known = FALSE]
            /\ toDaemon' = Append(toDaemon, Close)
            /\ UNCHANGED outGot
         \/ /\ f \in DataFrame /\ remote.known
            /\ remote' = [remote EXCEPT !.codec = Ingest(remote.codec, f).codec]
            /\ toDaemon' = Append(toDaemon, Ack(f))
            /\ outGot' = IF f.fin THEN Append(outGot, Ingest(remote.codec, f).message) ELSE outGot
         \/ /\ f \in AckFrame /\ remote.known
            /\ RemoteFlush(OnAck(remote.codec, f.seq))
            /\ UNCHANGED outGot
  BY <1>0, <1>1, RemoteFrameCases
<1>3. CASE ~remote'.known
  BY <1>0, <1>2, <1>3, CreditEnds DEF Crediting
<1>4. CASE /\ f \in DataFrame /\ remote.known
           /\ remote' = [remote EXCEPT !.codec = Ingest(remote.codec, f).codec]
           /\ toDaemon' = Append(toDaemon, Ack(f))
  <2>1. PICK mid \in Nat : Shape(mux.codec, toRelay, mid)
    BY <1>4, CreditShape
  <2>2. toRelay \in Seq(Frame) /\ toDaemon \in Seq(Frame) /\ mux.codec \in CodecType
    BY <1>0, StreamWires
  <2>3. Crediting => Credit(mux.codec, Tail(toRelay), Append(toDaemon, Ack(f)))
    BY <1>1, <1>2, <1>4, <2>1, <2>2, CreditReadAck DEF CreditInv
  <2>4. Crediting' => Crediting
    BY <1>2, <1>4 DEF Crediting
  <2> QED
    BY <1>2, <1>4, <2>3, <2>4 DEF CreditInv
<1>5. CASE f \in AckFrame /\ remote.known /\ RemoteFlush(OnAck(remote.codec, f.seq))
  <2>1. PICK c \in CodecType : OnAck(remote.codec, f.seq) = c
    BY <1>0, StreamWires, Acked
  <2>2. PICK frames \in Seq(DataFrame) : PullSendable(c).frames = frames
    BY Pulled
  <2>3. toDaemon' = toDaemon \o frames
    BY <1>5, <2>1, <2>2, Zenon DEF RemoteFlush
  <2>4. frames \in Seq(Frame) /\ AcksOn(frames) = {}
    BY OnlyData
  <2>5. f.type # "ws.data"
    BY <1>5 DEF AckFrame
  <2>6. Crediting' => Crediting
    BY <1>2, <1>5 DEF Crediting
  <2>7. RelayQuiet(<<>>) /\ DaemonQuiet(frames)
    BY <1>1, <1>2, <2>3, <2>5 DEF RelayQuiet, DaemonQuiet
  <2> QED
    BY <1>0, <1>2, <2>4, <2>6, <2>7, QuietFrames, QuietStep
<1>6. remote.known /\ remote' = [remote EXCEPT !.known = FALSE] => ~remote'.known
  BY <1>0 DEF RemoteType
<1>7. f = Close /\ remote' = [remote EXCEPT !.known = FALSE] => ~remote'.known
  BY <1>0 DEF RemoteType
<1> QED
  BY <1>2, <1>3, <1>4, <1>5, <1>6, <1>7

LEMMA CreditRemoteSends ==
    ASSUME StreamInv, CreditInv, RemoteSends
    PROVE  CreditInv'
<1>0. StreamTypeOK
  BY DEF StreamInv
<1>1. UNCHANGED <<control, mux, loopback, toRelay, outSent, outGot, inGot, ackLost>> /\ remote.known
  BY DEF RemoteSends
<1>2. PICK n \in InSizes :
          LET message == [i \in 1..n |-> Len(inSent) + 1] IN RemoteFlush(Enqueue(remote.codec, message))
  BY DEF RemoteSends
<1>3. PICK m \in Message : RemoteFlush(Enqueue(remote.codec, m))
  <2>1. n \in Nat /\ Len(inSent) + 1 \in Nat
    BY <1>0, StreamBounds DEF StreamTypeOK
  <2>2. [i \in 1..n |-> Len(inSent) + 1] \in Message
    BY <2>1, NewMessage
  <2> QED
    BY <1>2, <2>2, Zenon
<1>4. PICK c \in CodecType : c = Enqueue(remote.codec, m)
  BY <1>0, StreamWires, EnqueueFields
<1>5. PICK frames \in Seq(DataFrame) : PullSendable(c).frames = frames
  BY Pulled
<1>6. toDaemon' = toDaemon \o frames
  BY <1>3, <1>4, <1>5, Zenon DEF RemoteFlush
<1>7. frames \in Seq(Frame) /\ AcksOn(frames) = {}
  BY OnlyData
<1>8. (Crediting' => Crediting) /\ RelayQuiet(<<>>) /\ DaemonQuiet(frames)
  BY <1>1, <1>6 DEF RelayQuiet, DaemonQuiet, Crediting
<1> QED
  BY <1>0, <1>1, <1>7, <1>8, QuietFrames, QuietStep

\* flushOutbound keeps the credit of the codec it is given.
LEMMA CreditMuxFlushes ==
    ASSUME StreamInv, NEW codec \in CodecType, FlushOutbound([mux EXCEPT !.codec = codec]),
           SmallChunks(codec.outbound), NEW back \in Seq(Frame), toDaemon' = back,
           UNCHANGED <<remote, loopback>>,
           Crediting => /\ Credit(codec, toRelay, back)
                        /\ \E mid \in Nat : Shape(codec, toRelay, mid)
    PROVE  CreditInv'
<1>0. StreamTypeOK /\ toRelay \in Seq(Frame) /\ mux \in MuxType
  BY StreamWires DEF StreamInv
<1>1. PICK n \in 0..Len(codec.outbound), c \in CodecType, frames \in Seq(DataFrame) :
             /\ PullSendable(codec).codec = c /\ PullSendable(codec).frames = frames
             /\ frames = SubSeq(codec.outbound, 1, n)
             /\ c.outbound = SubSeq(codec.outbound, n + 1, Len(codec.outbound))
             /\ c.txSeq = codec.txSeq /\ c.inbound = codec.inbound
  BY Pulled
<1>2. PICK m : m = [mux EXCEPT !.codec = codec]
  OBVIOUS
<1>3. m \in MuxType /\ m.codec = codec /\ m.live = mux.live
  BY <1>0, <1>2 DEF MuxType
<1>4. PICK b \in BOOLEAN : b = (c.outbound # <<>>)
  OBVIOUS
<1>5. mux' = [m EXCEPT !.codec = c, !.paused = b] /\ SendFrames(frames)
  <2>1. FlushOutbound(m)
    BY <1>2, Zenon
  <2> QED
    BY <1>1, <1>3, <1>4, <2>1, Zenon DEF FlushOutbound
<1>6. mux'.codec = c /\ mux'.live = mux.live
  BY <1>3, <1>5 DEF MuxType
<1>7. SmallChunks(c.outbound)
  <2>1. codec.outbound \in Seq(DataFrame)
    BY DEF CodecType
  <2> QED
    BY <1>1, <2>1, SmallRest
<1>8. ASSUME Crediting' PROVE Credit(c, toRelay', back)
  <2>1. Crediting /\ remote.known
    BY <1>6, <1>8 DEF Crediting
  <2>2. control
    BY <2>1 DEF StreamInv, Life
  <2>3. toRelay' = toRelay \o frames
    BY <1>5, <2>2 DEF SendFrames
  <2>4. PICK mid \in Nat : Shape(codec, toRelay, mid)
    BY <2>1
  <2>5. Credit(PullSendable(codec).codec, toRelay \o PullSendable(codec).frames, back)
    BY <1>0, <2>1, <2>4, CreditFlushed
  <2> QED
    BY <1>1, <2>3, <2>5, Zenon
<1> QED
  BY <1>6, <1>7, <1>8 DEF CreditInv

LEMMA CreditLoopbackMessage ==
    ASSUME StreamInv, CreditInv, LoopbackMessage
    PROVE  CreditInv'
<1>0. StreamTypeOK /\ mux.codec \in CodecType /\ toRelay \in Seq(Frame) /\ toDaemon \in Seq(Frame)
  BY StreamWires DEF StreamInv
<1>1. UNCHANGED <<control, loopback, toDaemon, remote, outGot, inSent, inGot, ackLost>>
  BY DEF LoopbackMessage
<1>2. PICK m \in Message : FlushOutbound([mux EXCEPT !.codec = Enqueue(mux.codec, m)])
  <2>1. PICK n \in OutSizes :
          LET message == [i \in 1..n |-> Len(outSent) + 1]
          IN  FlushOutbound([mux EXCEPT !.codec = Enqueue(mux.codec, message)])
    BY DEF LoopbackMessage
  <2>2. n \in Nat /\ Len(outSent) + 1 \in Nat
    BY <1>0, StreamBounds DEF StreamTypeOK
  <2>3. [i \in 1..n |-> Len(outSent) + 1] \in Message
    BY <2>2, NewMessage
  <2> QED
    BY <2>1, <2>3, Zenon
<1>3. PICK e \in CodecType :
             /\ e = Enqueue(mux.codec, m) /\ SmallChunks(e.outbound)
             /\ \A wire, back : Credit(mux.codec, wire, back) => Credit(e, wire, back)
  BY <1>0, CreditEnqueued DEF CreditInv
<1>4. FlushOutbound([mux EXCEPT !.codec = e])
  BY <1>2, <1>3, Zenon
<1>5. ASSUME Crediting
      PROVE  Credit(e, toRelay, toDaemon) /\ \E mid \in Nat : Shape(e, toRelay, mid)
  <2>1. Credit(e, toRelay, toDaemon)
    BY <1>3, <1>5 DEF CreditInv
  <2>2. Carried(mux.codec.txSeq, mux.codec.outbound, toRelay, remote.codec.inbound, outSent, Len(outGot))
    BY <1>5 DEF StreamInv, OutOk, Crediting
  <2>3. outSent \in Seq(Message)
    BY <1>0 DEF StreamTypeOK
  <2>4. PICK x \in CodecType :
             /\ x = Enqueue(mux.codec, m)
             /\ Carried(x.txSeq, x.outbound, toRelay, remote.codec.inbound, Append(outSent, m), Len(outGot))
    BY <1>0, <2>2, <2>3, EnqueuedCarried
  <2>5. Carried(e.txSeq, e.outbound, toRelay, remote.codec.inbound, Append(outSent, m), Len(outGot))
    BY <1>3, <2>4, Zenon
  <2> QED
    BY <1>0, <2>1, <2>5, WireShape
<1> QED
  BY <1>0, <1>1, <1>3, <1>4, <1>5, CreditMuxFlushes

LEMMA CreditDataAck ==
    ASSUME StreamInv, CreditInv, toDaemon # <<>>, toDaemon' = Tail(toDaemon),
           UNCHANGED <<control, remote, outSent, outGot, inSent, ackLost>>,
           loopback # "none", NEW f \in AckFrame, f = Head(toDaemon), HandleDataAck(f)
    PROVE  CreditInv'
<1>0. StreamTypeOK /\ mux.codec \in CodecType /\ toRelay \in Seq(Frame) /\ toDaemon \in Seq(Frame)
  BY StreamWires DEF StreamInv
<1>1. UNCHANGED <<loopback, inGot>>
  BY DEF HandleDataAck
<1>2. CASE ~mux.live
  <2>1. UNCHANGED mux
    BY <1>2 DEF HandleDataAck
  <2> QED
    BY <1>0, <1>1, <1>2, <2>1, CreditEnds DEF Crediting
<1>3. CASE mux.live
  <2>1. FlushOutbound([mux EXCEPT !.codec = OnAck(mux.codec, f.seq)])
    BY <1>3 DEF HandleDataAck
  <2>2. PICK c \in CodecType :
             /\ OnAck(mux.codec, f.seq) = c /\ c.txSeq = mux.codec.txSeq
             /\ c.outbound = mux.codec.outbound /\ c.inbound = mux.codec.inbound
    BY <1>0, Acked
  <2>3. FlushOutbound([mux EXCEPT !.codec = c])
    BY <2>1, <2>2, Zenon
  <2>4. PICK t \in Seq(Frame) : t = Tail(toDaemon)
    BY <1>0, TailFacts
  <2>5. ASSUME Crediting
        PROVE  Credit(c, toRelay, t) /\ \E mid \in Nat : Shape(c, toRelay, mid)
    <3>1. PICK mid \in Nat : Shape(mux.codec, toRelay, mid)
      BY <2>5, CreditShape DEF Crediting
    <3>2. Credit(mux.codec, toRelay, toDaemon)
      BY <2>5 DEF CreditInv
    <3>3. \E x \in CodecType :
             /\ OnAck(mux.codec, f.seq) = x /\ x.txSeq = mux.codec.txSeq
             /\ x.outbound = mux.codec.outbound /\ x.inbound = mux.codec.inbound
             /\ Credit(x, toRelay, Tail(toDaemon)) /\ Shape(x, toRelay, mid)
      BY <1>0, <3>1, <3>2, CreditAckRead
    <3> QED
      BY <2>2, <2>4, <3>3, Zenon
  <2>6. SmallChunks(c.outbound)
    BY <2>2 DEF CreditInv
  <2> QED
    BY <1>1, <2>3, <2>4, <2>5, <2>6, CreditMuxFlushes
<1> QED
  BY <1>2, <1>3

\* ingest touches nothing of what is sent.
LEMMA IngestCounts ==
    ASSUME NEW codec \in CodecType, NEW f
    PROVE  \E c : /\ Ingest(codec, f).codec = c
                  /\ c.txSeq = codec.txSeq /\ c.outbound = codec.outbound
                  /\ c.unacked = codec.unacked /\ c.unackedBySeq = codec.unackedBySeq
<1>1. PICK whole, in : whole = codec.inbound \o f.bytes /\ in = IF f.fin THEN <<>> ELSE whole
  OBVIOUS
<1>2. PICK c : c = [codec EXCEPT !.inbound = in]
  OBVIOUS
<1>3. Ingest(codec, f) = [codec |-> c, message |-> whole]
  BY <1>1, <1>2, Zenon DEF Ingest
<1>4. Ingest(codec, f).codec = c
  BY <1>3
<1> QED
  BY <1>2, <1>4 DEF CodecType

LEMMA CreditData ==
    ASSUME StreamInv, CreditInv, toDaemon # <<>>, toDaemon' = Tail(toDaemon),
           UNCHANGED <<control, remote, outSent, outGot, inSent, ackLost>>,
           loopback # "none", NEW f \in DataFrame, f = Head(toDaemon), HandleData(f)
    PROVE  CreditInv'
<1>0. StreamTypeOK /\ mux \in MuxType /\ mux.codec \in CodecType
  BY StreamWires DEF StreamInv
<1>1. PICK c : /\ Ingest(mux.codec, f).codec = c
               /\ c.txSeq = mux.codec.txSeq /\ c.outbound = mux.codec.outbound
               /\ c.unacked = mux.codec.unacked /\ c.unackedBySeq = mux.codec.unackedBySeq
  BY <1>0, IngestCounts
<1>2. PICK m : m = [mux EXCEPT !.codec = c]
  OBVIOUS
<1>3. m.codec = c /\ m.live = mux.live /\ DOMAIN m = DOMAIN mux
  BY <1>0, <1>2 DEF MuxType
<1>4. \/ ~mux.live /\ UNCHANGED <<mux, loopback>>
      \/ TearDown([mux EXCEPT !.codec.inbound = <<>>])
      \/ TearDown(m)
      \/ /\ mux' = m \/ \E p : mux' = [m EXCEPT !.pendingInbound = p]
         /\ SendFrames(<<Ack(f)>>) /\ UNCHANGED loopback
  <2>1. [mux EXCEPT !.codec = Ingest(mux.codec, f).codec] = m
    BY <1>1, <1>2, Zenon
  <2> QED
    BY <2>1, Zenon DEF HandleData
<1>5. CASE ~mux.live /\ UNCHANGED <<mux, loopback>>
  BY <1>0, <1>5, CreditEnds DEF Crediting
<1>6. ASSUME NEW x, TearDown(x), x.codec.outbound = mux.codec.outbound, "live" \in DOMAIN x
      PROVE  CreditInv'
  <2>1. mux' = [x EXCEPT !.live = FALSE] /\ (loopback' = loopback \/ loopback' = "closing")
    BY <1>6 DEF TearDown, CloseLoopback
  <2>2. mux'.codec = x.codec /\ ~mux'.live
    BY <1>6, <2>1
  <2> QED
    BY <1>0, <1>6, <2>1, <2>2, CreditEnds DEF Crediting
<1>7. CASE TearDown([mux EXCEPT !.codec.inbound = <<>>])
  <2>1. PICK d : d = [mux.codec EXCEPT !.inbound = <<>>]
    OBVIOUS
  <2>2. PICK x : x = [mux EXCEPT !.codec = d]
    OBVIOUS
  <2>3. d.outbound = mux.codec.outbound /\ x.codec = d /\ "live" \in DOMAIN x
    BY <1>0, <2>1, <2>2 DEF MuxType, CodecType
  <2>4. [mux EXCEPT !.codec.inbound = <<>>] = x
    BY <1>0, <2>1, <2>2 DEF MuxType
  <2>5. TearDown(x)
    BY <1>7, <2>4, Zenon
  <2> QED
    BY <1>6, <2>3, <2>5
<1>8. CASE TearDown(m)
  BY <1>0, <1>1, <1>3, <1>6, <1>8 DEF MuxType
<1>9. CASE /\ mux' = m \/ \E p : mux' = [m EXCEPT !.pendingInbound = p]
           /\ SendFrames(<<Ack(f)>>) /\ UNCHANGED loopback
  <2>1. mux'.codec = c /\ mux'.live = mux.live
    <3>1. "codec" \in DOMAIN m /\ "live" \in DOMAIN m
      BY <1>0, <1>3 DEF MuxType
    <3>2. CASE mux' = m
      BY <1>3, <3>2
    <3>3. CASE \E p : mux' = [m EXCEPT !.pendingInbound = p]
      <4>1. PICK p : mux' = [m EXCEPT !.pendingInbound = p]
        BY <3>3
      <4> QED
        BY <1>3, <3>1, <4>1
    <3> QED
      BY <1>9, <3>2, <3>3
  <2>2. RelayQuiet(<<Ack(f)>>)
    BY <1>9 DEF SendFrames, RelayQuiet
  <2>3. Ack(f) \in AckFrame /\ Head(toDaemon).type # "ws.data.ack"
    BY DEF Ack, AckFrame, DataFrame
  <2>4. <<Ack(f)>> \in Seq(Frame) /\ DataOn(<<Ack(f)>>) = {}
    BY <2>3, QuietFrames
  <2>5. DaemonQuiet(<<>>) /\ (Crediting' => Crediting)
    BY <1>9, <2>1, <2>3 DEF DaemonQuiet, Crediting
  <2> QED
    BY <1>0, <1>1, <2>1, <2>2, <2>4, <2>5, QuietFrames, QuietStep
<1> QED
  BY <1>4, <1>5, <1>7, <1>8, <1>9

LEMMA CreditControlFrame ==
    ASSUME StreamInv, CreditInv, ControlFrame
    PROVE  CreditInv'
<1>0. StreamTypeOK /\ mux \in MuxType /\ Life
  BY StreamWires DEF StreamInv
<1>1. PICK f : f = Head(toDaemon)
  OBVIOUS
<1>2. /\ control /\ toDaemon # <<>> /\ toDaemon' = Tail(toDaemon)
      /\ UNCHANGED <<control, remote, outSent, outGot, inSent, ackLost>>
      /\ \/ loopback = "none" /\ ~ackLost /\ f = Open /\ HandleOpen
         \/ /\ loopback # "none" \/ ackLost
            /\ \/ f = Close /\ HandleClose
               \/ f \in AckFrame /\ ~ackLost /\ HandleDataAck(f)
               \/ f \in DataFrame /\ ~ackLost /\ HandleData(f)
  BY <1>1, ControlFrameCases
<1>3. CASE loopback = "none" /\ f = Open /\ HandleOpen
  <2>1. mux'.codec = mux.codec /\ UNCHANGED toRelay
    BY <1>0, <1>3 DEF HandleOpen, MuxType
  <2>2. f.type # "ws.data.ack"
    BY <1>3 DEF Open
  <2>3. RelayQuiet(<<>>) /\ DaemonQuiet(<<>>)
    BY <1>1, <1>2, <2>1, <2>2 DEF RelayQuiet, DaemonQuiet
  <2>4. Crediting' => Crediting
    BY <1>2, <1>3 DEF Crediting
  <2> QED
    BY <1>0, <2>1, <2>3, <2>4, QuietFrames, QuietStep
<1>4. CASE (loopback # "none" \/ ackLost) /\ HandleClose
  <2>1. mux'.codec = mux.codec /\ ~mux'.live
    BY <1>0, <1>4 DEF HandleClose, MuxType
  <2>2. loopback' = loopback \/ loopback' = "closing"
    BY <1>4 DEF HandleClose, CloseLoopback
  <2>3. ackLost => ~remote'.known
    BY <1>0, <1>2 DEF Life
  <2>4. ~Crediting'
    BY <1>4, <2>1, <2>2, <2>3 DEF Crediting
  <2> QED
    BY <1>0, <2>1, <2>4, CreditEnds
<1>5. CASE loopback # "none" /\ f \in AckFrame /\ HandleDataAck(f)
  BY <1>1, <1>2, <1>5, CreditDataAck
<1>6. CASE loopback # "none" /\ f \in DataFrame /\ HandleData(f)
  BY <1>1, <1>2, <1>5, <1>6, CreditData
<1> QED
  BY <1>2, <1>3, <1>4, <1>5, <1>6

\* Of a new codec nothing is outstanding.
LEMMA CreditInit ==
    ASSUME StreamInit
    PROVE  CreditInv
<1>1. PICK c : c = NewCodec
  OBVIOUS
<1>2. /\ c.txSeq = 0 /\ c.unacked = 0 /\ c.unackedBySeq = {} /\ c.outbound = <<>>
  BY <1>1 DEF NewCodec
<1>3. mux.codec = c /\ toRelay = <<>> /\ toDaemon = <<Open>>
  BY <1>1 DEF StreamInit, Open
<1>4. Open.type # "ws.data.ack" /\ Range(<<Open>>) = {Open} /\ Range(<<>>) = {}
  BY DEF Open, Range
<1>5. DataOn(toRelay) = {} /\ AcksOn(toDaemon) = {}
  BY <1>3, <1>4 DEF DataOn, AcksOn
<1>6. AckedOnce(toDaemon)
  BY <1>3, <1>4 DEF AckedOnce
<1>7. IsFiniteSet({}) /\ EntryBytes({}) = 0
  BY FS_EmptySet DEF EntryBytes
<1>8. 0 <= Max({WindowBytes, ChunkBytes})
  BY StreamBounds, MaxOfTwo
<1>9. CreditOf(0, {}, NextOut(c), {}, {})
  BY <1>7, <1>8 DEF CreditOf
<1>10. Credit(mux.codec, toRelay, toDaemon)
  BY <1>2, <1>3, <1>5, <1>6, <1>9 DEF Credit
<1>11. SmallChunks(mux.codec.outbound)
  BY <1>2, <1>3 DEF SmallChunks
<1> QED
  BY <1>10, <1>11 DEF CreditInv

LEMMA CreditStep ==
    ASSUME StreamInv, CreditInv, [StreamNext]_streamVars
    PROVE  CreditInv'
BY CreditControlFrame, CreditEdges, CreditLoopbackMessage, CreditRemoteFrame, CreditRemoteSends
   DEF StreamNext

CreditSum(codec, wire, data, acks) ==
    codec.unacked = Bytes([i \in data |-> wire[i]])
                      + EntryBytes({e \in codec.unackedBySeq : \E a \in acks : e[1] = a.seq})

\* The entries of the codec are those of the frames on the connection and of
\* the acks coming back, and none is of both.
LEMMA CreditSplits ==
    ASSUME NEW codec \in CodecType, NEW wire \in Seq(Frame), NEW back, NEW mid \in Nat,
           Shape(codec, wire, mid), Credit(codec, wire, back),
           NEW data, data = {i \in 1..Len(wire) : wire[i].type = "ws.data"},
           NEW acks, acks = AcksOn(back)
    PROVE  CreditSum(codec, wire, data, acks)
<1> DEFINE frames == [i \in data |-> wire[i]]
           held == codec.unackedBySeq
           returning == {e \in held : \E a \in acks : e[1] = a.seq}
           out == EntriesOf(frames, data)
<1>1. IsFiniteSet(data)
  <2>1. 1 \in Int /\ Len(wire) \in Int
    OBVIOUS
  <2>2. IsFiniteSet(1..Len(wire))
    BY <2>1, FS_Interval
  <2> QED
    BY <2>2, FS_Subset
<1>2. \A i \in data : /\ i \in 1..Len(wire) /\ frames[i] = wire[i] /\ wire[i] \in DataOn(wire)
                      /\ frames[i] \in DataFrame /\ frames[i].seq \in Nat
  <2> SUFFICES ASSUME NEW i \in data
               PROVE  /\ i \in 1..Len(wire) /\ wire[i] \in DataOn(wire)
                      /\ wire[i] \in DataFrame /\ wire[i].seq \in Nat
    OBVIOUS
  <2>1. wire[i] \in Range(wire)
    BY OnRange
  <2>2. wire[i] \in DataOn(wire)
    BY <2>1 DEF DataOn
  <2>3. wire[i] \in DataFrame
    BY <2>2, OnRange
  <2> QED
    BY <2>2, <2>3 DEF DataFrame
<1>a. \A i, j \in data : i < j => wire[i].seq < wire[j].seq
  BY <1>2 DEF Shape
<1>3. \A i, j \in data : frames[i].seq = frames[j].seq => i = j
  <2> HIDE DEF frames
  <2> SUFFICES ASSUME NEW i \in data, NEW j \in data, wire[i].seq = wire[j].seq PROVE i = j
    BY <1>2
  <2>1. i \in Nat /\ j \in Nat /\ wire[i].seq \in Nat
    BY <1>2
  <2>2. ~(i < j) /\ ~(j < i)
    BY <1>a, <2>1
  <2> QED
    BY <2>1, <2>2
<1>4. DOMAIN frames = data
  OBVIOUS
<1>5. \A f \in DataOn(wire) : \E i \in data : f = frames[i]
  <2> SUFFICES ASSUME NEW f \in DataOn(wire) PROVE \E i \in data : f = wire[i]
    OBVIOUS
  <2>1. f \in Range(wire) /\ f.type = "ws.data"
    BY DEF DataOn
  <2>2. PICK i \in 1..Len(wire) : f = wire[i]
    BY <2>1, OnRange
  <2> QED
    BY <2>1, <2>2
<1> HIDE DEF frames
<1>6. out \in SUBSET Entry /\ IsFiniteSet(out) /\ Bytes(frames) = EntryBytes(out)
  BY <1>1, <1>2, <1>3, <1>4, FrameUnits
<1>7. CreditOf(codec.unacked, held, mid, DataOn(wire), acks)
  BY DEF Credit, Shape
<1>8. held \in SUBSET Entry /\ IsFiniteSet(held) /\ codec.unacked = EntryBytes(held)
  BY <1>7 DEF CreditOf
<1>9. \A e : e \in out <=> \E i \in data : frames[i].bytes # <<>> /\ e = <<frames[i].seq, Len(frames[i].bytes)>>
  BY DEF EntriesOf
<1>10. out \cap returning = {}
  <2> SUFFICES ASSUME NEW e \in out, NEW a \in acks, e[1] = a.seq PROVE FALSE
    OBVIOUS
  <2>1. PICK i \in data : e = <<frames[i].seq, Len(frames[i].bytes)>>
    BY <1>9
  <2>2. frames[i] \in DataOn(wire) /\ frames[i].seq \in Nat
    BY <1>2
  <2>3. a.seq < frames[i].seq
    BY <1>7, <2>2 DEF CreditOf
  <2> QED
    BY <2>1, <2>2, <2>3
<1>11. held = out \cup returning
  <2>1. ASSUME NEW e \in out PROVE e \in held
    <3>1. PICK i \in data : frames[i].bytes # <<>> /\ e = <<frames[i].seq, Len(frames[i].bytes)>>
      BY <1>9
    <3> QED
      BY <1>2, <1>7, <3>1 DEF CreditOf
  <2>2. ASSUME NEW e \in held, e \notin returning PROVE e \in out
    <3>1. PICK f \in DataOn(wire) : f.bytes # <<>> /\ f.seq = e[1]
      BY <1>7, <2>2 DEF CreditOf
    <3>2. PICK i \in data : f = frames[i]
      BY <1>5
    <3>3. PICK d : d = <<f.seq, Len(f.bytes)>>
      OBVIOUS
    <3>4. d \in held /\ d[1] = e[1]
      BY <1>7, <3>1, <3>3 DEF CreditOf
    <3>5. d = e
      BY <1>7, <3>4 DEF CreditOf
    <3> QED
      BY <1>9, <3>1, <3>2, <3>3, <3>5
  <2> QED
    BY <2>1, <2>2
<1>12. returning \in SUBSET Entry /\ IsFiniteSet(returning)
  BY <1>8, FS_Subset
<1> HIDE DEF out, returning
<1>13. EntryBytes(out \cup returning) = EntryBytes(out) + EntryBytes(returning)
  BY <1>6, <1>10, <1>12, UnitsJoin
<1> QED
  BY <1>6, <1>8, <1>11, <1>13 DEF CreditSum, frames, returning

LEMMA CreditImplies ==
    ASSUME StreamInv, CreditInv
    PROVE  CreditIsConserved
<1> SUFFICES ASSUME mux.live, remote.known PROVE CreditIsConserved
  BY DEF CreditIsConserved
<1>0. mux.codec \in CodecType /\ toRelay \in Seq(Frame)
  BY StreamWires DEF StreamInv
<1>1. Credit(mux.codec, toRelay, toDaemon)
  BY DEF CreditInv, Crediting
<1>2. PICK mid \in Nat : Shape(mux.codec, toRelay, mid)
  BY CreditShape
<1> DEFINE data == {i \in DOMAIN toRelay : toRelay[i].type = "ws.data"}
           acked == {f.seq : f \in {g \in Range(toDaemon) : g.type = "ws.data.ack"}}
           returning == {e \in mux.codec.unackedBySeq : e[1] \in acked}
<1>3. PICK acks : acks = AcksOn(toDaemon)
  OBVIOUS
<1>4. returning = {e \in mux.codec.unackedBySeq : \E a \in acks : e[1] = a.seq}
  BY <1>3 DEF AcksOn
<1>5. PICK d : d = {i \in 1..Len(toRelay) : toRelay[i].type = "ws.data"}
  OBVIOUS
<1>6. data = d
  BY <1>0, <1>5
<1>7. CreditSum(mux.codec, toRelay, d, acks)
  BY <1>0, <1>1, <1>2, <1>3, <1>5, CreditSplits
<1>8. mux.codec.unacked = Bytes([i \in data |-> toRelay[i]]) + EntryBytes(returning)
  BY <1>4, <1>6, <1>7, Zenon DEF CreditSum
<1>9. mux.codec.unacked <= Max({WindowBytes, ChunkBytes})
  BY <1>1 DEF Credit, CreditOf
<1> QED
  BY <1>8, <1>9, Zenon DEF CreditIsConserved

\* The send window of a stream (pullSendable and onAck of the DocumentStreamCodec,
\* flushOutbound of StreamMux): while the mux holds the stream and the relay knows
\* it, every byte the codec counts as unacknowledged is in a frame the relay has
\* still to read or in one whose ack is on its way back, each counted once, and
\* they are never more than the window, or one chunk when that is larger.
THEOREM CreditKept == StreamSpec => []CreditIsConserved
<1>1. StreamInit => CreditInv
  BY CreditInit
<1>2. StreamInv /\ CreditInv /\ [StreamNext]_streamVars => CreditInv'
  BY CreditStep
<1>3. StreamInv /\ CreditInv => CreditIsConserved
  BY CreditImplies
<1>4. StreamSpec => []StreamInv
  BY StreamSafe
<1> QED
  BY <1>1, <1>2, <1>3, <1>4, PTL DEF StreamSpec
=============================================================================
