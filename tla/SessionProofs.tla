---------------------------- MODULE SessionProofs ----------------------------
(***************************************************************************)
(* Proofs about Session, for any lengths of header and bodies and any      *)
(* number of messages and connections.                                     *)
(***************************************************************************)
EXTENDS Session, SequenceTheorems, TLAPS

\* The message that is to be handled next, and how much of it has been read.
Cur == Len(handled) + 1
Done == IF Connected THEN Len(head) + Len(context) ELSE 0

\* The unit the stream carries after r units of message k.
Upcoming(k, r) ==
    IF k <= Len(sent) /\ r = FrameLen(sent[k]) THEN <<k + 1, 1>> ELSE <<k, r + 1>>

\* The stream: what follows a unit within its message, and what follows that.
WireInv ==
    /\ conn \notin {"open", "eof"} => wire = <<>>
    /\ Len(sent) <= MaxSent
    /\ sent # <<>> => out \in 1..FrameLen(sent[Len(sent)])
    /\ \A i \in 1..Len(wire) :
         /\ wire[i][1] \in 1..Len(sent)
         /\ wire[i][2] \in 1..FrameLen(sent[wire[i][1]])
         /\ wire[i][1] = Len(sent) => wire[i][2] <= out
    /\ \A i, n \in 1..Len(wire) :
         LET rest == FrameLen(sent[wire[i][1]]) - wire[i][2] IN
         /\ i <= n /\ n - i <= rest => wire[n] = <<wire[i][1], wire[i][2] + (n - i)>>
         /\ n - i = rest + 1 => wire[n] = <<wire[i][1] + 1, 1>>
    /\ wire # <<>> => wire[Len(wire)] = <<Len(sent), out>>

\* The buffer: it holds the beginning of the next message and no more.
BufInv ==
    Connected =>
        /\ conn # "none"
        /\ \A j \in 1..Len(head) : head[j] = <<Cur, j>>
        /\ \A j \in 1..Len(context) : context[j] = <<Cur, HeadLen + j>>
        /\ head # <<>> => Cur <= Len(sent)
        /\ Len(head) < HeadLen => context = <<>>
        /\ Len(head) = HeadLen => Len(context) <= sent[Cur].len
        /\ pc = "select" => Len(head) < HeadLen \/ Len(context) < sent[Cur].len
        /\ pc = "handle" => Len(head) = HeadLen /\ Len(context) = sent[Cur].len

\* Where the stream goes on: with what the buffer waits for, which has not been
\* sent before what has been read.
NextInv ==
    pc = "login" \/ Connected =>
        /\ wire # <<>> => wire[1] = Upcoming(Cur, Done)
        /\ wire = <<>> /\ conn # "reset" =>
             Upcoming(Cur, Done) = IF AtBoundary THEN <<Len(sent) + 1, 1>>
                                                 ELSE <<Len(sent), out + 1>>
        /\ Cur = Len(sent) => Done <= out
        /\ Cur > Len(sent) => Cur = Len(sent) + 1 /\ Done = 0

\* The connection: a new one has handled nothing, and a bad flag ends it.
ConnInv ==
    /\ pc = "connect" <=> conn = "none"
    /\ pc = "login" => handled = <<>>
    /\ \A k \in 1..Len(handled) :
         ~sent[k].flag => k = Len(handled) /\ pc \in {"down", "connect"}

IInv == TypeOK /\ WireInv /\ BufInv /\ NextInv /\ ConnInv /\ HandledInOrder
-----------------------------------------------------------------------------
(* Messages, and pieces of the stream.                                     *)

\* A frame has a header, and the length that says.
LEMMA FrameLength ==
  ASSUME TypeOK, NEW k \in 1..Len(sent)
  PROVE  /\ sent[k].len \in Nat /\ sent[k].flag \in BOOLEAN
         /\ FrameLen(sent[k]) = HeadLen + sent[k].len
         /\ FrameLen(sent[k]) \in Nat /\ FrameLen(sent[k]) >= 1
<1>1. sent[k] \in Message
  BY ElementOfSeq DEF TypeOK
<1>2. sent[k].len \in Nat /\ sent[k].flag \in BOOLEAN
  BY <1>1, LensAssumption DEF Message
<1> QED BY <1>2, HeadAssumption DEF FrameLen

\* What a read takes off the stream and what it leaves there.
LEMMA GotFacts ==
  ASSUME TypeOK, NEW n \in Nat
  PROVE  /\ Got(n) \in Seq(Unit) /\ Rest(n) \in Seq(Unit)
         /\ Len(Got(n)) \in Nat /\ Len(Got(n)) <= n /\ Len(Got(n)) <= Len(wire)
         /\ Len(Got(n)) = n \/ Len(Got(n)) = Len(wire)
         /\ \A j \in 1..Len(Got(n)) : Got(n)[j] = wire[j]
         /\ Len(Rest(n)) = Len(wire) - Len(Got(n))
         /\ \A j \in 1..Len(Rest(n)) : Rest(n)[j] = wire[j + Len(Got(n))]
<1> DEFINE top == IF Len(wire) < n THEN Len(wire) ELSE n
<1>1. /\ wire \in Seq(Unit) /\ Len(wire) \in Nat
      /\ \A j \in 1..Len(wire) : wire[j] \in Unit
  BY LenProperties DEF TypeOK
<1>2. top \in Nat /\ top <= n /\ top <= Len(wire) /\ (top = n \/ top = Len(wire))
  BY <1>1
<1> HIDE DEF top
<1>3. /\ SubSeq(wire, 1, top) \in Seq(Unit) /\ Len(SubSeq(wire, 1, top)) = top
      /\ \A j \in 1..top : SubSeq(wire, 1, top)[j] = wire[j]
  <2>1. \A j \in 1..top : wire[j] \in Unit
    BY <1>1, <1>2
  <2> QED BY <1>2, <2>1, SubSeqProperties
<1>4. Got(n) = SubSeq(wire, 1, top)
  BY DEF Got, top
<1>5. Rest(n) = SubSeq(wire, 1 + top, Len(wire))
  BY <1>3, <1>4 DEF Rest
<1>6. /\ Rest(n) \in Seq(Unit) /\ Len(Rest(n)) = Len(wire) - top
      /\ \A j \in 1..(Len(wire) - top) : Rest(n)[j] = wire[j + top]
  <2>1. \A j \in (1 + top)..Len(wire) : wire[j] \in Unit
    BY <1>1, <1>2
  <2>2. /\ Rest(n) \in Seq(Unit)
        /\ Len(Rest(n)) = IF 1 + top <= Len(wire) THEN Len(wire) - (1 + top) + 1 ELSE 0
        /\ \A j \in 1..(Len(wire) - (1 + top) + 1) : Rest(n)[j] = wire[(1 + top) + j - 1]
    BY <1>1, <1>2, <1>5, <2>1, SubSeqProperties
  <2> QED BY <1>1, <1>2, <2>2
<1> QED BY <1>1, <1>2, <1>3, <1>4, <1>6

\* A read leaves a stream.
LEMMA RestIsWire ==
  ASSUME IInv, NEW n \in Nat, wire' = Rest(n), UNCHANGED <<conn, serverVars>>
  PROVE  WireInv'
<1> USE DEF IInv, serverVars
<1> DEFINE g == Len(Got(n))
<1>1. /\ g \in Nat /\ g <= Len(wire) /\ Len(wire) \in Nat /\ wire' \in Seq(Unit)
      /\ Len(wire') = Len(wire) - g /\ \A j \in 1..Len(wire') : wire'[j] = wire[j + g]
  BY GotFacts, LenProperties DEF TypeOK
<1> HIDE DEF g
<1>2. Len(sent)' = Len(sent) /\ \A k \in 1..Len(sent) : FrameLen(sent[k])' = FrameLen(sent[k])
  BY DEF FrameLen
<1>3. \A j \in 1..Len(wire') : j + g \in 1..Len(wire)
  BY <1>1
<1>4. wire' # <<>> => Len(wire') \in 1..Len(wire') /\ Len(wire') + g = Len(wire) /\ wire # <<>>
  BY <1>1, EmptySeq
<1>5. conn' \notin {"open", "eof"} => wire' = <<>>
  <2>1. wire = <<>> => Len(wire') = 0
    BY <1>1
  <2> QED BY <1>1, <2>1, EmptySeq DEF WireInv
<1>6. sent' # <<>> => out' \in 1..FrameLen(sent[Len(sent)])'
  BY DEF WireInv, FrameLen
<1>7. \A i \in 1..Len(wire') :
         /\ wire'[i][1] \in 1..Len(sent')
         /\ wire'[i][2] \in 1..FrameLen(sent'[wire'[i][1]])
         /\ wire'[i][1] = Len(sent') => wire'[i][2] <= out'
  BY <1>1, <1>3 DEF WireInv, FrameLen
<1>8. ASSUME NEW i \in 1..Len(wire'), NEW m \in 1..Len(wire')
      PROVE  LET rest == FrameLen(sent'[wire'[i][1]]) - wire'[i][2] IN
             /\ i <= m /\ m - i <= rest => wire'[m] = <<wire'[i][1], wire'[i][2] + (m - i)>>
             /\ m - i = rest + 1 => wire'[m] = <<wire'[i][1] + 1, 1>>
  <2>1. i + g \in 1..Len(wire) /\ m + g \in 1..Len(wire) /\ (m + g) - (i + g) = m - i
        /\ (i <= m <=> i + g <= m + g)
    BY <1>1, <1>3
  <2>2. wire'[i] = wire[i + g] /\ wire'[m] = wire[m + g] /\ sent' = sent
    BY <1>1
  <2>3. LET rest == FrameLen(sent[wire[i + g][1]]) - wire[i + g][2] IN
        /\ i + g <= m + g /\ (m + g) - (i + g) <= rest
             => wire[m + g] = <<wire[i + g][1], wire[i + g][2] + ((m + g) - (i + g))>>
        /\ (m + g) - (i + g) = rest + 1 => wire[m + g] = <<wire[i + g][1] + 1, 1>>
    BY <2>1 DEF WireInv
  <2> QED BY <2>1, <2>2, <2>3
<1>9. wire' # <<>> => wire'[Len(wire')] = <<Len(sent'), out'>>
  BY <1>1, <1>4 DEF WireInv
<1>10. Len(sent') <= MaxSent
  BY DEF WireInv
<1> QED BY <1>5, <1>6, <1>7, <1>8, <1>9, <1>10 DEF WireInv

\* A read within the next message gets what the buffer waits for, and the stream
\* goes on after that.
LEMMA ReadUnits ==
  ASSUME IInv, Connected, NEW n \in Nat, Cur \in 1..Len(sent), Done + n <= FrameLen(sent[Cur])
  PROVE  /\ \A j \in 1..Len(Got(n)) : Got(n)[j] = <<Cur, Done + j>>
         /\ Rest(n) # <<>> => Rest(n)[1] = Upcoming(Cur, Done + Len(Got(n)))
         /\ Rest(n) = <<>> /\ conn # "reset" =>
              Upcoming(Cur, Done + Len(Got(n))) = IF AtBoundary THEN <<Len(sent) + 1, 1>>
                                                                ELSE <<Len(sent), out + 1>>
         /\ Cur = Len(sent) => Done + Len(Got(n)) <= out
<1> USE DEF IInv
<1> DEFINE g == Len(Got(n))
<1>1. /\ g \in Nat /\ g <= n /\ g <= Len(wire) /\ Len(wire) \in Nat
      /\ \A j \in 1..g : Got(n)[j] = wire[j]
      /\ Len(Rest(n)) = Len(wire) - g
      /\ \A j \in 1..Len(Rest(n)) : Rest(n)[j] = wire[j + g]
      /\ Rest(n) \in Seq(Unit) /\ wire \in Seq(Unit)
  BY GotFacts, LenProperties DEF TypeOK
<1>2. Done \in Nat /\ Cur \in Nat /\ Len(sent) \in Nat /\ out \in Nat
  BY LenProperties DEF TypeOK, Done, Cur
<1> DEFINE F == FrameLen(sent[Cur])
<1>3. F \in Nat /\ F >= 1 /\ Done + n <= F
  BY FrameLength
<1>8. \A r : Upcoming(Cur, r) = IF r = F THEN <<Cur + 1, 1>> ELSE <<Cur, r + 1>>
  BY <1>2 DEF Upcoming
<1> HIDE DEF g, F
<1>4. wire # <<>> => wire[1] = Upcoming(Cur, Done)
  BY DEF NextInv
<1>5. CASE g = 0
  <2>1. Rest(n) = wire
    <3>1. Len(Rest(n)) = Len(wire) /\ \A j \in 1..Len(wire) : Rest(n)[j] = wire[j]
      BY <1>1, <1>5
    <3> QED BY <1>1, <3>1, SeqEqual
  <2>2. Done + g = Done
    BY <1>2, <1>5
  <2>3. Cur = Len(sent) => Done <= out
    BY DEF NextInv
  <2>4. wire = <<>> /\ conn # "reset" =>
          Upcoming(Cur, Done) = IF AtBoundary THEN <<Len(sent) + 1, 1>> ELSE <<Len(sent), out + 1>>
    BY DEF NextInv
  <2>5. \A j \in 1..g : Got(n)[j] = <<Cur, Done + j>>
    BY <1>5
  <2> QED BY <1>4, <2>1, <2>2, <2>3, <2>4, <2>5 DEF g
<1>6. CASE g > 0
  <2>1. wire # <<>> /\ 1 \in 1..Len(wire) /\ g \in 1..Len(wire)
    BY <1>1, <1>6, EmptySeq
  <2>2. Done # F
    BY <1>1, <1>2, <1>3, <1>6
  <2>3. wire[1] = <<Cur, Done + 1>>
    BY <1>4, <1>8, <2>1, <2>2
  <2>4. \A m \in 1..Len(wire) :
          /\ m - 1 <= F - (Done + 1) => wire[m] = <<Cur, (Done + 1) + (m - 1)>>
          /\ m - 1 = (F - (Done + 1)) + 1 => wire[m] = <<Cur + 1, 1>>
    <3> SUFFICES ASSUME NEW m \in 1..Len(wire)
                 PROVE  /\ m - 1 <= F - (Done + 1) => wire[m] = <<Cur, (Done + 1) + (m - 1)>>
                        /\ m - 1 = (F - (Done + 1)) + 1 => wire[m] = <<Cur + 1, 1>>
      OBVIOUS
    <3>1. wire[1][1] = Cur /\ wire[1][2] = Done + 1 /\ FrameLen(sent[wire[1][1]]) = F /\ 1 <= m
      BY <2>3 DEF F
    <3>2. LET rest == FrameLen(sent[wire[1][1]]) - wire[1][2] IN
          /\ 1 <= m /\ m - 1 <= rest => wire[m] = <<wire[1][1], wire[1][2] + (m - 1)>>
          /\ m - 1 = rest + 1 => wire[m] = <<wire[1][1] + 1, 1>>
      BY <2>1 DEF WireInv
    <3> QED BY <3>1, <3>2
  <2>5. \A m \in 1..Len(wire) :
          /\ Done + m <= F => wire[m] = <<Cur, Done + m>>
          /\ Done + m = F + 1 => wire[m] = <<Cur + 1, 1>>
    <3> SUFFICES ASSUME NEW m \in 1..Len(wire)
                 PROVE  /\ Done + m <= F => wire[m] = <<Cur, Done + m>>
                        /\ Done + m = F + 1 => wire[m] = <<Cur + 1, 1>>
      OBVIOUS
    <3>1. /\ (Done + 1) + (m - 1) = Done + m
          /\ m - 1 <= F - (Done + 1) <=> Done + m <= F
          /\ m - 1 = (F - (Done + 1)) + 1 <=> Done + m = F + 1
      BY <1>2, <1>3
    <3> QED BY <2>4, <3>1
  <2>6. \A j \in 1..g : Got(n)[j] = <<Cur, Done + j>>
    BY <1>1, <1>2, <1>3, <2>5
  <2>7. wire[g] = <<Cur, Done + g>> /\ Done + g <= F
    BY <1>1, <1>2, <1>3, <2>1, <2>5
  <2>8. Cur = Len(sent) => Done + g <= out
    BY <2>1, <2>7 DEF WireInv
  <2>9. ASSUME Rest(n) # <<>> PROVE Rest(n)[1] = Upcoming(Cur, Done + g)
    <3>1. Rest(n)[1] = wire[g + 1] /\ g + 1 \in 1..Len(wire)
      BY <1>1, <2>9, EmptySeq
    <3>2. CASE Done + g = F
      <4>1. Done + (g + 1) = F + 1
        BY <1>1, <1>2, <1>3, <3>2
      <4>2. wire[g + 1] = <<Cur + 1, 1>>
        BY <2>5, <3>1, <4>1
      <4> QED BY <1>8, <3>1, <3>2, <4>2
    <3>3. CASE Done + g # F
      <4>1. Done + (g + 1) <= F /\ Done + (g + 1) = (Done + g) + 1
        BY <1>1, <1>2, <1>3, <2>7, <3>3
      <4>2. wire[g + 1] = <<Cur, (Done + g) + 1>>
        BY <2>5, <3>1, <4>1
      <4> QED BY <1>8, <3>1, <3>3, <4>2
    <3> QED BY <3>2, <3>3
  <2>10. ASSUME Rest(n) = <<>>
         PROVE  Upcoming(Cur, Done + g) = IF AtBoundary THEN <<Len(sent) + 1, 1>>
                                                        ELSE <<Len(sent), out + 1>>
    <3>1. g = Len(wire)
      BY <1>1, <2>10
    <3>2. Cur = Len(sent) /\ Done + g = out
      BY <2>1, <2>7, <3>1 DEF WireInv
    <3>3. AtBoundary <=> Done + g = F
      BY <3>2, EmptySeq DEF AtBoundary, F, TypeOK
    <3> QED BY <1>8, <3>2, <3>3
  <2> QED BY <2>6, <2>8, <2>9, <2>10 DEF g
<1>7. g = 0 \/ g > 0
  BY <1>1
<1> QED BY <1>5, <1>6, <1>7
-----------------------------------------------------------------------------
(* The steps of the server.                                                *)

\* A message more does not disturb what has been read and handled.
LEMMA MoreSent ==
  ASSUME IInv, UNCHANGED <<pc, bufVars, handled>>, conn' = conn,
         Len(sent') \in Nat, Len(sent) <= Len(sent'),
         \A k \in 1..Len(sent) : sent'[k] = sent[k]
  PROVE  BufInv' /\ ConnInv' /\ HandledInOrder'
<1> USE DEF IInv, bufVars
<1>1. Len(handled) \in Nat /\ Len(sent) \in Nat /\ Len(head) \in Nat
  BY LenProperties DEF TypeOK
<1>2. Len(handled) <= Len(sent)
  BY DEF HandledInOrder
<1>3. \A k \in 1..Len(handled) : k \in 1..Len(sent) /\ sent'[k] = sent[k]
  BY <1>1, <1>2
<1>4. BufInv'
  <2>1. CASE head = <<>>
    <3>1. Len(head') = 0 /\ 0 < HeadLen /\ Len(head') # HeadLen /\ head' = <<>>
      BY <2>1, HeadAssumption, EmptySeq
    <3>2. Connected' => Connected /\ context' = <<>> /\ Len(context') = 0
      BY <2>1, <3>1, EmptySeq DEF BufInv, Connected
    <3> QED BY <3>1, <3>2 DEF BufInv, Connected
  <2>2. CASE head # <<>> /\ Connected
    <3>1. Cur \in 1..Len(sent)
      BY <1>1, <2>2 DEF BufInv, Cur
    <3>2. sent'[Cur] = sent[Cur] /\ Cur <= Len(sent')
      BY <1>1, <3>1
    <3> QED BY <2>2, <3>2 DEF BufInv, Connected, Cur
  <2>3. CASE ~Connected
    BY <2>3 DEF BufInv, Connected
  <2> QED BY <2>1, <2>2, <2>3
<1>5. ConnInv'
  BY <1>3 DEF ConnInv
<1>6. HandledInOrder'
  BY <1>1, <1>2, <1>3 DEF HandledInOrder, Frame, FrameLen
<1> QED BY <1>4, <1>5, <1>6

\* The next message begins.
LEMMA BeginsInv == ASSUME IInv, NEW m \in Message, ServerBegins(m) PROVE IInv'
<1> USE DEF IInv
<1> DEFINE K == Len(sent) + 1
           L == Len(wire)
<1>1. /\ conn = "open" /\ AtBoundary /\ Len(sent) < MaxSent
      /\ sent' = Append(sent, m) /\ out' = 1 /\ wire' = Append(wire, <<K, 1>>)
      /\ UNCHANGED <<pc, bufVars, conn, handled, conns>>
  BY DEF ServerBegins
<1>2. /\ sent \in Seq(Message) /\ Len(sent) \in Nat /\ wire \in Seq(Unit) /\ L \in Nat
      /\ MaxSent \in Nat
  BY LenProperties, SessionBounds DEF TypeOK
<1>3. <<K, 1>> \in Unit
  BY <1>1, <1>2 DEF Unit
<1>4. /\ sent' \in Seq(Message) /\ Len(sent') = K /\ sent'[K] = m /\ sent' # <<>>
      /\ \A k \in 1..Len(sent) : sent'[k] = sent[k]
  BY <1>1, <1>2, AppendProperties
<1>5. /\ wire' \in Seq(Unit) /\ Len(wire') = L + 1 /\ wire'[L + 1] = <<K, 1>> /\ wire' # <<>>
      /\ \A k \in 1..L : wire'[k] = wire[k]
  BY <1>1, <1>2, <1>3, AppendProperties
<1>6. FrameLen(m) \in Nat /\ FrameLen(m) >= 1
  <2>1. m.len \in Nat
    BY LensAssumption DEF Message
  <2> QED BY <2>1, HeadAssumption DEF FrameLen
<1>7. BufInv' /\ ConnInv' /\ HandledInOrder'
  BY <1>1, <1>2, <1>4, MoreSent
<1> HIDE DEF K, L
<1>8. K \in Nat /\ K = Len(sent) + 1 /\ K >= 1
  BY <1>2 DEF K
<1>9. TypeOK'
  <2>1. Connected' = Connected
    BY <1>1 DEF Connected
  <2>2. Connected /\ context # <<>> =>
          Len(head) = HeadLen /\ Len(context) <= sent'[head[1][1]].len
    <3> SUFFICES ASSUME Connected, context # <<>>
                 PROVE  Len(head) = HeadLen /\ Len(context) <= sent'[head[1][1]].len
      OBVIOUS
    <3>1. Len(head) = HeadLen /\ Len(context) <= sent[head[1][1]].len
      BY DEF TypeOK
    <3>2. 1 \in 1..Len(head) /\ head # <<>>
      BY <3>1, HeadAssumption, EmptySeq
    <3>3. head[1][1] = Cur /\ Cur \in 1..Len(sent)
      BY <3>2, LenProperties DEF BufInv, Cur, TypeOK
    <3> QED BY <1>4, <3>1, <3>3
  <2> QED BY <1>1, <1>4, <1>5, <2>1, <2>2 DEF TypeOK, bufVars
<1>10. WireInv'
  <2>1. \A k \in 1..Len(sent) : sent'[k] = sent[k] /\ FrameLen(sent'[k]) = FrameLen(sent[k])
    BY <1>4
  <2>2. \A i \in 1..L : /\ wire'[i] = wire[i] /\ wire[i][1] \in 1..Len(sent)
                        /\ wire[i][2] \in 1..FrameLen(sent[wire[i][1]])
                        /\ FrameLen(sent'[wire[i][1]]) = FrameLen(sent[wire[i][1]])
    BY <1>5, <2>1 DEF WireInv, L
  <2>3. \A i \in 1..Len(wire') : i \in 1..L \/ i = L + 1
    BY <1>2, <1>5
  <2>4. ASSUME NEW i \in 1..Len(wire')
        PROVE  /\ wire'[i][1] \in 1..Len(sent')
               /\ wire'[i][2] \in 1..FrameLen(sent'[wire'[i][1]])
               /\ wire'[i][1] = Len(sent') => wire'[i][2] <= out'
    <3>1. CASE i \in 1..L
      BY <1>2, <1>4, <1>8, <2>2, <3>1
    <3>2. CASE i = L + 1
      BY <1>1, <1>4, <1>5, <1>6, <1>8, <3>2
    <3> QED BY <2>3, <3>1, <3>2
  <2>5. ASSUME NEW i \in 1..Len(wire'), NEW n \in 1..Len(wire')
        PROVE  LET rest == FrameLen(sent'[wire'[i][1]]) - wire'[i][2] IN
               /\ i <= n /\ n - i <= rest => wire'[n] = <<wire'[i][1], wire'[i][2] + (n - i)>>
               /\ n - i = rest + 1 => wire'[n] = <<wire'[i][1] + 1, 1>>
    <3>1. CASE i \in 1..L /\ n \in 1..L
      <4>1. /\ wire'[i] = wire[i] /\ wire'[n] = wire[n]
            /\ FrameLen(sent'[wire[i][1]]) = FrameLen(sent[wire[i][1]])
        BY <2>2, <3>1
      <4>2. LET rest == FrameLen(sent[wire[i][1]]) - wire[i][2] IN
            /\ i <= n /\ n - i <= rest => wire[n] = <<wire[i][1], wire[i][2] + (n - i)>>
            /\ n - i = rest + 1 => wire[n] = <<wire[i][1] + 1, 1>>
        BY <3>1 DEF WireInv, L
      <4> QED BY <4>1, <4>2
    <3>2. CASE i \in 1..L /\ n = L + 1
      <4> DEFINE k == wire[i][1]
                 j == wire[i][2]
                 rest == FrameLen(sent[k]) - j
      <4>1. k \in 1..Len(sent) /\ j \in Nat /\ FrameLen(sent[k]) \in Nat /\ j <= FrameLen(sent[k])
        BY <2>2, <3>2, FrameLength
      <4>2. L \in 1..L /\ i <= L /\ i \in Nat /\ wire # <<>>
        BY <1>2, <3>2, EmptySeq DEF L
      <4>3. L - i <= rest => wire[L] = <<k, j + (L - i)>>
        BY <3>2, <4>2 DEF WireInv, L
      <4>4. wire[L] = <<Len(sent), out>>
        BY <4>2 DEF WireInv, L
      <4>5. sent # <<>>
        BY <1>2, <4>1, EmptySeq
      <4>6. out = FrameLen(sent[Len(sent)])
        BY <1>1, <4>5 DEF AtBoundary
      <4> HIDE DEF k, j
      <4>7. L - i <= rest => k = Len(sent) /\ j + (L - i) = FrameLen(sent[k])
        BY <4>3, <4>4, <4>6
      <4>8. ~(n - i <= rest)
        BY <1>2, <3>2, <4>1, <4>2, <4>7
      <4>9. n - i = rest + 1 => wire'[n] = <<k + 1, 1>>
        <5>1. n - i = rest + 1 => L - i <= rest
          BY <1>2, <3>2, <4>1, <4>2
        <5> QED BY <1>5, <1>8, <3>2, <4>7, <5>1
      <4>10. wire'[i] = wire[i] /\ FrameLen(sent'[wire[i][1]]) = FrameLen(sent[wire[i][1]])
        BY <2>2, <3>2
      <4> QED BY <4>8, <4>9, <4>10 DEF k, j
    <3>3. CASE i = L + 1 /\ n \in 1..L
      <4>1. wire'[i] = <<K, 1>> /\ sent'[K] = m
        BY <1>4, <1>5, <3>3
      <4>2. ~(i <= n) /\ n - i < FrameLen(m) - 1 + 1
        BY <1>2, <1>6, <3>3
      <4> QED BY <1>6, <1>2, <3>3, <4>1, <4>2
    <3>4. CASE i = L + 1 /\ n = L + 1
      <4>1. wire'[i] = <<K, 1>> /\ wire'[n] = <<K, 1>> /\ sent'[K] = m
        BY <1>4, <1>5, <3>4
      <4>2. n - i = 0 /\ 1 + (n - i) = 1
        BY <1>2, <3>4
      <4> QED BY <1>6, <4>1, <4>2
    <3> QED BY <2>3, <3>1, <3>2, <3>3, <3>4
  <2>6. wire'[Len(wire')] = <<Len(sent'), out'>>
    BY <1>1, <1>4, <1>5
  <2>7. out' \in 1..FrameLen(sent'[Len(sent')])
    BY <1>1, <1>4, <1>6
  <2>8. Len(sent') <= MaxSent
    BY <1>1, <1>2, <1>4, <1>8
  <2> QED BY <1>1, <2>4, <2>5, <2>6, <2>7, <2>8 DEF WireInv
<1>11. NextInv'
  <2> SUFFICES ASSUME pc = "login" \/ Connected
               PROVE  /\ wire'[1] = (Upcoming(Cur, Done))'
                      /\ Cur = Len(sent') => Done <= 1
                      /\ ~(Cur > Len(sent'))
    BY <1>1, <1>5 DEF NextInv, Connected, Cur, Done, bufVars
  <2>1. Cur \in Nat /\ Done \in Nat /\ Cur >= 1
    BY LenProperties DEF TypeOK, Cur, Done
  <2>2. Cur <= K /\ (Cur = K => Done = 0)
    BY <1>2, <1>8, <2>1 DEF NextInv
  <2>3. Upcoming(Cur, Done)' = Upcoming(Cur, Done)
    <3>1. Cur' = Cur /\ Done' = Done
      BY <1>1 DEF Cur, Done, Connected, bufVars
    <3>2. CASE Cur = K
      <4>1. ~(Cur <= Len(sent)) /\ Done # FrameLen(m)
        BY <1>2, <1>6, <1>8, <2>2, <3>2
      <4> QED BY <1>4, <3>1, <3>2, <4>1 DEF Upcoming
    <3>3. CASE Cur # K
      <4>1. Cur \in 1..Len(sent) /\ Cur <= K
        BY <1>2, <1>8, <2>1, <2>2, <3>3
      <4>2. sent'[Cur] = sent[Cur] /\ Cur <= Len(sent) /\ Cur <= Len(sent')
        BY <1>4, <4>1
      <4> QED BY <3>1, <4>2 DEF Upcoming, FrameLen
    <3> QED BY <3>2, <3>3
  <2>4. wire'[1] = Upcoming(Cur, Done)
    <3>1. CASE wire = <<>>
      <4>1. L = 0
        BY <3>1 DEF L
      <4> QED BY <1>1, <1>5, <3>1, <4>1 DEF NextInv, K
    <3>2. CASE wire # <<>>
      <4>1. 1 \in 1..L
        BY <1>2, <3>2, EmptySeq DEF L
      <4> QED BY <1>5, <3>2, <4>1 DEF NextInv
    <3> QED BY <3>1, <3>2
  <2> QED BY <1>4, <1>8, <2>1, <2>2, <2>3, <2>4
<1> QED BY <1>7, <1>9, <1>10, <1>11

\* The message under way goes on.
LEMMA GoesOnInv == ASSUME IInv, ServerGoesOn PROVE IInv'
<1> USE DEF IInv
<1> DEFINE K == Len(sent)
           L == Len(wire)
<1>1. /\ conn = "open" /\ ~AtBoundary
      /\ out' = out + 1 /\ wire' = Append(wire, <<K, out + 1>>)
      /\ UNCHANGED <<pc, bufVars, conn, sent, handled, conns>>
  BY DEF ServerGoesOn
<1>2. /\ sent \in Seq(Message) /\ K \in Nat /\ wire \in Seq(Unit) /\ L \in Nat
      /\ MaxSent \in Nat /\ out \in Nat
  BY LenProperties, SessionBounds DEF TypeOK
<1>3. sent # <<>> /\ out # FrameLen(sent[K])
  BY <1>1 DEF AtBoundary
<1>4. K \in 1..Len(sent) /\ K >= 1
  BY <1>2, <1>3, EmptySeq
<1> DEFINE F == FrameLen(sent[K])
<1>5. F \in Nat /\ out >= 1 /\ out + 1 <= F
  BY <1>2, <1>3, <1>4, FrameLength DEF WireInv
<1>6. <<K, out + 1>> \in Unit
  BY <1>2, <1>4 DEF Unit, WireInv
<1>7. /\ wire' \in Seq(Unit) /\ Len(wire') = L + 1 /\ wire'[L + 1] = <<K, out + 1>>
      /\ wire' # <<>> /\ \A k \in 1..L : wire'[k] = wire[k]
  BY <1>1, <1>2, <1>6, AppendProperties
<1>8. BufInv' /\ ConnInv' /\ HandledInOrder'
  BY <1>1, <1>2, MoreSent
<1>9. TypeOK'
  BY <1>1, <1>2, <1>7 DEF TypeOK, Connected, bufVars
<1> HIDE DEF K, L, F
<1>10. WireInv'
  <2>1. \A i \in 1..L : /\ wire'[i] = wire[i] /\ wire[i][1] \in 1..K
                        /\ wire[i][2] \in 1..FrameLen(sent[wire[i][1]])
                        /\ wire[i][1] = K => wire[i][2] <= out
    BY <1>7 DEF WireInv, L, K
  <2>2. \A i \in 1..Len(wire') : i \in 1..L \/ i = L + 1
    BY <1>2, <1>7
  <2>3. ASSUME NEW i \in 1..Len(wire')
        PROVE  /\ wire'[i][1] \in 1..K
               /\ wire'[i][2] \in 1..FrameLen(sent[wire'[i][1]])
               /\ wire'[i][1] = K => wire'[i][2] <= out'
    <3>1. CASE i \in 1..L
      <4>1. wire[i][2] \in Nat
        BY <1>2, <3>1 DEF Unit, L
      <4> QED BY <1>1, <1>2, <2>1, <3>1, <4>1
    <3>2. CASE i = L + 1
      <4>1. wire'[i] = <<K, out + 1>> /\ FrameLen(sent[K]) = F /\ K \in 1..K
        BY <1>2, <1>4, <1>7, <3>2 DEF F
      <4> QED BY <1>1, <1>2, <1>5, <4>1
    <3> QED BY <2>2, <3>1, <3>2
  <2>4. ASSUME NEW i \in 1..Len(wire'), NEW n \in 1..Len(wire')
        PROVE  LET rest == FrameLen(sent[wire'[i][1]]) - wire'[i][2] IN
               /\ i <= n /\ n - i <= rest => wire'[n] = <<wire'[i][1], wire'[i][2] + (n - i)>>
               /\ n - i = rest + 1 => wire'[n] = <<wire'[i][1] + 1, 1>>
    <3>1. CASE i \in 1..L /\ n \in 1..L
      BY <2>1, <3>1 DEF WireInv, L
    <3>2. CASE i \in 1..L /\ n = L + 1
      <4> DEFINE k == wire[i][1]
                 j == wire[i][2]
                 rest == FrameLen(sent[k]) - j
      <4>1. k \in 1..Len(sent) /\ j \in Nat /\ FrameLen(sent[k]) \in Nat /\ j <= FrameLen(sent[k])
        BY <2>1, <3>2, FrameLength DEF K
      <4>2. L \in 1..L /\ i <= L /\ i \in Nat /\ wire # <<>>
        BY <1>2, <3>2, EmptySeq DEF L
      <4>3. L - i <= rest => wire[L] = <<k, j + (L - i)>>
        BY <3>2, <4>2 DEF WireInv, L
      <4>4. wire[L] = <<K, out>>
        BY <4>2 DEF WireInv, L, K
      <4>5. wire'[i] = wire[i] /\ wire'[n] = <<K, out + 1>>
        BY <1>7, <3>2
      <4> HIDE DEF k, j
      <4>6. L - i <= rest => k = K /\ j + (L - i) = out
        BY <4>3, <4>4
      <4>7. n - i <= rest => wire'[n] = <<k, j + (n - i)>>
        <5>1. n - i <= rest => L - i <= rest /\ j + (n - i) = (j + (L - i)) + 1
          BY <1>2, <3>2, <4>1, <4>2
        <5> QED BY <4>5, <4>6, <5>1
      <4>8. ~(n - i = rest + 1)
        <5>1. n - i = rest + 1 => L - i <= rest /\ j + (L - i) = FrameLen(sent[k])
          BY <1>2, <3>2, <4>1, <4>2
        <5> QED BY <1>5, <1>2, <4>6, <5>1 DEF F
      <4> QED BY <4>5, <4>7, <4>8 DEF k, j
    <3>3. CASE i = L + 1 /\ n \in 1..L
      <4>1. wire'[i][2] = out + 1 /\ FrameLen(sent[wire'[i][1]]) = F
        BY <1>7, <3>3 DEF F
      <4>2. ~(i <= n) /\ n - i < F - (out + 1) + 1
        BY <1>2, <1>5, <3>3
      <4> QED BY <1>2, <1>5, <3>3, <4>1, <4>2
    <3>4. CASE i = L + 1 /\ n = L + 1
      <4>1. wire'[i] = <<K, out + 1>> /\ wire'[n] = <<K, out + 1>> /\ FrameLen(sent[K]) = F
        BY <1>7, <3>4 DEF F
      <4>2. n - i = 0 /\ (out + 1) + (n - i) = out + 1 /\ ~(n - i = F - (out + 1) + 1)
        BY <1>2, <1>5, <3>4
      <4> QED BY <4>1, <4>2
    <3> QED BY <2>2, <3>1, <3>2, <3>3, <3>4
  <2>5. wire'[Len(wire')] = <<K, out'>>
    BY <1>1, <1>7
  <2>6. out' \in 1..FrameLen(sent[K])
    BY <1>1, <1>2, <1>5 DEF F
  <2> QED BY <1>1, <2>3, <2>4, <2>5, <2>6 DEF WireInv, K
<1>11. NextInv'
  <2> SUFFICES ASSUME pc = "login" \/ Connected
               PROVE  /\ wire'[1] = Upcoming(Cur, Done)
                      /\ Cur = K => Done <= out + 1
                      /\ Cur > K => Cur = K + 1 /\ Done = 0
    BY <1>1, <1>7 DEF NextInv, Connected, Cur, Done, bufVars, Upcoming, K
  <2>1. Cur \in Nat /\ Done \in Nat
    BY LenProperties DEF TypeOK, Cur, Done
  <2>2. wire'[1] = Upcoming(Cur, Done)
    <3>1. CASE wire = <<>>
      <4>1. L = 0
        BY <3>1 DEF L
      <4> QED BY <1>1, <1>7, <3>1, <4>1 DEF NextInv, K
    <3>2. CASE wire # <<>>
      <4>1. 1 \in 1..L
        BY <1>2, <3>2, EmptySeq DEF L
      <4> QED BY <1>7, <3>2, <4>1 DEF NextInv
    <3> QED BY <3>1, <3>2
  <2> QED BY <1>2, <2>1, <2>2 DEF NextInv, K
<1> QED BY <1>8, <1>9, <1>10, <1>11

\* The server closes, or the connection is reset.
LEMMA LostInv == ASSUME IInv, ServerCloses \/ ConnectionReset PROVE IInv'
<1> USE DEF IInv
<1>1. /\ conn \in {"open", "eof"} /\ conn' \in {"eof", "reset"}
      /\ conn' = "reset" => wire' = <<>>
      /\ conn' = "eof" => wire' = wire
      /\ UNCHANGED <<pc, bufVars, serverVars, handled, conns>>
  BY DEF ServerCloses, ConnectionReset
<1>2. TypeOK'
  BY <1>1, EmptySeq DEF TypeOK, Connected, bufVars, serverVars
<1>3. WireInv'
  <2>1. CASE conn' = "eof"
    BY <1>1, <2>1 DEF WireInv, serverVars
  <2>2. CASE conn' = "reset"
    <3>1. Len(wire') = 0
      BY <1>1, <2>2, EmptySeq
    <3> QED BY <1>1, <2>2, <3>1 DEF WireInv, serverVars
  <2> QED BY <1>1, <2>1, <2>2
<1>4. BufInv'
  BY <1>1 DEF BufInv, Connected, Cur, bufVars, serverVars
<1>5. NextInv'
  BY <1>1 DEF NextInv, Connected, Cur, Done, Upcoming, AtBoundary, bufVars, serverVars
<1>6. ConnInv'
  BY <1>1 DEF ConnInv, serverVars
<1>7. HandledInOrder'
  BY <1>1 DEF HandledInOrder, Frame, serverVars
<1> QED BY <1>2, <1>3, <1>4, <1>5, <1>6, <1>7
-----------------------------------------------------------------------------
(* The steps of the session thread.                                        *)

\* A connection is made.
LEMMA ConnectInv == ASSUME IInv, Connect PROVE IInv'
<1> USE DEF IInv
<1>1. /\ conns' \in 0..MaxConns /\ conn' = "open" /\ wire' = <<>> /\ sent' = <<>> /\ out' = 0
      /\ handled' = <<>> /\ pc' = "login" /\ UNCHANGED bufVars
  BY SessionBounds DEF Connect, TypeOK
<1>2. Len(wire') = 0 /\ Len(sent') = 0 /\ Len(handled') = 0
  BY <1>1, EmptySeq
<1>3. TypeOK'
  BY <1>1, EmptySeq DEF TypeOK, Connected, bufVars
<1>4. WireInv'
  BY <1>1, <1>2, SessionBounds DEF WireInv
<1>5. BufInv'
  BY <1>1 DEF BufInv, Connected
<1>6. NextInv'
  <2>1. Cur' = 1 /\ Done' = 0
    BY <1>1, <1>2 DEF Cur, Done, Connected
  <2> QED BY <1>1, <1>2, <2>1 DEF NextInv, Upcoming, AtBoundary
<1>7. ConnInv'
  BY <1>1, <1>2 DEF ConnInv
<1>8. HandledInOrder'
  BY <1>1, <1>2 DEF HandledInOrder
<1> QED BY <1>3, <1>4, <1>5, <1>6, <1>7, <1>8

\* The thread logs in, or fails to.
LEMMA LoginInv == ASSUME IInv, Login PROVE IInv'
<1> USE DEF IInv
<1>1. pc = "login" /\ UNCHANGED <<conn, wire, serverVars, handled, conns>>
  BY DEF Login
<1>2. \/ pc' = "select" /\ head' = <<>> /\ context' = <<>> /\ Len(head') = 0 /\ Len(context') = 0
      \/ pc' = "down" /\ UNCHANGED bufVars
  BY EmptySeq DEF Login, InitMesgBuf
<1>3. TypeOK'
  <2>1. CASE pc' = "select"
    <3>1. head' \in Seq(Unit) /\ context' \in Seq(Unit) /\ 0 <= HeadLen
      BY <1>2, <2>1, EmptySeq, HeadAssumption
    <3> QED BY <1>1, <1>2, <2>1, <3>1 DEF TypeOK, serverVars
  <2>2. CASE pc' = "down" /\ UNCHANGED bufVars
    BY <1>1, <2>2 DEF TypeOK, Connected, bufVars, serverVars
  <2> QED BY <1>2, <2>1, <2>2
<1>4. WireInv'
  BY <1>1 DEF WireInv, serverVars
<1>5. BufInv'
  <2>1. CASE pc' = "select"
    <3>1. 0 < HeadLen /\ 0 # HeadLen
      BY HeadAssumption
    <3>2. conn' # "none"
      BY <1>1 DEF ConnInv
    <3> QED BY <1>2, <2>1, <3>1, <3>2 DEF BufInv, Connected
  <2>2. CASE pc' = "down"
    BY <2>2 DEF BufInv, Connected
  <2> QED BY <1>2, <2>1, <2>2
<1>6. NextInv'
  <2>1. CASE pc' = "select"
    <3>1. Done = 0 /\ Done' = 0 /\ Cur' = Cur
      BY <1>1, <1>2, <2>1 DEF Done, Cur, Connected
    <3> QED BY <1>1, <3>1 DEF NextInv, Upcoming, AtBoundary, serverVars
  <2>2. CASE pc' = "down"
    BY <2>2 DEF NextInv, Connected
  <2> QED BY <1>2, <2>1, <2>2
<1>7. ConnInv'
  <2>1. Len(handled') = 0
    BY <1>1, EmptySeq DEF ConnInv
  <2> QED BY <1>1, <1>2, <2>1 DEF ConnInv
<1>8. HandledInOrder'
  BY <1>1 DEF HandledInOrder, Frame, serverVars
<1> QED BY <1>3, <1>4, <1>5, <1>6, <1>7, <1>8

\* A step of the thread that reads nothing: only its place changes.
LEMMA MoveInv ==
  ASSUME IInv, Connected, pc' \in {"select", "read", "down"},
         pc' = "select" => Len(head) < HeadLen \/ Len(context) < sent[Cur].len,
         UNCHANGED <<bufVars, conn, wire, serverVars, handled, conns>>
  PROVE  IInv'
<1> USE DEF IInv
<1>1. TypeOK'
  BY DEF TypeOK, Connected, bufVars, serverVars
<1>2. WireInv'
  BY DEF WireInv, serverVars
<1>3. BufInv'
  BY DEF BufInv, Connected, Cur, bufVars, serverVars
<1>4. NextInv'
  <2>1. Connected' => Done' = Done /\ Cur' = Cur
    BY DEF Done, Cur, Connected, bufVars
  <2>2. pc' # "login"
    OBVIOUS
  <2> QED BY <2>1, <2>2 DEF NextInv, Upcoming, AtBoundary, serverVars
<1>5. ConnInv'
  <2>1. conn # "none" /\ \A k \in 1..Len(handled) : sent[k].flag
    BY DEF BufInv, ConnInv, Connected
  <2> QED BY <2>1 DEF ConnInv, serverVars
<1>6. HandledInOrder'
  BY DEF HandledInOrder, Frame, serverVars
<1> QED BY <1>1, <1>2, <1>3, <1>4, <1>5, <1>6

\* The connection is given up.
LEMMA DisconnectedInv == ASSUME IInv, Disconnected PROVE IInv'
<1> USE DEF IInv
<1>1. /\ conn' = "none" /\ wire' = <<>> /\ pc' = "connect" /\ pc = "down"
      /\ UNCHANGED <<bufVars, serverVars, handled, conns>>
  BY DEF Disconnected
<1>2. Len(wire') = 0
  BY <1>1, EmptySeq
<1>3. TypeOK'
  BY <1>1, EmptySeq DEF TypeOK, Connected, bufVars, serverVars
<1>4. WireInv'
  BY <1>1, <1>2 DEF WireInv, serverVars
<1>5. BufInv' /\ NextInv'
  BY <1>1 DEF BufInv, NextInv, Connected
<1>6. ConnInv'
  BY <1>1 DEF ConnInv, serverVars
<1>7. HandledInOrder'
  BY <1>1 DEF HandledInOrder, Frame, serverVars
<1> QED BY <1>3, <1>4, <1>5, <1>6, <1>7

\* Part of the header is read.
LEMMA ReadHeadInv == ASSUME IInv, ReadHead PROVE IInv'
<1> USE DEF IInv
<1> DEFINE need == HeadLen - Len(head)
           g == Len(Got(need))
<1>1. /\ pc = "read" /\ need > 0 /\ wire # <<>>
      /\ head' = head \o Got(need) /\ wire' = Rest(need)
      /\ pc' = IF Len(head') = HeadLen THEN "read" ELSE "select"
      /\ UNCHANGED <<context, conn, serverVars, handled, conns>>
  BY DEF ReadHead
<1>2. /\ head \in Seq(Unit) /\ Len(head) \in Nat /\ HeadLen \in Nat /\ Len(handled) \in Nat
      /\ Len(sent) \in Nat /\ need \in Nat
  BY <1>1, HeadAssumption, LenProperties DEF TypeOK
<1>3. context = <<>> /\ Len(context) = 0 /\ Connected /\ Connected'
  BY <1>1, <1>2, EmptySeq DEF BufInv, Connected
<1>4. Done = Len(head)
  BY <1>2, <1>3 DEF Done
<1>5. Cur \in 1..Len(sent)
  <2>1. CASE head = <<>>
    <3>1. Done = 0
      BY <1>4, <2>1, EmptySeq
    <3>2. wire[1] = <<Cur, 1>>
      <4>1. wire[1] = Upcoming(Cur, 0)
        BY <1>1, <3>1 DEF NextInv, Connected
      <4>2. Cur <= Len(sent) => FrameLen(sent[Cur]) # 0
        BY <1>2, FrameLength DEF Cur
      <4> QED BY <4>1, <4>2 DEF Upcoming
    <3>3. 1 \in 1..Len(wire)
      BY <1>1, LenProperties, EmptySeq DEF TypeOK
    <3> QED BY <3>2, <3>3 DEF WireInv
  <2>2. CASE head # <<>>
    BY <1>2, <1>3, <2>2 DEF BufInv, Cur
  <2> QED BY <2>1, <2>2
<1>6. /\ sent[Cur].len \in Nat /\ FrameLen(sent[Cur]) = HeadLen + sent[Cur].len
  BY <1>5, FrameLength
<1>7. Done + need <= FrameLen(sent[Cur])
  BY <1>2, <1>4, <1>6
<1>8. /\ \A j \in 1..g : Got(need)[j] = <<Cur, Done + j>>
      /\ Rest(need) # <<>> => Rest(need)[1] = Upcoming(Cur, Done + g)
      /\ Rest(need) = <<>> /\ conn # "reset" =>
           Upcoming(Cur, Done + g) = IF AtBoundary THEN <<Len(sent) + 1, 1>>
                                                   ELSE <<Len(sent), out + 1>>
      /\ Cur = Len(sent) => Done + g <= out
  BY <1>2, <1>3, <1>5, <1>7, ReadUnits
<1>9. Got(need) \in Seq(Unit) /\ Rest(need) \in Seq(Unit) /\ g \in Nat /\ g <= need
  BY <1>2, GotFacts
<1>10. WireInv'
  BY <1>1, <1>2, RestIsWire
<1> HIDE DEF g
<1>11. /\ head' \in Seq(Unit) /\ Len(head') = Len(head) + g
       /\ \A j \in 1..(Len(head) + g) :
            head'[j] = IF j <= Len(head) THEN head[j] ELSE Got(need)[j - Len(head)]
  BY <1>1, <1>2, <1>9, ConcatProperties DEF g
<1> HIDE DEF need
<1>12. Len(head') <= HeadLen
  <2>1. need = HeadLen - Len(head)
    BY DEF need
  <2> QED BY <1>2, <1>9, <1>11, <2>1
<1>13. UNCHANGED <<Cur, sent, out>> /\ Done' = Len(head) + g
  BY <1>1, <1>2, <1>3, <1>9, <1>11 DEF Cur, Done, serverVars
<1>14. TypeOK'
  BY <1>1, <1>3, <1>9, <1>11, <1>12 DEF TypeOK, serverVars
<1>15. \A j \in 1..Len(head') : head'[j] = <<Cur, j>>
  <2> SUFFICES ASSUME NEW j \in 1..(Len(head) + g) PROVE head'[j] = <<Cur, j>>
    BY <1>11
  <2>1. CASE j <= Len(head)
    <3>1. j \in 1..Len(head)
      BY <1>2, <2>1
    <3>2. head[j] = <<Cur, j>>
      BY <1>3, <3>1 DEF BufInv
    <3> QED BY <1>11, <2>1, <3>2
  <2>2. CASE j > Len(head)
    <3>1. j - Len(head) \in 1..g /\ Done + (j - Len(head)) = j /\ ~(j <= Len(head))
      BY <1>2, <1>4, <1>9, <2>2
    <3> QED BY <1>8, <1>11, <3>1
  <2> QED BY <1>2, <2>1, <2>2
<1>16. BufInv'
  <2>1. Len(head') \in Nat
    BY <1>11, LenProperties
  <2>2. Len(head') < HeadLen \/ Len(head') = HeadLen
    BY <1>2, <1>12, <2>1
  <2>3. conn' # "none" /\ context' = <<>> /\ Len(context') = 0
    BY <1>1, <1>3 DEF BufInv
  <2>4. Cur' = Cur /\ Cur' <= Len(sent') /\ 0 <= sent'[Cur'].len
    BY <1>2, <1>5, <1>6, <1>13
  <2>5. pc' = "select" => Len(head') < HeadLen
    BY <1>1, <2>2
  <2>6. pc' # "handle"
    BY <1>1
  <2>7. \A j \in 1..Len(context') : context'[j] = <<Cur', HeadLen + j>>
    BY <2>3
  <2>8. \A j \in 1..Len(head') : head'[j] = <<Cur', j>>
    BY <1>15, <2>4
  <2> QED BY <2>3, <2>4, <2>5, <2>6, <2>7, <2>8 DEF BufInv
<1>17. NextInv'
  <2>1. ~(Cur > Len(sent))
    BY <1>2, <1>5
  <2> QED BY <1>1, <1>4, <1>8, <1>13, <2>1 DEF NextInv, Upcoming, AtBoundary
<1>18. ConnInv'
  <2>1. conn # "none" /\ \A k \in 1..Len(handled) : sent[k].flag
    BY <1>1 DEF ConnInv
  <2> QED BY <1>1, <2>1 DEF ConnInv, serverVars
<1>19. HandledInOrder'
  BY <1>1 DEF HandledInOrder, Frame, serverVars
<1> QED BY <1>10, <1>14, <1>16, <1>17, <1>18, <1>19

\* Part of the body is read.
LEMMA ReadBodyInv == ASSUME IInv, ReadBody PROVE IInv'
<1> USE DEF IInv
<1> DEFINE need == BodyNeed
           g == Len(Got(need))
<1>1. /\ pc = "read" /\ Len(head) = HeadLen
      /\ context' = context \o Got(need) /\ wire' = Rest(need)
      /\ pc' = IF g = need THEN "handle" ELSE "select"
      /\ UNCHANGED <<head, conn, serverVars, handled, conns>>
  BY DEF ReadBody
<1>2. /\ head \in Seq(Unit) /\ Len(head) \in Nat /\ HeadLen \in Nat /\ HeadLen >= 1
      /\ context \in Seq(Unit) /\ Len(context) \in Nat /\ Len(handled) \in Nat /\ Len(sent) \in Nat
  BY HeadAssumption, LenProperties DEF TypeOK
<1>3. Connected /\ Connected'
  BY <1>1 DEF Connected
<1>4. 1 \in 1..Len(head) /\ head # <<>>
  BY <1>1, <1>2, EmptySeq
<1>5. Cur \in 1..Len(sent) /\ head[1][1] = Cur
  BY <1>2, <1>3, <1>4 DEF BufInv, Cur
<1>6. /\ sent[Cur].len \in Nat /\ FrameLen(sent[Cur]) = HeadLen + sent[Cur].len
  BY <1>5, FrameLength
<1>7. Len(context) <= sent[Cur].len /\ need = sent[Cur].len - Len(context) /\ need \in Nat
  BY <1>1, <1>2, <1>3, <1>5, <1>6 DEF BufInv, BodyNeed
<1>8. Done = HeadLen + Len(context) /\ Done + need <= FrameLen(sent[Cur])
  BY <1>1, <1>2, <1>3, <1>6, <1>7 DEF Done
<1>9. /\ \A j \in 1..g : Got(need)[j] = <<Cur, Done + j>>
      /\ Rest(need) # <<>> => Rest(need)[1] = Upcoming(Cur, Done + g)
      /\ Rest(need) = <<>> /\ conn # "reset" =>
           Upcoming(Cur, Done + g) = IF AtBoundary THEN <<Len(sent) + 1, 1>>
                                                   ELSE <<Len(sent), out + 1>>
      /\ Cur = Len(sent) => Done + g <= out
  BY <1>3, <1>5, <1>7, <1>8, ReadUnits
<1>10. Got(need) \in Seq(Unit) /\ Rest(need) \in Seq(Unit) /\ g \in Nat /\ g <= need
  BY <1>7, GotFacts
<1>11. WireInv'
  BY <1>1, <1>7, RestIsWire
<1> HIDE DEF g
<1>12. /\ context' \in Seq(Unit) /\ Len(context') = Len(context) + g
       /\ \A j \in 1..(Len(context) + g) :
            context'[j] = IF j <= Len(context) THEN context[j] ELSE Got(need)[j - Len(context)]
  BY <1>1, <1>2, <1>10, ConcatProperties DEF g
<1> HIDE DEF need
<1>13. /\ UNCHANGED <<Cur, sent, out, head>> /\ Done' = Done + g
  <2>1. Done' = Len(head') + Len(context') /\ Done = Len(head) + Len(context)
    BY <1>3 DEF Done
  <2>2. Len(head) + (Len(context) + g) = (Len(head) + Len(context)) + g
    BY <1>2, <1>10
  <2> QED BY <1>1, <1>12, <2>1, <2>2 DEF Cur, serverVars
<1>14. /\ Len(context') \in Nat /\ Len(context') <= sent[Cur].len
       /\ g = need => Len(context') = sent[Cur].len
       /\ g # need => Len(context') < sent[Cur].len
  <2>1. Len(context') = Len(context) + g
    BY <1>12
  <2>2. /\ sent[Cur].len \in Nat /\ need = sent[Cur].len - Len(context) /\ need \in Nat
        /\ g \in Nat /\ g <= need /\ Len(context) \in Nat
    BY <1>2, <1>6, <1>7, <1>10
  <2> QED BY ONLY <2>1, <2>2
<1>15. TypeOK'
  BY <1>1, <1>5, <1>10, <1>12, <1>13, <1>14 DEF TypeOK, serverVars
<1>16. \A j \in 1..Len(context') : context'[j] = <<Cur, HeadLen + j>>
  <2> SUFFICES ASSUME NEW j \in 1..(Len(context) + g) PROVE context'[j] = <<Cur, HeadLen + j>>
    BY <1>12
  <2>1. CASE j <= Len(context)
    <3>1. j \in 1..Len(context)
      BY <1>2, <2>1
    <3>2. context[j] = <<Cur, HeadLen + j>>
      BY <1>3, <3>1 DEF BufInv
    <3> QED BY <1>12, <2>1, <3>2
  <2>2. CASE j > Len(context)
    <3>1. /\ j - Len(context) \in 1..g /\ ~(j <= Len(context))
          /\ Done + (j - Len(context)) = HeadLen + j
      BY <1>2, <1>8, <1>10, <2>2
    <3> QED BY <1>9, <1>12, <3>1
  <2> QED BY <1>2, <2>1, <2>2
<1>17. BufInv'
  <2>1. conn' # "none" /\ Len(head') = HeadLen /\ ~(HeadLen < HeadLen) /\ Cur' = Cur
        /\ Cur <= Len(sent') /\ sent' = sent
    BY <1>1, <1>2, <1>3, <1>5, <1>13 DEF BufInv
  <2>2. \A j \in 1..Len(head') : head'[j] = <<Cur, j>>
    BY <1>3, <1>13 DEF BufInv
  <2>3. pc' = "select" => Len(context') < sent[Cur].len
    BY <1>1, <1>14
  <2>4. pc' = "handle" => Len(context') = sent[Cur].len
    BY <1>1, <1>14
  <2> QED BY <1>14, <1>16, <2>1, <2>2, <2>3, <2>4 DEF BufInv
<1>18. NextInv'
  <2>1. ~(Cur > Len(sent))
    BY <1>2, <1>5
  <2> QED BY <1>1, <1>9, <1>13, <2>1 DEF NextInv, Upcoming, AtBoundary
<1>19. ConnInv'
  <2>1. conn # "none" /\ \A k \in 1..Len(handled) : sent[k].flag
    BY <1>1 DEF ConnInv
  <2> QED BY <1>1, <2>1 DEF ConnInv, serverVars
<1>20. HandledInOrder'
  BY <1>1 DEF HandledInOrder, Frame, serverVars
<1> QED BY <1>11, <1>15, <1>17, <1>18, <1>19, <1>20

\* What is handled is the next message, whole.
LEMMA HandlesWhole ==
  ASSUME IInv, pc = "handle"
  PROVE  /\ Cur \in 1..Len(sent) /\ head[1][1] = Cur /\ Done = FrameLen(sent[Cur])
         /\ head \o context = Frame(Cur) /\ head \o context \in Seq(Unit)
         /\ Cur = Len(sent) => AtBoundary
<1> USE DEF IInv
<1>1. /\ Connected /\ Len(head) = HeadLen /\ Len(context) = sent[Cur].len
  BY DEF BufInv, Connected
<1>2. /\ head \in Seq(Unit) /\ context \in Seq(Unit) /\ HeadLen \in Nat /\ HeadLen >= 1
      /\ Len(handled) \in Nat /\ Len(sent) \in Nat /\ Len(context) \in Nat
  BY HeadAssumption, LenProperties DEF TypeOK
<1>3. 1 \in 1..Len(head) /\ head # <<>>
  BY <1>1, <1>2, EmptySeq
<1>4. Cur \in 1..Len(sent) /\ head[1][1] = Cur
  BY <1>1, <1>2, <1>3 DEF BufInv, Cur
<1> DEFINE F == FrameLen(sent[Cur])
<1>5. F = Len(head) + Len(context) /\ F \in Nat
  BY <1>1, <1>4, FrameLength
<1>6. Done = F
  BY <1>1, <1>5 DEF Done
<1> HIDE DEF F
<1>7. /\ head \o context \in Seq(Unit) /\ Len(head \o context) = F
      /\ \A j \in 1..F : (head \o context)[j] = IF j <= Len(head) THEN head[j]
                                                ELSE context[j - Len(head)]
  BY <1>2, <1>5, ConcatProperties
<1>8. ASSUME NEW j \in 1..F PROVE (head \o context)[j] = <<Cur, j>>
  <2>1. CASE j <= Len(head)
    <3>1. j \in 1..Len(head)
      BY <2>1
    <3> QED BY <1>1, <1>7, <2>1, <3>1 DEF BufInv
  <2>2. CASE j > Len(head)
    <3>1. j - Len(head) \in 1..Len(context) /\ HeadLen + (j - Len(head)) = j /\ ~(j <= Len(head))
      BY <1>1, <1>2, <1>5, <2>2
    <3>2. context[j - Len(head)] = <<Cur, HeadLen + (j - Len(head))>>
      BY <1>1, <3>1 DEF BufInv
    <3> QED BY <1>7, <3>1, <3>2
  <2> QED BY <1>2, <1>5, <2>1, <2>2
<1>9. head \o context = [j \in 1..F |-> <<Cur, j>>]
  <2>1. head \o context \in [1..F -> Unit]
    BY <1>7, LenProperties
  <2> QED BY <1>8, <2>1
<1>10. Cur = Len(sent) => AtBoundary
  <2> SUFFICES ASSUME Cur = Len(sent) PROVE AtBoundary
    OBVIOUS
  <2>1. sent # <<>>
    BY <1>2, <1>4, EmptySeq
  <2>2. F <= out
    BY <1>1, <1>6 DEF NextInv
  <2>3. out \in 1..F
    BY <2>1 DEF WireInv, F
  <2> QED BY <1>5, <2>2, <2>3 DEF AtBoundary, F
<1> QED BY <1>4, <1>6, <1>7, <1>9, <1>10 DEF Frame, F

LEMMA HandleInv == ASSUME IInv, Handle PROVE IInv'
<1> USE DEF IInv
<1>1. /\ pc = "handle" /\ handled' = Append(handled, head \o context)
      /\ head' = <<>> /\ context' = <<>>
      /\ pc' = IF sent[head[1][1]].flag THEN "select" ELSE "down"
      /\ UNCHANGED <<conn, wire, serverVars, conns>>
  BY DEF Handle, InitMesgBuf
<1>2. /\ Cur \in 1..Len(sent) /\ head[1][1] = Cur /\ Done = FrameLen(sent[Cur])
      /\ head \o context = Frame(Cur) /\ head \o context \in Seq(Unit)
  BY <1>1, HandlesWhole
<1>3. handled \in Seq(Seq(Unit)) /\ Len(handled) \in Nat /\ Len(sent) \in Nat
  BY LenProperties DEF TypeOK
<1>4. /\ handled' \in Seq(Seq(Unit)) /\ Len(handled') = Cur /\ handled'[Cur] = Frame(Cur)
      /\ \A k \in 1..Len(handled) : handled'[k] = handled[k]
  BY <1>1, <1>2, <1>3, AppendProperties DEF Cur
<1>5. Len(head') = 0 /\ Len(context') = 0 /\ head' \in Seq(Unit) /\ context' \in Seq(Unit)
      /\ 0 < HeadLen /\ 0 <= HeadLen /\ 0 # HeadLen
  BY <1>1, EmptySeq, HeadAssumption
<1>6. TypeOK'
  BY <1>1, <1>4, <1>5 DEF TypeOK, serverVars
<1>7. WireInv'
  BY <1>1 DEF WireInv, serverVars
<1>8. Connected /\ conn # "none"
  BY <1>1 DEF BufInv, Connected
<1>9. BufInv'
  BY <1>1, <1>5, <1>8 DEF BufInv, Connected
<1>10. NextInv'
  <2>1. Cur' = Cur + 1 /\ Done' = 0
    BY <1>4, <1>5 DEF Cur, Done
  <2>2. Upcoming(Cur, Done) = <<Cur + 1, 1>>
    BY <1>2, <1>3 DEF Upcoming
  <2>3. Cur + 1 \in 1..Len(sent) => FrameLen(sent[Cur + 1]) # 0
    BY FrameLength
  <2>4. Upcoming(Cur, Done)' = <<Cur + 1, 1>>
    <3>1. Cur + 1 <= Len(sent) => Cur + 1 \in 1..Len(sent)
      BY <1>2, <1>3
    <3> QED BY <1>1, <2>1, <2>3, <3>1 DEF Upcoming, serverVars
  <2>5. 0 <= out /\ (Cur + 1 > Len(sent) => Cur + 1 = Len(sent) + 1)
    BY <1>2, <1>3 DEF TypeOK
  <2> QED BY <1>1, <1>8, <2>1, <2>2, <2>4, <2>5 DEF NextInv, AtBoundary, serverVars
<1>11. HandledInOrder'
  <2>1. \A k \in 1..Cur : k \in 1..Len(handled) \/ k = Cur
    BY <1>3 DEF Cur
  <2>2. \A k \in 1..Cur : handled'[k] = Frame(k)
    BY <1>4, <2>1 DEF HandledInOrder
  <2> QED BY <1>1, <1>2, <1>3, <1>4, <2>2 DEF HandledInOrder, Frame, serverVars
<1>12. ConnInv'
  <2>1. \A k \in 1..Cur : k \in 1..Len(handled) \/ k = Cur
    BY <1>3 DEF Cur
  <2>2. \A k \in 1..Len(handled) : sent[k].flag
    BY <1>1 DEF ConnInv
  <2>3. \A k \in 1..Cur : ~sent[k].flag => k = Cur /\ pc' = "down"
    BY <1>1, <1>2, <2>1, <2>2
  <2> QED BY <1>1, <1>4, <1>8, <2>3 DEF ConnInv, serverVars
<1> QED BY <1>6, <1>7, <1>9, <1>10, <1>11, <1>12

\* Every step preserves the invariant.
LEMMA StepInv == ASSUME IInv, [Next]_vars PROVE IInv'
<1>1. ASSUME NEW m \in Message, ServerBegins(m) PROVE IInv'
  BY <1>1, BeginsInv
<1>2. CASE ServerGoesOn
  BY <1>2, GoesOnInv
<1>3. CASE ServerCloses \/ ConnectionReset
  BY <1>3, LostInv
<1>4. CASE Connect
  BY <1>4, ConnectInv
<1>5. CASE Login
  BY <1>5, LoginInv
<1>6. CASE SelectReadable \/ SelectTimeout \/ SelectError
  BY <1>6, MoveInv DEF SelectReadable, SelectTimeout, SelectError, Connected
<1>7. CASE ReadHead
  BY <1>7, ReadHeadInv
<1>8. CASE ReadHeadEnd
  BY <1>8, MoveInv DEF ReadHeadEnd, Connected
<1>9. CASE ReadBody
  BY <1>9, ReadBodyInv
<1>10. CASE ReadBodyEnd
  <2>1. pc = "read" /\ Len(head) = HeadLen /\ BodyNeed > 0 /\ Connected
    BY <1>10 DEF ReadBodyEnd, Connected
  <2>2. 1 \in 1..Len(head) /\ head # <<>>
    BY <2>1, HeadAssumption, EmptySeq
  <2>3. head[1][1] = Cur /\ Cur \in 1..Len(sent)
    BY <2>1, <2>2, LenProperties DEF IInv, BufInv, TypeOK, Cur
  <2>4. Len(context) < sent[Cur].len
    BY <2>1, <2>3, FrameLength, LenProperties DEF BodyNeed, IInv, TypeOK
  <2> QED BY <1>10, <2>1, <2>4, MoveInv DEF ReadBodyEnd
<1>11. CASE Handle
  BY <1>11, HandleInv
<1>12. CASE Disconnected
  BY <1>12, DisconnectedInv
<1>13. CASE UNCHANGED vars
  <2> USE <1>13 DEF vars, bufVars, serverVars, IInv
  <2>1. TypeOK'
    BY DEF TypeOK, Connected
  <2>2. WireInv'
    BY DEF WireInv
  <2>3. BufInv'
    BY DEF BufInv, Connected, Cur
  <2>4. NextInv'
    BY DEF NextInv, Connected, Cur, Done, Upcoming, AtBoundary
  <2>5. ConnInv' /\ HandledInOrder'
    BY DEF ConnInv, HandledInOrder, Frame
  <2> QED BY <2>1, <2>2, <2>3, <2>4, <2>5
<1> QED BY <1>1, <1>2, <1>3, <1>4, <1>5, <1>6, <1>7, <1>8, <1>9, <1>10, <1>11, <1>12, <1>13
        DEF Next, Server, SessionThread

LEMMA InitInv == Init => IInv
<1> SUFFICES ASSUME Init PROVE IInv
  OBVIOUS
<1>1. Len(wire) = 0 /\ Len(handled) = 0 /\ Len(sent) = 0 /\ Len(head) = 0 /\ 0 <= HeadLen
  BY EmptySeq, HeadAssumption DEF Init
<1>2. TypeOK
  BY <1>1, EmptySeq, SessionBounds DEF Init, TypeOK, Connected
<1>3. WireInv
  BY <1>1, SessionBounds DEF Init, WireInv
<1>4. BufInv /\ NextInv /\ ConnInv /\ HandledInOrder
  BY <1>1 DEF Init, BufInv, NextInv, ConnInv, HandledInOrder, Connected
<1> QED BY <1>2, <1>3, <1>4 DEF IInv
-----------------------------------------------------------------------------
(* What is proved beside the properties of the runs.                       *)

\* The thread sleeps without a timeout nowhere but in a body that has begun and of which
\* the server has not sent the rest: select has been asked before the header is read,
\* the body is read without it (hy_session_handler.c:810-830, 902-938).  With the
\* timeout of select it is the part of SilenceNoticed that needs no fairness.
BlocksOnlyInBody ==
    pc = "read" /\ ~Readable => Len(head) = HeadLen /\ (BodyNeed = 0 \/ ~AtBoundary)

\* How many steps of the thread there are at most before it gives up a connection that
\* has been reset: it may have a message to handle first.
StepsToDown ==
    CASE pc = "read" -> IF Len(head) = HeadLen /\ BodyNeed = 0 THEN 4 ELSE 1
      [] pc = "handle" -> 3
      [] pc = "select" -> 2
      [] pc = "login"  -> 1
      [] OTHER         -> 0

\* From a reset on every step is one of the thread's and brings it nearer to giving the
\* connection up: the part of EndNoticed that needs no fairness
\* (hy_session_handler.c:805-830, 902-938).
ResetNoticedSoon ==
    [][conn = "reset" => conn' = "none" \/ StepsToDown' < StepsToDown]_vars

\* Once the header is there, what is missing of the body.
LEMMA BodyOf ==
  ASSUME IInv, Connected, Len(head) = HeadLen
  PROVE  /\ Cur \in 1..Len(sent) /\ Len(context) \in Nat
         /\ sent[Cur].len \in Nat /\ FrameLen(sent[Cur]) = HeadLen + sent[Cur].len
         /\ BodyNeed = sent[Cur].len - Len(context) /\ Len(context) <= sent[Cur].len
<1>1. 1 \in 1..Len(head) /\ head # <<>>
  BY HeadAssumption, EmptySeq
<1>2. head[1][1] = Cur /\ Cur \in 1..Len(sent) /\ Len(context) <= sent[Cur].len
  BY <1>1, LenProperties DEF IInv, BufInv, TypeOK, Cur
<1>3. TypeOK /\ Len(context) \in Nat
  BY LenProperties DEF IInv, TypeOK
<1> QED BY <1>2, <1>3, FrameLength DEF BodyNeed

\* Before the header is there the thread reads only what it can.
HeadReadable == pc = "read" /\ Len(head) < HeadLen => Readable

LEMMA HeadReadableStep == ASSUME IInv, HeadReadable, [Next]_vars PROVE HeadReadable'
<1>1. ASSUME NEW m \in Message, ServerBegins(m) PROVE HeadReadable'
  <2>1. wire' # <<>>
    BY <1>1, EmptySeq DEF ServerBegins, IInv, TypeOK
  <2> QED BY <2>1 DEF HeadReadable, Readable
<1>2. CASE ServerGoesOn
  <2>1. wire' # <<>>
    BY <1>2, EmptySeq DEF ServerGoesOn, IInv, TypeOK
  <2> QED BY <2>1 DEF HeadReadable, Readable
<1>3. CASE ServerCloses \/ ConnectionReset
  BY <1>3 DEF ServerCloses, ConnectionReset, HeadReadable, Readable
<1>4. CASE SelectReadable
  BY <1>4 DEF SelectReadable, HeadReadable, Readable
<1>5. CASE ReadHead
  <2>1. pc' = "read" => Len(head') = HeadLen
    BY <1>5 DEF ReadHead
  <2> QED BY <2>1, HeadAssumption DEF HeadReadable
<1>6. CASE UNCHANGED vars
  BY <1>6 DEF vars, bufVars, HeadReadable, Readable
<1>7. CASE \/ Connect \/ SelectError \/ Login \/ SelectTimeout \/ ReadHeadEnd \/ ReadBody
           \/ ReadBodyEnd \/ Handle \/ Disconnected
  <2>1. pc' # "read"
    BY <1>7 DEF Connect, SelectError, Login, SelectTimeout, ReadHeadEnd, ReadBody, ReadBodyEnd,
       Handle, Disconnected
  <2> QED BY <2>1 DEF HeadReadable
<1> QED BY <1>1, <1>2, <1>3, <1>4, <1>5, <1>6, <1>7 DEF Next, Server, SessionThread

LEMMA BlocksInBody == IInv /\ HeadReadable => BlocksOnlyInBody
<1> SUFFICES ASSUME IInv, HeadReadable, pc = "read", ~Readable
             PROVE  Len(head) = HeadLen /\ (BodyNeed # 0 /\ AtBoundary => FALSE)
  BY DEF BlocksOnlyInBody
<1>1. /\ Connected /\ wire = <<>> /\ conn = "open" /\ Len(head) = HeadLen
      /\ Len(sent) \in Nat /\ HeadLen \in Nat \ {0}
  <2>1. Len(head) \in Nat /\ Len(head) <= HeadLen
    BY LenProperties DEF IInv, TypeOK
  <2> QED BY <2>1, LenProperties, HeadAssumption DEF IInv, TypeOK, HeadReadable, Readable, Connected
<1> SUFFICES ASSUME BodyNeed # 0, AtBoundary PROVE FALSE
  BY <1>1
<1>2. /\ Cur \in 1..Len(sent) /\ Len(context) \in Nat
      /\ FrameLen(sent[Cur]) = HeadLen + sent[Cur].len /\ sent[Cur].len \in Nat
      /\ Len(context) < sent[Cur].len
  BY <1>1, BodyOf
<1>3. Done = HeadLen + Len(context)
  BY <1>1 DEF Done
<1>4. Upcoming(Cur, Done) = <<Cur, Done + 1>>
  BY <1>1, <1>2, <1>3 DEF Upcoming
<1>5. Upcoming(Cur, Done) = <<Len(sent) + 1, 1>>
  BY <1>1 DEF IInv, NextInv
<1>6. Done + 1 = 1
  BY <1>4, <1>5
<1> QED BY <1>1, <1>2, <1>3, <1>6

\* After a reset every step is one of the thread's.
LEMMA ResetStep ==
  ASSUME IInv, Next, conn = "reset"
  PROVE  conn' = "none" \/ StepsToDown' < StepsToDown
<1>1. ~Server /\ ~Connect
  BY DEF Server, ServerBegins, ServerGoesOn, ServerCloses, ConnectionReset, Connect, IInv, ConnInv
<1>2. CASE Login
  BY <1>2 DEF Login, StepsToDown
<1>3. CASE SelectError \/ SelectTimeout
  BY <1>3 DEF SelectError, SelectTimeout, StepsToDown
<1>4. CASE SelectReadable
  <2>1. pc = "select" /\ pc' = "read" /\ head' = head /\ context' = context /\ sent' = sent
    BY <1>4 DEF SelectReadable, bufVars, serverVars
  <2>2. BodyNeed' = BodyNeed
    BY <2>1 DEF BodyNeed
  <2>3. ~(Len(head) = HeadLen /\ BodyNeed = 0)
    <3> SUFFICES ASSUME Len(head) = HeadLen PROVE BodyNeed # 0
      OBVIOUS
    <3>1. Connected
      BY <2>1 DEF Connected
    <3>2. Len(context) < sent[Cur].len
      BY <2>1, <3>1, HeadAssumption DEF IInv, BufInv
    <3> QED BY <3>1, <3>2, BodyOf
  <2> QED BY <2>1, <2>2, <2>3 DEF StepsToDown
<1>5. CASE ReadHead
  BY <1>5 DEF ReadHead, IInv, WireInv
<1>6. CASE ReadHeadEnd
  <2>1. Len(head) # HeadLen
    BY <1>6, HeadAssumption DEF ReadHeadEnd
  <2> QED BY <1>6, <2>1 DEF ReadHeadEnd, StepsToDown
<1>7. CASE ReadBody
  <2>1. pc = "read" /\ Len(head) = HeadLen /\ BodyNeed = 0 /\ pc' \in {"handle", "select"}
    BY <1>7 DEF ReadBody, IInv, WireInv
  <2> QED BY <2>1 DEF StepsToDown
<1>8. CASE ReadBodyEnd
  <2>1. pc = "read" /\ BodyNeed # 0 /\ pc' = "down"
    <3>1. Connected /\ Len(head) = HeadLen
      BY <1>8 DEF ReadBodyEnd, Connected
    <3> QED BY <1>8, <3>1, BodyOf DEF ReadBodyEnd
  <2> QED BY <2>1 DEF StepsToDown
<1>9. CASE Handle
  BY <1>9 DEF Handle, StepsToDown
<1>10. CASE Disconnected
  BY <1>10 DEF Disconnected
<1> QED BY <1>1, <1>2, <1>3, <1>4, <1>5, <1>6, <1>7, <1>8, <1>9, <1>10 DEF Next, SessionThread
-----------------------------------------------------------------------------
(* The theorems.                                                           *)

LEMMA Invariance == Spec => []IInv
<1>1. IInv /\ [Next]_vars => IInv'
  BY StepInv
<1> QED BY InitInv, <1>1, PTL DEF Spec

\* Every variable keeps its type, and no body outgrows what its header announced.
THEOREM TypeCorrect == Spec => []TypeOK
<1>1. IInv => TypeOK
  BY DEF IInv
<1> QED BY <1>1, Invariance, PTL

\* The frames handled are the messages sent, whole and in order.
THEOREM HandledInOrderCorrect == Spec => []HandledInOrder
<1>1. IInv => HandledInOrder
  BY DEF IInv
<1> QED BY <1>1, Invariance, PTL

\* A message with a wrong flag is the last that is looked at.
THEOREM NothingAfterBadFlagCorrect == Spec => []NothingAfterBadFlag
<1>1. IInv => NothingAfterBadFlag
  BY DEF IInv, ConnInv, NothingAfterBadFlag
<1> QED BY <1>1, Invariance, PTL

\* Whenever the thread sleeps all that has arrived whole has been handled.
THEOREM AllHandledWhenIdleCorrect == Spec => []AllHandledWhenIdle
<1>1. ASSUME IInv PROVE AllHandledWhenIdle
  <2> SUFFICES ASSUME pc = "select", conn # "reset", wire = <<>>
               PROVE  Len(handled) = IF AtBoundary THEN Len(sent) ELSE Len(sent) - 1
    BY DEF AllHandledWhenIdle
  <2>1. /\ Connected /\ Len(head) \in Nat /\ Len(context) \in Nat /\ Len(handled) \in Nat
        /\ Len(sent) \in Nat /\ HeadLen \in Nat /\ Len(head) <= HeadLen
    BY <1>1, LenProperties, HeadAssumption DEF IInv, TypeOK, Connected
  <2>2. Cur <= Len(sent) => Done # FrameLen(sent[Cur])
    <3> SUFFICES ASSUME Cur <= Len(sent) PROVE Done # FrameLen(sent[Cur])
      OBVIOUS
    <3>1. FrameLen(sent[Cur]) = HeadLen + sent[Cur].len /\ sent[Cur].len \in Nat
      BY <1>1, <2>1, FrameLength DEF IInv, Cur
    <3>2. Done = Len(head) + Len(context)
      BY <2>1 DEF Done
    <3>3. CASE Len(head) < HeadLen
      <4>1. Len(context) = 0
        BY <1>1, <2>1, <3>3, EmptySeq DEF IInv, BufInv
      <4> QED BY <2>1, <3>1, <3>2, <3>3, <4>1
    <3>4. CASE Len(context) < sent[Cur].len
      BY <2>1, <3>1, <3>2, <3>4
    <3> QED BY <1>1, <2>1, <3>3, <3>4 DEF IInv, BufInv
  <2>3. Upcoming(Cur, Done) = <<Cur, Done + 1>>
    BY <2>2 DEF Upcoming
  <2>4. <<Cur, Done + 1>> = IF AtBoundary THEN <<Len(sent) + 1, 1>> ELSE <<Len(sent), out + 1>>
    BY <1>1, <2>1, <2>3 DEF IInv, NextInv
  <2>5. Cur = IF AtBoundary THEN Len(sent) + 1 ELSE Len(sent)
    BY <2>4
  <2> QED BY <2>1, <2>5 DEF Cur
<1> QED BY <1>1, Invariance, PTL

\* The thread blocks nowhere but in the middle of a message's body.
THEOREM BlocksOnlyInBodyCorrect == Spec => []BlocksOnlyInBody
<1>1. Init => HeadReadable
  BY DEF Init, HeadReadable
<1>2. IInv /\ HeadReadable /\ [Next]_vars => HeadReadable'
  BY HeadReadableStep
<1> QED BY <1>1, <1>2, BlocksInBody, Invariance, PTL DEF Spec

\* A connection that has been reset is given up within five steps of the thread.
THEOREM ResetNoticedSoonCorrect == Spec => ResetNoticedSoon
<1>1. IInv /\ [Next]_vars
        => [conn = "reset" => conn' = "none" \/ StepsToDown' < StepsToDown]_vars
  BY ResetStep
<1> QED BY <1>1, Invariance, PTL DEF Spec, ResetNoticedSoon
-----------------------------------------------------------------------------
(* The inbox.                                                              *)

\* How many messages have arrived whole, and what the server takes them for.
Count == IF AtBoundary THEN Len(sent) ELSE Len(sent) - 1
CommandOf(k) == [frame |-> Frame(k), flag |-> sent[k].flag]

\* A message is not handled before it has arrived whole.
Whole == Len(handled) = Len(sent) => AtBoundary

LEMMA WholeStep == ASSUME IInv, Whole, [Next]_vars PROVE Whole'
<1> USE DEF IInv
<1>1. Len(sent) \in Nat /\ Len(handled) \in Nat /\ Len(handled) <= Len(sent)
  BY LenProperties DEF TypeOK, HandledInOrder
<1>2. ASSUME NEW m \in Message, ServerBegins(m) PROVE Whole'
  <2>1. sent \in Seq(Message) /\ sent' = Append(sent, m) /\ handled' = handled
    BY <1>2 DEF ServerBegins, TypeOK
  <2>2. Len(sent') = Len(sent) + 1
    BY <2>1, AppendProperties
  <2>3. Len(handled') # Len(sent')
    BY <1>1, <2>1, <2>2
  <2> QED BY <2>3 DEF Whole
<1>3. CASE ServerGoesOn
  BY <1>3 DEF ServerGoesOn, Whole
<1>4. CASE Connect
  BY <1>4 DEF Connect, Whole, AtBoundary
<1>5. CASE Handle
  <2>1. Cur = Len(sent) => AtBoundary
    BY <1>5, HandlesWhole DEF Handle
  <2>2. Len(handled') = Cur
    <3>1. handled \in Seq(Seq(Unit)) /\ head \o context \in Seq(Unit)
      BY <1>5, HandlesWhole DEF Handle, TypeOK
    <3> QED BY <1>5, <3>1, AppendProperties DEF Handle, Cur
  <2> QED BY <1>5, <2>1, <2>2 DEF Handle, Whole, AtBoundary, serverVars
<1>6. CASE UNCHANGED <<handled, serverVars>>
  BY <1>6 DEF Whole, AtBoundary, serverVars
<1>7. \/ \E m \in Message : ServerBegins(m)
      \/ ServerGoesOn \/ Connect \/ Handle \/ UNCHANGED <<handled, serverVars>>
  BY DEF Next, Server, SessionThread, ServerCloses, ConnectionReset, Login, SelectReadable,
     SelectTimeout, SelectError, ReadHead, ReadHeadEnd, ReadBody, ReadBodyEnd, Disconnected,
     vars, serverVars
<1> QED BY <1>2, <1>3, <1>4, <1>5, <1>6, <1>7

LEMMA CountFacts == ASSUME IInv, Whole 
                     PROVE  /\ Count \in Nat /\ Len(handled) \in Nat
                            /\ Count <= Len(sent) /\ Len(handled) <= Count
<1> USE DEF IInv
<1>1. Len(sent) \in Nat /\ Len(handled) \in Nat /\ Len(handled) <= Len(sent)
  BY LenProperties DEF TypeOK, HandledInOrder
<1>2. sent = <<>> => AtBoundary
  BY DEF AtBoundary
<1>3. sent # <<>> => Len(sent) >= 1
  BY <1>1, EmptySeq DEF TypeOK
<1>4. Count \in Nat /\ Count <= Len(sent)
  BY <1>1, <1>2, <1>3 DEF Count
<1> QED BY <1>1, <1>4 DEF Whole, Count

\* A message is a command.
LEMMA CommandType == ASSUME IInv, NEW k \in 1..Len(sent) PROVE CommandOf(k) \in Command
<1> USE DEF IInv
<1>1. sent[k] \in Message
  BY ElementOfSeq DEF TypeOK
<1>2. sent[k].len \in Lens /\ sent[k].flag \in BOOLEAN
  BY <1>1 DEF Message
<1>3. k \in 1..MaxSent
  BY SessionBounds, LenProperties DEF TypeOK, WireInv
<1> DEFINE C(kk, len, flag) == [frame |-> [j \in 1..(HeadLen + len) |-> <<kk, j>>], flag |-> flag]
<1>4. CommandOf(k) = C(k, sent[k].len, sent[k].flag)
  BY DEF CommandOf, Frame, FrameLen
<1>5. Command = {C(kk, len, flag) : kk \in 1..MaxSent, len \in Lens, flag \in BOOLEAN}
  BY DEF Command
<1> HIDE DEF C
<1> QED BY <1>2, <1>3, <1>4, <1>5

\* Both sequences of the inbox are sequences of commands.
InboxTyped ==
    /\ Arrived \in Seq(Command) /\ Len(Arrived) = Count
    /\ \A k \in 1..Count : Arrived[k] = CommandOf(k)
    /\ Executed \in Seq(Command) /\ Len(Executed) = Len(handled)
    /\ \A k \in 1..Len(handled) : Executed[k] = CommandOf(k)

LEMMA InboxType == IInv /\ Whole => InboxTyped
<1> SUFFICES ASSUME IInv, Whole PROVE InboxTyped
  OBVIOUS
<1> USE DEF IInv
<1>1. Count \in Nat /\ Len(handled) \in Nat /\ Count <= Len(sent) /\ Len(handled) <= Count
      /\ Len(sent) \in Nat
  BY CountFacts, LenProperties DEF TypeOK
<1>2. Arrived = [k \in 1..Count |-> CommandOf(k)]
  BY DEF Arrived, Count, CommandOf
<1>3. \A k \in 1..Count : CommandOf(k) \in Command
  BY <1>1, CommandType
<1>4. Executed = [k \in 1..Len(handled) |-> CommandOf(k)]
  BY DEF Executed, CommandOf, HandledInOrder
<1>5. \A k \in 1..Len(handled) : CommandOf(k) \in Command
  BY <1>1, <1>3
<1>6. ASSUME NEW n \in Nat, NEW f, f = [k \in 1..n |-> CommandOf(k)],
             \A k \in 1..n : CommandOf(k) \in Command
      PROVE  f \in Seq(Command) /\ Len(f) = n /\ \A k \in 1..n : f[k] = CommandOf(k)
  <2>1. f \in [1..n -> Command] /\ DOMAIN f = 1..n
    BY <1>6
  <2>2. f \in Seq(Command)
    BY <2>1, SeqDef
  <2>3. Len(f) = n
    BY <2>1, <2>2, LenProperties
  <2> QED BY <1>6, <2>2, <2>3
<1> QED BY <1>1, <1>2, <1>3, <1>4, <1>5, <1>6 DEF InboxTyped

LEMMA NextInboxType == IInv' /\ Whole' => InboxTyped'
  BY InboxType, PTL

\* What the inbox holds changes only with the messages that have arrived whole.
LEMMA SameInbox ==
  ASSUME IInv, Whole, IInv', Whole', Count' = Count, handled' = handled,
         \A k \in 1..Count : sent'[k] = sent[k]
  PROVE  Arrived' = Arrived /\ Executed' = Executed
<1>1. Count \in Nat /\ Len(handled) \in Nat /\ Len(handled) <= Count
  BY CountFacts
<1>2. \A k \in 1..Count : CommandOf(k)' = CommandOf(k)
  BY DEF CommandOf, Frame, FrameLen
<1>3. Arrived = [k \in 1..Count |-> CommandOf(k)] /\ Arrived' = [k \in 1..Count' |-> CommandOf(k)']
  BY DEF Arrived, Count, CommandOf
<1>4. Arrived' = Arrived
  BY <1>2, <1>3
<1>5. \A k \in 1..Len(handled) : sent'[k] = sent[k]
  BY <1>1
<1> QED BY <1>4, <1>5 DEF Executed

\* One more has arrived.
LEMMA OneArrives ==
  ASSUME IInv, Whole, IInv', Whole', Count' = Count + 1, handled' = handled,
         conn = "open", conn' = "open", \A k \in 1..Count : sent'[k] = sent[k]
  PROVE  Commands!INext
<1>1. Count \in Nat /\ Len(handled) \in Nat /\ Len(handled) <= Count
  BY CountFacts
<1>2. \A k \in 1..Count : CommandOf(k)' = CommandOf(k)
  BY DEF CommandOf, Frame, FrameLen
<1>3. Arrived \in Seq(Command) /\ Len(Arrived) = Count /\ \A k \in 1..Count : Arrived[k] = CommandOf(k)
  BY InboxType DEF InboxTyped
<1>4. /\ Arrived' \in Seq(Command) /\ Len(Arrived') = Count + 1
      /\ \A k \in 1..(Count + 1) : Arrived'[k] = CommandOf(k)'
  BY NextInboxType DEF InboxTyped
<1> DEFINE c == Arrived'[Count + 1]
<1>5. c \in Command
  BY <1>1, <1>4, ElementOfSeq
<1> HIDE DEF c
<1>6. /\ Append(Arrived, c) \in Seq(Command) /\ Len(Append(Arrived, c)) = Count + 1
      /\ \A k \in 1..Count : Append(Arrived, c)[k] = Arrived[k]
      /\ Append(Arrived, c)[Count + 1] = c
  BY <1>3, <1>5, AppendProperties
<1>7. \A k \in 1..(Count + 1) : Arrived'[k] = Append(Arrived, c)[k]
  <2>1. \A k \in 1..(Count + 1) : k \in 1..Count \/ k = Count + 1
    BY <1>1
  <2>2. \A k \in 1..Count : k \in 1..(Count + 1)
    BY <1>1
  <2> QED BY <1>2, <1>3, <1>4, <1>6, <2>1, <2>2 DEF c
<1>8. Arrived' = Append(Arrived, c)
  BY <1>4, <1>6, <1>7, SeqEqual
<1>9. \A k \in 1..Len(handled) : sent'[k] = sent[k]
  BY <1>1
<1>10. Executed' = Executed
  BY <1>9 DEF Executed
<1>11. Commands!Arrive(c)
  BY <1>8, <1>10 DEF Commands!Arrive
<1> QED BY <1>5, <1>11 DEF Commands!INext

\* A frame is handled: the next command is executed.
LEMMA OneExecuted ==
  ASSUME IInv, Whole, IInv', Whole', Handle PROVE Commands!INext
<1>1. /\ pc = "handle" /\ handled' = Append(handled, head \o context)
      /\ UNCHANGED <<conn, sent, out>>
  BY DEF Handle, serverVars
<1>2. /\ Cur \in 1..Len(sent) /\ head \o context \in Seq(Unit)
      /\ Cur = Len(sent) => AtBoundary
  BY <1>1, HandlesWhole
<1>3. Count \in Nat /\ Len(handled) \in Nat /\ Count <= Len(sent) /\ Len(sent) \in Nat
  BY CountFacts, LenProperties DEF IInv, TypeOK
<1>4. Cur \in 1..Count /\ Cur = Len(handled) + 1
  BY <1>2, <1>3 DEF Count, Cur
<1>5. /\ Arrived \in Seq(Command) /\ \A k \in 1..Count : Arrived[k] = CommandOf(k)
      /\ Len(Arrived) = Count
      /\ Executed \in Seq(Command) /\ Len(Executed) = Len(handled)
      /\ \A k \in 1..Len(handled) : Executed[k] = CommandOf(k)
  BY InboxType DEF InboxTyped
<1>6. Len(handled') = Cur
  BY <1>1, <1>2, AppendProperties DEF IInv, TypeOK, Cur
<1>7. \A k : CommandOf(k)' = CommandOf(k)
  BY <1>1 DEF CommandOf, Frame
<1>8. Executed' \in Seq(Command) /\ Len(Executed') = Cur /\ \A k \in 1..Cur : Executed'[k] = CommandOf(k)
  BY <1>6, <1>7, NextInboxType DEF InboxTyped
<1> DEFINE c == Arrived[Cur]
<1>9. c \in Command /\ c = CommandOf(Cur)
  BY <1>4, <1>5, ElementOfSeq
<1> HIDE DEF c
<1>10. /\ Append(Executed, c) \in Seq(Command) /\ Len(Append(Executed, c)) = Cur
       /\ \A k \in 1..Len(handled) : Append(Executed, c)[k] = Executed[k]
       /\ Append(Executed, c)[Cur] = c
  BY <1>4, <1>5, <1>9, AppendProperties
<1>11. \A k \in 1..Cur : Executed'[k] = Append(Executed, c)[k]
  <2>1. \A k \in 1..Cur : k \in 1..Len(handled) \/ k = Cur
    BY <1>3, <1>4
  <2> QED BY <1>5, <1>8, <1>9, <1>10, <2>1
<1>12. Executed' = Append(Executed, c)
  BY <1>8, <1>10, <1>11, SeqEqual
<1>13. Arrived' = Arrived
  BY <1>1 DEF Arrived, AtBoundary, Frame
<1>14. Commands!Waiting
  <2>1. Len(Executed) < Len(Arrived)
    BY <1>3, <1>4, <1>5
  <2>2. ASSUME Executed # <<>> PROVE Executed[Len(Executed)].flag
    <3>1. Len(handled) \in 1..Len(handled)
      BY <1>3, <1>5, <2>2, EmptySeq
    <3>2. sent[Len(handled)].flag
      BY <1>1, <3>1 DEF IInv, ConnInv
    <3>3. Executed[Len(Executed)] = CommandOf(Len(handled))
      BY <1>5, <3>1
    <3>4. CommandOf(Len(handled)).flag = sent[Len(handled)].flag
      BY DEF CommandOf
    <3> QED BY <3>2, <3>3, <3>4
  <2> QED BY <2>1, <2>2 DEF Commands!Waiting
<1>15. Append(Executed, c) = Append(Executed, Arrived[Len(Executed) + 1])
  BY <1>4, <1>5 DEF c
<1>16. Commands!Execute
  BY <1>1, <1>12, <1>13, <1>14, <1>15 DEF Commands!Execute
<1> QED BY <1>16 DEF Commands!INext

\* Every step of the session is one of the inbox, or none.
LEMMA StepImplements ==
  ASSUME IInv, Whole, IInv', Whole', [Next]_vars
  PROVE  [Commands!INext]_Commands!ivars
<1> USE DEF Commands!ivars
<1>1. Count \in Nat /\ Count <= Len(sent) /\ Len(sent) \in Nat /\ sent \in Seq(Message)
  BY CountFacts, LenProperties DEF IInv, TypeOK
<1>2. ASSUME NEW m \in Message, ServerBegins(m) PROVE [Commands!INext]_Commands!ivars
  <2>1. /\ conn = "open" /\ conn' = "open" /\ AtBoundary /\ handled' = handled
        /\ sent' = Append(sent, m)
    BY <1>2 DEF ServerBegins
  <2>2. Len(sent') = Len(sent) + 1 /\ \A k \in 1..Len(sent) : sent'[k] = sent[k]
    BY <1>1, <2>1, AppendProperties
  <2>3. Count = Len(sent) /\ (Count' = Count \/ Count' = Count + 1)
    BY <1>1, <2>1, <2>2 DEF Count
  <2>4. CASE Count' = Count
    BY <2>1, <2>2, <2>3, <2>4, SameInbox
  <2>5. CASE Count' = Count + 1
    BY <2>1, <2>2, <2>3, <2>5, OneArrives
  <2> QED BY <2>3, <2>4, <2>5
<1>3. CASE ServerGoesOn
  <2>1. /\ conn = "open" /\ conn' = "open" /\ ~AtBoundary /\ handled' = handled /\ sent' = sent
    BY <1>3 DEF ServerGoesOn
  <2>2. Count = Len(sent) - 1 /\ (Count' = Count \/ Count' = Count + 1)
    BY <1>1, <2>1 DEF Count
  <2>3. CASE Count' = Count
    BY <2>1, <2>3, SameInbox
  <2>4. CASE Count' = Count + 1
    BY <2>1, <2>4, OneArrives
  <2> QED BY <2>2, <2>3, <2>4
<1>4. CASE Connect
  <2>1. conn = "none" /\ conn' = "open" /\ sent' = <<>> /\ handled' = <<>>
    BY <1>4 DEF Connect, IInv, ConnInv
  <2>2. Count' = 0 /\ Len(handled') = 0
    BY <2>1, EmptySeq DEF Count, AtBoundary
  <2>3. Arrived' \in Seq(Command) /\ Len(Arrived') = 0 /\ Executed' \in Seq(Command) /\ Len(Executed') = 0
    BY <2>2, NextInboxType DEF InboxTyped
  <2>4. Arrived' = <<>> /\ Executed' = <<>>
    BY <2>3, EmptySeq
  <2>5. Commands!NewConnection
    BY <2>1, <2>4 DEF Commands!NewConnection
  <2> QED BY <2>5 DEF Commands!INext
<1>5. CASE Handle
  BY <1>5, OneExecuted
<1>6. CASE UNCHANGED <<handled, sent, out>>
  <2>1. Arrived' = Arrived /\ Executed' = Executed
    BY <1>6 DEF Arrived, Executed, AtBoundary, Frame
  <2>2. conn' \in {"open", "eof"} => conn \in {"open", "eof"} \/ Connect
    BY DEF Next, Server, SessionThread, ServerBegins, ServerGoesOn, ServerCloses, ConnectionReset,
       Login, SelectReadable, SelectTimeout, SelectError, ReadHead, ReadHeadEnd, ReadBody,
       ReadBodyEnd, Handle, Disconnected, vars
  <2>3. CASE (conn' \in {"open", "eof"}) = (conn \in {"open", "eof"})
    BY <2>1, <2>3
  <2>4. CASE conn' \notin {"open", "eof"} /\ conn \in {"open", "eof"}
    BY <2>1, <2>4 DEF Commands!INext, Commands!GiveUp
  <2> QED BY <1>4, <2>2, <2>3, <2>4
<1>7. \/ \E m \in Message : ServerBegins(m)
      \/ ServerGoesOn \/ Connect \/ Handle \/ UNCHANGED <<handled, sent, out>>
  BY DEF Next, Server, SessionThread, ServerCloses, ConnectionReset, Login, SelectReadable,
     SelectTimeout, SelectError, ReadHead, ReadHeadEnd, ReadBody, ReadBodyEnd, Disconnected,
     vars, serverVars
<1> QED BY <1>2, <1>3, <1>4, <1>5, <1>6, <1>7

LEMMA InitImplements == Init => Whole /\ Commands!IInit
<1> SUFFICES ASSUME Init PROVE Whole /\ Commands!IInit
  OBVIOUS
<1>1. Whole
  BY DEF Init, Whole, AtBoundary
<1>2. IInv
  BY InitInv
<1>3. Count = 0 /\ Len(handled) = 0
  BY EmptySeq DEF Init, Count, AtBoundary
<1>4. Arrived \in Seq(Command) /\ Len(Arrived) = 0 /\ Executed \in Seq(Command) /\ Len(Executed) = 0
  BY <1>1, <1>2, <1>3, InboxType DEF InboxTyped
<1>5. Arrived = <<>> /\ Executed = <<>>
  BY <1>4, EmptySeq
<1>6. conn \notin {"open", "eof"}
  BY DEF Init
<1> QED BY <1>1, <1>5, <1>6 DEF Commands!IInit

\* The session does what the inbox may do; that it does so in the end is checked only.
THEOREM ImplementsInboxSafely == Spec => Commands!ISpec
<1>1. IInv /\ Whole /\ [Next]_vars => IInv' /\ Whole'
  BY StepInv, WholeStep
<1>2. IInv /\ Whole /\ IInv' /\ Whole' /\ [Next]_vars => [Commands!INext]_Commands!ivars
  BY StepImplements
<1>3. Init => IInv /\ Whole /\ Commands!IInit
  BY InitInv, InitImplements
<1> QED BY <1>1, <1>2, <1>3, PTL DEF Spec, Commands!ISpec
=============================================================================
