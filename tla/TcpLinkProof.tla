--------------------------- MODULE TcpLinkProof ----------------------------
(***************************************************************************)
(* The inductive invariant of TcpLink and its refinement of                *)
(* OrderedChannel, for any lengths, buffers and number of frames.          *)
(***************************************************************************)
EXTENDS TcpLink, TLAPS

USE LengthsAssumption DEF LengthsAssumption

-----------------------------------------------------------------------------
(* The inductive invariant.                                                *)

\* The unit at position i of the stream, or the one that is written next.
Upcoming == IF pos = 0 THEN <<Last + 1, 1>> ELSE <<Last, pos>>
UnitAt(i) == IF i <= Len(stream) THEN stream[i] ELSE Upcoming

Before(u, v) == u[1] < v[1] \/ (u[1] = v[1] /\ u[2] < v[2])

\* The stream holds units of the frames sent, each once, in order.
Ordered ==
  /\ \A i \in 1..Len(stream) : stream[i][1] \in 1..Last /\ Before(stream[i], Upcoming)
  /\ \A i, j \in 1..Len(stream) : i < j => Before(stream[i], stream[j])

\* Until a write fails none is missing: a frame goes on up to its end, and the next
\* one follows.
Follows(u, v, distance) ==
  LET left == FrameLen(u[1]) - u[2] IN
  /\ distance <= left => v = <<u[1], u[2] + distance>>
  /\ distance = left + 1 => v = <<u[1] + 1, 1>>

Gapless ==
  ~cut => \A i \in 1..Len(stream), j \in 1..(Len(stream) + 1) :
            i < j => Follows(stream[i], UnitAt(j), j - i)

Aligned == ~cut => UnitAt(consumed + 1) = <<Len(delivered) + 1, 1>>

\* The first body unit of the last packet delivered lies behind the parser.
LastDelivered == delivered[Len(delivered)][1]
Behind ==
  delivered # <<>> =>
    \E i \in 1..consumed : stream[i] = <<LastDelivered, HeaderLen + 1>>

LinkInv == TypeOK /\ Ordered /\ Gapless /\ Aligned /\ Behind

-----------------------------------------------------------------------------
(* Types.                                                                  *)

\* An encoded packet has a length.
LEMMA BodyLengths == \A len \in BodyLens : len \in Nat /\ len > 0
BY LengthsAssumption

\* Appending an element to a sequence.
LEMMA Appended ==
  ASSUME NEW S, NEW s \in Seq(S), NEW e \in S
  PROVE  Append(s, e) \in Seq(S)
OBVIOUS

\* Joining two sequences.
LEMMA Joined ==
  ASSUME NEW S, NEW s \in Seq(S), NEW t \in Seq(S)
  PROVE  /\ s \o t \in Seq(S) /\ Len(s) \in Nat /\ Len(s \o t) = Len(s) + Len(t)
         /\ \A i \in 1..Len(s) : (s \o t)[i] = s[i]
         /\ \A i \in 1..Len(t) : (s \o t)[Len(s) + i] = t[i]
OBVIOUS

\* A frame has a length.
LEMMA FrameLengths ==
  ASSUME TypeOK, NEW k \in 1..Last
  PROVE  frames[k] \in Nat \ {0} /\ FrameLen(k) \in Nat /\ FrameLen(k) >= HeaderLen + 1
<1>1. frames \in Seq(BodyLens) /\ Last \in Nat
  BY DEF TypeOK, Last
<1>2. frames[k] \in BodyLens
  BY <1>1 DEF Last
<1>3. frames[k] \in Nat /\ frames[k] > 0 /\ HeaderLen \in Nat
  BY <1>2, BodyLengths
<1> QED BY <1>3 DEF FrameLen

\* Every step keeps the types.
LEMMA TypeStep ==
  ASSUME TypeOK, [Next]_vars
  PROVE  TypeOK'
<1> USE DEF TypeOK, senderVars, wireVars, receiverVars
<1>1. CASE UNCHANGED vars
  BY <1>1 DEF vars, Last, FrameLen
<1>2. ASSUME NEW len \in BodyLens, Send(len)
      PROVE  TypeOK'
  <2>1. frames' \in Seq(BodyLens) /\ Len(frames') = Len(frames) + 1 /\ frames'[Len(frames')] = len
    BY <1>2 DEF Send
  <2> QED BY <1>2, <2>1 DEF Send, Last, FrameLen
<1>3. ASSUME NEW n \in 1..Capacity, Write(n)
      PROVE  TypeOK'
  <2>1. Last \in Nat /\ Last > 0 /\ pos \in Nat /\ n \in Nat /\ UNCHANGED frames
    BY <1>3 DEF Write, Last
  <2>2. FrameLen(Last) \in Nat /\ FrameLen(Last) >= HeaderLen + 1
    BY <2>1, FrameLengths
  <2>3. pos' \in Nat /\ (pos' > 0 => pos' <= FrameLen(Last))
    BY <1>3, <2>1, <2>2 DEF Write
  <2>4. [i \in 1..n |-> <<Last, pos + i - 1>>] \in Seq((Nat \ {0}) \X (Nat \ {0}))
    BY <1>3, <2>1 DEF Write
  <2>5. stream' \in Seq((Nat \ {0}) \X (Nat \ {0})) /\ Len(stream') >= Len(stream)
    <3> DEFINE Units == (Nat \ {0}) \X (Nat \ {0})
               written == [i \in 1..n |-> <<Last, pos + i - 1>>]
    <3>1. stream' = stream \o written /\ stream \in Seq(Units) /\ written \in Seq(Units)
      BY <1>3, <2>4 DEF Write
    <3> HIDE DEF Units, written
    <3>2. stream' \in Seq(Units) /\ Len(stream') = Len(stream) + Len(written)
          /\ Len(stream) \in Nat /\ Len(written) \in Nat
      BY <3>1
    <3> QED BY <3>2 DEF Units
  <2>6. (pos \in Nat /\ (pos > 0 => Last > 0 /\ pos <= FrameLen(Last)))'
    BY <2>1, <2>3 DEF Last, FrameLen
  <2>7. UNCHANGED <<role, frames, cut, arrived, link, receiverVars>>
    BY <1>3 DEF Write
  <2> QED BY <2>5, <2>6, <2>7 DEF receiverVars
<1>4. CASE WriteFails
  <2>1. Last \in Nat /\ Last > 0 /\ UNCHANGED frames
    BY <1>4 DEF WriteFails, Last
  <2>2. FrameLen(Last) \in Nat /\ FrameLen(Last) >= HeaderLen + 1
    BY <2>1, FrameLengths
  <2>3. pos' \in Nat /\ (pos' > 0 => pos' <= FrameLen(Last))
    BY <1>4, <2>1, <2>2 DEF WriteFails
  <2> QED BY <1>4, <2>1, <2>3 DEF WriteFails, Last, FrameLen
<1>5. CASE Establish \/ Refuse \/ SenderClose \/ Reset
  BY <1>5 DEF Establish, Refuse, SenderClose, Reset, Last, FrameLen
<1>6. ASSUME NEW n \in 1..Capacity, Arrive(n)
      PROVE  TypeOK'
  BY <1>6 DEF Arrive, Last, FrameLen
<1>7. CASE EpollEvent \/ DrainEnds \/ RecvEof \/ RecvError \/ Hangup \/ ParseIncomplete \/ Disconnect
  BY ZenonT(30), <1>7 DEF EpollEvent, DrainEnds, RecvEof, RecvError, Hangup,
              ParseIncomplete, Disconnect, Last, FrameLen
<1>8. CASE Recv
  BY <1>8 DEF Recv, Last, FrameLen
<1>9. ASSUME NEW len \in BodyLens \cup GarbageLens, ParseFrame(len)
      PROVE  TypeOK'
  <2>1. len \in Nat /\ consumed' = consumed + HeaderLen + len /\ consumed' <= buffered
    BY <1>9 DEF ParseFrame, Holds
  <2>2. delivered' \in Seq((Nat \ {0}) \X BOOLEAN)
    <3> DEFINE c == consumed + HeaderLen
    <3>1. ASSUME NEW packet \in Decoded(c, len)
          PROVE  packet \in (Nat \ {0}) \X BOOLEAN
      <4>1. PICK k \in 1..Last : packet = <<k, Whole(c, k)>>
        BY <3>1 DEF Decoded
      <4>2. k \in Nat \ {0}
        BY DEF Last
      <4>3. Whole(c, k) \in BOOLEAN
        BY DEF Whole
      <4> QED BY <4>1, <4>2, <4>3
    <3>2. \/ \E packet \in Decoded(c, len) : delivered' = Append(delivered, packet)
          \/ UNCHANGED delivered
      BY <1>9 DEF ParseFrame
    <3> DEFINE Packets == (Nat \ {0}) \X BOOLEAN
    <3>3. delivered \in Seq(Packets)
      OBVIOUS
    <3>4. delivered' = delivered \/ \E packet \in Packets : delivered' = Append(delivered, packet)
      BY <3>1, <3>2
    <3> HIDE DEF Packets
    <3>5. delivered' \in Seq(Packets)
      BY ZenonT(30), <3>3, <3>4, Appended
    <3> QED BY <3>5 DEF Packets
  <2>3. coalesced' \in BOOLEAN
    BY <1>9 DEF ParseFrame
  <2> QED BY <1>9, <2>1, <2>2, <2>3 DEF ParseFrame, Last, FrameLen
<1> QED
  BY <1>1, <1>2, <1>3, <1>4, <1>5, <1>6, <1>7, <1>8, <1>9
  DEF Next, SenderNext, WireNext, ReceiverNext

-----------------------------------------------------------------------------
(* The stream.                                                             *)

\* What a write adds to the stream.
LEMMA Written ==
  ASSUME TypeOK, NEW n \in 1..Capacity, Write(n)
  PROVE  /\ n \in Nat /\ n > 0 /\ Last \in Nat /\ Last > 0 /\ pos \in Nat /\ pos > 0
         /\ FrameLen(Last) \in Nat /\ pos + n - 1 <= FrameLen(Last)
         /\ pos' = IF pos + n > FrameLen(Last) THEN 0 ELSE pos + n
         /\ UNCHANGED <<frames, cut, consumed, delivered>> /\ Last' = Last
         /\ Len(stream) \in Nat /\ Len(stream') = Len(stream) + n
         /\ \A i \in 1..Len(stream) : stream'[i] = stream[i]
         /\ \A i \in 1..n : stream'[Len(stream) + i] = <<Last, pos + i - 1>>
<1>1. n \in Nat /\ n > 0 /\ Last \in Nat /\ Last > 0 /\ pos \in Nat /\ pos > 0
  BY DEF Write, TypeOK, Last
<1>2. FrameLen(Last) \in Nat /\ FrameLen(Last) >= HeaderLen + 1
  BY <1>1, FrameLengths
<1>3. pos + n - 1 <= FrameLen(Last)
  BY <1>1, <1>2 DEF Write, CallEnd
<1> DEFINE written == [i \in 1..n |-> <<Last, pos + i - 1>>]
           Pairs == Nat \X Nat
<1>4. stream' = stream \o written /\ stream \in Seq((Nat \ {0}) \X (Nat \ {0}))
  BY DEF Write, TypeOK
<1>5. Len(written) = n /\ \A i \in 1..n : written[i] = <<Last, pos + i - 1>>
  BY <1>1
<1>6. written \in Seq(Pairs)
  <2>1. \A i \in 1..n : <<Last, pos + i - 1>> \in Pairs
    BY <1>1
  <2> HIDE DEF Pairs
  <2> QED BY <1>1, <2>1
<1>9. stream \in Seq(Pairs)
  BY <1>4
<1> HIDE DEF written, Pairs
<1>7. /\ Len(stream) \in Nat /\ Len(stream') = Len(stream) + n
      /\ \A i \in 1..Len(stream) : stream'[i] = stream[i]
      /\ \A i \in 1..n : stream'[Len(stream) + i] = written[i]
  <2>1. /\ Len(stream) \in Nat /\ Len(stream \o written) = Len(stream) + Len(written)
        /\ \A i \in 1..Len(stream) : (stream \o written)[i] = stream[i]
        /\ \A i \in 1..Len(written) : (stream \o written)[Len(stream) + i] = written[i]
    BY <1>6, <1>9, Joined
  <2> QED BY <1>4, <1>5, <2>1
<1>8. /\ pos' = IF pos + n > FrameLen(Last) THEN 0 ELSE pos + n
      /\ UNCHANGED <<frames, cut, consumed, delivered>> /\ Last' = Last
  BY DEF Write, receiverVars, Last
<1> QED BY <1>1, <1>2, <1>3, <1>5, <1>7, <1>8

\* The units of the stream are pairs of numbers.
LEMMA Units ==
  ASSUME TypeOK, NEW i \in 1..Len(stream)
  PROVE  /\ stream[i] = <<stream[i][1], stream[i][2]>>
         /\ stream[i][1] \in Nat \ {0} /\ stream[i][2] \in Nat \ {0}
<1>1. stream[i] \in (Nat \ {0}) \X (Nat \ {0})
  BY DEF TypeOK
<1> QED BY <1>1

\* Every step keeps the units in order.
LEMMA OrderedStep ==
  ASSUME TypeOK, TypeOK', Ordered, [Next]_vars
  PROVE  Ordered'
<1>1. CASE UNCHANGED <<frames, pos, stream>>
  BY <1>1 DEF Ordered, Last, Upcoming, Before
<1>2. ASSUME NEW len \in BodyLens, Send(len)
      PROVE  Ordered'
  <2>1. /\ pos = 0 /\ pos' = 1 /\ Last' = Last + 1 /\ Last \in Nat /\ UNCHANGED stream
    BY <1>2 DEF Send, Last, wireVars, TypeOK
  <2>2. Upcoming' = Upcoming
    BY <2>1 DEF Upcoming
  <2>3. stream' = stream /\ 1..Last \subseteq 1..Last'
    BY <2>1
  <2>4. \A i \in 1..Len(stream) : stream[i][1] \in 1..Last' /\ Before(stream[i], Upcoming')
    BY <2>2, <2>3 DEF Ordered
  <2>5. \A i, j \in 1..Len(stream) : i < j => Before(stream[i], stream[j])
    BY DEF Ordered
  <2> QED BY <2>3, <2>4, <2>5 DEF Ordered, Before
<1>3. ASSUME NEW n \in 1..Capacity, Write(n)
      PROVE  Ordered'
  <2>1. /\ n \in Nat /\ n > 0 /\ Last \in Nat /\ Last > 0 /\ pos \in Nat /\ pos > 0
        /\ pos' = (IF pos + n > FrameLen(Last) THEN 0 ELSE pos + n) /\ Last' = Last
        /\ Len(stream) \in Nat /\ Len(stream') = Len(stream) + n
        /\ \A i \in 1..Len(stream) : stream'[i] = stream[i]
        /\ \A i \in 1..n : stream'[Len(stream) + i] = <<Last, pos + i - 1>>
    BY <1>3, Written
  <2>2. \/ Upcoming' = <<Last + 1, 1>>
        \/ Upcoming' = <<Last, pos + n>>
    BY <2>1 DEF Upcoming
  <2>3. ASSUME NEW i \in 1..Len(stream')
        PROVE  \/ /\ i \in 1..Len(stream) /\ stream'[i] = stream[i] /\ stream[i][1] \in 1..Last
                  /\ stream[i][1] < Last \/ (stream[i][1] = Last /\ stream[i][2] < pos)
                  /\ stream[i][2] \in Nat
               \/ /\ i \in Nat /\ i > Len(stream) /\ i <= Len(stream) + n
                  /\ stream'[i] = <<Last, pos + (i - Len(stream)) - 1>>
    <3>1. CASE i \in 1..Len(stream)
      <4>1. Upcoming = <<Last, pos>>
        BY <2>1 DEF Upcoming
      <4>2. stream[i][1] \in 1..Last /\ Before(stream[i], Upcoming)
        BY <3>1 DEF Ordered
      <4>3. stream[i][2] \in Nat
        BY <3>1, Units
      <4> QED BY <2>1, <3>1, <4>1, <4>2, <4>3 DEF Before
    <3>2. CASE i \notin 1..Len(stream)
      <4>1. i - Len(stream) \in 1..n /\ i = Len(stream) + (i - Len(stream))
        BY <2>1, <3>2
      <4>2. stream'[Len(stream) + (i - Len(stream))] = <<Last, pos + (i - Len(stream)) - 1>>
        BY <2>1, <4>1
      <4> QED BY <2>1, <3>2, <4>1, <4>2
    <3> QED BY <3>1, <3>2
  <2>4. ASSUME NEW i \in 1..Len(stream')
        PROVE  stream'[i][1] \in 1..Last /\ Before(stream'[i], Upcoming')
    BY <2>1, <2>2, <2>3 DEF Before
  <2>5. ASSUME NEW i \in 1..Len(stream'), NEW j \in 1..Len(stream'), i < j
        PROVE  Before(stream'[i], stream'[j])
    <3>1. CASE j \in 1..Len(stream)
      <4>1. i \in 1..Len(stream)
        BY <2>1, <2>5, <3>1
      <4>2. Before(stream[i], stream[j])
        BY <2>5, <3>1, <4>1 DEF Ordered
      <4> QED BY <2>1, <3>1, <4>1, <4>2
    <3>2. CASE j \notin 1..Len(stream)
      BY SMTT(30), <2>1, <2>3, <2>5, <3>2 DEF Before
    <3> QED BY <3>1, <3>2
  <2> QED BY <2>1, <2>4, <2>5 DEF Ordered, Before
<1>4. CASE WriteFails
  <2>1. /\ UNCHANGED <<stream, frames>> /\ Last' = Last /\ Last \in Nat /\ pos \in Nat /\ pos > 0
        /\ pos' = IF pos <= HeaderLen THEN HeaderLen + 1 ELSE 0
    BY <1>4 DEF WriteFails, wireVars, Last, TypeOK
  <2>2. Upcoming = <<Last, pos>> /\ (Upcoming' = <<Last + 1, 1>> \/ (pos <= HeaderLen /\ Upcoming' = <<Last, HeaderLen + 1>>))
    BY <2>1 DEF Upcoming
  <2>3. ASSUME NEW i \in 1..Len(stream)
        PROVE  Before(stream[i], Upcoming')
    <3>1. Before(stream[i], Upcoming) /\ stream[i][1] \in 1..Last
      BY DEF Ordered
    <3> QED BY <2>1, <2>2, <3>1, Units DEF Before
  <2> QED BY <2>1, <2>3 DEF Ordered
<1>5. ASSUME ~(\E len \in BodyLens : Send(len)), ~(\E n \in 1..Capacity : Write(n)), ~WriteFails
      PROVE  UNCHANGED <<frames, pos, stream>>
  BY <1>5 DEF Next, SenderNext, WireNext, ReceiverNext, vars, senderVars, wireVars, receiverVars,
              Establish, Refuse, SenderClose, Reset, Arrive, EpollEvent, Recv, DrainEnds, RecvEof,
              RecvError, Hangup, ParseIncomplete, ParseFrame, Disconnect
<1> QED BY <1>1, <1>2, <1>3, <1>4, <1>5

-----------------------------------------------------------------------------
(* No gaps.                                                                *)

\* Every step keeps the units of the stream without gaps, until a write fails.
LEMMA GaplessStep ==
  ASSUME TypeOK, TypeOK', Ordered, Gapless, [Next]_vars
  PROVE  Gapless'
<1>1. CASE UNCHANGED <<frames, pos, stream, cut>>
  BY ZenonT(30), <1>1 DEF Gapless, Last, Upcoming, UnitAt, Follows, FrameLen
<1>2. ASSUME NEW len \in BodyLens, Send(len)
      PROVE  Gapless'
  <2>1. /\ Last' = Last + 1 /\ Last \in Nat /\ UNCHANGED <<stream, cut>> /\ Upcoming' = Upcoming
    BY <1>2 DEF Send, Last, wireVars, TypeOK, Upcoming
  <2>2. \A k \in 1..Last : FrameLen(k)' = FrameLen(k)
    BY <1>2 DEF Send, Last, TypeOK, FrameLen
  <2>3. \A i \in 1..Len(stream) : stream[i][1] \in 1..Last
    BY DEF Ordered
  <2>4. \A j : UnitAt(j)' = UnitAt(j)
    BY <2>1 DEF UnitAt
  <2>5. ASSUME ~cut, NEW i \in 1..Len(stream), NEW j \in 1..(Len(stream) + 1), i < j
        PROVE  Follows(stream[i], UnitAt(j), j - i)'
    <3>1. Follows(stream[i], UnitAt(j), j - i)
      BY <2>5 DEF Gapless
    <3>2. FrameLen(stream[i][1])' = FrameLen(stream[i][1])
      BY <2>1, <2>2, <2>3
    <3> QED BY <2>1, <2>4, <3>1, <3>2 DEF Follows
  <2> QED BY <2>1, <2>5 DEF Gapless
<1>3. ASSUME NEW n \in 1..Capacity, Write(n), ~cut
      PROVE  Gapless'
  <2> DEFINE L == Len(stream)
             Nth(k) == IF pos + k > FrameLen(Last) THEN <<Last + 1, 1>> ELSE <<Last, pos + k>>
             Then(j) == IF j <= Len(stream') THEN stream'[j] ELSE Upcoming'
  <2>1. /\ n \in Nat /\ n > 0 /\ Last \in Nat /\ Last > 0 /\ pos \in Nat /\ pos > 0
        /\ FrameLen(Last) \in Nat /\ pos + n - 1 <= FrameLen(Last)
        /\ L \in Nat /\ Len(stream') = L + n
    BY <1>3, Written
  <2>2. /\ \A i \in 1..L : stream'[i] = stream[i]
        /\ \A i \in 1..n : stream'[L + i] = <<Last, pos + i - 1>>
    BY <1>3, Written
  <2>3. UNCHANGED frames /\ Last' = Last /\ pos' = IF pos + n > FrameLen(Last) THEN 0 ELSE pos + n
    BY <1>3, Written
  <2>4. Upcoming = <<Last, pos>> /\ Upcoming' = Nth(n)
    <3>1. CASE pos + n > FrameLen(Last)
      BY <2>1, <2>3, <3>1 DEF Upcoming
    <3>2. CASE ~(pos + n > FrameLen(Last))
      <4>1. pos' = pos + n /\ pos' # 0 /\ pos # 0
        BY <2>1, <2>3, <3>2
      <4> QED BY <2>3, <3>2, <4>1 DEF Upcoming
    <3> QED BY <3>1, <3>2
  <2> HIDE DEF L
  <2>6. ASSUME NEW m \in Nat, m < n
        PROVE  stream'[L + 1 + m] = <<Last, pos + m>>
    <3>1. m + 1 \in 1..n /\ pos + (m + 1) - 1 = pos + m /\ L + (m + 1) = L + 1 + m
      BY <2>1, <2>6
    <3> HIDE DEF Nth
    <3>2. stream'[L + (m + 1)] = <<Last, pos + (m + 1) - 1>>
      BY <2>2, <3>1
    <3> QED BY <3>1, <3>2
  <2>7. ASSUME NEW j \in 1..(L + 1)
        PROVE  Then(j) = UnitAt(j)
    <3>1. CASE j <= L
      BY <2>1, <2>2, <3>1 DEF UnitAt, L
    <3>2. CASE j = L + 1
      <4>1. stream'[L + 1] = <<Last, pos>>
        <5>1. stream'[L + 1 + 0] = <<Last, pos + 0>>
          BY <2>1, <2>6
        <5> QED BY <2>1, <5>1
      <4>2. UnitAt(j) = Upcoming
        BY <2>1, <3>2 DEF UnitAt, L
      <4>3. Then(j) = stream'[j]
        BY <2>1, <3>2
      <4> QED BY <2>4, <3>2, <4>1, <4>2, <4>3
    <3> QED BY <2>1, <3>1, <3>2
  <2>8. ASSUME NEW k \in 1..n
        PROVE  Then(L + 1 + k) = Nth(k)
    <3>1. CASE k < n
      <4>0. k \in Nat /\ L + 1 + k <= Len(stream')
        BY <2>1, <3>1
      <4>1. stream'[L + 1 + k] = <<Last, pos + k>>
        BY <2>6, <3>1, <4>0
      <4>2. Then(L + 1 + k) = stream'[L + 1 + k]
        BY <4>0
      <4>3. ~(pos + k > FrameLen(Last))
        BY <2>1, <3>1
      <4> QED BY <4>1, <4>2, <4>3
    <3>2. CASE k = n
      <4> HIDE DEF Nth
      <4>0. ~(L + 1 + k <= Len(stream'))
        BY <2>1, <3>2
      <4>1. Then(L + 1 + k) = Upcoming'
        BY <4>0
      <4> QED BY <2>4, <3>2, <4>1
    <3> QED BY <2>1, <3>1, <3>2
  <2> HIDE DEF Then
  <2>9. ASSUME NEW i \in 1..Len(stream'), NEW j \in 1..(Len(stream') + 1), i < j
        PROVE  Follows(stream'[i], Then(j), j - i)
    <3>1. CASE i <= L /\ j <= L + 1
      <4>1. i \in 1..Len(stream) /\ j \in 1..(Len(stream) + 1)
        BY <2>1, <3>1 DEF L
      <4>2. Follows(stream[i], UnitAt(j), j - i)
        BY <1>3, <2>9, <4>1 DEF Gapless
      <4> QED BY <2>2, <2>7, <4>1, <4>2 DEF L
    <3>2. CASE i <= L /\ j > L + 1
      <4>1. PICK k \in 1..n : j = L + 1 + k
        <5>1. j - (L + 1) \in 1..n /\ j = L + 1 + (j - (L + 1))
          BY <2>1, <2>9, <3>2
        <5> QED BY <5>1
      <4>2. i \in 1..Len(stream) /\ stream'[i] = stream[i] /\ i \in Nat
        BY <2>1, <2>2, <3>2 DEF L
      <4>3. PICK u1 \in Nat, u2 \in Nat : stream[i] = <<u1, u2>> /\ u1 \in 1..Last
        BY <4>2, Units DEF Ordered
      <4>4. FrameLen(u1) \in Nat
        BY <4>3, FrameLengths
      <4>5. Follows(<<u1, u2>>, <<Last, pos>>, L + 1 - i)
        <5>1. PICK e \in 1..(Len(stream) + 1) : e = L + 1 /\ i < e
          BY <2>1, <4>2 DEF L
        <5>2. UnitAt(e) = <<Last, pos>>
          BY <2>1, <2>4, <5>1 DEF UnitAt, L
        <5>3. Follows(stream[i], UnitAt(e), e - i)
          BY <1>3, <4>2, <5>1 DEF Gapless
        <5>4. Follows(<<u1, u2>>, <<Last, pos>>, e - i)
          BY <4>3, <5>2, <5>3
        <5>5. e - i = L + 1 - i
          BY <2>1, <4>2, <5>1
        <5> QED BY <5>4, <5>5
      <4> DEFINE d == L + 1 - i
      <4>6. d \in Nat /\ d > 0 /\ j - i = d + k /\ k \in Nat /\ k > 0
        BY <2>1, <4>1, <4>2, <3>2
      <4> HIDE DEF d
      <4>7. d <= FrameLen(u1) - u2 => u1 = Last /\ pos = u2 + d
        <5>1. d <= FrameLen(u1) - u2 => <<Last, pos>> = <<u1, u2 + d>>
          BY <4>5 DEF Follows, d
        <5> QED BY <5>1
      <4>8. d + k <= FrameLen(u1) - u2 => Nth(k) = <<u1, u2 + (d + k)>>
        BY SMTT(30), <2>1, <4>4, <4>6, <4>7
      <4>9. d + k = FrameLen(u1) - u2 + 1 => Nth(k) = <<u1 + 1, 1>>
        BY <2>1, <4>4, <4>6, <4>7
      <4> HIDE DEF Nth
      <4>10. Follows(<<u1, u2>>, Nth(k), d + k)
        BY <4>8, <4>9 DEF Follows
      <4>11. Then(j) = Nth(k) /\ stream'[i] = <<u1, u2>> /\ j - i = d + k
        BY <2>8, <4>1, <4>2, <4>3, <4>6
      <4> QED BY <4>10, <4>11
    <3>3. CASE i > L
      <4>1. PICK m \in Nat : m < n /\ i = L + 1 + m
        <5>1. i - (L + 1) \in Nat /\ i - (L + 1) < n /\ i = L + 1 + (i - (L + 1))
          BY <2>1, <2>9, <3>3
        <5> QED BY <5>1
      <4>2. PICK k \in 1..n : j = L + 1 + k
        <5>1. j - (L + 1) \in 1..n /\ j = L + 1 + (j - (L + 1))
          BY <2>1, <2>9, <3>3
        <5> QED BY <5>1
      <4>3. m < k /\ k \in Nat /\ j - i = k - m
        BY <2>1, <2>9, <4>1, <4>2
      <4>4. k - m <= FrameLen(Last) - (pos + m) => Nth(k) = <<Last, pos + m + (k - m)>>
        <5>1. pos + m + (k - m) = pos + k
          BY <2>1, <4>1, <4>3
        <5>2. k - m <= FrameLen(Last) - (pos + m) => ~(pos + k > FrameLen(Last))
          BY <2>1, <4>1, <4>3
        <5> QED BY <5>1, <5>2
      <4>5. k - m = FrameLen(Last) - (pos + m) + 1 => Nth(k) = <<Last + 1, 1>>
        BY <2>1, <4>1, <4>3
      <4> HIDE DEF Nth
      <4>6. Follows(<<Last, pos + m>>, Nth(k), k - m)
        BY <4>4, <4>5 DEF Follows
      <4>7. Then(j) = Nth(k)
        BY <2>8, <4>2
      <4>8. stream'[i] = <<Last, pos + m>>
        BY <2>6, <4>1
      <4> QED BY <4>3, <4>6, <4>7, <4>8
    <3> QED BY <2>1, <2>9, <3>1, <3>2, <3>3
  <2>10. ASSUME NEW i \in 1..Len(stream'), NEW j \in 1..(Len(stream') + 1), i < j
         PROVE  Follows(stream[i], UnitAt(j), j - i)'
    <3>1. UnitAt(j)' = Then(j)
      BY DEF UnitAt, Then
    <3> QED BY <2>3, <2>9, <2>10, <3>1 DEF Follows, FrameLen
  <2> QED BY <2>10 DEF Gapless
<1>4. CASE WriteFails
  BY <1>4 DEF WriteFails, Gapless
<1>5. ASSUME NEW n \in 1..Capacity, Write(n), cut
      PROVE  Gapless'
  BY <1>5 DEF Write, Gapless
<1>6. ASSUME ~(\E len \in BodyLens : Send(len)), ~(\E n \in 1..Capacity : Write(n)), ~WriteFails
      PROVE  UNCHANGED <<frames, pos, stream, cut>>
  BY <1>6 DEF Next, SenderNext, WireNext, ReceiverNext, vars, senderVars, wireVars, receiverVars,
              Establish, Refuse, SenderClose, Reset, Arrive, EpollEvent, Recv, DrainEnds, RecvEof,
              RecvError, Hangup, ParseIncomplete, ParseFrame, Disconnect
<1> QED BY <1>1, <1>2, <1>3, <1>4, <1>5, <1>6

-----------------------------------------------------------------------------
(* The parser.                                                             *)

\* Until a write fails the parser takes exactly the next frame, whole.
LEMMA ParsesNext ==
  ASSUME TypeOK, Ordered, Gapless, Aligned, ~cut,
         NEW len \in BodyLens \cup GarbageLens, ParseFrame(len)
  PROVE  LET next == Len(delivered) + 1 IN
         /\ next \in 1..Last
         /\ delivered' = Append(delivered, <<next, TRUE>>)
         /\ consumed' = consumed + FrameLen(next)
         /\ UnitAt(consumed' + 1) = <<next + 1, 1>>
<1> DEFINE next == Len(delivered) + 1
           c == consumed + HeaderLen
<1>1. /\ consumed \in Nat /\ buffered \in Nat /\ Len(stream) \in Nat /\ Len(delivered) \in Nat
      /\ HeaderLen \in Nat /\ HeaderLen > 0 /\ len \in Nat
      /\ buffered <= Len(stream) /\ consumed + HeaderLen + len <= buffered
      /\ consumed' = consumed + HeaderLen + len /\ len \in LengthsAt(consumed)
  BY SMTT(30) DEF TypeOK, ParseFrame, Holds
<1>2. consumed + 1 \in 1..Len(stream) /\ stream[consumed + 1] = <<next, 1>>
  BY <1>1 DEF Aligned, UnitAt
<1>3. next \in 1..Last
  BY <1>2 DEF Ordered
<1>4. /\ frames[next] \in Nat /\ frames[next] > 0 /\ FrameLen(next) \in Nat
      /\ FrameLen(next) = HeaderLen + frames[next]
  BY <1>3, FrameLengths DEF FrameLen
<1> HIDE DEF next
<1>5. ASSUME NEW d \in Nat, d > 0, consumed + 1 + d <= Len(stream) + 1
      PROVE  /\ d <= FrameLen(next) - 1 => UnitAt(consumed + 1 + d) = <<next, 1 + d>>
             /\ d = FrameLen(next) => UnitAt(consumed + 1 + d) = <<next + 1, 1>>
  <2>1. PICK i \in 1..Len(stream), j \in 1..(Len(stream) + 1) :
          i = consumed + 1 /\ j = consumed + 1 + d /\ i < j /\ j - i = d
    BY <1>1, <1>2, <1>5
  <2>2. Follows(stream[i], UnitAt(j), j - i)
    BY <2>1 DEF Gapless
  <2>3. Follows(<<next, 1>>, UnitAt(j), d)
    BY <1>2, <2>1, <2>2
  <2>4. /\ d <= FrameLen(next) - 1 => UnitAt(j) = <<next, 1 + d>>
        /\ d = FrameLen(next) - 1 + 1 => UnitAt(j) = <<next + 1, 1>>
    BY <2>3 DEF Follows
  <2> QED BY SMTT(30), <1>4, <2>1, <2>4
<1>6. ASSUME NEW d \in Nat, d <= FrameLen(next) - 1, consumed + 1 + d <= Len(stream)
      PROVE  stream[consumed + 1 + d] = <<next, 1 + d>>
  <2>1. CASE d = 0
    BY <1>1, <1>2, <2>1
  <2>2. CASE d > 0
    <3>1. UnitAt(consumed + 1 + d) = <<next, 1 + d>>
      BY <1>1, <1>5, <1>6, <2>2
    <3>2. UnitAt(consumed + 1 + d) = stream[consumed + 1 + d]
      BY <1>6 DEF UnitAt
    <3> QED BY <3>1, <3>2
  <2> QED BY <2>1, <2>2
<1>7. IsHeader(consumed, next)
  <2>1. ASSUME NEW i \in 1..HeaderLen
        PROVE  stream[consumed + i] = <<next, i>>
    <3>1. PICK d \in Nat : i = 1 + d /\ d <= FrameLen(next) - 1 /\ consumed + 1 + d <= Len(stream)
                           /\ consumed + 1 + d = consumed + i
      <4>1. i - 1 \in Nat /\ i = 1 + (i - 1) /\ i - 1 <= FrameLen(next) - 1
            /\ consumed + 1 + (i - 1) <= Len(stream) /\ consumed + 1 + (i - 1) = consumed + i
        BY <1>1, <1>4
      <4> QED BY <4>1
    <3>2. stream[consumed + 1 + d] = <<next, 1 + d>>
      BY <1>6, <3>1
    <3> QED BY <3>1, <3>2
  <2> QED BY <2>1 DEF IsHeader
<1>8. ASSUME NEW k, IsHeader(consumed, k)
      PROVE  k = next
  <2>1. stream[consumed + 1] = <<k, 1>>
    BY <1>1, <1>8 DEF IsHeader
  <2> QED BY <1>2, <2>1
<1>9. len = frames[next]
  <2>1. \E k \in 1..Last : len = frames[k] /\ IsHeader(consumed, k)
    BY <1>1, <1>3, <1>7 DEF LengthsAt
  <2> QED BY <1>8, <2>1
<1>10. Whole(c, next)
  <2>1. ASSUME NEW i \in 1..frames[next]
        PROVE  stream[c + i] = <<next, HeaderLen + i>>
    <3>1. PICK d \in Nat : 1 + d = HeaderLen + i /\ d <= FrameLen(next) - 1
                           /\ consumed + 1 + d <= Len(stream) /\ consumed + 1 + d = c + i
      <4>1. HeaderLen + i - 1 \in Nat /\ 1 + (HeaderLen + i - 1) = HeaderLen + i
            /\ HeaderLen + i - 1 <= FrameLen(next) - 1
            /\ consumed + 1 + (HeaderLen + i - 1) <= Len(stream)
            /\ consumed + 1 + (HeaderLen + i - 1) = c + i
        BY SMTT(30), <1>1, <1>4, <1>9
      <4> QED BY <4>1
    <3>2. stream[consumed + 1 + d] = <<next, 1 + d>>
      BY <1>6, <3>1
    <3> QED BY <3>1, <3>2
  <2> QED BY <2>1 DEF Whole
<1>11. ASSUME NEW packet \in Decoded(c, len)
       PROVE  packet = <<next, TRUE>>
  <2>1. PICK k \in 1..Last : packet = <<k, Whole(c, k)>> /\ stream[c + 1] = <<k, HeaderLen + 1>>
    BY DEF Decoded
  <2>2. stream[c + 1] = <<next, HeaderLen + 1>>
    BY <1>4, <1>10 DEF Whole
  <2>3. k = next
    BY <2>1, <2>2
  <2>4. Whole(c, next) = TRUE
    BY <1>10 DEF Whole
  <2> QED BY <2>1, <2>3, <2>4
<1>12. ~MayFail(c, len)
  BY <1>3, <1>9, <1>10 DEF MayFail
<1>13. delivered' = Append(delivered, <<next, TRUE>>)
  <2>1. \/ \E packet \in Decoded(c, len) : delivered' = Append(delivered, packet)
        \/ MayFail(c, len)
    BY DEF ParseFrame
  <2> QED BY <1>11, <1>12, <2>1
<1>14. consumed' = consumed + FrameLen(next)
  BY <1>1, <1>4, <1>9
<1>15. UnitAt(consumed' + 1) = <<next + 1, 1>>
  <2>1. PICK d \in Nat : d = FrameLen(next) /\ d > 0 /\ consumed + 1 + d <= Len(stream) + 1
                         /\ consumed + 1 + d = consumed' + 1
    <3>1. FrameLen(next) \in Nat /\ FrameLen(next) > 0
      BY <1>4, <1>9
    <3>2. consumed + 1 + FrameLen(next) <= Len(stream) + 1
          /\ consumed + 1 + FrameLen(next) = consumed' + 1
      BY <1>1, <1>14, <3>1
    <3> QED BY <3>1, <3>2
  <2>2. UnitAt(consumed + 1 + d) = <<next + 1, 1>>
    BY <1>5, <2>1
  <2> QED BY <2>1, <2>2
<1> QED BY <1>3, <1>13, <1>14, <1>15 DEF next

\* A step other than a parse moves neither the parser nor what it has delivered.
LEMMA OnlyParses ==
  ASSUME [Next]_vars, \A len \in BodyLens \cup GarbageLens : ~ParseFrame(len)
  PROVE  UNCHANGED <<consumed, delivered>>
BY DEF Next, SenderNext, WireNext, ReceiverNext, vars, senderVars, wireVars, receiverVars, Send,
       Write, WriteFails, Establish, Refuse, SenderClose, Reset, Arrive, EpollEvent, Recv,
       DrainEnds, RecvEof, RecvError, Hangup, ParseIncomplete, Disconnect

\* What is in the stream stays there.
LEMMA StreamGrows ==
  ASSUME TypeOK, [Next]_vars
  PROVE  Len(stream') >= Len(stream) /\ \A i \in 1..Len(stream) : stream'[i] = stream[i]
<1>1. Len(stream) \in Nat
  BY DEF TypeOK
<1>2. CASE UNCHANGED stream
  BY <1>1, <1>2
<1>3. ASSUME NEW n \in 1..Capacity, Write(n)
      PROVE  Len(stream') >= Len(stream) /\ \A i \in 1..Len(stream) : stream'[i] = stream[i]
  <2>1. n \in Nat /\ Len(stream') = Len(stream) + n
        /\ \A i \in 1..Len(stream) : stream'[i] = stream[i]
    BY <1>3, Written
  <2> QED BY <1>1, <2>1
<1>4. ASSUME ~(\E n \in 1..Capacity : Write(n))
      PROVE  UNCHANGED stream
  BY <1>4 DEF Next, SenderNext, WireNext, ReceiverNext, vars, senderVars, wireVars, receiverVars,
              Send, WriteFails, Establish, Refuse, SenderClose, Reset, Arrive, EpollEvent, Recv,
              DrainEnds, RecvEof, RecvError, Hangup, ParseIncomplete, ParseFrame, Disconnect
<1> QED BY <1>2, <1>3, <1>4

\* As long as no write fails, the unit after the stream is the next one in it.
LEMMA UnitsStay ==
  ASSUME TypeOK, [Next]_vars, ~cut', NEW j \in 1..(Len(stream) + 1)
  PROVE  (IF j <= Len(stream') THEN stream'[j] ELSE Upcoming') = UnitAt(j)
<1>1. CASE UNCHANGED <<frames, pos, stream>>
  BY <1>1 DEF UnitAt, Upcoming, Last
<1>2. ASSUME NEW len \in BodyLens, Send(len)
      PROVE  UNCHANGED stream /\ Upcoming' = Upcoming
  BY <1>2 DEF Send, Last, wireVars, TypeOK, Upcoming
<1>3. ASSUME NEW n \in 1..Capacity, Write(n)
      PROVE  (IF j <= Len(stream') THEN stream'[j] ELSE Upcoming') = UnitAt(j)
  <2>1. /\ n \in Nat /\ n > 0 /\ pos \in Nat /\ pos > 0 /\ Last \in Nat
        /\ Len(stream) \in Nat /\ Len(stream') = Len(stream) + n
    BY <1>3, Written
  <2>2. CASE j <= Len(stream)
    <3>1. stream'[j] = stream[j]
      BY <1>3, <2>1, <2>2, Written
    <3> QED BY <2>1, <2>2, <3>1 DEF UnitAt
  <2>3. CASE j = Len(stream) + 1
    <3>1. stream'[Len(stream) + 1] = <<Last, pos + 1 - 1>>
      <4>1. 1 \in 1..n
        BY <2>1
      <4> QED BY <1>3, <4>1, Written
    <3>2. stream'[j] = <<Last, pos>> /\ j <= Len(stream')
      BY <2>1, <2>3, <3>1
    <3>3. UnitAt(j) = <<Last, pos>>
      BY <2>1, <2>3 DEF UnitAt, Upcoming
    <3> QED BY <3>2, <3>3
  <2> QED BY <2>1, <2>2, <2>3
<1>4. CASE WriteFails
  BY <1>4 DEF WriteFails
<1>5. ASSUME ~(\E len \in BodyLens : Send(len)), ~(\E n \in 1..Capacity : Write(n)), ~WriteFails
      PROVE  UNCHANGED <<frames, pos, stream>>
  BY <1>5 DEF Next, SenderNext, WireNext, ReceiverNext, vars, senderVars, wireVars, receiverVars,
              Establish, Refuse, SenderClose, Reset, Arrive, EpollEvent, Recv, DrainEnds, RecvEof,
              RecvError, Hangup, ParseIncomplete, ParseFrame, Disconnect
<1> QED BY <1>1, <1>2, <1>3, <1>4, <1>5 DEF UnitAt

\* A failed write is not forgotten.
LEMMA CutStays ==
  ASSUME TypeOK, [Next]_vars, cut
  PROVE  cut'
BY DEF TypeOK, Next, SenderNext, WireNext, ReceiverNext, vars, senderVars, wireVars, receiverVars,
       Send, Write, WriteFails, Establish, Refuse, SenderClose, Reset, Arrive, EpollEvent, Recv,
       DrainEnds, RecvEof, RecvError, Hangup, ParseIncomplete, ParseFrame, Disconnect

\* Every step keeps the parser at the start of the next frame, until a write fails.
LEMMA AlignedStep ==
  ASSUME TypeOK, TypeOK', Ordered, Gapless, Aligned, [Next]_vars
  PROVE  Aligned'
<1> SUFFICES ASSUME ~cut'
             PROVE  UnitAt(consumed + 1)' = <<Len(delivered') + 1, 1>>
  BY DEF Aligned
<1>1. ~cut /\ consumed \in Nat /\ Len(stream) \in Nat /\ consumed <= Len(stream)
  BY CutStays DEF TypeOK
<1>2. UnitAt(consumed + 1) = <<Len(delivered) + 1, 1>>
  BY <1>1 DEF Aligned
<1>3. CASE \A len \in BodyLens \cup GarbageLens : ~ParseFrame(len)
  <2>1. UNCHANGED <<consumed, delivered>>
    BY <1>3, OnlyParses
  <2>2. PICK j \in 1..(Len(stream) + 1) : j = consumed + 1
    BY <1>1
  <2>3. (IF j <= Len(stream') THEN stream'[j] ELSE Upcoming') = UnitAt(j)
    BY UnitsStay
  <2>4. UnitAt(consumed + 1)' = IF j <= Len(stream') THEN stream'[j] ELSE Upcoming'
    BY <2>1, <2>2 DEF UnitAt
  <2> QED BY <1>2, <2>1, <2>2, <2>3, <2>4
<1>4. ASSUME NEW len \in BodyLens \cup GarbageLens, ParseFrame(len)
      PROVE  UnitAt(consumed + 1)' = <<Len(delivered') + 1, 1>>
  <2> DEFINE next == Len(delivered) + 1
  <2>1. /\ delivered' = Append(delivered, <<next, TRUE>>)
        /\ UnitAt(consumed' + 1) = <<next + 1, 1>>
    BY <1>1, <1>4, ParsesNext
  <2>2. Len(delivered') = next
    BY <2>1 DEF TypeOK
  <2>3. UNCHANGED <<stream, Upcoming>>
    BY <1>4 DEF ParseFrame, wireVars, senderVars, Upcoming, Last
  <2>4. UnitAt(consumed + 1)' = UnitAt(consumed' + 1)
    BY <2>3 DEF UnitAt
  <2> QED BY <2>1, <2>2, <2>4
<1> QED BY <1>3, <1>4

\* Every step keeps the last packet delivered behind the parser.
LEMMA BehindStep ==
  ASSUME TypeOK, TypeOK', Behind, [Next]_vars
  PROVE  Behind'
<1>1. /\ consumed \in Nat /\ buffered \in Nat /\ arrived \in Nat /\ Len(stream) \in Nat
      /\ consumed <= Len(stream) /\ HeaderLen \in Nat
  BY DEF TypeOK
<1>2. \A i \in 1..consumed : stream'[i] = stream[i]
  <2>1. \A i \in 1..Len(stream) : stream'[i] = stream[i]
    BY StreamGrows
  <2>2. \A i \in 1..consumed : i \in 1..Len(stream)
    BY <1>1
  <2> QED BY <2>1, <2>2
<1>3. ASSUME UNCHANGED delivered, consumed' \in Nat, consumed' >= consumed
      PROVE  Behind'
  <2> SUFFICES ASSUME delivered # <<>>
               PROVE  \E i \in 1..consumed' : stream'[i] = <<LastDelivered, HeaderLen + 1>>
    BY <1>3 DEF Behind, LastDelivered
  <2>1. PICK i \in 1..consumed : stream[i] = <<LastDelivered, HeaderLen + 1>>
    BY DEF Behind
  <2>2. i \in 1..consumed' /\ stream'[i] = stream[i]
    BY <1>1, <1>2, <1>3
  <2> QED BY <2>1, <2>2
<1>4. CASE \A len \in BodyLens \cup GarbageLens : ~ParseFrame(len)
  BY <1>1, <1>3, <1>4, OnlyParses
<1>5. ASSUME NEW len \in BodyLens \cup GarbageLens, ParseFrame(len)
      PROVE  Behind'
  <2> DEFINE c == consumed + HeaderLen
  <2>1. UNCHANGED stream /\ consumed' = c + len /\ len \in Nat /\ c \in Nat /\ c >= consumed
    BY <1>1, <1>5 DEF ParseFrame, wireVars
  <2>2. CASE UNCHANGED delivered
    BY <1>1, <1>3, <2>1, <2>2
  <2>3. ASSUME NEW packet \in Decoded(c, len), delivered' = Append(delivered, packet)
        PROVE  Behind'
    <3>1. PICK k \in 1..Last : /\ packet = <<k, Whole(c, k)>> /\ len = frames[k]
                               /\ stream[c + 1] = <<k, HeaderLen + 1>>
      BY <2>3 DEF Decoded
    <3>2. len > 0
      BY <3>1, FrameLengths
    <3>3. LastDelivered' = k
      <4>1. delivered'[Len(delivered')] = packet
        BY <2>3 DEF TypeOK
      <4> QED BY <3>1, <4>1 DEF LastDelivered
    <3>4. c + 1 \in 1..consumed'
      BY <2>1, <3>2
    <3> QED BY <2>1, <3>1, <3>3, <3>4 DEF Behind
  <2> QED BY <1>5, <2>2, <2>3 DEF ParseFrame
<1> QED BY <1>4, <1>5

-----------------------------------------------------------------------------
(* Theorems.                                                               *)

\* The invariant holds in every state.
THEOREM LinkInvariance == Spec => []LinkInv
<1>1. Init => LinkInv
  <2> SUFFICES ASSUME Init
               PROVE  LinkInv
    OBVIOUS
  <2> USE DEF Init
  <2>1. \A S : <<>> \in Seq(S)
    OBVIOUS
  <2>2. TypeOK
    <3>1. frames \in Seq(BodyLens) /\ stream \in Seq((Nat \ {0}) \X (Nat \ {0}))
          /\ delivered \in Seq((Nat \ {0}) \X BOOLEAN)
      BY <2>1
    <3>2. Len(stream) = 0
      OBVIOUS
    <3>3. pos \in Nat /\ ~(pos > 0)
      OBVIOUS
    <3>4. connected \in BOOLEAN /\ cut \in BOOLEAN /\ coalesced \in BOOLEAN
      OBVIOUS
    <3>5. /\ role \in {"client", "server"} /\ link \in {"connecting", "open", "fin", "reset"}
          /\ rpc \in {"poll", "drain", "parse"}
      OBVIOUS
    <3>6. /\ arrived \in Nat /\ buffered \in Nat /\ consumed \in Nat
          /\ consumed <= buffered /\ buffered <= arrived /\ arrived <= Len(stream)
      BY <3>2
    <3> QED BY <3>1, <3>3, <3>4, <3>5, <3>6 DEF TypeOK
  <2>3. Ordered /\ Gapless /\ Behind
    BY DEF Ordered, Gapless, Behind
  <2>4. Aligned
    BY DEF Aligned, UnitAt, Upcoming, Last
  <2> QED BY <2>2, <2>3, <2>4 DEF LinkInv
<1>2. LinkInv /\ [Next]_vars => LinkInv'
  BY TypeStep, OrderedStep, GaplessStep, AlignedStep, BehindStep DEF LinkInv
<1> QED BY <1>1, <1>2, PTL DEF Spec

\* The variables keep their types: the positions in the stream stay in order, and the
\* sender writes inside its frame.
THEOREM TypeCorrect == Spec => []TypeOK
<1>1. LinkInv => TypeOK
  BY DEF LinkInv
<1> QED BY <1>1, LinkInvariance, PTL

\* receiveMessage never reads a body as a length while no sendBytes has failed.
THEOREM ParserAligned == Spec => []AlignedUntilCut
<1>1. LinkInv => AlignedUntilCut
  <2> SUFFICES ASSUME LinkInv, ~cut
               PROVE  /\ consumed < Len(stream) =>
                           stream[consumed + 1] = <<Len(delivered) + 1, 1>>
                      /\ consumed = Len(stream) =>
                           Len(delivered) = IF pos = 0 THEN Last ELSE Last - 1
    BY DEF AlignedUntilCut
  <2>1. /\ consumed \in Nat /\ Len(stream) \in Nat /\ Len(delivered) \in Nat /\ Last \in Nat
        /\ UnitAt(consumed + 1) = <<Len(delivered) + 1, 1>>
    BY DEF LinkInv, TypeOK, Aligned, Last
  <2>2. CASE consumed < Len(stream)
    <3>1. consumed + 1 <= Len(stream) /\ consumed # Len(stream)
      BY <2>1, <2>2
    <3>2. UnitAt(consumed + 1) = stream[consumed + 1]
      BY <3>1 DEF UnitAt
    <3> QED BY <2>1, <3>1, <3>2
  <2>3. CASE consumed = Len(stream)
    <3>1. Upcoming = <<Len(delivered) + 1, 1>>
      <4>1. ~(consumed + 1 <= Len(stream))
        BY <2>1, <2>3
      <4> QED BY <2>1, <4>1 DEF UnitAt
    <3>2. CASE pos = 0
      <4>1. Last + 1 = Len(delivered) + 1
        BY <3>1, <3>2 DEF Upcoming
      <4> QED BY <2>1, <2>3, <3>2, <4>1
    <3>3. CASE pos # 0
      <4>1. Last = Len(delivered) + 1
        BY <3>1, <3>3 DEF Upcoming
      <4> QED BY <2>1, <2>3, <3>3, <4>1
    <3> QED BY <3>2, <3>3
  <2> QED BY <2>1, <2>2, <2>3
<1> QED BY <1>1, LinkInvariance, PTL

\* The link implements OrderedChannel: sendMessage, the socket and receiveMessage together
\* deliver in order, at most once, and without a gap or a change until a write fails.
THEOREM ChannelImplemented == Spec => ImplementsChannel
<1>1. Init => Channel!Init
  BY DEF Init, Channel!Init, Last
<1>2. LinkInv /\ [Next]_vars => [Channel!Next]_<<Last, delivered, cut>>
  <2> SUFFICES ASSUME LinkInv, [Next]_vars
               PROVE  Channel!Next \/ UNCHANGED <<Last, delivered, cut>>
    OBVIOUS
  <2>1. CASE UNCHANGED <<frames, delivered, cut>>
    BY <2>1 DEF Last
  <2>2. ASSUME NEW len \in BodyLens, Send(len)
        PROVE  Channel!Next
    <3>1. Last' = Last + 1 /\ UNCHANGED <<delivered, cut>>
      BY <2>2 DEF LinkInv, TypeOK, Send, Last, receiverVars
    <3> QED BY <3>1 DEF Channel!Next, Channel!Send
  <2>3. CASE WriteFails
    <3>1. cut' = TRUE /\ Last' = Last /\ UNCHANGED delivered
      BY <2>3 DEF WriteFails, Last, receiverVars
    <3> QED BY <3>1 DEF Channel!Next, Channel!Break
  <2>4. ASSUME NEW len \in BodyLens \cup GarbageLens, ParseFrame(len)
        PROVE  Channel!Next \/ UNCHANGED <<Last, delivered, cut>>
    <3>1. Last' = Last /\ UNCHANGED cut
      BY <2>4 DEF ParseFrame, senderVars, Last
    <3>2. CASE ~cut
      <4> DEFINE next == Len(delivered) + 1
      <4>1. next \in 1..Last /\ delivered' = Append(delivered, <<next, TRUE>>)
        BY <2>4, <3>2, ParsesNext DEF LinkInv
      <4>2. Len(delivered) < Last
        <5>1. Len(delivered) \in Nat /\ Last \in Nat
          BY DEF LinkInv, TypeOK, Last
        <5> QED BY <4>1, <5>1
      <4> QED BY <3>1, <3>2, <4>1, <4>2 DEF Channel!Next, Channel!Deliver
    <3>3. CASE cut /\ UNCHANGED delivered
      BY <3>1, <3>3
    <3>4. ASSUME cut, NEW packet \in Decoded(consumed + HeaderLen, len),
                 delivered' = Append(delivered, packet)
          PROVE  Channel!Next
      <4> DEFINE c == consumed + HeaderLen
      <4>1. PICK k \in 1..Last : packet = <<k, Whole(c, k)>> /\ len = frames[k]
                                 /\ stream[c + 1] = <<k, HeaderLen + 1>>
        BY <3>4 DEF Decoded
      <4>2. /\ c \in Nat /\ consumed \in Nat /\ consumed <= c /\ Len(stream) \in Nat /\ Last \in Nat
            /\ HeaderLen \in Nat /\ k \in Nat /\ k > 0 /\ c + 1 <= Len(stream)
        <5>1. len > 0 /\ len \in Nat
          BY <4>1, FrameLengths DEF LinkInv
        <5>2. consumed + HeaderLen + len <= buffered
          BY <2>4 DEF ParseFrame, Holds
        <5>3. /\ consumed \in Nat /\ buffered \in Nat /\ arrived \in Nat /\ Len(stream) \in Nat
              /\ buffered <= arrived /\ arrived <= Len(stream)
          BY DEF LinkInv, TypeOK
        <5>4. Last \in Nat
          BY DEF LinkInv, TypeOK, Last
        <5>5. HeaderLen \in Nat
          OBVIOUS
        <5> QED BY <5>1, <5>2, <5>3, <5>4, <5>5
      <4>3. Channel!Last \in Nat /\ Channel!Last < k
        <5>1. CASE delivered = <<>>
          BY <4>2, <5>1 DEF Channel!Last
        <5>2. CASE delivered # <<>>
          <6>1. Channel!Last = LastDelivered
            BY <5>2 DEF Channel!Last, LastDelivered
          <6>2. PICK i \in 1..consumed : stream[i] = <<LastDelivered, HeaderLen + 1>>
            BY <5>2 DEF LinkInv, Behind
          <6>3. i \in 1..Len(stream) /\ c + 1 \in 1..Len(stream) /\ i < c + 1
            BY <4>2
          <6>4. Before(stream[i], stream[c + 1])
            <7>1. PICK j \in 1..Len(stream) : j = c + 1
              BY <6>3
            <7> QED BY <6>3, <7>1 DEF LinkInv, Ordered
          <6>5. LastDelivered \in Nat
            BY <6>2, <6>3, Units DEF LinkInv
          <6>6. LastDelivered < k
            BY <4>1, <4>2, <6>2, <6>4, <6>5 DEF Before
          <6> QED BY <6>1, <6>5, <6>6
        <5> QED BY <5>1, <5>2
      <4>4. k \in (Channel!Last + 1)..Last
        BY <4>2, <4>3
      <4>5. Whole(c, k) \in BOOLEAN
        BY DEF Whole
      <4>6. Channel!DeliverBroken
        BY <3>1, <3>4, <4>1, <4>4, <4>5 DEF Channel!DeliverBroken
      <4> QED BY <4>6 DEF Channel!Next
    <3> QED BY <2>4, <3>2, <3>3, <3>4 DEF ParseFrame
  <2>5. ASSUME ~(\E len \in BodyLens : Send(len)), ~WriteFails,
               ~(\E len \in BodyLens \cup GarbageLens : ParseFrame(len))
        PROVE  UNCHANGED <<frames, delivered, cut>>
    BY <2>5 DEF Next, SenderNext, WireNext, ReceiverNext, vars, senderVars, wireVars,
                receiverVars, Write, Establish, Refuse, SenderClose, Reset, Arrive, EpollEvent,
                Recv, DrainEnds, RecvEof, RecvError, Hangup, ParseIncomplete, Disconnect
  <2> QED BY <2>1, <2>2, <2>3, <2>4, <2>5
<1> QED BY <1>1, <1>2, LinkInvariance, PTL DEF Spec, ImplementsChannel, Channel!Spec

=============================================================================
