---- MODULE MediaDecoder_proofs ----
(***************************************************************************)
(* Proofs about MediaDecoder, for every media file, however its packets    *)
(* are damaged and its codec holds frames back.                            *)
(***************************************************************************)
EXTENDS MediaDecoder, SequenceTheorems, FiniteSetTheorems, WellFoundedInduction, TLAPS

\* A set of numbers that is not empty has a least element.
LEMMA LeastNumber ==
    ASSUME NEW S \in SUBSET Nat, S # {}
    PROVE  /\ \E m \in S : \A n \in S : m <= n
           /\ Min(S) \in S /\ \A n \in S : Min(S) <= n
<1> DEFINE Less == OpToRel(<, Nat)
<1>1. IsWellFoundedOn(Less, Nat)
  BY NatLessThanWellFounded
<1>2. \A m, n \in Nat : <<m, n>> \in Less <=> m < n
  BY DEF OpToRel
<1> HIDE DEF Less
<1>3. \E m \in S : \A n \in S : ~(<<n, m>> \in Less)
  BY <1>1, WFMin
<1>4. \A m, n \in S : ~(<<n, m>> \in Less) => m <= n
  BY <1>2
<1> QED
  BY <1>3, <1>4 DEF Min

----
(* One round of the decoder. *)

LEMMA FileTypes ==
    ASSUME file \in Files
    PROVE  /\ Len(file.packets) \in Nat /\ DOMAIN file.packets = 1 .. Len(file.packets)
           /\ Len(file.streams) \in Nat /\ DOMAIN file.streams = 1 .. Len(file.streams)
           /\ \A p \in DOMAIN file.packets :
                file.packets[p].frames \in Nat /\ file.packets[p].stream \in DOMAIN file.streams
           /\ \A s \in DOMAIN file.streams :
                file.streams[s].delay \in Nat /\ file.streams[s].count \in Nat
  BY FilesAssumption DEF IsSequence

\* readFrame() passes over packets of the other type only.
LEMMA NextPacketIs ==
    ASSUME file \in Files, NEW d \in Decoders
    PROVE  /\ AtEnd(d) => \A p \in d.pos .. Len(file.packets) : ~OfType(p)
           /\ ~AtEnd(d) => /\ NextPacket(d) \in d.pos .. Len(file.packets)
                           /\ NextPacket(d) \in DOMAIN file.packets
                           /\ OfType(NextPacket(d))
                           /\ \A p \in d.pos .. NextPacket(d) - 1 : ~OfType(p)
<1> DEFINE ahead == {p \in d.pos .. Len(file.packets) : OfType(p)}
<1>1. d.pos \in Nat \ {0} /\ Len(file.packets) \in Nat
      /\ DOMAIN file.packets = 1 .. Len(file.packets)
  BY FileTypes DEF Decoders
<1>2. CASE ahead = {}
  <2>1. AtEnd(d)
    BY <1>1, <1>2 DEF AtEnd, NextPacket
  <2> QED
    BY <1>2, <2>1
<1>3. CASE ahead # {}
  <2>1. ahead \in SUBSET Nat
    BY <1>1
  <2>2. NextPacket(d) = Min(ahead)
    BY <1>3 DEF NextPacket
  <2>3. NextPacket(d) \in ahead /\ \A p \in ahead : NextPacket(d) <= p
    <3> HIDE DEF ahead
    <3> QED
      BY <1>3, <2>1, <2>2, LeastNumber
  <2>4. NextPacket(d) \in d.pos .. Len(file.packets) /\ OfType(NextPacket(d))
    BY <2>3
  <2>5. ~AtEnd(d)
    BY <1>1, <2>4 DEF AtEnd
  <2>6. \A p \in d.pos .. NextPacket(d) - 1 : p \in d.pos .. Len(file.packets) /\ ~(NextPacket(d) <= p)
    BY <1>1, <2>4
  <2> QED
    BY <1>1, <2>3, <2>4, <2>5, <2>6
<1> QED
  BY <1>2, <1>3

\* The frames of one packet, as Send hands them to the codec.
FramesOf(p) == [n \in 1 .. file.packets[p].frames |-> <<p, n>>]

LEMMA SendIs ==
    ASSUME file \in Files, NEW d \in Decoders, NEW p \in DOMAIN file.packets, OfType(p)
    PROVE  /\ Send(d, p) \in Decoders
           /\ Send(d, p).stream = d.stream /\ Send(d, p).frameNum = d.frameNum
           /\ Send(d, p).draining = d.draining /\ Send(d, p).pos = p + 1
           /\ Send(d, p).held = IF Refuses(d) THEN d.held ELSE d.held \o FramesOf(p)
<1>1. FramesOf(p) \in Seq(FramesOfType)
  <2>1. file.packets[p].frames \in Nat
    BY FileTypes
  <2>2. \A n \in 1 .. file.packets[p].frames : <<p, n>> \in FramesOfType
    <3> TAKE n \in 1 .. file.packets[p].frames
    <3>1. n \in Nat
      BY <2>1
    <3>2. p \in PacketsOfType
      BY DEF PacketsOfType
    <3> QED
      BY <3>1, <3>2 DEF FramesOfType
  <2> QED
    BY <2>1, <2>2 DEF FramesOf
<1>2. d.held \o FramesOf(p) \in Seq(FramesOfType)
  BY <1>1 DEF Decoders
<1>3. p + 1 \in Nat \ {0}
  BY FileTypes
<1>4. Send(d, p) = IF Refuses(d) THEN [d EXCEPT !.pos = p + 1]
                   ELSE [d EXCEPT !.pos = p + 1, !.held = d.held \o FramesOf(p)]
  BY DEF Send, FramesOf, Decoders
<1> HIDE DEF FramesOf
<1> QED
  BY <1>2, <1>3, <1>4 DEF Decoders

LEMMA SendFlushIs ==
    ASSUME file \in Files, NEW d \in Decoders
    PROVE  /\ SendFlush(d) \in Decoders
           /\ SendFlush(d).stream = d.stream /\ SendFlush(d).frameNum = d.frameNum
           /\ SendFlush(d).held = d.held /\ SendFlush(d).pos = Len(file.packets) + 1
           /\ d.draining \/ ~Refuses(d) => SendFlush(d).draining
<1>1. Len(file.packets) + 1 \in Nat \ {0}
  BY FileTypes
<1>2. (d.draining \/ ~Refuses(d)) \in BOOLEAN
  OBVIOUS
<1> QED
  BY <1>1, <1>2 DEF SendFlush, Decoders

LEMMA ReceiveIs ==
    ASSUME NEW d \in Decoders, d.held # <<>>
    PROVE  /\ Receive(d) \in Decoders /\ Head(d.held) \in FramesOfType
           /\ Receive(d).stream = d.stream /\ Receive(d).frameNum = d.frameNum + 1
           /\ Receive(d).held = Tail(d.held) /\ Receive(d).pos = d.pos
           /\ Receive(d).draining = d.draining
<1>1. Tail(d.held) \in Seq(FramesOfType) /\ Head(d.held) \in FramesOfType
  BY DEF Decoders
<1>2. d.frameNum + 1 \in Nat
  BY DEF Decoders
<1>3. Receive(d) = [d EXCEPT !.held = Tail(d.held), !.frameNum = d.frameNum + 1]
  BY DEF Receive, Decoders
<1> QED
  BY <1>1, <1>2, <1>3 DEF Decoders

\* What one round answers, and what becomes of the decoder.
Sent(d) == IF AtEnd(d) THEN SendFlush(d) ELSE Send(d, NextPacket(d))
Undecided(d) == /\ ~(AtEnd(d) /\ file.readError) /\ ~(AtEnd(d) /\ ~Flush(d))
                /\ ~(~AtEnd(d) /\ SendFailed(d, NextPacket(d)))

LEMMA SentIs ==
    ASSUME file \in Files, NEW d \in Decoders
    PROVE  Sent(d) \in Decoders /\ Sent(d).stream = d.stream /\ Sent(d).frameNum = d.frameNum
  BY SendIs, SendFlushIs, NextPacketIs DEF Sent

LEMMA DecodeIs ==
    ASSUME file \in Files, NEW d \in Decoders
    PROVE  /\ Decode(d).result \in {"throw", "null", "frame", "again"}
           /\ Decode(d).decoder \in Decoders /\ Decode(d).decoder.stream = d.stream
           /\ Decode(d).result = "frame" =>
                /\ Undecided(d) /\ CanAnswer(Sent(d))
                /\ Decode(d).frame = Head(Sent(d).held) /\ Decode(d).frame \in FramesOfType
                /\ Decode(d).decoder = Receive(Sent(d))
                /\ Decode(d).decoder.frameNum = d.frameNum + 1
           /\ Decode(d).result # "frame" => Decode(d).decoder.frameNum = d.frameNum
           /\ Decode(d).result = "again" =>
                /\ Undecided(d) /\ ~CanAnswer(Sent(d)) /\ ~Sent(d).draining
                /\ Decode(d).decoder = Sent(d)
           /\ Undecided(d) /\ Decode(d).result = "null" => ~CanAnswer(Sent(d)) /\ Sent(d).draining
<1> DEFINE damagedOne == [d EXCEPT !.pos = NextPacket(d) + 1]
<1>1. CASE AtEnd(d) /\ file.readError
  <2>1. Decode(d) = [result |-> "throw", decoder |-> d]
    BY <1>1 DEF Decode
  <2> QED
    BY <1>1, <2>1 DEF Undecided
<1>2. CASE AtEnd(d) /\ ~file.readError /\ ~Flush(d)
  <2>1. Decode(d) = [result |-> "null", decoder |-> d]
    BY <1>2 DEF Decode
  <2> QED
    BY <1>2, <2>1 DEF Undecided
<1>3. CASE ~AtEnd(d) /\ SendFailed(d, NextPacket(d))
  <2>1. Decode(d) = [result |-> "null", decoder |-> damagedOne]
    BY <1>3 DEF Decode, OnDamage
  <2>2. damagedOne \in Decoders /\ damagedOne.stream = d.stream /\ damagedOne.frameNum = d.frameNum
    <3>1. NextPacket(d) + 1 \in Nat \ {0}
      <4>1. NextPacket(d) \in DOMAIN file.packets
        BY <1>3, NextPacketIs
      <4> QED
        BY <4>1, FileTypes
    <3> QED
      BY <3>1 DEF Decoders
  <2> HIDE DEF damagedOne
  <2> QED
    BY <1>3, <2>1, <2>2 DEF Undecided
<1>4. CASE Undecided(d)
  <2>1. Sent(d) \in Decoders /\ Sent(d).stream = d.stream /\ Sent(d).frameNum = d.frameNum
    BY SentIs
  <2>2. Decode(d) =
            IF CanAnswer(Sent(d))
            THEN [result |-> "frame", frame |-> Head(Sent(d).held), decoder |-> Receive(Sent(d))]
            ELSE [result |-> IF Sent(d).draining THEN "null" ELSE "again", decoder |-> Sent(d)]
    BY <1>4 DEF Decode, Undecided, Sent, OnDrained
  <2>3. CASE CanAnswer(Sent(d))
    <3>1. Sent(d).held # <<>>
      BY <2>3 DEF CanAnswer
    <3>2. /\ Receive(Sent(d)) \in Decoders /\ Head(Sent(d).held) \in FramesOfType
          /\ Receive(Sent(d)).stream = d.stream /\ Receive(Sent(d)).frameNum = d.frameNum + 1
      BY <2>1, <3>1, ReceiveIs
    <3>3. Decode(d) = [result |-> "frame", frame |-> Head(Sent(d).held),
                       decoder |-> Receive(Sent(d))]
      BY <2>2, <2>3
    <3> QED
      BY <1>4, <2>3, <3>2, <3>3
  <2>4. CASE ~CanAnswer(Sent(d))
    <3>1. Decode(d) = [result |-> IF Sent(d).draining THEN "null" ELSE "again",
                       decoder |-> Sent(d)]
      BY <2>2, <2>4
    <3> QED
      BY <1>4, <2>1, <2>4, <3>1
  <2> QED
    BY <2>3, <2>4
<1> QED
  BY <1>1, <1>2, <1>3, <1>4 DEF Undecided

----
(* Types, and frames numbered one after the other. *)

\* The number of a frame is its place among the frames delivered (AvDecoder::decode).
Numbered ==
    /\ phase \in {"open", "extract", "count"} => delivered = <<>>
    /\ phase \in {"read", "convert"} => decoder.frameNum = Len(delivered)
    /\ \A k \in DOMAIN delivered : delivered[k].number = k

SourceInv == TypeOK /\ Numbered

Deliveries == [number : Nat, frame : FramesOfType]

LEMMA NewDecoderIs == ASSUME NEW s \in Nat PROVE NewDecoder(s) \in Decoders /\ NewDecoder(s).frameNum = 0
  BY DEF NewDecoder, Decoders

\* What ReadFrame does, by what the round of the decoder answers.
GoodFrame(d) == Decode(d).result = "frame" /\ Packable(Decoded(Decode(d).frame))

LEMMA ReadFrameIs ==
    ASSUME TypeOK, ReadFrame
    PROVE  /\ phase = "read" /\ UNCHANGED <<file, type, stream, info>>
           /\ decoder' = Decode(decoder).decoder
           /\ GoodFrame(decoder) =>
                /\ phase' = "convert" /\ packed' = Pack(Decoded(Decode(decoder).frame))
                /\ delivered' = Append(delivered, [number |-> Decode(decoder).decoder.frameNum,
                                                   frame |-> Decode(decoder).frame])
           /\ ~GoodFrame(decoder) =>
                /\ delivered' = delivered /\ packed' = packed
                /\ phase' = IF Decode(decoder).result = "again" THEN "read"
                            ELSE IF Decode(decoder).result = "throw" THEN "failed" ELSE "ended"
<1>1. Decode(decoder).result \in {"throw", "null", "frame", "again"}
  BY DecodeIs DEF TypeOK
<1>2. /\ phase = "read" /\ UNCHANGED <<file, type, stream, info>>
      /\ decoder' = Decode(decoder).decoder
      /\ phase' = CASE Decode(decoder).result = "again" -> "read"
                    [] Decode(decoder).result = "throw" -> "failed"
                    [] GoodFrame(decoder) -> "convert" [] OTHER -> "ended"
      /\ delivered' = IF GoodFrame(decoder)
                      THEN Append(delivered, [number |-> Decode(decoder).decoder.frameNum,
                                              frame |-> Decode(decoder).frame])
                      ELSE delivered
      /\ packed' = IF GoodFrame(decoder) THEN Pack(Decoded(Decode(decoder).frame)) ELSE packed
  BY DEF ReadFrame, GoodFrame
<1>3. CASE GoodFrame(decoder)
  <2>1. phase' = "convert"
    BY <1>2, <1>3 DEF GoodFrame
  <2> QED
    BY <1>2, <1>3, <2>1
<1>4. CASE ~GoodFrame(decoder)
  <2>1. phase' = IF Decode(decoder).result = "again" THEN "read"
                 ELSE IF Decode(decoder).result = "throw" THEN "failed" ELSE "ended"
    BY <1>1, <1>2, <1>4
  <2> QED
    BY <1>2, <1>4, <2>1
<1> QED
  BY <1>3, <1>4

LEMMA SourceInvKept == SourceInv /\ [Next]_vars => SourceInv'
<1> SUFFICES ASSUME SourceInv, [Next]_vars
             PROVE  TypeOK' /\ Numbered'
  BY DEF SourceInv
<1> USE DEF SourceInv
<1>s. file' = file /\ type' = type
  BY DEF Next, vars, Open, ExtractStream, CountFrame, Setup, ReadFrame, ConvertFrame
<1>t. FramesOfType' = FramesOfType /\ Decoders' = Decoders /\ Deliveries' = Deliveries
  BY <1>s DEF FramesOfType, PacketsOfType, OfType, Decoders, Deliveries
<1>d. decoder \in Decoders /\ file \in Files /\ delivered \in Seq(Deliveries)
  BY DEF TypeOK, Deliveries
<1>1. CASE Open
  <2>1. UNCHANGED <<stream, info, decoder, delivered>> /\ phase = "open"
        /\ phase' \in {"failed", "crashed", "extract"}
    BY <1>1 DEF Open, Opened
  <2> QED
    BY <2>1, <1>s, <1>t DEF TypeOK, Numbered, Ends
<1>2. CASE ExtractStream
  <2>1. /\ phase = "extract" /\ delivered' = delivered /\ stream \in 1 .. Len(file.streams)
        /\ phase' \in {"extract", "failed", "count"}
        /\ stream' \in {stream, stream + 1}
        /\ decoder' \in {decoder, NewDecoder(stream)}
        /\ info' \in {info, [stream |-> stream, total |-> file.streams[stream].count]}
    <3>1. stream \in 1 .. Len(file.streams)
      BY <1>2, <1>d, FileTypes DEF ExtractStream, TypeOK
    <3> QED
      BY <1>2, <3>1 DEF ExtractStream
  <2>2. info' \in [stream : Nat, total : Nat]
    BY <2>1, <1>d, FileTypes DEF TypeOK
  <2>3. decoder' \in Decoders /\ stream' \in Nat \ {0}
    BY <2>1, <1>d, NewDecoderIs DEF TypeOK
  <2> QED
    BY <2>1, <2>2, <2>3, <1>s, <1>t DEF TypeOK, Numbered, Ends
<1>3. CASE CountFrame
  <2>1. /\ phase = "count" /\ delivered' = delivered /\ decoder' = Decode(decoder).decoder
        /\ phase' \in {"extract", "failed", "count"}
        /\ stream' \in {stream, stream + 1}
        /\ info' \in {info, [stream |-> stream, total |-> decoder.frameNum]}
    BY <1>3 DEF CountFrame
  <2>2. decoder' \in Decoders /\ decoder.frameNum \in Nat
    BY <2>1, <1>d, DecodeIs DEF Decoders
  <2>3. stream' \in Nat \ {0} /\ info' \in [stream : Nat, total : Nat]
    BY <2>1, <2>2 DEF TypeOK
  <2> QED
    BY <2>1, <2>2, <2>3, <1>s, <1>t DEF TypeOK, Numbered, Ends
<1>4. CASE Setup
  <2>1. /\ phase = "extract" /\ UNCHANGED <<stream, info, delivered>>
        /\ \/ phase' \in {"failed", "absent"} /\ decoder' = decoder
           \/ phase' \in {"failed", "read"} /\ decoder' = NewDecoder(info.stream)
    BY <1>4 DEF Setup
  <2>2. info.stream \in Nat
    BY DEF TypeOK
  <2>3. decoder' \in Decoders /\ (phase' = "read" => decoder'.frameNum = 0)
    BY <2>1, <2>2, <1>d, NewDecoderIs
  <2> QED
    BY <2>1, <2>3, <1>s, <1>t DEF TypeOK, Numbered, Ends
<1>5. CASE ReadFrame
  <2>1. /\ phase = "read" /\ UNCHANGED <<stream, info>> /\ decoder' = Decode(decoder).decoder
        /\ decoder.frameNum = Len(delivered)
    BY <1>5, ReadFrameIs DEF Numbered
  <2>2. decoder' \in Decoders
    BY <2>1, <1>d, DecodeIs
  <2>3. CASE GoodFrame(decoder)
    <3> DEFINE new == [number |-> Decode(decoder).decoder.frameNum,
                       frame |-> Decode(decoder).frame]
    <3>1. phase' = "convert" /\ delivered' = Append(delivered, new)
      BY <1>5, <2>3, ReadFrameIs
    <3>2. decoder'.frameNum = Len(delivered) + 1 /\ new \in Deliveries
          /\ new.number = Len(delivered) + 1
      <4>1. /\ Decode(decoder).decoder.frameNum = decoder.frameNum + 1
            /\ Decode(decoder).frame \in FramesOfType
        BY <2>3, <1>d, DecodeIs DEF GoodFrame
      <4>2. decoder.frameNum + 1 \in Nat
        BY <1>d DEF Decoders
      <4> QED
        BY <2>1, <4>1, <4>2 DEF Deliveries
    <3> HIDE DEF new
    <3>3. /\ delivered' \in Seq(Deliveries) /\ Len(delivered') = Len(delivered) + 1
          /\ delivered'[Len(delivered) + 1] = new
          /\ DOMAIN delivered' = DOMAIN delivered \cup {Len(delivered) + 1}
          /\ \A k \in DOMAIN delivered : delivered'[k] = delivered[k]
      BY <3>1, <3>2, <1>d
    <3>4. Numbered'
      BY <3>1, <3>2, <3>3 DEF Numbered
    <3>5. TypeOK'
      BY <3>1, <3>3, <2>1, <2>2, <1>s, <1>t DEF TypeOK, Deliveries
    <3> QED
      BY <3>4, <3>5
  <2>4. CASE ~GoodFrame(decoder)
    <3>1. /\ delivered' = delivered /\ phase' \in {"read", "failed", "ended"}
          /\ phase' = "read" => Decode(decoder).result = "again"
      BY <1>5, <2>4, ReadFrameIs
    <3>2. phase' = "read" => decoder'.frameNum = decoder.frameNum
      BY <2>1, <3>1, <1>d, DecodeIs
    <3> QED
      BY <2>1, <2>2, <3>1, <3>2, <1>s, <1>t DEF TypeOK, Numbered, Ends
  <2> QED
    BY <2>3, <2>4
<1>6. CASE ConvertFrame
  <2>1. UNCHANGED <<stream, info, decoder, delivered>> /\ phase = "convert" /\ phase' = "read"
    BY <1>6 DEF ConvertFrame
  <2> QED
    BY <2>1, <1>s, <1>t DEF TypeOK, Numbered
<1>7. CASE UNCHANGED vars
  BY <1>7, <1>t DEF vars, TypeOK, Numbered, Deliveries
<1> QED
  BY <1>1, <1>2, <1>3, <1>4, <1>5, <1>6, <1>7 DEF Next

LEMMA InitSourceInv == Init => SourceInv
  BY NewDecoderIs DEF Init, SourceInv, TypeOK, Numbered, NoStream

\* Whatever is wrong with the file, the decoder and the frames at hand stay within it.
THEOREM TypeCorrect == Spec => []TypeOK
<1>1. SourceInv => TypeOK
  BY DEF SourceInv
<1> QED
  BY <1>1, InitSourceInv, SourceInvKept, PTL DEF Spec

LEMMA SourceInvHolds == Spec => []SourceInv
  BY InitSourceInv, SourceInvKept, PTL DEF Spec

----
(* What DataFlow counts on. *)

Given == IF delivered = <<>> THEN 0 ELSE Last(delivered).number
Status == IF phase \in Ends THEN "over" ELSE IF phase \in {"read", "convert"} THEN "open" ELSE "opening"

\* The number of the last frame is the number of frames.
LEMMA GivenIs == ASSUME SourceInv PROVE Given = Len(delivered) /\ Given \in Nat
<1>1. Len(delivered) \in Nat /\ (delivered # <<>> => Len(delivered) \in DOMAIN delivered)
  BY DEF SourceInv, TypeOK
<1>2. delivered = <<>> => Len(delivered) = 0
  OBVIOUS
<1> QED
  BY <1>1, <1>2 DEF Given, Last, SourceInv, Numbered

LEMMA InitGivesNothing == Init => Source!Init
  BY DEF Init, Source!Init, Ends

LEMMA StepIsSource == SourceInv /\ SourceInv' /\ [Next]_vars => [Source!Next]_(Source!vars)
<1> SUFFICES ASSUME SourceInv, SourceInv', [Next]_vars
             PROVE  \/ Given' = Given /\ Status' = Status
                    \/ Status = "opening" /\ Status' = "open" /\ Given' = Given
                    \/ Status = "open" /\ Given' = Given + 1 /\ Status' = Status
                    \/ Status # "over" /\ Status' = "over" /\ Given' = Given
  BY DEF Source!Next, Source!Open, Source!Deliver, Source!End, Source!vars, Given, Status
<1>1. CASE Open \/ ExtractStream \/ CountFrame \/ Setup
  <2>1. delivered' = delivered /\ phase \in {"open", "extract", "count"}
        /\ phase' \in {"extract", "count", "read"} \cup Ends
    BY <1>1 DEF Open, Opened, ExtractStream, CountFrame, Setup, Ends
  <2> QED
    BY <2>1 DEF Given, Status, Ends
<1>2. CASE ReadFrame
  <2>1. phase = "read"
    BY <1>2, ReadFrameIs DEF SourceInv
  <2>2. CASE GoodFrame(decoder)
    <3>1. phase' = "convert" /\ Len(delivered') = Len(delivered) + 1
      BY <1>2, <2>2, ReadFrameIs DEF SourceInv, TypeOK
    <3>2. Given' = Given + 1
      <4>1. Given = Len(delivered)
        BY GivenIs
      <4>2. Given' = Len(delivered')
        <5>1. Len(delivered') \in DOMAIN delivered' /\ delivered' # <<>>
          BY <3>1 DEF SourceInv, TypeOK
        <5> QED
          BY <5>1 DEF Given, Last, SourceInv, Numbered
      <4> QED
        BY <3>1, <4>1, <4>2
    <3> QED
      BY <2>1, <3>1, <3>2 DEF Status, Ends
  <2>3. CASE ~GoodFrame(decoder)
    <3>1. phase' \in {"read", "failed", "ended"} /\ delivered' = delivered
      BY <1>2, <2>3, ReadFrameIs DEF SourceInv
    <3> QED
      BY <2>1, <3>1 DEF Given, Status, Ends
  <2> QED
    BY <2>2, <2>3
<1>3. CASE ConvertFrame \/ UNCHANGED vars
  BY <1>3 DEF ConvertFrame, vars, Given, Status, Ends
<1> QED
  BY <1>1, <1>2, <1>3 DEF Next

\* An extractor gives frames 1, 2, 3 .. once it is open, and nothing after the end: what
\* FrameSource promises, but for the end coming at all, which is left to the runs.
THEOREM SourceIsImplemented == Spec => Source!Init /\ [][Source!Next]_(Source!vars)
  BY InitGivesNothing, StepIsSource, SourceInvHolds, PTL DEF Spec

----
(* The total is counted by the same decoder that later delivers. *)

Goes(d) == Decode(d).result \in {"again", "frame"}

\* Decoder d has been reached from the start of the file in n rounds, by way of T.
Trace(s, n, T) ==
    /\ T[1] = NewDecoder(s)
    /\ \A k \in 1 .. n - 1 : Goes(T[k]) /\ T[k + 1] = Decode(T[k]).decoder
Reached(s, d) == \E n \in Nat \ {0} : \E T \in [1 .. n -> Decoders] : Trace(s, n, T) /\ T[n] = d

LEMMA ReachedFirst == ASSUME NEW s \in Nat PROVE Reached(s, NewDecoder(s))
<1> DEFINE T == [k \in 1 .. 1 |-> NewDecoder(s)]
<1>1. T \in [1 .. 1 -> Decoders] /\ T[1] = NewDecoder(s)
  BY NewDecoderIs
<1> HIDE DEF T
<1>2. Trace(s, 1, T)
  BY <1>1 DEF Trace
<1>3. \E U \in [1 .. 1 -> Decoders] : Trace(s, 1, U) /\ U[1] = NewDecoder(s)
  BY <1>1, <1>2
<1>4. 1 \in Nat \ {0}
  OBVIOUS
<1> QED
  BY <1>3, <1>4, Zenon DEF Reached

LEMMA ReachedMore ==
    ASSUME file \in Files, NEW s \in Nat, NEW d, Reached(s, d), Goes(d)
    PROVE  Reached(s, Decode(d).decoder)
<1>1. PICK n \in Nat \ {0} : \E T \in [1 .. n -> Decoders] : Trace(s, n, T) /\ T[n] = d
  BY DEF Reached
<1>2. PICK T \in [1 .. n -> Decoders] : Trace(s, n, T) /\ T[n] = d
  BY <1>1
<1> DEFINE U == [k \in 1 .. n + 1 |-> IF k = n + 1 THEN Decode(d).decoder ELSE T[k]]
<1>3. d \in Decoders /\ Decode(d).decoder \in Decoders
  BY <1>2, DecodeIs
<1>4. U \in [1 .. n + 1 -> Decoders] /\ U[n + 1] = Decode(d).decoder
      /\ \A k \in 1 .. n : U[k] = T[k]
  BY <1>3
<1> HIDE DEF U
<1>5. Trace(s, n + 1, U)
  <2>1. U[1] = NewDecoder(s)
    BY <1>2, <1>4 DEF Trace
  <2>2. ASSUME NEW k \in 1 .. (n + 1) - 1
        PROVE  Goes(U[k]) /\ U[k + 1] = Decode(U[k]).decoder
    <3>1. CASE k = n
      BY <1>2, <1>4, <3>1
    <3>2. CASE k < n
      <4>1. k \in 1 .. n - 1 /\ k \in 1 .. n /\ k + 1 \in 1 .. n
        BY <3>2
      <4> QED
        BY <1>2, <1>4, <4>1 DEF Trace
    <3> QED
      BY <3>1, <3>2
  <2> QED
    BY <2>1, <2>2 DEF Trace
<1> QED
  BY <1>4, <1>5 DEF Reached

\* The rounds from the start of the file lead to one end.
LEMMA SameUpTo ==
    ASSUME NEW s, NEW n \in Nat \ {0}, NEW T, Trace(s, n, T), ~Goes(T[n]),
           NEW m \in Nat \ {0}, NEW U, Trace(s, m, U)
    PROVE  m <= n /\ \A k \in 1 .. m : U[k] = T[k]
<1> DEFINE apart == {k \in 1 .. m : k <= n /\ U[k] # T[k]}
<1>1. apart = {}
  <2> SUFFICES ASSUME apart # {} PROVE FALSE
    OBVIOUS
  <2>1. apart \in SUBSET Nat
    OBVIOUS
  <2>2. PICK k \in apart : \A l \in apart : k <= l
    <3> HIDE DEF apart
    <3> QED
      BY <2>1, LeastNumber
  <2>3. k # 1
    BY <2>2 DEF Trace
  <2>4. k - 1 \in 1 .. m - 1 /\ k - 1 \in 1 .. n - 1 /\ k = (k - 1) + 1
    BY <2>2, <2>3
  <2>5. U[k - 1] = T[k - 1]
    BY <2>2, <2>4
  <2>6. U[k] = Decode(U[k - 1]).decoder /\ T[k] = Decode(T[k - 1]).decoder
    BY <2>4 DEF Trace
  <2> QED
    BY <2>2, <2>5, <2>6
<1>2. \A k \in 1 .. m : k <= n => U[k] = T[k]
  BY <1>1
<1>3. m <= n
  <2> SUFFICES ASSUME m > n PROVE FALSE
    OBVIOUS
  <2>1. n \in 1 .. m - 1 /\ n \in 1 .. m
    OBVIOUS
  <2>2. Goes(U[n]) /\ U[n] = T[n]
    BY <1>2, <2>1 DEF Trace
  <2> QED
    BY <2>2
<1> QED
  BY <1>2, <1>3

LEMMA OneEnd ==
    ASSUME NEW s, NEW d, NEW e, Reached(s, d), Reached(s, e), ~Goes(d), ~Goes(e)
    PROVE  d = e
<1>1. PICK n \in Nat \ {0} : \E T \in [1 .. n -> Decoders] : Trace(s, n, T) /\ T[n] = d
  BY DEF Reached
<1>2. PICK T \in [1 .. n -> Decoders] : Trace(s, n, T) /\ T[n] = d
  BY <1>1
<1>3. PICK m \in Nat \ {0} : \E U \in [1 .. m -> Decoders] : Trace(s, m, U) /\ U[m] = e
  BY DEF Reached
<1>4. PICK U \in [1 .. m -> Decoders] : Trace(s, m, U) /\ U[m] = e
  BY <1>3
<1>5. m <= n /\ n <= m /\ \A k \in 1 .. m : U[k] = T[k]
  BY <1>2, <1>4, SameUpTo
<1> QED
  BY <1>2, <1>4, <1>5

\* What the counting decoder ended with is the total.
Counted ==
    info.stream # NoStream /\ file.streams[info.stream].count = 0 =>
        \E e \in Decoders : /\ Reached(info.stream, e) /\ Decode(e).result = "null"
                            /\ e.frameNum = info.total

TotalInv ==
    /\ phase = "count" => Reached(stream, decoder)
    /\ phase \in {"read", "convert"} => info.stream # NoStream /\ Reached(info.stream, decoder)
    /\ Counted
    /\ TotalIsDelivered

LEMMA FileIsKept == [Next]_vars => file' = file /\ type' = type
  BY DEF Next, vars, Open, ExtractStream, CountFrame, Setup, ReadFrame, ConvertFrame

LEMMA DecodeKept ==
    ASSUME file' = file, type' = type
    PROVE  /\ \A d : Decode(d)' = Decode(d)
           /\ Decoders' = Decoders
           /\ \A s, d : Reached(s, d)' <=> Reached(s, d)
<1>1. \A d : AtEnd(d)' <=> AtEnd(d)
  BY DEF AtEnd, NextPacket, OfType
<1>2. \A d : NextPacket(d)' = NextPacket(d)
  BY DEF NextPacket, OfType
<1>3. \A d : Flush(d)' <=> Flush(d)
  BY DEF Flush
<1>4. \A d, p : (SendFailed(d, p)' <=> SendFailed(d, p)) /\ Send(d, p)' = Send(d, p)
  BY DEF SendFailed, Refuses, Codec, Send
<1>5. \A d : SendFlush(d)' = SendFlush(d) /\ (CanAnswer(d)' <=> CanAnswer(d)) /\ Receive(d)' = Receive(d)
  BY DEF SendFlush, Refuses, CanAnswer, Codec, Receive
<1>6. \A d : Decode(d)' = Decode(d)
  BY <1>1, <1>2, <1>3, <1>4, <1>5 DEF Decode, OnDamage, OnDrained
<1>7. Decoders' = Decoders
  BY DEF Decoders, FramesOfType, PacketsOfType, OfType
<1>8. \A s, n, T : Trace(s, n, T)' <=> Trace(s, n, T)
  BY <1>6 DEF Trace, Goes, NewDecoder
<1>9. \A s, d : Reached(s, d)' <=> Reached(s, d)
  BY <1>7, <1>8 DEF Reached
<1> QED
  BY <1>6, <1>7, <1>9

\* A frame of a media whose formats have names can be packed.
LEMMA NamedIsPackable ==
    ASSUME file \in Files, NamedFormats, NEW f \in FramesOfType
    PROVE  Packable(Decoded(f))
<1>1. f[1] \in DOMAIN file.packets /\ file.streams[file.packets[f[1]].stream].type = type
  BY DEF FramesOfType, PacketsOfType, OfType
<1>2. file.packets[f[1]].stream \in Chosen
  BY <1>1, FileTypes DEF Chosen
<1> QED
  BY <1>2 DEF NamedFormats, Packable, Decoded

LEMMA TotalInvKept == SourceInv /\ TotalInv /\ [Next]_vars => TotalInv'
<1> SUFFICES ASSUME SourceInv, TotalInv, [Next]_vars
             PROVE  TotalInv'
  OBVIOUS
<1>s. /\ file' = file /\ type' = type /\ file \in Files
      /\ stream \in Nat /\ info.stream \in Nat /\ decoder \in Decoders
  BY FileIsKept DEF SourceInv, TypeOK
<1>d. /\ \A d : Decode(d)' = Decode(d)
      /\ Decoders' = Decoders
      /\ \A s, d : Reached(s, d)' <=> Reached(s, d)
  BY <1>s, DecodeKept
<1>c. info' = info => Counted'
  BY <1>s, <1>d DEF TotalInv, Counted
<1>r. ASSUME NEW s, NEW d, Reached(s, d)
      PROVE  /\ stream' = s /\ decoder' = d => Reached(stream, decoder)'
             /\ info'.stream = s /\ decoder' = d => Reached(info.stream, decoder)'
  <2>1. PICK n \in Nat \ {0} : \E T \in [1 .. n -> Decoders] : Trace(s, n, T) /\ T[n] = d
    BY <1>r DEF Reached
  <2>2. PICK T \in [1 .. n -> Decoders] : Trace(s, n, T) /\ T[n] = d
    BY <2>1
  <2>3. stream' = s => Trace(stream, n, T)'
    BY <2>2, <1>d DEF Trace, Goes, NewDecoder
  <2>4. info'.stream = s => Trace(info.stream, n, T)'
    BY <2>2, <1>d DEF Trace, Goes, NewDecoder
  <2> QED
    BY <2>2, <2>3, <2>4, <1>d DEF Reached
<1>1. CASE Open
  BY <1>1, <1>c DEF Open, Opened, TotalInv, TotalIsDelivered
<1>2. CASE ExtractStream
  <2>1. phase = "extract" /\ phase' \in {"extract", "failed", "count"}
        /\ stream \in DOMAIN file.streams
    <3>1. stream \in 1 .. Len(file.streams)
      BY <1>2, <1>s, FileTypes DEF ExtractStream, SourceInv, TypeOK
    <3> QED
      BY <1>2, <3>1, <1>s, FileTypes DEF ExtractStream
  <2>2. CASE NeedsCount(file.streams[stream])
    <3>1. UNCHANGED <<info, stream>> /\ decoder' = NewDecoder(stream)
      BY <1>2, <2>2 DEF ExtractStream
    <3>2. Reached(stream, decoder)'
      BY <3>1, <1>s, <1>r, ReachedFirst
    <3> QED
      BY <2>1, <3>1, <3>2, <1>c DEF TotalInv, TotalIsDelivered
  <2>3. CASE ~NeedsCount(file.streams[stream])
    <3>1. /\ phase' = phase
          /\ \/ info' = info
             \/ /\ ~Passed(file.streams[stream])
                /\ info' = [stream |-> stream, total |-> file.streams[stream].count]
      BY <1>2, <2>3 DEF ExtractStream
    <3>2. CASE info' = info
      BY <2>1, <3>1, <3>2, <1>c DEF TotalInv, TotalIsDelivered
    <3>3. CASE ~Passed(file.streams[stream])
               /\ info' = [stream |-> stream, total |-> file.streams[stream].count]
      <4>1. file'.streams[info'.stream].count # 0
        BY <2>3, <3>3, <1>s DEF NeedsCount
      <4> QED
        BY <2>1, <3>1, <4>1 DEF TotalInv, Counted, TotalIsDelivered
    <3> QED
      BY <3>1, <3>2, <3>3
  <2> QED
    BY <2>2, <2>3
<1>3. CASE CountFrame
  <2>1. /\ phase = "count" /\ decoder' = Decode(decoder).decoder /\ Reached(stream, decoder)
        /\ Decode(decoder).result \in {"throw", "null", "frame", "again"}
    BY <1>3, <1>s, DecodeIs DEF CountFrame, TotalInv
  <2>2. CASE Decode(decoder).result = "null"
    <3>1. phase' = "extract"
          /\ info' \in {info, [stream |-> stream, total |-> decoder.frameNum]}
      BY <1>3, <2>2 DEF CountFrame
    <3>2. CASE info' = info
      BY <3>1, <3>2, <1>c DEF TotalInv, TotalIsDelivered
    <3>3. CASE info' = [stream |-> stream, total |-> decoder.frameNum]
      <4>1. info'.stream = stream /\ info'.total = decoder.frameNum
        BY <3>3
      <4>2. Counted'
        BY <2>1, <2>2, <4>1, <1>s, <1>d DEF Counted
      <4> QED
        BY <3>1, <4>2 DEF TotalInv, TotalIsDelivered
    <3> QED
      BY <3>1, <3>2, <3>3
  <2>3. CASE Decode(decoder).result = "throw"
    <3>1. phase' = "failed" /\ info' = info
      BY <1>3, <2>3 DEF CountFrame
    <3> QED
      BY <3>1, <1>c DEF TotalInv, TotalIsDelivered
  <2>4. CASE Goes(decoder)
    <3>1. phase' = "count" /\ UNCHANGED <<info, stream>>
      BY <1>3, <2>4 DEF CountFrame, Goes
    <3>2. Reached(stream, decoder)'
      BY <2>1, <2>4, <3>1, <1>s, <1>r, ReachedMore
    <3> QED
      BY <3>1, <3>2, <1>c DEF TotalInv, TotalIsDelivered
  <2> QED
    BY <2>1, <2>2, <2>3, <2>4 DEF Goes
<1>4. CASE Setup
  <2>1. info' = info /\ phase' \in {"failed", "absent", "read"}
        /\ (phase' = "read" => info.stream # NoStream /\ decoder' = NewDecoder(info.stream))
    BY <1>4 DEF Setup
  <2>2. phase' = "read" => Reached(info.stream, decoder)'
    BY <2>1, <1>s, <1>r, ReachedFirst
  <2> QED
    BY <2>1, <2>2, <1>c DEF TotalInv, TotalIsDelivered
<1>5. CASE ReadFrame
  <2>1. /\ phase = "read" /\ info' = info /\ decoder' = Decode(decoder).decoder
        /\ info.stream # NoStream /\ Reached(info.stream, decoder)
        /\ Decode(decoder).result \in {"throw", "null", "frame", "again"}
    BY <1>5, <1>s, ReadFrameIs, DecodeIs DEF TotalInv, SourceInv
  <2>2. Goes(decoder) => Reached(info.stream, decoder)'
    BY <2>1, <1>s, <1>r, ReachedMore
  <2>3. CASE GoodFrame(decoder)
    <3>1. phase' = "convert" /\ Goes(decoder)
      BY <1>5, <2>3, ReadFrameIs DEF SourceInv, Goes, GoodFrame
    <3> QED
      BY <2>1, <2>2, <3>1, <1>c DEF TotalInv, TotalIsDelivered
  <2>4. CASE ~GoodFrame(decoder)
    <3>1. /\ delivered' = delivered
          /\ phase' = IF Decode(decoder).result = "again" THEN "read"
                      ELSE IF Decode(decoder).result = "throw" THEN "failed" ELSE "ended"
      BY <1>5, <2>4, ReadFrameIs DEF SourceInv
    <3>2. CASE phase' # "ended"
      BY <2>1, <2>2, <3>1, <3>2, <1>c DEF TotalInv, TotalIsDelivered, Goes
    <3>3. CASE phase' = "ended"
      <4> SUFFICES ASSUME NamedFormats', file.streams[info.stream].count = 0
                   PROVE  Len(delivered) = info.total
        BY <2>1, <3>1, <3>3, <1>c, <1>s DEF TotalInv, TotalIsDelivered
      <4>1. NamedFormats
        BY <1>s DEF NamedFormats, Chosen
      <4>2. Decode(decoder).result = "null"
        <5>1. Decode(decoder).result # "frame"
          BY <2>4, <4>1, <1>s, DecodeIs, NamedIsPackable DEF GoodFrame
        <5> QED
          BY <2>1, <3>1, <3>3, <5>1
      <4>3. PICK e \in Decoders : /\ Reached(info.stream, e) /\ Decode(e).result = "null"
                                  /\ e.frameNum = info.total
        BY <2>1 DEF TotalInv, Counted
      <4>4. decoder = e
        BY <2>1, <4>2, <4>3, OneEnd DEF Goes
      <4> QED
        BY <2>1, <4>3, <4>4 DEF SourceInv, Numbered
    <3> QED
      BY <3>2, <3>3
  <2> QED
    BY <2>3, <2>4
<1>6. CASE ConvertFrame
  <2>1. phase = "convert" /\ phase' = "read" /\ UNCHANGED <<info, decoder>>
    BY <1>6 DEF ConvertFrame
  <2>2. info.stream # NoStream /\ Reached(info.stream, decoder)'
    BY <2>1, <1>r DEF TotalInv
  <2> QED
    BY <2>1, <2>2, <1>c DEF TotalInv, TotalIsDelivered
<1>7. CASE UNCHANGED vars
  <2>1. UNCHANGED <<phase, stream, info, decoder, delivered>> 
    BY <1>7 DEF vars
  <2>2. (Reached(stream, decoder) => Reached(stream, decoder)')
        /\ (Reached(info.stream, decoder) => Reached(info.stream, decoder)')
    BY <2>1, <1>r
  <2>3. TotalIsDelivered'
    BY <2>1, <1>s DEF TotalInv, TotalIsDelivered, NamedFormats, Chosen
  <2> QED
    BY <2>1, <2>2, <2>3, <1>c DEF TotalInv
<1> QED
  BY <1>1, <1>2, <1>3, <1>4, <1>5, <1>6, <1>7 DEF Next

\* A total that was counted by decoding is the number of frames the analysis gets,
\* however the file is damaged and whatever the codec holds back.
THEOREM TotalIsDeliveredHolds == Spec => []TotalIsDelivered
<1>1. Init => TotalInv
  BY DEF Init, TotalInv, Counted, TotalIsDelivered
<1>2. TotalInv => TotalIsDelivered
  BY DEF TotalInv
<1> QED
  BY <1>1, <1>2, TotalInvKept, SourceInvHolds, PTL DEF Spec

----
(* Where the samples lie. *)

LEMMA Product == ASSUME NEW a \in Nat, NEW b \in Nat PROVE a * b \in Nat
  OBVIOUS

LEMMA RowsGrow ==
    ASSUME NEW n \in Nat, NEW a \in Nat, NEW b \in Nat, a < b
    PROVE  a * n + n <= b * n
<1>1. PICK d \in Nat : b = a + 1 + d
  <2>1. b - (a + 1) \in Nat /\ b = a + 1 + (b - (a + 1))
    OBVIOUS
  <2> QED
    BY <2>1
<1>2. (a + 1 + d) * n = a * n + n + d * n
  OBVIOUS
<1>3. d * n \in Nat /\ a * n \in Nat
  BY Product
<1> QED
  BY <1>1, <1>2, <1>3

LEMMA Division ==
    ASSUME NEW k \in Nat, NEW n \in Nat \ {0}
    PROVE  \E q \in Nat, r \in 0 .. n - 1 : k = q * n + r
<1> DEFINE beyond == {q \in Nat : k < q * n + n}
<1>1. k \in beyond
  <2>1. k * n >= k
    BY Product
  <2> QED
    BY <2>1
<1>2. PICK q \in beyond : \A p \in beyond : q <= p
  <2>1. beyond \in SUBSET Nat /\ beyond # {}
    BY <1>1
  <2> HIDE DEF beyond
  <2> QED
    BY <2>1, LeastNumber
<1>3. q * n <= k
  <2>1. CASE q = 0
    BY <2>1
  <2>2. CASE q # 0
    <3>1. q - 1 \in Nat /\ q - 1 \notin beyond
      BY <1>2, <2>2
    <3>2. (q - 1) * n + n <= k
      <4>1. (q - 1) * n \in Nat
        BY <3>1, Product
      <4> QED
        BY <3>1, <4>1
    <3>3. (q - 1) * n + n = q * n
      BY <1>2
    <3> QED
      BY <3>2, <3>3
  <2> QED
    BY <2>1, <2>2
<1>4. q * n \in Nat /\ k < q * n + n
  BY <1>2, Product
<1>5. k - q * n \in 0 .. n - 1 /\ k = q * n + (k - q * n)
  BY <1>3, <1>4
<1> QED
  BY <1>2, <1>5

\* m rows of n samples, one after the other, fill the numbers up to m * n.
RowsFit(m, n) ==
    /\ \A a \in 1 .. m, b \in 1 .. n : (a - 1) * n + b \in 1 .. m * n
    /\ \A a, c \in 1 .. m, b, d \in 1 .. n :
            (a - 1) * n + b = (c - 1) * n + d => a = c /\ b = d
    /\ \A k \in 1 .. m * n : \E a \in 1 .. m, b \in 1 .. n : k = (a - 1) * n + b

LEMMA RowsFill == ASSUME NEW m \in Nat, NEW n \in Nat PROVE RowsFit(m, n)
<1>1. ASSUME NEW a \in 1 .. m, NEW b \in 1 .. n
      PROVE  (a - 1) * n + b \in 1 .. m * n
  <2>1. a - 1 \in Nat /\ a - 1 < m
    OBVIOUS
  <2>2. (a - 1) * n + n <= m * n
    BY <2>1, RowsGrow
  <2>3. (a - 1) * n \in Nat /\ m * n \in Nat
    BY <2>1, Product
  <2> QED
    BY <2>2, <2>3
<1>2. ASSUME NEW a \in 1 .. m, NEW c \in 1 .. m, NEW b \in 1 .. n, NEW d \in 1 .. n, a < c
      PROVE  (a - 1) * n + b < (c - 1) * n + d
  <2>1. a - 1 \in Nat /\ c - 1 \in Nat /\ a - 1 < c - 1
    BY <1>2
  <2>2. (a - 1) * n + n <= (c - 1) * n
    BY <2>1, RowsGrow
  <2>3. (a - 1) * n \in Nat /\ (c - 1) * n \in Nat
    BY <2>1, Product
  <2> QED
    BY <2>2, <2>3
<1>3. ASSUME NEW a \in 1 .. m, NEW c \in 1 .. m, NEW b \in 1 .. n, NEW d \in 1 .. n,
             (a - 1) * n + b = (c - 1) * n + d
      PROVE  a = c /\ b = d
  <2>1. (a - 1) * n \in Nat /\ (c - 1) * n \in Nat
    <3>1. a - 1 \in Nat /\ c - 1 \in Nat
      OBVIOUS
    <3> QED
      BY <3>1, Product
  <2>2. ~(a < c) /\ ~(c < a)
    <3>1. a < c => (a - 1) * n + b < (c - 1) * n + d
      BY <1>2
    <3>2. c < a => (c - 1) * n + d < (a - 1) * n + b
      BY <1>2
    <3> QED
      BY <1>3, <2>1, <3>1, <3>2
  <2>3. a = c
    BY <2>2
  <2> QED
    BY <1>3, <2>1, <2>3
<1>4. ASSUME NEW k \in 1 .. m * n
      PROVE  \E a \in 1 .. m, b \in 1 .. n : k = (a - 1) * n + b
  <2>1. m * n \in Nat /\ n # 0
    <3>1. m * n \in Nat
      BY Product
    <3>2. n = 0 => m * n = 0
      OBVIOUS
    <3> QED
      BY <3>1, <3>2
  <2>2. k - 1 \in Nat /\ k <= m * n
    BY <2>1
  <2>3. PICK q \in Nat, r \in 0 .. n - 1 : k - 1 = q * n + r
    BY <2>1, <2>2, Division
  <2>4. q < m
    <3> SUFFICES ASSUME m <= q PROVE FALSE
      OBVIOUS
    <3>1. m = q \/ m * n + n <= q * n
      BY RowsGrow
    <3>2. q * n \in Nat
      BY Product
    <3> QED
      BY <2>1, <2>2, <2>3, <3>1, <3>2
  <2>5. q + 1 \in 1 .. m /\ r + 1 \in 1 .. n /\ (q + 1) - 1 = q
    BY <2>1, <2>4
  <2>6. k = ((q + 1) - 1) * n + (r + 1)
    <3>1. q * n \in Nat
      BY Product
    <3> QED
      BY <2>2, <2>3, <2>5, <3>1
  <2> QED
    BY <2>5, <2>6
<1> QED
  BY <1>1, <1>3, <1>4 DEF RowsFit

\* A buffer with planes as long as the frame has a place for each sample and no other.
Spot(f, cs) == Place(f, f.samples, cs[1], cs[2])

LEMMA SpotsFill ==
    ASSUME NEW f, f.channels \in Nat, f.samples \in Nat
    PROVE  /\ \A cs \in Samples(f) : Spot(f, cs) \in 1 .. f.channels * f.samples
           /\ \A cs, ds \in Samples(f) : Spot(f, cs) = Spot(f, ds) => cs = ds
           /\ \A k \in 1 .. f.channels * f.samples : \E cs \in Samples(f) : Spot(f, cs) = k
<1> DEFINE m == f.channels
           n == f.samples
<1>1. m \in Nat /\ n \in Nat /\ m * n = n * m
  OBVIOUS
<1>2. \A cs \in Samples(f) : cs[1] \in 1 .. m /\ cs[2] \in 1 .. n /\ cs = <<cs[1], cs[2]>>
  BY DEF Samples
<1>3. \A c \in 1 .. m, s \in 1 .. n :
        <<c, s>> \in Samples(f) /\ <<c, s>>[1] = c /\ <<c, s>>[2] = s
  BY DEF Samples
<1>r. RowsFit(m, n) /\ RowsFit(n, m)
  BY <1>1, RowsFill
<1>4. CASE f.format \in PlanarFormats
  <2>1. \A cs : Spot(f, cs) = (cs[1] - 1) * n + cs[2]
    BY <1>4 DEF Spot, Place
  <2> HIDE DEF m, n
  <2>2. ASSUME NEW cs \in Samples(f)
        PROVE  Spot(f, cs) \in 1 .. m * n
    BY <1>2, <1>r, <2>1 DEF RowsFit
  <2>4. ASSUME NEW cs \in Samples(f), NEW ds \in Samples(f), Spot(f, cs) = Spot(f, ds)
        PROVE  cs = ds
    <3>1. (cs[1] - 1) * n + cs[2] = (ds[1] - 1) * n + ds[2]
      BY <2>1, <2>4
    <3>2. cs[1] = ds[1] /\ cs[2] = ds[2]
      BY <1>2, <1>r, <3>1 DEF RowsFit
    <3> QED
      BY <1>2, <3>2
  <2>3. ASSUME NEW k \in 1 .. m * n
        PROVE  \E cs \in Samples(f) : Spot(f, cs) = k
    <3>1. PICK c \in 1 .. m, s \in 1 .. n : k = (c - 1) * n + s
      BY <1>r DEF RowsFit
    <3>2. <<c, s>> \in Samples(f) /\ Spot(f, <<c, s>>) = k
      BY <1>3, <2>1, <3>1
    <3> QED
      BY <3>2
  <2> QED
    BY <2>2, <2>3, <2>4 DEF m, n
<1>5. CASE f.format \notin PlanarFormats
  <2>1. \A cs : Spot(f, cs) = (cs[2] - 1) * m + cs[1]
    BY <1>5 DEF Spot, Place
  <2> HIDE DEF m, n
  <2>2. ASSUME NEW cs \in Samples(f)
        PROVE  Spot(f, cs) \in 1 .. n * m
    BY <1>2, <1>r, <2>1 DEF RowsFit
  <2>4. ASSUME NEW cs \in Samples(f), NEW ds \in Samples(f), Spot(f, cs) = Spot(f, ds)
        PROVE  cs = ds
    <3>1. (cs[2] - 1) * m + cs[1] = (ds[2] - 1) * m + ds[1]
      BY <2>1, <2>4
    <3>2. cs[1] = ds[1] /\ cs[2] = ds[2]
      BY <1>2, <1>r, <3>1 DEF RowsFit
    <3> QED
      BY <1>2, <3>2
  <2>3. ASSUME NEW k \in 1 .. n * m
        PROVE  \E cs \in Samples(f) : Spot(f, cs) = k
    <3>1. PICK s \in 1 .. n, c \in 1 .. m : k = (s - 1) * m + c
      BY <1>r DEF RowsFit
    <3>2. <<c, s>> \in Samples(f) /\ Spot(f, <<c, s>>) = k
      BY <1>3, <2>1, <3>1
    <3> QED
      BY <3>2
  <2> QED
    BY <1>1, <2>2, <2>3, <2>4 DEF m, n
<1> QED
  BY <1>4, <1>5

\* What is laid out at a sample's place is what was meant for it.
LEMMA LayoutIs ==
    ASSUME NEW f, f.channels \in Nat, f.samples \in Nat, NEW value
    PROVE  /\ DOMAIN Layout(f, f.samples, value) = 1 .. f.channels * f.samples
           /\ \A cs \in Samples(f) : Layout(f, f.samples, value)[Spot(f, cs)] = value[cs]
<1>1. DOMAIN Layout(f, f.samples, value) = 1 .. f.channels * f.samples
  BY DEF Layout
<1>2. ASSUME NEW cs \in Samples(f)
      PROVE  Layout(f, f.samples, value)[Spot(f, cs)] = value[cs]
  <2> DEFINE k == Spot(f, cs)
             here == {ds \in Samples(f) : Place(f, f.samples, ds[1], ds[2]) = k}
  <2>1. k \in 1 .. f.channels * f.samples
    BY SpotsFill
  <2>2. here = {cs}
    BY SpotsFill DEF Spot
  <2>3. Layout(f, f.samples, value)[k] =
            IF here = {} THEN Silence ELSE value[CHOOSE ds \in here : TRUE]
    BY <2>1 DEF Layout
  <2> HIDE DEF here
  <2>4. (CHOOSE ds \in here : TRUE) = cs
    BY <2>2
  <2> QED
    BY <2>2, <2>3, <2>4
<1> QED
  BY <1>1, <1>2

\* Every sample is at its place, and nothing else is in the buffer.
Filled(f) ==
    /\ DOMAIN f.buffer = 1 .. f.channels * f.samples
    /\ \A cs \in Samples(f) : f.buffer[Spot(f, cs)] = cs

LEMMA FilledIsHeard ==
    ASSUME NEW f, f.channels \in Nat, f.samples \in Nat, Filled(f)
    PROVE  Heard(f) = Samples(f)
<1>1. f.channels * f.samples = f.samples * f.channels
  OBVIOUS
<1>2. Heard(f) = {f.buffer[k] : k \in 1 .. f.channels * f.samples}
  BY <1>1 DEF Heard, Filled
<1>3. ASSUME NEW k \in 1 .. f.channels * f.samples PROVE f.buffer[k] \in Samples(f)
  <2>1. PICK cs \in Samples(f) : Spot(f, cs) = k
    BY SpotsFill
  <2> QED
    BY <2>1 DEF Filled
<1>4. ASSUME NEW cs \in Samples(f)
      PROVE  \E k \in 1 .. f.channels * f.samples : f.buffer[k] = cs
  BY SpotsFill DEF Filled
<1> QED
  BY <1>2, <1>3, <1>4

LEMMA Quotient ==
    ASSUME NEW q \in Nat, NEW n \in Nat \ {0}, NEW r \in 0 .. n - 1
    PROVE  (q * n + r) \div n = q /\ (q * n + r) % n = r
<1>1. (q * n + r) \div n = q
  BY SMTT(30)
<1>2. (q * n + r) % n = r
  BY SMTT(30)
<1> QED
  BY <1>1, <1>2

LEMMA PaddedIs == ASSUME NEW n \in Nat, n % Align = 0 PROVE Padded(n) = n
<1>1. Align \in Nat \ {0} /\ Align - 1 \in 0 .. Align - 1
  BY FormatsAssumption
<1>2. PICK q \in Nat, r \in 0 .. Align - 1 : n = q * Align + r
  BY <1>1, Division
<1>3. r = 0 /\ q * Align \in Nat
  BY <1>1, <1>2, Quotient, Product
<1>4. n + Align - 1 = q * Align + (Align - 1)
  BY <1>1, <1>2, <1>3
<1>5. (n + Align - 1) \div Align = q
  BY <1>1, <1>4, Quotient
<1> QED
  BY <1>2, <1>3, <1>5 DEF Padded

----
(* From the codec to the detector. *)

\* A frame as the packers and the converters hand it on.  The sound of a frame that needs
\* padding comes out wrong when it is resampled, but is right as long as it is not.
IsPack(f) ==
    /\ f = [ok |-> f.ok, format |-> f.format, channels |-> f.channels, samples |-> f.samples,
            layout |-> f.layout, buffer |-> f.buffer]
    /\ f.channels \in Nat /\ f.samples \in Nat
    /\ NamedPicture(f.format) => f.channels = 1

Sound(f) ==
    /\ IsPack(f) /\ Packable(f)
    /\ f.samples % Align = 0 => Filled(f)

LEMMA PackIsSound ==
    ASSUME NEW f, IsPack(f), Packable(f)
    PROVE  Sound(Pack(f)) /\ Pack(f).ok = f.ok
<1> DEFINE g == Pack(f)
<1>1. CASE IsPicture(f)
  <2> DEFINE b == [k \in 1 .. f.samples |-> <<1, k>>]
  <2>1. g = [f EXCEPT !.buffer = b]
    BY <1>1 DEF Pack, PackPicture
  <2> HIDE DEF b
  <2>2. /\ g = [ok |-> f.ok, format |-> f.format, channels |-> f.channels,
                samples |-> f.samples, layout |-> f.layout, buffer |-> b]
    BY <2>1 DEF IsPack
  <2> HIDE DEF g
  <2>3. f.format \notin PlanarFormats /\ f.channels = 1 /\ f.samples \in Nat
    BY <1>1, FormatsAssumption DEF IsPicture, NamedPicture, IsPack
  <2>4. DOMAIN b = 1 .. 1 * f.samples
    BY <2>3 DEF b
  <2>5. ASSUME NEW cs \in (1 .. 1) \X (1 .. f.samples)
        PROVE  b[Spot(g, cs)] = cs
    <3>1. cs[1] = 1 /\ cs[2] \in 1 .. f.samples /\ cs = <<cs[1], cs[2]>>
      OBVIOUS
    <3>2. Spot(g, cs) = (cs[2] - 1) * 1 + cs[1]
      BY <2>2, <2>3 DEF Spot, Place
    <3>3. Spot(g, cs) = cs[2]
      BY <2>3, <3>1, <3>2
    <3> QED
      BY <3>1, <3>3 DEF b
  <2>6. Filled(g)
    BY <2>2, <2>3, <2>4, <2>5 DEF Filled, Samples
  <2> QED
    BY <2>2, <2>6 DEF g, Sound, IsPack, Packable, NamedSound
<1>2. CASE ~IsPicture(f)
  <2> DEFINE b == Layout(f, f.samples, [cs \in Samples(f) |-> cs])
  <2>1. g = [f EXCEPT !.buffer = b]
    BY <1>2 DEF Pack, PackSound
  <2>2. /\ DOMAIN b = 1 .. f.channels * f.samples
        /\ \A cs \in Samples(f) : b[Spot(f, cs)] = cs
    BY LayoutIs DEF IsPack
  <2> HIDE DEF b
  <2>3. /\ g = [ok |-> f.ok, format |-> f.format, channels |-> f.channels,
                samples |-> f.samples, layout |-> f.layout, buffer |-> b]
    BY <2>1 DEF IsPack
  <2> HIDE DEF g
  <2>4. Samples(g) = Samples(f) /\ \A cs : Spot(g, cs) = Spot(f, cs)
    BY <2>3 DEF Samples, Spot, Place
  <2>5. Filled(g)
    BY <2>2, <2>3, <2>4 DEF Filled
  <2> QED
    BY <2>3, <2>5 DEF g, Sound, IsPack, Packable, NamedSound, NamedPicture
<1> QED
  BY <1>1, <1>2

\* A resampled frame is sound where its samples need no padding.
LEMMA ResampleIsSound ==
    ASSUME NEW f, Sound(f), NEW format, NamedSound(format),
           Resample(f, format).outcome = "done"
    PROVE  Sound(Resample(f, format).frame)
<1> DEFINE h == [f EXCEPT !.format = format]
           b == Layout(h, Padded(f.samples), ReadBack(f))
           g == Resample(f, format).frame
<1>1. g = [h EXCEPT !.buffer = b]
  BY DEF Resample, Converted
<1>2. /\ h = [ok |-> f.ok, format |-> format, channels |-> f.channels,
              samples |-> f.samples, layout |-> f.layout, buffer |-> f.buffer]
      /\ f.channels \in Nat /\ f.samples \in Nat
  BY DEF Sound, IsPack
<1>3. h.channels = f.channels /\ h.samples = f.samples /\ h.format = format
      /\ Samples(h) = Samples(f)
  BY <1>2 DEF Samples
<1>4. f.samples % Align = 0 =>
        /\ DOMAIN b = 1 .. f.channels * f.samples
        /\ \A cs \in Samples(f) : b[Spot(h, cs)] = cs
  <2> SUFFICES ASSUME f.samples % Align = 0
               PROVE  /\ DOMAIN b = 1 .. f.channels * f.samples
                      /\ \A cs \in Samples(f) : b[Spot(h, cs)] = cs
    OBVIOUS
  <2>1. Padded(f.samples) = f.samples /\ Filled(f)
    BY <1>2, PaddedIs DEF Sound
  <2>2. \A cs \in Samples(f) : ReadBack(f)[cs] = cs
    <3> TAKE cs \in Samples(f)
    <3>1. Spot(f, cs) \in DOMAIN f.buffer /\ f.buffer[Spot(f, cs)] = cs
      BY <1>2, <2>1, SpotsFill DEF Filled
    <3> QED
      BY <2>1, <3>1 DEF ReadBack, Spot
  <2> HIDE DEF h
  <2>3. /\ DOMAIN Layout(h, h.samples, ReadBack(f)) = 1 .. h.channels * h.samples
        /\ \A cs \in Samples(h) : Layout(h, h.samples, ReadBack(f))[Spot(h, cs)] = ReadBack(f)[cs]
    <3>1. h.channels \in Nat /\ h.samples \in Nat
      BY <1>2, <1>3
    <3> QED
      BY ONLY <3>1, LayoutIs
  <2> QED
    BY <1>3, <2>1, <2>2, <2>3
<1> HIDE DEF b
<1>5. g = [ok |-> f.ok, format |-> format, channels |-> f.channels, samples |-> f.samples,
           layout |-> f.layout, buffer |-> b]
  BY <1>1, <1>2
<1>6. Samples(g) = Samples(f) /\ \A cs : Spot(g, cs) = Spot(h, cs)
  BY <1>3, <1>5 DEF Samples, Spot, Place
<1> HIDE DEF g, h
<1>7. f.samples % Align = 0 => Filled(g)
  BY <1>4, <1>5, <1>6 DEF Filled
<1>8. ~NamedPicture(format)
  BY FormatsAssumption DEF NamedSound, NamedPicture
<1> QED
  BY <1>2, <1>5, <1>7, <1>8 DEF g, Sound, IsPack, Packable

LEMMA ScaleIsSound ==
    ASSUME NEW f, Sound(f), IsPicture(f), NEW format, NamedPicture(format),
           Scale(f, format).outcome = "done"
    PROVE  Sound(Scale(f, format).frame)
<1> DEFINE g == Scale(f, format).frame
<1>1. g = [f EXCEPT !.format = format]
  BY DEF Scale, Converted
<1>2. g = [ok |-> f.ok, format |-> format, channels |-> f.channels, samples |-> f.samples,
           layout |-> f.layout, buffer |-> f.buffer]
  BY <1>1 DEF Sound, IsPack
<1> HIDE DEF g
<1>3. f.format \notin PlanarFormats /\ format \notin PlanarFormats
  BY FormatsAssumption DEF IsPicture, NamedPicture
<1>4. Samples(g) = Samples(f) /\ \A cs : Spot(g, cs) = Spot(f, cs)
  BY <1>2, <1>3 DEF Samples, Spot, Place
<1>5. f.samples % Align = 0 => Filled(g)
  BY <1>2, <1>4 DEF Filled, Sound
<1> QED
  BY <1>2, <1>5 DEF g, Sound, IsPack, Packable, NamedPicture, IsPicture

\* One round of convert().
Try(f, format) == IF IsPicture(f) THEN ConvertPicture(f, format) ELSE ConvertSound(f, format)

LEMMA TryIsSound ==
    ASSUME NEW f, Sound(f), NEW format
    PROVE  /\ Try(f, format).outcome \in {"done", "failed", "invalid"}
           /\ Try(f, format).outcome = "done" => Sound(Try(f, format).frame)
<1>1. Try(f, format).outcome \in {"done", "failed", "invalid"}
  BY DEF Try, ConvertPicture, ConvertSound, Scale, Resample, Converted
<1>2. ASSUME Try(f, format).outcome = "done"
      PROVE  Sound(Try(f, format).frame)
  <2>1. CASE IsPicture(f)
    <3>1. NamedPicture(format)
      BY <1>2, <2>1 DEF Try, ConvertPicture, Converted
    <3> QED
      BY <1>2, <2>1, <3>1, ScaleIsSound DEF Try, ConvertPicture, Converted
  <2>2. CASE ~IsPicture(f)
    <3>1. NamedSound(format)
      BY <1>2, <2>2 DEF Try, ConvertSound, Converted
    <3> QED
      BY <1>2, <2>2, <3>1, ResampleIsSound DEF Try, ConvertSound, Converted
  <2> QED
    BY <2>1, <2>2
<1> QED
  BY <1>1, <1>2

LEMMA ConvertIsSound ==
    ASSUME NEW f, Sound(f), NEW formats \in FormatLists
    PROVE  Convert(f, formats).ok => Sound(Convert(f, formats))
<1> DEFINE decided == {i \in DOMAIN formats : Try(f, formats[i]).outcome # "failed"}
<1>1. Convert(f, formats) =
        IF decided = {} \/ Try(f, formats[Min(decided)]).outcome = "invalid"
        THEN [f EXCEPT !.ok = FALSE] ELSE Try(f, formats[Min(decided)]).frame
  BY DEF Convert, Try
<1>2. decided = {} \/ Try(f, formats[Min(decided)]).outcome = "invalid"
        => ~Convert(f, formats).ok
  BY <1>1 DEF Sound, IsPack
<1>3. decided \in SUBSET Nat
  <2>1. DOMAIN formats = 1 .. Len(formats)
    BY FormatListsAssumption DEF IsSequence
  <2> QED
    BY <2>1
<1>4. decided # {} => Min(decided) \in decided
  <2> HIDE DEF decided
  <2> QED
    BY <1>3, LeastNumber
<1>5. decided # {} => Try(f, formats[Min(decided)]).outcome # "failed"
  BY <1>4
<1> HIDE DEF decided
<1> QED
  BY <1>1, <1>2, <1>5, TryIsSound

PackInv ==
    /\ delivered # <<>> /\ packed.ok => Sound(packed)
    /\ phase = "convert" => delivered # <<>> /\ packed.ok

LEMMA DecodedIsPack ==
    ASSUME file \in Files, NEW frame \in FramesOfType
    PROVE  IsPack(Decoded(frame)) /\ Decoded(frame).ok
<1>1. frame[1] \in DOMAIN file.packets
  BY DEF FramesOfType, PacketsOfType
<1>2. file.packets[frame[1]].stream \in DOMAIN file.streams
  BY <1>1, FileTypes
<1> DEFINE t == file.streams[file.packets[frame[1]].stream]
<1>3. /\ t.channels \in Nat /\ t.samples \in Nat
      /\ NamedPicture(t.format) => t.channels = 1
  BY <1>2, FilesAssumption
<1>4. Decoded(frame) = [ok |-> TRUE, format |-> t.format, channels |-> t.channels,
                        samples |-> t.samples, layout |-> t.layout, buffer |-> <<>>]
  BY DEF Decoded
<1> HIDE DEF t
<1> QED
  BY <1>3, <1>4 DEF IsPack

LEMMA PackInvKept == SourceInv /\ PackInv /\ [Next]_vars => PackInv'
<1> SUFFICES ASSUME SourceInv, PackInv, [Next]_vars
             PROVE  PackInv'
  OBVIOUS
<1>1. CASE ReadFrame
  <2>1. CASE GoodFrame(decoder)
    <3>1. packed' = Pack(Decoded(Decode(decoder).frame)) /\ delivered' # <<>>
      BY <1>1, <2>1, ReadFrameIs DEF SourceInv, TypeOK
    <3>2. Decode(decoder).frame \in FramesOfType /\ file \in Files
      BY <2>1, DecodeIs DEF GoodFrame, SourceInv, TypeOK
    <3>3. Sound(packed') /\ packed'.ok
      BY <2>1, <3>1, <3>2, DecodedIsPack, PackIsSound DEF GoodFrame
    <3> QED
      BY <3>1, <3>3 DEF PackInv
  <2>2. CASE ~GoodFrame(decoder)
    BY <1>1, <2>2, ReadFrameIs DEF SourceInv, PackInv
  <2> QED
    BY <2>1, <2>2
<1>2. CASE ConvertFrame
  <2>1. /\ delivered' = delivered /\ phase = "convert" /\ phase' = "read"
        /\ packed' \in {packed} \cup {Convert(packed, formats) : formats \in FormatLists}
    BY <1>2 DEF ConvertFrame
  <2>2. CASE packed' = packed
    BY <2>1, <2>2 DEF PackInv
  <2>3. CASE packed' # packed
    <3>1. PICK formats \in FormatLists : packed' = Convert(packed, formats)
      BY <2>1, <2>3
    <3>2. packed'.ok => Sound(packed')
      BY <2>1, <3>1, ConvertIsSound DEF PackInv
    <3> QED
      BY <2>1, <3>2 DEF PackInv
  <2> QED
    BY <2>2, <2>3
<1>3. CASE Open \/ ExtractStream \/ CountFrame \/ Setup
  <2>1. UNCHANGED <<delivered, packed>> /\ phase' # "convert"
    BY <1>3 DEF Open, Opened, ExtractStream, CountFrame, Setup
  <2> QED
    BY <2>1 DEF PackInv
<1>4. CASE UNCHANGED vars
  BY <1>4 DEF vars, PackInv
<1> QED
  BY <1>1, <1>2, <1>3, <1>4 DEF Next

\* A detector hears exactly the samples of the frame, whatever the format it came in and
\* the format it was asked for, for frames that need no padding.
THEOREM DetectorHearsFrameHolds == Spec => []DetectorHearsFrame
<1>1. Init => PackInv
  BY DEF Init, PackInv
<1>2. PackInv => DetectorHearsFrame
  BY FilledIsHeard DEF PackInv, DetectorHearsFrame, Sound, IsPack
<1> QED
  BY <1>1, <1>2, PackInvKept, SourceInvHolds, PTL DEF Spec

----
(* The frames come as they are in the file. *)

\* The frames in s and then those in t are all frames of the packets up to pos, in order,
\* where each packet is one frame.
InLine(s, t, pos) ==
    /\ \A k \in DOMAIN s : s[k] \in PacketsOfType \X {1} /\ s[k][1] < pos
    /\ \A k \in DOMAIN t : t[k] \in PacketsOfType \X {1} /\ t[k][1] < pos
    /\ \A j, k \in DOMAIN s : j < k => s[j][1] < s[k][1]
    /\ \A j, k \in DOMAIN t : j < k => t[j][1] < t[k][1]
    /\ \A j \in DOMAIN s, k \in DOMAIN t : s[j][1] < t[k][1]
    /\ \A p \in PacketsOfType : p < pos =>
            (\E k \in DOMAIN s : s[k] = <<p, 1>>) \/ (\E k \in DOMAIN t : t[k] = <<p, 1>>)

LEMMA PacketNumbers == ASSUME file \in Files PROVE PacketsOfType \in SUBSET Nat
  BY FileTypes DEF PacketsOfType

\* Packets that are not of the type may be passed over.
LEMMA PassOver ==
    ASSUME file \in Files, NEW s, NEW t, NEW pos \in Nat, NEW next \in Nat, pos <= next,
           InLine(s, t, pos), \A p \in PacketsOfType : p < next => p < pos
    PROVE  InLine(s, t, next)
<1>1. /\ \A k \in DOMAIN s : s[k][1] \in Nat /\ s[k][1] < next
      /\ \A k \in DOMAIN t : t[k][1] \in Nat /\ t[k][1] < next
  BY PacketNumbers DEF InLine
<1> QED
  BY <1>1 DEF InLine

\* The packet at pos joins the line.
LEMMA JoinLine ==
    ASSUME file \in Files, NEW s, NEW t \in Seq(FramesOfType), NEW pos \in PacketsOfType,
           InLine(s, t, pos)
    PROVE  InLine(s, Append(t, <<pos, 1>>), pos + 1)
<1> DEFINE u == Append(t, <<pos, 1>>)
           n == Len(t) + 1
<1>1. /\ DOMAIN u = DOMAIN t \cup {n} /\ u[n] = <<pos, 1>>
      /\ \A k \in DOMAIN t : u[k] = t[k] /\ k \in Nat /\ k < n
      /\ n \in Nat
  BY DEF FramesOfType
<1> HIDE DEF u, n
<1>2. pos \in Nat /\ \A p \in PacketsOfType : p \in Nat
  BY PacketNumbers
<1>3. /\ \A k \in DOMAIN s : s[k][1] \in Nat /\ s[k][1] < pos
      /\ \A k \in DOMAIN t : t[k][1] \in Nat /\ t[k][1] < pos
  BY <1>2 DEF InLine
<1>4. \A k \in DOMAIN s : s[k] \in PacketsOfType \X {1} /\ s[k][1] < pos + 1
  BY <1>2, <1>3 DEF InLine
<1>5. u[n] \in PacketsOfType \X {1} /\ u[n][1] = pos
  BY <1>1
<1>6. \A k \in DOMAIN u : u[k] \in PacketsOfType \X {1} /\ u[k][1] < pos + 1
  BY <1>1, <1>2, <1>3, <1>5 DEF InLine
<1>7. \A j, k \in DOMAIN u : j < k => u[j][1] < u[k][1]
  BY <1>1, <1>3, <1>5 DEF InLine
<1>8. \A j \in DOMAIN s, k \in DOMAIN u : s[j][1] < u[k][1]
  BY <1>1, <1>3, <1>5 DEF InLine
<1>9. \A p \in PacketsOfType : p < pos + 1 =>
            (\E k \in DOMAIN s : s[k] = <<p, 1>>) \/ (\E k \in DOMAIN u : u[k] = <<p, 1>>)
  <2> TAKE p \in PacketsOfType
  <2>1. CASE p < pos
    BY <1>1, <2>1 DEF InLine
  <2>2. CASE p = pos
    BY <1>1, <2>2
  <2> QED
    BY <1>2, <2>1, <2>2
<1>10. \A j, k \in DOMAIN s : j < k => s[j][1] < s[k][1]
  BY DEF InLine
<1> QED
  BY <1>4, <1>6, <1>7, <1>8, <1>9, <1>10 DEF InLine, u

\* The first of those held is handed out.
LEMMA HandOut ==
    ASSUME NEW s \in Seq(FramesOfType), NEW t \in Seq(FramesOfType), t # <<>>,
           NEW pos \in Nat, InLine(s, t, pos)
    PROVE  InLine(Append(s, Head(t)), Tail(t), pos)
<1> DEFINE u == Append(s, Head(t))
           v == Tail(t)
           n == Len(s) + 1
<1>1. /\ DOMAIN u = DOMAIN s \cup {n} /\ u[n] = t[1] /\ n \in Nat /\ n \in DOMAIN u
      /\ \A k \in DOMAIN s : u[k] = s[k] /\ k \in Nat /\ k < n /\ k \in DOMAIN u
      /\ 1 \in DOMAIN t
  BY DEF FramesOfType
<1>2. \A k \in DOMAIN v : v[k] = t[k + 1] /\ k + 1 \in DOMAIN t /\ 1 < k + 1 /\ k \in Nat
  OBVIOUS
<1>3. \A k \in DOMAIN t : k # 1 => k - 1 \in DOMAIN v /\ v[k - 1] = t[k]
  OBVIOUS
<1> HIDE DEF u, v, n
<1>4. \A k \in DOMAIN u : u[k] \in PacketsOfType \X {1} /\ u[k][1] < pos
  BY <1>1 DEF InLine
<1>5. \A k \in DOMAIN v : v[k] \in PacketsOfType \X {1} /\ v[k][1] < pos
  BY <1>2 DEF InLine
<1>6. \A j, k \in DOMAIN u : j < k => u[j][1] < u[k][1]
  BY <1>1 DEF InLine
<1>7. \A j, k \in DOMAIN v : j < k => v[j][1] < v[k][1]
  <2> TAKE j, k \in DOMAIN v
  <2>1. j < k => j + 1 < k + 1
    BY <1>2
  <2> QED
    BY <1>2, <2>1 DEF InLine
<1>8. \A j \in DOMAIN u, k \in DOMAIN v : u[j][1] < v[k][1]
  BY <1>1, <1>2 DEF InLine
<1>9. ASSUME NEW p \in PacketsOfType, p < pos
      PROVE  (\E k \in DOMAIN u : u[k] = <<p, 1>>) \/ (\E k \in DOMAIN v : v[k] = <<p, 1>>)
  <2>1. (\E k \in DOMAIN s : s[k] = <<p, 1>>) \/ (\E k \in DOMAIN t : t[k] = <<p, 1>>)
    BY <1>9 DEF InLine
  <2>2. CASE \E k \in DOMAIN s : s[k] = <<p, 1>>
    BY <1>1, <2>2
  <2>3. CASE \E k \in DOMAIN t : t[k] = <<p, 1>>
    <3>1. PICK k \in DOMAIN t : t[k] = <<p, 1>>
      BY <2>3
    <3>2. CASE k = 1
      BY <1>1, <3>1, <3>2
    <3>3. CASE k # 1
      BY <1>3, <3>1, <3>3
    <3> QED
      BY <3>2, <3>3
  <2> QED
    BY <2>1, <2>2, <2>3
<1> QED
  BY <1>4, <1>5, <1>6, <1>7, <1>8, <1>9 DEF InLine, u, v

----

Frames == [k \in DOMAIN delivered |-> Frame(k)]

\* What a decoder holds while each packet is one frame: no more than the codec's delay, so
\* the codec refuses nothing; and nothing is to come once it has been told of the end.
Steady(d) ==
    /\ d.stream \in DOMAIN file.streams
    /\ ~d.draining => Len(d.held) <= Codec(d).delay
    /\ d.draining => d.pos > Len(file.packets) /\ Flush(d)

OneEach == \A p \in PacketsOfType : file.packets[p].frames = 1

LEMMA SameChosen ==
    ASSUME file \in Files
    PROVE  OfChosen = PacketsOfType /\ (OneToOne => OneEach)
<1>1. OfChosen = PacketsOfType
  BY FileTypes DEF OfChosen, PacketsOfType, Chosen, OfType
<1> QED
  BY <1>1 DEF OneToOne, OneEach

LEMMA SteadyRefuses ==
    ASSUME file \in Files, NEW d \in Decoders, Steady(d), ~d.draining
    PROVE  ~Refuses(d)
<1>1. Codec(d).delay \in Nat /\ Len(d.held) \in Nat /\ Len(d.held) <= Codec(d).delay
  BY FileTypes DEF Steady, Codec, Decoders
<1> QED
  BY <1>1 DEF Refuses

\* Where each packet is one frame, a packet or the end of the file that is sent leaves the
\* frames in line, and the codec with at most one frame more than its delay.
LEMMA SentInLine ==
    ASSUME file \in Files, OneEach, NEW d \in Decoders, Steady(d), Undecided(d),
           NEW s, InLine(s, d.held, d.pos)
    PROVE  /\ InLine(s, Sent(d).held, Sent(d).pos)
           /\ Sent(d).stream = d.stream
           /\ Sent(d).draining => Sent(d).pos > Len(file.packets) /\ Flush(d) /\ AtEnd(d)
           /\ ~Sent(d).draining => Len(Sent(d).held) <= Codec(d).delay + 1
<1>0. d.pos \in Nat \ {0} /\ Len(file.packets) \in Nat /\ Codec(d).delay \in Nat
      /\ d.held \in Seq(FramesOfType) /\ Len(d.held) \in Nat
      /\ DOMAIN file.packets = 1 .. Len(file.packets)
  BY FileTypes DEF Decoders, Steady, Codec
<1>1. CASE AtEnd(d)
  <2>1. Sent(d) = SendFlush(d) /\ Flush(d)
    BY <1>1 DEF Sent, Undecided
  <2>2. /\ Sent(d).held = d.held /\ Sent(d).pos = Len(file.packets) + 1 /\ Sent(d).stream = d.stream
        /\ Sent(d).draining
    BY <2>1, SendFlushIs, SteadyRefuses
  <2>3. \A p \in PacketsOfType : p \in Nat /\ p < d.pos /\ p < Len(file.packets) + 1
    <3>1. \A p \in d.pos .. Len(file.packets) : ~OfType(p)
      BY <1>1, NextPacketIs
    <3> QED
      BY <1>0, <3>1 DEF PacketsOfType
  <2>4. InLine(s, d.held, Len(file.packets) + 1)
    <3>1. CASE d.pos <= Len(file.packets) + 1
      BY <1>0, <2>3, <3>1, PassOver
    <3>2. CASE d.pos > Len(file.packets) + 1
      BY <1>0, <2>3, <3>2 DEF InLine
    <3> QED
      BY <1>0, <3>1, <3>2
  <2> QED
    BY <1>0, <1>1, <2>1, <2>2, <2>4
<1>2. CASE ~AtEnd(d)
  <2> DEFINE p == NextPacket(d)
  <2>1. /\ p \in d.pos .. Len(file.packets) /\ p \in PacketsOfType
        /\ \A q \in d.pos .. p - 1 : ~OfType(q)
    BY <1>2, NextPacketIs DEF PacketsOfType
  <2>2. ~d.draining /\ ~Refuses(d)
    <3>1. ~(d.pos > Len(file.packets))
      BY <1>0, <2>1
    <3> QED
      BY <3>1, SteadyRefuses DEF Steady
  <2>3. /\ Sent(d).held = d.held \o FramesOf(p) /\ Sent(d).pos = p + 1
        /\ Sent(d).stream = d.stream /\ ~Sent(d).draining
    <3>1. OfType(p) /\ p \in DOMAIN file.packets
      BY <2>1 DEF PacketsOfType
    <3> HIDE DEF p
    <3>2. Sent(d) = Send(d, p)
      BY <1>2 DEF Sent, p
    <3>3. /\ Send(d, p).held = d.held \o FramesOf(p) /\ Send(d, p).pos = p + 1
          /\ Send(d, p).stream = d.stream /\ Send(d, p).draining = d.draining
      BY <2>2, <3>1, SendIs
    <3> QED
      BY <2>2, <3>2, <3>3
  <2> HIDE DEF p
  <2>4. d.held \o FramesOf(p) = Append(d.held, <<p, 1>>)
    <3>1. FramesOf(p) = << <<p, 1>> >>
      <4>1. file.packets[p].frames = 1
        BY <2>1 DEF OneEach
      <4> QED
        BY <4>1 DEF FramesOf
    <3> QED
      BY <1>0, <3>1
  <2>5. InLine(s, d.held, p)
    <3>1. \A q \in PacketsOfType : q \in Nat /\ (q < p => q < d.pos)
      BY <1>0, <2>1 DEF PacketsOfType
    <3> QED
      BY <1>0, <2>1, <3>1, PassOver
  <2>6. InLine(s, Append(d.held, <<p, 1>>), p + 1)
    BY <1>0, <2>1, <2>5, JoinLine
  <2>7. Len(Append(d.held, <<p, 1>>)) = Len(d.held) + 1
    BY <1>0
  <2>8. Len(d.held) <= Codec(d).delay
    BY <2>2 DEF Steady
  <2>9. Len(d.held) + 1 <= Codec(d).delay + 1
    BY <1>0, <2>8
  <2> QED
    BY <1>2, <2>3, <2>4, <2>6, <2>7, <2>9
<1> QED
  BY <1>1, <1>2

LEMMA OneFrame ==
    ASSUME file \in Files, NEW f \in PacketsOfType \X {1}
    PROVE  f[1] \in PacketsOfType /\ f[2] = 1 /\ f = <<f[1], 1>> /\ f[1] \in Nat
<1>1. f[1] \in PacketsOfType /\ f[2] = 1 /\ f = <<f[1], 1>>
  OBVIOUS
<1> QED
  BY <1>1, PacketNumbers

\* Where each packet is one frame, the frames of the file are its packets.
LEMMA AllFramesIs ==
    ASSUME file \in Files, OneToOne
    PROVE  AllFrames = PacketsOfType \X {1}
<1>1. \A p \in OfChosen : file.packets[p].frames = 1
  BY DEF OneToOne
<1>2. 1 .. 1 = {1}
  OBVIOUS
<1>3. AllFrames = UNION {{p} \X {1} : p \in OfChosen}
  BY <1>1, <1>2 DEF AllFrames
<1>4. UNION {{p} \X {1} : p \in OfChosen} = OfChosen \X {1}
  OBVIOUS
<1> QED
  BY <1>3, <1>4, SameChosen

LEMMA FramesIs ==
    ASSUME delivered \in Seq(Deliveries)
    PROVE  /\ Frames \in Seq(FramesOfType) /\ DOMAIN Frames = DOMAIN delivered
           /\ \A k \in DOMAIN delivered : Frames[k] = Frame(k)
<1>1. DOMAIN delivered = 1 .. Len(delivered) /\ Len(delivered) \in Nat
      /\ \A k \in DOMAIN delivered : delivered[k].frame \in FramesOfType
  <2>1. \A k \in DOMAIN delivered : delivered[k] \in Deliveries
    OBVIOUS
  <2>2. \A x \in Deliveries : x.frame \in FramesOfType
    BY DEF Deliveries
  <2> QED
    BY <2>1, <2>2
<1> QED
  BY <1>1 DEF Frames, Frame

\* Frames in line are the first frames of the file, in its order.
LEMMA LineIsOrder ==
    ASSUME SourceInv, OneToOne, NEW t, NEW pos \in Nat, InLine(Frames, t, pos)
    PROVE  FramesInOrder
<1>0. /\ file \in Files /\ delivered \in Seq(Deliveries)
      /\ DOMAIN Frames = DOMAIN delivered /\ \A k \in DOMAIN delivered : Frames[k] = Frame(k)
      /\ \A k \in DOMAIN delivered : k \in Nat /\ \A j \in DOMAIN delivered : j < k => j \in 1 .. k - 1
  <2>1. file \in Files /\ delivered \in Seq(Deliveries)
    BY DEF SourceInv, TypeOK, Deliveries
  <2>2. DOMAIN delivered = 1 .. Len(delivered) /\ Len(delivered) \in Nat
    BY <2>1
  <2> QED
    BY <2>1, <2>2, FramesIs
<1>1. AllFrames = PacketsOfType \X {1} /\ PacketsOfType \in SUBSET Nat
  BY <1>0, AllFramesIs, PacketNumbers
<1>2. \A k \in DOMAIN delivered : /\ Frame(k) \in PacketsOfType \X {1}
                                  /\ Frame(k)[1] \in PacketsOfType /\ Frame(k)[2] = 1
                                  /\ Frame(k)[1] \in Nat /\ Frame(k)[1] < pos
  <2> TAKE k \in DOMAIN delivered
  <2>1. Frame(k) \in PacketsOfType \X {1} /\ Frame(k)[1] < pos
    BY <1>0 DEF InLine
  <2> QED
    BY <1>0, <2>1, OneFrame
<1>3. \A j, k \in DOMAIN delivered : j < k => Before(Frame(j), Frame(k))
  BY <1>0 DEF InLine, Before
<1>4. ASSUME NEW k \in DOMAIN delivered, NEW f \in AllFrames, Before(f, Frame(k))
      PROVE  \E j \in 1 .. k - 1 : Frame(j) = f
  <2>1. /\ f[1] \in PacketsOfType /\ f[2] = 1 /\ f = <<f[1], 1>> /\ f[1] \in Nat
    BY <1>0, <1>1, OneFrame
  <2>2. f[1] < Frame(k)[1] /\ f[1] < pos
    BY <1>2, <1>4, <2>1 DEF Before
  <2>3. \A l \in DOMAIN t : t[l] # f
    <3> SUFFICES ASSUME NEW l \in DOMAIN t, t[l] = f PROVE FALSE
      OBVIOUS
    <3>1. Frame(k)[1] < f[1]
      BY <1>0 DEF InLine
    <3> QED
      BY <1>2, <2>1, <2>2, <3>1
  <2>4. PICK j \in DOMAIN delivered : Frame(j) = f
    <3>1. (\E j \in DOMAIN Frames : Frames[j] = f) \/ (\E l \in DOMAIN t : t[l] = f)
      BY <2>1, <2>2 DEF InLine
    <3> QED
      BY <1>0, <2>3, <3>1
  <2>5. ~(k < j) /\ k # j
    <3>1. k < j => Frame(k)[1] < Frame(j)[1]
      BY <1>0 DEF InLine
    <3> QED
      BY <1>2, <2>1, <2>2, <2>4, <3>1
  <2>6. j < k
    BY <1>0, <2>5
  <2> QED
    BY <1>0, <2>4, <2>6
<1> QED
  BY <1>1, <1>2, <1>3, <1>4 DEF FramesInOrder

\* In an intact file the decoder says that there is no more when nothing is left.
LEMMA EndIsEmpty ==
    ASSUME file \in Files, OneToOne, Intact, NEW d \in Decoders, d.stream \in Chosen,
           Steady(d), NEW s, InLine(s, d.held, d.pos), Decode(d).result = "null"
    PROVE  \A p \in PacketsOfType : \E k \in DOMAIN s : s[k] = <<p, 1>>
<1>0. d.pos \in Nat \ {0} /\ Len(file.packets) \in Nat /\ Codec(d).delay \in Nat
      /\ d.held \in Seq(FramesOfType) /\ Len(d.held) \in Nat
      /\ DOMAIN file.packets = 1 .. Len(file.packets) /\ OneEach /\ OfChosen = PacketsOfType
  BY FileTypes, SameChosen DEF Decoders, Steady, Codec
<1>1. CASE Undecided(d)
  <2>1. ~CanAnswer(Sent(d)) /\ Sent(d).draining
    BY <1>1, DecodeIs
  <2>2. Sent(d).held = <<>> /\ Sent(d).pos > Len(file.packets) /\ InLine(s, Sent(d).held, Sent(d).pos)
    BY <1>0, <1>1, <2>1, SentInLine DEF CanAnswer
  <2>3. \A p \in PacketsOfType : p < Sent(d).pos
    <3>1. Sent(d).pos \in Nat
      BY SentIs DEF Decoders
    <3> QED
      BY <1>0, <2>2, <3>1 DEF PacketsOfType
  <2>4. DOMAIN Sent(d).held = {}
    BY <2>2
  <2> QED
    BY <2>2, <2>3, <2>4 DEF InLine
<1>2. CASE AtEnd(d) /\ ~Flush(d)
  <2>1. ~d.draining
    BY <1>2 DEF Steady
  <2>2. Codec(d).delay = 0
    <3>1. 1 \notin Chosen
      BY <1>2 DEF Flush, Chosen
    <3> QED
      BY <3>1 DEF Intact, Codec
  <2>3. d.held = <<>>
    BY <1>0, <2>1, <2>2 DEF Steady
  <2>4. \A p \in PacketsOfType : p < d.pos
    <3>1. \A p \in d.pos .. Len(file.packets) : ~OfType(p)
      BY <1>2, NextPacketIs
    <3> QED
      BY <1>0, <3>1 DEF PacketsOfType
  <2>5. DOMAIN d.held = {}
    BY <2>3
  <2> QED
    BY <2>4, <2>5 DEF InLine
<1>3. ~(AtEnd(d) /\ file.readError)
  BY DEF Intact
<1>4. ~(~AtEnd(d) /\ SendFailed(d, NextPacket(d)))
  <2> SUFFICES ASSUME ~AtEnd(d), SendFailed(d, NextPacket(d)) PROVE FALSE
    OBVIOUS
  <2> DEFINE p == NextPacket(d)
  <2>1. p \in OfChosen
    BY <1>0, NextPacketIs DEF PacketsOfType
  <2>2. ~file.packets[p].damaged /\ file.packets[p].stream \in Chosen
    BY <2>1 DEF Intact, OfChosen
  <2>3. PICK x : Chosen = {x}
    <3>1. IsFiniteSet(Chosen)
      <4>1. Len(file.streams) \in Int /\ 1 \in Int
        BY FileTypes
      <4>2. IsFiniteSet(1 .. Len(file.streams))
        BY <4>1, FS_Interval
      <4>3. Chosen \subseteq 1 .. Len(file.streams)
        BY FileTypes DEF Chosen
      <4> QED
        BY <4>2, <4>3, FS_Subset
    <3>2. Cardinality(Chosen) = 1
      BY DEF OneToOne
    <3> QED
      BY <3>1, <3>2, FS_Singleton
  <2>4. file.packets[p].stream = d.stream
    BY <2>2, <2>3
  <2> QED
    BY <2>2, <2>4 DEF SendFailed, Codec
<1> QED
  BY <1>1, <1>2, <1>3, <1>4 DEF Undecided

----
(* The inductive invariant of WholeFile. *)

Reading == phase \in {"read", "convert"}

\* What has been delivered and what the decoder holds follow the file.
Line == Steady(decoder) /\ InLine(Frames, decoder.held, decoder.pos)

WholeInv ==
    /\ phase = "count" => stream \in Chosen
    /\ info.stream # NoStream => info.stream \in Chosen
    /\ Reading => decoder.stream \in Chosen
    /\ OneToOne => IF Reading THEN Line ELSE FramesInOrder
    /\ OneToOne /\ Intact /\ phase = "ended" =>
            \A f \in AllFrames : \E k \in DOMAIN delivered : Frame(k) = f

LEMMA WholeInvIsEnough == SourceInv /\ WholeInv => WholeFile
<1> SUFFICES ASSUME SourceInv, WholeInv PROVE WholeFile
  OBVIOUS
<1>1. OneToOne /\ Reading => FramesInOrder
  <2>1. decoder.pos \in Nat
    BY DEF SourceInv, TypeOK, Decoders
  <2> QED
    BY <2>1, LineIsOrder DEF WholeInv, Line
<1> QED
  BY <1>1 DEF WholeInv, WholeFile, SourceInv, Numbered

\* The file is the same file after a step.
LEMMA WholeKept ==
    ASSUME file' = file, type' = type
    PROVE  /\ Chosen' = Chosen /\ (OneToOne' <=> OneToOne) /\ (Intact' <=> Intact)
           /\ AllFrames' = AllFrames
           /\ delivered' = delivered =>
                /\ Frames' = Frames /\ (FramesInOrder' <=> FramesInOrder)
                /\ \A k : Frame(k)' = Frame(k)
<1>1. Chosen' = Chosen
  BY DEF Chosen
<1>2. OfChosen' = OfChosen
  BY <1>1 DEF OfChosen
<1>3. AllFrames' = AllFrames
  BY <1>2 DEF AllFrames
<1>4. (OneToOne' <=> OneToOne) /\ (Intact' <=> Intact)
  BY <1>1, <1>2 DEF OneToOne, Intact, NamedFormats
<1>5. ASSUME delivered' = delivered
      PROVE  Frames' = Frames /\ (FramesInOrder' <=> FramesInOrder) /\ \A k : Frame(k)' = Frame(k)
  BY <1>3, <1>5 DEF Frames, FramesInOrder, Frame
<1> QED
  BY <1>1, <1>3, <1>4, <1>5

LEMMA LineAfter ==
    ASSUME file' = file, type' = type, NEW d, decoder' = d, NEW s, Frames' = s,
           Steady(d), InLine(s, d.held, d.pos)
    PROVE  Line'
<1>1. PacketsOfType' = PacketsOfType
  BY DEF PacketsOfType, OfType
<1>2. Steady(decoder)'
  BY DEF Steady, Codec, Flush
<1>3. InLine(Frames, decoder.held, decoder.pos)'
  BY <1>1 DEF InLine
<1> QED
  BY <1>2, <1>3 DEF Line

\* A decoder at the start of the file has its frames before it.
LEMMA NewLine ==
    ASSUME file \in Files, NEW s \in Chosen
    PROVE  Steady(NewDecoder(s)) /\ InLine(<<>>, NewDecoder(s).held, NewDecoder(s).pos)
<1>1. s \in DOMAIN file.streams /\ file.streams[s].delay \in Nat
  BY FileTypes DEF Chosen
<1>2. Steady(NewDecoder(s))
  BY <1>1 DEF Steady, NewDecoder, Codec
<1>3. \A p \in PacketsOfType : ~(p < 1)
  BY FileTypes DEF PacketsOfType
<1>4. DOMAIN <<>> = {}
  OBVIOUS
<1>5. InLine(<<>>, <<>>, 1)
  BY <1>3, <1>4 DEF InLine
<1> QED
  BY <1>2, <1>5 DEF NewDecoder

\* What a round of the decoder that reads makes of the line.
LEMMA AgainInLine ==
    ASSUME file \in Files, OneEach, NEW d \in Decoders, Steady(d), NEW s, InLine(s, d.held, d.pos),
           Decode(d).result = "again"
    PROVE  LET e == Decode(d).decoder IN Steady(e) /\ InLine(s, e.held, e.pos)
<1>1. Undecided(d) /\ ~CanAnswer(Sent(d)) /\ ~Sent(d).draining /\ Decode(d).decoder = Sent(d)
  BY DecodeIs
<1>2. Sent(d) \in Decoders /\ Sent(d).stream = d.stream /\ InLine(s, Sent(d).held, Sent(d).pos)
  BY <1>1, SentIs, SentInLine
<1>3. Codec(d).delay \in Nat /\ d.stream \in DOMAIN file.streams /\ Codec(Sent(d)) = Codec(d)
  BY <1>2, FileTypes DEF Steady, Codec
<1>4. Len(Sent(d).held) <= Codec(d).delay
  <2>1. Sent(d).held \in Seq(FramesOfType) /\ Len(Sent(d).held) \in Nat
        /\ (Sent(d).held = <<>> => Len(Sent(d).held) = 0)
    BY <1>2 DEF Decoders
  <2> QED
    BY <1>1, <1>3, <2>1 DEF CanAnswer
<1> QED
  BY <1>1, <1>2, <1>3, <1>4 DEF Steady

LEMMA FrameInLine ==
    ASSUME file \in Files, OneEach, NEW d \in Decoders, Steady(d),
           NEW s \in Seq(FramesOfType), InLine(s, d.held, d.pos), Decode(d).result = "frame"
    PROVE  LET e == Decode(d).decoder
           IN Steady(e) /\ InLine(Append(s, Decode(d).frame), e.held, e.pos)
<1> DEFINE sent == Sent(d)
<1>1. /\ Undecided(d) /\ CanAnswer(sent) /\ Decode(d).decoder = Receive(sent)
      /\ Decode(d).frame = Head(sent.held)
  BY DecodeIs
<1>2. /\ sent \in Decoders /\ sent.stream = d.stream /\ InLine(s, sent.held, sent.pos)
      /\ sent.draining => sent.pos > Len(file.packets) /\ Flush(d)
      /\ ~sent.draining => Len(sent.held) <= Codec(d).delay + 1
  BY <1>1, SentIs, SentInLine
<1> HIDE DEF sent
<1>3. sent.held # <<>> /\ sent.held \in Seq(FramesOfType) /\ sent.pos \in Nat
  BY <1>1, <1>2 DEF CanAnswer, Decoders
<1>4. /\ Receive(sent).held = Tail(sent.held) /\ Receive(sent).pos = sent.pos
      /\ Receive(sent).stream = d.stream /\ Receive(sent).draining = sent.draining
  BY <1>2, <1>3, ReceiveIs
<1>5. InLine(Append(s, Head(sent.held)), Tail(sent.held), sent.pos)
  BY <1>2, <1>3, HandOut
<1>6. Codec(d).delay \in Nat /\ d.stream \in DOMAIN file.streams /\ Codec(Receive(sent)) = Codec(d)
  BY <1>4, FileTypes DEF Steady, Codec
<1>7. Len(Tail(sent.held)) = Len(sent.held) - 1 /\ Len(sent.held) \in Nat
  BY <1>3
<1>8. Steady(Receive(sent))
  BY <1>2, <1>4, <1>6, <1>7 DEF Steady, Flush
<1> QED
  BY <1>1, <1>4, <1>5, <1>8

\* The steps before the reading: the stream that is chosen is one of the type.
LEMMA OpeningKeepsWhole ==
    ASSUME SourceInv, WholeInv, Open \/ ExtractStream \/ CountFrame \/ Setup
    PROVE  WholeInv'
<1>s. /\ file' = file /\ type' = type /\ file \in Files /\ decoder \in Decoders
      /\ delivered' = delivered
  BY DEF SourceInv, TypeOK, Open, ExtractStream, CountFrame, Setup
<1>k. /\ Chosen' = Chosen /\ (OneToOne' <=> OneToOne) /\ (FramesInOrder' <=> FramesInOrder)
      /\ Frames' = Frames
  BY <1>s, WholeKept
<1>o. phase \in {"open", "extract", "count"} /\ phase' # "ended" /\ phase' # "convert"
  BY DEF Open, Opened, ExtractStream, CountFrame, Setup
<1>e. delivered = <<>>
  BY <1>o DEF SourceInv, Numbered
<1>i. ~Reading /\ (OneToOne => FramesInOrder)
  BY <1>o DEF WholeInv, Reading
<1>1. CASE Open
  <2>1. UNCHANGED <<stream, info>> /\ phase' \notin {"count", "read", "convert"}
    BY <1>1 DEF Open, Opened
  <2> QED
    BY <2>1, <1>k, <1>o, <1>i DEF WholeInv, Reading
<1>2. CASE ExtractStream
  <2>1. stream \in DOMAIN file.streams /\ phase' \in {"extract", "failed", "count"}
    <3>1. stream \in 1 .. Len(file.streams)
      BY <1>2 DEF ExtractStream, SourceInv, TypeOK
    <3> QED
      BY <1>2, <1>s, <3>1, FileTypes DEF ExtractStream
  <2>2. CASE NeedsCount(file.streams[stream])
    <3>1. stream' = stream /\ info' = info /\ stream \in Chosen
      BY <1>2, <2>1, <2>2 DEF ExtractStream, NeedsCount, Passed, Chosen
    <3> QED
      BY <2>1, <3>1, <1>k, <1>o, <1>i DEF WholeInv, Reading
  <2>3. CASE ~NeedsCount(file.streams[stream])
    <3>1. /\ phase' = phase /\ phase = "extract"
          /\ info' = IF Passed(file.streams[stream]) THEN info
                     ELSE [stream |-> stream, total |-> file.streams[stream].count]
      BY <1>2, <2>3 DEF ExtractStream
    <3>2. ~Passed(file.streams[stream]) => stream \in Chosen
      BY <2>1 DEF Passed, Chosen
    <3>3. info'.stream # NoStream => info'.stream \in Chosen
      BY <3>1, <3>2 DEF WholeInv
    <3> QED
      BY <3>1, <3>3, <1>k, <1>o, <1>i DEF WholeInv, Reading
  <2> QED
    BY <2>2, <2>3
<1>3. CASE CountFrame
  <2>1. /\ stream \in Chosen /\ phase' \in {"extract", "failed", "count"}
        /\ phase' = "count" => stream' = stream
        /\ info' \in {info, [stream |-> stream, total |-> decoder.frameNum]}
    BY <1>3, DecodeIs, <1>s DEF CountFrame, WholeInv
  <2>2. info'.stream # NoStream => info'.stream \in Chosen
    BY <2>1 DEF WholeInv
  <2> QED
    BY <2>1, <2>2, <1>k, <1>o, <1>i DEF WholeInv, Reading
<1>4. CASE Setup
  <2>1. /\ info' = info /\ phase' \in {"failed", "absent", "read"}
        /\ phase' = "read" => info.stream # NoStream /\ decoder' = NewDecoder(info.stream)
    BY <1>4 DEF Setup
  <2>2. CASE phase' = "read"
    <3>1. info.stream \in Chosen
      BY <2>1, <2>2 DEF WholeInv
    <3>2. Frames = <<>>
      BY <1>e DEF Frames
    <3>3. Line'
      BY <2>1, <2>2, <3>1, <3>2, <1>s, <1>k, NewLine, LineAfter
    <3>4. decoder'.stream = info.stream
      BY <2>1, <2>2 DEF NewDecoder
    <3> QED
      BY <2>1, <2>2, <3>1, <3>3, <3>4, <1>k, <1>o DEF WholeInv, Reading
  <2>3. CASE phase' # "read"
    BY <2>1, <2>3, <1>k, <1>o, <1>i DEF WholeInv, Reading
  <2> QED
    BY <2>2, <2>3
<1> QED
  BY <1>1, <1>2, <1>3, <1>4

LEMMA ReadingKeepsWhole == ASSUME SourceInv, WholeInv, ReadFrame PROVE WholeInv'
<1>s. /\ file' = file /\ type' = type /\ stream' = stream /\ info' = info
      /\ file \in Files /\ decoder \in Decoders /\ delivered \in Seq(Deliveries)
      /\ phase = "read" /\ decoder' = Decode(decoder).decoder
  BY ReadFrameIs DEF SourceInv, TypeOK, Deliveries
<1>k. Chosen' = Chosen /\ (OneToOne' <=> OneToOne) /\ (Intact' <=> Intact) /\ AllFrames' = AllFrames
  BY <1>s, WholeKept
<1>c. decoder.stream \in Chosen /\ decoder'.stream \in Chosen
  BY <1>s, DecodeIs DEF WholeInv, Reading
<1>o. OneToOne => OneEach /\ OfChosen = PacketsOfType /\ Line
  BY <1>s, SameChosen DEF WholeInv, Reading
<1>f. Frames \in Seq(FramesOfType)
  BY <1>s, FramesIs
<1>1. CASE GoodFrame(decoder)
  <2>1. /\ phase' = "convert"
        /\ delivered' = Append(delivered, [number |-> Decode(decoder).decoder.frameNum,
                                           frame |-> Decode(decoder).frame])
    BY <1>1, ReadFrameIs DEF SourceInv
  <2>2. Frames' = Append(Frames, Decode(decoder).frame)
    <3> DEFINE new == [number |-> Decode(decoder).decoder.frameNum, frame |-> Decode(decoder).frame]
               n == Len(delivered)
    <3>1. /\ n \in Nat /\ DOMAIN delivered = 1 .. n /\ DOMAIN delivered' = 1 .. n + 1
          /\ \A k \in 1 .. n + 1 : delivered'[k] = IF k = n + 1 THEN new ELSE delivered[k]
      BY <1>s, <2>1
    <3>2. new.frame = Decode(decoder).frame
      OBVIOUS
    <3>3. Len(Frames) = n
      BY <1>f, <3>1 DEF Frames
    <3> HIDE DEF new, n
    <3>4. Frames' = [k \in 1 .. n + 1 |-> IF k = n + 1 THEN Decode(decoder).frame ELSE delivered[k].frame]
      BY <3>1, <3>2 DEF Frames, Frame
    <3>5. Append(Frames, Decode(decoder).frame) =
            [k \in 1 .. n + 1 |-> IF k = n + 1 THEN Decode(decoder).frame ELSE Frames[k]]
      BY <1>f, <3>1, <3>3
    <3>6. \A k \in 1 .. n + 1 : k # n + 1 => Frames[k] = delivered[k].frame
      BY <3>1 DEF Frames, Frame
    <3> QED
      BY <3>4, <3>5, <3>6
  <2>3. OneToOne => Line'
    <3> SUFFICES ASSUME OneToOne PROVE Line'
      OBVIOUS
    <3>1. Decode(decoder).result = "frame"
      BY <1>1 DEF GoodFrame
    <3>2. Steady(decoder') /\ InLine(Append(Frames, Decode(decoder).frame), decoder'.held, decoder'.pos)
      BY <1>s, <1>o, <1>f, <3>1, FrameInLine DEF Line
    <3> QED
      BY <1>s, <2>2, <3>2, LineAfter
  <2> QED
    BY <2>1, <2>3, <1>s, <1>k, <1>c DEF WholeInv, Reading
<1>2. CASE ~GoodFrame(decoder)
  <2>1. /\ delivered' = delivered
        /\ phase' = IF Decode(decoder).result = "again" THEN "read"
                    ELSE IF Decode(decoder).result = "throw" THEN "failed" ELSE "ended"
    BY <1>2, ReadFrameIs DEF SourceInv
  <2>k. Frames' = Frames /\ (FramesInOrder' <=> FramesInOrder) /\ \A k : Frame(k)' = Frame(k)
    BY <1>s, <2>1, WholeKept
  <2>2. CASE Decode(decoder).result = "again"
    <3>1. OneToOne => Line'
      <4> SUFFICES ASSUME OneToOne PROVE Line'
        OBVIOUS
      <4>1. Steady(decoder') /\ InLine(Frames, decoder'.held, decoder'.pos)
        BY <1>s, <1>o, <2>2, AgainInLine DEF Line
      <4> QED
        BY <1>s, <2>k, <4>1, LineAfter
    <3> QED
      BY <2>1, <2>2, <3>1, <1>s, <1>k, <1>c DEF WholeInv, Reading
  <2>3. CASE Decode(decoder).result # "again"
    <3>1. phase' \in {"failed", "ended"} /\ (phase' = "ended" => Decode(decoder).result # "throw")
      BY <2>1, <2>3
    <3>2. OneToOne => FramesInOrder
      BY WholeInvIsEnough DEF WholeFile
    <3>3. ASSUME OneToOne, Intact, phase' = "ended", NEW f \in AllFrames
          PROVE  \E k \in DOMAIN delivered : Frame(k) = f
      <4>1. Decode(decoder).result = "null"
        <5>1. Decode(decoder).result \in {"null", "frame"}
          BY <1>s, <2>3, <3>1, <3>3, DecodeIs
        <5>2. Decode(decoder).result # "frame"
          BY <1>2, <1>s, <3>3, DecodeIs, NamedIsPackable DEF GoodFrame, Intact
        <5> QED
          BY <5>1, <5>2
      <4>2. \A p \in PacketsOfType : \E k \in DOMAIN Frames : Frames[k] = <<p, 1>>
        BY <1>s, <1>c, <1>o, <3>3, <4>1, EndIsEmpty DEF Line
      <4>3. f[1] \in PacketsOfType /\ f = <<f[1], 1>>
        BY <1>s, <3>3, AllFramesIs, OneFrame
      <4> QED
        BY <1>s, <4>2, <4>3, FramesIs
    <3> QED
      BY <2>1, <2>k, <3>1, <3>2, <3>3, <1>s, <1>k DEF WholeInv, Reading
  <2> QED
    BY <2>2, <2>3
<1> QED
  BY <1>1, <1>2

LEMMA WholeInvKept == SourceInv /\ WholeInv /\ [Next]_vars => WholeInv'
<1> SUFFICES ASSUME SourceInv, WholeInv, [Next]_vars
             PROVE  WholeInv'
  OBVIOUS
<1>1. CASE ConvertFrame \/ UNCHANGED vars
  <2>1. /\ UNCHANGED <<file, type, stream, info, decoder, delivered>>
        /\ (Reading' <=> Reading) /\ (phase' = "ended" <=> phase = "ended")
        /\ (phase' = "count" <=> phase = "count")
    BY <1>1 DEF ConvertFrame, vars, Reading
  <2>2. /\ Chosen' = Chosen /\ (OneToOne' <=> OneToOne) /\ (Intact' <=> Intact)
        /\ AllFrames' = AllFrames /\ Frames' = Frames /\ (FramesInOrder' <=> FramesInOrder)
        /\ \A k : Frame(k)' = Frame(k)
    BY <2>1, WholeKept
  <2>3. Line => Line'
    BY <2>1, <2>2, LineAfter DEF Line
  <2> QED
    BY <2>1, <2>2, <2>3 DEF WholeInv
<1> QED
  BY <1>1, OpeningKeepsWhole, ReadingKeepsWhole DEF Next

\* The frames are numbered as they come in the file, and in a file whose packets are one
\* frame each they are its frames, in order, to the last one where nothing is damaged:
\* whatever the codec's delay, and however the streams are interleaved.
THEOREM WholeFileHolds == Spec => []WholeFile
<1>1. Init => WholeInv
  <2> SUFFICES ASSUME Init PROVE WholeInv
    OBVIOUS
  <2>1. delivered = <<>> /\ phase = "open" /\ info.stream = NoStream
    BY DEF Init
  <2>2. DOMAIN delivered = {}
    BY <2>1
  <2>3. FramesInOrder
    BY <2>2 DEF FramesInOrder
  <2> QED
    BY <2>1, <2>3 DEF WholeInv, Reading
<1> QED
  BY <1>1, WholeInvIsEnough, WholeInvKept, SourceInvHolds, PTL DEF Spec
====
