---- MODULE MediaDecoder ----
(***************************************************************************)
(* FrameExtractorFFMPEG: opening a media file, counting its frames, and    *)
(* one AvDecoder that turns packets into the frames AvSynchronizer asks    *)
(* for, over an external codec that holds frames back.                     *)
(*                                                                         *)
(* The two decoders of an extractor have nothing in common but the file,   *)
(* so one of them is modelled, of either type.                             *)
(*                                                                         *)
(* A frame of the file is <<packet, n>>.  Presentation times are left out. *)
(***************************************************************************)
EXTENDS FrameFormats, SequencesExt

CONSTANTS
    Files,          \* [access, open, streams, packets, readError]
    FormatLists     \* what detectors ask for: sequences of formats

Types == {"video", "audio"}
NoStream == 0
NoPack == [ok |-> TRUE, format |-> "none", channels |-> 0, samples |-> 0, layout |-> TRUE, buffer |-> <<>>]

IsSequence(s) == Len(s) \in Nat /\ DOMAIN s = 1 .. Len(s)

ASSUME FilesAssumption ==
    \A f \in Files :
        /\ f.access \in {"ok", "denied", "missing"}
        /\ f.open \in {"ok", "invalid", "other"}
        /\ f.readError \in BOOLEAN
        /\ IsSequence(f.streams) /\ IsSequence(f.packets)
        /\ \A s \in DOMAIN f.streams :
              /\ f.streams[s].type \in Types /\ f.streams[s].picture \in BOOLEAN
              /\ f.streams[s].delay \in Nat /\ f.streams[s].count \in Nat
              /\ f.streams[s].channels \in Nat /\ f.streams[s].samples \in Nat
              /\ NamedPicture(f.streams[s].format) => f.streams[s].channels = 1
        /\ \A p \in DOMAIN f.packets :
              /\ f.packets[p].stream \in DOMAIN f.streams
              /\ f.packets[p].frames \in Nat /\ f.packets[p].damaged \in BOOLEAN

ASSUME FormatListsAssumption == \A formats \in FormatLists : IsSequence(formats)

VARIABLES
    file, type,     \* the media, and the type of the decoder modelled
    phase,          \* "open", "extract", "count", "read", "convert", or an end
    stream,         \* the loop of MediaInfoFFMPEG::extract
    info,           \* _videoStreamId and the number of frames, or of audio
    decoder,        \* AvDecoder and its codec
    delivered,      \* the frames handed out: [number, frame]
    packed          \* the frame last converted for a detector

vars == <<file, type, phase, stream, info, decoder, delivered, packed>>

Ends == {"ended", "failed", "absent", "crashed"}

\* A decoder at the start of the file, for the codec of stream s.
NewDecoder(s) == [stream |-> s, pos |-> 1, held |-> <<>>, draining |-> FALSE, frameNum |-> 0]

Init ==
    /\ file \in Files /\ type \in Types
    /\ phase = "open"
    /\ stream = 1
    /\ info = [stream |-> NoStream, total |-> 0]
    /\ decoder = NewDecoder(NoStream)
    /\ delivered = <<>>
    /\ packed = NoPack

----
(* AvDecoder *)

Codec(d) == file.streams[d.stream]
OfType(p) == file.streams[file.packets[p].stream].type = type

\* The codec (external): it answers with a frame once it holds more than its delay,
\* and takes no packet while it holds one frame more than that.
Refuses(d) == Len(d.held) > Codec(d).delay + 1
CanAnswer(d) == d.held # <<>> /\ (d.draining \/ Len(d.held) > Codec(d).delay)

\* variant: no flush packet is sent
FlushOwn(d) == FALSE

\* At the end of the file readFrame() looks at a blank packet, whose stream is the first.
Flush(d) == file.streams[1].type = type

\* readFrame(): the next packet of the type, of whichever stream, or the end.
NextPacket(d) ==
    LET ahead == {p \in d.pos .. Len(file.packets) : OfType(p)}
    IN IF ahead # {} THEN Min(ahead) ELSE Len(file.packets) + 1

AtEnd(d) == NextPacket(d) > Len(file.packets)

\* avcodec_send_packet() with the packet at p.  A packet refused is freed all the same.
SendFailed(d, p) ==
    ~Refuses(d) /\ (file.packets[p].damaged \/ file.streams[file.packets[p].stream].codec # Codec(d).codec)

Send(d, p) ==
    IF Refuses(d) THEN [d EXCEPT !.pos = p + 1]
    ELSE [d EXCEPT !.pos = p + 1, !.held = @ \o [n \in 1 .. file.packets[p].frames |-> <<p, n>>]]

SendFlush(d) == [d EXCEPT !.pos = Len(file.packets) + 1, !.draining = @ \/ ~Refuses(d)]

\* avcodec_receive_frame()
Receive(d) == [d EXCEPT !.held = Tail(@), !.frameNum = @ + 1]

\* How decode() answers a damaged packet and the end of the codec: as the end of the file.
DrainedGoesOn == "again"    \* variant: the loop is not left
OnDamage == "null"
OnDrained == "null"

\* One round of the loop of decode(): one packet is sent, one frame asked for.
Decode(d) ==
    IF AtEnd(d) /\ file.readError THEN [result |-> "throw", decoder |-> d]
    ELSE IF AtEnd(d) /\ ~Flush(d) THEN [result |-> "null", decoder |-> d]
    ELSE IF ~AtEnd(d) /\ SendFailed(d, NextPacket(d))
         THEN [result |-> OnDamage, decoder |-> [d EXCEPT !.pos = NextPacket(d) + 1]]
    ELSE LET sent == IF AtEnd(d) THEN SendFlush(d) ELSE Send(d, NextPacket(d))
         IN IF CanAnswer(sent)
            THEN [result |-> "frame", frame |-> Head(sent.held), decoder |-> Receive(sent)]
            ELSE [result |-> IF sent.draining THEN OnDrained ELSE "again", decoder |-> sent]

----
(* Opening: the constructor of FrameExtractorFFMPEG *)

Opened ==
    CASE file.access # "ok" -> "failed"
      [] file.open = "invalid" -> "failed"
      [] file.open = "other" -> "crashed"     \* the null context is used
      [] OTHER -> "extract"

Open ==
    /\ phase = "open"
    /\ phase' = Opened
    /\ UNCHANGED <<file, type, stream, info, decoder, delivered, packed>>

\* The frames of a stream that are known without decoding; a picture that is attached
\* to the file is no stream to read.
Passed(s) == s.type # type \/ s.picture
NeedsCount(s) == ~Passed(s) /\ s.count = 0

\* The last stream of the type that has frames is chosen.
ExtractStream ==
    /\ phase = "extract" /\ stream <= Len(file.streams)
    /\ LET s == file.streams[stream]
       IN IF NeedsCount(s)
          THEN /\ phase' = IF s.codec = "none" THEN "failed" ELSE "count"
               /\ decoder' = NewDecoder(stream)
               /\ UNCHANGED <<info, stream>>
          ELSE /\ info' = IF Passed(s) THEN info ELSE [stream |-> stream, total |-> s.count]
               /\ stream' = stream + 1
               /\ UNCHANGED <<phase, decoder>>
    /\ UNCHANGED <<file, type, delivered, packed>>

CountRead ==   \* variant: the rounds of the loop are counted, not the frames
    /\ phase = "count"
    /\ LET r == Decode(decoder) IN
        /\ decoder' = r.decoder
        /\ phase' = CASE r.result = "null" -> "extract" [] r.result = "throw" -> "failed" [] OTHER -> "count"
        /\ IF r.result = "null"
           THEN /\ stream' = stream + 1
                /\ info' = IF decoder.pos = 1 THEN info ELSE [stream |-> stream, total |-> decoder.pos - 1]
           ELSE UNCHANGED <<stream, info>>
    /\ UNCHANGED <<file, type, delivered, packed>>

\* __calculateTotalFrames: decode to the end, with a decoder of its own.
CountFrame ==
    /\ phase = "count"
    /\ LET r == Decode(decoder) IN
        /\ decoder' = r.decoder
        /\ phase' = CASE r.result = "null" -> "extract" [] r.result = "throw" -> "failed" [] OTHER -> "count"
        /\ IF r.result = "null"
           THEN /\ stream' = stream + 1
                /\ info' = IF decoder.frameNum = 0 THEN info
                           ELSE [stream |-> stream, total |-> decoder.frameNum]
           ELSE UNCHANGED <<stream, info>>
    /\ UNCHANGED <<file, type, delivered, packed>>

\* With neither video nor audio the media is not supported; the other type is left open.
Setup ==
    /\ phase = "extract" /\ stream > Len(file.streams)
    /\ IF info.stream = NoStream
       THEN /\ phase' \in {"failed"} \cup {"absent" : s \in {s \in DOMAIN file.streams : file.streams[s].type # type}}
            /\ UNCHANGED decoder
       ELSE /\ phase' = IF file.streams[info.stream].codec = "none" THEN "failed" ELSE "read"
            /\ decoder' = NewDecoder(info.stream)
    /\ UNCHANGED <<file, type, stream, info, delivered, packed>>

----
(* nextVideo() and nextAudio() *)

\* The decoded picture or sound of a frame, before it is packed.
Decoded(frame) ==
    LET s == file.streams[file.packets[frame[1]].stream]
    IN [ok |-> TRUE, format |-> s.format, channels |-> s.channels, samples |-> s.samples,
        layout |-> s.layout, buffer |-> <<>>]

\* AvDecoder::frame(): what cannot be decoded or packed looks like the end of the file.
ReadFrame ==
    /\ phase = "read"
    /\ LET r == Decode(decoder)
           frame == r.result = "frame"
           good == frame /\ Packable(Decoded(r.frame))
       IN /\ decoder' = r.decoder
          /\ phase' = CASE r.result = "again" -> "read" [] r.result = "throw" -> "failed"
                        [] good -> "convert" [] OTHER -> "ended"
          /\ delivered' = IF good THEN Append(delivered, [number |-> r.decoder.frameNum, frame |-> r.frame])
                          ELSE delivered
          /\ packed' = IF good THEN Pack(Decoded(r.frame)) ELSE packed
    /\ UNCHANGED <<file, type, stream, info>>

\* DataFlow::processPlugin converts a frame for a detector, unless the frame is skipped.
ConvertFrame ==
    /\ phase = "convert"
    /\ packed' \in {packed} \cup {Convert(packed, formats) : formats \in FormatLists}
    /\ phase' = "read"
    /\ UNCHANGED <<file, type, stream, info, decoder, delivered>>

Next == Open \/ ExtractStream \/ CountFrame \/ Setup \/ ReadFrame \/ ConvertFrame

Spec == Init /\ [][Next]_vars

\* The reader goes on until it is told that there is no more.
FairSpec == Spec /\ WF_vars(Next)

----
(* Types and properties. *)

PacketsOfType == {p \in DOMAIN file.packets : OfType(p)}
FramesOfType == PacketsOfType \X Nat
Decoders ==
    [stream : Nat, pos : Nat \ {0}, held : Seq(FramesOfType), draining : BOOLEAN, frameNum : Nat]

TypeOK ==
    /\ file \in Files /\ type \in Types
    /\ phase \in {"open", "extract", "count", "read", "convert"} \cup Ends
    /\ stream \in Nat \ {0}
    /\ info \in [stream : Nat, total : Nat]
    /\ decoder \in Decoders
    /\ delivered \in Seq([number : Nat, frame : FramesOfType])

Chosen == {s \in DOMAIN file.streams : file.streams[s].type = type}
OfChosen == {p \in DOMAIN file.packets : file.packets[p].stream \in Chosen}

\* All frames of the type, and the order of the file.
AllFrames == UNION {{p} \X (1 .. file.packets[p].frames) : p \in OfChosen}
Before(f, g) == f[1] < g[1] \/ (f[1] = g[1] /\ f[2] < g[2])

Frame(k) == delivered[k].frame

\* Frame number k is the k-th frame of the file.
FramesInOrder ==
    /\ \A k \in DOMAIN delivered : Frame(k) \in AllFrames
    /\ \A j, k \in DOMAIN delivered : j < k => Before(Frame(j), Frame(k))
    /\ \A k \in DOMAIN delivered, f \in AllFrames :
            Before(f, Frame(k)) => \E j \in 1 .. k - 1 : Frame(j) = f

NamedFormats == \A s \in Chosen : Packable(file.streams[s])

\* Each packet of the one stream of the type is one frame.
OneToOne == Cardinality(Chosen) = 1 /\ \A p \in OfChosen : file.packets[p].frames = 1
Intact ==
    /\ ~file.readError
    /\ \A p \in OfChosen : ~file.packets[p].damaged
    /\ NamedFormats
    /\ 1 \in Chosen \/ \A s \in Chosen : file.streams[s].delay = 0

\* The frames are numbered as they come in the file: results, ranges and effects are placed
\* by that number (AvDecoder::decode, frame).  It holds of files whose packets are one
\* frame each, damaged or not; a file that is intact besides is read to its last frame.
\* Where packets carry several frames, a full codec loses one (see README.md).
WholeFile ==
    /\ \A k \in DOMAIN delivered : delivered[k].number = k
    /\ OneToOne => FramesInOrder
    /\ OneToOne /\ Intact /\ phase = "ended" =>
            \A f \in AllFrames : \E k \in DOMAIN delivered : Frame(k) = f

\* A total that was counted by decoding (VideoInfoFFMPEG::extract) is the number of
\* frames the analysis then gets, whatever the file: the timeline is as long as the
\* results it is cut by.
TotalIsDelivered ==
    phase = "ended" /\ NamedFormats /\ file.streams[info.stream].count = 0
    => Len(delivered) = info.total

\* A detector hears exactly the samples of the frame (packers, converters,
\* AudioDetect::process), where the frame needs no padding or needs no conversion.
DetectorHearsFrame ==
    delivered # <<>> /\ packed.ok /\ packed.samples % Align = 0 => Heard(packed) = Samples(packed)

\* What DataFlow counts on: frames numbered 1, 2, 3 .. and then one end, which comes.
Source == INSTANCE FrameSource WITH
    given <- IF delivered = <<>> THEN 0 ELSE Last(delivered).number,
    status <- IF phase \in Ends THEN "over" ELSE IF phase \in {"read", "convert"} THEN "open" ELSE "opening"
SourceSpec == Source!Spec
====
