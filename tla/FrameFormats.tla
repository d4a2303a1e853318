---- MODULE FrameFormats ----
(***************************************************************************)
(* What happens to the samples of a decoded frame on their way to a        *)
(* detector: FramePacker copies them into a FramePack, a FormatConverter   *)
(* brings them into a format the detector asks for, the detector reads.    *)
(*                                                                         *)
(* A buffer is a sequence of samples <<channel, number>>.  A sample has    *)
(* one size in every format.  A picture is one channel of pixels.          *)
(***************************************************************************)
EXTENDS Integers, Sequences, FiniteSetsExt

CONSTANTS
    PlanarFormats,      \* known sample formats with one plane for each channel
    PackedFormats,      \* known sample formats whose samples are interleaved
    PictureFormats,     \* known pixel formats
    RefusedFormats,     \* known formats into which the library fails to convert
    Align               \* the library pads a plane of samples to this number (32)

ASSUME FormatsAssumption ==
    /\ Align \in Nat \ {0}
    /\ PlanarFormats \cap PackedFormats = {}
    /\ PictureFormats \cap (PlanarFormats \cup PackedFormats) = {}

\* toVideoFormat() and toAudioFormat(): pack() answers null for a format without a
\* name in the library's own types.
NamedPicture(format) == format \in PictureFormats
NamedSound(format) == format \in PlanarFormats \cup PackedFormats
Packable(f) == NamedPicture(f.format) \/ NamedSound(f.format)
IsPicture(f) == NamedPicture(f.format)

Silence == <<0, 0>>     \* padding of a buffer the library allocates
Garbage == <<0, 1>>     \* memory beyond the end of a buffer

Padded(n) == ((n + Align - 1) \div Align) * Align

\* Where sample s of channel c lies in a buffer whose planes are `plane` samples long.
Place(f, plane, c, s) ==
    IF f.format \in PlanarFormats THEN (c - 1) * plane + s ELSE (s - 1) * f.channels + c

Samples(f) == (1 .. f.channels) \X (1 .. f.samples)

\* The buffer of f laid out with planes of length `plane`: sample `value[cs]` at the
\* place of cs, and silence where no sample belongs.
Layout(f, plane, value) ==
    [k \in 1 .. f.channels * plane |->
        LET here == {cs \in Samples(f) : Place(f, plane, cs[1], cs[2]) = k}
        IN IF here = {} THEN Silence ELSE value[CHOOSE cs \in here : TRUE]]

\* FramePackerAvVideo::pack: the pixels one after the other, without alignment.
PackPicture(f) == [f EXCEPT !.buffer = [k \in 1 .. f.samples |-> <<1, k>>]]

PackFirstPlane(f) ==   \* variant: the source pointer is not advanced with the plane
    [f EXCEPT !.buffer = Layout(f, f.samples, [cs \in Samples(f) |-> <<1, cs[2]>>])]

\* FramePackerAvAudio::pack: planes one after the other, nothing between them.
PackSound(f) == [f EXCEPT !.buffer = Layout(f, f.samples, [cs \in Samples(f) |-> cs])]

Pack(f) == IF IsPicture(f) THEN PackPicture(f) ELSE PackSound(f)

\* av_samples_fill_arrays(.., align 0) expects padded planes in the packed buffer.
ReadBack(f) ==
    [cs \in Samples(f) |->
        LET k == Place(f, Padded(f.samples), cs[1], cs[2])
        IN IF k \in DOMAIN f.buffer THEN f.buffer[k] ELSE Garbage]

\* What the conversion of one frame to one format comes to: "done", "failed" (the next
\* format is tried) or "invalid" (the exception is passed on).
Converted(outcome, f) == [outcome |-> outcome, frame |-> f]

\* resample(): the new buffer has the padded size the library allocated.
Resample(f, format) ==
    LET g == [f EXCEPT !.format = format]
    IN CASE ~f.layout \/ f.buffer = <<>> -> Converted("invalid", f)
         [] format \in RefusedFormats -> Converted("failed", f)
         [] OTHER -> Converted("done", [g EXCEPT !.buffer = Layout(g, Padded(f.samples), ReadBack(f))])

\* scale(): both pictures without alignment, pixel by pixel.
Scale(f, format) ==
    CASE f.buffer = <<>> -> Converted("invalid", f)
      [] format \in RefusedFormats -> Converted("failed", f)
      [] OTHER -> Converted("done", [f EXCEPT !.format = format])

\* One round of the loops of the two convert(): a format without a name is passed
\* over, the frame's own format is a copy.
ConvertSound(f, format) ==
    IF ~NamedSound(format) THEN Converted("failed", f)
    ELSE IF format = f.format THEN Converted("done", f) ELSE Resample(f, format)

ConvertPicture(f, format) ==
    IF ~NamedPicture(format) THEN Converted("failed", f)
    ELSE IF format = f.format THEN Converted("done", f) ELSE Scale(f, format)

\* convert(formats): the first format that works; ok = FALSE is an exception.
Convert(f, formats) ==
    LET Try(i) == IF IsPicture(f) THEN ConvertPicture(f, formats[i]) ELSE ConvertSound(f, formats[i])
        decided == {i \in DOMAIN formats : Try(i).outcome # "failed"}
    IN IF decided = {} \/ Try(Min(decided)).outcome = "invalid" THEN [f EXCEPT !.ok = FALSE]
       ELSE Try(Min(decided)).frame

\* AudioDetect::process reads samples * channels values from the start of the buffer.
Heard(f) ==
    {IF k \in DOMAIN f.buffer THEN f.buffer[k] ELSE Garbage : k \in 1 .. f.samples * f.channels}
====
