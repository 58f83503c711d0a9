------------------------------ MODULE ImageProbe ------------------------------
(***************************************************************************)
(* probe_image (server/vision/image_probe.py): the size of an image from   *)
(* the first bytes of its file, without an image library.  data is the     *)
(* sequence of the bytes that were read; data[i + 1] is Python's data[i].  *)
(* An answer is a record, or an error.                                     *)
(***************************************************************************)
EXTENDS Naturals, Sequences, SequencesExt

Bad(why) == [format |-> "error", why |-> why]
Image(format, w, h, channels) ==
  [format |-> format, width |-> w, height |-> h, channels |-> channels]

\* Numbers of several bytes, at Python's offset at.
Byte(data, at) == data[at + 1]
Big16(data, at) == 256 * Byte(data, at) + Byte(data, at + 1)
Little16(data, at) == Byte(data, at) + 256 * Byte(data, at + 1)
Big32(data, at) == 65536 * Big16(data, at) + Big16(data, at + 2)
Little32(data, at) == Little16(data, at) + 65536 * Little16(data, at + 2)

\* abs of a signed 32-bit number; TLC's integers stop at 2^31 - 1, so the
\* heights that are enumerated are small, above or below zero.
AbsLittle32(data, at) ==
  IF Byte(data, at + 3) >= 128
  THEN 65536 * (65535 - Little16(data, at + 2)) + (65536 - Little16(data, at))
  ELSE Little32(data, at)

StartsWith(data, bytes) ==
  Len(data) >= Len(bytes) /\ \A i \in DOMAIN bytes : data[i] = bytes[i]

PngSignature == <<137, 80, 78, 71, 13, 10, 26, 10>>
IHDR == <<73, 72, 68, 82>>

\* color_type -> channels
PngChannels == [t \in {0, 2, 3, 4, 6} |->
  CASE t = 0 -> 1 [] t = 2 -> 3 [] t = 3 -> 1 [] t = 4 -> 2 [] t = 6 -> 4]

ProbePng(data) ==
  IF Len(data) < 29 THEN Bad("truncated")
  ELSE IF SubSeq(data, 13, 16) # IHDR THEN Bad("no IHDR")
  ELSE IF Byte(data, 25) \notin DOMAIN PngChannels THEN Bad("color type")
  ELSE Image("png", Big32(data, 16), Big32(data, 20), PngChannels[Byte(data, 25)])

ProbeBmp(data) ==
  IF Len(data) < 30 THEN Bad("truncated")
  ELSE LET bytes == Little16(data, 28) \div 8
       IN  Image("bmp", AbsLittle32(data, 18), AbsLittle32(data, 22),
                 IF bytes = 0 THEN 1 ELSE bytes)

\* Mutant: the tables' markers among them are taken for frame headers.
SofMarkersAll == 192..207

SofMarkers == (192..207) \ {196, 200, 204}
Standalone == {1} \cup 208..217
EndsHeader == {218, 217}

\* Where the scan goes on after the segment whose length is at at.
NextSegment(data, at) == at + Big16(data, at)

\* The first offset from pos on whose byte is, or is not, the prefix 0xFF.
SkipTo(data, pos, isPrefix) ==
  LET hits == {i \in pos..(Len(data) - 1) : (Byte(data, i) = 255) = isPrefix}
  IN  IF hits = {} THEN Len(data) ELSE CHOOSE i \in hits : \A j \in hits : i <= j

\* The first offset from pos on of a marker's code, after its prefix and fill.
Code(data, pos) == SkipTo(data, SkipTo(data, pos, TRUE), FALSE)

\* The frame header in the segment whose length is at at.
Frame(data, at) ==
  IF at + 2 + 6 > Len(data) THEN Bad("truncated frame")
  ELSE Image("jpeg", Big16(data, at + 5), Big16(data, at + 3), Byte(data, at + 7))

\* A turn of the loop of _probe_jpeg from the offset pos on, with scan for the turns
\* after it.
ScanTurn(scan, data, pos) ==
  LET marker == Byte(data, Code(data, pos))
      at == Code(data, pos) + 1
  IN  IF Code(data, pos) >= Len(data) THEN Bad("no frame")
      ELSE IF marker \in Standalone THEN scan[at]
      ELSE IF marker \in EndsHeader \/ at + 2 > Len(data) THEN Bad("no frame")
      ELSE IF Big16(data, at) < 2 THEN Bad("segment length")
      ELSE IF NextSegment(data, at) > Len(data) THEN Bad("no frame")
      ELSE IF marker \in SofMarkers THEN Frame(data, at)
      ELSE scan[NextSegment(data, at)]

ScanJpeg(data) ==
  LET scan[pos \in 0..(Len(data) + 1)] == ScanTurn(scan, data, pos)
  IN  scan[2]

\* probe_image of a file that exists.
ProbeImage(data) ==
  IF Len(data) < 8 THEN Bad("too small")
  ELSE IF StartsWith(data, PngSignature) THEN ProbePng(data)
  ELSE IF StartsWith(data, <<255, 216>>) THEN ScanJpeg(data)
  ELSE IF StartsWith(data, <<66, 77>>) THEN ProbeBmp(data)
  ELSE Bad("unsupported")
-----------------------------------------------------------------------------
(* JPEG files as their segments, and what the probe must find in them.     *)

\* The two bytes of a number, the larger first.
TwoBytes(number) == <<number \div 256, number % 256>>

\* A segment: fill bytes, a marker and, unless it stands alone, a body.
SegmentBytes(s) ==
  [i \in 1..s.fill |-> 255] \o <<255, s.marker>> \o
    IF s.marker \in Standalone THEN <<>>
    ELSE TwoBytes(Len(s.body) + 2) \o s.body

FrameBody(w, h, channels) == <<8>> \o TwoBytes(h) \o TwoBytes(w) \o <<channels>>

JpegBytes(segments) ==
  <<255, 216>> \o FlattenSeq([i \in DOMAIN segments |-> SegmentBytes(segments[i])])

\* The markers of frame headers: C4, C8 and CC are not among them.
FrameMarkers == {192, 193, 194, 195, 197, 198, 199, 201, 202, 203, 205, 206, 207}

\* The frame header that a decoder would use: the first one, unless the scan
\* or the end of the image comes before it - "SOS or EOI before SOF means
\* dimensions were not found".
FirstFrame(segments) ==
  LET frames == {i \in DOMAIN segments :
                   /\ segments[i].marker \in FrameMarkers
                   /\ \A j \in 1..(i-1) : segments[j].marker \notin FrameMarkers \cup {217, 218}}
  IN  IF frames = {} THEN Bad("none")
      ELSE LET b == segments[CHOOSE i \in frames : TRUE].body
           IN  Image("jpeg", 256 * b[4] + b[5], 256 * b[2] + b[3], b[6])

\* No frame header comes after the end of the image.
EndsWithImage(segments) ==
  \A i, j \in DOMAIN segments :
    i < j /\ segments[i].marker = 217 => segments[j].marker \notin FrameMarkers

\* The probe finds the size in the first frame header, whatever the bodies of
\* the segments before it contain (a thumbnail has a frame header of its
\* own), and finds none where a decoder would find none.
ProbeFindsFrame(segments) ==
  LET answer == ProbeImage(JpegBytes(segments))
      frame == FirstFrame(segments)
  IN  Len(JpegBytes(segments)) >= 8 =>
        IF frame.format = "error" THEN answer.format = "error" ELSE answer = frame

\* A file that is cut off anywhere, inside a thumbnail too, is either refused or measured right.
TruncationNeverLies(segments) ==
  LET bytes == JpegBytes(segments) IN
  \A n \in 0..Len(bytes) :
    LET answer == ProbeImage(SubSeq(bytes, 1, n))
    IN  answer.format = "error" \/ answer = FirstFrame(segments)
=============================================================================
