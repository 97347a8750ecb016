--------------------------- MODULE ImageInspection ---------------------------
(***************************************************************************)
(* The walk of _jpeg_metadata over the segments of a payload that starts   *)
(* with FF D8, offset by offset as in the code.  The payloads are built of *)
(* pieces, so that it is known what they hold, and may be cut off anywhere.*)
(***************************************************************************)
EXTENDS Naturals, Sequences, SequencesExt

CONSTANTS MaxPieces,   \* bound on the pieces of a payload
          MaxCut       \* bound on the bytes cut off at its end

\* The markers of a frame: the block from C0 without DHT, JPG and DAC within it.
StartOfFrame == 192..207 \ {196, 200, 204}

\* Markers of each class: without a segment, of a frame, of any other segment.
Standalone == 208
Baseline == 192
Progressive == 194
HuffmanTable == 196
Application == 225

Frame(kind, height, width) == <<255, kind, 0, 8, 8, 0, height, 0, width, 1>>
Frames == {Frame(Baseline, 7, 9), Frame(Progressive, 3, 5)}
Pieces == Frames \cup
    {<<0>>, <<255, 255, Standalone>>,                       \* stray and fill bytes
     <<255, HuffmanTable, 0, 12>> \o Frame(Baseline, 2, 2),   \* a frame within a segment
     <<255, Baseline, 0, 5, 8, 0, 1>>, <<255, Application, 0, 1>>}   \* too short

VARIABLES pieces, payload, position, size
inspection == <<pieces, payload, position, size>>

InspectionInit == /\ pieces \in UNION {[1..n -> Pieces] : n \in 0..MaxPieces}
                  /\ LET whole == <<255, 216>> \o FlattenSeq(pieces)
                     IN  \E cut \in 0..MaxCut : /\ cut + 2 <= Len(whole)
                                               /\ payload = SubSeq(whole, 1, Len(whole) - cut)
                  /\ position = 2
                  /\ size = <<>>

\* payload[i] and the number in payload[i : i + 2], from offset 0 as in the code.
Byte(i) == payload[i + 1]
Short(i) == 256 * Byte(i) + Byte(i + 1)

Walking == size = <<>> /\ position + 4 <= Len(payload)

\* The first position from here on that holds no fill byte, if there is one.
Fill == {i \in position..(Len(payload) - 1) : \A j \in position..i : Byte(j) = 255}
marker == position + Cardinality(Fill)
segment == marker + 1

AtMarker == Walking /\ Byte(position) = 255 /\ marker < Len(payload)
HasSegment == AtMarker /\ Byte(marker) \notin {1} \cup 208..217
              /\ segment + 2 <= Len(payload)
ValidSegment == HasSegment /\ Short(segment) >= 2 /\ segment + Short(segment) <= Len(payload)
AtFrame == ValidSegment /\ Byte(marker) \in StartOfFrame

Advance(to) == position' = to /\ UNCHANGED <<pieces, payload, size>>
Report(result) == size' = result /\ UNCHANGED <<pieces, payload, position>>

\* Mutant: the byte is looked at again.
SkipNoByte == Walking /\ Byte(position) # 255 /\ Advance(position)

SkipByte == Walking /\ Byte(position) # 255 /\ Advance(position + 1)

SkipMarker == AtMarker /\ Byte(marker) \in {1} \cup 208..217 /\ Advance(segment)

\* Mutant: the walk goes into the segment instead of past it.
EnterSegment == ValidSegment /\ ~AtFrame /\ Advance(segment + 2)

SkipSegment == ValidSegment /\ ~AtFrame /\ Advance(segment + Short(segment))

ReadFrame == AtFrame /\ Short(segment) >= 7
             /\ Report(<<Short(segment + 3), Short(segment + 5)>>)

(* The payload ends before a frame, or a segment cannot be as long as it   *)
(* says: InvalidImageError.                                                *)
RefusePayload ==
    /\ size = <<>>
    /\ \/ ~Walking
       \/ Walking /\ Byte(position) = 255 /\ ~AtMarker
       \/ AtMarker /\ Byte(marker) \notin {1} \cup 208..217 /\ ~ValidSegment
       \/ AtFrame /\ Short(segment) < 7
    /\ Report(<<"invalid">>)

InspectionNext == SkipByte \/ SkipMarker \/ SkipSegment \/ ReadFrame \/ RefusePayload

InspectionSpec == InspectionInit /\ [][InspectionNext]_inspection
-----------------------------------------------------------------------------
\* The bytes up to the end of the k-th piece are all there.
Arrived(k) == Len(FlattenSeq(SubSeq(pieces, 1, k))) + 2 <= Len(payload)

(* The size reported is that of the first frame the payload holds, neither *)
(* one that lies within another segment, nor one that is cut off, nor one  *)
(* behind a piece that is too short (multimodal/image.py, _jpeg_metadata). *)
FirstFrameIsReported ==
    size # <<>> =>
        LET sound == {k \in DOMAIN pieces : pieces[k] \in Frames /\ Arrived(k) /\
                        \A j \in 1..(k - 1) : Len(pieces[j]) \notin {4, 7, 10}}
        IN  IF sound = {} THEN size = <<"invalid">>
            ELSE \A k \in sound : size = <<pieces[k][7], pieces[k][9]>>

(* Every payload is told its size or refused, the walk does not go round   *)
(* (image.py, the loop of _jpeg_metadata).                                 *)
InspectionEnds == <>(size # <<>>)
=============================================================================
