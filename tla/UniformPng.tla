----------------------------- MODULE UniformPng -----------------------------
(***************************************************************************)
(* isUniformPng of src/tools/screenshot.ts: whether a picture is one colour*)
(* throughout, found out while its pixel stream is inflated.  The inflater *)
(* delivers the stream in chunks whose borders have nothing to do with the *)
(* scanlines; the decoder unfilters each line as soon as it is complete and*)
(* stops at the first pixel that differs.                                  *)
(* A byte has ByteSize values, so that the arithmetic wraps as it does.    *)
(***************************************************************************)
EXTENDS Integers, Sequences

CONSTANTS ByteSize, Channels, Width, Height,
          Filters   \* the filter bytes that occur; beyond 4 they mean nothing

VARIABLES
    stream,     \* the pixels, filtered, as they are packed in the picture
    inflated,   \* how much of it the inflater has delivered
    unread,     \* how much of the last chunk the walk has still to take
    filterType, \* of the line being read, or -1
    line,       \* its bytes so far
    previous,   \* the line above, unfiltered
    reference,  \* the first pixel
    scanlines,
    verdict     \* "reading", or "uniform", "differs", "unknown"

decoder == <<filterType, line, previous, reference, scanlines>>
pngVars == <<stream, inflated, unread, decoder, verdict>>

LineLength == Width * Channels
StreamLength == (LineLength + 1) * Height
Bytes == 0 .. ByteSize - 1
Abs(n) == IF n < 0 THEN -n ELSE n

\* A stream may go on behind the last line.
Streams ==
    {s \in [1 .. StreamLength + 1 -> Bytes \cup Filters] :
        /\ s[StreamLength + 1] = 0
        /\ \A i \in 1 .. StreamLength :
              s[i] \in IF i % (LineLength + 1) = 1 THEN Filters ELSE Bytes}

Init ==
    /\ stream \in Streams /\ inflated = 0 /\ unread = 0 /\ filterType = -1 /\ line = <<>>
    /\ previous = [i \in 1 .. LineLength |-> 0]
    /\ reference = <<>> /\ scanlines = 0 /\ verdict = "reading"

paethPredictor(left, above, upperLeft) ==
    LET estimate == left + above - upperLeft
        off(n) == Abs(estimate - n)
    IN  IF off(left) <= off(above) /\ off(left) <= off(upperLeft) THEN left
        ELSE IF off(above) <= off(upperLeft) THEN above ELSE upperLeft

\* Of the filters 0 to 4; a line with another is not unfiltered.
Predicted(filter, left, above, upperLeft) ==
    CASE filter = 0 -> 0
      [] filter = 1 -> left
      [] filter = 2 -> above
      [] filter = 3 -> (left + above) \div 2
      [] OTHER -> paethPredictor(left, above, upperLeft)

\* The line of these filtered bytes below `over`.
unfilterScanline(filter, raw, over) ==
    LET done[i \in 1 .. LineLength] ==
            LET left == IF i > Channels THEN done[i - Channels] ELSE 0
                upperLeft == IF i > Channels THEN over[i - Channels] ELSE 0
            IN  (raw[i] + Predicted(filter, left, over[i], upperLeft)) % ByteSize
    IN  [i \in 1 .. LineLength |-> done[i]]

\* The inflater delivers a chunk.
Chunk ==
    /\ verdict = "reading" /\ unread = 0
    /\ \E n \in 1 .. Len(stream) - inflated : inflated' = inflated + n /\ unread' = n
    /\ UNCHANGED <<stream, decoder, verdict>>

ReadFilter ==
    /\ unread > 0 /\ filterType < 0 /\ verdict = "reading"
    /\ filterType' = stream[inflated - unread + 1] /\ unread' = unread - 1
    /\ UNCHANGED <<stream, inflated, line, previous, reference, scanlines, verdict>>

Kept(raw, unfiltered) == unfiltered

\* As much of the line as the chunk has; behind its last byte the line is
\* unfiltered and compared.
TakeBytes ==
    /\ unread > 0 /\ filterType >= 0 /\ verdict = "reading"
    /\ LET take == IF unread < LineLength - Len(line) THEN unread ELSE LineLength - Len(line)
           offset == inflated - unread
           taken == line \o SubSeq(stream, offset + 1, offset + take)
       IN  IF Len(taken) < LineLength
           THEN /\ line' = taken /\ unread' = unread - take
                /\ UNCHANGED <<filterType, previous, reference, scanlines, verdict>>
           ELSE IF filterType > 4
           THEN /\ verdict' = "unknown" /\ unread' = 0
                /\ UNCHANGED decoder
           ELSE LET whole == unfilterScanline(filterType, taken, previous)
                    first == IF scanlines = 0 THEN SubSeq(whole, 1, Channels) ELSE reference
                    differs == \E i \in 1 .. LineLength :
                                   whole[i] # first[((i - 1) % Channels) + 1]
                IN  /\ reference' = first /\ previous' = Kept(taken, whole)
                    /\ line' = <<>> /\ filterType' = -1 /\ scanlines' = scanlines + 1
                    /\ verdict' = IF differs THEN "differs" ELSE "reading"
                    /\ unread' = IF differs THEN 0 ELSE unread - take
    /\ UNCHANGED <<stream, inflated>>

\* The stream ends where it ends.
StreamEnds ==
    /\ verdict = "reading" /\ unread = 0
    /\ verdict' = IF scanlines = Height THEN "uniform" ELSE "unknown"
    /\ UNCHANGED <<stream, inflated, unread, decoder>>

\* It cannot be inflated any further.
StreamFails ==
    /\ verdict = "reading" /\ unread = 0 /\ verdict' = "unknown"
    /\ UNCHANGED <<stream, inflated, unread, decoder>>

Next == Chunk \/ ReadFilter \/ TakeBytes \/ StreamEnds \/ StreamFails

Spec == Init /\ [][Next]_pngVars

----------------------------------------------------------------------------
\* The picture by the definition of the format, from the stream as a whole:
\* each byte from its filter, its neighbour to the left and the two above, where
\* there are zeros around the picture.
FilterOf(r) == stream[(r - 1) * (LineLength + 1) + 1]
ByteOf(r, i) == stream[(r - 1) * (LineLength + 1) + 1 + i]
Below(r, over) ==
    LET row[i \in 1 - Channels .. LineLength] ==
            IF i < 1 THEN 0
            ELSE (ByteOf(r, i) + Predicted(FilterOf(r), row[i - Channels], over[i],
                                           over[i - Channels])) % ByteSize
    IN  row
Picture[r \in 0 .. Height] ==
    IF r = 0 THEN [i \in 1 - Channels .. LineLength |-> 0] ELSE Below(r, Picture[r - 1])

Rows == inflated \div (LineLength + 1)
OneColour(rows) ==
    \A r \in 1 .. rows, i \in 1 .. LineLength :
        Picture[r][i] = Picture[1][((i - 1) % Channels) + 1]
Sound(rows) == \A r \in 1 .. rows : FilterOf(r) <= 4

TypeOK ==
    /\ inflated \in 0 .. Len(stream) /\ unread \in 0 .. inflated /\ filterType \in Filters \cup {-1}
    /\ Len(line) < LineLength /\ previous \in [1 .. LineLength -> Bytes]
    /\ scanlines \in 0 .. Height
    /\ verdict \in {"reading", "uniform", "differs", "unknown"}

\* The warning of take_screenshot is right wherever the chunks end: "uniform" is
\* said of a complete picture of one colour only, "differs" only of one that is
\* not, and a complete picture that the decoder understands gets its verdict.
VerdictIsThePictures ==
    /\ verdict = "uniform" => Rows = Height /\ Sound(Height) /\ OneColour(Height)
    /\ verdict = "differs" => Rows > 0 /\ ~ (Rows >= scanlines /\ Sound(scanlines) /\ OneColour(scanlines))
    /\ verdict = "reading" /\ unread = 0 =>
          scanlines = Rows /\ Sound(Rows) /\ OneColour(Rows)
=============================================================================
