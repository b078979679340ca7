----------------------------- MODULE FrameStream -----------------------------
(***************************************************************************)
(* The DLT645 stream parser: createStreamParser() of frame-parser.js with  *)
(* isCompleteFrame, findFrameStart, and the checks of parseFrame           *)
(* (checksum.js, bcd.js).  Push takes what is buffered and a chunk and     *)
(* returns what is left and what the callbacks received.                   *)
(***************************************************************************)
EXTENDS Integers, Sequences, SequencesExt

START_DELIMITER == \h68
END_DELIMITER == \h16
MIN_FRAME_LENGTH == 12
HEADER_LENGTH == 10

CalculateChecksum(bytes) == FoldLeft(+, 0, bytes) % 256

ChecksumValid(frame) ==
    frame[Len(frame) - 1] = CalculateChecksum(SubSeq(frame, 1, Len(frame) - 2))

\* extractAddress: bcdToByte takes each of the six bytes.
AddressIsBcd(frame) == \A i \in 2 .. 7 : frame[i] \div 16 <= 9 /\ frame[i] % 16 <= 9

\* parseFrame does not throw; the delimiters and the length field are those
\* CompleteFrame has looked at.
FrameParses(frame) == ChecksumValid(frame) /\ AddressIsBcd(frame)

INVALID == -1
INCOMPLETE == 0

\* Mutant: a frame whose end has not arrived is given up.
CompleteFrameImpatient(buffer) ==
    LET expected == HEADER_LENGTH + buffer[10] + 2
    IN  IF Len(buffer) < MIN_FRAME_LENGTH THEN INCOMPLETE
        ELSE IF buffer[1] # START_DELIMITER \/ buffer[8] # START_DELIMITER THEN INVALID
        ELSE IF Len(buffer) < expected \/ buffer[expected] # END_DELIMITER THEN INVALID
        ELSE expected

\* isCompleteFrame: an error, an incomplete frame, or the frame's length.
CompleteFrame(buffer) ==
    LET expected == HEADER_LENGTH + buffer[10] + 2
    IN  IF Len(buffer) < MIN_FRAME_LENGTH THEN INCOMPLETE
        ELSE IF buffer[1] # START_DELIMITER \/ buffer[8] # START_DELIMITER THEN INVALID
        ELSE IF Len(buffer) < expected THEN INCOMPLETE
        ELSE IF buffer[expected] # END_DELIMITER THEN INVALID
        ELSE expected

\* The buffer from its first start delimiter on; empty when it has none.
FromFrameStart(buffer) ==
    LET starts == {i \in 1 .. Len(buffer) : buffer[i] = START_DELIMITER}
    IN  IF starts = {} THEN <<>> ELSE SubSeq(buffer, Min(starts), Len(buffer))

\* onFrame or onError
FrameEmission(frame) ==
    [kind |-> IF FrameParses(frame) THEN "frame" ELSE "error", bytes |-> frame]

\* The loop of push(): what it leaves in the buffer, and what it emits.
Frames[buffer \in Seq(0 .. 255)] ==
    LET found == FromFrameStart(buffer)
        length == CompleteFrame(found)
        Rest(n) == SubSeq(found, n + 1, Len(found))
    IN  IF Len(buffer) < MIN_FRAME_LENGTH THEN [buffer |-> buffer, emitted |-> <<>>]
        ELSE IF found = <<>> \/ length = INCOMPLETE THEN [buffer |-> found, emitted |-> <<>>]
        ELSE IF length = INVALID THEN Frames[Rest(1)]
        ELSE [Frames[Rest(length)] EXCEPT
                !.emitted = <<FrameEmission(SubSeq(found, 1, length))>> \o @]

\* createStreamParser().push(data)
PushFrames(buffer, data) == Frames[buffer \o data]
=============================================================================
