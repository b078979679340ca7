------------------------------ MODULE IvyStream ------------------------------
(***************************************************************************)
(* The IVY stream parser, src/src/protocol/ivy-wrapper.js: packets with    *)
(* the 8-byte IVY header, raw DLMS APDUs whose length is computed from     *)
(* their content, and the search for the next start in anything else.      *)
(***************************************************************************)
EXTENDS DlmsValues, FiniteSetsExt

\* The largest payload buffered (4096 in the code).
CONSTANT MAX_PAYLOAD_LENGTH
ASSUME MaxPayloadAssumption == MAX_PAYLOAD_LENGTH \in Nat

IVY_HEADER_LENGTH == 8
IVY_SIGNATURE == <<0, 1, 0, 1>>
DLMS_PUBLIC_CLIENT == 1

RAW_DLMS_TAGS == {\hC2, \h0F, \hC4, \hC5, \hC3, \hC7, \h61, \h63, \hD8, \h60, \h62, \hC0}

\* No length: the buffer is too short, or the APDU is not understood.
UNKNOWN_LENGTH == -1

\* A length read off the buffer, when the buffer reaches that far.
IfBuffered(buffer, length) == IF Len(buffer) >= length THEN length ELSE UNKNOWN_LENGTH

\* Where the DLMS value at pos ends, the exception turned into "no length".
Past(end) == IF end = THROWS THEN UNKNOWN_LENGTH ELSE end
AfterValue(buffer, pos) == Past(ValuesEnd(buffer, pos, 1))

\* computeBerTlvLength; a content length of four bytes is below 2^31.
BerTlvLength(buffer) ==
    LET size == At(buffer, 1)
        lengthBytes == size % 128
        contentLength ==
            LET upTo[i \in 0 .. lengthBytes] ==
                  IF i = 0 THEN 0 ELSE upTo[i - 1] * 256 + At(buffer, 1 + i)
            IN  upTo[lengthBytes]
    IN  IF Len(buffer) < 2 THEN UNKNOWN_LENGTH
        ELSE IF size < 128 THEN IfBuffered(buffer, 2 + size)
        ELSE IF lengthBytes \notin 1 .. 4 \/ Len(buffer) < 2 + lengthBytes THEN UNKNOWN_LENGTH
        ELSE IfBuffered(buffer, 2 + lengthBytes + contentLength)

\* The trailing values of an event: tags 1 to 27, as long as they parse.
TrailingValues(buffer, start) ==
    LET trailing[pos \in Nat] ==
            LET next == AfterValue(buffer, pos)
            IN  IF At(buffer, pos) \notin 1 .. 27 \/ next = UNKNOWN_LENGTH THEN pos
                ELSE IF next = NAN THEN NAN ELSE trailing[next]
    IN  trailing[start]

EventValuesEnd(buffer, first) ==
    IF first \in {UNKNOWN_LENGTH, NAN} THEN first ELSE TrailingValues(buffer, first)

\* walkEventNotificationBody: class, OBIS code, attribute index, values.
EventBodyEnd(buffer, start) ==
    LET value == start + 9 + (IF At(buffer, start + 2) = 6 THEN 1 ELSE 0)
    IN  IF value >= Len(buffer) THEN UNKNOWN_LENGTH
        ELSE EventValuesEnd(buffer, AfterValue(buffer, value))

ValidNext(buffer, pos) == pos # NAN /\ At(buffer, pos) \in {0} \cup RAW_DLMS_TAGS

\* The reading of an event without a date-time, unless only the other one is
\* possible or it alone fits the buffer or its next byte.
BestReading(buffer, without, with) ==
    LET WithFits == \/ without = UNKNOWN_LENGTH
                    \/ with = Len(buffer) /\ without # Len(buffer)
                    \/ /\ (without = Len(buffer)) = (with = Len(buffer))
                       /\ ValidNext(buffer, with) /\ ~ValidNext(buffer, without)
    IN  IF with # UNKNOWN_LENGTH /\ WithFits THEN with ELSE without

\* computeEventNotificationLength
EventNotificationLength(buffer) ==
    IF Len(buffer) < 11 THEN UNKNOWN_LENGTH
    ELSE BestReading(buffer, EventBodyEnd(buffer, 1),
            IF LooksLikeCosemDateTime(buffer, 1) THEN EventBodyEnd(buffer, 13)
                                                 ELSE UNKNOWN_LENGTH)

\* computeDataNotificationLength: tag, invoke id, date-time, one value.
DataNotificationLength(buffer) ==
    LET value == 6 + At(buffer, 5)
    IN  IF Len(buffer) < 7 \/ value >= Len(buffer)
        THEN UNKNOWN_LENGTH ELSE AfterValue(buffer, value)

\* computeResponseLength: response-normal only.  An ACTION.response takes
\* whatever follows a success for its optional return data.
ResponseLength(buffer) ==
    LET tag == At(buffer, 0)
        result == At(buffer, 3)
        MoreThan(n) == Len(buffer) > n
    IN  IF Len(buffer) < 4 \/ At(buffer, 1) # 1 THEN UNKNOWN_LENGTH
        ELSE CASE tag = \hC4 /\ result = 0 -> AfterValue(buffer, 4)
               [] tag = \hC4 /\ result = 1 -> IfBuffered(buffer, 5)
               [] tag = \hC4 /\ result \notin {0, 1} -> UNKNOWN_LENGTH
               [] tag = \hC5 -> 4
               [] tag = \hC7 /\ (result # 0 \/ ~MoreThan(4)) -> 4
               [] tag = \hC7 /\ result = 0 /\ MoreThan(4) ->
                    IF At(buffer, 4) # 0 /\ MoreThan(5) THEN AfterValue(buffer, 5) ELSE 5

\* computeRawDlmsLength
RawDlmsLength(buffer) ==
    LET tag == At(buffer, 0)
    IN  CASE tag \in {\h60, \h61, \h62, \h63} -> BerTlvLength(buffer)
          [] tag = \hD8 -> IfBuffered(buffer, 3)
          [] tag = \hC2 -> EventNotificationLength(buffer)
          [] tag = \h0F -> DataNotificationLength(buffer)
          [] tag \in {\hC4, \hC5, \hC7} -> ResponseLength(buffer)
          [] tag \in {\hC0, \hC3} -> IfBuffered(buffer, 13)
          [] OTHER -> UNKNOWN_LENGTH

Dropped(buffer, n) == SubSeq(buffer, n + 1, Len(buffer))
Taken(buffer, n) == SubSeq(buffer, 1, IF n < Len(buffer) THEN n ELSE Len(buffer))

\* The position of the next signature or tag after the first byte
\* (findIvyStart, findRawDlmsStart); the length of the buffer when none.
NextStart(buffer) ==
    Min({Len(buffer)} \cup
        {i \in 1 .. Len(buffer) - 1 :
            \/ buffer[i + 1] \in RAW_DLMS_TAGS
            \/ Taken(Dropped(buffer, i), 4) = IVY_SIGNATURE})

\* An IVY header is being waited for, or the packet it announces.
HasSignature(buffer) == Taken(buffer, 4) = IVY_SIGNATURE
DeclaredLength(buffer) == UInt16(buffer, 6)

\* The length of the packet the header announces; none when it is too long.
IvyLength(buffer) ==
    IF DeclaredLength(buffer) > MAX_PAYLOAD_LENGTH THEN UNKNOWN_LENGTH
    ELSE IVY_HEADER_LENGTH + DeclaredLength(buffer)

\* Mutant: the packet is taken as soon as its header is there.
AwaitsHeader(buffer) ==
    At(buffer, 0) = 0 /\ \/ Len(buffer) < 4
                         \/ HasSignature(buffer) /\ Len(buffer) < IVY_HEADER_LENGTH

AwaitsIvy(buffer) ==
    /\ At(buffer, 0) = 0
    /\ \/ Len(buffer) < 4
       \/ /\ HasSignature(buffer)
          /\ \/ Len(buffer) < IVY_HEADER_LENGTH
             \/ /\ DeclaredLength(buffer) <= MAX_PAYLOAD_LENGTH
                /\ Len(buffer) < IVY_HEADER_LENGTH + DeclaredLength(buffer)

\* Mutant: no limit on the wait.
AwaitsRawForever(buffer, length) == length = UNKNOWN_LENGTH

\* A raw APDU without a known length is waited for up to the maximum.
AwaitsRaw(buffer, length) ==
    /\ length = UNKNOWN_LENGTH
    /\ Len(buffer) <= MAX_PAYLOAD_LENGTH

IvyPacket(buffer, length) ==
    [raw |-> FALSE, destination |-> UInt16(buffer, 4), bytes |-> Taken(buffer, length),
     payload |-> Dropped(Taken(buffer, length), IVY_HEADER_LENGTH)]
RawPacket(buffer, length) ==
    [raw |-> TRUE, destination |-> DLMS_PUBLIC_CLIENT, bytes |-> Taken(buffer, length),
     payload |-> Taken(buffer, length)]

\* The loop of push().  The packet at the start of the buffer has the length its
\* header or its APDU gives it.  A NaN length takes nothing off the buffer, so that
\* the loop emits empty packets for ever: "spins".
Packets[buffer \in Seq(Byte)] ==
    LET signed == HasSignature(buffer)
        raw == ~signed /\ buffer[1] \in RAW_DLMS_TAGS
        length == IF signed THEN IvyLength(buffer) ELSE RawDlmsLength(buffer)
        packet == IF signed THEN IvyPacket(buffer, length) ELSE RawPacket(buffer, length)
        Ends(spins) == [buffer |-> buffer, emitted |-> <<>>, spins |-> spins]
    IN  IF buffer = <<>> \/ AwaitsIvy(buffer) \/ (raw /\ AwaitsRaw(buffer, length)) THEN Ends(FALSE)
        ELSE IF ~signed /\ ~raw THEN Packets[Dropped(buffer, NextStart(buffer))]
        ELSE IF length = UNKNOWN_LENGTH THEN Packets[Dropped(buffer, 1)]
        ELSE IF length = NAN THEN Ends(TRUE)
        ELSE [Packets[Dropped(buffer, length)] EXCEPT !.emitted = <<packet>> \o @]

\* createIvyStreamParser().push(data)
PushIvy(buffer, data) == Packets[buffer \o data]
=============================================================================
