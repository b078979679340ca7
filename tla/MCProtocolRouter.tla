-------------------------- MODULE MCProtocolRouter --------------------------
\* Traffic of DLT645 and IVY meters, and the packets that framing by content
\* makes hard.  Addresses and values are shortened to bytes that tell apart.
EXTENDS ProtocolRouter

Item(bytes, events) ==
    [bytes |-> bytes, events |-> events, opens |-> TRUE, fragile |-> {},
     lone |-> FALSE, misleads |-> FALSE]
Apdu(bytes) == <<[kind |-> "dlms", bytes |-> bytes]>>
RawApdu(bytes) == Item(bytes, Apdu(bytes))
Wrapped(payload, destination) ==
    IVY_SIGNATURE \o <<0, destination, 0, Len(payload)>> \o payload

\* ---- DLT645
Address == <<1, 0, 0, 0, 0, 0>>
FrameBytes(code, data) ==
    LET body == <<\h68>> \o Address \o <<\h68, code, Len(data)>> \o data
    IN  body \o <<CalculateChecksum(body), \h16>>
ReadAnswer == LET f == FrameBytes(\h91, <<\h16, \h68, \h33>>)
              IN  Item(f, <<[kind |-> "frame", bytes |-> f]>>)
WriteAnswer == LET f == FrameBytes(\h94, <<>>)
               IN  Item(f, <<[kind |-> "frame", bytes |-> f]>>)
Corrupt == LET f == [FrameBytes(\h91, <<\h33>>) EXCEPT ![9] = \h92]
           IN  Item(f, <<[kind |-> "error", bytes |-> f]>>)
NoBcdAddress ==
    LET f == [FrameBytes(\h91, <<\h33>>) EXCEPT ![2] = \h0A, ![12] = (@ + 9) % 256]
    IN  Item(f, <<[kind |-> "error", bytes |-> f]>>)
LineNoise == [Item([i \in 1 .. MIN_FRAME_LENGTH + 1 |-> \hFE], <<>>) EXCEPT !.opens = FALSE]
FalseStart == [Item(<<\h68, \h02>>, <<>>) EXCEPT !.opens = FALSE, !.misleads = TRUE]

Dlt645Items == {ReadAnswer, WriteAnswer, Corrupt, NoBcdAddress, LineNoise, FalseStart}

\* ---- IVY and DLMS
HeartbeatBytes(digit) == HEARTBEAT_HEADER \o [i \in 1 .. 12 |-> digit] \o <<0, 0, 0>>
Heartbeat == Item(HeartbeatBytes(\h31),
                  <<[kind |-> "heartbeat", bytes |-> [i \in 1 .. 12 |-> \h31]]>>)
GetUInt16 == <<\hC4, 1, \hC1, 0, 18, \hD8, 5>>
GetString == <<\hC4, 1, \hC1, 0, 9, 2, \h41, \h42>>
WrappedAnswer == Item(Wrapped(GetString, 1), Apdu(GetString))
LegacyAnswer == Item(Wrapped(GetUInt16, 16), Apdu(GetUInt16))
RawAnswer == RawApdu(GetUInt16)
RawError == RawApdu(<<\hC4, 1, \hC1, 1, 4>>)
RawString == [RawApdu(GetString) EXCEPT !.fragile = {5, 6, 7}]
RawAction == [RawApdu(<<\hC7, 1, \hC1, 0, 0>>) EXCEPT !.fragile = {4}]
Aare == RawApdu(<<\h61, \h81, 3, \hA1, 1, 0>>)
RawException == RawApdu(<<\hD8, 1, 1>>)
RawEvent == RawApdu(<<\hC2, 0, 3, 1, 0, 1, 8, 0, 255, 2, 6, 0, 0, 0, 5>>)
DateTime == <<\h07, \hE8, 6, 15, 6, 10, 30, 0, \hFF, \h80, 0, 0>>
DatedEvent == [RawApdu(<<\hC2>> \o DateTime \o <<0, 3, 1, 0, 1, 8, 0, 255, 2, 17, 5>>)
                  EXCEPT !.lone = TRUE]
DataNotification ==
    [RawApdu(<<\h0F, 0, 0, 0, 1, 0, 2, 2, 17, 5, 17, 6>>) EXCEPT !.lone = TRUE]
NoisyHeartbeat ==
    [bytes |-> <<\hFF, \hFF>> \o Heartbeat.bytes, events |-> Heartbeat.events,
     opens |-> FALSE, fragile |-> {3, 4, 5}, lone |-> FALSE, misleads |-> FALSE]
Oversized ==
    [Item(Wrapped(<<>>, 1), <<>>) EXCEPT !.bytes[8] = 255, !.misleads = TRUE]
DataBlock == [Item(<<\hC4, 2, \hC1, 0, 1, 2>>, <<>>) EXCEPT !.misleads = TRUE]

CleanIvyItems == {Heartbeat, WrappedAnswer, LegacyAnswer, RawAnswer, RawError, RawString,
                  Aare, RawException}
IvyItems == CleanIvyItems \cup {RawAction, RawEvent, DatedEvent, DataNotification,
                                NoisyHeartbeat, Oversized, DataBlock}

AllKinds == {Dlt645Items, IvyItems}
CleanIvyOnly == {CleanIvyItems}
=============================================================================
