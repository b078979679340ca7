---------------------------- MODULE ProtocolRouter ----------------------------
(***************************************************************************)
(* One connection's byte stream: src/src/protocol/protocol-router.js over  *)
(* the parsers of FrameStream and IvyStream.  The meter's traffic is fixed *)
(* at the start; TCP delivers its bytes in order, in chunks of any size.   *)
(* An item of traffic says which bytes it is and what the gateway should   *)
(* make of them, and at which cuts the parsers are known to fail:          *)
(*   opens    the meter may begin a connection with it                     *)
(*   bytes    on the wire                                                  *)
(*   events   for the callbacks, due with its last byte                    *)
(*   fragile  numbers of its bytes after which a chunk must not end        *)
(*   lone     it has to be a chunk of its own                              *)
(*   misleads it looks like the start of something longer                  *)
(***************************************************************************)
EXTENDS FrameStream, IvyStream

CONSTANTS MeterKinds,  \* for each kind of meter, the items it sends
          MaxItems     \* bound on the length of the traffic

ASSUME TrafficAssumption ==
    /\ MaxItems \in Nat
    /\ \A items \in MeterKinds : \A item \in items : item.bytes \in Seq(Byte)

VARIABLES traffic,            \* what the meter sends on this connection
          delivered,          \* how many bytes of it were pushed
          detectedProtocol,   \* of the router; "none" before the first push
          buffer,             \* of the parser in use
          emitted,            \* events the callbacks received, in order
          spinning,           \* the parser's loop does not end
          torn                \* history: a chunk ended where it should not

vars == <<traffic, delivered, detectedProtocol, buffer, emitted, spinning, torn>>

WireOf(items) == FlattenSeq([i \in DOMAIN items |-> items[i].bytes])
Wire == WireOf(traffic)
WireLength(n) == Len(WireOf(SubSeq(traffic, 1, n)))

HEARTBEAT_PACKET_LENGTH == 26
HEARTBEAT_HEADER == <<\h00, \h01, \h00, \h01, \h00, \h01, \h00, \h12, \h0a, \h02, \h0c>>
IsHeartbeatPacket(bytes) ==
    Len(bytes) >= HEARTBEAT_PACKET_LENGTH /\ IsPrefix(HEARTBEAT_HEADER, bytes)
MeterAddress(bytes) == SubSeq(bytes, 12, 23)

\* detectProtocol: from the first chunk alone.
DetectProtocol(data) ==
    CASE data[1] = START_DELIMITER -> "dlt645"
      [] HasSignature(data) \/ data[1] \in RAW_DLMS_TAGS -> "ivy_dlms"
      [] OTHER -> "unknown"

\* handleIvyPacket and handleDlmsPayload: the events of one packet.
HandleIvyPacket(packet) ==
    LET apdu == <<[kind |-> "dlms", bytes |-> packet.payload]>>
    IN  CASE packet.destination = 1 /\ IsHeartbeatPacket(packet.bytes) ->
               <<[kind |-> "heartbeat", bytes |-> MeterAddress(packet.bytes)]>>
          [] /\ packet.destination = 1 /\ ~IsHeartbeatPacket(packet.bytes)
             /\ At(packet.payload, 0) \in RAW_DLMS_TAGS -> apdu
          [] packet.destination >= 16 /\ packet.payload # <<>> -> apdu
          [] OTHER -> <<>>

------------------------------------------------------------------------------
Init ==
    /\ \E items \in MeterKinds :
          traffic \in {t \in SeqOf(items, MaxItems) : t # <<>> /\ Head(t).opens}
    /\ delivered = 0
    /\ detectedProtocol = "none"
    /\ buffer = <<>>
    /\ emitted = <<>>
    /\ spinning = FALSE
    /\ torn = FALSE

\* The chunk of the next n bytes ends, or begins, at a bad place.
Tears(n) ==
    \/ delivered = 0 /\ n < 4 /\ Wire[1] = 0
    \/ \E i \in DOMAIN traffic :
          LET from == WireLength(i - 1)
              to == WireLength(i)
          IN  \/ delivered + n - from \in traffic[i].fragile
              \/ /\ traffic[i].lone
                 /\ delivered < to /\ delivered + n > from
                 /\ ~(delivered = from /\ delivered + n = to)

Detected(data) ==
    IF detectedProtocol = "none" THEN DetectProtocol(data) ELSE detectedProtocol

PushDlt645(data) ==
    /\ Detected(data) = "dlt645"
    /\ \E pushed \in {PushFrames(buffer, data)} :
        /\ buffer' = pushed.buffer
        /\ emitted' = emitted \o pushed.emitted
        /\ UNCHANGED spinning

PushIvyDlms(data) ==
    /\ Detected(data) = "ivy_dlms"
    /\ \E pushed \in {PushIvy(buffer, data)} :
        /\ buffer' = pushed.buffer
        /\ emitted' = emitted \o
              FlattenSeq([i \in DOMAIN pushed.emitted |-> HandleIvyPacket(pushed.emitted[i])])
        /\ spinning' = pushed.spins

Discard(data) ==
    /\ Detected(data) = "unknown"
    /\ UNCHANGED <<buffer, emitted, spinning>>

\* push(data); a parser that does not return takes no more.
Push(n) ==
    LET data == SubSeq(Wire, delivered + 1, delivered + n)
    IN  /\ ~spinning
        /\ detectedProtocol' = Detected(data)
        /\ PushDlt645(data) \/ PushIvyDlms(data) \/ Discard(data)
        /\ delivered' = delivered + n
        /\ torn' = (torn \/ Tears(n))
        /\ UNCHANGED traffic

Next == \E n \in 1 .. Len(Wire) - delivered : Push(n)

Spec == Init /\ [][Next]_vars

------------------------------------------------------------------------------
Due == {i \in DOMAIN traffic : WireLength(i) <= delivered}
DueEvents == FlattenSeq([i \in 1 .. Cardinality(Due) |-> traffic[i].events])

StreamTypeOK ==
    /\ delivered \in 0 .. Len(Wire)
    /\ detectedProtocol \in {"none", "dlt645", "ivy_dlms", "unknown"}
    /\ detectedProtocol = "none" <=> delivered = 0
    /\ buffer \in Seq(Byte)
    /\ \A i \in DOMAIN emitted :
          /\ emitted[i].kind \in {"heartbeat", "dlms", "frame", "error"}
          /\ emitted[i].bytes \in Seq(Byte)
    /\ spinning \in BOOLEAN
    /\ torn \in BOOLEAN

\* DLT645 (createStreamParser): whatever the chunks, noise and false starts
\* included, the parser has emitted what one push of all bytes so far would have,
\* and keeps the same beginning of a frame.  Bytes before that beginning may stay
\* or not: they are dropped only when at least MIN_FRAME_LENGTH are buffered.
ChunksIrrelevant ==
    detectedProtocol = "dlt645" =>
        LET once == PushFrames(<<>>, SubSeq(Wire, 1, delivered))
        IN  /\ emitted = once.emitted
            /\ FromFrameStart(buffer) = FromFrameStart(once.buffer)

\* As long as no chunk ended at a known bad place, every packet reaches its
\* callback with its last byte, in order and unaltered, and nothing else does
\* (createStreamParser, createIvyStreamParser, handleIvyPacket).
IntactUnlessTorn ==
    (~torn /\ ~\E i \in DOMAIN traffic : traffic[i].misleads) =>
        emitted = DueEvents /\ ~spinning

\* The IVY parser never keeps more than the largest packet it waits for, cut
\* or not, malformed APDUs and oversized headers included (MAX_PAYLOAD_LENGTH).
BufferBounded ==
    /\ StreamTypeOK
    /\ (detectedProtocol = "ivy_dlms" /\ ~spinning) =>
          Len(buffer) < IVY_HEADER_LENGTH + MAX_PAYLOAD_LENGTH

\* What ANALYSIS.md:126 promises of the IVY parser, "Handles fragmented TCP data
\* (buffer accumulation)": with the first header whole and no packet that
\* depends on its surroundings, chunks do not matter.
FragmentsAccumulate == detectedProtocol = "ivy_dlms" => emitted = DueEvents /\ ~spinning
=============================================================================
