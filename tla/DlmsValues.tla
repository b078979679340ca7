----------------------------- MODULE DlmsValues -----------------------------
(***************************************************************************)
(* The lengths of DLMS data values, src/src/protocol/dlms/data-types.js:   *)
(* where parseDlmsValue() says that they end.  A buffer is a sequence      *)
(* of bytes, an offset counts from 0 as in the code.  Values themselves    *)
(* are not built; which reads throw, and which silently run past the end   *)
(* of the buffer, is kept.                                                 *)
(***************************************************************************)
EXTENDS Integers, Sequences

Byte == 0 .. 255

\* The outcomes that are not a length: an exception, and JavaScript's NaN,
\* which a length byte beyond the end of the buffer (undefined) turns into.
THROWS == -1
NAN == -2

\* buffer[offset]; -1 stands for undefined.
At(buffer, offset) == IF offset < Len(buffer) THEN buffer[offset + 1] ELSE -1

UInt16(buffer, offset) == At(buffer, offset) * 256 + At(buffer, offset + 1)

CeilDiv8(n) == (n + 7) \div 8

ARRAY == 1
STRUCTURE == 2
BIT_STRING == 4
STRINGS == {9, 10, 12}      \* OCTET_STRING, VISIBLE_STRING, UTF8_STRING

\* tag :> <<bytes that are read and must be there, bytes reported>>
FixedSizes == [tag \in {0, 3, 5, 6} \cup 15 .. 18 \cup 20 .. 27 |->
    CASE tag = 0              -> <<0, 0>>      \* NULL_DATA
      [] tag = 3              -> <<0, 1>>      \* BOOLEAN: undefined !== 0
      [] tag \in {15, 17, 22} -> <<1, 1>>      \* INT8, UINT8, ENUM
      [] tag \in {16, 18}     -> <<2, 2>>      \* INT16, UINT16
      [] tag \in {5, 6, 23}   -> <<4, 4>>      \* INT32, UINT32, FLOAT32
      [] tag \in {20, 21, 24} -> <<8, 8>>      \* INT64, UINT64, FLOAT64
      [] tag = 25             -> <<12, 12>>    \* DATE_TIME
      [] tag = 26             -> <<2, 5>>      \* DATE: only the year is checked
      [] tag = 27             -> <<0, 4>>]     \* TIME: plain indexing

\* Where `count` values end that begin at an offset: the offset plus what
\* parseDlmsValue() reports as bytesConsumed.  The elements of an array or a
\* structure follow each other; an undefined number of elements is none, and an
\* element after a NaN is read at NaN, which throws.
ValuesEnd(buffer, offset, count) ==
    LET end[p \in Nat \X Nat] ==
            LET tag == At(buffer, p[1])
                size == At(buffer, p[1] + 1)
                body == p[1] + 1
                first ==
                  CASE tag \in DOMAIN FixedSizes ->
                         IF body + FixedSizes[tag][1] > Len(buffer)
                         THEN THROWS ELSE body + FixedSizes[tag][2]
                    [] tag \in STRINGS -> IF size = -1 THEN NAN ELSE body + 1 + size
                    [] tag = BIT_STRING -> IF size = -1 THEN NAN ELSE body + 1 + CeilDiv8(size)
                    [] tag \in {ARRAY, STRUCTURE} ->
                         end[<<body + 1, IF size = -1 THEN 0 ELSE size>>]
                    [] OTHER -> THROWS
            IN  IF p[2] = 0 THEN p[1]
                ELSE IF p[2] = 1 THEN first
                ELSE IF first \in {THROWS, NAN} THEN THROWS
                ELSE end[<<first, p[2] - 1>>]
    IN  end[<<offset, count>>]

\* looksLikeCosemDateTime: a plausible year, month and hour, or "not specified".
LooksLikeCosemDateTime(buffer, offset) ==
    /\ Len(buffer) >= offset + 12
    /\ UInt16(buffer, offset) \in 2000 .. 2099 \cup {\hFFFF}
    /\ At(buffer, offset + 2) \in 1 .. 12 \cup {\hFF}
    /\ At(buffer, offset + 5) \in 0 .. 23 \cup {\hFF}
=============================================================================
