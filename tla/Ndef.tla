-------------------------------- MODULE Ndef --------------------------------
(***************************************************************************)
(* The two parsers of nfc/ndef.rs as operators over sequences of bytes:    *)
(* NdefMessageParser, which is fed the memory of a tag block by block and  *)
(* collects the NDEF message in it, and parse_ndef_text_record with text,  *)
(* which take the message apart.  A result is [ok |-> value] or            *)
(* [error |-> kind]; where exactly a record is cut short is not told apart.*)
(***************************************************************************)
EXTENDS Integers, Sequences

Byte == 0..255

Ok(value) == [ok |-> value]
Err(kind) == [error |-> kind]
IsOk(result) == "ok" \in DOMAIN result

(* flags & mask # 0, for a mask of one bit                                 *)
HasBit(flags, mask) == (flags \div mask) % 2 = 1

-----------------------------------------------------------------------------
(* NdefMessageParser *)

NewParser == [state |-> "Init", length |-> -1, data |-> <<>>]

IsDone(parser) == Len(parser.data) = parser.length

HasStarted(parser) == parser.state # "Init"

(* One byte.  In the Length state a length of -1 says that no length byte  *)
(* has been read and -2 that two more follow.                              *)
AddByte(parser, byte) ==
    CASE parser.state = "Init" ->
           [parser EXCEPT !.state = IF byte = 3 THEN "Length" ELSE @]
      [] parser.state = "Length" /\ parser.length = -1 /\ byte = 255 ->
           [parser EXCEPT !.length = -2]
      [] parser.state = "Length" /\ parser.length = -1 /\ byte # 255 ->
           [parser EXCEPT !.length = byte, !.state = "Value"]
      [] parser.state = "Length" /\ parser.length = -2 ->
           [parser EXCEPT !.length = byte]
      [] parser.state = "Length" /\ parser.length >= 0 ->
           [parser EXCEPT !.length = 256 * @ + byte, !.state = "Value"]
      [] parser.state = "Value" ->
           [parser EXCEPT !.data = Append(@, byte)]

(* Mutant: bytes behind the message are collected too.                     *)
AddDataGoesOn(parser, chunk) ==
    LET feed[i \in 0..Len(chunk)] ==
            IF i = 0 THEN parser ELSE AddByte(feed[i - 1], chunk[i])
    IN  feed[Len(chunk)]

(* A chunk.  The byte that completes the message is the last one looked    *)
(* at; Feed(parser, chunk)[i] is the parser after i bytes of the chunk,    *)
(* with whether it has returned.                                           *)
TakeByte(acc, byte) ==
    IF acc.returned THEN acc
    ELSE LET next == AddByte(acc.parser, byte)
         IN  [parser |-> next,
              returned |-> acc.parser.state = "Value" /\ IsDone(next)]

Feed(parser, chunk) ==
    LET feed[i \in 0..Len(chunk)] ==
            IF i = 0 THEN [parser |-> parser, returned |-> FALSE]
            ELSE TakeByte(feed[i - 1], chunk[i])
    IN  feed

AddData(parser, chunk) == Feed(parser, chunk)[Len(chunk)].parser

-----------------------------------------------------------------------------
(* Text records *)

(* Mutant: the bytes in the other order.                                   *)
LittleEndian(b) ==
    IF b[4] > 0 THEN 2^24 ELSE 65536 * b[3] + 256 * b[2] + b[1]

(* u32::from_be_bytes.  No message has 2^24 bytes, so that 2^24 stands for *)
(* every length from there on.                                             *)
BigEndian(b) ==
    IF b[1] > 0 THEN 2^24 ELSE 65536 * b[2] + 256 * b[3] + b[4]

ParseTextRecord(data) ==
    LET flags         == data[1]
        sizeLength    == IF HasBit(flags, 16) THEN 1 ELSE 4
        hasId         == HasBit(flags, 8)
        headerLength  == 2 + sizeLength + (IF hasId THEN 1 ELSE 0)
        typeLength    == data[2]
        payloadLength == IF HasBit(flags, 16) THEN data[3]
                         ELSE BigEndian(SubSeq(data, 3, 6))
        idLength      == IF hasId THEN data[3 + sizeLength] ELSE 0
        index         == headerLength + typeLength + idLength
    IN  IF data = <<>> THEN Err("Truncated")
        ELSE IF HasBit(flags, 32) THEN Err("Chunked")
        ELSE IF Len(data) < headerLength \/ Len(data) < index + payloadLength
             THEN Err("Truncated")
        ELSE IF flags % 8 # 1 THEN Err("NotWellKnown")
        ELSE IF SubSeq(data, headerLength + 1, headerLength + typeLength) # <<84>>
             THEN Err("NotTextRecord")
        ELSE Ok(SubSeq(data, index + 1, index + payloadLength))

(* String::from_utf8.  Every byte belongs to a character: a lead byte that *)
(* says how many bytes it has, followed by so many continuation bytes.     *)
(* The second byte leaves out overlong forms, surrogates, and what is      *)
(* beyond the last code point.                                             *)
CharLength(byte) ==
    CASE byte < 128        -> 1
      [] byte \in 194..223 -> 2
      [] byte \in 224..239 -> 3
      [] byte \in 240..244 -> 4
      [] OTHER             -> 0

SecondFits(lead, second) ==
    /\ lead = 224 => second >= 160
    /\ lead = 237 => second < 160
    /\ lead = 240 => second >= 144
    /\ lead = 244 => second < 144

CharAt(bytes, i) ==
    LET last == i + CharLength(bytes[i]) - 1
    IN  /\ CharLength(bytes[i]) > 0 /\ last <= Len(bytes)
        /\ \A j \in (i + 1)..last : bytes[j] \in 128..191
        /\ last > i => SecondFits(bytes[i], bytes[i + 1])

IsUtf8(bytes) ==
    \A i \in DOMAIN bytes :
        \E j \in (i - 3)..i :
            j > 0 /\ CharAt(bytes, j) /\ i < j + CharLength(bytes[j])

(* NdefTextRecord::text; the low six bits of the first byte are the length *)
(* of the language code.  The highest, which marks UTF-16, is not read.    *)
Text(value) ==
    LET codeLength == value[1] % 64
        text       == SubSeq(value, codeLength + 2, Len(value))
    IN  IF value = <<>> THEN Ok(<<>>)
        ELSE IF Len(value) < codeLength + 1 THEN Err("Truncated")
        ELSE IF ~IsUtf8(text) THEN Err("InvalidUtf8")
        ELSE Ok(text)
=============================================================================
