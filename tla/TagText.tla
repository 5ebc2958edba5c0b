------------------------------ MODULE TagText ------------------------------
(***************************************************************************)
(* Reading back what was written to a tag.  A tag is what its writer put   *)
(* there: the TLV blocks `before` the message and the NDEF message, in a   *)
(* memory of 8 * capability bytes.  read_ndef_text runs on it to the end,  *)
(* and the result is compared with the text records of the NDEF format,    *)
(* described by how they are laid out rather than by how they are parsed.  *)
(***************************************************************************)
EXTENDS TagRead, Functions

CONSTANT Tags   \* the tags, records [capability, before, message]

(* A TLV block has room for 16 bits of length.                             *)
ASSUME TagAssumption ==
    \A t \in Tags : /\ t.capability \in Byte
                    /\ t.before \in Seq(Byte) /\ t.message \in Seq(Byte)
                    /\ Len(t.message) < 65536

VARIABLE tag

textVars == <<tag, reading>>

-----------------------------------------------------------------------------
(* The NDEF formats *)

(* The length field of a TLV block: one byte, or three from 255 on.        *)
LengthField(n) == IF n < 255 THEN <<n>> ELSE <<255, n \div 256, n % 256>>

(* The bytes up to the end of the message, and the whole memory.           *)
Stream(t) == t.before \o <<3>> \o LengthField(Len(t.message)) \o t.message

Memory(t) ==
    Stream(t) \o [i \in 1..(8 * t.capability - Len(Stream(t))) |->
                     IF i = 1 THEN 254 ELSE 0]

(* The fields of m as a well-known text record: flags, lengths of type,    *)
(* payload and ID, the type "T", the ID, the payload.                      *)
Fields(m) == [short : BOOLEAN, hasId : BOOLEAN, id : {0} \union Range(m),
              payload : 0..Len(m)]

SizeField(f) == IF f.short THEN <<f.payload>>
                ELSE <<0, 0, f.payload \div 256, f.payload % 256>>

Lead(m, f) == <<m[1], 1>> \o SizeField(f)
                 \o (IF f.hasId THEN <<f.id>> ELSE <<>>) \o <<84>>

StartsWith(m, s) == Len(s) <= Len(m) /\ \A i \in 1..Len(s) : m[i] = s[i]

Fits(m, f) == /\ f.hasId \/ f.id = 0
              /\ f.short = HasBit(m[1], 16) /\ f.hasId = HasBit(m[1], 8)
              /\ ~HasBit(m[1], 32) /\ m[1] % 8 = 1
              /\ StartsWith(m, Lead(m, f))
              /\ Len(m) >= Len(Lead(m, f)) + f.id + f.payload

Payload(m, f) == SubSeq(m, Len(Lead(m, f)) + f.id + 1,
                        Len(Lead(m, f)) + f.id + f.payload)

Payloads(m) == {Payload(m, f) : f \in {g \in Fields(m) : m # <<>> /\ Fits(m, g)}}

(* What follows the status byte, whose low six bits are the length of the  *)
(* language code, and the language code.                                   *)
Contents(p) ==
    {t \in {SubSeq(p, i, Len(p)) : i \in 2..(Len(p) + 1)} :
        Len(p) = 1 + (p[1] % 64) + Len(t)}

(* The UTF-8 texts of a payload and of a message; bit 7 of the status byte *)
(* says UTF-16.                                                            *)
TextsOf(p) == {t \in Contents(p) : p[1] < 128 /\ IsUtf8(t)}

Texts(m) == UNION {TextsOf(p) : p \in Payloads(m)}

(* What text() returns for a payload that carries no UTF-8 text: an empty  *)
(* text if there is not even a status byte (ndef.rs:144-146), the bytes of *)
(* UTF-16 if they happen to be UTF-8 as well (148-154 mask bit 7 out).     *)
TakenForText(p) ==
    IF p = <<>> THEN {<<>>} ELSE {t \in Contents(p) : p[1] >= 128 /\ IsUtf8(t)}

Readable(m) == Texts(m) \union UNION {TakenForText(p) : p \in Payloads(m)}

-----------------------------------------------------------------------------
Init ==
    /\ tag \in Tags
    /\ reading = [at |-> "capability"]

Next ==
    /\ \/ ReadCapability(tag.capability)
       \/ reading.at = "blocks" /\ ReadBlock(BlockOf(Memory(tag), reading.quad))
    /\ UNCHANGED tag

Spec == Init /\ [][Next]_textVars

-----------------------------------------------------------------------------
(* Properties *)

(* The blocks that read_ndef_text can ask for hold the whole message,      *)
(* which starts in one of the first two of them.                           *)
InReach(t) ==
    /\ Len(t.before) < 2 * BlockLength
    /\ Len(Stream(t)) <= BlockLength * TotalQuads(t.capability)

OnlyNulls(t) == \A i \in DOMAIN t.before : t.before[i] = 0

(* The high byte of a three byte length is 0 and the last byte of a block. *)
LengthSplitAtZero(t) ==
    /\ Len(t.message) = 255
    /\ (Len(t.before) + 3) % BlockLength = 0

(* The progress of the call has its type: the parser's length is -2, -1 or *)
(* a 16-bit number, and of a message that is not empty it holds less than  *)
(* that.                                                                   *)
TypeOK ==
    reading.at = "blocks" =>
        /\ reading.quad \in 1..reading.total /\ reading.total \in Byte
        /\ reading.parser.state \in {"Init", "Length", "Value"}
        /\ reading.parser.length \in Int
        /\ -2 <= reading.parser.length /\ reading.parser.length <= 65535
        /\ reading.parser.length > 0 =>
              Len(reading.parser.data) < reading.parser.length

(* On a tag with nothing but null bytes before its message, read_ndef_text *)
(* returns a text only if it is the one that the message carries, or what  *)
(* TakenForText says of a message with none, however the message falls on  *)
(* the blocks and whatever its flags and lengths claim.  It returns one    *)
(* exactly if the message is such a record, in reach, whose length is not  *)
(* split at its zero byte: there is_done takes the first half of the       *)
(* length for a complete message of length 0.                              *)
ReadsExactlyTheText ==
    reading.at = "finished" /\ OnlyNulls(tag) =>
        /\ IsOk(reading.result) => reading.result.ok \in Readable(tag.message)
        /\ IsOk(reading.result) <=> /\ Readable(tag.message) # {} /\ InReach(tag)
                                   /\ ~LengthSplitAtZero(tag)

(* The block address 4 * quad fits the u8 that mf_read takes (the comment  *)
(* on the clamp in read_ndef_text), and no block behind the memory is      *)
(* asked for.                                                              *)
AddressInRange ==
    reading.at = "blocks" =>
        /\ 4 * reading.quad \in Byte
        /\ BlockLength * reading.quad <= 8 * tag.capability

(* "Incremental parser extracting an NDEF message from a tag's TLV stream" *)
(* (ndef.rs:42): whatever TLV blocks come before the message, a text       *)
(* record in reach is read.                                                *)
ReadsEveryTextTag ==
    reading.at = "finished" /\ InReach(tag) /\ ~LengthSplitAtZero(tag)
        => (Texts(tag.message) # {} => IsOk(reading.result))
=============================================================================
