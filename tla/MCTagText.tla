----------------------------- MODULE MCTagText -----------------------------
(* Instances of TagText for TLC. *)
EXTENDS TagText

Repeat(byte, n) == [i \in 1..n |-> byte]

(* Text records: short or long form, with and without an ID, and payloads  *)
(* with no byte, an empty text, a text of one byte and no language code, a *)
(* language code and a text, a language code longer than the payload, a    *)
(* text of one character in two bytes, a text marked as UTF-16.            *)
TextRecords ==
    {<<IF short THEN 193 + id[1] + 16 ELSE 193 + id[1], 1>>
       \o (IF short THEN <<Len(payload)>> ELSE <<0, 0, 0, Len(payload)>>)
       \o id[2] \o <<84>> \o id[3] \o payload :
        short \in BOOLEAN,
        id \in {<<0, <<>>, <<>>>>, <<8, <<0>>, <<>>>>, <<8, <<1>>, <<120>>>>},
        payload \in {<<>>, <<2, 101, 110>>, <<0, 97>>, <<2, 101, 110, 97>>, <<63>>,
                     <<0, 195, 169>>, <<130, 101, 110, 97>>}}

(* Short records whose texts are characters of two to four bytes, and what *)
(* only looks like one: a character cut short, a continuation byte on its  *)
(* own, overlong forms, a surrogate, a number beyond the last code point,  *)
(* and two bytes of UTF-16 that are no UTF-8.                              *)
EncodedRecords ==
    {<<209, 1, Len(payload), 84>> \o payload :
        payload \in {<<2, 101, 110, 195, 169>>, <<0, 226, 130, 172>>,
                     <<0, 237, 159, 191>>, <<0, 240, 159, 152, 128, 97>>,
                     <<0, 195>>, <<0, 97, 169>>, <<0, 195, 169, 169>>,
                     <<0, 192, 128>>, <<0, 224, 128, 128>>,
                     <<0, 237, 160, 128>>, <<0, 244, 144, 128, 128>>,
                     <<128, 0, 233>>}}

(* Their neighbours: cut short, or with one byte replaced.                 *)
DamagedRecords ==
    UNION {{SubSeq(r, 1, n) : n \in 0..(Len(r) - 1)}
           \union {[r EXCEPT ![i] = b] :
                      i \in DOMAIN r, b \in {0, 1, 2, 3, 24, 209, 241, 255}} :
            r \in TextRecords}

(* A long record with n bytes in all.                                      *)
LongRecord(n) ==
    <<193, 1, 0, 0, (n - 7) \div 256, (n - 7) % 256, 84, 2, 101, 110>>
        \o Repeat(97, n - 10)

Tag(capability, before, message) ==
    [capability |-> capability, before |-> before, message |-> message]

(* Null bytes and a message, on tags where it fits, where its end is out   *)
(* of reach (an odd capability, more than 63 blocks) and where it starts   *)
(* too late.                                                               *)
NullTags ==
    {Tag(c, Repeat(0, n), m) : c \in {6, 7}, n \in {0, 11, 28}, m \in TextRecords}
    \union {Tag(4, Repeat(0, n), m) : n \in {3, 12}, m \in DamagedRecords}
    \union {Tag(4, <<>>, m) : m \in EncodedRecords}
    \union {Tag(5, Repeat(0, n), <<209, 1, 4, 84, 2, 101, 110, 97>>) : n \in 0..30}
    \union {Tag(8, Repeat(0, n), <<209, 1, 4, 84, 2, 101, 110, 97>>) : n \in 30..34}
    \union {Tag(40, Repeat(0, n), LongRecord(l)) : n \in 8..16, l \in {254, 255, 300}}
    \union {Tag(c, <<0>>, LongRecord(1030)) : c \in {160, 255}}
    \union {Tag(1, <<>>, <<209>>)}

(* A lock control block before the message, as tags with 144 bytes leave   *)
(* the factory.                                                            *)
ControlTags ==
    {Tag(18, <<1, 3, 160, 12, 52>>, <<209, 1, 4, 84, 2, 101, 110, 97>>)}
=============================================================================
