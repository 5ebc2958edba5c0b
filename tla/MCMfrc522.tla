----------------------------- MODULE MCMfrc522 -----------------------------
(***************************************************************************)
(* An instance of Mfrc522 for TLC: two cards with text records of twelve   *)
(* bytes, which lie in two blocks and differ in every byte.                *)
(***************************************************************************)
EXTENDS Mfrc522, TLC

CONSTANTS k1, k2

Message(byte) ==
    <<3, 17, 209, 1, 13, 84, 0>> \o [i \in 1..12 |-> byte]
        \o <<254>> \o [i \in 1..12 |-> 0]

MCCapability == [card \in Cards |-> 4]

MCContents == (k1 :> Message(97)) @@ (k2 :> Message(98))
=============================================================================
