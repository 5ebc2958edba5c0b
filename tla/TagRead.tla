------------------------------ MODULE TagRead ------------------------------
(***************************************************************************)
(* read_ndef_text of the MFRC522 adapter (nfc/mfrc522.rs): it reads the    *)
(* capability container and then the memory of the tag block by block,     *)
(* until the message is complete.  Every mf_read is a step of its own,     *)
(* because the tag can leave the reader between two of them.  The variable *)
(* `reading` is the progress of the call.                                  *)
(***************************************************************************)
EXTENDS Ndef

CONSTANT BlockLength   \* bytes that mf_read returns

ASSUME BlockAssumption == BlockLength = 16

VARIABLE reading

NotReading == [at |-> "idle"]

(* Mutant: without the clamp.                                              *)
UnclampedQuads(capability) == ((capability * 8) \div 4) \div 4

(* The block address 4 * quad is a u8; the clamp to 63 keeps it in range.  *)
TotalQuads(capability) ==
    LET quads == ((capability * 8) \div 4) \div 4
    IN  IF quads < 63 THEN quads ELSE 63

Finished(result) == [at |-> "finished", result |-> result]

(* The end of read_ndef_text, once the loop is left with a complete        *)
(* message.                                                                *)
TextOf(parser) ==
    LET record == ParseTextRecord(parser.data)
    IN  IF IsOk(record) THEN Text(record.ok) ELSE record

StartRead == reading' = [at |-> "capability"]

(* The loop is entered only if there is a block to read.                   *)
ReadCapability(capability) ==
    /\ reading.at = "capability"
    /\ reading' = IF TotalQuads(capability) = 0 THEN Finished(Err("Incomplete"))
                  ELSE [at |-> "blocks", quad |-> 1, parser |-> NewParser,
                        total |-> TotalQuads(capability)]

(* One turn of the loop, with the block mf_read(4 * quad) returned.        *)
ReadBlock(block) ==
    /\ reading.at = "blocks"
    /\ LET parser == AddData(reading.parser, block)
       IN  reading' =
             IF IsDone(parser) THEN Finished(TextOf(parser))
             ELSE IF reading.quad = 2 /\ ~HasStarted(parser)
                  THEN Finished(Err("NoMessage"))
             ELSE IF reading.quad = reading.total THEN Finished(Err("Incomplete"))
             ELSE [reading EXCEPT !.quad = @ + 1, !.parser = parser]

(* An mf_read that fails ends the call.                                    *)
ReadFails ==
    /\ reading.at \in {"capability", "blocks"}
    /\ reading' = Finished(Err("ReadFailed"))

(* The block that the loop asks a tag for: the bytes of its memory behind  *)
(* the capability container, from 16 * (quad - 1) on.                      *)
BlockOf(memory, quad) ==
    SubSeq(memory, BlockLength * (quad - 1) + 1, BlockLength * quad)
=============================================================================
