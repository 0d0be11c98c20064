-------------------------------- MODULE Scripts --------------------------------
(***************************************************************************)
(* clients/bitcoin: whose output an input of a transaction spends, as      *)
(* vin_to_address guesses it from the input alone.  Scripts are sequences  *)
(* of bytes; a hash is what it is the hash of.                             *)
(***************************************************************************)
EXTENDS Integers, Sequences, SequencesExt

Byte == 0 .. 255

ParsingError == [value |-> -1, length |-> 0]

\* Bytes of the integer after the first, which may be the integer itself.
Width(first) == CASE first = 253 -> 2 [] first = 254 -> 4
                  [] first = 255 -> 8 [] OTHER -> 0

LittleEndian(bytes) == FoldRight(LAMBDA b, high : b + 256 * high, bytes, 0)

ParseCompactUint(varint) ==
  CASE varint = <<>> \/ Len(varint) < 1 + Width(varint[1]) -> ParsingError
    [] Width(varint[1]) = 0 -> [value |-> varint[1], length |-> 1]
    [] OTHER -> LET n == 1 + Width(varint[1]) IN
                [value |-> LittleEndian(SubSeq(varint, 2, n)), length |-> n]

\* The integer at a position, of which only three bytes are looked at: one
\* of 5 or 9 bytes is an error, and so is a position beyond the end.
IntegerAt(script, pos) ==
  LET last == IF pos + 3 < Len(script) THEN pos + 3 ELSE Len(script)
  IN IF pos > last THEN ParsingError
                   ELSE ParseCompactUint(SubSeq(script, pos + 1, last))

NoPayload == [kind |-> "none", hash |-> <<>>]
Payload(kind, bytes) == [kind |-> kind, hash |-> bytes]

\* A script that starts with an empty push is taken for the spending of a
\* script hash, any other for that of a key hash: the first push is skipped
\* and the rest, without its length, is what is hashed.
ScriptAddress(script) ==
  LET start == IF script[1] = 0 THEN 1 ELSE 0
      sig == IntegerAt(script, start)
      next == start + sig.length + sig.value
      rest == IntegerAt(script, next)
  IN IF sig = ParsingError \/ rest = ParsingError
       THEN NoPayload
       ELSE Payload(IF script[1] = 0 THEN "p2sh" ELSE "p2pkh",
                    SubSeq(script, next + rest.length + 1, Len(script)))

\* Wrong: the second length is hashed with the key.
VinToAddressWithLength(vin) ==
  IF Len(vin.witness) >= 2
    THEN Payload("p2wpkh", vin.witness[2])
    ELSE IF vin.script_sig = <<>>
      THEN NoPayload
      ELSE LET sig == IntegerAt(vin.script_sig, 0) IN
           Payload("p2pkh", SubSeq(vin.script_sig, sig.length + sig.value + 1,
                                   Len(vin.script_sig)))

\* NoPayload stands for the error.
VinToAddress(vin) ==
  IF Len(vin.witness) >= 2
    THEN Payload("p2wpkh", vin.witness[2])
    ELSE IF vin.script_sig = <<>> THEN NoPayload ELSE ScriptAddress(vin.script_sig)
=============================================================================
