----------------------------- MODULE ByteStrings -----------------------------
(***************************************************************************)
(* Payloads of PWMTF are sequences of bytes: integers are written big      *)
(* end first in the width of their type, and read back one field after     *)
(* the other by a reader that fails at the first field that is cut short   *)
(* or does not hold one of its legal values (ByteReader, MatchReader,      *)
(* ResultReader and Reader of the code).                                   *)
(*                                                                         *)
(* A field of one or two bytes is read as a number, a wider one as the     *)
(* tuple of its bytes, converted only where the code compares it.          *)
(***************************************************************************)
EXTENDS Integers, Sequences, SequencesExt

Byte == 0 .. 255

Word(width) == [1 .. width -> Byte]

(* to_be_bytes, two's complement. *)
Be(width, n) ==
  [ i \in 1 .. width |->
      IF width - i > 3 THEN (IF n < 0 THEN 255 ELSE 0) ELSE (n \div 256 ^ (width - i)) % 256 ]

Joined(payloads) ==
  LET Upto[i \in 0 .. Len(payloads)] == IF i = 0 THEN << >> ELSE Upto[i - 1] \o payloads[i]
  IN  Upto[Len(payloads)]

Unsigned(bytes) ==
  LET Upto[i \in 0 .. Len(bytes)] == IF i = 0 THEN 0 ELSE 256 * Upto[i - 1] + bytes[i] IN Upto[Len(bytes)]

(* The integer of a field, cut off at 2^24 on either side. *)
Signed(bytes) ==
  LET high == SubSeq(bytes, 1, Len(bytes) - 3)
      low  == Unsigned(SubSeq(bytes, Len(bytes) - 2, Len(bytes)))
  IN CASE \A i \in DOMAIN high : high[i] = 0   -> low
       [] \A i \in DOMAIN high : high[i] = 255 -> low - 16777216
       [] OTHER -> IF bytes[1] < 128 THEN 16777216 ELSE -16777216

-----------------------------------------------------------------------------
(* A field that takes one of the legal numbers, and one that takes any     *)
(* bytes of its width.                                                     *)
Field(name, width, legal) == [name |-> name, width |-> width, legal |-> legal, free |-> FALSE]

Raw(name, width) == [name |-> name, width |-> width, legal |-> {}, free |-> TRUE]

BooleanByte(b) == <<IF b THEN 1 ELSE 0>>

Flag_Lenient(name) == Field(name, 1, Byte)

(* A boolean: any byte but 0 and 1 is refused.                             *)
Flag(name) == Field(name, 1, {0, 1})

(* A reader: the payload, how much of it was read, the fields it got, and  *)
(* whether nothing has failed so far.                                      *)
Reader(bytes) == [bytes |-> bytes, at |-> 0, got |-> <<>>, ok |-> TRUE]

Remaining(r) == Len(r.bytes) - r.at

With(got, name, value) ==
  [n \in DOMAIN got \cup {name} |-> IF n = name THEN value ELSE got[n]]

Take(r, field) ==
  LET raw   == SubSeq(r.bytes, r.at + 1, r.at + field.width)
      value == IF field.width <= 2 THEN Unsigned(raw) ELSE raw
  IN IF ~r.ok \/ Remaining(r) < field.width \/ ~(field.free \/ value \in field.legal)
     THEN [r EXCEPT !.ok = FALSE]
     ELSE [ bytes |-> r.bytes, at |-> r.at + field.width,
            got |-> With(r.got, field.name, value), ok |-> TRUE ]

ReadAll(r, fields) ==
  LET Upto[i \in 0 .. Len(fields)] == IF i = 0 THEN r ELSE Take(Upto[i - 1], fields[i]) IN Upto[Len(fields)]

Finished(r) == r.ok /\ Remaining(r) = 0

Refused == [refused |-> TRUE]
=============================================================================
