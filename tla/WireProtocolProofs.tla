-------------------------- MODULE WireProtocolProofs --------------------------
(***************************************************************************)
(* Frames and tables are read as they were written: the reader of the      *)
(* server gets out of the bytes of an envelope the envelope the browser    *)
(* put in, the reader of the browser the snapshot the server sent, and     *)
(* from_bytes the table that to_bytes wrote.                               *)
(***************************************************************************)
EXTENDS WireProtocol, TableCodec, FiniteSetTheorems, WellFoundedInduction, TLAPS

-----------------------------------------------------------------------------
(* Recursive functions on the numbers up to the length of a sequence.      *)

(* A set of numbers that contains 0 and each next number contains them all. *)
LEMMA Upwards ==
  ASSUME NEW T, T \subseteq Nat, 0 \in T, \A n \in T : n + 1 \in T
  PROVE  T = Nat
<1> SUFFICES ASSUME Nat \ T # {}
             PROVE  FALSE
  OBVIOUS
<1> DEFINE R == OpToRel(<, Nat)
           S == Nat \ T
<1>1. IsWellFoundedOn(R, Nat)
  BY NatLessThanWellFounded
<1>2. \A x, y \in Nat : y < x => <<y, x>> \in R
  BY DEF OpToRel
<1>3. S \subseteq Nat /\ S # {}
  OBVIOUS
<1> HIDE DEF R, S
<1>4. PICK n \in S : \A m \in S : ~(<<m, n>> \in R)
  BY <1>1, <1>3, WFMin
<1> DEFINE p == n - 1
<1>5. n \in Nat /\ n # 0 /\ p \in Nat /\ p < n /\ p + 1 = n
  BY <1>4 DEF S
<1>6. <<p, n>> \in R
  BY <1>2, <1>5
<1>7. p \in T
  BY <1>4, <1>5, <1>6 DEF S
<1>8. p + 1 \in T
  BY <1>7
<1> QED
  BY <1>4, <1>5, <1>8 DEF S

(* A reader takes one field after the other. *)
LEMMA ReadAllByStep ==
  ASSUME NEW r, NEW fields, Len(fields) \in Nat
  PROVE  \E u : /\ u[0] = r
                /\ \A i \in 1 .. Len(fields) : u[i] = Take(u[i - 1], fields[i])
                /\ ReadAll(r, fields) = u[Len(fields)]
<1> DEFINE Step(u, n) == u = [i \in 0 .. n |-> IF i = 0 THEN r ELSE Take(u[i - 1], fields[i])]
           T == {n \in Nat : \E u : Step(u, n)}
<1>1. 0 \in T
  <2> DEFINE g == [i \in 0 .. 0 |-> r]
  <2>1. Step(g, 0)
    OBVIOUS
  <2> QED
    BY <2>1
<1>2. ASSUME NEW n \in T
      PROVE  n + 1 \in T
  <2>1. PICK u : Step(u, n)
    OBVIOUS
  <2> DEFINE g == [i \in 0 .. n + 1 |-> IF i = n + 1 THEN Take(u[n], fields[n + 1]) ELSE u[i]]
  <2>2. n \in Nat
    OBVIOUS
  <2>3. ASSUME NEW i \in 0 .. n + 1
        PROVE  g[i] = IF i = 0 THEN r ELSE Take(g[i - 1], fields[i])
    <3>1. CASE i = n + 1
      BY <2>2, <3>1
    <3>2. CASE i \in 0 .. n
      <4>1. u[i] = IF i = 0 THEN r ELSE Take(u[i - 1], fields[i])
        BY <2>1, <3>2
      <4>2. g[i] = u[i] /\ (i # 0 => g[i - 1] = u[i - 1])
        BY <2>2, <3>2
      <4> QED
        BY <4>1, <4>2
    <3> QED
      BY <2>2, <3>1, <3>2
  <2>4. Step(g, n + 1)
    BY <2>2, <2>3
  <2>5. n + 1 \in Nat
    BY <2>2
  <2> HIDE DEF Step, g
  <2> QED
    BY <2>4, <2>5
<1>3. T = Nat
  <2> HIDE DEF T
  <2>1. T \subseteq Nat
    BY DEF T
  <2> QED
    BY <1>1, <1>2, <2>1, Upwards
<1>4. \E u : Step(u, Len(fields))
  BY <1>3
<1> DEFINE U == CHOOSE u : Step(u, Len(fields))
<1>5. Step(U, Len(fields))
  BY <1>4, Zenon
<1>6. ReadAll(r, fields) = U[Len(fields)]
  BY DEF ReadAll
<1> HIDE DEF U
<1>7. /\ U[0] = r
      /\ \A i \in 1 .. Len(fields) : U[i] = Take(U[i - 1], fields[i])
  BY <1>5
<1> QED
  BY <1>6, <1>7

(* The number that one and two bytes stand for. *)
LEMMA UnsignedByStep ==
  ASSUME NEW bytes, Len(bytes) \in {1, 2}, \A i \in 1 .. Len(bytes) : bytes[i] \in Int
  PROVE  Unsigned(bytes) = IF Len(bytes) = 1 THEN bytes[1] ELSE 256 * bytes[1] + bytes[2]
<1> DEFINE Step(u) == u = [i \in 0 .. Len(bytes) |-> IF i = 0 THEN 0 ELSE 256 * u[i - 1] + bytes[i]]
           g == [i \in 0 .. Len(bytes) |->
                   IF i = 0 THEN 0 ELSE IF i = 1 THEN bytes[1] ELSE 256 * bytes[1] + bytes[2]]
<1>1. ASSUME NEW i \in 0 .. Len(bytes)
      PROVE  g[i] = IF i = 0 THEN 0 ELSE 256 * g[i - 1] + bytes[i]
  <2>1. CASE i = 0
    BY <2>1
  <2>2. CASE i = 1
    BY <2>2
  <2>3. CASE i = 2
    BY <2>3
  <2> QED
    BY <2>1, <2>2, <2>3
<1>2. Step(g)
  BY <1>1
<1> DEFINE U == CHOOSE u : Step(u)
<1>3. Step(U)
  BY <1>2, Zenon
<1>4. Unsigned(bytes) = U[Len(bytes)]
  BY DEF Unsigned
<1> HIDE DEF U
<1>5. U[0] = 0 /\ U[1] = 256 * U[0] + bytes[1]
  BY <1>3
<1>6. Len(bytes) = 2 => U[2] = 256 * U[1] + bytes[2]
  BY <1>3
<1> QED
  BY <1>4, <1>5, <1>6

-----------------------------------------------------------------------------
(* Bytes and where they are.                                               *)

(* raw begins after the first at bytes. *)
Holds(bytes, at, raw) ==
  /\ at + Len(raw) <= Len(bytes)
  /\ \A i \in 1 .. Len(raw) : bytes[at + i] = raw[i]

LEMMA WordLength ==
  ASSUME NEW width \in Nat, NEW w \in Word(width)
  PROVE  Len(w) = width /\ w \in Seq(Byte) /\ \A i \in 1 .. width : w[i] \in Byte
<1>1. \A i \in 1 .. width : w[i] \in Byte
  BY DEF Word
<1>2. w = [i \in 1 .. width |-> w[i]]
  BY DEF Word
<1> DEFINE s == [i \in 1 .. width |-> w[i]]
<1>3. s \in Seq(Byte) /\ Len(s) = width
  BY <1>1
<1> QED
  BY <1>1, <1>2, <1>3

LEMMA HoldsAll ==
  ASSUME NEW x \in Seq(Byte)
  PROVE  Holds(x, 0, x)
BY DEF Holds

LEMMA HoldsBefore ==
  ASSUME NEW x \in Seq(Byte), NEW y \in Seq(Byte), NEW raw, Len(raw) \in Nat, NEW at \in Nat,
         Holds(x, at, raw)
  PROVE  Holds(x \o y, at, raw)
<1>1. Len(x) \in Nat /\ Len(y) \in Nat /\ Len(x \o y) = Len(x) + Len(y)
  OBVIOUS
<1>2. ASSUME NEW i \in 1 .. Len(raw)
      PROVE  (x \o y)[at + i] = raw[i]
  <2>1. at + i \in 1 .. Len(x)
    BY <1>1 DEF Holds
  <2>2. (x \o y)[at + i] = x[at + i]
    BY <2>1
  <2> QED
    BY <2>2 DEF Holds
<1> QED
  BY <1>1, <1>2 DEF Holds

LEMMA HoldsAfter ==
  ASSUME NEW x \in Seq(Byte), NEW y \in Seq(Byte)
  PROVE  Holds(x \o y, Len(x), y)
<1>1. Len(x) \in Nat /\ Len(y) \in Nat /\ Len(x \o y) = Len(x) + Len(y)
  OBVIOUS
<1>2. ASSUME NEW i \in 1 .. Len(y)
      PROVE  (x \o y)[Len(x) + i] = y[i]
  BY <1>1, <1>2
<1> QED
  BY <1>1, <1>2 DEF Holds

LEMMA HoldsWithin ==
  ASSUME NEW x, NEW y, NEW raw, Len(x) \in Nat, Len(y) \in Nat, Len(raw) \in Nat,
         NEW at \in Nat, NEW within \in Nat, Holds(x, at, y), Holds(y, within, raw)
  PROVE  Holds(x, at + within, raw)
<1>1. ASSUME NEW i \in 1 .. Len(raw)
      PROVE  x[at + within + i] = raw[i]
  <2>1. within + i \in 1 .. Len(y)
    BY DEF Holds
  <2>2. x[at + (within + i)] = y[within + i]
    BY <2>1 DEF Holds
  <2> QED
    BY <2>2 DEF Holds
<1> QED
  BY <1>1 DEF Holds

-----------------------------------------------------------------------------
(* Integers as bytes.                                                      *)

LEMMA BeType ==
  ASSUME NEW width \in Nat, NEW n \in Int
  PROVE  Be(width, n) \in Word(width)
<1> SUFFICES ASSUME NEW i \in 1 .. width
             PROVE  (IF width - i > 3 THEN (IF n < 0 THEN 255 ELSE 0)
                     ELSE (n \div 256 ^ (width - i)) % 256) \in Byte
  BY DEF Be, Word
<1>1. CASE width - i > 3
  BY <1>1 DEF Byte
<1>2. CASE width - i <= 3
  <2> DEFINE k == width - i
             d == 256 ^ k
  <2>1. k \in 0 .. 3
    BY <1>2
  <2> HIDE DEF k
  <2>2. 256 ^ 0 = 1 /\ 256 ^ 1 = 256 /\ 256 ^ 2 = 65536 /\ 256 ^ 3 = 16777216
    OBVIOUS
  <2>3. k = 0 \/ k = 1 \/ k = 2 \/ k = 3
    BY <2>1
  <2>4. d \in Nat /\ d > 0
    <3>1. CASE k = 0
      BY <2>2, <3>1
    <3>2. CASE k = 1
      BY <2>2, <3>2
    <3>3. CASE k = 2
      BY <2>2, <3>3
    <3>4. CASE k = 3
      BY <2>2, <3>4
    <3> QED
      BY <2>3, <3>1, <3>2, <3>3, <3>4
  <2> HIDE DEF d
  <2>5. n \div d \in Int
    BY <2>4
  <2>6. (n \div d) % 256 \in Byte
    BY <2>5 DEF Byte
  <2> QED
    BY <1>2, <2>6 DEF d, k
<1> QED
  BY <1>1, <1>2

LEMMA BeTwo ==
  ASSUME NEW n \in Int
  PROVE  Be(2, n)[1] = (n \div 256) % 256 /\ Be(2, n)[2] = n % 256
<1>1. 256 ^ 0 = 1 /\ 256 ^ 1 = 256
  OBVIOUS
<1>2. Be(2, n)[1] = (n \div 256 ^ 1) % 256 /\ Be(2, n)[2] = (n \div 256 ^ 0) % 256
  BY DEF Be
<1> QED
  BY <1>1, <1>2

(* The integer that n is taken for. *)
Sixteen(n) == 256 * ((n \div 256) % 256) + (n % 256)

LEMMA TwoBytes ==
  ASSUME NEW n \in Int
  PROVE  Unsigned(Be(2, n)) = Sixteen(n)
<1> DEFINE b == Be(2, n)
<1>1. b \in Word(2)
  BY BeType
<1>2. b[1] = (n \div 256) % 256 /\ b[2] = n % 256
  BY BeTwo
<1> HIDE DEF b
<1>3. Len(b) = 2 /\ \A i \in 1 .. 2 : b[i] \in Int
  <2>1. Len(b) = 2 /\ \A i \in 1 .. 2 : b[i] \in Byte
    BY <1>1, WordLength
  <2> QED
    BY <2>1 DEF Byte
<1>4. Unsigned(b) = 256 * b[1] + b[2]
  BY <1>3, UnsignedByStep
<1>5. Unsigned(b) = Sixteen(n)
  BY <1>2, <1>4 DEF Sixteen
<1> QED
  BY <1>5 DEF b

(* Two bytes hold every unsigned number below 65536, and every signed one  *)
(* between -32768 and 32767.                                               *)
LEMMA SixteenBits ==
  ASSUME NEW n \in Int, 32768 + n >= 0, n < 65536
  PROVE  Sixteen(n) = IF n < 0 THEN n + 65536 ELSE n
<1> DEFINE high == n \div 256
           low  == n % 256
<1>1. high \in Int /\ low \in 0 .. 255 /\ n = 256 * high + low
  OBVIOUS
<1>2. Sixteen(n) = 256 * (high % 256) + low
  BY DEF Sixteen
<1> HIDE DEF high, low
<1>3. CASE n < 0
  <2>1. high + 128 >= 0 /\ high < 0
    BY <1>1, <1>3
  <2>2. high % 256 = high + 256
    BY <1>1, <2>1
  <2> QED
    BY <1>1, <1>2, <1>3, <2>2
<1>4. CASE n >= 0
  <2>1. high >= 0 /\ high < 256
    BY <1>1, <1>4
  <2>2. high % 256 = high
    BY <1>1, <2>1
  <2> QED
    BY <1>1, <1>2, <1>4, <2>2
<1> QED
  BY <1>3, <1>4

LEMMA OneByte ==
  ASSUME NEW n \in Byte
  PROVE  Unsigned(<<n>>) = n
BY UnsignedByStep DEF Byte

-----------------------------------------------------------------------------
(* Reading fields.                                                         *)

(* A reader that has got something without a failure. *)
Got(bytes, at, got) == [bytes |-> bytes, at |-> at, got |-> got, ok |-> TRUE]

(* The bytes a field has read. *)
LEMMA HoldsSlice ==
  ASSUME NEW bytes \in Seq(Byte), NEW at \in Nat, NEW raw \in Seq(Byte), Holds(bytes, at, raw)
  PROVE  SubSeq(bytes, at + 1, at + Len(raw)) = raw
<1> DEFINE s == SubSeq(bytes, at + 1, at + Len(raw))
<1>1. Len(raw) \in Nat /\ Len(bytes) \in Nat /\ at + Len(raw) <= Len(bytes)
  BY DEF Holds
<1>2. s \in Seq(Byte) /\ Len(s) = Len(raw)
  BY <1>1
<1>3. ASSUME NEW i \in 1 .. Len(raw)
      PROVE  s[i] = raw[i]
  <2>1. s[i] = bytes[at + i]
    BY <1>1
  <2> QED
    BY <2>1 DEF Holds
<1> HIDE DEF s
<1>4. s = raw
  BY <1>2, <1>3
<1> QED
  BY <1>4 DEF s

Value(raw) == IF Len(raw) <= 2 THEN Unsigned(raw) ELSE raw

Fits(raw, field) == field.free \/ Value(raw) \in field.legal

(* A field that holds what it may hold is taken. *)
LEMMA TakeHolds ==
  ASSUME NEW bytes \in Seq(Byte), NEW at \in Nat, NEW got, NEW field, NEW raw \in Seq(Byte),
         Holds(bytes, at, raw), field.width = Len(raw),
         Fits(raw, field)
  PROVE  Take(Got(bytes, at, got), field) = Got(bytes, at + Len(raw), With(got, field.name, Value(raw)))
<1> DEFINE r == Got(bytes, at, got)
<1>1. r.bytes = bytes /\ r.at = at /\ r.got = got /\ r.ok = TRUE
  BY DEF Got
<1> HIDE DEF r
<1>2. SubSeq(r.bytes, r.at + 1, r.at + field.width) = raw
  BY <1>1, HoldsSlice
<1>3. ~(Remaining(r) < field.width)
  BY <1>1 DEF Remaining, Holds
<1>4. Take(r, field) = [ bytes |-> r.bytes, at |-> r.at + field.width,
                         got |-> With(r.got, field.name, Value(raw)), ok |-> TRUE ]
  BY <1>1, <1>2, <1>3 DEF Take, Value, Fits
<1>5. Take(r, field) = Got(bytes, at + Len(raw), With(got, field.name, Value(raw)))
  BY <1>1, <1>4 DEF Got
<1> QED
  BY <1>5 DEF r

(* A number of two bytes, and bytes that are kept as they are. *)
LEMMA TakeNumber ==
  ASSUME NEW bytes \in Seq(Byte), NEW at \in Nat, NEW got, NEW name, NEW legal,
         NEW n \in Int, Holds(bytes, at, Be(2, n)), Sixteen(n) \in legal
  PROVE  Take(Got(bytes, at, got), Field(name, 2, legal)) = Got(bytes, at + 2, With(got, name, Sixteen(n)))
<1> DEFINE raw == Be(2, n)
           field == Field(name, 2, legal)
<1>1. raw \in Word(2)
  BY BeType
<1>2. Unsigned(raw) = Sixteen(n)
  BY TwoBytes
<1>3. field.name = name /\ field.width = 2 /\ field.legal = legal
  BY DEF Field
<1>4. Holds(bytes, at, raw)
  OBVIOUS
<1> HIDE DEF raw, field
<1>5. raw \in Seq(Byte)
  BY <1>1, WordLength
<1>6. Len(raw) = 2
  BY <1>1, WordLength
<1>7. Value(raw) = Sixteen(n)
  BY <1>2, <1>6 DEF Value
<1>8. field.width = Len(raw) /\ Fits(raw, field)
  BY <1>3, <1>6, <1>7 DEF Fits
<1>9. Take(Got(bytes, at, got), field) = Got(bytes, at + Len(raw), With(got, field.name, Value(raw)))
  BY <1>4, <1>5, <1>8, TakeHolds
<1>10. Take(Got(bytes, at, got), field) = Got(bytes, at + 2, With(got, name, Sixteen(n)))
  BY <1>3, <1>6, <1>7, <1>9
<1> QED
  BY <1>10 DEF field

LEMMA TakeByte ==
  ASSUME NEW bytes \in Seq(Byte), NEW at \in Nat, NEW got, NEW name, NEW legal,
         NEW n \in Byte, Holds(bytes, at, <<n>>), n \in legal
  PROVE  Take(Got(bytes, at, got), Field(name, 1, legal)) = Got(bytes, at + 1, With(got, name, n))
<1> DEFINE raw == <<n>>
           field == Field(name, 1, legal)
<1>1. raw \in Seq(Byte)
  OBVIOUS
<1>2. Len(raw) = 1 /\ Unsigned(raw) = n
  BY OneByte
<1>3. field.name = name /\ field.width = 1 /\ field.legal = legal
  BY DEF Field
<1>4. Holds(bytes, at, raw)
  OBVIOUS
<1> HIDE DEF raw, field
<1>5. Value(raw) = n
  BY <1>2 DEF Value
<1>6. field.width = Len(raw) /\ Fits(raw, field)
  BY <1>2, <1>3, <1>5 DEF Fits
<1>7. Take(Got(bytes, at, got), field) = Got(bytes, at + Len(raw), With(got, field.name, Value(raw)))
  BY <1>1, <1>4, <1>6, TakeHolds
<1>8. Take(Got(bytes, at, got), field) = Got(bytes, at + 1, With(got, name, n))
  BY <1>2, <1>3, <1>5, <1>7
<1> QED
  BY <1>8 DEF field

LEMMA TakeRaw ==
  ASSUME NEW bytes \in Seq(Byte), NEW at \in Nat, NEW got, NEW name, NEW width \in Nat, width > 2,
         NEW raw \in Word(width), Holds(bytes, at, raw)
  PROVE  Take(Got(bytes, at, got), Raw(name, width)) = Got(bytes, at + width, With(got, name, raw))
<1> DEFINE field == Raw(name, width)
<1>1. field.name = name /\ field.width = width /\ field.free = TRUE
  BY DEF Raw
<1> HIDE DEF field
<1>2. raw \in Seq(Byte) /\ Len(raw) = width
  BY WordLength
<1>3. Value(raw) = raw
  BY <1>2 DEF Value
<1>4. field.width = Len(raw) /\ Fits(raw, field)
  BY <1>1, <1>2 DEF Fits
<1>5. Take(Got(bytes, at, got), field) = Got(bytes, at + Len(raw), With(got, field.name, Value(raw)))
  BY <1>2, <1>4, TakeHolds
<1>6. Take(Got(bytes, at, got), field) = Got(bytes, at + width, With(got, name, raw))
  BY <1>1, <1>2, <1>3, <1>5
<1> QED
  BY <1>6 DEF field

(* A reader that failed stays failed.                                      *)
LEMMA FailedOnce ==
  ASSUME NEW r, "ok" \in DOMAIN r, NEW field
  PROVE  "ok" \in DOMAIN Take(r, field) /\ (~r.ok => ~Take(r, field).ok)
<1> DEFINE failed == [r EXCEPT !.ok = FALSE]
           raw    == SubSeq(r.bytes, r.at + 1, r.at + field.width)
           value  == IF field.width <= 2 THEN Unsigned(raw) ELSE raw
           stops  == ~r.ok \/ Remaining(r) < field.width \/ ~(field.free \/ value \in field.legal)
           taken  == [ bytes |-> r.bytes, at |-> r.at + field.width,
                       got |-> With(r.got, field.name, value), ok |-> TRUE ]
<1>1. Take(r, field) = IF stops THEN failed ELSE taken
  BY DEF Take
<1>2. "ok" \in DOMAIN failed /\ failed.ok = FALSE /\ "ok" \in DOMAIN taken
  OBVIOUS
<1>3. ~r.ok => stops
  OBVIOUS
<1> HIDE DEF failed, stops, taken
<1> QED
  BY <1>1, <1>2, <1>3

(* A field that was taken was there, and held what it may hold.            *)
LEMMA TakenFits ==
  ASSUME NEW bytes, NEW at, NEW got, NEW field, Take(Got(bytes, at, got), field).ok
  PROVE  /\ ~(Len(bytes) - at < field.width)
         /\ LET raw == SubSeq(bytes, at + 1, at + field.width)
            IN  field.free \/ (IF field.width <= 2 THEN Unsigned(raw) ELSE raw) \in field.legal
<1> DEFINE r      == Got(bytes, at, got)
           failed == [r EXCEPT !.ok = FALSE]
           raw    == SubSeq(r.bytes, r.at + 1, r.at + field.width)
           value  == IF field.width <= 2 THEN Unsigned(raw) ELSE raw
           stops  == ~r.ok \/ Remaining(r) < field.width \/ ~(field.free \/ value \in field.legal)
<1>1. r.bytes = bytes /\ r.at = at /\ "ok" \in DOMAIN r
  BY DEF Got
<1> HIDE DEF r
<1>2. stops => Take(r, field) = failed
  BY DEF Take
<1>3. failed.ok = FALSE
  BY <1>1
<1> HIDE DEF failed
<1>4. ~stops
  <2>1. Take(r, field).ok
    BY DEF r
  <2> QED
    BY <1>2, <1>3, <2>1
<1>5. Remaining(r) = Len(bytes) - at
  BY <1>1 DEF Remaining
<1>6. ~(Len(bytes) - at < field.width) /\ (field.free \/ value \in field.legal)
  <2> HIDE DEF value
  <2> QED
    BY <1>4, <1>5
<1>7. value = LET w == SubSeq(bytes, at + 1, at + field.width) IN IF field.width <= 2 THEN Unsigned(w) ELSE w
  BY <1>1
<1> HIDE DEF value
<1> QED
  BY <1>6, <1>7

(* Two, four and five fields in a row. *)
LEMMA ReadTwo ==
  ASSUME NEW r, NEW f, NEW g
  PROVE  ReadAll(r, <<f, g>>) = Take(Take(r, f), g)
<1> DEFINE fields == <<f, g>>
<1>1. Len(fields) \in Nat /\ Len(fields) >= 2 /\ Len(fields) <= 2 /\ fields[1] = f /\ fields[2] = g
  OBVIOUS
<1> HIDE DEF fields
<1>2. PICK u : /\ u[0] = r
               /\ \A i \in 1 .. Len(fields) : u[i] = Take(u[i - 1], fields[i])
               /\ ReadAll(r, fields) = u[Len(fields)]
  <2>1. Len(fields) \in Nat
    BY <1>1
  <2> QED
    BY <2>1, ReadAllByStep
<1>3. u[1] = Take(u[0], f)
  BY <1>1, <1>2
<1>4. u[2] = Take(u[1], g)
  BY <1>1, <1>2
<1>5. ReadAll(r, fields) = u[2]
  BY <1>1, <1>2
<1>6. ReadAll(r, fields) = Take(Take(r, f), g)
  BY <1>2, <1>3, <1>4, <1>5
<1> QED
  BY <1>6 DEF fields

LEMMA ReadFour ==
  ASSUME NEW r, NEW f, NEW g, NEW h, NEW j
  PROVE  ReadAll(r, <<f, g, h, j>>) = Take(Take(Take(Take(r, f), g), h), j)
<1> DEFINE fields == <<f, g, h, j>>
<1>1. /\ Len(fields) \in Nat /\ Len(fields) >= 4 /\ Len(fields) <= 4
      /\ fields[1] = f /\ fields[2] = g /\ fields[3] = h /\ fields[4] = j
  OBVIOUS
<1> HIDE DEF fields
<1>2. PICK u : /\ u[0] = r
               /\ \A i \in 1 .. Len(fields) : u[i] = Take(u[i - 1], fields[i])
               /\ ReadAll(r, fields) = u[Len(fields)]
  <2>1. Len(fields) \in Nat
    BY <1>1
  <2> QED
    BY <2>1, ReadAllByStep
<1>3. u[1] = Take(u[0], f)
  BY <1>1, <1>2
<1>4. u[2] = Take(u[1], g)
  BY <1>1, <1>2
<1>5. u[3] = Take(u[2], h)
  BY <1>1, <1>2
<1>6. u[4] = Take(u[3], j)
  BY <1>1, <1>2
<1>7. ReadAll(r, fields) = u[4]
  BY <1>1, <1>2
<1>8. ReadAll(r, fields) = Take(Take(Take(Take(r, f), g), h), j)
  BY <1>2, <1>3, <1>4, <1>5, <1>6, <1>7
<1> QED
  BY <1>8 DEF fields

LEMMA ReadFive ==
  ASSUME NEW r, NEW f, NEW g, NEW h, NEW j, NEW k
  PROVE  ReadAll(r, <<f, g, h, j, k>>) = Take(Take(Take(Take(Take(r, f), g), h), j), k)
<1> DEFINE fields == <<f, g, h, j, k>>
<1>1. /\ Len(fields) \in Nat /\ Len(fields) >= 5 /\ Len(fields) <= 5
      /\ fields[1] = f /\ fields[2] = g /\ fields[3] = h /\ fields[4] = j /\ fields[5] = k
  OBVIOUS
<1> HIDE DEF fields
<1>2. PICK u : /\ u[0] = r
               /\ \A i \in 1 .. Len(fields) : u[i] = Take(u[i - 1], fields[i])
               /\ ReadAll(r, fields) = u[Len(fields)]
  <2>1. Len(fields) \in Nat
    BY <1>1
  <2> QED
    BY <2>1, ReadAllByStep
<1>3. u[1] = Take(u[0], f)
  BY <1>1, <1>2
<1>4. u[2] = Take(u[1], g)
  BY <1>1, <1>2
<1>5. u[3] = Take(u[2], h)
  BY <1>1, <1>2
<1>6. u[4] = Take(u[3], j)
  BY <1>1, <1>2
<1>7. u[5] = Take(u[4], k)
  BY <1>1, <1>2
<1>8. ReadAll(r, fields) = u[5]
  BY <1>1, <1>2
<1>9. ReadAll(r, fields) = Take(Take(Take(Take(Take(r, f), g), h), j), k)
  BY <1>2, <1>3, <1>4, <1>5, <1>6, <1>7, <1>8
<1> QED
  BY <1>9 DEF fields

-----------------------------------------------------------------------------
(* Payloads in parts.                                                      *)

LEMMA AddPart ==
  ASSUME NEW l \in Nat, NEW k \in Nat, NEW w \in Word(l), NEW x \in Word(k)
  PROVE  /\ l + k \in Nat
         /\ w \o x \in Word(l + k)
         /\ Holds(w \o x, 0, w)
         /\ Holds(w \o x, l, x)
         /\ \A at \in Nat, j \in Nat : \A raw \in Word(j) : Holds(w, at, raw) => Holds(w \o x, at, raw)
<1>1. w \in Seq(Byte) /\ x \in Seq(Byte) /\ Len(w) = l /\ Len(x) = k
  BY WordLength
<1>2. w \o x \in Word(l + k)
  <2>1. w \o x \in Seq(Byte) /\ Len(w \o x) = l + k
    BY <1>1
  <2> DEFINE v == w \o x
  <2> HIDE DEF v
  <2>2. v \in Seq(Byte) /\ Len(v) = l + k => v \in [1 .. l + k -> Byte]
    OBVIOUS
  <2> QED
    BY <2>1, <2>2 DEF Word, v
<1>3. Holds(w \o x, Len(w), x)
  BY <1>1, HoldsAfter
<1>4. ASSUME NEW at \in Nat, NEW j \in Nat, NEW raw \in Word(j), Holds(w, at, raw)
      PROVE  Holds(w \o x, at, raw)
  <2>1. Len(raw) = j
    BY WordLength
  <2> QED
    BY <1>1, <1>4, <2>1, HoldsBefore
<1>5. Holds(w, 0, w)
  BY <1>1, HoldsAll
<1>6. Holds(w \o x, 0, w)
  BY <1>4, <1>5
<1> QED
  BY <1>1, <1>2, <1>3, <1>4, <1>6

LEMMA ThreeParts ==
  ASSUME NEW la \in Nat, NEW lb \in Nat, NEW lc \in Nat,
         NEW a \in Word(la), NEW b \in Word(lb), NEW c \in Word(lc)
  PROVE  LET w == a \o b \o c IN
           /\ w \in Word(la + lb + lc)
           /\ Holds(w, 0, a) /\ Holds(w, la, b) /\ Holds(w, la + lb, c)
<1> DEFINE v == a \o b
           w == v \o c
<1>1. /\ la + lb \in Nat /\ v \in Word(la + lb)
      /\ Holds(v, 0, a) /\ Holds(v, la, b)
  BY AddPart
<1> HIDE DEF v
<1>2. /\ w \in Word(la + lb + lc) /\ Holds(w, la + lb, c)
      /\ \A at \in Nat, j \in Nat : \A raw \in Word(j) : Holds(v, at, raw) => Holds(w, at, raw)
  BY <1>1, AddPart
<1> HIDE DEF w
<1>3. Holds(w, 0, a) /\ Holds(w, la, b)
  BY <1>1, <1>2
<1> QED
  BY <1>2, <1>3 DEF v, w

LEMMA FiveParts ==
  ASSUME NEW la \in Nat, NEW lb \in Nat, NEW lc \in Nat, NEW ld \in Nat, NEW le \in Nat,
         NEW a \in Word(la), NEW b \in Word(lb), NEW c \in Word(lc), NEW d \in Word(ld), NEW e \in Word(le)
  PROVE  LET w == a \o b \o c \o d \o e IN
           /\ w \in Word(la + lb + lc + ld + le)
           /\ Holds(w, 0, a) /\ Holds(w, la, b) /\ Holds(w, la + lb, c)
           /\ Holds(w, la + lb + lc, d) /\ Holds(w, la + lb + lc + ld, e)
<1> DEFINE u == a \o b \o c
           v == u \o d
           w == v \o e
<1>1. /\ la + lb \in Nat /\ la + lb + lc \in Nat /\ u \in Word(la + lb + lc)
      /\ Holds(u, 0, a) /\ Holds(u, la, b) /\ Holds(u, la + lb, c)
  BY ThreeParts
<1> HIDE DEF u
<1>2. /\ la + lb + lc + ld \in Nat /\ v \in Word(la + lb + lc + ld) /\ Holds(v, la + lb + lc, d)
      /\ \A at \in Nat, j \in Nat : \A raw \in Word(j) : Holds(u, at, raw) => Holds(v, at, raw)
  BY <1>1, AddPart
<1> HIDE DEF v
<1>3. /\ w \in Word(la + lb + lc + ld + le) /\ Holds(w, la + lb + lc + ld, e)
      /\ \A at \in Nat, j \in Nat : \A raw \in Word(j) : Holds(v, at, raw) => Holds(w, at, raw)
  BY <1>2, AddPart
<1> HIDE DEF w
<1>4. Holds(v, 0, a) /\ Holds(v, la, b) /\ Holds(v, la + lb, c)
  BY <1>1, <1>2
<1>5. Holds(w, 0, a) /\ Holds(w, la, b) /\ Holds(w, la + lb, c) /\ Holds(w, la + lb + lc, d)
  BY <1>1, <1>2, <1>3, <1>4
<1> QED
  BY <1>3, <1>5 DEF u, v, w

LEMMA ByteWord ==
  ASSUME NEW n \in Byte
  PROVE  <<n>> \in Word(1)
<1>1. <<n>> \in Seq(Byte) /\ Len(<<n>>) = 1
  OBVIOUS
<1> QED
  BY <1>1 DEF Word

(* A reader that has come to the end of its payload. *)
LEMMA FinishedAt ==
  ASSUME NEW k \in Nat, NEW bytes \in Word(k), NEW got
  PROVE  Finished(Got(bytes, k, got))
<1>1. Len(bytes) = k
  BY WordLength
<1> QED
  BY <1>1 DEF Finished, Remaining, Got

-----------------------------------------------------------------------------
(* Commands.                                                               *)

CalledPockets == {PocketAt(k) : k \in 0 .. 6}

ShotOrders ==
  { c \in [ kind : {"shot"}, aim : Aims, power : Powers, side : Int, vertical : Int, pocket : CalledPockets ] :
      SpinIsOnBall(c.side, c.vertical) }

Placements == [kind : {"place"}, x : Word(8), y : Word(8)]

Resignations == [kind : {"concede"}, player : {"One", "Two"}]

(* What a player can order, and what the server orders in his place. *)
Orders == ShotOrders \cup Placements \cup Resignations \cup [kind : {"timeout"}]

(* The only position of a value. *)
LEMMA PositionOf ==
  ASSUME NEW seq, NEW value, Len(seq) \in Nat,
         NEW k \in 1 .. Len(seq), \A i \in 1 .. Len(seq) : seq[i] = value <=> i = k
  PROVE  SelectInSeq(seq, LAMBDA x : x = value) = k
<1> DEFINE I == {i \in 1 .. Len(seq) : seq[i] = value}
<1>1. I = {k}
  OBVIOUS
<1>2. (CHOOSE x \in I : \A y \in I : x =< y) = k
  BY <1>1
<1> QED
  BY <1>1, <1>2 DEF SelectInSeq, Min

LEMMA PocketRoundTrip ==
  ASSUME NEW k \in 0 .. 6
  PROVE  PocketByte(PocketAt(k)) = <<k>>
<1>1. PocketNames = << "TopLeft", "TopCenter", "TopRight", "BottomLeft", "BottomCenter", "BottomRight" >>
  BY DEF PocketNames
<1>2. Len(PocketNames) \in Nat /\ Len(PocketNames) >= 6 /\ Len(PocketNames) <= 6
  BY <1>1
<1>3. CASE k = 0
  <2>1. \A i \in 1 .. Len(PocketNames) : PocketNames[i] # "None"
    BY <1>1, <1>2
  <2>2. SelectInSeq(PocketNames, LAMBDA x : x = "None") = 0
    BY <2>1 DEF SelectInSeq
  <2> QED
    BY <1>3, <2>2 DEF PocketByte, PocketAt
<1>4. CASE k # 0
  <2>1. k \in 1 .. Len(PocketNames)
    BY <1>2, <1>4
  <2>2. \A i \in 1 .. Len(PocketNames) : PocketNames[i] = PocketNames[k] <=> i = k
    BY <1>1, <1>2, <1>4
  <2>3. SelectInSeq(PocketNames, LAMBDA x : x = PocketNames[k]) = k
    BY <1>2, <2>1, <2>2, PositionOf
  <2> QED
    BY <1>4, <2>3 DEF PocketByte, PocketAt
<1> QED
  BY <1>3, <1>4

LEMMA SeatPosition ==
  ASSUME NEW k \in {1, 2}
  PROVE  {i \in 1 .. Len(Seats) : Seats[i] = Seats[k]} = {k}
<1>1. Seats = <<"One", "Two">>
  BY DEF Seats
<1>2. Len(Seats) \in Nat /\ Len(Seats) >= 2 /\ Len(Seats) <= 2
  BY <1>1
<1>3. k \in 1 .. Len(Seats)
  BY <1>2
<1>4. \A i \in 1 .. Len(Seats) : Seats[i] = Seats[k] <=> i = k
  BY <1>1, <1>2
<1> QED
  BY <1>3, <1>4

(* A part of a part of a payload. *)
LEMMA PartOfPart ==
  ASSUME NEW l \in Nat, NEW k \in Nat, NEW j \in Nat, NEW at \in Nat, NEW within \in Nat,
         NEW bytes \in Word(l), NEW part \in Word(k), NEW raw \in Word(j),
         Holds(bytes, at, part), Holds(part, within, raw)
  PROVE  Holds(bytes, at + within, raw)
<1>1. Len(bytes) = l /\ Len(part) = k /\ Len(raw) = j
  BY WordLength
<1> QED
  BY <1>1, HoldsWithin

(* The payload c of k bytes is decoded as the order, wherever it stands at *)
(* the end of a frame.                                                     *)
ReadAs(k, c, order) ==
  \A at \in Nat : \A bytes \in Word(at + k) : \A got :
    Holds(bytes, at, c) => DecodeCommand(Got(bytes, at, got)) = order

(* The first byte tells what the others are. *)
LEMMA CommandByte ==
  ASSUME NEW k \in Nat, NEW c \in Word(k), NEW n \in 1 .. 4, Holds(c, 0, <<n>>),
         NEW at \in Nat, NEW bytes \in Word(at + k), NEW got, Holds(bytes, at, c)
  PROVE  LET r == Take(Got(bytes, at, got), Field("command", 1, 1 .. 4)) IN
           /\ r = Got(bytes, at + 1, With(got, "command", n))
           /\ r.ok /\ r.got.command = n
<1> DEFINE r == Take(Got(bytes, at, got), Field("command", 1, 1 .. 4))
<1>1. n \in Byte /\ <<n>> \in Word(1)
  <2>1. n \in Byte
    BY DEF Byte
  <2> QED
    BY <2>1, ByteWord
<1>2. at + k \in Nat /\ bytes \in Seq(Byte)
  <2>1. at + k \in Nat
    OBVIOUS
  <2> QED
    BY <2>1, WordLength
<1>3. Holds(bytes, at + 0, <<n>>)
  BY <1>1, <1>2, PartOfPart
<1>4. Holds(bytes, at, <<n>>)
  BY <1>3
<1>5. r = Got(bytes, at + 1, With(got, "command", n))
  BY <1>1, <1>2, <1>4, TakeByte
<1> HIDE DEF r
<1>6. r.ok /\ r.got = With(got, "command", n)
  BY <1>5 DEF Got
<1>7. r.got.command = n
  BY <1>6 DEF With
<1> QED
  BY <1>5, <1>6, <1>7 DEF r

LEMMA TimeoutRoundTrip ==
  LET order == [kind |-> "timeout"] IN
    CommandBytes(order) \in Word(1) /\ ReadAs(1, CommandBytes(order), order)
<1> DEFINE order == [kind |-> "timeout"]
           c == CommandBytes(order)
<1>1. c = <<2>>
  BY DEF CommandBytes
<1> HIDE DEF c
<1>2. c \in Word(1) /\ Holds(c, 0, <<2>>)
  <2>1. 2 \in Byte /\ <<2>> \in Seq(Byte)
    BY DEF Byte
  <2> QED
    BY <1>1, <2>1, ByteWord, HoldsAll
<1>3. ASSUME NEW at \in Nat, NEW bytes \in Word(at + 1), NEW got, Holds(bytes, at, c)
      PROVE  DecodeCommand(Got(bytes, at, got)) = order
  <2> DEFINE r == Take(Got(bytes, at, got), Field("command", 1, 1 .. 4))
  <2>1. r = Got(bytes, at + 1, With(got, "command", 2)) /\ r.ok /\ r.got.command = 2
    BY <1>2, <1>3, CommandByte
  <2>2. at + 1 \in Nat
    OBVIOUS
  <2>3. Finished(r)
    BY <2>1, <2>2, FinishedAt
  <2> QED
    BY <2>1, <2>3 DEF DecodeCommand
<1> QED
  BY <1>2, <1>3 DEF ReadAs, c

LEMMA ResignationRoundTrip ==
  ASSUME NEW order \in Resignations
  PROVE  CommandBytes(order) \in Word(2) /\ ReadAs(2, CommandBytes(order), order)
<1>1. order.kind = "concede" /\ order.player \in {"One", "Two"} /\ order = [kind |-> "concede", player |-> order.player]
  BY DEF Resignations
<1>2. PICK p \in {1, 2} : order.player = Seats[p]
  BY <1>1 DEF Seats
<1> DEFINE c == CommandBytes(order)
<1>3. c = <<3>> \o <<p>>
  <2> DEFINE I == {i \in 1 .. Len(Seats) : Seats[i] = order.player}
  <2>1. I = {p}
    BY <1>2, SeatPosition
  <2>2. (CHOOSE x \in I : \A y \in I : x =< y) = p
    BY <2>1
  <2>3. SelectInSeq(Seats, LAMBDA seat : seat = order.player) = p
    BY <2>1, <2>2 DEF SelectInSeq, Min
  <2>4. c = <<3>> \o <<SelectInSeq(Seats, LAMBDA seat : seat = order.player)>>
    BY <1>1 DEF CommandBytes
  <2> QED
    BY <2>3, <2>4
<1>4. 3 \in Byte /\ p \in Byte /\ <<3>> \in Word(1) /\ <<p>> \in Word(1)
  <2>1. 3 \in Byte /\ p \in Byte
    BY DEF Byte
  <2> QED
    BY <2>1, ByteWord
<1> HIDE DEF c
<1>5. c \in Word(1 + 1) /\ Holds(c, 0, <<3>>) /\ Holds(c, 1, <<p>>)
  BY <1>3, <1>4, AddPart
<1>6. c \in Word(2) /\ Holds(c, 0, <<3>>)
  BY <1>5
<1>7. ASSUME NEW at \in Nat, NEW bytes \in Word(at + 2), NEW got, Holds(bytes, at, c)
      PROVE  DecodeCommand(Got(bytes, at, got)) = order
  <2> DEFINE r == Take(Got(bytes, at, got), Field("command", 1, 1 .. 4))
             seat == Take(r, Field("player", 1, {1, 2}))
  <2>1. r = Got(bytes, at + 1, With(got, "command", 3)) /\ r.ok /\ r.got.command = 3
    BY <1>6, <1>7, CommandByte
  <2>2. at + 1 \in Nat /\ at + 2 \in Nat /\ bytes \in Seq(Byte)
    <3>1. at + 1 \in Nat /\ at + 2 \in Nat
      OBVIOUS
    <3> QED
      BY <3>1, WordLength
  <2>3. Holds(bytes, at + 1, <<p>>)
    BY <1>4, <1>5, <1>6, <1>7, <2>2, PartOfPart
  <2>4. seat = Got(bytes, at + 1 + 1, With(With(got, "command", 3), "player", p))
    BY <1>4, <2>1, <2>2, <2>3, TakeByte
  <2>5. seat = Got(bytes, at + 2, With(With(got, "command", 3), "player", p))
    BY <2>4
  <2> HIDE DEF r, seat
  <2>6. Finished(seat)
    BY <2>2, <2>5, FinishedAt
  <2>7. seat.got.player = p
    <3>1. seat.got = With(With(got, "command", 3), "player", p)
      BY <2>5 DEF Got
    <3> QED
      BY <3>1 DEF With
  <2>8. DecodeCommand(Got(bytes, at, got)) = [kind |-> "concede", player |-> Seats[seat.got.player]]
    BY <2>1, <2>6 DEF DecodeCommand, r, seat
  <2> QED
    BY <1>1, <1>2, <2>7, <2>8
<1> QED
  BY <1>6, <1>7 DEF ReadAs, c

LEMMA PlacementRoundTrip ==
  ASSUME NEW order \in Placements
  PROVE  CommandBytes(order) \in Word(17) /\ ReadAs(17, CommandBytes(order), order)
<1>1. /\ order.kind = "place" /\ order.x \in Word(8) /\ order.y \in Word(8)
      /\ order = [kind |-> "place", x |-> order.x, y |-> order.y]
  BY DEF Placements
<1> DEFINE c == CommandBytes(order)
<1>2. c = <<4>> \o order.x \o order.y
  BY <1>1 DEF CommandBytes
<1>3. 4 \in Byte /\ <<4>> \in Word(1)
  <2>1. 4 \in Byte
    BY DEF Byte
  <2> QED
    BY <2>1, ByteWord
<1> HIDE DEF c
<1>4. c \in Word(1 + 8 + 8) /\ Holds(c, 0, <<4>>) /\ Holds(c, 1, order.x) /\ Holds(c, 1 + 8, order.y)
  BY <1>1, <1>2, <1>3, ThreeParts
<1>5. c \in Word(17) /\ Holds(c, 0, <<4>>) /\ Holds(c, 1, order.x) /\ Holds(c, 9, order.y)
  BY <1>4
<1>6. ASSUME NEW at \in Nat, NEW bytes \in Word(at + 17), NEW got, Holds(bytes, at, c)
      PROVE  DecodeCommand(Got(bytes, at, got)) = order
  <2> DEFINE r == Take(Got(bytes, at, got), Field("command", 1, 1 .. 4))
             g == With(got, "command", 4)
             f == Raw("x", 8)
             h == Raw("y", 8)
             spot == ReadAll(r, <<f, h>>)
  <2>1. r = Got(bytes, at + 1, g) /\ r.ok /\ r.got.command = 4
    BY <1>5, <1>6, CommandByte
  <2>2. at + 1 \in Nat /\ at + 9 \in Nat /\ at + 17 \in Nat /\ bytes \in Seq(Byte)
    <3>1. at + 1 \in Nat /\ at + 9 \in Nat /\ at + 17 \in Nat
      OBVIOUS
    <3> QED
      BY <3>1, WordLength
  <2>3. Holds(bytes, at + 1, order.x) /\ Holds(bytes, at + 9, order.y)
    BY <1>1, <1>5, <1>6, <2>2, PartOfPart
  <2> HIDE DEF g
  <2>4. Take(Got(bytes, at + 1, g), f) = Got(bytes, at + 1 + 8, With(g, "x", order.x))
    BY <1>1, <2>2, <2>3, TakeRaw
  <2>5. Take(Got(bytes, at + 1, g), f) = Got(bytes, at + 9, With(g, "x", order.x))
    BY <2>4
  <2>6. Take(Got(bytes, at + 9, With(g, "x", order.x)), h)
          = Got(bytes, at + 9 + 8, With(With(g, "x", order.x), "y", order.y))
    BY <1>1, <2>2, <2>3, TakeRaw
  <2> HIDE DEF r, f, h
  <2>7. spot = Got(bytes, at + 17, With(With(g, "x", order.x), "y", order.y))
    BY <2>1, <2>5, <2>6, ReadTwo
  <2> HIDE DEF spot
  <2>8. Finished(spot)
    BY <2>2, <2>7, FinishedAt
  <2>9. spot.got.x = order.x /\ spot.got.y = order.y
    <3>1. spot.got = With(With(g, "x", order.x), "y", order.y)
      BY <2>7 DEF Got
    <3> QED
      BY <3>1 DEF With
  <2>10. DecodePlacement(r) = [kind |-> "place", x |-> spot.got.x, y |-> spot.got.y]
    BY <2>8 DEF DecodePlacement, spot, f, h
  <2>11. DecodeCommand(Got(bytes, at, got)) = DecodePlacement(r)
    BY <2>1 DEF DecodeCommand, r
  <2> QED
    BY <1>1, <2>9, <2>10, <2>11
<1> QED
  BY <1>5, <1>6 DEF ReadAs, c

LEMMA SpinBounds ==
  ASSUME NEW side \in Int, NEW vertical \in Int, SpinIsOnBall(side, vertical)
  PROVE  /\ 10000 + side >= 0 /\ side <= 10000
         /\ 10000 + vertical >= 0 /\ vertical <= 10000
BY SMT DEF SpinIsOnBall

(* Sixteen bits are enough for the numbers of a shot. *)
LEMMA SixteenBitNumbers ==
  ASSUME NEW n \in Int
  PROVE  n \in U16 <=> 0 <= n /\ n < 65536
<1>1. 2 ^ 16 = 65536
  OBVIOUS
<1> QED
  BY <1>1 DEF U16

LEMMA AimNumbers ==
  ASSUME NEW n \in Aims
  PROVE  n \in Int /\ 0 <= n /\ n < 10000
BY DEF Aims, StepsPerTurn

LEMMA PowerNumbers ==
  ASSUME NEW n \in Powers
  PROVE  n \in Int /\ 0 <= n /\ n <= 10000
BY DEF Powers, MaxPower

LEMMA UnsignedNumber ==
  ASSUME NEW n \in Int, 0 <= n, n <= 10000
  PROVE  Sixteen(n) = n
BY SixteenBits

LEMMA SignedNumber ==
  ASSUME NEW n \in Int, 10000 + n >= 0, n <= 10000
  PROVE  Sixteen(n) \in U16 /\ Signed16(Sixteen(n)) = n
<1> DEFINE m == Sixteen(n)
<1>1. m = (IF n < 0 THEN n + 65536 ELSE n)
  BY SixteenBits
<1> HIDE DEF m
<1>2. m \in Int /\ 0 <= m /\ m < 65536
  BY <1>1
<1>3. m \in U16
  BY <1>2, SixteenBitNumbers
<1>4. Signed16(m) = n
  BY <1>1 DEF Signed16
<1> QED
  BY <1>3, <1>4 DEF m

LEMMA ShotParts ==
  ASSUME NEW x \in Word(1), NEW v \in Word(2), NEW a \in Word(2), NEW p \in Word(2), NEW s \in Word(2),
         NEW t \in Word(2), NEW y \in Word(1)
  PROVE  LET c == x \o v \o a \o p \o s \o t \o y IN
           /\ c \in Word(12) /\ Holds(c, 0, x) /\ Holds(c, 1, v) /\ Holds(c, 3, a) /\ Holds(c, 5, p)
           /\ Holds(c, 7, s) /\ Holds(c, 9, t) /\ Holds(c, 11, y)
<1> DEFINE Kept(u, w) == \A at \in Nat, j \in Nat : \A raw \in Word(j) : Holds(u, at, raw) => Holds(w, at, raw)
           u2 == x \o v
           u3 == u2 \o a
           u4 == u3 \o p
           u5 == u4 \o s
           u6 == u5 \o t
           u7 == u6 \o y
<1>1. u2 \in Word(1 + 2) /\ Holds(u2, 1, v) /\ Kept(x, u2) /\ Holds(u2, 0, x)
  BY AddPart
<1>2. u2 \in Word(3)
  BY <1>1
<1> HIDE DEF u2
<1>3. u3 \in Word(3 + 2) /\ Holds(u3, 3, a) /\ Kept(u2, u3)
  BY <1>2, AddPart
<1>4. u3 \in Word(5)
  BY <1>3
<1> HIDE DEF u3
<1>5. u4 \in Word(5 + 2) /\ Holds(u4, 5, p) /\ Kept(u3, u4)
  BY <1>4, AddPart
<1>6. u4 \in Word(7)
  BY <1>5
<1> HIDE DEF u4
<1>7. u5 \in Word(7 + 2) /\ Holds(u5, 7, s) /\ Kept(u4, u5)
  BY <1>6, AddPart
<1>8. u5 \in Word(9)
  BY <1>7
<1> HIDE DEF u5
<1>9. u6 \in Word(9 + 2) /\ Holds(u6, 9, t) /\ Kept(u5, u6)
  BY <1>8, AddPart
<1>10. u6 \in Word(11)
  BY <1>9
<1> HIDE DEF u6
<1>11. u7 \in Word(11 + 1) /\ Holds(u7, 11, y) /\ Kept(u6, u7)
  BY <1>10, AddPart
<1>12. u7 \in Word(12)
  BY <1>11
<1> HIDE DEF u7
<1>13. Holds(u3, 0, x) /\ Holds(u3, 1, v)
  BY <1>1, <1>3
<1>14. Holds(u4, 0, x) /\ Holds(u4, 1, v) /\ Holds(u4, 3, a)
  BY <1>13, <1>3, <1>5
<1>15. Holds(u5, 0, x) /\ Holds(u5, 1, v) /\ Holds(u5, 3, a) /\ Holds(u5, 5, p)
  BY <1>14, <1>5, <1>7
<1>16. Holds(u6, 0, x) /\ Holds(u6, 1, v) /\ Holds(u6, 3, a) /\ Holds(u6, 5, p) /\ Holds(u6, 7, s)
  BY <1>15, <1>7, <1>9
<1>17. Holds(u7, 0, x) /\ Holds(u7, 1, v) /\ Holds(u7, 3, a) /\ Holds(u7, 5, p) /\ Holds(u7, 7, s) /\ Holds(u7, 9, t)
  BY <1>16, <1>9, <1>11
<1> QED
  BY <1>11, <1>12, <1>17 DEF u2, u3, u4, u5, u6, u7

ShotBytes(aim, power, side, vertical, k) ==
  <<1>> \o Be(2, 1) \o Be(2, aim) \o Be(2, power) \o Be(2, side) \o Be(2, vertical) \o <<k>>

ShotOrder(aim, power, side, vertical, k) ==
  [ kind |-> "shot", aim |-> aim, power |-> power, side |-> side, vertical |-> vertical, pocket |-> PocketAt(k) ]

(* The fields of a shot, read out of the last bytes of a frame. *)
LEMMA ShotRead ==
  ASSUME NEW aim \in Aims, NEW power \in Powers, NEW side \in Int, NEW vertical \in Int,
         SpinIsOnBall(side, vertical), NEW k \in 0 .. 6
  PROVE  LET c == ShotBytes(aim, power, side, vertical, k) IN
         /\ c \in Word(12) /\ Holds(c, 0, <<1>>)
         /\ \A at \in Nat : \A bytes \in Word(at + 12) : \A got : Holds(bytes, at, c) =>
              DecodeShot(Got(bytes, at + 1, got)) = ShotOrder(aim, power, side, vertical, k)
<1> DEFINE v == Be(2, 1)
           a == Be(2, aim)
           p == Be(2, power)
           s == Be(2, side)
           t == Be(2, vertical)
           y == <<k>>
           x == <<1>>
           c == x \o v \o a \o p \o s \o t \o y
<1>1. k \in Byte /\ x \in Word(1) /\ y \in Word(1)
  <2>1. 1 \in Byte /\ k \in Byte
    BY DEF Byte
  <2> QED
    BY <2>1, ByteWord
<1>2. aim \in Int /\ power \in Int
  BY AimNumbers, PowerNumbers
<1>3. v \in Word(2) /\ a \in Word(2) /\ p \in Word(2) /\ s \in Word(2) /\ t \in Word(2)
  BY <1>2, BeType
<1>4. Sixteen(1) = 1 /\ Sixteen(aim) = aim /\ Sixteen(power) = power
  <2>1. Sixteen(1) = 1
    BY UnsignedNumber
  <2>2. Sixteen(aim) = aim
    BY AimNumbers, UnsignedNumber
  <2>3. Sixteen(power) = power
    BY PowerNumbers, UnsignedNumber
  <2> QED
    BY <2>1, <2>2, <2>3
<1>5. /\ Sixteen(side) \in U16 /\ Signed16(Sixteen(side)) = side
      /\ Sixteen(vertical) \in U16 /\ Signed16(Sixteen(vertical)) = vertical
  BY SpinBounds, SignedNumber
<1> HIDE DEF v, a, p, s, t, x, y
<1>8. /\ c \in Word(12) /\ Holds(c, 0, x) /\ Holds(c, 1, v) /\ Holds(c, 3, a) /\ Holds(c, 5, p)
      /\ Holds(c, 7, s) /\ Holds(c, 9, t) /\ Holds(c, 11, y)
  BY <1>1, <1>3, ShotParts
<1> HIDE DEF c
<1>9. ASSUME NEW at \in Nat, NEW bytes \in Word(at + 12), NEW got, Holds(bytes, at, c)
      PROVE  DecodeShot(Got(bytes, at + 1, got)) = ShotOrder(aim, power, side, vertical, k)
  <2> DEFINE f1 == Field("shotVersion", 2, {1})
             f2 == Field("aim", 2, Aims)
             f3 == Field("power", 2, Powers)
             f4 == Field("side", 2, U16)
             f5 == Field("vertical", 2, U16)
             f6 == Field("pocket", 1, 0 .. 6)
             g1 == With(got, "shotVersion", 1)
             g2 == With(g1, "aim", aim)
             g3 == With(g2, "power", power)
             g4 == With(g3, "side", Sixteen(side))
             g5 == With(g4, "vertical", Sixteen(vertical))
             g6 == With(g5, "pocket", k)
             r == Got(bytes, at + 1, got)
             spun == ReadAll(r, ShotFields)
             called == Take(spun, f6)
  <2>1. /\ at + 1 \in Nat /\ at + 3 \in Nat /\ at + 5 \in Nat /\ at + 7 \in Nat /\ at + 9 \in Nat
        /\ at + 11 \in Nat /\ at + 12 \in Nat
    OBVIOUS
  <2>2. bytes \in Seq(Byte)
    BY <2>1, WordLength
  <2>3. /\ Holds(bytes, at + 1, v) /\ Holds(bytes, at + 3, a) /\ Holds(bytes, at + 5, p)
        /\ Holds(bytes, at + 7, s) /\ Holds(bytes, at + 9, t) /\ Holds(bytes, at + 11, y)
    <3>2. \A within \in Nat : \A j \in Nat : \A raw \in Word(j) :
            Holds(c, within, raw) => Holds(bytes, at + within, raw)
      BY <1>8, <1>9, <2>1, PartOfPart
    <3>3. Holds(bytes, at + 1, v) /\ Holds(bytes, at + 3, a) /\ Holds(bytes, at + 5, p)
      BY <1>3, <1>8, <3>2
    <3>4. Holds(bytes, at + 7, s) /\ Holds(bytes, at + 9, t) /\ Holds(bytes, at + 11, y)
      BY <1>1, <1>8, <1>3, <3>2
    <3> QED
      BY <3>3, <3>4
  <2>4. g5.aim = aim /\ g5.power = power /\ g5.side = Sixteen(side) /\ g5.vertical = Sixteen(vertical)
    BY DEF With
  <2>5. g6.pocket = k
    BY DEF With
  <2>6. ShotFields = <<f1, f2, f3, f4, f5>>
    BY DEF ShotFields
  <2> HIDE DEF g1, g2, g3, g4, g5, g6
  <2>7. Take(Got(bytes, at + 1, got), f1) = Got(bytes, at + 3, g1)
    <3>1. Take(Got(bytes, at + 1, got), f1) = Got(bytes, at + 1 + 2, With(got, "shotVersion", Sixteen(1)))
      BY <1>4, <2>1, <2>2, <2>3, TakeNumber DEF v
    <3> QED
      BY <1>4, <3>1 DEF g1
  <2>8. Take(Got(bytes, at + 3, g1), f2) = Got(bytes, at + 5, g2)
    <3>1. Take(Got(bytes, at + 3, g1), f2) = Got(bytes, at + 3 + 2, With(g1, "aim", Sixteen(aim)))
      BY <1>2, <1>4, <2>1, <2>2, <2>3, TakeNumber DEF a
    <3> QED
      BY <1>4, <3>1 DEF g2
  <2>9. Take(Got(bytes, at + 5, g2), f3) = Got(bytes, at + 7, g3)
    <3>1. Take(Got(bytes, at + 5, g2), f3) = Got(bytes, at + 5 + 2, With(g2, "power", Sixteen(power)))
      BY <1>2, <1>4, <2>1, <2>2, <2>3, TakeNumber DEF p
    <3> QED
      BY <1>4, <3>1 DEF g3
  <2>10. Take(Got(bytes, at + 7, g3), f4) = Got(bytes, at + 9, g4)
    <3>1. Take(Got(bytes, at + 7, g3), f4) = Got(bytes, at + 7 + 2, With(g3, "side", Sixteen(side)))
      BY <1>5, <2>1, <2>2, <2>3, TakeNumber DEF s
    <3> QED
      BY <3>1 DEF g4
  <2>11. Take(Got(bytes, at + 9, g4), f5) = Got(bytes, at + 11, g5)
    <3>1. Take(Got(bytes, at + 9, g4), f5) = Got(bytes, at + 9 + 2, With(g4, "vertical", Sixteen(vertical)))
      BY <1>5, <2>1, <2>2, <2>3, TakeNumber DEF t
    <3> QED
      BY <3>1 DEF g5
  <2>12. Take(Got(bytes, at + 11, g5), f6) = Got(bytes, at + 12, g6)
    <3>1. Take(Got(bytes, at + 11, g5), f6) = Got(bytes, at + 11 + 1, With(g5, "pocket", k))
      BY <1>1, <2>1, <2>2, <2>3, TakeByte DEF y
    <3> QED
      BY <3>1 DEF g6
  <2> HIDE DEF f1, f2, f3, f4, f5, f6
  <2>13. spun = Got(bytes, at + 11, g5)
    <3>1. spun = Take(Take(Take(Take(Take(r, f1), f2), f3), f4), f5)
      BY <2>6, ReadFive
    <3> QED
      BY <2>7, <2>8, <2>9, <2>10, <2>11, <3>1
  <2> HIDE DEF r, spun
  <2>14. called = Got(bytes, at + 12, g6)
    BY <2>12, <2>13
  <2> HIDE DEF called
  <2>15. Finished(called)
    BY <2>1, <2>14, FinishedAt
  <2>16. spun.ok /\ spun.got = g5 /\ called.got = g6
    BY <2>13, <2>14 DEF Got
  <2>17. /\ Signed16(spun.got.side) = side /\ Signed16(spun.got.vertical) = vertical
         /\ spun.got.aim = aim /\ spun.got.power = power /\ called.got.pocket = k
    BY <1>5, <2>4, <2>5, <2>16
  <2>18. DecodeShot(r) = [ kind |-> "shot", aim |-> spun.got.aim, power |-> spun.got.power,
                           side |-> Signed16(spun.got.side), vertical |-> Signed16(spun.got.vertical),
                           pocket |-> PocketAt(called.got.pocket) ]
    BY <2>15, <2>16, <2>17, Zenon DEF DecodeShot, spun, called, f6
  <2> QED
    BY <2>17, <2>18 DEF r, ShotOrder
<1>10. c = ShotBytes(aim, power, side, vertical, k)
  BY DEF ShotBytes, c, v, a, p, s, t, x, y
<1>11. x = <<1>>
  BY DEF x
<1> QED
  BY <1>8, <1>9, <1>10, <1>11

LEMMA ShotRoundTrip ==
  ASSUME NEW order \in ShotOrders
  PROVE  CommandBytes(order) \in Word(12) /\ ReadAs(12, CommandBytes(order), order)
<1>1. /\ order.kind = "shot" /\ order.aim \in Aims /\ order.power \in Powers
      /\ order.side \in Int /\ order.vertical \in Int /\ order.pocket \in CalledPockets
      /\ SpinIsOnBall(order.side, order.vertical)
      /\ order = [ kind |-> "shot", aim |-> order.aim, power |-> order.power, side |-> order.side,
                   vertical |-> order.vertical, pocket |-> order.pocket ]
  BY DEF ShotOrders
<1>2. PICK k \in 0 .. 6 : order.pocket = PocketAt(k)
  BY <1>1 DEF CalledPockets
<1> DEFINE c == CommandBytes(order)
<1>3. PocketByte(order.pocket) = <<k>>
  BY <1>2, PocketRoundTrip
<1>4. c = ShotBytes(order.aim, order.power, order.side, order.vertical, k)
  BY <1>1, <1>3 DEF CommandBytes, ShotBytes
<1> HIDE DEF c
<1>5. /\ c \in Word(12) /\ Holds(c, 0, <<1>>)
      /\ \A at \in Nat : \A bytes \in Word(at + 12) : \A got : Holds(bytes, at, c) =>
           DecodeShot(Got(bytes, at + 1, got)) = ShotOrder(order.aim, order.power, order.side, order.vertical, k)
  BY <1>1, <1>4, ShotRead
<1>6. ASSUME NEW at \in Nat, NEW bytes \in Word(at + 12), NEW got, Holds(bytes, at, c)
      PROVE  DecodeCommand(Got(bytes, at, got)) = order
  <2> DEFINE r == Take(Got(bytes, at, got), Field("command", 1, 1 .. 4))
  <2>1. r = Got(bytes, at + 1, With(got, "command", 1)) /\ r.ok /\ r.got.command = 1
    BY <1>5, <1>6, CommandByte
  <2>2. DecodeCommand(Got(bytes, at, got)) = DecodeShot(r)
    BY <2>1 DEF DecodeCommand
  <2> QED
    BY <1>1, <1>2, <1>5, <1>6, <2>1, <2>2 DEF ShotOrder
<1> QED
  BY <1>5, <1>6 DEF ReadAs, c

LEMMA OrderRoundTrip ==
  ASSUME NEW order \in Orders
  PROVE  \E k \in Nat : k <= 17 /\ CommandBytes(order) \in Word(k) /\ ReadAs(k, CommandBytes(order), order)
<1>1. CASE order \in ShotOrders
  BY <1>1, ShotRoundTrip
<1>2. CASE order \in Placements
  BY <1>2, PlacementRoundTrip
<1>3. CASE order \in Resignations
  BY <1>3, ResignationRoundTrip
<1>4. CASE order \in [kind : {"timeout"}]
  <2>1. order = [kind |-> "timeout"]
    BY <1>4
  <2> QED
    BY <2>1, TimeoutRoundTrip
<1> QED
  BY <1>1, <1>2, <1>3, <1>4 DEF Orders

LEMMA OrdersAreNotRefused ==
  ASSUME NEW order \in Orders
  PROVE  order # Refused
<1>1. "kind" \in DOMAIN order
  BY DEF Orders, ShotOrders, Placements, Resignations
<1>2. DOMAIN Refused = {"refused"}
  BY DEF Refused
<1> QED
  BY <1>1, <1>2

-----------------------------------------------------------------------------
(* Frames.                                                                 *)

Envelopes == [expected : Word(8), id : Word(16), command : Orders]

(* The parts of a frame: a version, a word of eight bytes, another word, a *)
(* number and what follows.                                                *)
LEMMA FrameParts ==
  ASSUME NEW lc \in Nat, NEW ld \in Nat, NEW le \in Nat,
         NEW a \in Word(2), NEW b \in Word(8), NEW c \in Word(lc), NEW d \in Word(ld), NEW e \in Word(le)
  PROVE  LET w == a \o b \o c \o d \o e IN
           /\ w \in Word(10 + lc + ld + le)
           /\ Holds(w, 0, a) /\ Holds(w, 2, b) /\ Holds(w, 10, c)
           /\ Holds(w, 10 + lc, d) /\ Holds(w, 10 + lc + ld, e)
<1> DEFINE Kept(u, w) == \A at \in Nat, j \in Nat : \A raw \in Word(j) : Holds(u, at, raw) => Holds(w, at, raw)
           u2 == a \o b
           u3 == u2 \o c
           u4 == u3 \o d
           u5 == u4 \o e
<1>1. u2 \in Word(2 + 8) /\ Holds(u2, 0, a) /\ Holds(u2, 2, b)
  BY AddPart
<1>2. u2 \in Word(10)
  BY <1>1
<1> HIDE DEF u2
<1>3. 10 + lc \in Nat /\ u3 \in Word(10 + lc) /\ Holds(u3, 10, c) /\ Kept(u2, u3)
  BY <1>2, AddPart
<1> HIDE DEF u3
<1>4. 10 + lc + ld \in Nat /\ u4 \in Word(10 + lc + ld) /\ Holds(u4, 10 + lc, d) /\ Kept(u3, u4)
  BY <1>3, AddPart
<1> HIDE DEF u4
<1>5. u5 \in Word(10 + lc + ld + le) /\ Holds(u5, 10 + lc + ld, e) /\ Kept(u4, u5)
  BY <1>4, AddPart
<1> HIDE DEF u5
<1>6. Holds(u3, 0, a) /\ Holds(u3, 2, b)
  BY <1>1, <1>3
<1>7. Holds(u4, 0, a) /\ Holds(u4, 2, b) /\ Holds(u4, 10, c)
  BY <1>3, <1>4, <1>6
<1>8. Holds(u5, 0, a) /\ Holds(u5, 2, b) /\ Holds(u5, 10, c) /\ Holds(u5, 10 + lc, d)
  BY <1>3, <1>4, <1>5, <1>7
<1> QED
  BY <1>5, <1>8 DEF u2, u3, u4, u5

(* The server reads every envelope of a browser as it was meant.           *)
THEOREM EnvelopesRoundTrip ==
  ASSUME NEW e \in Envelopes
  PROVE  Len(EnvelopeBytes(e)) <= MaxFrameBytes /\ EnvelopeFrom(EnvelopeBytes(e)) = e
<1>1. /\ e.expected \in Word(8) /\ e.id \in Word(16) /\ e.command \in Orders
      /\ e = [expected |-> e.expected, id |-> e.id, command |-> e.command]
  BY DEF Envelopes
<1>2. PICK k \in Nat : /\ k <= 17 /\ CommandBytes(e.command) \in Word(k)
                       /\ ReadAs(k, CommandBytes(e.command), e.command)
  BY <1>1, OrderRoundTrip
<1> DEFINE v == Be(2, 1)
           c == CommandBytes(e.command)
           bytes == EnvelopeBytes(e)
<1>3. bytes = v \o e.expected \o e.id \o v \o c
  BY DEF EnvelopeBytes, ProtocolVersion
<1>4. v \in Word(2) /\ Sixteen(1) = 1
  BY BeType, UnsignedNumber
<1> HIDE DEF v, c, bytes
<1>5. c \in Word(k) /\ ReadAs(k, c, e.command)
  BY <1>2 DEF c
<1>6. /\ bytes \in Word(10 + 16 + 2 + k)
      /\ Holds(bytes, 0, v) /\ Holds(bytes, 2, e.expected) /\ Holds(bytes, 10, e.id)
      /\ Holds(bytes, 10 + 16, v) /\ Holds(bytes, 10 + 16 + 2, c)
  BY <1>1, <1>3, <1>4, <1>5, FrameParts
<1>7. /\ bytes \in Word(28 + k)
      /\ Holds(bytes, 0, v) /\ Holds(bytes, 2, e.expected) /\ Holds(bytes, 10, e.id)
      /\ Holds(bytes, 26, v) /\ Holds(bytes, 28, c)
  BY <1>6
<1>8. 28 + k \in Nat /\ bytes \in Seq(Byte) /\ Len(bytes) = 28 + k
  <2>1. 28 + k \in Nat
    OBVIOUS
  <2> QED
    BY <1>7, <2>1, WordLength
<1>9. Len(bytes) <= MaxFrameBytes
  BY <1>2, <1>8 DEF MaxFrameBytes
<1> DEFINE f1 == Field("protocol", 2, {1})
           f2 == Raw("expected", 8)
           f3 == Raw("id", 16)
           f4 == Field("commandVersion", 2, {1})
           g1 == With(<<>>, "protocol", 1)
           g2 == With(g1, "expected", e.expected)
           g3 == With(g2, "id", e.id)
           g4 == With(g3, "commandVersion", 1)
           r  == ReadAll(Reader(bytes), EnvelopeFields)
<1>10. EnvelopeFields = <<f1, f2, f3, f4>>
  BY DEF EnvelopeFields, ProtocolVersion
<1>11. g4.expected = e.expected /\ g4.id = e.id
  BY DEF With
<1> HIDE DEF g1, g2, g3, g4
<1> DEFINE expected == e.expected
           id == e.id
<1>12. /\ bytes \in Seq(Byte) /\ expected \in Word(8) /\ id \in Word(16)
       /\ Holds(bytes, 0, v) /\ Holds(bytes, 2, expected) /\ Holds(bytes, 10, id) /\ Holds(bytes, 26, v)
  BY <1>1, <1>7, <1>8
<1> HIDE DEF expected, id
<1>13. Take(Got(bytes, 0, <<>>), f1) = Got(bytes, 2, g1)
  <2>1. Take(Got(bytes, 0, <<>>), f1) = Got(bytes, 0 + 2, With(<<>>, "protocol", Sixteen(1)))
    BY <1>4, <1>12, TakeNumber DEF v
  <2> QED
    BY <1>4, <2>1 DEF g1
<1>14. Take(Got(bytes, 2, g1), f2) = Got(bytes, 10, g2)
  <2>1. Take(Got(bytes, 2, g1), f2) = Got(bytes, 2 + 8, With(g1, "expected", expected))
    BY <1>12, TakeRaw
  <2> QED
    BY <2>1 DEF g2, expected
<1>15. Take(Got(bytes, 10, g2), f3) = Got(bytes, 26, g3)
  <2>1. Take(Got(bytes, 10, g2), f3) = Got(bytes, 10 + 16, With(g2, "id", id))
    BY <1>12, TakeRaw
  <2> QED
    BY <2>1 DEF g3, id
<1>16. Take(Got(bytes, 26, g3), f4) = Got(bytes, 28, g4)
  <2>1. Take(Got(bytes, 26, g3), f4) = Got(bytes, 26 + 2, With(g3, "commandVersion", Sixteen(1)))
    BY <1>4, <1>12, TakeNumber DEF v
  <2> QED
    BY <1>4, <2>1 DEF g4
<1>17. Reader(bytes) = Got(bytes, 0, <<>>)
  BY DEF Reader, Got
<1> HIDE DEF f1, f2, f3, f4
<1>18. r = Got(bytes, 28, g4)
  <2>1. r = Take(Take(Take(Take(Reader(bytes), f1), f2), f3), f4)
    BY <1>10, ReadFour
  <2> QED
    BY <1>13, <1>14, <1>15, <1>16, <1>17, <2>1
<1>19. DecodeCommand(Got(bytes, 28, g4)) = e.command
  BY <1>5, <1>7 DEF ReadAs
<1> HIDE DEF r
<1>20. r.ok /\ r.got.expected = e.expected /\ r.got.id = e.id
  BY <1>11, <1>18 DEF Got
<1>21. e.command # Refused
  BY <1>1, OrdersAreNotRefused
<1>22. ~(Len(bytes) > MaxFrameBytes)
  BY <1>8, <1>9 DEF MaxFrameBytes
<1>23. EnvelopeFrom(bytes) = [expected |-> r.got.expected, id |-> r.got.id, command |-> e.command]
  BY <1>18, <1>19, <1>20, <1>21, <1>22 DEF EnvelopeFrom, r
<1>24. EnvelopeFrom(bytes) = e
  BY <1>1, <1>20, <1>23
<1> QED
  BY <1>9, <1>24 DEF bytes

LEMMA UnsignedThree ==
  ASSUME NEW bytes, NEW l \in Nat, Len(bytes) = l, l >= 3, l <= 3, \A i \in 1 .. 3 : bytes[i] \in Int
  PROVE  Unsigned(bytes) = 256 * (256 * bytes[1] + bytes[2]) + bytes[3]
<1> DEFINE Step(u) == u = [i \in 0 .. Len(bytes) |-> IF i = 0 THEN 0 ELSE 256 * u[i - 1] + bytes[i]]
           g == [i \in 0 .. Len(bytes) |->
                   IF i = 0 THEN 0 ELSE IF i = 1 THEN bytes[1] ELSE IF i = 2 THEN 256 * bytes[1] + bytes[2]
                   ELSE 256 * (256 * bytes[1] + bytes[2]) + bytes[3]]
<1>1. ASSUME NEW i \in 0 .. Len(bytes)
      PROVE  g[i] = IF i = 0 THEN 0 ELSE 256 * g[i - 1] + bytes[i]
  <2>1. CASE i = 0
    BY <2>1
  <2>2. CASE i = 1
    BY <2>2
  <2>3. CASE i = 2
    BY <2>3
  <2>4. CASE i = 3
    BY <2>4
  <2> QED
    BY <2>1, <2>2, <2>3, <2>4
<1>2. Step(g)
  BY <1>1
<1> DEFINE U == CHOOSE u : Step(u)
<1>3. Step(U)
  BY <1>2, Zenon
<1>4. Unsigned(bytes) = U[Len(bytes)]
  BY DEF Unsigned
<1> HIDE DEF U
<1>5. U[0] = 0 /\ U[1] = 256 * U[0] + bytes[1]
  BY <1>3
<1>6. U[2] = 256 * U[1] + bytes[2]
  BY <1>3
<1>7. U[3] = 256 * U[2] + bytes[3]
  BY <1>3
<1>8. l = 3
  OBVIOUS
<1> QED
  BY <1>4, <1>5, <1>6, <1>7, <1>8

(* The length of a snapshot, in four bytes. *)
LEMMA SizeRoundTrip ==
  ASSUME NEW n \in Nat, n <= MaxSnapshotBytes
  PROVE  Be(4, n)[1] = 0 /\ Signed(Be(4, n)) = n
<1> DEFINE b == Be(4, n)
<1>1. n <= 4096
  BY DEF MaxSnapshotBytes
<1>2. 256 ^ 0 = 1 /\ 256 ^ 1 = 256 /\ 256 ^ 2 = 65536 /\ 256 ^ 3 = 16777216
  OBVIOUS
<1>3. b[1] = (n \div 16777216) % 256 /\ b[2] = (n \div 65536) % 256 /\ b[3] = (n \div 256) % 256 /\ b[4] = n % 256
  <2>1. /\ b[1] = (n \div 256 ^ 3) % 256 /\ b[2] = (n \div 256 ^ 2) % 256
        /\ b[3] = (n \div 256 ^ 1) % 256 /\ b[4] = (n \div 256 ^ 0) % 256
    BY DEF Be
  <2> QED
    BY <1>2, <2>1
<1>4. b[1] = 0 /\ b[2] = 0 /\ b[3] = n \div 256 /\ b[4] = n % 256
  <2>1. n \div 16777216 = 0 /\ n \div 65536 = 0
    BY <1>1
  <2>2. n \div 256 \in Nat /\ n \div 256 < 256
    BY <1>1
  <2>3. (n \div 256) % 256 = n \div 256
    BY <2>2
  <2> QED
    BY <1>3, <2>1, <2>3
<1>5. b \in Word(4)
  BY BeType
<1> HIDE DEF b
<1>6. b \in Seq(Byte) /\ Len(b) >= 4 /\ Len(b) <= 4 /\ Len(b) \in Nat
  BY <1>5, WordLength
<1> DEFINE high == SubSeq(b, 1, Len(b) - 3)
           low  == SubSeq(b, Len(b) - 2, Len(b))
<1>7. /\ high \in Seq(Byte) /\ Len(high) \in Nat /\ Len(high) <= 1 /\ Len(high) >= 1
      /\ high[1] = b[1]
  BY <1>6
<1>8. /\ Len(low) \in Nat /\ Len(low) >= 3 /\ Len(low) <= 3
      /\ low[1] = b[2] /\ low[2] = b[3] /\ low[3] = b[4]
  BY <1>6
<1> HIDE DEF high, low
<1>9. (\A i \in DOMAIN high : high[i] = 0) /\ 1 \in DOMAIN high
  <2>1. DOMAIN high = 1 .. Len(high)
    BY <1>7
  <2>2. \A i \in DOMAIN high : i = 1
    BY <1>7, <2>1
  <2>3. 1 \in DOMAIN high
    BY <1>7, <2>1
  <2> QED
    BY <1>4, <1>7, <2>2, <2>3
<1>10. n = 256 * (n \div 256) + (n % 256) /\ n \div 256 \in Int /\ n % 256 \in Int
  OBVIOUS
<1>11. \A i \in 1 .. 3 : low[i] \in Int
  BY <1>4, <1>8, <1>10
<1>12. Unsigned(low) = 256 * (256 * low[1] + low[2]) + low[3]
  BY <1>8, <1>11, UnsignedThree
<1>13. Unsigned(low) = n
  BY <1>4, <1>8, <1>10, <1>12
<1>14. Signed(b) = Unsigned(low)
  <2>1. ~(\A i \in DOMAIN high : high[i] = 255)
    BY <1>9
  <2> QED
    BY <1>9, <2>1 DEF Signed, high, low
<1> QED
  BY <1>4, <1>13, <1>14 DEF b

Snapshots == {s \in [revision : Word(8), checksum : Word(8), snapshot : Seq(Byte)] : MaySend(s.snapshot)}

(* The browser gets the snapshot the server has sent.                      *)
THEOREM SnapshotsRoundTrip ==
  ASSUME NEW s \in Snapshots
  PROVE  SnapshotFrameFrom(SnapshotFrame(s)) = s
<1>1. /\ s.revision \in Word(8) /\ s.checksum \in Word(8) /\ s.snapshot \in Seq(Byte) /\ MaySend(s.snapshot)
      /\ s = [revision |-> s.revision, checksum |-> s.checksum, snapshot |-> s.snapshot]
  BY DEF Snapshots
<1> DEFINE n == Len(s.snapshot)
           v == Be(2, 1)
           size == Be(4, n)
           revision == s.revision
           checksum == s.checksum
           snapshot == s.snapshot
           bytes == SnapshotFrame(s)
<1>2. n \in Nat /\ n <= MaxSnapshotBytes /\ snapshot \in Word(n)
  <2>1. snapshot \in [1 .. n -> Byte]
    BY <1>1
  <2> QED
    BY <1>1, <2>1 DEF MaySend, Word
<1>3. bytes = v \o revision \o checksum \o size \o snapshot
  BY DEF SnapshotFrame, ProtocolVersion
<1>4. v \in Word(2) /\ size \in Word(4) /\ Sixteen(1) = 1 /\ revision \in Word(8) /\ checksum \in Word(8)
  <2>1. v \in Word(2) /\ size \in Word(4)
    BY <1>2, BeType
  <2> QED
    BY <1>1, <2>1, UnsignedNumber
<1>5. size[1] = 0 /\ Signed(size) = n
  BY <1>2, SizeRoundTrip
<1>6. s = [revision |-> revision, checksum |-> checksum, snapshot |-> snapshot]
  BY <1>1
<1>7. n = Len(snapshot)
  OBVIOUS
<1> HIDE DEF v, size, revision, checksum, snapshot, bytes, n
<1>8. /\ bytes \in Word(10 + 8 + 4 + n)
      /\ Holds(bytes, 0, v) /\ Holds(bytes, 2, revision) /\ Holds(bytes, 10, checksum)
      /\ Holds(bytes, 10 + 8, size) /\ Holds(bytes, 10 + 8 + 4, snapshot)
  BY <1>2, <1>3, <1>4, FrameParts
<1>9. /\ bytes \in Word(22 + n)
      /\ Holds(bytes, 0, v) /\ Holds(bytes, 2, revision) /\ Holds(bytes, 10, checksum)
      /\ Holds(bytes, 18, size) /\ Holds(bytes, 22, snapshot)
  BY <1>2, <1>8
<1>10. bytes \in Seq(Byte) /\ Len(bytes) = 22 + n
  <2>1. 22 + n \in Nat
    BY <1>2
  <2> QED
    BY <1>9, <2>1, WordLength
<1>11. bytes \in Seq(Byte)
  BY <1>10
<1> DEFINE f1 == Field("protocol", 2, {1})
           f2 == Raw("revision", 8)
           f3 == Raw("checksum", 8)
           f4 == Raw("size", 4)
           g1 == With(<<>>, "protocol", 1)
           g2 == With(g1, "revision", revision)
           g3 == With(g2, "checksum", checksum)
           g4 == With(g3, "size", size)
           r  == ReadAll(Reader(bytes), SnapshotFields)
<1>12. SnapshotFields = <<f1, f2, f3, f4>>
  BY DEF SnapshotFields, ProtocolVersion
<1>13. g4.revision = revision /\ g4.checksum = checksum /\ g4.size = size
  BY DEF With
<1> HIDE DEF g1, g2, g3, g4
<1>14. Take(Got(bytes, 0, <<>>), f1) = Got(bytes, 2, g1)
  <2>1. Take(Got(bytes, 0, <<>>), f1) = Got(bytes, 0 + 2, With(<<>>, "protocol", Sixteen(1)))
    BY <1>4, <1>9, <1>11, TakeNumber DEF v
  <2> QED
    BY <1>4, <2>1 DEF g1
<1>15. Take(Got(bytes, 2, g1), f2) = Got(bytes, 10, g2)
  <2>1. Take(Got(bytes, 2, g1), f2) = Got(bytes, 2 + 8, With(g1, "revision", revision))
    BY <1>4, <1>9, <1>11, TakeRaw
  <2> QED
    BY <2>1 DEF g2
<1>16. Take(Got(bytes, 10, g2), f3) = Got(bytes, 18, g3)
  <2>1. Take(Got(bytes, 10, g2), f3) = Got(bytes, 10 + 8, With(g2, "checksum", checksum))
    BY <1>4, <1>9, <1>11, TakeRaw
  <2> QED
    BY <2>1 DEF g3
<1>17. Take(Got(bytes, 18, g3), f4) = Got(bytes, 22, g4)
  <2>1. Take(Got(bytes, 18, g3), f4) = Got(bytes, 18 + 4, With(g3, "size", size))
    BY <1>4, <1>9, <1>11, TakeRaw
  <2> QED
    BY <2>1 DEF g4
<1>18. Reader(bytes) = Got(bytes, 0, <<>>)
  BY DEF Reader, Got
<1> HIDE DEF f1, f2, f3, f4
<1>19. r = Got(bytes, 22, g4)
  <2>1. r = Take(Take(Take(Take(Reader(bytes), f1), f2), f3), f4)
    BY <1>12, ReadFour
  <2> QED
    BY <1>14, <1>15, <1>16, <1>17, <1>18, <2>1
<1> HIDE DEF r
<1>20. /\ r.ok /\ r.at = 22 /\ r.bytes = bytes
       /\ r.got.revision = revision /\ r.got.checksum = checksum /\ r.got.size = size
  BY <1>13, <1>19 DEF Got
<1>21. ~(Len(bytes) > MaxSnapshotBytes + 22) /\ ~(n > MaxSnapshotBytes) /\ Remaining(r) = n
  BY <1>2, <1>10, <1>20 DEF MaxSnapshotBytes, Remaining
<1>22. SubSeq(bytes, 22 + 1, Len(bytes)) = snapshot
  <2>1. snapshot \in Seq(Byte)
    BY <1>2, WordLength
  <2>2. SubSeq(bytes, 22 + 1, 22 + Len(snapshot)) = snapshot
    BY <1>9, <1>11, <2>1, HoldsSlice
  <2> QED
    BY <1>7, <1>10, <2>2
<1>23. (IF r.got.size[1] > 127 THEN MaxSnapshotBytes + 1 ELSE Signed(r.got.size)) = n
  BY <1>5, <1>20
<1>24. SnapshotFrameFrom(bytes)
        = [ revision |-> r.got.revision, checksum |-> r.got.checksum,
            snapshot |-> SubSeq(bytes, r.at + 1, Len(bytes)) ]
  BY <1>20, <1>21, <1>23, Zenon DEF SnapshotFrameFrom, r
<1>25. SnapshotFrameFrom(bytes) = s
  BY <1>6, <1>20, <1>22, <1>24
<1> QED
  BY <1>25 DEF bytes

-----------------------------------------------------------------------------
(* Payloads whose parts have lengths of their own are read from the front: *)
(* what is left of the bytes after the first at.                           *)
Ends(bytes, at, rest) ==
  /\ bytes \in Seq(Byte) /\ rest \in Seq(Byte) /\ at \in Nat
  /\ Len(bytes) = at + Len(rest)
  /\ Holds(bytes, at, rest)

(* A part that stands in front, and what is left after it.                 *)
LEMMA FrontPart ==
  ASSUME NEW bytes, NEW at, NEW x \in Seq(Byte), NEW y \in Seq(Byte), Ends(bytes, at, x \o y)
  PROVE  Holds(bytes, at, x) /\ Ends(bytes, at + Len(x), y)
<1> DEFINE w == x \o y
<1>1. Len(x) \in Nat /\ Len(y) \in Nat /\ w \in Seq(Byte) /\ Len(w) = Len(x) + Len(y)
  OBVIOUS
<1>2. Holds(w, 0, x) /\ Holds(w, Len(x), y)
  <2>1. Holds(x, 0, x)
    BY HoldsAll
  <2> QED
    BY <2>1, <1>1, HoldsBefore, HoldsAfter
<1>3. Ends(bytes, at, w)
  OBVIOUS
<1> HIDE DEF w
<1>4. bytes \in Seq(Byte) /\ at \in Nat /\ Len(bytes) = at + Len(w) /\ Holds(bytes, at, w)
  BY <1>3 DEF Ends
<1>8. Len(bytes) \in Nat
  BY <1>4
<1>5. Holds(bytes, at + 0, x)
  BY <1>1, <1>2, <1>4, <1>8, HoldsWithin
<1>6. Holds(bytes, at + Len(x), y)
  BY <1>1, <1>2, <1>4, <1>8, HoldsWithin
<1>7. at + 0 = at /\ at + Len(x) \in Nat /\ Len(bytes) = (at + Len(x)) + Len(y)
  BY <1>1, <1>4
<1> QED
  BY <1>4, <1>5, <1>6, <1>7 DEF Ends

(* A byte that a field may hold is taken from the front.                   *)
LEMMA FrontByte ==
  ASSUME NEW bytes, NEW at, NEW n \in Byte, NEW rest \in Seq(Byte), Ends(bytes, at, <<n>> \o rest),
         NEW got, NEW name, NEW legal, n \in legal
  PROVE  /\ Take(Got(bytes, at, got), Field(name, 1, legal)) = Got(bytes, at + 1, With(got, name, n))
         /\ Ends(bytes, at + 1, rest)
<1> DEFINE x == <<n>>
<1>1. x \in Seq(Byte) /\ Len(x) = 1 /\ Ends(bytes, at, x \o rest)
  OBVIOUS
<1>2. bytes \in Seq(Byte) /\ at \in Nat
  BY DEF Ends
<1> HIDE DEF x
<1>3. Holds(bytes, at, x) /\ Ends(bytes, at + Len(x), rest)
  BY <1>1, FrontPart
<1>4. Holds(bytes, at, <<n>>)
  BY <1>3 DEF x
<1> QED
  BY <1>1, <1>2, <1>3, <1>4, TakeByte

LEMMA FinishedAtTheEnd ==
  ASSUME NEW bytes, NEW at, Ends(bytes, at, << >>), NEW got
  PROVE  Finished(Got(bytes, at, got))
<1>1. bytes \in Seq(Byte) /\ at \in Nat /\ Len(bytes) = at
  BY DEF Ends
<1> QED
  BY <1>1 DEF Finished, Remaining, Got

(* A reader that goes on with other fields.                                *)
LEMMA GotOther ==
  ASSUME NEW bytes, NEW at, NEW got, NEW other
  PROVE  [Got(bytes, at, got) EXCEPT !.got = other] = Got(bytes, at, other)
<1> DEFINE r == Got(bytes, at, got)
           s == [r EXCEPT !.got = other]
           w == Got(bytes, at, other)
<1>1. DOMAIN r = {"bytes", "at", "got", "ok"} /\ DOMAIN w = {"bytes", "at", "got", "ok"}
  BY DEF Got
<1>2. r.bytes = bytes /\ r.at = at /\ r.ok = TRUE /\ w.bytes = bytes /\ w.at = at /\ w.got = other /\ w.ok = TRUE
  BY DEF Got
<1>3. w = [n \in {"bytes", "at", "got", "ok"} |-> w[n]]
  BY DEF Got
<1> HIDE DEF r, w
<1>4. s = [n \in {"bytes", "at", "got", "ok"} |-> IF n = "got" THEN other ELSE r[n]]
  BY <1>1
<1> HIDE DEF s
<1>5. \A n \in {"bytes", "at", "got", "ok"} : (IF n = "got" THEN other ELSE r[n]) = w[n]
  BY <1>2
<1>6. s = w
  BY <1>3, <1>4, <1>5
<1> QED
  BY <1>6 DEF s, w, r

LEMMA Associates ==
  ASSUME NEW x \in Seq(Byte), NEW y \in Seq(Byte), NEW z \in Seq(Byte)
  PROVE  (x \o y) \o z = x \o (y \o z)
<1> DEFINE l == (x \o y) \o z
           r == x \o (y \o z)
<1>1. Len(x) \in Nat /\ Len(y) \in Nat /\ Len(z) \in Nat
  OBVIOUS
<1>2. l \in Seq(Byte) /\ r \in Seq(Byte) /\ Len(l) = Len(r) /\ Len(r) = Len(x) + Len(y) + Len(z)
  OBVIOUS
<1>3. ASSUME NEW i \in 1 .. Len(r)
      PROVE  l[i] = r[i]
  <2>1. i \in 1 .. Len(x) + Len(y) + Len(z)
    BY <1>2
  <2>2. CASE i <= Len(x)
    BY <1>1, <2>1, <2>2
  <2>3. CASE Len(x) < i /\ i <= Len(x) + Len(y)
    BY <1>1, <2>1, <2>3
  <2>4. CASE Len(x) + Len(y) < i
    BY <1>1, <2>1, <2>4
  <2> QED
    BY <1>1, <2>1, <2>2, <2>3, <2>4
<1> HIDE DEF l, r
<1>4. l = r
  BY <1>2, <1>3
<1> QED
  BY <1>4 DEF l, r

LEMMA EndsWhole ==
  ASSUME NEW bytes \in Seq(Byte)
  PROVE  Ends(bytes, 0, bytes)
BY DEF Ends, Holds

(* Concatenations in parts.                                                *)
Payload(x) == x \in Seq(Byte)

LEMMA PayloadsJoin ==
  ASSUME NEW x, NEW y, Payload(x), Payload(y)
  PROVE  Payload(x \o y)
BY DEF Payload

Associate(x, y, z) == (x \o y) \o z = x \o (y \o z)

LEMMA PayloadsAssociate ==
  ASSUME NEW x, NEW y, NEW z, Payload(x), Payload(y), Payload(z)
  PROVE  Associate(x, y, z)
BY Associates DEF Payload, Associate

ThreeInFront(l, u, v, x, y) == (((l \o u) \o v) \o x) \o y = l \o (u \o (v \o (x \o y)))

LEMMA NestedThree ==
  ASSUME NEW u, NEW v, NEW x, NEW y, NEW l,
         Payload(u), Payload(v), Payload(x), Payload(y), Payload(l)
  PROVE  ThreeInFront(l, u, v, x, y)
<1>1. Payload(l \o u) /\ Payload((l \o u) \o v)
  BY PayloadsJoin
<1>2. Payload(x \o y) /\ Payload(v \o (x \o y))
  BY PayloadsJoin
<1>3. Associate((l \o u) \o v, x, y)
  BY <1>1, PayloadsAssociate
<1>4. Associate(l \o u, v, x \o y)
  BY <1>1, <1>2, PayloadsAssociate
<1>5. Associate(l, u, v \o (x \o y))
  BY <1>2, PayloadsAssociate
<1> QED
  BY <1>3, <1>4, <1>5 DEF Associate, ThreeInFront

FiveBehind(l, u, v, w, x, y) ==
  ((((l \o u) \o v) \o w) \o x) \o y = l \o (u \o (v \o (w \o (x \o (y \o << >>)))))

LEMMA NestedFive ==
  ASSUME NEW u, NEW v, NEW w, NEW x, NEW y, NEW l,
         Payload(u), Payload(v), Payload(w), Payload(x), Payload(y), Payload(l)
  PROVE  FiveBehind(l, u, v, w, x, y)
<1>1. y \o << >> = y
  BY DEF Payload
<1>2. Payload(l \o u) /\ Payload((l \o u) \o v) /\ Payload(((l \o u) \o v) \o w)
  BY PayloadsJoin
<1>3. Payload(x \o y) /\ Payload(w \o (x \o y)) /\ Payload(v \o (w \o (x \o y)))
  BY PayloadsJoin
<1>4. Associate(((l \o u) \o v) \o w, x, y)
  BY <1>2, PayloadsAssociate
<1>5. Associate((l \o u) \o v, w, x \o y)
  BY <1>2, <1>3, PayloadsAssociate
<1>6. Associate(l \o u, v, w \o (x \o y))
  BY <1>2, <1>3, PayloadsAssociate
<1>7. Associate(l, u, v \o (w \o (x \o y)))
  BY <1>3, PayloadsAssociate
<1> QED
  BY <1>1, <1>4, <1>5, <1>6, <1>7 DEF Associate, FiveBehind

(* Payloads that are joined, one after the other.                         *)
LEMMA JoinedByStep ==
  ASSUME NEW payloads, Len(payloads) \in Nat
  PROVE  \E u : /\ u[0] = << >>
                /\ \A n \in 1 .. Len(payloads) : u[n] = u[n - 1] \o payloads[n]
                /\ Joined(payloads) = u[Len(payloads)]
<1> DEFINE Step(u, m) == u = [n \in 0 .. m |-> IF n = 0 THEN << >> ELSE u[n - 1] \o payloads[n]]
           T == {m \in Nat : \E u : Step(u, m)}
<1>1. 0 \in T
  <2> DEFINE g == [n \in 0 .. 0 |-> << >>]
  <2>1. Step(g, 0)
    OBVIOUS
  <2> QED
    BY <2>1
<1>2. ASSUME NEW m \in T
      PROVE  m + 1 \in T
  <2>1. m \in Nat /\ \E u : Step(u, m)
    OBVIOUS
  <2>2. PICK u : Step(u, m)
    BY <2>1
  <2> DEFINE g == [n \in 0 .. m + 1 |-> IF n = m + 1 THEN u[m] \o payloads[m + 1] ELSE u[n]]
  <2>3. ASSUME NEW n \in 0 .. m + 1
        PROVE  g[n] = IF n = 0 THEN << >> ELSE g[n - 1] \o payloads[n]
    <3>1. CASE n = m + 1
      BY <2>1, <3>1
    <3>2. CASE n \in 0 .. m
      <4>1. u[n] = IF n = 0 THEN << >> ELSE u[n - 1] \o payloads[n]
        BY <2>2, <3>2
      <4>2. g[n] = u[n] /\ (n # 0 => g[n - 1] = u[n - 1])
        BY <2>1, <3>2
      <4> QED
        BY <4>1, <4>2
    <3> QED
      BY <2>1, <3>1, <3>2
  <2>4. Step(g, m + 1)
    BY <2>3
  <2> HIDE DEF Step, g
  <2> QED
    BY <2>1, <2>4
<1>3. T = Nat
  <2> HIDE DEF T
  <2>1. T \subseteq Nat
    BY DEF T
  <2> QED
    BY <1>1, <1>2, <2>1, Upwards
<1>4. \E u : Step(u, Len(payloads))
  BY <1>3
<1> DEFINE U == CHOOSE u : Step(u, Len(payloads))
<1>5. Step(U, Len(payloads))
  BY <1>4, Zenon
<1>6. Joined(payloads) = U[Len(payloads)]
  BY DEF Joined
<1> HIDE DEF U
<1>7. U[0] = << >> /\ \A n \in 1 .. Len(payloads) : U[n] = U[n - 1] \o payloads[n]
  BY <1>5
<1> QED
  BY <1>6, <1>7

Follows(u, parts, prior, i) == u[i] = u[prior] \o parts[i]

LEMMA JoinedUpTo ==
  ASSUME NEW parts, NEW n \in Nat, Len(parts) = n
  PROVE  \E u : /\ u[0] = << >>
                /\ \A i \in 1 .. n : Follows(u, parts, i - 1, i)
                /\ Joined(parts) = u[n]
<1>1. Len(parts) \in Nat
  OBVIOUS
<1>2. PICK u : /\ u[0] = << >>
               /\ \A i \in 1 .. Len(parts) : u[i] = u[i - 1] \o parts[i]
               /\ Joined(parts) = u[Len(parts)]
  BY <1>1, JoinedByStep
<1>3. \A i \in 1 .. Len(parts) : Follows(u, parts, i - 1, i)
  BY <1>2, Zenon DEF Follows
<1> QED
  BY <1>2, <1>3

Taken(v, fields, prior, i) == v[i] = Take(v[prior], fields[i])

TakenUpTo(v, r, fields, n) ==
  v[0] = r /\ (\A i \in 1 .. n : Taken(v, fields, i - 1, i)) /\ ReadAll(r, fields) = v[n]

LEMMA ReadAllUpTo ==
  ASSUME NEW r, NEW fields, NEW n \in Nat, Len(fields) = n
  PROVE  \E v : TakenUpTo(v, r, fields, n)
<1>1. Len(fields) \in Nat
  OBVIOUS
<1>2. PICK v : /\ v[0] = r
               /\ \A i \in 1 .. Len(fields) : v[i] = Take(v[i - 1], fields[i])
               /\ ReadAll(r, fields) = v[Len(fields)]
  BY <1>1, ReadAllByStep
<1>3. \A i \in 1 .. Len(fields) : Taken(v, fields, i - 1, i)
  BY <1>2, Zenon DEF Taken
<1> QED
  BY <1>2, <1>3 DEF TakenUpTo

(* Each of the payloads is found where those before it end.                *)
LEMMA PartsHeld ==
  ASSUME NEW parts, NEW u, NEW n \in Nat, \A i \in 1 .. n : parts[i] \in Seq(Byte),
         u[0] = << >>, \A i \in 1 .. n : u[i] = u[i - 1] \o parts[i]
  PROVE  /\ \A i \in 0 .. n : u[i] \in Seq(Byte)
         /\ \A i \in 1 .. n : Holds(u[n], Len(u[i - 1]), parts[i])
<1> DEFINE Good(m) == /\ \A i \in 0 .. m : u[i] \in Seq(Byte)
                      /\ \A i \in 1 .. m : Holds(u[m], Len(u[i - 1]), parts[i])
           T == {m \in Nat : m <= n => Good(m)}
<1>1. 0 \in T
  <2>1. << >> \in Seq(Byte)
    OBVIOUS
  <2>2. ASSUME NEW i \in 0 .. 0
        PROVE  u[i] \in Seq(Byte)
    <3>1. i = 0
      OBVIOUS
    <3> QED
      BY <2>1, <3>1
  <2> QED
    BY <2>2
<1>2. ASSUME NEW m \in T
      PROVE  m + 1 \in T
  <2> SUFFICES ASSUME m + 1 <= n
               PROVE  Good(m + 1)
    OBVIOUS
  <2>1. m \in Nat /\ Good(m) /\ m \in 0 .. m
    OBVIOUS
  <2>2. u[m] \in Seq(Byte) /\ parts[m + 1] \in Seq(Byte) /\ u[m + 1] = u[m] \o parts[m + 1]
    <3>1. m + 1 \in 1 .. n /\ (m + 1) - 1 = m
      BY <2>1
    <3>2. u[m + 1] = u[(m + 1) - 1] \o parts[m + 1]
      BY <3>1
    <3> QED
      BY <2>1, <3>1, <3>2
  <2>3. u[m + 1] \in Seq(Byte)
    BY <2>2
  <2>4. ASSUME NEW i \in 1 .. m + 1
        PROVE  Holds(u[m + 1], Len(u[i - 1]), parts[i])
    <3>1. CASE i = m + 1
      BY <2>1, <2>2, <3>1, HoldsAfter
    <3>2. CASE i \in 1 .. m
      <4>1. Holds(u[m], Len(u[i - 1]), parts[i]) /\ i - 1 \in 0 .. m
        BY <2>1, <3>2
      <4>2. Len(u[i - 1]) \in Nat /\ Len(parts[i]) \in Nat
        <5>1. u[i - 1] \in Seq(Byte) /\ parts[i] \in Seq(Byte)
          BY <2>1, <4>1
        <5> QED
          BY <5>1
      <4> DEFINE at == Len(u[i - 1])
                 raw == parts[i]
      <4> HIDE DEF at, raw
      <4>3. Holds(u[m], at, raw) /\ at \in Nat /\ Len(raw) \in Nat
        BY <4>1, <4>2 DEF at, raw
      <4>4. Holds(u[m] \o parts[m + 1], at, raw)
        BY <2>2, <4>3, HoldsBefore
      <4> QED
        BY <2>2, <4>4 DEF at, raw
    <3> QED
      BY <2>1, <3>1, <3>2
  <2>5. \A i \in 0 .. m + 1 : u[i] \in Seq(Byte)
    BY <2>1, <2>3
  <2> QED
    BY <2>4, <2>5
<1>3. T = Nat
  <2> HIDE DEF T
  <2>1. T \subseteq Nat
    BY DEF T
  <2> QED
    BY <1>1, <1>2, <2>1, Upwards
<1> QED
  BY <1>3

(* A payload that a field can take, and a row of payloads that a list of   *)
(* fields of different names can take.                                     *)
FieldFits(raw, field) == raw \in Seq(Byte) /\ field.width = Len(raw) /\ Fits(raw, field)

RowFits(parts, fields, n) ==
  /\ n \in Nat /\ Len(parts) = n /\ Len(fields) = n
  /\ \A i \in 1 .. n : FieldFits(parts[i], fields[i])
  /\ \A i, k \in 1 .. n : fields[i].name = fields[k].name => i = k

(* What was got when they are read, and what was there before.             *)
RowSaid(later, got, parts, fields, n) ==
  /\ \A i \in 1 .. n : fields[i].name \in DOMAIN later /\ later[fields[i].name] = Value(parts[i])
  /\ \A m \in DOMAIN got : (\A i \in 1 .. n : fields[i].name # m) => m \in DOMAIN later /\ later[m] = got[m]

RowIsRead(bytes, at, got, parts, fields, n, rest) ==
  \E j, later : /\ ReadAll(Got(bytes, at, got), fields) = Got(bytes, j, later)
                /\ Ends(bytes, j, rest) /\ RowSaid(later, got, parts, fields, n)

(* One more field.                                                         *)
LEMMA RowGrows ==
  ASSUME NEW later, NEW got, NEW parts, NEW fields, NEW n \in Nat,
         \A i, k \in 1 .. n + 1 : fields[i].name = fields[k].name => i = k,
         RowSaid(later, got, parts, fields, n)
  PROVE  RowSaid(With(later, fields[n + 1].name, Value(parts[n + 1])), got, parts, fields, n + 1)
<1> DEFINE name == fields[n + 1].name
           value == Value(parts[n + 1])
           g == With(later, name, value)
<1>1. /\ DOMAIN g = DOMAIN later \cup {name} /\ g[name] = value
      /\ \A m \in DOMAIN later : m # name => g[m] = later[m]
  <2> HIDE DEF name, value
  <2> QED
    BY DEF With
<1> HIDE DEF g
<1>2. ASSUME NEW i \in 1 .. n + 1
      PROVE  fields[i].name \in DOMAIN g /\ g[fields[i].name] = Value(parts[i])
  <2>1. CASE i = n + 1
    BY <1>1, <2>1
  <2>2. CASE i \in 1 .. n
    <3>1. fields[i].name # name
      BY <2>2
    <3>2. fields[i].name \in DOMAIN later /\ later[fields[i].name] = Value(parts[i])
      BY <2>2 DEF RowSaid
    <3> QED
      BY <1>1, <3>1, <3>2
  <2> QED
    BY <2>1, <2>2
<1>3. ASSUME NEW m \in DOMAIN got, \A i \in 1 .. n + 1 : fields[i].name # m
      PROVE  m \in DOMAIN g /\ g[m] = got[m]
  <2>1. \A i \in 1 .. n : fields[i].name # m
    BY <1>3
  <2>2. m # name
    BY <1>3
  <2>3. m \in DOMAIN later /\ later[m] = got[m]
    BY <2>1 DEF RowSaid
  <2> QED
    BY <1>1, <2>2, <2>3
<1>4. RowSaid(g, got, parts, fields, n + 1)
  BY <1>2, <1>3 DEF RowSaid
<1> QED
  BY <1>4 DEF g

LEMMA RowRead ==
  ASSUME NEW parts, NEW fields, NEW n, RowFits(parts, fields, n),
         NEW bytes, NEW at, NEW got, NEW rest \in Seq(Byte), Ends(bytes, at, Joined(parts) \o rest)
  PROVE  RowIsRead(bytes, at, got, parts, fields, n, rest)
<1>1. /\ n \in Nat /\ Len(parts) = n /\ Len(fields) = n
      /\ \A i \in 1 .. n : parts[i] \in Seq(Byte) /\ fields[i].width = Len(parts[i]) /\ Fits(parts[i], fields[i])
      /\ \A i, k \in 1 .. n : fields[i].name = fields[k].name => i = k
  BY DEF RowFits, FieldFits
<1>2. \E u : u[0] = << >> /\ (\A i \in 1 .. n : u[i] = u[i - 1] \o parts[i]) /\ Joined(parts) = u[n]
  <2>1. Len(parts) \in Nat
    BY <1>1
  <2>2. PICK u : /\ u[0] = << >>
                 /\ \A i \in 1 .. Len(parts) : u[i] = u[i - 1] \o parts[i]
                 /\ Joined(parts) = u[Len(parts)]
    BY <2>1, JoinedByStep
  <2> QED
    BY <1>1, <2>2
<1>A. PICK u : u[0] = << >> /\ (\A i \in 1 .. n : u[i] = u[i - 1] \o parts[i]) /\ Joined(parts) = u[n]
  BY <1>2
<1>3. /\ \A i \in 0 .. n : u[i] \in Seq(Byte)
      /\ \A i \in 1 .. n : Holds(u[n], Len(u[i - 1]), parts[i])
  BY <1>1, <1>A, PartsHeld
<1> DEFINE w == u[n]
<1>4. w \in Seq(Byte) /\ Ends(bytes, at, w \o rest)
  BY <1>1, <1>A, <1>3
<1>5. bytes \in Seq(Byte) /\ at \in Nat /\ Holds(bytes, at, w) /\ Ends(bytes, at + Len(w), rest)
  <2> HIDE DEF w
  <2>1. bytes \in Seq(Byte) /\ at \in Nat
    BY DEF Ends
  <2> QED
    BY <1>4, <2>1, FrontPart
<1>6. ASSUME NEW i \in 1 .. n
      PROVE  Holds(bytes, at + Len(u[i - 1]), parts[i])
  <2> DEFINE within == Len(u[i - 1])
             raw == parts[i]
  <2>1. u[i - 1] \in Seq(Byte) /\ raw \in Seq(Byte)
    BY <1>1, <1>3
  <2>2. within \in Nat /\ Len(raw) \in Nat /\ Len(bytes) \in Nat /\ Len(w) \in Nat
    BY <1>4, <1>5, <2>1
  <2>3. Holds(w, within, raw)
    BY <1>3
  <2> HIDE DEF within, raw, w
  <2>4. Holds(bytes, at + within, raw)
    BY <1>5, <2>2, <2>3, HoldsWithin
  <2> QED
    BY <2>4 DEF within, raw
<1> DEFINE r == Got(bytes, at, got)
<1>b. \E v : v[0] = r /\ (\A i \in 1 .. n : v[i] = Take(v[i - 1], fields[i])) /\ ReadAll(r, fields) = v[n]
  <2> HIDE DEF r
  <2>1. Len(fields) \in Nat
    BY <1>1
  <2>2. PICK v : /\ v[0] = r
                 /\ \A i \in 1 .. Len(fields) : v[i] = Take(v[i - 1], fields[i])
                 /\ ReadAll(r, fields) = v[Len(fields)]
    BY <2>1, ReadAllByStep
  <2> QED
    BY <1>1, <2>2
<1>7. PICK v : v[0] = r /\ (\A i \in 1 .. n : v[i] = Take(v[i - 1], fields[i])) /\ ReadAll(r, fields) = v[n]
  BY <1>b
<1> DEFINE Good(m) == \E later : v[m] = Got(bytes, at + Len(u[m]), later) /\ RowSaid(later, got, parts, fields, m)
           T == {m \in Nat : m <= n => Good(m)}
<1>8. 0 \in T
  <2>1. Len(u[0]) = 0 /\ at + 0 = at
    BY <1>A, <1>5
  <2>2. RowSaid(got, got, parts, fields, 0)
    BY DEF RowSaid
  <2> QED
    BY <1>7, <2>1, <2>2
<1>9. ASSUME NEW m \in T
      PROVE  m + 1 \in T
  <2> SUFFICES ASSUME m + 1 <= n
               PROVE  Good(m + 1)
    OBVIOUS
  <2>1. m \in Nat /\ Good(m) /\ m + 1 \in 1 .. n /\ m \in 0 .. n /\ m + 1 \in 0 .. n /\ (m + 1) - 1 = m
    BY <1>1
  <2>2. PICK later : v[m] = Got(bytes, at + Len(u[m]), later) /\ RowSaid(later, got, parts, fields, m)
    BY <2>1
  <2> DEFINE f == fields[m + 1]
             x == parts[m + 1]
             place == at + Len(u[m])
             g == With(later, f.name, Value(x))
  <2>3. x \in Seq(Byte) /\ f.width = Len(x) /\ Fits(x, f) /\ Holds(bytes, place, x) /\ v[m + 1] = Take(v[m], f)
    BY <1>1, <1>6, <1>7, <2>1
  <2>4. place \in Nat
    <3>1. u[m] \in Seq(Byte)
      BY <1>3, <2>1
    <3> QED
      BY <1>5, <3>1
  <2>5. v[m] = Got(bytes, place, later)
    BY <2>2
  <2> HIDE DEF place, x, f, g, Good, T
  <2>6. Take(Got(bytes, place, later), f) = Got(bytes, place + Len(x), With(later, f.name, Value(x)))
    BY <1>5, <2>3, <2>4, TakeHolds
  <2>7. place + Len(x) = at + Len(u[m + 1])
    <3>1. u[m] \in Seq(Byte) /\ u[m + 1] = u[m] \o x
      <4>1. u[m + 1] = u[(m + 1) - 1] \o parts[m + 1]
        BY <1>A, <2>1
      <4> QED
        BY <1>3, <2>1, <4>1 DEF x
    <3>2. Len(u[m + 1]) = Len(u[m]) + Len(x) /\ Len(u[m]) \in Nat /\ Len(x) \in Nat
      BY <2>3, <3>1
    <3> QED
      BY <1>5, <3>2 DEF place
  <2>8. RowSaid(g, got, parts, fields, m + 1)
    <3>1. \A i, k \in 1 .. m + 1 : fields[i].name = fields[k].name => i = k
      BY <1>1, <2>1
    <3> QED
      BY <2>1, <2>2, <3>1, RowGrows DEF g, f, x
  <2>9. v[m + 1] = Got(bytes, at + Len(u[m + 1]), g)
    BY <2>3, <2>5, <2>6, <2>7 DEF g
  <2> QED
    BY <2>8, <2>9 DEF Good
<1>10. T = Nat
  <2> HIDE DEF T
  <2>1. T \subseteq Nat
    BY DEF T
  <2> QED
    BY <1>8, <1>9, <2>1, Upwards
<1>11. Good(n)
  BY <1>1, <1>10
<1> HIDE DEF T, Good
<1>12. PICK later : v[n] = Got(bytes, at + Len(u[n]), later) /\ RowSaid(later, got, parts, fields, n)
  BY <1>11 DEF Good
<1> QED
  BY <1>5, <1>7, <1>12 DEF RowIsRead

JoinsTwo(a, b) == Joined(<< a, b >>) = a \o b

LEMMA JoinedTwo ==
  ASSUME NEW a \in Seq(Byte), NEW b \in Seq(Byte)
  PROVE  JoinsTwo(a, b)
<1> DEFINE parts == << a, b >>
<1>1. Len(parts) = 2
  OBVIOUS
<1>2. parts[1] = a /\ parts[2] = b
  OBVIOUS
<1> HIDE DEF parts
<1>3. PICK u : /\ u[0] = << >>
               /\ \A i \in 1 .. 2 : Follows(u, parts, i - 1, i)
               /\ Joined(parts) = u[2]
  BY <1>1, JoinedUpTo
<1>4. u[1] = a
  <2>1. Follows(u, parts, 0, 1)
    BY <1>1, <1>3
  <2> QED
    BY <1>2, <1>3, <2>1 DEF Follows
<1>5. u[2] = u[1] \o b
  <2>1. Follows(u, parts, 1, 2)
    BY <1>1, <1>3
  <2> QED
    BY <1>2, <2>1 DEF Follows
<1> QED
  BY <1>1, <1>3, <1>4, <1>5 DEF parts, JoinsTwo

JoinsThree(a, b, c) == Joined(<< a, b, c >>) = a \o b \o c

LEMMA JoinedThree ==
  ASSUME NEW a \in Seq(Byte), NEW b \in Seq(Byte), NEW c \in Seq(Byte)
  PROVE  JoinsThree(a, b, c)
<1> DEFINE parts == << a, b, c >>
<1>1. Len(parts) = 3
  OBVIOUS
<1>2. parts[1] = a /\ parts[2] = b /\ parts[3] = c
  OBVIOUS
<1> HIDE DEF parts
<1>3. PICK u : /\ u[0] = << >>
               /\ \A i \in 1 .. 3 : Follows(u, parts, i - 1, i)
               /\ Joined(parts) = u[3]
  BY <1>1, JoinedUpTo
<1>4. u[1] = a
  <2>1. Follows(u, parts, 0, 1)
    BY <1>1, <1>3
  <2> QED
    BY <1>2, <1>3, <2>1 DEF Follows
<1>5. u[2] = u[1] \o b
  <2>1. Follows(u, parts, 1, 2)
    BY <1>1, <1>3
  <2> QED
    BY <1>2, <2>1 DEF Follows
<1>6. u[3] = u[2] \o c
  <2>1. Follows(u, parts, 2, 3)
    BY <1>1, <1>3
  <2> QED
    BY <1>2, <2>1 DEF Follows
<1> QED
  BY <1>1, <1>3, <1>4, <1>5, <1>6 DEF parts, JoinsThree

JoinsFive(a, b, c, d, e) == Joined(<< a, b, c, d, e >>) = a \o b \o c \o d \o e

LEMMA JoinedFive ==
  ASSUME NEW a \in Seq(Byte), NEW b \in Seq(Byte), NEW c \in Seq(Byte), NEW d \in Seq(Byte),
         NEW e \in Seq(Byte)
  PROVE  JoinsFive(a, b, c, d, e)
<1> DEFINE parts == << a, b, c, d, e >>
<1>1. Len(parts) = 5
  OBVIOUS
<1>2. parts[1] = a /\ parts[2] = b /\ parts[3] = c /\ parts[4] = d /\ parts[5] = e
  OBVIOUS
<1> HIDE DEF parts
<1>3. PICK u : /\ u[0] = << >>
               /\ \A i \in 1 .. 5 : Follows(u, parts, i - 1, i)
               /\ Joined(parts) = u[5]
  BY <1>1, JoinedUpTo
<1>4. u[1] = a
  <2>1. Follows(u, parts, 0, 1)
    BY <1>1, <1>3
  <2> QED
    BY <1>2, <1>3, <2>1 DEF Follows
<1>5. u[2] = u[1] \o b
  <2>1. Follows(u, parts, 1, 2)
    BY <1>1, <1>3
  <2> QED
    BY <1>2, <2>1 DEF Follows
<1>6. u[3] = u[2] \o c
  <2>1. Follows(u, parts, 2, 3)
    BY <1>1, <1>3
  <2> QED
    BY <1>2, <2>1 DEF Follows
<1>7. u[4] = u[3] \o d
  <2>1. Follows(u, parts, 3, 4)
    BY <1>1, <1>3
  <2> QED
    BY <1>2, <2>1 DEF Follows
<1>8. u[5] = u[4] \o e
  <2>1. Follows(u, parts, 4, 5)
    BY <1>1, <1>3
  <2> QED
    BY <1>2, <2>1 DEF Follows
<1> QED
  BY <1>1, <1>3, <1>4, <1>5, <1>6, <1>7, <1>8 DEF parts, JoinsFive

JoinsSeven(a, b, c, d, e, f, g) == Joined(<< a, b, c, d, e, f, g >>) = a \o b \o c \o d \o e \o f \o g

LEMMA JoinedSeven ==
  ASSUME NEW a \in Seq(Byte), NEW b \in Seq(Byte), NEW c \in Seq(Byte), NEW d \in Seq(Byte),
         NEW e \in Seq(Byte), NEW f \in Seq(Byte), NEW g \in Seq(Byte)
  PROVE  JoinsSeven(a, b, c, d, e, f, g)
<1> DEFINE parts == << a, b, c, d, e, f, g >>
<1>1. Len(parts) = 7
  OBVIOUS
<1>2. parts[1] = a /\ parts[2] = b /\ parts[3] = c /\ parts[4] = d /\ parts[5] = e /\ parts[6] = f /\ parts[7] = g
  OBVIOUS
<1> HIDE DEF parts
<1>3. PICK u : /\ u[0] = << >>
               /\ \A i \in 1 .. 7 : Follows(u, parts, i - 1, i)
               /\ Joined(parts) = u[7]
  BY <1>1, JoinedUpTo
<1>4. u[1] = a
  <2>1. Follows(u, parts, 0, 1)
    BY <1>1, <1>3
  <2> QED
    BY <1>2, <1>3, <2>1 DEF Follows
<1>5. u[2] = u[1] \o b
  <2>1. Follows(u, parts, 1, 2)
    BY <1>1, <1>3
  <2> QED
    BY <1>2, <2>1 DEF Follows
<1>6. u[3] = u[2] \o c
  <2>1. Follows(u, parts, 2, 3)
    BY <1>1, <1>3
  <2> QED
    BY <1>2, <2>1 DEF Follows
<1>7. u[4] = u[3] \o d
  <2>1. Follows(u, parts, 3, 4)
    BY <1>1, <1>3
  <2> QED
    BY <1>2, <2>1 DEF Follows
<1>8. u[5] = u[4] \o e
  <2>1. Follows(u, parts, 4, 5)
    BY <1>1, <1>3
  <2> QED
    BY <1>2, <2>1 DEF Follows
<1>9. u[6] = u[5] \o f
  <2>1. Follows(u, parts, 5, 6)
    BY <1>1, <1>3
  <2> QED
    BY <1>2, <2>1 DEF Follows
<1>10. u[7] = u[6] \o g
  <2>1. Follows(u, parts, 6, 7)
    BY <1>1, <1>3
  <2> QED
    BY <1>2, <2>1 DEF Follows
<1> QED
  BY <1>1, <1>3, <1>4, <1>5, <1>6, <1>7, <1>8, <1>9, <1>10 DEF parts, JoinsSeven

JoinsEight(a, b, c, d, e, f, g, h) == Joined(<< a, b, c, d, e, f, g, h >>) = a \o b \o c \o d \o e \o f \o g \o h

LEMMA JoinedEight ==
  ASSUME NEW a \in Seq(Byte), NEW b \in Seq(Byte), NEW c \in Seq(Byte), NEW d \in Seq(Byte),
         NEW e \in Seq(Byte), NEW f \in Seq(Byte), NEW g \in Seq(Byte), NEW h \in Seq(Byte)
  PROVE  JoinsEight(a, b, c, d, e, f, g, h)
<1> DEFINE parts == << a, b, c, d, e, f, g, h >>
<1>1. Len(parts) = 8
  OBVIOUS
<1>2. parts[1] = a /\ parts[2] = b /\ parts[3] = c /\ parts[4] = d /\ parts[5] = e /\ parts[6] = f /\ parts[7] = g /\ parts[8] = h
  OBVIOUS
<1> HIDE DEF parts
<1>3. PICK u : /\ u[0] = << >>
               /\ \A i \in 1 .. 8 : Follows(u, parts, i - 1, i)
               /\ Joined(parts) = u[8]
  BY <1>1, JoinedUpTo
<1>4. u[1] = a
  <2>1. Follows(u, parts, 0, 1)
    BY <1>1, <1>3
  <2> QED
    BY <1>2, <1>3, <2>1 DEF Follows
<1>5. u[2] = u[1] \o b
  <2>1. Follows(u, parts, 1, 2)
    BY <1>1, <1>3
  <2> QED
    BY <1>2, <2>1 DEF Follows
<1>6. u[3] = u[2] \o c
  <2>1. Follows(u, parts, 2, 3)
    BY <1>1, <1>3
  <2> QED
    BY <1>2, <2>1 DEF Follows
<1>7. u[4] = u[3] \o d
  <2>1. Follows(u, parts, 3, 4)
    BY <1>1, <1>3
  <2> QED
    BY <1>2, <2>1 DEF Follows
<1>8. u[5] = u[4] \o e
  <2>1. Follows(u, parts, 4, 5)
    BY <1>1, <1>3
  <2> QED
    BY <1>2, <2>1 DEF Follows
<1>9. u[6] = u[5] \o f
  <2>1. Follows(u, parts, 5, 6)
    BY <1>1, <1>3
  <2> QED
    BY <1>2, <2>1 DEF Follows
<1>10. u[7] = u[6] \o g
  <2>1. Follows(u, parts, 6, 7)
    BY <1>1, <1>3
  <2> QED
    BY <1>2, <2>1 DEF Follows
<1>11. u[8] = u[7] \o h
  <2>1. Follows(u, parts, 7, 8)
    BY <1>1, <1>3
  <2> QED
    BY <1>2, <2>1 DEF Follows
<1> QED
  BY <1>1, <1>3, <1>4, <1>5, <1>6, <1>7, <1>8, <1>9, <1>10, <1>11 DEF parts, JoinsEight

(* Fields are read in one list after another.                             *)
LEMMA ReadBoth ==
  ASSUME NEW r, NEW f, NEW g, NEW h, NEW m \in Nat, NEW n \in Nat,
         Len(f) = m, Len(g) = n, Len(h) = m + n,
         \A i \in 1 .. m : h[i] = f[i], \A i \in 1 .. n : h[m + i] = g[i]
  PROVE  ReadAll(r, h) = ReadAll(ReadAll(r, f), g)
<1> DEFINE s == ReadAll(r, f)
           l == m + n
<1>1. PICK v : TakenUpTo(v, r, f, m)
  BY ReadAllUpTo
<1>2. l \in Nat /\ Len(h) = l
  OBVIOUS
<1> HIDE DEF l
<1>3. PICK u : TakenUpTo(u, r, h, l)
  BY <1>2, ReadAllUpTo
<1>4. PICK w : TakenUpTo(w, s, g, n)
  BY ReadAllUpTo
<1>5. u[0] = r /\ (\A i \in 1 .. m + n : Taken(u, h, i - 1, i)) /\ ReadAll(r, h) = u[m + n]
  BY <1>3 DEF TakenUpTo, l
<1>6. v[0] = r /\ (\A i \in 1 .. m : Taken(v, f, i - 1, i)) /\ s = v[m]
  BY <1>1 DEF TakenUpTo
<1> HIDE DEF s
<1>7. w[0] = s /\ (\A i \in 1 .. n : Taken(w, g, i - 1, i)) /\ ReadAll(s, g) = w[n]
  BY <1>4 DEF TakenUpTo
<1> DEFINE T == {i \in Nat : i <= m => u[i] = v[i]}
           S == {i \in Nat : i <= n => u[m + i] = w[i]}
<1>8. 0 \in T
  BY <1>5, <1>6
<1>9. ASSUME NEW i \in T
      PROVE  i + 1 \in T
  <2> SUFFICES ASSUME i + 1 <= m
               PROVE  u[i + 1] = v[i + 1]
    OBVIOUS
  <2>1. i \in Nat /\ u[i] = v[i] /\ i + 1 \in 1 .. m /\ i + 1 \in 1 .. m + n /\ (i + 1) - 1 = i
    OBVIOUS
  <2>2. Taken(u, h, (i + 1) - 1, i + 1)
    BY <1>5, <2>1
  <2>3. Taken(v, f, (i + 1) - 1, i + 1)
    BY <1>6, <2>1
  <2> QED
    BY <2>1, <2>2, <2>3 DEF Taken
<1>10. T = Nat
  <2> HIDE DEF T
  <2>1. T \subseteq Nat
    BY DEF T
  <2> QED
    BY <1>8, <1>9, <2>1, Upwards
<1>11. u[m] = s
  BY <1>6, <1>10
<1> HIDE DEF T
<1>12. 0 \in S
  BY <1>7, <1>11
<1>13. ASSUME NEW i \in S
       PROVE  i + 1 \in S
  <2> SUFFICES ASSUME i + 1 <= n
               PROVE  u[m + (i + 1)] = w[i + 1]
    OBVIOUS
  <2>1. /\ i \in Nat /\ u[m + i] = w[i] /\ i + 1 \in 1 .. n /\ (i + 1) - 1 = i
        /\ m + (i + 1) \in 1 .. m + n /\ (m + (i + 1)) - 1 = m + i
    OBVIOUS
  <2>2. Taken(u, h, (m + (i + 1)) - 1, m + (i + 1))
    BY <1>5, <2>1
  <2>3. Taken(w, g, (i + 1) - 1, i + 1)
    BY <1>7, <2>1
  <2> QED
    BY <2>1, <2>2, <2>3 DEF Taken
<1>14. S = Nat
  <2> HIDE DEF S
  <2>1. S \subseteq Nat
    BY DEF S
  <2> QED
    BY <1>12, <1>13, <2>1, Upwards
<1>15. u[m + n] = w[n]
  BY <1>14
<1> QED
  BY <1>5, <1>7, <1>15 DEF s

LEMMA ReadJoined ==
  ASSUME NEW r, NEW f, NEW g, NEW F, f \in Seq(F), g \in Seq(F)
  PROVE  ReadAll(r, f \o g) = ReadAll(ReadAll(r, f), g)
<1> DEFINE h == f \o g
           m == Len(f)
           n == Len(g)
<1>1. /\ m \in Nat /\ n \in Nat /\ Len(h) = m + n
      /\ \A i \in 1 .. m : h[i] = f[i]
      /\ \A i \in 1 .. n : h[m + i] = g[i]
  OBVIOUS
<1>2. Len(f) = m /\ Len(g) = n
  OBVIOUS
<1> HIDE DEF h, m, n
<1>3. ReadAll(r, h) = ReadAll(ReadAll(r, f), g)
  BY <1>1, <1>2, ReadBoth
<1> QED
  BY <1>3 DEF h

LEMMA RawFits ==
  ASSUME NEW width \in Nat, width > 2, NEW raw \in Word(width), NEW name
  PROVE  FieldFits(raw, Raw(name, width)) /\ Value(raw) = raw
<1>1. raw \in Seq(Byte) /\ Len(raw) = width
  BY WordLength
<1>2. Raw(name, width).width = width /\ Raw(name, width).free
  BY DEF Raw
<1>3. Fits(raw, Raw(name, width))
  BY <1>2 DEF Fits
<1>4. Value(raw) = raw
  BY <1>1 DEF Value
<1> QED
  BY <1>1, <1>2, <1>3, <1>4 DEF FieldFits

LEMMA NumberFits ==
  ASSUME NEW n \in Int, NEW name, NEW legal, Sixteen(n) \in legal
  PROVE  FieldFits(Be(2, n), Field(name, 2, legal)) /\ Value(Be(2, n)) = Sixteen(n)
<1>1. Be(2, n) \in Word(2)
  BY BeType
<1>2. Be(2, n) \in Seq(Byte) /\ Len(Be(2, n)) = 2
  BY <1>1, WordLength
<1>3. Value(Be(2, n)) = Sixteen(n)
  <2>1. Unsigned(Be(2, n)) = Sixteen(n)
    BY TwoBytes
  <2> DEFINE raw == Be(2, n)
  <2> HIDE DEF raw
  <2>a. Len(raw) = 2
    BY <1>2, Zenon DEF raw
  <2>2. Len(raw) <= 2
    BY <2>a
  <2>3. Value(raw) = Unsigned(raw)
    BY <2>2 DEF Value
  <2> QED
    BY <2>1, <2>3 DEF raw
<1>4. Field(name, 2, legal).width = 2 /\ Field(name, 2, legal).legal = legal
  BY DEF Field
<1> QED
  BY <1>2, <1>3, <1>4 DEF FieldFits, Fits

LEMMA ByteFits ==
  ASSUME NEW n \in Byte, NEW name, NEW legal, n \in legal
  PROVE  FieldFits(<<n>>, Field(name, 1, legal)) /\ Value(<<n>>) = n
<1>1. <<n>> \in Seq(Byte) /\ Len(<<n>>) = 1
  OBVIOUS
<1>2. Value(<<n>>) = n
  BY <1>1, OneByte DEF Value
<1>3. Field(name, 1, legal).width = 1 /\ Field(name, 1, legal).legal = legal
  BY DEF Field
<1> QED
  BY <1>1, <1>2, <1>3 DEF FieldFits, Fits

(* What a reader has got says what a record says, and what it had got of   *)
(* other names it still has.                                               *)
Says(got, whole) == \A c \in DOMAIN whole : c \in DOMAIN got /\ got[c] = whole[c]

NamesOf(fields) == {fields[i].name : i \in 1 .. Len(fields)}

KeepsBut(got, later, names) == \A c \in DOMAIN got : c \notin names => c \in DOMAIN later /\ later[c] = got[c]

(* A row is read for what is written in it.                                *)
Written(later, parts, fields) ==
  \A i \in 1 .. Len(fields) : fields[i].name \in DOMAIN later /\ later[fields[i].name] = Value(parts[i])

ReadsTo(bytes, at, got, fields, j, later, rest) ==
  ReadAll(Got(bytes, at, got), fields) = Got(bytes, j, later) /\ Ends(bytes, j, rest)

LEMMA RowWritten ==
  ASSUME NEW parts, NEW fields, NEW n, RowFits(parts, fields, n),
         NEW bytes, NEW at, NEW got, NEW rest \in Seq(Byte), Ends(bytes, at, Joined(parts) \o rest)
  PROVE  \E j, later : /\ ReadsTo(bytes, at, got, fields, j, later, rest)
                       /\ Written(later, parts, fields) /\ KeepsBut(got, later, NamesOf(fields))
<1>1. RowIsRead(bytes, at, got, parts, fields, n, rest)
  BY RowRead
<1>2. PICK j, later : /\ ReadAll(Got(bytes, at, got), fields) = Got(bytes, j, later)
                      /\ Ends(bytes, j, rest) /\ RowSaid(later, got, parts, fields, n)
  BY <1>1 DEF RowIsRead
<1>3. Len(fields) = n
  BY DEF RowFits
<1>4. Written(later, parts, fields)
  BY <1>2, <1>3 DEF RowSaid, Written
<1>5. KeepsBut(got, later, NamesOf(fields))
  BY <1>2, <1>3 DEF RowSaid, KeepsBut, NamesOf
<1> QED
  BY <1>2, <1>4, <1>5 DEF ReadsTo

LEMMA TickRateFits ==
  ASSUME NEW n \in TickRates
  PROVE  n \in Int /\ Sixteen(n) = n
<1>1. n \in Int /\ 0 <= n /\ n < 65536
  BY DEF TickRates
<1> QED
  BY <1>1, SixteenBits

(* The physics of a match are read as they were pinned.                     *)
LEMMA PhysicsRead ==
  ASSUME NEW p \in PhysicsProfiles,
         NEW bytes, NEW at, NEW got, NEW rest \in Seq(Byte), Ends(bytes, at, PhysicsBytes(p) \o rest)
  PROVE  \E j, later : /\ ReadsTo(bytes, at, got, PhysicsFields, j, later, rest)
                       /\ Says(later, p) /\ KeepsBut(got, later, NamesOf(PhysicsFields))
<1> DEFINE parts == << Be(2, 1), Be(2, p.ticksPerSecond), p.maximumTicks, p.maximumSpeed, p.rollingDeceleration, p.cushionRestitution, p.collisionRestitution, p.settlingSpeed >>
           fields == PhysicsFields
<1>1. Len(parts) = 8 /\ Len(fields) = 8
  BY DEF PhysicsFields
<1>2. /\ parts[1] = Be(2, 1)
      /\ parts[2] = Be(2, p.ticksPerSecond)
      /\ parts[3] = p.maximumTicks
      /\ parts[4] = p.maximumSpeed
      /\ parts[5] = p.rollingDeceleration
      /\ parts[6] = p.cushionRestitution
      /\ parts[7] = p.collisionRestitution
      /\ parts[8] = p.settlingSpeed
  OBVIOUS
<1>3. /\ fields[1] = Field("physicsVersion", 2, {1})
      /\ fields[2] = Field("ticksPerSecond", 2, TickRates)
      /\ fields[3] = Raw("maximumTicks", 4)
      /\ fields[4] = Raw("maximumSpeed", 8)
      /\ fields[5] = Raw("rollingDeceleration", 8)
      /\ fields[6] = Raw("cushionRestitution", 4)
      /\ fields[7] = Raw("collisionRestitution", 4)
      /\ fields[8] = Raw("settlingSpeed", 8)
  BY DEF PhysicsFields
<1>4. FieldFits(Be(2, 1), Field("physicsVersion", 2, {1})) /\ Value(Be(2, 1)) = 1
  <2>1. Sixteen(1) = 1
    BY SixteenBits
  <2> QED
    BY <2>1, NumberFits
<1>5. FieldFits(Be(2, p.ticksPerSecond), Field("ticksPerSecond", 2, TickRates)) /\ Value(Be(2, p.ticksPerSecond)) = p.ticksPerSecond
  <2>1. p.ticksPerSecond \in TickRates
    BY DEF PhysicsProfiles
  <2>2. Sixteen(p.ticksPerSecond) = p.ticksPerSecond /\ p.ticksPerSecond \in Int
    BY <2>1, TickRateFits
  <2> QED
    BY <2>1, <2>2, NumberFits
<1>6. FieldFits(p.maximumTicks, Raw("maximumTicks", 4)) /\ Value(p.maximumTicks) = p.maximumTicks
  <2>1. p.maximumTicks \in Word(4)
    BY DEF PhysicsProfiles
  <2> QED
    BY <2>1, RawFits
<1>7. FieldFits(p.maximumSpeed, Raw("maximumSpeed", 8)) /\ Value(p.maximumSpeed) = p.maximumSpeed
  <2>1. p.maximumSpeed \in Word(8)
    BY DEF PhysicsProfiles
  <2> QED
    BY <2>1, RawFits
<1>8. FieldFits(p.rollingDeceleration, Raw("rollingDeceleration", 8)) /\ Value(p.rollingDeceleration) = p.rollingDeceleration
  <2>1. p.rollingDeceleration \in Word(8)
    BY DEF PhysicsProfiles
  <2> QED
    BY <2>1, RawFits
<1>9. FieldFits(p.cushionRestitution, Raw("cushionRestitution", 4)) /\ Value(p.cushionRestitution) = p.cushionRestitution
  <2>1. p.cushionRestitution \in Word(4)
    BY DEF PhysicsProfiles
  <2> QED
    BY <2>1, RawFits
<1>10. FieldFits(p.collisionRestitution, Raw("collisionRestitution", 4)) /\ Value(p.collisionRestitution) = p.collisionRestitution
  <2>1. p.collisionRestitution \in Word(4)
    BY DEF PhysicsProfiles
  <2> QED
    BY <2>1, RawFits
<1>11. FieldFits(p.settlingSpeed, Raw("settlingSpeed", 8)) /\ Value(p.settlingSpeed) = p.settlingSpeed
  <2>1. p.settlingSpeed \in Word(8)
    BY DEF PhysicsProfiles
  <2> QED
    BY <2>1, RawFits
<1>12. Joined(parts) = PhysicsBytes(p)
  <2>1. Be(2, 1) \in Seq(Byte) /\ Be(2, p.ticksPerSecond) \in Seq(Byte) /\ p.maximumTicks \in Seq(Byte) /\ p.maximumSpeed \in Seq(Byte) /\ p.rollingDeceleration \in Seq(Byte) /\ p.cushionRestitution \in Seq(Byte) /\ p.collisionRestitution \in Seq(Byte) /\ p.settlingSpeed \in Seq(Byte)
    BY <1>4, <1>5, <1>6, <1>7, <1>8, <1>9, <1>10, <1>11 DEF FieldFits
  <2>2. JoinsEight(Be(2, 1), Be(2, p.ticksPerSecond), p.maximumTicks, p.maximumSpeed, p.rollingDeceleration, p.cushionRestitution, p.collisionRestitution, p.settlingSpeed)
    BY <2>1, JoinedEight
  <2> QED
    BY <2>2, Zenon DEF JoinsEight, PhysicsBytes
<1> HIDE DEF parts, fields
<1>13. RowFits(parts, fields, 8)
  <2>1. ASSUME NEW i \in 1 .. 8
        PROVE  FieldFits(parts[i], fields[i])
    <3>1. CASE i = 1
      BY <1>2, <1>3, <1>4, <3>1
    <3>2. CASE i = 2
      BY <1>2, <1>3, <1>5, <3>2
    <3>3. CASE i = 3
      BY <1>2, <1>3, <1>6, <3>3
    <3>4. CASE i = 4
      BY <1>2, <1>3, <1>7, <3>4
    <3>5. CASE i = 5
      BY <1>2, <1>3, <1>8, <3>5
    <3>6. CASE i = 6
      BY <1>2, <1>3, <1>9, <3>6
    <3>7. CASE i = 7
      BY <1>2, <1>3, <1>10, <3>7
    <3>8. CASE i = 8
      BY <1>2, <1>3, <1>11, <3>8
    <3> QED
      BY <3>1, <3>2, <3>3, <3>4, <3>5, <3>6, <3>7, <3>8
  <2> DEFINE Place == [ physicsVersion |-> 1,
                        ticksPerSecond |-> 2,
                        maximumTicks |-> 3,
                        maximumSpeed |-> 4,
                        rollingDeceleration |-> 5,
                        cushionRestitution |-> 6,
                        collisionRestitution |-> 7,
                        settlingSpeed |-> 8 ]
  <2>2. Place.physicsVersion = 1 /\ Place.ticksPerSecond = 2 /\ Place.maximumTicks = 3 /\ Place.maximumSpeed = 4 /\ Place.rollingDeceleration = 5 /\ Place.cushionRestitution = 6 /\ Place.collisionRestitution = 7 /\ Place.settlingSpeed = 8
    OBVIOUS
  <2> HIDE DEF Place
  <2>a. ASSUME NEW i \in 1 .. 8
        PROVE  Place[fields[i].name] = i
    <3>1. CASE i = 1
      <4>1. fields[i].name = "physicsVersion"
        BY <1>3, <3>1 DEF Field, Raw
      <4> QED
        BY <2>2, <3>1, <4>1
    <3>2. CASE i = 2
      <4>1. fields[i].name = "ticksPerSecond"
        BY <1>3, <3>2 DEF Field, Raw
      <4> QED
        BY <2>2, <3>2, <4>1
    <3>3. CASE i = 3
      <4>1. fields[i].name = "maximumTicks"
        BY <1>3, <3>3 DEF Field, Raw
      <4> QED
        BY <2>2, <3>3, <4>1
    <3>4. CASE i = 4
      <4>1. fields[i].name = "maximumSpeed"
        BY <1>3, <3>4 DEF Field, Raw
      <4> QED
        BY <2>2, <3>4, <4>1
    <3>5. CASE i = 5
      <4>1. fields[i].name = "rollingDeceleration"
        BY <1>3, <3>5 DEF Field, Raw
      <4> QED
        BY <2>2, <3>5, <4>1
    <3>6. CASE i = 6
      <4>1. fields[i].name = "cushionRestitution"
        BY <1>3, <3>6 DEF Field, Raw
      <4> QED
        BY <2>2, <3>6, <4>1
    <3>7. CASE i = 7
      <4>1. fields[i].name = "collisionRestitution"
        BY <1>3, <3>7 DEF Field, Raw
      <4> QED
        BY <2>2, <3>7, <4>1
    <3>8. CASE i = 8
      <4>1. fields[i].name = "settlingSpeed"
        BY <1>3, <3>8 DEF Field, Raw
      <4> QED
        BY <2>2, <3>8, <4>1
    <3> QED
      BY <3>1, <3>2, <3>3, <3>4, <3>5, <3>6, <3>7, <3>8
  <2>3. \A i, k \in 1 .. 8 : fields[i].name = fields[k].name => i = k
    BY <2>a
  <2> QED
    BY <1>1, <2>1, <2>3 DEF RowFits
<1>14. PICK j, later : /\ ReadsTo(bytes, at, got, fields, j, later, rest)
                       /\ Written(later, parts, fields) /\ KeepsBut(got, later, NamesOf(fields))
  BY <1>12, <1>13, RowWritten
<1>15. "physicsVersion" \in DOMAIN later /\ later["physicsVersion"] = 1
  <2>1. fields[1].name \in DOMAIN later /\ later[fields[1].name] = Value(parts[1])
    BY <1>1, <1>14 DEF Written
  <2>2. fields[1].name = "physicsVersion"
    BY <1>3 DEF Field, Raw
  <2> QED
    BY <1>2, <1>4, <2>1, <2>2
<1>16. "ticksPerSecond" \in DOMAIN later /\ later["ticksPerSecond"] = p.ticksPerSecond
  <2>1. fields[2].name \in DOMAIN later /\ later[fields[2].name] = Value(parts[2])
    BY <1>1, <1>14 DEF Written
  <2>2. fields[2].name = "ticksPerSecond"
    BY <1>3 DEF Field, Raw
  <2> QED
    BY <1>2, <1>5, <2>1, <2>2
<1>17. "maximumTicks" \in DOMAIN later /\ later["maximumTicks"] = p.maximumTicks
  <2>1. fields[3].name \in DOMAIN later /\ later[fields[3].name] = Value(parts[3])
    BY <1>1, <1>14 DEF Written
  <2>2. fields[3].name = "maximumTicks"
    BY <1>3 DEF Field, Raw
  <2> QED
    BY <1>2, <1>6, <2>1, <2>2
<1>18. "maximumSpeed" \in DOMAIN later /\ later["maximumSpeed"] = p.maximumSpeed
  <2>1. fields[4].name \in DOMAIN later /\ later[fields[4].name] = Value(parts[4])
    BY <1>1, <1>14 DEF Written
  <2>2. fields[4].name = "maximumSpeed"
    BY <1>3 DEF Field, Raw
  <2> QED
    BY <1>2, <1>7, <2>1, <2>2
<1>19. "rollingDeceleration" \in DOMAIN later /\ later["rollingDeceleration"] = p.rollingDeceleration
  <2>1. fields[5].name \in DOMAIN later /\ later[fields[5].name] = Value(parts[5])
    BY <1>1, <1>14 DEF Written
  <2>2. fields[5].name = "rollingDeceleration"
    BY <1>3 DEF Field, Raw
  <2> QED
    BY <1>2, <1>8, <2>1, <2>2
<1>20. "cushionRestitution" \in DOMAIN later /\ later["cushionRestitution"] = p.cushionRestitution
  <2>1. fields[6].name \in DOMAIN later /\ later[fields[6].name] = Value(parts[6])
    BY <1>1, <1>14 DEF Written
  <2>2. fields[6].name = "cushionRestitution"
    BY <1>3 DEF Field, Raw
  <2> QED
    BY <1>2, <1>9, <2>1, <2>2
<1>21. "collisionRestitution" \in DOMAIN later /\ later["collisionRestitution"] = p.collisionRestitution
  <2>1. fields[7].name \in DOMAIN later /\ later[fields[7].name] = Value(parts[7])
    BY <1>1, <1>14 DEF Written
  <2>2. fields[7].name = "collisionRestitution"
    BY <1>3 DEF Field, Raw
  <2> QED
    BY <1>2, <1>10, <2>1, <2>2
<1>22. "settlingSpeed" \in DOMAIN later /\ later["settlingSpeed"] = p.settlingSpeed
  <2>1. fields[8].name \in DOMAIN later /\ later[fields[8].name] = Value(parts[8])
    BY <1>1, <1>14 DEF Written
  <2>2. fields[8].name = "settlingSpeed"
    BY <1>3 DEF Field, Raw
  <2> QED
    BY <1>2, <1>11, <2>1, <2>2
<1>23. Says(later, p)
  <2>1. DOMAIN p = {"ticksPerSecond", "maximumTicks", "maximumSpeed", "rollingDeceleration", "cushionRestitution", "collisionRestitution", "settlingSpeed"}
    BY DEF PhysicsProfiles
  <2> QED
    BY <2>1, <1>16, <1>17, <1>18, <1>19, <1>20, <1>21, <1>22 DEF Says
<1> QED
  BY <1>14, <1>23 DEF fields

LEMMA GeometryRead ==
  ASSUME NEW g \in Geometries,
         NEW bytes, NEW at, NEW got, NEW rest \in Seq(Byte), Ends(bytes, at, GeometryBytes(g) \o rest)
  PROVE  \E j, later : /\ ReadsTo(bytes, at, got, GeometryFields, j, later, rest)
                       /\ Says(later, g) /\ KeepsBut(got, later, NamesOf(GeometryFields))
<1> DEFINE parts == << Be(2, 1), g.halfWidth, g.halfHeight, g.ballRadius, g.pocketRadius >>
           fields == GeometryFields
<1>1. Len(parts) = 5 /\ Len(fields) = 5
  BY DEF GeometryFields
<1>2. /\ parts[1] = Be(2, 1)
      /\ parts[2] = g.halfWidth
      /\ parts[3] = g.halfHeight
      /\ parts[4] = g.ballRadius
      /\ parts[5] = g.pocketRadius
  OBVIOUS
<1>3. /\ fields[1] = Field("geometryVersion", 2, {1})
      /\ fields[2] = Raw("halfWidth", 8)
      /\ fields[3] = Raw("halfHeight", 8)
      /\ fields[4] = Raw("ballRadius", 8)
      /\ fields[5] = Raw("pocketRadius", 8)
  BY DEF GeometryFields
<1>4. FieldFits(Be(2, 1), Field("geometryVersion", 2, {1})) /\ Value(Be(2, 1)) = 1
  <2>1. Sixteen(1) = 1
    BY SixteenBits
  <2> QED
    BY <2>1, NumberFits
<1>5. FieldFits(g.halfWidth, Raw("halfWidth", 8)) /\ Value(g.halfWidth) = g.halfWidth
  <2>1. g.halfWidth \in Word(8)
    BY DEF Geometries
  <2> QED
    BY <2>1, RawFits
<1>6. FieldFits(g.halfHeight, Raw("halfHeight", 8)) /\ Value(g.halfHeight) = g.halfHeight
  <2>1. g.halfHeight \in Word(8)
    BY DEF Geometries
  <2> QED
    BY <2>1, RawFits
<1>7. FieldFits(g.ballRadius, Raw("ballRadius", 8)) /\ Value(g.ballRadius) = g.ballRadius
  <2>1. g.ballRadius \in Word(8)
    BY DEF Geometries
  <2> QED
    BY <2>1, RawFits
<1>8. FieldFits(g.pocketRadius, Raw("pocketRadius", 8)) /\ Value(g.pocketRadius) = g.pocketRadius
  <2>1. g.pocketRadius \in Word(8)
    BY DEF Geometries
  <2> QED
    BY <2>1, RawFits
<1>9. Joined(parts) = GeometryBytes(g)
  <2>1. Be(2, 1) \in Seq(Byte) /\ g.halfWidth \in Seq(Byte) /\ g.halfHeight \in Seq(Byte) /\ g.ballRadius \in Seq(Byte) /\ g.pocketRadius \in Seq(Byte)
    BY <1>4, <1>5, <1>6, <1>7, <1>8 DEF FieldFits
  <2>2. JoinsFive(Be(2, 1), g.halfWidth, g.halfHeight, g.ballRadius, g.pocketRadius)
    BY <2>1, JoinedFive
  <2> QED
    BY <2>2, Zenon DEF JoinsFive, GeometryBytes
<1> HIDE DEF parts, fields
<1>10. RowFits(parts, fields, 5)
  <2>1. ASSUME NEW i \in 1 .. 5
        PROVE  FieldFits(parts[i], fields[i])
    <3>1. CASE i = 1
      BY <1>2, <1>3, <1>4, <3>1
    <3>2. CASE i = 2
      BY <1>2, <1>3, <1>5, <3>2
    <3>3. CASE i = 3
      BY <1>2, <1>3, <1>6, <3>3
    <3>4. CASE i = 4
      BY <1>2, <1>3, <1>7, <3>4
    <3>5. CASE i = 5
      BY <1>2, <1>3, <1>8, <3>5
    <3> QED
      BY <3>1, <3>2, <3>3, <3>4, <3>5
  <2> DEFINE Place == [ geometryVersion |-> 1,
                        halfWidth |-> 2,
                        halfHeight |-> 3,
                        ballRadius |-> 4,
                        pocketRadius |-> 5 ]
  <2>2. Place.geometryVersion = 1 /\ Place.halfWidth = 2 /\ Place.halfHeight = 3 /\ Place.ballRadius = 4 /\ Place.pocketRadius = 5
    OBVIOUS
  <2> HIDE DEF Place
  <2>a. ASSUME NEW i \in 1 .. 5
        PROVE  Place[fields[i].name] = i
    <3>1. CASE i = 1
      <4>1. fields[i].name = "geometryVersion"
        BY <1>3, <3>1 DEF Field, Raw
      <4> QED
        BY <2>2, <3>1, <4>1
    <3>2. CASE i = 2
      <4>1. fields[i].name = "halfWidth"
        BY <1>3, <3>2 DEF Field, Raw
      <4> QED
        BY <2>2, <3>2, <4>1
    <3>3. CASE i = 3
      <4>1. fields[i].name = "halfHeight"
        BY <1>3, <3>3 DEF Field, Raw
      <4> QED
        BY <2>2, <3>3, <4>1
    <3>4. CASE i = 4
      <4>1. fields[i].name = "ballRadius"
        BY <1>3, <3>4 DEF Field, Raw
      <4> QED
        BY <2>2, <3>4, <4>1
    <3>5. CASE i = 5
      <4>1. fields[i].name = "pocketRadius"
        BY <1>3, <3>5 DEF Field, Raw
      <4> QED
        BY <2>2, <3>5, <4>1
    <3> QED
      BY <3>1, <3>2, <3>3, <3>4, <3>5
  <2>3. \A i, k \in 1 .. 5 : fields[i].name = fields[k].name => i = k
    BY <2>a
  <2> QED
    BY <1>1, <2>1, <2>3 DEF RowFits
<1>11. PICK j, later : /\ ReadsTo(bytes, at, got, fields, j, later, rest)
                       /\ Written(later, parts, fields) /\ KeepsBut(got, later, NamesOf(fields))
  BY <1>9, <1>10, RowWritten
<1>12. "geometryVersion" \in DOMAIN later /\ later["geometryVersion"] = 1
  <2>1. fields[1].name \in DOMAIN later /\ later[fields[1].name] = Value(parts[1])
    BY <1>1, <1>11 DEF Written
  <2>2. fields[1].name = "geometryVersion"
    BY <1>3 DEF Field, Raw
  <2> QED
    BY <1>2, <1>4, <2>1, <2>2
<1>13. "halfWidth" \in DOMAIN later /\ later["halfWidth"] = g.halfWidth
  <2>1. fields[2].name \in DOMAIN later /\ later[fields[2].name] = Value(parts[2])
    BY <1>1, <1>11 DEF Written
  <2>2. fields[2].name = "halfWidth"
    BY <1>3 DEF Field, Raw
  <2> QED
    BY <1>2, <1>5, <2>1, <2>2
<1>14. "halfHeight" \in DOMAIN later /\ later["halfHeight"] = g.halfHeight
  <2>1. fields[3].name \in DOMAIN later /\ later[fields[3].name] = Value(parts[3])
    BY <1>1, <1>11 DEF Written
  <2>2. fields[3].name = "halfHeight"
    BY <1>3 DEF Field, Raw
  <2> QED
    BY <1>2, <1>6, <2>1, <2>2
<1>15. "ballRadius" \in DOMAIN later /\ later["ballRadius"] = g.ballRadius
  <2>1. fields[4].name \in DOMAIN later /\ later[fields[4].name] = Value(parts[4])
    BY <1>1, <1>11 DEF Written
  <2>2. fields[4].name = "ballRadius"
    BY <1>3 DEF Field, Raw
  <2> QED
    BY <1>2, <1>7, <2>1, <2>2
<1>16. "pocketRadius" \in DOMAIN later /\ later["pocketRadius"] = g.pocketRadius
  <2>1. fields[5].name \in DOMAIN later /\ later[fields[5].name] = Value(parts[5])
    BY <1>1, <1>11 DEF Written
  <2>2. fields[5].name = "pocketRadius"
    BY <1>3 DEF Field, Raw
  <2> QED
    BY <1>2, <1>8, <2>1, <2>2
<1>17. Says(later, g)
  <2>1. DOMAIN g = {"halfWidth", "halfHeight", "ballRadius", "pocketRadius"}
    BY DEF Geometries
  <2> QED
    BY <2>1, <1>13, <1>14, <1>15, <1>16 DEF Says
<1> QED
  BY <1>11, <1>17 DEF fields

(* The two versions that every payload of a match starts with.             *)
VersionFields == << Field("version", 2, {1}), Field("rules", 2, {1}) >>

LEMMA VersionsRead ==
  ASSUME NEW bytes, NEW at, NEW got, NEW rest \in Seq(Byte), Ends(bytes, at, (Be(2, 1) \o Be(2, 1)) \o rest)
  PROVE  \E j, later : /\ ReadsTo(bytes, at, got, VersionFields, j, later, rest)
                       /\ Says(later, [version |-> 1, rules |-> 1]) /\ KeepsBut(got, later, NamesOf(VersionFields))
<1> DEFINE parts == << Be(2, 1), Be(2, 1) >>
           fields == VersionFields
<1>1. Len(parts) = 2 /\ Len(fields) = 2
  BY DEF VersionFields
<1>2. /\ parts[1] = Be(2, 1)
      /\ parts[2] = Be(2, 1)
  OBVIOUS
<1>3. /\ fields[1] = Field("version", 2, {1})
      /\ fields[2] = Field("rules", 2, {1})
  BY DEF VersionFields
<1>4. FieldFits(Be(2, 1), Field("version", 2, {1})) /\ Value(Be(2, 1)) = 1
  <2>1. Sixteen(1) = 1
    BY SixteenBits
  <2> QED
    BY <2>1, NumberFits
<1>5. FieldFits(Be(2, 1), Field("rules", 2, {1})) /\ Value(Be(2, 1)) = 1
  <2>1. Sixteen(1) = 1
    BY SixteenBits
  <2> QED
    BY <2>1, NumberFits
<1>6. Joined(parts) = (Be(2, 1) \o Be(2, 1))
  <2>1. Be(2, 1) \in Seq(Byte) /\ Be(2, 1) \in Seq(Byte)
    BY <1>4, <1>5 DEF FieldFits
  <2>2. JoinsTwo(Be(2, 1), Be(2, 1))
    BY <2>1, JoinedTwo
  <2> QED
    BY <2>2, Zenon DEF JoinsTwo
<1> HIDE DEF parts, fields
<1>7. RowFits(parts, fields, 2)
  <2>1. ASSUME NEW i \in 1 .. 2
        PROVE  FieldFits(parts[i], fields[i])
    <3>1. CASE i = 1
      BY <1>2, <1>3, <1>4, <3>1
    <3>2. CASE i = 2
      BY <1>2, <1>3, <1>5, <3>2
    <3> QED
      BY <3>1, <3>2
  <2> DEFINE Place == [ version |-> 1,
                        rules |-> 2 ]
  <2>2. Place.version = 1 /\ Place.rules = 2
    OBVIOUS
  <2> HIDE DEF Place
  <2>a. ASSUME NEW i \in 1 .. 2
        PROVE  Place[fields[i].name] = i
    <3>1. CASE i = 1
      <4>1. fields[i].name = "version"
        BY <1>3, <3>1 DEF Field, Raw
      <4> QED
        BY <2>2, <3>1, <4>1
    <3>2. CASE i = 2
      <4>1. fields[i].name = "rules"
        BY <1>3, <3>2 DEF Field, Raw
      <4> QED
        BY <2>2, <3>2, <4>1
    <3> QED
      BY <3>1, <3>2
  <2>3. \A i, k \in 1 .. 2 : fields[i].name = fields[k].name => i = k
    BY <2>a
  <2> QED
    BY <1>1, <2>1, <2>3 DEF RowFits
<1>8. PICK j, later : /\ ReadsTo(bytes, at, got, fields, j, later, rest)
                       /\ Written(later, parts, fields) /\ KeepsBut(got, later, NamesOf(fields))
  BY <1>6, <1>7, RowWritten
<1>9. "version" \in DOMAIN later /\ later["version"] = 1
  <2>1. fields[1].name \in DOMAIN later /\ later[fields[1].name] = Value(parts[1])
    BY <1>1, <1>8 DEF Written
  <2>2. fields[1].name = "version"
    BY <1>3 DEF Field, Raw
  <2> QED
    BY <1>2, <1>4, <2>1, <2>2
<1>10. "rules" \in DOMAIN later /\ later["rules"] = 1
  <2>1. fields[2].name \in DOMAIN later /\ later[fields[2].name] = Value(parts[2])
    BY <1>1, <1>8 DEF Written
  <2>2. fields[2].name = "rules"
    BY <1>3 DEF Field, Raw
  <2> QED
    BY <1>2, <1>5, <2>1, <2>2
<1>11. Says(later, [version |-> 1, rules |-> 1])
  <2> DEFINE whole == [version |-> 1, rules |-> 1]
  <2>1. DOMAIN whole = {"version", "rules"}
    OBVIOUS
  <2>2. whole.version = 1 /\ whole.rules = 1
    OBVIOUS
  <2> HIDE DEF whole
  <2>3. Says(later, whole)
    BY <2>1, <2>2, <1>9, <1>10 DEF Says
  <2> QED
    BY <2>3 DEF whole
<1> QED
  BY <1>8, <1>11 DEF fields

BreakerFields == << Raw("rackSeed", 8), Field("breaker", 1, {1, 2}) >>

LEMMA BreakerRead ==
  ASSUME NEW seed \in Word(8), NEW n \in {1, 2},
         NEW bytes, NEW at, NEW got, NEW rest \in Seq(Byte), Ends(bytes, at, (seed \o <<n>>) \o rest)
  PROVE  \E j, later : /\ ReadsTo(bytes, at, got, BreakerFields, j, later, rest)
                       /\ Says(later, [rackSeed |-> seed, breaker |-> n]) /\ KeepsBut(got, later, NamesOf(BreakerFields))
<1> DEFINE parts == << seed, <<n>> >>
           fields == BreakerFields
<1>1. Len(parts) = 2 /\ Len(fields) = 2
  BY DEF BreakerFields
<1>2. /\ parts[1] = seed
      /\ parts[2] = <<n>>
  OBVIOUS
<1>3. /\ fields[1] = Raw("rackSeed", 8)
      /\ fields[2] = Field("breaker", 1, {1, 2})
  BY DEF BreakerFields
<1>4. FieldFits(seed, Raw("rackSeed", 8)) /\ Value(seed) = seed
  BY RawFits
<1>5. FieldFits(<<n>>, Field("breaker", 1, {1, 2})) /\ Value(<<n>>) = n
  <2>1. n \in Byte
    BY DEF Byte
  <2> QED
    BY <2>1, ByteFits
<1>6. Joined(parts) = (seed \o <<n>>)
  <2>1. seed \in Seq(Byte) /\ <<n>> \in Seq(Byte)
    BY <1>4, <1>5 DEF FieldFits
  <2>2. JoinsTwo(seed, <<n>>)
    BY <2>1, JoinedTwo
  <2> QED
    BY <2>2, Zenon DEF JoinsTwo
<1> HIDE DEF parts, fields
<1>7. RowFits(parts, fields, 2)
  <2>1. ASSUME NEW i \in 1 .. 2
        PROVE  FieldFits(parts[i], fields[i])
    <3>1. CASE i = 1
      BY <1>2, <1>3, <1>4, <3>1
    <3>2. CASE i = 2
      BY <1>2, <1>3, <1>5, <3>2
    <3> QED
      BY <3>1, <3>2
  <2> DEFINE Place == [ rackSeed |-> 1,
                        breaker |-> 2 ]
  <2>2. Place.rackSeed = 1 /\ Place.breaker = 2
    OBVIOUS
  <2> HIDE DEF Place
  <2>a. ASSUME NEW i \in 1 .. 2
        PROVE  Place[fields[i].name] = i
    <3>1. CASE i = 1
      <4>1. fields[i].name = "rackSeed"
        BY <1>3, <3>1 DEF Field, Raw
      <4> QED
        BY <2>2, <3>1, <4>1
    <3>2. CASE i = 2
      <4>1. fields[i].name = "breaker"
        BY <1>3, <3>2 DEF Field, Raw
      <4> QED
        BY <2>2, <3>2, <4>1
    <3> QED
      BY <3>1, <3>2
  <2>3. \A i, k \in 1 .. 2 : fields[i].name = fields[k].name => i = k
    BY <2>a
  <2> QED
    BY <1>1, <2>1, <2>3 DEF RowFits
<1>8. PICK j, later : /\ ReadsTo(bytes, at, got, fields, j, later, rest)
                       /\ Written(later, parts, fields) /\ KeepsBut(got, later, NamesOf(fields))
  BY <1>6, <1>7, RowWritten
<1>9. "rackSeed" \in DOMAIN later /\ later["rackSeed"] = seed
  <2>1. fields[1].name \in DOMAIN later /\ later[fields[1].name] = Value(parts[1])
    BY <1>1, <1>8 DEF Written
  <2>2. fields[1].name = "rackSeed"
    BY <1>3 DEF Field, Raw
  <2> QED
    BY <1>2, <1>4, <2>1, <2>2
<1>10. "breaker" \in DOMAIN later /\ later["breaker"] = n
  <2>1. fields[2].name \in DOMAIN later /\ later[fields[2].name] = Value(parts[2])
    BY <1>1, <1>8 DEF Written
  <2>2. fields[2].name = "breaker"
    BY <1>3 DEF Field, Raw
  <2> QED
    BY <1>2, <1>5, <2>1, <2>2
<1>11. Says(later, [rackSeed |-> seed, breaker |-> n])
  <2> DEFINE whole == [rackSeed |-> seed, breaker |-> n]
  <2>1. DOMAIN whole = {"rackSeed", "breaker"}
    OBVIOUS
  <2>2. whole.rackSeed = seed /\ whole.breaker = n
    OBVIOUS
  <2> HIDE DEF whole
  <2>3. Says(later, whole)
    BY <2>1, <2>2, <1>9, <1>10 DEF Says
  <2> QED
    BY <2>3 DEF whole
<1> QED
  BY <1>8, <1>11 DEF fields

(* Lists of fields that are read one after another.                        *)
FieldNames ==
  { "version", "rules", "physicsVersion", "ticksPerSecond", "maximumTicks", "maximumSpeed", "rollingDeceleration",
    "cushionRestitution", "collisionRestitution", "settlingSpeed", "geometryVersion", "halfWidth", "halfHeight",
    "ballRadius", "pocketRadius", "rackSeed", "breaker", "reracks", "active", "pending", "group", "inHand",
    "number", "pocketed", "x", "y", "vx", "vy", "rx", "ry", "side" }

AnyField == [name : FieldNames, width : Nat, legal : SUBSET Int, free : BOOLEAN]

LEMMA FieldLists ==
  /\ VersionFields \in Seq(AnyField) /\ BreakerFields \in Seq(AnyField)
  /\ GeometryFields \in Seq(AnyField) /\ PhysicsFields \in Seq(AnyField)
<1>1. {1} \in SUBSET Int /\ {1, 2} \in SUBSET Int /\ TickRates \in SUBSET Int /\ {} \in SUBSET Int
  BY TickRateFits
<1>2. VersionFields \in Seq(AnyField)
  <2>1. Field("version", 2, {1}) \in AnyField
    BY <1>1 DEF Field, Raw, AnyField, FieldNames
  <2>2. Field("rules", 2, {1}) \in AnyField
    BY <1>1 DEF Field, Raw, AnyField, FieldNames
  <2> QED
    BY <2>1, <2>2 DEF VersionFields
<1>3. BreakerFields \in Seq(AnyField)
  <2>1. Raw("rackSeed", 8) \in AnyField
    BY <1>1 DEF Field, Raw, AnyField, FieldNames
  <2>2. Field("breaker", 1, {1, 2}) \in AnyField
    BY <1>1 DEF Field, Raw, AnyField, FieldNames
  <2> QED
    BY <2>1, <2>2 DEF BreakerFields
<1>4. GeometryFields \in Seq(AnyField)
  <2>1. Field("geometryVersion", 2, {1}) \in AnyField
    BY <1>1 DEF Field, Raw, AnyField, FieldNames
  <2>2. Raw("halfWidth", 8) \in AnyField
    BY <1>1 DEF Field, Raw, AnyField, FieldNames
  <2>3. Raw("halfHeight", 8) \in AnyField
    BY <1>1 DEF Field, Raw, AnyField, FieldNames
  <2>4. Raw("ballRadius", 8) \in AnyField
    BY <1>1 DEF Field, Raw, AnyField, FieldNames
  <2>5. Raw("pocketRadius", 8) \in AnyField
    BY <1>1 DEF Field, Raw, AnyField, FieldNames
  <2> QED
    BY <2>1, <2>2, <2>3, <2>4, <2>5 DEF GeometryFields
<1>5. PhysicsFields \in Seq(AnyField)
  <2>1. Field("physicsVersion", 2, {1}) \in AnyField
    BY <1>1 DEF Field, Raw, AnyField, FieldNames
  <2>2. Field("ticksPerSecond", 2, TickRates) \in AnyField
    BY <1>1 DEF Field, Raw, AnyField, FieldNames
  <2>3. Raw("maximumTicks", 4) \in AnyField
    BY <1>1 DEF Field, Raw, AnyField, FieldNames
  <2>4. Raw("maximumSpeed", 8) \in AnyField
    BY <1>1 DEF Field, Raw, AnyField, FieldNames
  <2>5. Raw("rollingDeceleration", 8) \in AnyField
    BY <1>1 DEF Field, Raw, AnyField, FieldNames
  <2>6. Raw("cushionRestitution", 4) \in AnyField
    BY <1>1 DEF Field, Raw, AnyField, FieldNames
  <2>7. Raw("collisionRestitution", 4) \in AnyField
    BY <1>1 DEF Field, Raw, AnyField, FieldNames
  <2>8. Raw("settlingSpeed", 8) \in AnyField
    BY <1>1 DEF Field, Raw, AnyField, FieldNames
  <2> QED
    BY <2>1, <2>2, <2>3, <2>4, <2>5, <2>6, <2>7, <2>8 DEF PhysicsFields
<1> QED
  BY <1>2, <1>3, <1>4, <1>5

LEMMA ReadsOn ==
  ASSUME NEW f \in Seq(AnyField), NEW g \in Seq(AnyField),
         NEW bytes, NEW at, NEW got, NEW j, NEW later, NEW rest, NEW k, NEW last, NEW end,
         ReadsTo(bytes, at, got, f, j, later, rest), ReadsTo(bytes, j, later, g, k, last, end)
  PROVE  ReadsTo(bytes, at, got, f \o g, k, last, end)
<1>1. ReadAll(Got(bytes, at, got), f \o g) = ReadAll(ReadAll(Got(bytes, at, got), f), g)
  BY ReadJoined
<1>2. ReadAll(Got(bytes, at, got), f) = Got(bytes, j, later)
  BY DEF ReadsTo
<1>3. ReadAll(Got(bytes, j, later), g) = Got(bytes, k, last) /\ Ends(bytes, k, end)
  BY DEF ReadsTo
<1> QED
  BY <1>1, <1>2, <1>3 DEF ReadsTo

(* What is said stays said while fields of other names are read.           *)
LEMMA StillSays ==
  ASSUME NEW got, NEW whole, Says(got, whole), NEW later, NEW names, KeepsBut(got, later, names),
         DOMAIN whole \cap names = {}
  PROVE  Says(later, whole)
BY DEF Says, KeepsBut

LEMMA RowTypes ==
  /\ \A p \in PhysicsProfiles : Payload(PhysicsBytes(p))
  /\ \A g \in Geometries : Payload(GeometryBytes(g))
<1>1. Payload(Be(2, 1))
  <2>1. Be(2, 1) \in Word(2)
    BY BeType
  <2> QED
    BY <2>1, WordLength DEF Payload
<1>2. ASSUME NEW p \in PhysicsProfiles
      PROVE  Payload(PhysicsBytes(p))
  <2>1. Payload(Be(2, p.ticksPerSecond))
    <3>1. p.ticksPerSecond \in TickRates
      BY DEF PhysicsProfiles
    <3>2. Be(2, p.ticksPerSecond) \in Word(2)
      BY <3>1, TickRateFits, BeType
    <3> QED
      BY <3>2, WordLength DEF Payload
  <2>2. /\ p.maximumTicks \in Word(4) /\ p.maximumSpeed \in Word(8) /\ p.rollingDeceleration \in Word(8)
        /\ p.cushionRestitution \in Word(4) /\ p.collisionRestitution \in Word(4) /\ p.settlingSpeed \in Word(8)
    BY DEF PhysicsProfiles
  <2>3. /\ Payload(p.maximumTicks) /\ Payload(p.maximumSpeed) /\ Payload(p.rollingDeceleration)
        /\ Payload(p.cushionRestitution) /\ Payload(p.collisionRestitution) /\ Payload(p.settlingSpeed)
    BY <2>2, WordLength DEF Payload
  <2>4. Payload(Be(2, 1) \o Be(2, p.ticksPerSecond))
    BY <1>1, <2>1, PayloadsJoin
  <2>5. Payload(Be(2, 1) \o Be(2, p.ticksPerSecond) \o p.maximumTicks)
    BY <2>3, <2>4, PayloadsJoin
  <2>6. Payload(Be(2, 1) \o Be(2, p.ticksPerSecond) \o p.maximumTicks \o p.maximumSpeed)
    BY <2>3, <2>5, PayloadsJoin
  <2>7. Payload(Be(2, 1) \o Be(2, p.ticksPerSecond) \o p.maximumTicks \o p.maximumSpeed \o p.rollingDeceleration)
    BY <2>3, <2>6, PayloadsJoin
  <2> DEFINE front == Be(2, 1) \o Be(2, p.ticksPerSecond) \o p.maximumTicks \o p.maximumSpeed
                        \o p.rollingDeceleration
  <2>8. PhysicsBytes(p) = ((front \o p.cushionRestitution) \o p.collisionRestitution) \o p.settlingSpeed
    BY Zenon DEF PhysicsBytes
  <2>9. Payload(front)
    BY <2>7
  <2> HIDE DEF front
  <2>10. Payload((front \o p.cushionRestitution) \o p.collisionRestitution)
    BY <2>3, <2>9, PayloadsJoin
  <2> DEFINE most == (front \o p.cushionRestitution) \o p.collisionRestitution
  <2>11. PhysicsBytes(p) = most \o p.settlingSpeed /\ Payload(most)
    BY <2>8, <2>10
  <2> HIDE DEF most
  <2> QED
    BY <2>3, <2>11, PayloadsJoin
<1>3. ASSUME NEW g \in Geometries
      PROVE  Payload(GeometryBytes(g))
  <2>1. g.halfWidth \in Word(8) /\ g.halfHeight \in Word(8) /\ g.ballRadius \in Word(8) /\ g.pocketRadius \in Word(8)
    BY DEF Geometries
  <2>2. Payload(g.halfWidth) /\ Payload(g.halfHeight) /\ Payload(g.ballRadius) /\ Payload(g.pocketRadius)
    BY <2>1, WordLength DEF Payload
  <2>3. Payload(Be(2, 1) \o g.halfWidth)
    BY <1>1, <2>2, PayloadsJoin
  <2>4. Payload(Be(2, 1) \o g.halfWidth \o g.halfHeight)
    BY <2>2, <2>3, PayloadsJoin
  <2>5. Payload(Be(2, 1) \o g.halfWidth \o g.halfHeight \o g.ballRadius)
    BY <2>2, <2>4, PayloadsJoin
  <2> DEFINE most == Be(2, 1) \o g.halfWidth \o g.halfHeight \o g.ballRadius
  <2>6. GeometryBytes(g) = most \o g.pocketRadius /\ Payload(most)
    BY <2>5, Zenon DEF GeometryBytes
  <2> HIDE DEF most
  <2> QED
    BY <2>2, <2>6, PayloadsJoin
<1> QED
  BY <1>2, <1>3

(* A ball that can be written.                                             *)
IsLaid(ball) ==
  /\ ball.pocketed \in BOOLEAN /\ ball = BallOf(ball.pocketed, ball)
  /\ \A k \in 1 .. 7 : ball[Coordinates[k]] \in Word(8)

CoordinateFields == [i \in DOMAIN Coordinates |-> Raw(Coordinates[i], 8)]

CoordinateParts(ball) == [i \in DOMAIN Coordinates |-> ball[Coordinates[i]]]

LEMMA CoordinateNames ==
  /\ DOMAIN Coordinates = 1 .. 7 /\ Len(Coordinates) = 7
  /\ Coordinates[1] = "x" /\ Coordinates[2] = "y" /\ Coordinates[3] = "vx" /\ Coordinates[4] = "vy"
  /\ Coordinates[5] = "rx" /\ Coordinates[6] = "ry" /\ Coordinates[7] = "side"
BY DEF Coordinates

LEMMA CoordinatesDiffer ==
  /\ \A i, k \in 1 .. 7 : Coordinates[i] = Coordinates[k] => i = k
  /\ \A i \in 1 .. 7 : Coordinates[i] \notin {"number", "pocketed"}
<1> DEFINE Place == [x |-> 1, y |-> 2, vx |-> 3, vy |-> 4, rx |-> 5, ry |-> 6, side |-> 7]
<1>1. ASSUME NEW i \in 1 .. 7
      PROVE  Place[Coordinates[i]] = i
  <2>1. Place.x = 1 /\ Place.y = 2 /\ Place.vx = 3 /\ Place.vy = 4 /\ Place.rx = 5 /\ Place.ry = 6 /\ Place.side = 7
    OBVIOUS
  <2> HIDE DEF Place
  <2>2. i = 1 \/ i = 2 \/ i = 3 \/ i = 4 \/ i = 5 \/ i = 6 \/ i = 7
    OBVIOUS
  <2> QED
    BY <2>1, <2>2, CoordinateNames
<1> HIDE DEF Place
<1>2. \A i, k \in 1 .. 7 : Coordinates[i] = Coordinates[k] => i = k
  BY <1>1
<1>3. ASSUME NEW i \in 1 .. 7
      PROVE  Coordinates[i] \notin {"number", "pocketed"}
  <2>1. i = 1 \/ i = 2 \/ i = 3 \/ i = 4 \/ i = 5 \/ i = 6 \/ i = 7
    OBVIOUS
  <2> QED
    BY <2>1, CoordinateNames
<1> QED
  BY <1>2, <1>3

CoordinatesSaid(got, later, ball) ==
  /\ \A k \in 1 .. 7 : later[Coordinates[k]] = ball[Coordinates[k]]
  /\ \A c \in DOMAIN got \cap {"number", "pocketed"} : c \in DOMAIN later /\ later[c] = got[c]

LEMMA CoordinatesRead ==
  ASSUME NEW ball, IsLaid(ball), NEW bytes, NEW at, NEW got, NEW rest \in Seq(Byte),
         Ends(bytes, at, Joined(CoordinateParts(ball)) \o rest)
  PROVE  \E j, later : ReadsTo(bytes, at, got, CoordinateFields, j, later, rest) /\ CoordinatesSaid(got, later, ball)
<1> DEFINE parts == CoordinateParts(ball)
           fields == CoordinateFields
<1>1. Len(parts) = 7 /\ Len(fields) = 7
  BY CoordinateNames DEF CoordinateParts, CoordinateFields
<1>2. \A i \in 1 .. 7 : parts[i] = ball[Coordinates[i]] /\ fields[i] = Raw(Coordinates[i], 8)
  BY CoordinateNames DEF CoordinateParts, CoordinateFields
<1> HIDE DEF parts, fields
<1>3. ASSUME NEW i \in 1 .. 7
      PROVE  FieldFits(parts[i], fields[i]) /\ Value(parts[i]) = parts[i] /\ fields[i].name = Coordinates[i]
  <2> DEFINE raw == parts[i]
             name == Coordinates[i]
  <2>1. raw \in Word(8) /\ fields[i] = Raw(name, 8)
    BY <1>2 DEF IsLaid
  <2>2. Raw(name, 8).name = name
    BY DEF Raw
  <2> HIDE DEF raw, name
  <2>3. FieldFits(raw, Raw(name, 8)) /\ Value(raw) = raw
    BY <2>1, RawFits
  <2> QED
    BY <2>1, <2>2, <2>3 DEF raw, name
<1>4. RowFits(parts, fields, 7)
  <2>1. \A i, k \in 1 .. 7 : fields[i].name = fields[k].name => i = k
    BY <1>3, CoordinatesDiffer
  <2> QED
    BY <1>1, <1>3, <2>1 DEF RowFits
<1>5. PICK j, later : /\ ReadsTo(bytes, at, got, fields, j, later, rest)
                      /\ Written(later, parts, fields) /\ KeepsBut(got, later, NamesOf(fields))
  BY <1>4, RowWritten DEF parts
<1>6. \A k \in 1 .. 7 : later[Coordinates[k]] = ball[Coordinates[k]]
  BY <1>1, <1>2, <1>3, <1>5 DEF Written
<1>7. \A c \in {"number", "pocketed"} : c \notin NamesOf(fields)
  BY <1>1, <1>3, CoordinatesDiffer DEF NamesOf
<1> QED
  BY <1>5, <1>6, <1>7 DEF KeepsBut, CoordinatesSaid, fields

LEMMA SameBall ==
  ASSUME NEW p, NEW lie, NEW later, \A k \in 1 .. 7 : later[Coordinates[k]] = lie[Coordinates[k]]
  PROVE  BallOf(p, later) = BallOf(p, lie)
<1>1. DOMAIN Coordinates = 1 .. 7
  BY CoordinateNames
<1>2. ASSUME NEW c \in {"pocketed"} \cup {Coordinates[k] : k \in DOMAIN Coordinates}, c # "pocketed"
      PROVE  later[c] = lie[c]
  BY <1>1, <1>2
<1> QED
  BY <1>2 DEF BallOf

(* The number of a ball, and whether it is down.                           *)
NumberFields == << Field("number", 1, 0 .. 15), Flag("pocketed") >>

LEMMA NumberRead ==
  ASSUME NEW n \in 0 .. 15, NEW d \in {0, 1},
         NEW bytes, NEW at, NEW got, NEW rest \in Seq(Byte), Ends(bytes, at, (<<n>> \o <<d>>) \o rest)
  PROVE  \E j, later : /\ ReadsTo(bytes, at, got, NumberFields, j, later, rest)
                       /\ Says(later, [number |-> n, pocketed |-> d]) /\ KeepsBut(got, later, NamesOf(NumberFields))
<1> DEFINE parts == << <<n>>, <<d>> >>
           fields == NumberFields
<1>1. Len(parts) = 2 /\ Len(fields) = 2
  BY DEF NumberFields
<1>2. /\ parts[1] = <<n>>
      /\ parts[2] = <<d>>
  OBVIOUS
<1>3. /\ fields[1] = Field("number", 1, 0 .. 15)
      /\ fields[2] = Field("pocketed", 1, {0, 1})
  BY DEF NumberFields, Flag
<1>4. FieldFits(<<n>>, Field("number", 1, 0 .. 15)) /\ Value(<<n>>) = n
  <2>1. n \in Byte
    BY DEF Byte
  <2> QED
    BY <2>1, ByteFits
<1>5. FieldFits(<<d>>, Field("pocketed", 1, {0, 1})) /\ Value(<<d>>) = d
  <2>1. d \in Byte
    BY DEF Byte
  <2> QED
    BY <2>1, ByteFits
<1>6. Joined(parts) = (<<n>> \o <<d>>)
  <2>1. <<n>> \in Seq(Byte) /\ <<d>> \in Seq(Byte)
    BY <1>4, <1>5 DEF FieldFits
  <2>2. JoinsTwo(<<n>>, <<d>>)
    BY <2>1, JoinedTwo
  <2> QED
    BY <2>2, Zenon DEF JoinsTwo
<1> HIDE DEF parts, fields
<1>7. RowFits(parts, fields, 2)
  <2>1. ASSUME NEW i \in 1 .. 2
        PROVE  FieldFits(parts[i], fields[i])
    <3>1. CASE i = 1
      BY <1>2, <1>3, <1>4, <3>1
    <3>2. CASE i = 2
      BY <1>2, <1>3, <1>5, <3>2
    <3> QED
      BY <3>1, <3>2
  <2> DEFINE Place == [ number |-> 1,
                        pocketed |-> 2 ]
  <2>2. Place.number = 1 /\ Place.pocketed = 2
    OBVIOUS
  <2> HIDE DEF Place
  <2>a. ASSUME NEW i \in 1 .. 2
        PROVE  Place[fields[i].name] = i
    <3>1. CASE i = 1
      <4>1. fields[i].name = "number"
        BY <1>3, <3>1 DEF Field, Raw
      <4> QED
        BY <2>2, <3>1, <4>1
    <3>2. CASE i = 2
      <4>1. fields[i].name = "pocketed"
        BY <1>3, <3>2 DEF Field, Raw
      <4> QED
        BY <2>2, <3>2, <4>1
    <3> QED
      BY <3>1, <3>2
  <2>3. \A i, k \in 1 .. 2 : fields[i].name = fields[k].name => i = k
    BY <2>a
  <2> QED
    BY <1>1, <2>1, <2>3 DEF RowFits
<1>8. PICK j, later : /\ ReadsTo(bytes, at, got, fields, j, later, rest)
                       /\ Written(later, parts, fields) /\ KeepsBut(got, later, NamesOf(fields))
  BY <1>6, <1>7, RowWritten
<1>9. "number" \in DOMAIN later /\ later["number"] = n
  <2>1. fields[1].name \in DOMAIN later /\ later[fields[1].name] = Value(parts[1])
    BY <1>1, <1>8 DEF Written
  <2>2. fields[1].name = "number"
    BY <1>3 DEF Field, Raw
  <2> QED
    BY <1>2, <1>4, <2>1, <2>2
<1>10. "pocketed" \in DOMAIN later /\ later["pocketed"] = d
  <2>1. fields[2].name \in DOMAIN later /\ later[fields[2].name] = Value(parts[2])
    BY <1>1, <1>8 DEF Written
  <2>2. fields[2].name = "pocketed"
    BY <1>3 DEF Field, Raw
  <2> QED
    BY <1>2, <1>5, <2>1, <2>2
<1>11. Says(later, [number |-> n, pocketed |-> d])
  <2> DEFINE whole == [number |-> n, pocketed |-> d]
  <2>1. DOMAIN whole = {"number", "pocketed"}
    OBVIOUS
  <2>2. whole.number = n /\ whole.pocketed = d
    OBVIOUS
  <2> HIDE DEF whole
  <2>3. Says(later, whole)
    BY <2>1, <2>2, <1>9, <1>10 DEF Says
  <2> QED
    BY <2>3 DEF whole
<1> QED
  BY <1>8, <1>11 DEF fields

(* What stands at a place is followed by the rest of the payload.          *)
LEMMA HoldsEnds ==
  ASSUME NEW bytes \in Seq(Byte), NEW at \in Nat, NEW raw \in Seq(Byte), Holds(bytes, at, raw)
  PROVE  \E rest \in Seq(Byte) : Ends(bytes, at, raw \o rest)
<1> DEFINE l == Len(raw)
           rest == SubSeq(bytes, at + l + 1, Len(bytes))
           w == raw \o rest
<1>1. l \in Nat /\ at + l <= Len(bytes) /\ \A i \in 1 .. l : bytes[at + i] = raw[i]
  BY DEF Holds
<1>2. rest \in Seq(Byte) /\ Len(rest) = Len(bytes) - (at + l)
      /\ \A i \in 1 .. Len(rest) : rest[i] = bytes[at + l + i]
  BY <1>1
<1> HIDE DEF rest
<1>3. /\ w \in Seq(Byte) /\ Len(w) = l + Len(rest)
      /\ \A i \in 1 .. Len(w) : w[i] = IF i <= l THEN raw[i] ELSE rest[i - l]
  BY <1>2
<1>4. ASSUME NEW i \in 1 .. Len(w)
      PROVE  bytes[at + i] = w[i]
  <2>1. CASE i <= l
    BY <1>1, <1>3, <2>1
  <2>2. CASE i > l
    <3>1. i - l \in 1 .. Len(rest) /\ at + l + (i - l) = at + i /\ w[i] = rest[i - l]
      BY <1>1, <1>2, <1>3, <2>2
    <3> QED
      BY <1>2, <3>1
  <2> QED
    BY <1>1, <2>1, <2>2
<1> HIDE DEF w, l
<1>5. Len(bytes) = at + Len(w) /\ at + Len(w) <= Len(bytes)
  BY <1>1, <1>2, <1>3
<1>6. Ends(bytes, at, w)
  BY <1>3, <1>4, <1>5 DEF Ends, Holds
<1> QED
  BY <1>2, <1>6 DEF w

LEMMA BallFieldLists == NumberFields \in Seq(AnyField) /\ CoordinateFields \in Seq(AnyField)
<1>1. 0 .. 15 \in SUBSET Int /\ {0, 1} \in SUBSET Int /\ {} \in SUBSET Int
  OBVIOUS
<1>2. Field("number", 1, 0 .. 15) \in AnyField /\ Field("pocketed", 1, {0, 1}) \in AnyField
  BY <1>1 DEF Field, AnyField, FieldNames
<1>3. NumberFields \in Seq(AnyField)
  BY <1>2 DEF NumberFields, Flag
<1>4. ASSUME NEW i \in 1 .. 7
      PROVE  CoordinateFields[i] \in AnyField
  <2>1. CoordinateFields[i] = Raw(Coordinates[i], 8)
    BY CoordinateNames DEF CoordinateFields
  <2>2. Coordinates[i] \in FieldNames
    <3>1. i = 1 \/ i = 2 \/ i = 3 \/ i = 4 \/ i = 5 \/ i = 6 \/ i = 7
      OBVIOUS
    <3> QED
      BY <3>1, CoordinateNames DEF FieldNames
  <2> QED
    BY <1>1, <2>1, <2>2 DEF Raw, AnyField
<1>5. DOMAIN CoordinateFields = 1 .. 7 /\ CoordinateFields = [i \in 1 .. 7 |-> CoordinateFields[i]]
  BY CoordinateNames DEF CoordinateFields
<1> QED
  BY <1>3, <1>4, <1>5

(* The reader that a ball has been read by.                                *)
AfterBall(bytes, at, got, n, ball) ==
  Got(bytes, at + Len(BallBytes(n, ball)), With(got, n, ball))

LEMMA BallBytesJoin ==
  ASSUME NEW n \in 0 .. 15, NEW ball, IsLaid(ball)
  PROVE  \E d \in {0, 1} : /\ (d = 1) = ball.pocketed
                           /\ BallBytes(n, ball) = (<<n>> \o <<d>>) \o Joined(CoordinateParts(ball))
                           /\ Payload(<<n>> \o <<d>>) /\ Payload(Joined(CoordinateParts(ball)))
<1>1. PICK d \in {0, 1} : BooleanByte(ball.pocketed) = <<d>> /\ (d = 1) = ball.pocketed
  <2> DEFINE p == ball.pocketed
  <2>1. p \in BOOLEAN
    BY DEF IsLaid
  <2> HIDE DEF p
  <2>2. CASE p = TRUE
    <3>1. BooleanByte(p) = <<1>> /\ (1 = 1) = p
      BY <2>2 DEF BooleanByte
    <3> QED
      BY <3>1 DEF p
  <2>3. CASE p = FALSE
    <3>1. BooleanByte(p) = <<0>>
      BY <2>3 DEF BooleanByte
    <3>2. (0 = 1) = FALSE
      BY SMT
    <3> QED
      BY <2>3, <3>1, <3>2 DEF p
  <2> QED
    BY <2>1, <2>2, <2>3
<1>2. BallBytes(n, ball) = (<<n>> \o <<d>>) \o Joined(CoordinateParts(ball))
  BY <1>1, Zenon DEF BallBytes, CoordinateParts
<1>3. Payload(<<n>> \o <<d>>)
  <2>1. Payload(<<n>>) /\ Payload(<<d>>)
    BY DEF Payload, Byte
  <2> QED
    BY <2>1, PayloadsJoin
<1>4. Payload(Joined(CoordinateParts(ball)))
  <2> DEFINE parts == CoordinateParts(ball)
  <2>1. Len(parts) = 7 /\ \A i \in 1 .. 7 : parts[i] = ball[Coordinates[i]]
    BY CoordinateNames DEF CoordinateParts
  <2> HIDE DEF parts
  <2>2. \A i \in 1 .. 7 : parts[i] \in Seq(Byte)
    BY <2>1, WordLength DEF IsLaid
  <2> DEFINE seven == 7
  <2>a. seven \in Nat /\ Len(parts) = seven /\ seven = 7
    BY <2>1
  <2> HIDE DEF seven
  <2>3. PICK u : /\ u[0] = << >>
                 /\ \A i \in 1 .. seven : Follows(u, parts, i - 1, i)
                 /\ Joined(parts) = u[seven]
    BY <2>a, JoinedUpTo
  <2>4. \A i \in 1 .. seven : u[i] = u[i - 1] \o parts[i]
    BY <2>3, Zenon DEF Follows
  <2>b. \A i \in 1 .. seven : parts[i] \in Seq(Byte)
    BY <2>2, <2>a
  <2>c. \A i \in 0 .. seven : u[i] \in Seq(Byte)
    BY <2>a, <2>b, <2>3, <2>4, PartsHeld, Zenon
  <2>5. u[seven] \in Seq(Byte)
    BY <2>a, <2>c
  <2> QED
    BY <2>3, <2>5 DEF Payload, parts
<1> QED
  BY <1>1, <1>2, <1>3, <1>4

LEMMA BallRead ==
  ASSUME NEW bytes \in Seq(Byte), NEW at \in Nat, NEW got, NEW n \in 0 .. 15, n \notin DOMAIN got,
         NEW ball, IsLaid(ball), Holds(bytes, at, BallBytes(n, ball))
  PROVE  TakeBall(Got(bytes, at, got)) = AfterBall(bytes, at, got, n, ball)
<1>1. PICK d \in {0, 1} : /\ (d = 1) = ball.pocketed
                          /\ BallBytes(n, ball) = (<<n>> \o <<d>>) \o Joined(CoordinateParts(ball))
                          /\ Payload(<<n>> \o <<d>>) /\ Payload(Joined(CoordinateParts(ball)))
  BY BallBytesJoin
<1> DEFINE x == <<n>> \o <<d>>
           y == Joined(CoordinateParts(ball))
           raw == BallBytes(n, ball)
<1>2. raw = x \o y /\ Payload(x) /\ Payload(y)
  BY <1>1
<1> HIDE DEF x, y, raw
<1>3. Payload(raw)
  BY <1>2, PayloadsJoin
<1>4. PICK rest \in Seq(Byte) : Ends(bytes, at, raw \o rest)
  BY <1>3, HoldsEnds DEF Payload, raw
<1> DEFINE tail == y \o rest
<1>5. Associate(x, y, rest) /\ Payload(tail)
  BY <1>2, <1>4, PayloadsAssociate, PayloadsJoin DEF Payload
<1>6. Ends(bytes, at, x \o tail)
  BY <1>2, <1>4, <1>5, Zenon DEF Associate
<1> HIDE DEF tail
<1>7. PICK j, l : /\ ReadsTo(bytes, at, << >>, NumberFields, j, l, tail)
                  /\ Says(l, [number |-> n, pocketed |-> d])
  BY <1>5, <1>6, NumberRead DEF x, Payload
<1>8. Ends(bytes, j, y \o rest)
  BY <1>7 DEF ReadsTo, tail
<1>9. PICK k, m : ReadsTo(bytes, j, l, CoordinateFields, k, m, rest) /\ CoordinatesSaid(l, m, ball)
  BY <1>8, CoordinatesRead, Zenon DEF y
<1>10. ReadsTo(bytes, at, << >>, NumberFields \o CoordinateFields, k, m, rest)
  BY <1>7, <1>9, ReadsOn, BallFieldLists
<1>11. BallFields = NumberFields \o CoordinateFields
  BY Zenon DEF BallFields, NumberFields, CoordinateFields
<1>12. ReadAll(Got(bytes, at, << >>), BallFields) = Got(bytes, k, m) /\ Ends(bytes, k, rest)
  BY <1>10, <1>11 DEF ReadsTo
<1>13. k = at + Len(raw)
  <2> DEFINE w == raw \o rest
  <2>1. Len(w) = Len(raw) + Len(rest) /\ Len(raw) \in Nat /\ Len(rest) \in Nat
    BY <1>3, <1>4 DEF Payload
  <2>2. Len(bytes) = at + Len(w)
    BY <1>4 DEF Ends
  <2>3. Len(bytes) = k + Len(rest) /\ k \in Nat
    BY <1>12 DEF Ends
  <2> HIDE DEF w
  <2> QED
    BY <2>1, <2>2, <2>3
<1>14. m.number = n /\ m.pocketed = d
  <2>1. "number" \in DOMAIN l /\ "pocketed" \in DOMAIN l /\ l["number"] = n /\ l["pocketed"] = d
    BY <1>7 DEF Says
  <2> QED
    BY <1>9, <2>1 DEF CoordinatesSaid
<1>15. BallOf(m.pocketed = 1, m) = ball
  <2>1. BallOf(ball.pocketed, m) = BallOf(ball.pocketed, ball)
    BY <1>9, SameBall DEF CoordinatesSaid
  <2> QED
    BY <1>1, <1>14, <2>1 DEF IsLaid
<1> DEFINE next == Got(bytes, k, m)
<1>16. next.ok = TRUE /\ next.got = m
  BY DEF Got
<1>17. [Got(bytes, at, got) EXCEPT !.got = << >>] = Got(bytes, at, << >>) /\ Got(bytes, at, got).got = got
  BY GotOther DEF Got
<1>18. TakeBall(Got(bytes, at, got)) = [next EXCEPT !.got = With(got, n, ball)]
  BY <1>12, <1>14, <1>15, <1>16, <1>17 DEF TakeBall
<1>19. [next EXCEPT !.got = With(got, n, ball)] = Got(bytes, k, With(got, n, ball))
  BY GotOther
<1> QED
  BY <1>13, <1>18, <1>19 DEF AfterBall, raw

(* A loop takes one ball after the other.                                  *)
LEMMA TakeBallsByStep ==
  ASSUME NEW r, NEW count \in Nat
  PROVE  \E u : /\ u[0] = r
                /\ \A i \in 1 .. count : u[i] = TakeBall(u[i - 1])
                /\ TakeBalls(r, count) = u[count]
<1> DEFINE Step(u, n) == u = [i \in 0 .. n |-> IF i = 0 THEN r ELSE TakeBall(u[i - 1])]
           T == {n \in Nat : \E u : Step(u, n)}
<1>1. 0 \in T
  <2> DEFINE g == [i \in 0 .. 0 |-> r]
  <2>1. Step(g, 0)
    OBVIOUS
  <2> QED
    BY <2>1
<1>2. ASSUME NEW n \in T
      PROVE  n + 1 \in T
  <2>1. PICK u : Step(u, n)
    OBVIOUS
  <2> DEFINE g == [i \in 0 .. n + 1 |-> IF i = n + 1 THEN TakeBall(u[n]) ELSE u[i]]
  <2>2. n \in Nat
    OBVIOUS
  <2>3. ASSUME NEW i \in 0 .. n + 1
        PROVE  g[i] = IF i = 0 THEN r ELSE TakeBall(g[i - 1])
    <3>1. CASE i = n + 1
      BY <2>2, <3>1
    <3>2. CASE i \in 0 .. n
      <4>1. u[i] = IF i = 0 THEN r ELSE TakeBall(u[i - 1])
        BY <2>1, <3>2
      <4>2. g[i] = u[i] /\ (i # 0 => g[i - 1] = u[i - 1])
        BY <2>2, <3>2
      <4> QED
        BY <4>1, <4>2
    <3> QED
      BY <2>2, <3>1, <3>2
  <2>4. Step(g, n + 1)
    BY <2>2, <2>3
  <2>5. n + 1 \in Nat
    BY <2>2
  <2> HIDE DEF Step, g
  <2> QED
    BY <2>4, <2>5
<1>3. T = Nat
  <2> HIDE DEF T
  <2>1. T \subseteq Nat
    BY DEF T
  <2> QED
    BY <1>1, <1>2, <2>1, Upwards
<1>4. \E u : Step(u, count)
  BY <1>3
<1> DEFINE U == CHOOSE u : Step(u, count)
<1>5. Step(U, count)
  BY <1>4, Zenon
<1>6. TakeBalls(r, count) = U[count]
  BY DEF TakeBalls
<1> HIDE DEF U
<1>7. /\ U[0] = r
      /\ \A i \in 1 .. count : U[i] = TakeBall(U[i - 1])
  BY <1>5
<1> QED
  BY <1>6, <1>7
LEMMA NumbersAreFew == IsFiniteSet(0 .. 15) /\ Cardinality(0 .. 15) = 16
<1> DEFINE low == 0
           high == 15
<1>1. low \in Int /\ high \in Int /\ ~(low > high) /\ (high - low) + 1 = 16
  OBVIOUS
<1> HIDE DEF low, high
<1>2. IsFiniteSet(low .. high) /\ Cardinality(low .. high) = 16
  BY <1>1, FS_Interval
<1> QED
  BY <1>2 DEF low, high

(* The balls of a table, and those of its first numbers.                   *)
IsLaidTable(laid) ==
  /\ DOMAIN laid \subseteq 0 .. 15 /\ laid = [n \in DOMAIN laid |-> laid[n]]
  /\ \A n \in DOMAIN laid : IsLaid(laid[n])

NumbersBelow(laid, i) == {m \in DOMAIN laid : m < i}

Below(laid, i) == [n \in NumbersBelow(laid, i) |-> laid[n]]

CountBelow(laid, i) == Cardinality(NumbersBelow(laid, i))

LEMMA BelowGrows ==
  ASSUME NEW laid, IsLaidTable(laid), NEW i \in 0 .. 15
  PROVE  /\ i \notin DOMAIN Below(laid, i)
         /\ i \in DOMAIN laid => /\ Below(laid, i + 1) = With(Below(laid, i), i, laid[i])
                                  /\ CountBelow(laid, i + 1) = CountBelow(laid, i) + 1
         /\ i \notin DOMAIN laid => /\ Below(laid, i + 1) = Below(laid, i)
                                     /\ CountBelow(laid, i + 1) = CountBelow(laid, i)
<1> DEFINE D == NumbersBelow(laid, i)
           E == NumbersBelow(laid, i + 1)
<1>1. IsFiniteSet(D)
  <2>1. IsFiniteSet(0 .. 15)
    BY NumbersAreFew
  <2>2. D \in SUBSET (0 .. 15)
    BY DEF IsLaidTable, NumbersBelow
  <2> QED
    BY <2>1, <2>2, FS_Subset
<1>2. i \notin D
  BY DEF NumbersBelow
<1>3. i \in DOMAIN laid => E = D \cup {i}
  BY DEF IsLaidTable, NumbersBelow
<1>4. i \notin DOMAIN laid => E = D
  BY DEF IsLaidTable, NumbersBelow
<1> HIDE DEF D, E
<1>5. i \in DOMAIN laid => Cardinality(E) = Cardinality(D) + 1
  BY <1>1, <1>2, <1>3, FS_AddElement
<1>6. i \in DOMAIN laid => [n \in E |-> laid[n]] = With([n \in D |-> laid[n]], i, laid[i])
  BY <1>2, <1>3 DEF With
<1>7. /\ Below(laid, i) = [n \in D |-> laid[n]] /\ Below(laid, i + 1) = [n \in E |-> laid[n]]
      /\ CountBelow(laid, i) = Cardinality(D) /\ CountBelow(laid, i + 1) = Cardinality(E)
  BY DEF Below, CountBelow, D, E
<1> QED
  BY <1>2, <1>4, <1>5, <1>6, <1>7

LEMMA BelowEnds ==
  ASSUME NEW laid, IsLaidTable(laid)
  PROVE  /\ Below(laid, 0) = << >> /\ CountBelow(laid, 0) = 0
         /\ Below(laid, 16) = laid /\ CountBelow(laid, 16) = Cardinality(DOMAIN laid)
         /\ Cardinality(DOMAIN laid) \in 0 .. 16
         /\ \A i \in 0 .. 16 : CountBelow(laid, i) \in 0 .. Cardinality(DOMAIN laid)
<1> DEFINE N == 0 .. 15
           D == DOMAIN laid
<1>1. IsFiniteSet(N) /\ Cardinality(N) = 16
  BY NumbersAreFew
<1>2. D \subseteq N
  BY DEF IsLaidTable
<1>3. NumbersBelow(laid, 0) = {} /\ NumbersBelow(laid, 16) = D
  BY <1>2 DEF NumbersBelow
<1>a. \A i \in 0 .. 16 : NumbersBelow(laid, i) \in SUBSET D
  BY DEF NumbersBelow
<1> HIDE DEF N, D
<1>4. IsFiniteSet(D) /\ Cardinality(D) <= 16
  BY <1>1, <1>2, FS_Subset
<1>5. Cardinality(D) \in Nat
  BY <1>4, FS_CardinalityType
<1>6. ASSUME NEW i \in 0 .. 16
      PROVE  CountBelow(laid, i) \in 0 .. Cardinality(D)
  <2> DEFINE E == NumbersBelow(laid, i)
  <2>1. E \in SUBSET D
    BY <1>a
  <2> HIDE DEF E
  <2>2. IsFiniteSet(E) /\ Cardinality(E) <= Cardinality(D)
    BY <1>4, <2>1, FS_Subset
  <2>3. Cardinality(E) \in Nat
    BY <2>2, FS_CardinalityType
  <2> QED
    BY <1>5, <2>2, <2>3 DEF CountBelow, E
<1>7. Below(laid, 0) = << >>
  <2>1. Below(laid, 0) = [n \in {} |-> laid[n]]
    BY <1>3 DEF Below
  <2>2. << >> = [n \in {} |-> laid[n]]
    OBVIOUS
  <2> QED
    BY <2>1, <2>2
<1>8. Below(laid, 16) = laid
  BY <1>3 DEF Below, IsLaidTable, D
<1>9. CountBelow(laid, 0) = 0
  BY <1>3, FS_EmptySet DEF CountBelow
<1>10. CountBelow(laid, 16) = Cardinality(D)
  BY <1>3 DEF CountBelow
<1>11. Cardinality(D) \in 0 .. 16 /\ \A i \in 0 .. 16 : CountBelow(laid, i) \in 0 .. Cardinality(D)
  BY <1>4, <1>5, <1>6
<1> QED
  BY <1>7, <1>8, <1>9, <1>10, <1>11, Zenon DEF D

LEMMA RowsLaid ==
  ASSUME NEW laid, IsLaidTable(laid)
  PROVE  /\ Len(BallRows(laid)) = 16
         /\ \A i \in 1 .. 16 : BallRows(laid)[i] \in Seq(Byte)
         /\ \A i \in 0 .. 15 : BallRows(laid)[i + 1] =
                                  IF i \in DOMAIN laid THEN BallBytes(i, laid[i]) ELSE << >>
<1> DEFINE rows == BallRows(laid)
<1>1. Len(rows) = 16
  BY DEF BallRows
<1>2. \A i \in 1 .. 16 : rows[i] = IF i - 1 \in DOMAIN laid THEN BallBytes(i - 1, laid[i - 1]) ELSE << >>
  BY DEF BallRows
<1>3. ASSUME NEW i \in 0 .. 15
      PROVE  rows[i + 1] = IF i \in DOMAIN laid THEN BallBytes(i, laid[i]) ELSE << >>
  <2>1. i + 1 \in 1 .. 16 /\ (i + 1) - 1 = i
    OBVIOUS
  <2> HIDE DEF rows
  <2> QED
    BY <1>2, <2>1
<1> HIDE DEF rows
<1>4. ASSUME NEW i \in 1 .. 16
      PROVE  rows[i] \in Seq(Byte)
  <2> DEFINE k == i - 1
  <2>1. k \in 0 .. 15 /\ k + 1 = i
    OBVIOUS
  <2> HIDE DEF k
  <2>2. CASE k \in DOMAIN laid
    <3> DEFINE ball == laid[k]
    <3>1. IsLaid(ball) /\ rows[i] = BallBytes(k, ball)
      BY <1>3, <2>1, <2>2 DEF IsLaidTable
    <3> HIDE DEF ball
    <3>2. Payload(BallBytes(k, ball))
      BY <2>1, <3>1, BallBytesJoin, PayloadsJoin
    <3> QED
      BY <3>1, <3>2 DEF Payload
  <2>3. CASE k \notin DOMAIN laid
    <3>1. rows[i] = << >>
      BY <1>3, <2>1, <2>3
    <3> QED
      BY <3>1
  <2> QED
    BY <2>2, <2>3
<1> QED
  BY <1>1, <1>3, <1>4 DEF rows

(* The balls are read one by one: after the rows of the first numbers the  *)
(* reader has the balls of those numbers.                                  *)
LEMMA BallsRead ==
  ASSUME NEW laid, IsLaidTable(laid), NEW bytes \in Seq(Byte), NEW at \in Nat,
         Holds(bytes, at, Joined(BallRows(laid)))
  PROVE  /\ TakeBalls(Got(bytes, at, << >>), Cardinality(DOMAIN laid))
              = Got(bytes, at + Len(Joined(BallRows(laid))), laid)
         /\ Joined(BallRows(laid)) \in Seq(Byte)
<1> DEFINE rows == BallRows(laid)
           whole == Joined(rows)
           sixteen == 16
           count == Cardinality(DOMAIN laid)
           r == Got(bytes, at, << >>)
<1>1. /\ sixteen \in Nat /\ Len(rows) = sixteen
      /\ \A i \in 1 .. sixteen : rows[i] \in Seq(Byte)
  BY RowsLaid
<1>2. \A i \in 0 .. 15 : rows[i + 1] = IF i \in DOMAIN laid THEN BallBytes(i, laid[i]) ELSE << >>
  BY RowsLaid
<1>3. count \in Nat /\ \A i \in 0 .. 16 : CountBelow(laid, i) \in 0 .. count
  BY BelowEnds
<1>4. Holds(bytes, at, whole)
  OBVIOUS
<1>5. sixteen = 16
  OBVIOUS
<1> HIDE DEF rows, sixteen, count
<1>6. PICK u : /\ u[0] = << >>
               /\ \A i \in 1 .. sixteen : Follows(u, rows, i - 1, i)
               /\ whole = u[sixteen]
  BY <1>1, JoinedUpTo
<1>7. \A i \in 1 .. sixteen : u[i] = u[i - 1] \o rows[i]
  BY <1>6, Zenon DEF Follows
<1>8. /\ \A i \in 0 .. sixteen : u[i] \in Seq(Byte)
      /\ \A i \in 1 .. sixteen : Holds(u[sixteen], Len(u[i - 1]), rows[i])
  BY <1>1, <1>6, <1>7, PartsHeld, Zenon
<1> HIDE DEF whole
<1>9. PICK v : /\ v[0] = r
               /\ \A i \in 1 .. count : v[i] = TakeBall(v[i - 1])
               /\ TakeBalls(r, count) = v[count]
  BY <1>3, TakeBallsByStep
<1> DEFINE Good(i) == v[CountBelow(laid, i)] = Got(bytes, at + Len(u[i]), Below(laid, i))
           T == {n \in Nat : n <= 16 => Good(n)}
<1>10. Good(0)
  <2>1. CountBelow(laid, 0) = 0 /\ Below(laid, 0) = << >>
    BY BelowEnds
  <2>2. at + Len(u[0]) = at
    <3>1. Len(u[0]) = 0
      BY <1>6
    <3> QED
      BY <3>1
  <2> QED
    BY <1>9, <2>1, <2>2
<1>11. ASSUME NEW i \in 0 .. 15, Good(i)
       PROVE  Good(i + 1)
  <2> DEFINE k == i + 1
             c == CountBelow(laid, i)
             a == u[i]
             raw == rows[k]
             b == u[k]
  <2>1. k \in 1 .. sixteen /\ k - 1 = i /\ i \in 0 .. sixteen /\ k \in 0 .. sixteen
    BY <1>5
  <2>2. b = a \o raw /\ a \in Seq(Byte) /\ raw \in Seq(Byte) /\ b \in Seq(Byte)
        /\ Holds(u[sixteen], Len(a), raw)
    BY <1>1, <1>7, <1>8, <2>1
  <2>3. raw = IF i \in DOMAIN laid THEN BallBytes(i, laid[i]) ELSE << >>
    BY <1>2
  <2>a. i \in 0 .. 16 /\ k \in 0 .. 16
    OBVIOUS
  <2>4. c \in 0 .. count /\ CountBelow(laid, k) \in 0 .. count /\ c \in Nat
    <3>1. c \in 0 .. count /\ CountBelow(laid, k) \in 0 .. count
      BY <1>3, <2>a, Zenon
    <3> HIDE DEF c
    <3> QED
      BY <1>3, <3>1
  <2>5. v[c] = Got(bytes, at + Len(a), Below(laid, i))
    BY <1>11
  <2>6. Good(k) <=> v[CountBelow(laid, k)] = Got(bytes, at + Len(b), Below(laid, k))
    OBVIOUS
  <2> HIDE DEF Good, a, raw, b
  <2>7. Len(a) \in Nat /\ Len(raw) \in Nat /\ Len(b) = Len(a) + Len(raw) /\ at + Len(b) = (at + Len(a)) + Len(raw)
    BY <2>2
  <2>8. CASE i \in DOMAIN laid
    <3> DEFINE ball == laid[i]
               place == at + Len(a)
    <3>1. IsLaid(ball) /\ raw = BallBytes(i, ball)
      BY <2>3, <2>8 DEF IsLaidTable
    <3>2. place \in Nat
      BY <2>7
    <3>3. Holds(bytes, at + Len(a), raw)
      <4>1. Holds(bytes, at, u[sixteen])
        BY <1>4, <1>6
      <4>2. u[sixteen] \in Seq(Byte)
        BY <1>8, <1>5
      <4>3. Len(u[sixteen]) \in Nat /\ Len(bytes) \in Nat
        BY <4>2
      <4> QED
        BY <2>2, <2>7, <4>1, <4>3, HoldsWithin
    <3>4. i \notin DOMAIN Below(laid, i)
      BY BelowGrows
    <3>5. Below(laid, k) = With(Below(laid, i), i, ball) /\ CountBelow(laid, k) = c + 1
      BY <2>8, BelowGrows
    <3>6. c + 1 \in 1 .. count /\ (c + 1) - 1 = c
      <4> HIDE DEF c
      <4> QED
        BY <1>3, <2>4, <3>5
    <3> HIDE DEF k, c, ball, place
    <3>7. v[c + 1] = TakeBall(v[c])
      BY <1>9, <3>6
    <3>8. v[c] = Got(bytes, place, Below(laid, i))
      BY <2>5 DEF place
    <3>9. TakeBall(Got(bytes, place, Below(laid, i))) = AfterBall(bytes, place, Below(laid, i), i, ball)
      BY <3>1, <3>2, <3>3, <3>4, BallRead DEF place
    <3>10. AfterBall(bytes, place, Below(laid, i), i, ball) = Got(bytes, place + Len(raw), With(Below(laid, i), i, ball))
      BY <3>1 DEF AfterBall
    <3>11. v[CountBelow(laid, k)] = Got(bytes, place + Len(raw), Below(laid, k))
      BY <3>5, <3>7, <3>8, <3>9, <3>10
    <3>12. place + Len(raw) = at + Len(b)
      BY <2>7 DEF place
    <3>13. Good(k)
      BY <2>6, <3>11, <3>12
    <3> QED
      BY <3>13 DEF k
  <2>9. CASE i \notin DOMAIN laid
    <3>1. Below(laid, k) = Below(laid, i) /\ CountBelow(laid, k) = c
      BY <2>9, BelowGrows
    <3>2. Len(raw) = 0
      BY <2>3, <2>9
    <3>3. at + Len(b) = at + Len(a)
      BY <2>7, <3>2
    <3> QED
      BY <2>5, <2>6, <3>1, <3>3
  <2> QED
    BY <2>8, <2>9 DEF k
<1>12. T = Nat
  <2>1. 0 \in T
    BY <1>10
  <2>2. ASSUME NEW n \in T
        PROVE  n + 1 \in T
    <3>1. n \in Nat /\ (n <= 16 => Good(n))
      OBVIOUS
    <3> HIDE DEF Good
    <3>2. ASSUME n + 1 <= 16
          PROVE  Good(n + 1)
      <4>1. n \in 0 .. 15 /\ Good(n)
        BY <3>1, <3>2
      <4> QED
        BY <1>11, <4>1
    <3> QED
      BY <3>1, <3>2
  <2>3. T \subseteq Nat
    OBVIOUS
  <2> HIDE DEF T
  <2> QED
    BY <2>1, <2>2, <2>3, Upwards
<1>13. Good(16)
  BY <1>12
<1>14. TakeBalls(r, count) = Got(bytes, at + Len(whole), laid)
  <2>1. CountBelow(laid, 16) = count /\ Below(laid, 16) = laid
    BY BelowEnds DEF count
  <2> QED
    BY <1>5, <1>6, <1>9, <1>13, <2>1
<1>15. whole \in Seq(Byte)
  BY <1>5, <1>6, <1>8
<1> QED
  BY <1>14, <1>15 DEF whole, rows, count

(* What stands before the balls of a table.                                *)
TableFields == << Field("version", 2, {1}), Raw("tick", 4), Field("count", 1, 1 .. 16) >>

LEMMA TableFieldsRead ==
  ASSUME NEW ticks \in Word(4), NEW c \in 1 .. 16,
         NEW bytes, NEW at, NEW got, NEW rest \in Seq(Byte), Ends(bytes, at, ((Be(2, 1) \o ticks) \o <<c>>) \o rest)
  PROVE  \E j, later : /\ ReadsTo(bytes, at, got, TableFields, j, later, rest)
                       /\ Says(later, [version |-> 1, tick |-> ticks, count |-> c]) /\ KeepsBut(got, later, NamesOf(TableFields))
<1> DEFINE parts == << Be(2, 1), ticks, <<c>> >>
           fields == TableFields
<1>1. Len(parts) = 3 /\ Len(fields) = 3
  BY DEF TableFields
<1>2. /\ parts[1] = Be(2, 1)
      /\ parts[2] = ticks
      /\ parts[3] = <<c>>
  OBVIOUS
<1>3. /\ fields[1] = Field("version", 2, {1})
      /\ fields[2] = Raw("tick", 4)
      /\ fields[3] = Field("count", 1, 1 .. 16)
  BY DEF TableFields
<1>4. FieldFits(Be(2, 1), Field("version", 2, {1})) /\ Value(Be(2, 1)) = 1
  <2>1. Sixteen(1) = 1
    BY SixteenBits
  <2> QED
    BY <2>1, NumberFits
<1>5. FieldFits(ticks, Raw("tick", 4)) /\ Value(ticks) = ticks
  BY RawFits
<1>6. FieldFits(<<c>>, Field("count", 1, 1 .. 16)) /\ Value(<<c>>) = c
  <2>1. c \in Byte
    BY DEF Byte
  <2> QED
    BY <2>1, ByteFits
<1>7. Joined(parts) = ((Be(2, 1) \o ticks) \o <<c>>)
  <2>1. Be(2, 1) \in Seq(Byte) /\ ticks \in Seq(Byte) /\ <<c>> \in Seq(Byte)
    BY <1>4, <1>5, <1>6 DEF FieldFits
  <2>2. JoinsThree(Be(2, 1), ticks, <<c>>)
    BY <2>1, JoinedThree
  <2> QED
    BY <2>2, Zenon DEF JoinsThree
<1> HIDE DEF parts, fields
<1>8. RowFits(parts, fields, 3)
  <2>1. ASSUME NEW i \in 1 .. 3
        PROVE  FieldFits(parts[i], fields[i])
    <3>1. CASE i = 1
      BY <1>2, <1>3, <1>4, <3>1
    <3>2. CASE i = 2
      BY <1>2, <1>3, <1>5, <3>2
    <3>3. CASE i = 3
      BY <1>2, <1>3, <1>6, <3>3
    <3> QED
      BY <3>1, <3>2, <3>3
  <2> DEFINE Place == [ version |-> 1,
                        tick |-> 2,
                        count |-> 3 ]
  <2>2. Place.version = 1 /\ Place.tick = 2 /\ Place.count = 3
    OBVIOUS
  <2> HIDE DEF Place
  <2>a. ASSUME NEW i \in 1 .. 3
        PROVE  Place[fields[i].name] = i
    <3>1. CASE i = 1
      <4>1. fields[i].name = "version"
        BY <1>3, <3>1 DEF Field, Raw
      <4> QED
        BY <2>2, <3>1, <4>1
    <3>2. CASE i = 2
      <4>1. fields[i].name = "tick"
        BY <1>3, <3>2 DEF Field, Raw
      <4> QED
        BY <2>2, <3>2, <4>1
    <3>3. CASE i = 3
      <4>1. fields[i].name = "count"
        BY <1>3, <3>3 DEF Field, Raw
      <4> QED
        BY <2>2, <3>3, <4>1
    <3> QED
      BY <3>1, <3>2, <3>3
  <2>3. \A i, k \in 1 .. 3 : fields[i].name = fields[k].name => i = k
    BY <2>a
  <2> QED
    BY <1>1, <2>1, <2>3 DEF RowFits
<1>9. PICK j, later : /\ ReadsTo(bytes, at, got, fields, j, later, rest)
                       /\ Written(later, parts, fields) /\ KeepsBut(got, later, NamesOf(fields))
  BY <1>7, <1>8, RowWritten
<1>10. "version" \in DOMAIN later /\ later["version"] = 1
  <2>1. fields[1].name \in DOMAIN later /\ later[fields[1].name] = Value(parts[1])
    BY <1>1, <1>9 DEF Written
  <2>2. fields[1].name = "version"
    BY <1>3 DEF Field, Raw
  <2> QED
    BY <1>2, <1>4, <2>1, <2>2
<1>11. "tick" \in DOMAIN later /\ later["tick"] = ticks
  <2>1. fields[2].name \in DOMAIN later /\ later[fields[2].name] = Value(parts[2])
    BY <1>1, <1>9 DEF Written
  <2>2. fields[2].name = "tick"
    BY <1>3 DEF Field, Raw
  <2> QED
    BY <1>2, <1>5, <2>1, <2>2
<1>12. "count" \in DOMAIN later /\ later["count"] = c
  <2>1. fields[3].name \in DOMAIN later /\ later[fields[3].name] = Value(parts[3])
    BY <1>1, <1>9 DEF Written
  <2>2. fields[3].name = "count"
    BY <1>3 DEF Field, Raw
  <2> QED
    BY <1>2, <1>6, <2>1, <2>2
<1>13. Says(later, [version |-> 1, tick |-> ticks, count |-> c])
  <2> DEFINE whole == [version |-> 1, tick |-> ticks, count |-> c]
  <2>1. DOMAIN whole = {"version", "tick", "count"}
    OBVIOUS
  <2>2. whole.version = 1 /\ whole.tick = ticks /\ whole.count = c
    OBVIOUS
  <2> HIDE DEF whole
  <2>3. Says(later, whole)
    BY <2>1, <2>2, <1>10, <1>11, <1>12 DEF Says
  <2> QED
    BY <2>3 DEF whole
<1> QED
  BY <1>9, <1>13 DEF fields

LEMMA LengthsAdd ==
  ASSUME NEW x, NEW y, Payload(x), Payload(y)
  PROVE  Payload(x \o y) /\ Len(x \o y) = Len(x) + Len(y) /\ Len(x) \in Nat /\ Len(y) \in Nat
BY DEF Payload

LEMMA PartsLength ==
  ASSUME NEW parts, NEW u, NEW n \in Nat, NEW w \in Nat,
         \A i \in 1 .. n : parts[i] \in Seq(Byte) /\ Len(parts[i]) <= w,
         u[0] = << >>, \A i \in 1 .. n : u[i] = u[i - 1] \o parts[i]
  PROVE  Len(u[n]) <= n * w
<1>1. \A i \in 0 .. n : u[i] \in Seq(Byte)
  BY PartsHeld, Zenon
<1> DEFINE Short(i) == Len(u[i]) <= i * w
           T == {i \in Nat : i <= n => Short(i)}
<1>2. 0 \in T
  <2>1. Len(u[0]) = 0 /\ 0 * w = 0
    OBVIOUS
  <2> QED
    BY <2>1
<1>3. ASSUME NEW i \in T
      PROVE  i + 1 \in T
  <2>1. i \in Nat /\ (i <= n => Short(i))
    OBVIOUS
  <2>2. ASSUME i + 1 <= n
        PROVE  Short(i + 1)
    <3> DEFINE k == i + 1
               a == u[i]
               raw == parts[k]
               b == u[k]
    <3>1. k \in 1 .. n /\ k - 1 = i /\ i \in 0 .. n /\ k \in 0 .. n
      BY <2>1, <2>2
    <3>a. Short(i)
      BY <2>1, <2>2
    <3>2. Payload(a) /\ Payload(raw) /\ Len(raw) <= w /\ Len(a) <= i * w
      BY <1>1, <3>1, <3>a DEF Payload
    <3>b. b = a \o raw
      <4> HIDE DEF Short
      <4> QED
        BY <3>1
    <3>3. Short(k) <=> Len(b) <= k * w
      OBVIOUS
    <3> HIDE DEF a, raw, b, Short
    <3>4. Len(b) = Len(a) + Len(raw) /\ Len(a) \in Nat /\ Len(raw) \in Nat
      BY <3>2, <3>b, LengthsAdd
    <3>5. k * w = (i * w) + w /\ i * w \in Nat
      BY <2>1
    <3> HIDE DEF k
    <3>6. Len(b) <= k * w
      BY <3>2, <3>4, <3>5
    <3> QED
      BY <3>3, <3>6 DEF k
  <2> HIDE DEF Short
  <2> QED
    BY <2>1, <2>2
<1>4. T \subseteq Nat
  OBVIOUS
<1>5. n \in T
  <2> HIDE DEF T
  <2> QED
    BY <1>2, <1>3, <1>4, Upwards
<1> QED
  BY <1>5

(* Parts that are no longer than this, written one after the other.        *)
LEMMA JoinedLength ==
  ASSUME NEW parts, NEW n \in Nat, Len(parts) = n, NEW w \in Nat,
         \A i \in 1 .. n : parts[i] \in Seq(Byte) /\ Len(parts[i]) <= w
  PROVE  Joined(parts) \in Seq(Byte) /\ Len(Joined(parts)) <= n * w
<1>1. PICK u : /\ u[0] = << >>
               /\ \A i \in 1 .. n : Follows(u, parts, i - 1, i)
               /\ Joined(parts) = u[n]
  BY JoinedUpTo
<1>2. \A i \in 1 .. n : u[i] = u[i - 1] \o parts[i]
  BY <1>1, Zenon DEF Follows
<1>3. \A i \in 0 .. n : u[i] \in Seq(Byte)
  BY <1>1, <1>2, PartsHeld, Zenon
<1>4. Len(u[n]) <= n * w
  BY <1>1, <1>2, PartsLength, Zenon
<1> QED
  BY <1>1, <1>3, <1>4

LEMMA RowsAreShort ==
  ASSUME NEW laid, IsLaidTable(laid)
  PROVE  Len(Joined(BallRows(laid))) <= 928
<1>1. ASSUME NEW n \in 0 .. 15, NEW ball, IsLaid(ball)
      PROVE  Len(BallBytes(n, ball)) <= 58
  <2> DEFINE parts == CoordinateParts(ball)
             seven == 7
             eight == 8
  <2>1. Len(parts) = 7 /\ \A i \in 1 .. 7 : parts[i] = ball[Coordinates[i]]
    BY CoordinateNames DEF CoordinateParts
  <2> HIDE DEF parts
  <2>2. ASSUME NEW i \in 1 .. 7
        PROVE  parts[i] \in Seq(Byte) /\ Len(parts[i]) <= 8
    <3>1. parts[i] \in Word(8)
      BY <1>1, <2>1 DEF IsLaid
    <3> QED
      BY <3>1, WordLength
  <2>3. seven \in Nat /\ eight \in Nat /\ seven * eight = 56 /\ seven = 7 /\ eight = 8
    OBVIOUS
  <2> HIDE DEF seven, eight
  <2>a. Len(parts) = seven /\ \A i \in 1 .. seven : parts[i] \in Seq(Byte) /\ Len(parts[i]) <= eight
    BY <2>1, <2>2, <2>3
  <2>b. Joined(parts) \in Seq(Byte) /\ Len(Joined(parts)) <= seven * eight
    BY <2>3, <2>a, JoinedLength, Zenon
  <2>4. Joined(parts) \in Seq(Byte) /\ Len(Joined(parts)) <= 56
    BY <2>3, <2>b
  <2>5. PICK d \in {0, 1} : BallBytes(n, ball) = (<<n>> \o <<d>>) \o Joined(CoordinateParts(ball))
    BY <1>1, BallBytesJoin
  <2> DEFINE x == <<n>> \o <<d>>
             y == Joined(parts)
  <2>6. Payload(x) /\ Len(x) = 2
    <3>1. Payload(<<n>>) /\ Payload(<<d>>) /\ Len(<<n>>) = 1 /\ Len(<<d>>) = 1
      BY DEF Payload, Byte
    <3> QED
      BY <3>1, LengthsAdd
  <2>7. Payload(y)
    BY <2>4 DEF Payload
  <2> HIDE DEF x, y
  <2>8. Len(x \o y) = 2 + Len(y)
    BY <2>6, <2>7, LengthsAdd
  <2> QED
    BY <2>4, <2>5, <2>7, <2>8 DEF x, y, parts
<1> DEFINE rows == BallRows(laid)
           sixteen == 16
           width == 58
<1>2. sixteen \in Nat /\ width \in Nat /\ sixteen * width = 928 /\ sixteen = 16 /\ width = 58
  OBVIOUS
<1> HIDE DEF sixteen, width
<1>3. ASSUME NEW i \in 1 .. 16
      PROVE  rows[i] \in Seq(Byte) /\ Len(rows[i]) <= 58
  <2> DEFINE k == i - 1
  <2>1. k \in 0 .. 15 /\ k + 1 = i
    OBVIOUS
  <2> HIDE DEF k
  <2>2. rows[i] = IF k \in DOMAIN laid THEN BallBytes(k, laid[k]) ELSE << >>
    BY <2>1, RowsLaid
  <2>3. CASE k \in DOMAIN laid
    BY <1>1, <2>1, <2>2, <2>3, RowsLaid DEF IsLaidTable
  <2>4. CASE k \notin DOMAIN laid
    BY <2>2, <2>4, RowsLaid
  <2> QED
    BY <2>3, <2>4
<1>4. Len(rows) = sixteen
  BY <1>2, RowsLaid
<1> HIDE DEF rows
<1>5. Joined(rows) \in Seq(Byte) /\ Len(Joined(rows)) <= sixteen * width
  <2>1. \A i \in 1 .. sixteen : rows[i] \in Seq(Byte) /\ Len(rows[i]) <= width
    BY <1>2, <1>3
  <2>2. sixteen \in Nat /\ width \in Nat
    BY <1>2
  <2> QED
    BY <1>4, <2>1, <2>2, JoinedLength, Zenon
<1> QED
  BY <1>2, <1>5 DEF rows

(* A table that may be laid is what is read back from its encoding.        *)
THEOREM TablesRoundTrip ==
  ASSUME NEW ticks \in Word(4), NEW laid, IsLaidTable(laid), DOMAIN laid # {}, NEW g, TableAccepts(laid, g)
  PROVE  LET table == [tick |-> ticks, balls |-> laid] IN
           /\ TableFrom(TableBytes(table), g) = table
           /\ Payload(TableBytes(table)) /\ Len(TableBytes(table)) <= 935
<1> DEFINE table == [tick |-> ticks, balls |-> laid]
           c == Cardinality(DOMAIN laid)
           rows == Joined(BallRows(laid))
           x == (Be(2, 1) \o ticks) \o <<c>>
           bytes == TableBytes(table)
<1>1. c \in 1 .. 16
  <2> DEFINE D == DOMAIN laid
  <2>1. Cardinality(D) \in 0 .. 16
    BY BelowEnds
  <2>2. IsFiniteSet(D)
    <3>1. D \in SUBSET (0 .. 15)
      BY DEF IsLaidTable
    <3> QED
      BY <3>1, NumbersAreFew, FS_Subset
  <2>3. D # {}
    OBVIOUS
  <2> HIDE DEF D
  <2>4. Cardinality(D) # 0
    BY <2>2, <2>3, FS_EmptySet
  <2> QED
    BY <2>1, <2>4 DEF D
<1>2. bytes = x \o rows
  BY Zenon DEF TableBytes
<1>3. Payload(x) /\ Len(x) = 7
  <2> DEFINE v == Be(2, 1)
             w == <<c>>
  <2>1. v \in Word(2)
    BY BeType
  <2>2. v \in Seq(Byte) /\ Len(v) = 2 /\ ticks \in Seq(Byte) /\ Len(ticks) = 4
    BY <2>1, WordLength
  <2>3. c \in Byte
    BY <1>1 DEF Byte
  <2> HIDE DEF v, c
  <2>4. w \in Seq(Byte) /\ Len(w) = 1
    BY <2>3
  <2> HIDE DEF w
  <2>a. Payload(v) /\ Payload(ticks) /\ Payload(w)
    BY <2>2, <2>4 DEF Payload
  <2>5. Payload(v \o ticks) /\ Len(v \o ticks) = Len(v) + Len(ticks)
    BY <2>a, LengthsAdd, Zenon
  <2>b. Payload((v \o ticks) \o w) /\ Len((v \o ticks) \o w) = Len(v \o ticks) + Len(w)
    BY <2>5, <2>a, LengthsAdd, Zenon
  <2>6. Payload((v \o ticks) \o w) /\ Len((v \o ticks) \o w) = 7
    BY <2>2, <2>4, <2>5, <2>b
  <2> QED
    BY <2>6 DEF v, w, c
<1>4. Payload(rows) /\ Len(rows) <= 928
  <2> DEFINE lines == BallRows(laid)
             sixteen == 16
             width == 58
  <2>1. Len(rows) <= 928
    BY RowsAreShort
  <2>2. rows \in Seq(Byte)
    <3>1. PICK u : /\ u[0] = << >>
                   /\ \A i \in 1 .. sixteen : Follows(u, lines, i - 1, i)
                   /\ Joined(lines) = u[sixteen]
      <4>1. Len(lines) = sixteen /\ sixteen \in Nat
        BY RowsLaid
      <4> HIDE DEF lines, sixteen
      <4> QED
        BY <4>1, JoinedUpTo
    <3>2. sixteen \in Nat /\ \A i \in 1 .. sixteen : lines[i] \in Seq(Byte)
      BY RowsLaid
    <3> HIDE DEF lines, sixteen
    <3>3. \A i \in 1 .. sixteen : u[i] = u[i - 1] \o lines[i]
      BY <3>1, Zenon DEF Follows
    <3>4. \A i \in 0 .. sixteen : u[i] \in Seq(Byte)
      BY <3>1, <3>2, <3>3, PartsHeld, Zenon
    <3>5. Joined(lines) \in Seq(Byte)
      BY <3>1, <3>2, <3>4
    <3> QED
      BY <3>5 DEF lines
  <2> QED
    BY <2>1, <2>2 DEF Payload
<1> HIDE DEF c, x, rows, bytes
<1>5. Payload(bytes) /\ Len(bytes) <= 935
  <2>1. Payload(x \o rows) /\ Len(x \o rows) = Len(x) + Len(rows) /\ Len(rows) \in Nat
    BY <1>3, <1>4, LengthsAdd
  <2> QED
    BY <1>2, <1>3, <1>4, <2>1
<1>6. Ends(bytes, 0, x \o rows)
  BY <1>2, <1>5, EndsWhole DEF Payload
<1>7. PICK j, l : /\ ReadsTo(bytes, 0, << >>, TableFields, j, l, rows)
                  /\ Says(l, [version |-> 1, tick |-> ticks, count |-> c])
  BY <1>1, <1>4, <1>6, TableFieldsRead DEF x, Payload
<1>8. l.tick = ticks /\ l.count = c
  BY <1>7 DEF Says
<1>9. ReadAll(Reader(bytes), TableFields) = Got(bytes, j, l) /\ Ends(bytes, j, rows)
  <2>1. Reader(bytes) = Got(bytes, 0, << >>)
    BY DEF Reader, Got
  <2> QED
    BY <1>7, <2>1 DEF ReadsTo
<1>10. j \in Nat /\ Holds(bytes, j, rows) /\ Len(bytes) = j + Len(rows)
  BY <1>9 DEF Ends
<1>11. TakeBalls(Got(bytes, j, << >>), c) = Got(bytes, j + Len(rows), laid)
  BY <1>5, <1>10, BallsRead DEF Payload, rows, c
<1> DEFINE header == ReadAll(Reader(bytes), TableFields)
           list == Got(bytes, j + Len(rows), laid)
<1>12. header.ok = TRUE /\ header.got = l /\ [header EXCEPT !.got = << >>] = Got(bytes, j, << >>)
  BY <1>9, GotOther DEF Got
<1>13. Finished(list) /\ list.got = laid
  <2>1. Finished(list)
    BY <1>10, <1>4 DEF Finished, Remaining, Got, Payload
  <2> QED
    BY <2>1 DEF Got
<1> HIDE DEF list, header
<1>14. TableFrom(bytes, g) = IF header.ok /\ Finished(TakeBalls([header EXCEPT !.got = << >>], header.got.count))
                                 /\ TableAccepts(TakeBalls([header EXCEPT !.got = << >>], header.got.count).got, g)
                             THEN [ tick |-> header.got.tick,
                                    balls |-> TakeBalls([header EXCEPT !.got = << >>], header.got.count).got ]
                             ELSE Refused
  BY Zenon DEF TableFrom, TableFields, header
<1>15. TakeBalls([header EXCEPT !.got = << >>], header.got.count) = list
  BY <1>8, <1>11, <1>12 DEF list
<1>16. TableFrom(bytes, g) = table
  BY <1>8, <1>12, <1>13, <1>14, <1>15
<1> QED
  BY <1>5, <1>16 DEF bytes
=============================================================================
