------------------------------ MODULE Envelope ------------------------------
(***************************************************************************)
(* The byte form of an OWID: the writers of src/owid/io.py as Owid uses    *)
(* them, the walk of src/owid/parse.py that both reads share, and the      *)
(* raising Reader of src/owid/io.py.  Operators only; EnvelopeReads gives  *)
(* them a buffer, and FrameStream a creator and a stream.                  *)
(*                                                                         *)
(* The widths of the fields, the longest domain and the number of values a *)
(* byte has are constants, so that small instances meet every boundary the *)
(* real ones have.  A domain is the sequence of its characters, and a      *)
(* character is its byte in ASCII, Wide, which stands for those that take  *)
(* two bytes in UTF-8, or Replacement, which decoding puts in the place of *)
(* a byte that is not ASCII.  A date is counted from the base date in      *)
(* ticks, finer than the hours of version 1 and the minutes after it that  *)
(* the wire carries.                                                       *)
(***************************************************************************)
EXTENDS Integers, Sequences

CONSTANTS
  ByteValues,            \* values of a byte: 256
  FirstHigh,             \* the first byte that is not ASCII: 128
  MaximumDomainLength,   \* MAXIMUM_DOMAIN_LENGTH, in bytes
  HoursWidth,            \* bytes in the date of version 1: 2
  MinutesWidth,          \* bytes in the date of versions 2 and 3: 4
  HourTicks,             \* ticks in an hour
  MinuteTicks,           \* ticks in a minute
  LengthWidth,           \* bytes in the payload's length: 4
  SignatureLength,       \* SIGNATURE_LENGTH: 64
  MaximumMinutes         \* MAXIMUM_MINUTES, the most a datetime holds

ASSUME WidthsAssumption ==
  /\ ByteValues \in Nat /\ ByteValues > 4
  /\ FirstHigh \in 4 .. ByteValues - 1
  /\ MaximumDomainLength \in Nat /\ SignatureLength \in Nat
  /\ HoursWidth \in Nat \ {0} /\ MinutesWidth \in Nat \ {0}
  /\ HourTicks \in Nat \ {0} /\ MinuteTicks \in Nat \ {0}
  /\ LengthWidth \in Nat \ {0} /\ MaximumMinutes \in Nat

Byte == 0 .. ByteValues - 1

\* Version: the marker of an absent node, and three versions of the format.
EmptyVersion == 0
Version1 == 1
Versions == 0 .. 3
CurrentVersion == 3

Replacement == ByteValues
Wide == ByteValues + 1
Character == (0 .. FirstHigh - 1) \cup {Replacement, Wide}

Owid == [version : Versions, domain : Seq(Character), date : Nat,
         payload : Seq(Byte), signature : Seq(Byte)]

\* A node that is absent, or nothing of an OWID but what it defaults to.
AbsentNode == [version |-> EmptyVersion, domain |-> <<>>, date |-> 0,
               payload |-> <<>>, signature |-> <<>>]

Least(positions) == CHOOSE p \in positions : \A q \in positions : p <= q

-----------------------------------------------------------------------------
(* Bytes *)

\* The value of digits of a base, the first the least significant.
NumberIn(digits, base) ==
  LET width == Len(digits)
      last[i \in 0 .. width] ==
        IF i = 0 THEN 0 ELSE digits[width + 1 - i] + base * last[i - 1]
  IN  last[width]

\* What is left of a number as its digits are taken, the least significant first.
Quotients(number, base, width) ==
  LET left[i \in 0 .. width] == IF i = 0 THEN number ELSE left[i - 1] \div base
  IN  left

DigitsOf(number, base, width) ==
  LET left == Quotients(number, base, width)
  IN  [i \in 1 .. width |-> left[i - 1] % base]

\* The value of bytes, and the bytes of a value, in the order struct's < has.
Number(bytes) == NumberIn(bytes, ByteValues)
LittleEndian(number, width) == DigitsOf(number, ByteValues, width)

\* The number takes no more bytes than that.
Fits(number, width) == Quotients(number, ByteValues, width)[width] = 0

Backwards(bytes) == [i \in DOMAIN bytes |-> bytes[Len(bytes) + 1 - i]]

DateWidth(version) == IF version = Version1 THEN HoursWidth ELSE MinutesWidth
DateTicks(version) == IF version = Version1 THEN HourTicks ELSE MinuteTicks

\* Mutant: hours are read the least significant byte first.
DateOfLittleEndian(version, bytes) == Number(bytes) * DateTicks(version)

\* Mutant: hours are written the least significant byte first.
DateBytesOneOrder(version, date) ==
  LittleEndian(date \div DateTicks(version), DateWidth(version))

\* The date a parse reads and write_date writes: whole hours, the most
\* significant byte first, or whole minutes, the least significant first.
DateOf(version, bytes) ==
  Number(IF version = Version1 THEN Backwards(bytes) ELSE bytes)
    * DateTicks(version)
DateBytes(version, date) ==
  LET bytes == LittleEndian(date \div DateTicks(version), DateWidth(version))
  IN  IF version = Version1 THEN Backwards(bytes) ELSE bytes

Decoded(bytes) ==
  [i \in DOMAIN bytes |-> IF bytes[i] < FirstHigh THEN bytes[i] ELSE Replacement]

\* In UTF-8 the replacement character takes three bytes, none of them ASCII.
EncodedCharacter(c) ==
  IF c = Replacement THEN <<FirstHigh, FirstHigh, FirstHigh>>
  ELSE IF c = Wide THEN <<FirstHigh, FirstHigh>>
  ELSE <<c>>

Encoded(domain) ==
  LET upTo[i \in 0 .. Len(domain)] ==
        IF i = 0 THEN <<>> ELSE upTo[i - 1] \o EncodedCharacter(domain[i])
  IN  upTo[Len(domain)]

-----------------------------------------------------------------------------
(* Writing *)

\* Where a writer raises and to_buffer with it.
Writable(owid) ==
  /\ owid.version # EmptyVersion
  /\ \A i \in DOMAIN owid.domain : owid.domain[i] # 0
  /\ Len(Encoded(owid.domain)) <= MaximumDomainLength
  /\ Fits(owid.date \div DateTicks(owid.version), DateWidth(owid.version))
  /\ Fits(Len(owid.payload), LengthWidth)
  /\ Len(owid.signature) = SignatureLength

\* signed_bytes, what a signature is over.
SignedBytes(owid) ==
  <<owid.version>> \o Encoded(owid.domain) \o <<0>>
    \o DateBytes(owid.version, owid.date)
    \o LittleEndian(Len(owid.payload), LengthWidth) \o owid.payload

Written(owid) == SignedBytes(owid) \o owid.signature

-----------------------------------------------------------------------------
(* Reading: _parse *)

Failed(status) == [status |-> status, owids |-> {}, consumed |-> 0]
Parsed(owid, consumed) ==
  [status |-> "PARSED", owids |-> {owid}, consumed |-> consumed]

\* Positions of a zero that may end the domain, which starts at the second.
Terminators(b) ==
  {p \in 2 .. Len(b) : p <= MaximumDomainLength + 2 /\ b[p] = 0}
Terminator(b) == Least(Terminators(b))

\* The last positions of the date and of the length.
DateEnd(b) == Terminator(b) + DateWidth(b[1])
LengthEnd(b) == DateEnd(b) + LengthWidth

DateIn(b) == DateOf(b[1], SubSeq(b, Terminator(b) + 1, DateEnd(b)))
Declared(b) == Number(SubSeq(b, DateEnd(b) + 1, LengthEnd(b)))

\* Mutant: one byte more is wanted than the signature has.
PresentLessOne(b) == Len(b) - LengthEnd(b) - SignatureLength - 1

\* Bytes for the payload, once the signature has its own; may be negative.
Present(b) == Len(b) - LengthEnd(b) - SignatureLength

OwidIn(b) ==
  LET payloadEnd == LengthEnd(b) + Declared(b)
  IN  [version |-> b[1],
       domain |-> Decoded(SubSeq(b, 2, Terminator(b) - 1)),
       date |-> DateIn(b),
       payload |-> SubSeq(b, LengthEnd(b) + 1, payloadEnd),
       signature |-> SubSeq(b, payloadEnd + 1, payloadEnd + SignatureLength)]

\* Mutant: a domain that may still end within the maximum is refused.
DomainFaultAtMaximum(b) ==
  IF Len(b) < MaximumDomainLength + 1
    THEN Failed("UNEXPECTED_END") ELSE Failed("INVALID_DOMAIN_ENCODING")

\* Mutant: one byte too many is waited for.
DomainFaultPastMaximum(b) ==
  IF Len(b) <= MaximumDomainLength + 2
    THEN Failed("UNEXPECTED_END") ELSE Failed("INVALID_DOMAIN_ENCODING")

\* No zero within the maximum: more may come, or it may not.
DomainFault(b) ==
  IF Len(b) <= MaximumDomainLength + 1
    THEN Failed("UNEXPECTED_END") ELSE Failed("INVALID_DOMAIN_ENCODING")

\* parse_bytes where exact, and parse_prefix.
Parse(b, exact) ==
  IF b = <<>> THEN Failed("MISSING_INPUT")
  ELSE IF b[1] \notin Versions THEN Failed("UNSUPPORTED_VERSION")
  ELSE IF b[1] = EmptyVersion
    THEN [Failed("ABSENT_NODE") EXCEPT !.consumed = IF exact THEN 0 ELSE 1]
  ELSE IF Terminators(b) = {} THEN DomainFault(b)
  ELSE IF Len(b) < DateEnd(b) THEN Failed("UNEXPECTED_END")
  ELSE IF b[1] # Version1 /\ DateIn(b) > MaximumMinutes * MinuteTicks
    THEN Failed("IMPLEMENTATION_CAPACITY_EXCEEDED")
  ELSE IF Len(b) < LengthEnd(b) THEN Failed("UNEXPECTED_END")
  ELSE IF exact /\ Present(b) # Declared(b) THEN Failed("BYTE_COUNT_MISMATCH")
  ELSE IF Present(b) < Declared(b) THEN Failed("UNEXPECTED_END")
  ELSE Parsed(OwidIn(b), LengthEnd(b) + Declared(b) + SignatureLength)

-----------------------------------------------------------------------------
(* Reading: _from_byte_array_or_raise, over the cursor of Reader           *)
(*                                                                         *)
(* A cursor is the position, the bytes read so far, and the OWID with the  *)
(* fields that have been read.  A method gives the cursors it may leave    *)
(* the reader with: none where it raises.                                  *)

\* The bytes a cursor has in front of it.
Ahead(b, cursor, count) ==
  SubSeq(b, cursor.position + 1, cursor.position + count)
Left(b, cursor) == Len(b) - cursor.position

ReadVersion(b) ==
  IF b = <<>> \/ b[1] \notin Versions THEN {}
  ELSE {[position |-> 1, owid |-> [AbsentNode EXCEPT !.version = b[1]]]}

\* The texts whose UTF-8 the bytes are.
Utf8(bytes) ==
  {text \in UNION {[1 .. n -> Character] : n \in 0 .. Len(bytes)} :
     Encoded(text) = bytes}

\* The terminator is searched for in a window and no further.
ReadDomain(b, cursor) ==
  LET window == cursor.position + 1 .. cursor.position + MaximumDomainLength + 1
      zeros == {p \in DOMAIN b \cap window : b[p] = 0}
  IN  IF zeros = {} THEN {}
      ELSE {[position |-> Least(zeros), owid |-> [cursor.owid EXCEPT !.domain = text]] :
              text \in Utf8(Ahead(b, cursor, Least(zeros) - 1 - cursor.position))}

\* Adding to the base date raises past the last datetime there is.
ReadDate(b, cursor) ==
  LET first == cursor.owid.version = Version1
      width == IF first THEN HoursWidth ELSE MinutesWidth
      bytes == Ahead(b, cursor, width)
      date == IF first THEN Number(Backwards(bytes)) * HourTicks
              ELSE Number(bytes) * MinuteTicks
  IN  IF Left(b, cursor) < width \/ (~first /\ Number(bytes) > MaximumMinutes) THEN {}
      ELSE {[position |-> cursor.position + width,
             owid |-> [cursor.owid EXCEPT !.date = date]]}

\* Mutant: bytes after the signature are ignored.
ReadPayloadIgnoringRest(b, cursor) ==
  LET count == Number(Ahead(b, cursor, LengthWidth))
      start == [cursor EXCEPT !.position = @ + LengthWidth]
  IN  IF Left(b, cursor) < LengthWidth \/ Left(b, start) < count + SignatureLength
        THEN {}
      ELSE {[position |-> start.position + count,
             owid |-> [cursor.owid EXCEPT !.payload = Ahead(b, start, count)]]}

\* What remains has to be the payload declared and a signature.
ReadPayload(b, cursor) ==
  LET count == Number(Ahead(b, cursor, LengthWidth))
      start == [cursor EXCEPT !.position = @ + LengthWidth]
  IN  IF Left(b, cursor) < LengthWidth \/ Left(b, start) # count + SignatureLength
        THEN {}
      ELSE {[position |-> start.position + count,
             owid |-> [cursor.owid EXCEPT !.payload = Ahead(b, start, count)]]}

ReadSignature(b, cursor) ==
  IF Left(b, cursor) < SignatureLength THEN {}
  ELSE {[position |-> cursor.position + SignatureLength,
         owid |-> [cursor.owid EXCEPT !.signature = Ahead(b, cursor, SignatureLength)]]}

\* The OWID the Reader hands back, or none.  After the marker of an absent
\* node nothing is read: it is an OWID of that version without fields.
ReaderOwids(b) ==
  LET absent == {c \in ReadVersion(b) : c.owid.version = EmptyVersion}
      domains == UNION {ReadDomain(b, c) : c \in ReadVersion(b) \ absent}
      dates == UNION {ReadDate(b, c) : c \in domains}
      payloads == UNION {ReadPayload(b, c) : c \in dates}
      signatures == UNION {ReadSignature(b, c) : c \in payloads}
  IN  {c.owid : c \in absent \cup signatures}
=============================================================================
