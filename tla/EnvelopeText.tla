---------------------------- MODULE EnvelopeText ----------------------------
(***************************************************************************)
(* The base 64 form of an OWID: as_base64 of src/owid/owid.py and          *)
(* parse_base64 of src/owid/parse.py.  A text is a sequence of symbols,    *)
(* the alphabet's, the padding sign and white space.  Groups of three      *)
(* bytes and of four symbols hold the same values: a symbol is three parts *)
(* of what a byte is four of.                                              *)
(***************************************************************************)
EXTENDS Envelope

CONSTANTS
  PartValues,     \* values of two bits: 4
  SymbolValues    \* symbols in the alphabet: 64

ASSUME SymbolAssumption ==
  /\ PartValues \in Nat /\ SymbolValues \in Nat
  /\ SymbolValues = PartValues * PartValues * PartValues
  /\ ByteValues = PartValues * PartValues * PartValues * PartValues

Padding == SymbolValues
Space == SymbolValues + 1

\* A group of digits, the last one filled with zeros, and its value.  The first
\* of the digits is the most significant.
Group(digits, size, g) ==
  [n \in 1 .. size |->
     LET position == (g + 1) * size + 1 - n
     IN  IF position <= Len(digits) THEN digits[position] ELSE 0]
GroupValue(digits, base, size, g) == NumberIn(Group(digits, size, g), base)

\* Digits in groups of the size given as digits of another base, in groups of
\* another size, of which so many are wanted.
Regrouped(digits, base, size, newBase, newSize, length) ==
  [i \in 1 .. length |->
     LET value == GroupValue(digits, base, size, (i - 1) \div newSize)
     IN  DigitsOf(value, newBase, newSize)[newSize - ((i - 1) % newSize)]]

\* Encoded without its padding, and with it as _encode_base64 writes it.
Unpadded(bytes) ==
  Regrouped(bytes, ByteValues, 3, SymbolValues, 4, (4 * Len(bytes) + 2) \div 3)

\* Mutant: the padding that one byte too few asks for is left out.
FilledFromTwo(text) ==
  text \o (IF Len(text) % 4 = 2 THEN <<Padding, Padding>> ELSE <<>>)

\* The text with the padding it is short of.
Filled(text) ==
  text \o (IF Len(text) % 4 = 2 THEN <<Padding, Padding>>
           ELSE IF Len(text) % 4 = 3 THEN <<Padding>> ELSE <<>>)

Greatest(positions) == CHOOSE p \in positions : \A q \in positions : q <= p

Stripped(text) ==
  LET marks == {i \in DOMAIN text : text[i] # Space}
  IN  IF marks = {} THEN <<>> ELSE SubSeq(text, Least(marks), Greatest(marks))

\* The symbols of the alphabet a text begins with.
Symbols(text) ==
  LET others == {i \in DOMAIN text : text[i] >= SymbolValues}
  IN  SubSeq(text, 1, IF others = {} THEN Len(text) ELSE Least(others) - 1)

\* The standard library takes the symbols of the alphabet in whole groups of
\* four, of which the last may end in one or two signs of padding.
Decodable(text) ==
  /\ Len(text) % 4 = 0
  /\ Len(text) - Len(Symbols(text)) <= 2
  /\ \A i \in DOMAIN text : i > Len(Symbols(text)) => text[i] = Padding

\* Bits a last group has over are dropped.
DecodedText(text) ==
  Regrouped(Symbols(text), SymbolValues, 4, ByteValues, 3,
            (3 * Len(Symbols(text))) \div 4)

\* parse_base64.
ParseText(text) ==
  LET filled == Filled(Stripped(text)) IN
  IF text = <<>> THEN Failed("MISSING_INPUT")
  ELSE IF ~Decodable(filled) THEN Failed("INVALID_BASE64")
  ELSE Parse(DecodedText(filled), TRUE)
=============================================================================
