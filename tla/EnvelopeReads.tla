---------------------------- MODULE EnvelopeReads ----------------------------
(***************************************************************************)
(* A buffer that bytes arrive in one at a time, as from a socket, and what *)
(* the reads of src/owid/parse.py make of it.  A read changes nothing, so  *)
(* the properties speak of the reads of every buffer there is, up to a     *)
(* length, and of how a read of a buffer differs from a read of a longer.  *)
(***************************************************************************)
EXTENDS EnvelopeText, FiniteSets

CONSTANTS
  Incoming,    \* bytes that may arrive
  MaxLength    \* bound on the buffer

ASSUME IncomingAssumption == Incoming \subseteq Byte /\ MaxLength \in Nat

VARIABLE buffer

Init == buffer = <<>>

Arrive(byte) ==
  /\ Len(buffer) < MaxLength
  /\ buffer' = Append(buffer, byte)

Next == \E byte \in Incoming : Arrive(byte)

Spec == Init /\ [][Next]_buffer

-----------------------------------------------------------------------------
Whole == Parse(buffer, TRUE)
Framed == Parse(buffer, FALSE)
Ascii(owid) == \A i \in DOMAIN owid.domain : owid.domain[i] < FirstHigh

(***************************************************************************)
(* What is read is what was signed: writing an OWID that was read gives    *)
(* back the very bytes it was read from, which is what its signature is    *)
(* verified over, for every version, width and boundary.  The domain is    *)
(* ASCII; one that is not is read as another domain.                       *)
(***************************************************************************)
ReadsWhatWasSigned ==
  \A owid \in Framed.owids : Ascii(owid) =>
    Writable(owid) /\ Written(owid) = SubSeq(buffer, 1, Framed.consumed)

(***************************************************************************)
(* The two contracts differ in one place: a whole read succeeds exactly    *)
(* where a framed read succeeds and consumes everything, with one result.  *)
(***************************************************************************)
ContractsAgree ==
  /\ Whole.status = "PARSED" => Framed = Whole /\ Framed.consumed = Len(buffer)
  /\ Framed.status = "PARSED" /\ Framed.consumed = Len(buffer) => Whole = Framed

\* What could follow a buffer, and the longest envelope there is.
Zeros(n) == [i \in 1 .. n |-> 0]
Largest(width) == Number([i \in 1 .. width |-> ByteValues - 1])
Longest ==
  1 + MaximumDomainLength + 1 + MinutesWidth + HoursWidth + LengthWidth
    + Largest(LengthWidth) + SignatureLength

\* A datetime holds the date of any minutes whose most significant byte is zero.
ASSUME MaximumAssumption ==
  Number([i \in 1 .. MinutesWidth |->
            IF i = MinutesWidth THEN 0 ELSE ByteValues - 1]) <= MaximumMinutes

(***************************************************************************)
(* A framed read is refused for want of bytes only where more bytes can    *)
(* still complete it: "A caller reading from a source still arriving needs *)
(* to know whether waiting for more bytes would help".                     *)
(***************************************************************************)
WaitingHelps ==
  Framed.status = "UNEXPECTED_END" =>
    Parse(buffer \o Zeros(Longest), FALSE).status = "PARSED"

(***************************************************************************)
(* Once a framed read has decided, bytes that arrive later never change    *)
(* what it decided or how much it consumes, so a stream can be cut into    *)
(* reads anywhere.                                                         *)
(***************************************************************************)
Undecided == {"MISSING_INPUT", "UNEXPECTED_END"}

DecisionsStand ==
  [][Framed.status \notin Undecided /\ Len(buffer') > Len(buffer)
       => Parse(buffer', FALSE) = Framed]_buffer

(***************************************************************************)
(* The text of any bytes, with its padding or without it and with white    *)
(* space around it, is read as the bytes themselves are: "Encoded OWIDs    *)
(* occur both with and without padding, so reading accepts both".          *)
(***************************************************************************)
TextReadsAsBytes ==
  LET text == Unpadded(buffer) IN
  \A form \in {text, Filled(text), <<Space>> \o text \o <<Space>>} :
    ParseText(form) = Whole

(***************************************************************************)
(* The raising Reader, "The raising counterpart of parse_bytes", reads     *)
(* what a whole read reads, field for field, but for the domain: the one   *)
(* takes its bytes for UTF-8 and the other for ASCII with replacements, so *)
(* the Reader raises where they are no UTF-8 and names another domain      *)
(* where they are not ASCII.  What a whole read reads with an ASCII domain *)
(* the Reader reads the same; and it hands back an absent node as an OWID. *)
(***************************************************************************)
ReadersAgree ==
  /\ Whole.status = "ABSENT_NODE" <=> AbsentNode \in ReaderOwids(buffer)
  /\ \A owid \in ReaderOwids(buffer) \ {AbsentNode} :
       Whole.owids = {[owid EXCEPT !.domain = Decoded(Encoded(@))]}
  /\ \A owid \in Whole.owids : Ascii(owid) => ReaderOwids(buffer) = {owid}
=============================================================================
