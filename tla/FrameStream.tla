----------------------------- MODULE FrameStream -----------------------------
(***************************************************************************)
(* OWIDs from the creator that signs them to the reader that verifies      *)
(* them: Creator of src/owid/creator.py, a stream of frames as to_buffer   *)
(* and empty_to_buffer of src/owid/owid.py write them, bytes that arrive   *)
(* one at a time, and the walk over parse_prefix that README.md gives.     *)
(* The clock counts ticks, of which a minute has several.                  *)
(*                                                                         *)
(* Signing is external: a signature is one of a few byte strings, and it   *)
(* verifies over the bytes it was made over and no others.  Another source *)
(* sends any bytes at all, for the properties of EnvelopeReads.            *)
(***************************************************************************)
EXTENDS EnvelopeReads

CONSTANTS
  Domains,       \* domains a creator may be made with
  Payloads,      \* payloads it is asked to sign
  Signatures,    \* signatures the provider may return
  Others,        \* OWIDs of earlier versions, signed elsewhere and passed on
  MaxClock,      \* bound on the clock
  MaxCreated,    \* bound on the OWIDs created
  MaxSent        \* bound on the frames sent

VARIABLES
  source,     \* what the reader is connected to
  domain,     \* the creator's
  clock,
  created,    \* the OWIDs the creator has handed out
  signed,     \* what has been signed, and the signature, by anyone
  wire,       \* bytes written and not yet arrived
  sent,       \* history: the frames written
  read        \* the frames the reader has met

sender == <<domain, created, signed>>
vars == <<buffer, source, domain, clock, created, signed, wire, sent, read>>

\* Creator.__init__: the domains it does not refuse.
Acceptable(name) ==
  name # <<>> /\ Len(Encoded(name)) <= MaximumDomainLength

\* Mutant: the date keeps what the wire cannot carry.
WholeMoment(time) == time

\* The date _sign gives, truncated to whole minutes.
WholeMinute(time) == (time \div MinuteTicks) * MinuteTicks

NewOwid(name, time, payload, signature) ==
  [version |-> CurrentVersion, domain |-> name, date |-> WholeMinute(time),
   payload |-> payload, signature |-> signature]

\* A frame is an OWID or the marker of an absent one.
Frame ==
  {AbsentNode} \cup Others
    \cup {NewOwid(name, time, payload, signature) :
            name \in Domains, time \in 0 .. MaxClock,
            payload \in Payloads, signature \in Signatures}

ASSUME FramesAssumption ==
  /\ MaxClock \in Nat /\ MaxCreated \in Nat /\ MaxSent \in Nat
  /\ Domains \subseteq Seq(Character) /\ Payloads \subseteq Seq(Byte)
  /\ Signatures \subseteq {s \in Seq(Byte) : Len(s) = SignatureLength}
  /\ Others \subseteq {owid \in Owid : Writable(owid)}

\* An OWID that its bytes are read back as: its domain is ASCII, and its date
\* is one the bytes of its version carry and a datetime holds.
Legible(owid) ==
  /\ Ascii(owid)
  /\ owid.date % DateTicks(owid.version) = 0
  /\ owid.version # Version1 => owid.date <= MaximumMinutes * MinuteTicks

\* A creator's domain is ASCII, the clock shows what a datetime holds, and
\* what is passed on has been read.
ASSUME LegibleAssumption ==
  /\ \A name \in Domains : Acceptable(name) =>
       \A i \in DOMAIN name : name[i] < FirstHigh
  /\ MaxClock <= MaximumMinutes * MinuteTicks
  /\ \A owid \in Others : Legible(owid)

StreamInit ==
  /\ Init
  /\ source \in {"creator", "anyone"}
  /\ domain \in {name \in Domains : Acceptable(name)}
  /\ clock = 0
  /\ created = {}
  /\ signed = {<<SignedBytes(owid), owid.signature>> : owid \in Others}
  /\ wire = <<>>
  /\ sent = <<>>
  /\ read = <<>>

-----------------------------------------------------------------------------
(* The creator *)

Tick ==
  /\ source = "creator"
  /\ clock < MaxClock
  /\ clock' = clock + 1
  /\ UNCHANGED <<buffer, source, sender, wire, sent, read>>

\* The provider signs the bytes.
Sign(bytes, signature) == signed' = signed \cup {<<bytes, signature>>}

\* create: where a field cannot be written, signed_bytes raises and nothing is
\* signed.
Create(payload, signature) ==
  /\ source = "creator"
  /\ Cardinality(created) < MaxCreated
  /\ LET owid == NewOwid(domain, clock, payload, signature)
     IN  /\ Writable(owid)
         /\ created' = created \cup {owid}
         /\ Sign(SignedBytes(owid), signature)
  /\ UNCHANGED <<buffer, source, domain, clock, wire, sent, read>>

Send(frame, bytes) ==
  /\ source = "creator"
  /\ Len(sent) < MaxSent
  /\ sent' = Append(sent, frame)
  /\ wire' = wire \o bytes
  /\ UNCHANGED <<buffer, source, clock, sender, read>>

\* to_buffer, of an OWID created here or read elsewhere.
SendOwid(owid) == Send(owid, Written(owid))

\* empty_to_buffer.
SendAbsent == Send(AbsentNode, <<EmptyVersion>>)

-----------------------------------------------------------------------------
(* The reader *)

Deliver ==
  /\ wire # <<>>
  /\ buffer' = Append(buffer, Head(wire))
  /\ wire' = Tail(wire)
  /\ UNCHANGED <<source, clock, sender, sent, read>>

\* The walk goes on after what a framed read consumed.
Rest(result) == SubSeq(buffer, result.consumed + 1, Len(buffer))

\* One turn of the walk, which stops where a frame is refused, and waits where
\* more bytes would help.
Walk ==
  /\ source = "creator"
  /\ LET result == Framed
     IN  /\ result.consumed > 0
         /\ \E frame \in result.owids \cup (IF result.status = "ABSENT_NODE"
                                            THEN {AbsentNode} ELSE {}) :
              read' = Append(read, frame)
         /\ buffer' = Rest(result)
  /\ UNCHANGED <<source, clock, sender, wire, sent>>

\* Bytes from anyone, not walked.
ArriveFromAnyone(byte) ==
  /\ source = "anyone"
  /\ Arrive(byte)
  /\ UNCHANGED <<source, clock, sender, wire, sent, read>>

StreamNext ==
  \/ Tick
  \/ \E payload \in Payloads, signature \in Signatures : Create(payload, signature)
  \/ \E owid \in created \cup Others : SendOwid(owid)
  \/ SendAbsent
  \/ Deliver
  \/ Walk
  \/ \E byte \in Incoming : ArriveFromAnyone(byte)

\* The transport delivers what it carries, and the walk is a loop.
StreamSpec ==
  /\ StreamInit /\ [][StreamNext]_vars
  /\ WF_vars(Deliver) /\ WF_vars(Walk)

-----------------------------------------------------------------------------
(* signature_status *)

\* The provider's answer.
Matches(bytes, signature) == <<bytes, signature>> \in signed

\* Under the key the signers sign with; other keys are Verification's matter.
SignatureStatus(owid) ==
  IF Len(owid.signature) # SignatureLength THEN "INVALID_SIGNATURE_LENGTH"
  ELSE IF ~Writable(owid) THEN "VERIFICATION_ERROR"
  ELSE IF Matches(SignedBytes(owid), owid.signature) THEN "SIGNATURE_VALID"
  ELSE "SIGNATURE_INVALID"

-----------------------------------------------------------------------------
Queue == INSTANCE FrameQueue WITH Frames <- Frame

(***************************************************************************)
(* The stream implements the queue: whatever OWIDs of whatever versions    *)
(* and absent markers are written, wherever their bytes are cut and        *)
(* whenever the reader looks, it reads what was written, field for field   *)
(* and in order; "this keeps a signed OWID equal to a copy decoded from    *)
(* its bytes".  The domains are ASCII; one that is not would be read as    *)
(* another.                                                                *)
(***************************************************************************)
QueueSpec == Queue!Spec

(***************************************************************************)
(* And all of it in the end: the reader never waits for bytes the frame it *)
(* is at does not have, so that the last frame sent is read although       *)
(* nothing follows it.                                                     *)
(***************************************************************************)
QueueIsRead == Queue!Fairness

(***************************************************************************)
(* The status of any OWID a reader is handed, from anyone's bytes, is      *)
(* about its signature and nothing else, and it is valid exactly where     *)
(* the bytes received were signed as they are.  The domain is ASCII, as    *)
(* "a domain is ASCII".                                                    *)
(***************************************************************************)
ValidIsSigned ==
  \A owid \in Framed.owids : Ascii(owid) =>
    LET covered == SubSeq(buffer, 1, Framed.consumed - SignatureLength)
    IN  SignatureStatus(owid) =
          IF <<covered, owid.signature>> \in signed
            THEN "SIGNATURE_VALID" ELSE "SIGNATURE_INVALID"
=============================================================================
