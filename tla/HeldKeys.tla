------------------------------ MODULE HeldKeys ------------------------------
(***************************************************************************)
(* The rules src/owid/public_key_fetch.py keeps its store of keys by: what *)
(* span of minutes an answer of a creator teaches, which held key covers a *)
(* minute, what the creator is taken to have stated about a held key, and  *)
(* when a span may be widened.  Operators only; KeyCache gives them state. *)
(*                                                                         *)
(* Minutes are counted from 2020-01-01, as the date field of an OWID       *)
(* counts them.  The store is a set of records where the code has a        *)
(* dictionary of lists: the order of a list decides only which of several  *)
(* matching keys is met first, and KeyCache shows that no two match.       *)
(***************************************************************************)
EXTENDS Integers

CONSTANTS
  EndPoints,      \* key URLs without their query: scheme, domain, version
  Pems,           \* the keys, in PEM form
  LastMinute,     \* _LAST_MINUTE, where a span without an end runs to
  Drift           \* CLOCK_DRIFT_ALLOWANCE_MINUTES

ASSUME ClockAssumption == LastMinute \in Nat /\ Drift \in Nat

\* Python's None, for a minute the URL or the answer does not name.
Absent == -1
Minute == 0 .. LastMinute
Moment == Minute \cup {Absent}

\* _HeldKey, with the end point whose list holds it.
HeldKey == [endPoint : EndPoints, pem : Pems, first : Minute, last : Minute,
            explicit : BOOLEAN, openEnded : BOOLEAN]

\* _KeyAnswer: the key, and the span the creator stated for it when known.
KeyAnswer == [pem : Pems, first : Minute, last : Minute, known : BOOLEAN]

Earlier(a, b) == IF a <= b THEN a ELSE b
Later(a, b) == IF a >= b THEN a ELSE b

-----------------------------------------------------------------------------
(* Reading the store *)

\* A minute so close to now that a creator whose clock differs may have read
\* it as its present.
Recent(minute, now) == minute > now - Drift

Covers(key, minute) == key.first <= minute /\ minute <= key.last

\* The keys _held_for may serve for the minute: a span the creator stated
\* itself serves any minute in it, a confirmed one only minutes long past.
HeldFor(held, endPoint, minute, now) ==
  {key \in held : /\ key.endPoint = endPoint
                  /\ minute # Absent
                  /\ Covers(key, minute)
                  /\ key.explicit \/ ~Recent(minute, now)}

Unstated(pem) == [pem |-> pem, first |-> 0, last |-> 0, known |-> FALSE]
StatedSpan(pem, first, last) ==
  [pem |-> pem, first |-> first, last |-> last, known |-> TRUE]

\* _stated_for: what the creator is taken to have said of a held key.
StatedFor(key) ==
  IF key.explicit THEN StatedSpan(key.pem, key.first, key.last)
  ELSE IF key.openEnded THEN StatedSpan(key.pem, key.first, LastMinute)
  ELSE Unstated(key.pem)

\* The answer named both ends of its span, a whole minute or more apart.
BothEnds(start, end) == start # Absent /\ end # Absent /\ end > start

\* _stated: what the creator is taken to have said in an answer.
Stated(pem, start, end) ==
  IF start = Absent THEN Unstated(pem)
  ELSE IF BothEnds(start, end) THEN StatedSpan(pem, start, end - 1)
  ELSE StatedSpan(pem, start, LastMinute)

-----------------------------------------------------------------------------
(* Learning from an answer *)

\* Mutant: a bare minute is held however close to now it is.
TeachesAnyMinute(minute, start, now) == start # Absent \/ minute # Absent

\* Whether the answer teaches anything that may be held.
Teaches(minute, start, now) ==
  \/ start # Absent
  \/ minute # Absent /\ ~Recent(minute, now)

\* Mutant: a span without an end runs to the allowance behind now even where
\* that is before its start.
TaughtBehindStart(endPoint, minute, pem, start, end, now) ==
  [endPoint  |-> endPoint,
   pem       |-> pem,
   first     |-> IF start # Absent THEN start ELSE minute,
   last      |-> IF BothEnds(start, end) THEN end - 1
                 ELSE IF start # Absent THEN now - Drift
                 ELSE minute,
   explicit  |-> BothEnds(start, end),
   openEnded |-> start # Absent /\ ~BothEnds(start, end)]

\* Mutant: a start that is not stated is held as it is.
TaughtFromStart(endPoint, minute, pem, start, end, now) ==
  [endPoint  |-> endPoint,
   pem       |-> pem,
   first     |-> start,
   last      |-> IF BothEnds(start, end) THEN end - 1
                 ELSE IF start # Absent THEN Later(start, now - Drift)
                 ELSE minute,
   explicit  |-> BothEnds(start, end),
   openEnded |-> start # Absent /\ ~BothEnds(start, end)]

\* Mutant: a span without an end is held to the last minute there is.
TaughtUntilFurtherNotice(endPoint, minute, pem, start, end, now) ==
  [endPoint  |-> endPoint,
   pem       |-> pem,
   first     |-> IF start # Absent THEN start ELSE minute,
   last      |-> IF BothEnds(start, end) THEN end - 1
                 ELSE IF start # Absent THEN LastMinute
                 ELSE minute,
   explicit  |-> BothEnds(start, end),
   openEnded |-> start # Absent /\ ~BothEnds(start, end)]

\* Mutant: a span without an end counts as stated in whole.
TaughtAsStated(endPoint, minute, pem, start, end, now) ==
  [endPoint  |-> endPoint,
   pem       |-> pem,
   first     |-> IF start # Absent THEN start ELSE minute,
   last      |-> IF BothEnds(start, end) THEN end - 1
                 ELSE IF start # Absent THEN Later(start, now - Drift)
                 ELSE minute,
   explicit  |-> start # Absent,
   openEnded |-> FALSE]

\* The key with the span the answer teaches: the whole span when both ends
\* are stated, the start up to the allowance behind now when only the start
\* is, and the minute asked about when neither is.
Taught(endPoint, minute, pem, start, end, now) ==
  [endPoint  |-> endPoint,
   pem       |-> pem,
   first     |-> IF start # Absent THEN start ELSE minute,
   last      |-> IF BothEnds(start, end) THEN end - 1
                 ELSE IF start # Absent THEN Later(start, now - Drift)
                 ELSE minute,
   explicit  |-> BothEnds(start, end),
   openEnded |-> start # Absent /\ ~BothEnds(start, end)]

SameKey(k, l) == k.endPoint = l.endPoint /\ k.pem = l.pem

Overlap(k, l) == k.last >= l.first /\ k.first <= l.last

\* Mutant: the span of the latest answer replaces the one held.
WidenedToTaught(key, taught) ==
  [key EXCEPT !.first = taught.first,
              !.last = taught.last,
              !.explicit = key.explicit \/ taught.explicit,
              !.openEnded = /\ ~(key.explicit \/ taught.explicit)
                            /\ key.openEnded \/ taught.openEnded]

\* The held key with its span widened to take in what was taught.
Widened(key, taught) ==
  [key EXCEPT !.first = Earlier(taught.first, key.first),
              !.last = Later(taught.last, key.last),
              !.explicit = key.explicit \/ taught.explicit,
              !.openEnded = /\ ~(key.explicit \/ taught.explicit)
                            /\ key.openEnded \/ taught.openEnded]

\* Mutant: a span is widened across whatever is in between.
WidensAnyway(held, key, taught) == TRUE

\* _widen refuses to reach across any other key of the same creator.
MayWiden(held, key, taught) ==
  \A other \in held \ {key} :
    other.endPoint = key.endPoint => ~Overlap(other, Widened(key, taught))

\* The keys another key of the creator already stands in the way of.
InTheWay(held, taught) ==
  {other \in held : other.endPoint = taught.endPoint /\ Overlap(other, taught)}
=============================================================================
