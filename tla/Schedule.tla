------------------------------ MODULE Schedule ------------------------------
(***************************************************************************)
(* The keys a creator has published and the answers it gives about them:   *)
(* src/owid/public_key_schedule.py and, of src/owid/endpoints.py,          *)
(* public_key_response_at, public_key_answer and                           *)
(* validate_public_key_answer.  Operators only; CreatorEndPoint and        *)
(* Verification give them state.                                           *)
(*                                                                         *)
(* A moment is counted in ticks since 2020-01-01.  Three resolutions meet  *)
(* here: a key may start at any tick, the text of an answer holds whole    *)
(* seconds, and a date counts whole minutes.  A schedule is the sequence   *)
(* of keys as supplied; the stable sort of the constructor shows in which  *)
(* key is in force and nowhere else.  A request that is refused 400 for    *)
(* its format or for a date that is no count is an input check and is left *)
(* out, and so is a key that started before 2020.                          *)
(***************************************************************************)
EXTENDS Integers, Sequences

CONSTANTS
  Pems,            \* the keys, in PEM form
  SecondTicks,     \* ticks in a second
  MinuteTicks,     \* ticks in a minute
  MaximumMinutes   \* MAXIMUM_MINUTES, the last minute a datetime can hold

ASSUME ResolutionAssumption ==
  /\ SecondTicks \in Nat \ {0}
  /\ MinuteTicks \in Nat \ {0}
  /\ MinuteTicks % SecondTicks = 0
  /\ MaximumMinutes \in Nat

\* Python's None, for a date that is not given or an end not known.
Never == -1

DatedPublicKey == [start : Nat, pem : Pems]
PublicKeyAnswer == [pem : Pems, from : Nat, to : Nat \cup {Never}]

-----------------------------------------------------------------------------
(* PublicKeySchedule *)

\* Mutant: a key is in force only after the moment it starts at.
InForceAfterStart(keys, i, moment) ==
  /\ i \in DOMAIN keys
  /\ keys[i].start < moment
  /\ \A j \in DOMAIN keys : keys[j].start < moment =>
       \/ keys[j].start < keys[i].start
       \/ keys[j].start = keys[i].start /\ i <= j

\* key_in_force returns the i-th key supplied: the latest to have started by
\* the moment, and the first supplied of those that share its start.
InForce(keys, i, moment) ==
  /\ i \in DOMAIN keys
  /\ keys[i].start <= moment
  /\ \A j \in DOMAIN keys : keys[j].start <= moment =>
       \/ keys[j].start < keys[i].start
       \/ keys[j].start = keys[i].start /\ i <= j

\* The starts next_start_after takes the least of.
Following(keys, key) ==
  {keys[j].start : j \in {l \in DOMAIN keys : keys[l].start > key.start}}

\* Mutant: the end of the schedule is taken for the end of the key.
NextStartIsLast(keys, key) ==
  IF Following(keys, key) = {} THEN Never
  ELSE CHOOSE start \in Following(keys, key) :
         \A other \in Following(keys, key) : start >= other

NextStartAfter(keys, key) ==
  IF Following(keys, key) = {} THEN Never
  ELSE CHOOSE start \in Following(keys, key) :
         \A other \in Following(keys, key) : start <= other

-----------------------------------------------------------------------------
(* The public key end point *)

\* _moment_text writes whole seconds.
Text(moment) == IF moment = Never THEN Never ELSE moment - (moment % SecondTicks)

\* Mutant: a date later than the request is not read as the request's moment.
AskedAhead(date, moment) ==
  IF date = Never \/ date > MaximumMinutes THEN moment ELSE date * MinuteTicks

\* Mutant: the date is not read.
AskedNow(date, moment) == moment

\* The moment a request is answered for: the start of the minute it names,
\* and the moment of the request when that is earlier or none is named.
Asked(date, moment) ==
  IF \/ date = Never
     \/ date > MaximumMinutes
     \/ date * MinuteTicks > moment
  THEN moment
  ELSE date * MinuteTicks

\* The answer about a key: the key, and the period it is in force for.
Answer(keys, key) ==
  [pem |-> key.pem, from |-> Text(key.start), to |-> Text(NextStartAfter(keys, key))]

\* Mutant: a key is still taken to be in force at its end.
ValidatedAtItsEnd(answer, asked) ==
  /\ answer.to # Never => answer.from < answer.to
  /\ answer.from <= asked
  /\ answer.to # Never => asked <= answer.to

\* validate_public_key_answer, which raises where this is false.
Validated(answer, asked) ==
  /\ answer.to # Never => answer.from < answer.to
  /\ answer.from <= asked
  /\ answer.to # Never => asked < answer.to

\* What public_key_response_at selects for a date at the moment of a request:
\* one answer, or none where it replies 404.
Selected(keys, date, moment) ==
  {Answer(keys, keys[i]) :
     i \in {j \in DOMAIN keys : InForce(keys, j, Asked(date, moment))}}
=============================================================================
