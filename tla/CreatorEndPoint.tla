--------------------------- MODULE CreatorEndPoint ---------------------------
(***************************************************************************)
(* A creator that rotates its key: it publishes keys ahead of the moments  *)
(* they start at, signs identifiers with the key then in force, dated to   *)
(* the minute as _sign of src/owid/creator.py dates them, and answers      *)
(* requests for its keys with public_key_response_at.  An answer changes   *)
(* nothing, so the invariants speak of the answers to every date.          *)
(***************************************************************************)
EXTENDS Schedule

CONSTANTS
  Starts,       \* moments a key may start at
  LastMoment,   \* bound on the clock
  MaxKeys       \* bound on the schedule

ASSUME StartsAssumption ==
  Starts \subseteq Nat /\ LastMoment \in Nat /\ MaxKeys \in Nat

VARIABLES
  keys,     \* the keys the schedule is built from, in the order supplied
  moment    \* the creator's clock

vars == <<keys, moment>>

TypeOK == keys \in Seq(DatedPublicKey) /\ moment \in Nat

Init == keys = <<>> /\ moment = 0

\* The schedule is built anew with one more key, which has not started.
Publish(start, pem) ==
  /\ Len(keys) < MaxKeys
  /\ start > moment
  /\ keys' = Append(keys, [start |-> start, pem |-> pem])
  /\ UNCHANGED moment

Tick ==
  /\ moment < LastMoment
  /\ moment' = moment + 1
  /\ UNCHANGED keys

Next == (\E start \in Starts, pem \in Pems : Publish(start, pem)) \/ Tick

Spec == Init /\ [][Next]_vars

-----------------------------------------------------------------------------
(* _sign *)

\* Mutant: the date is rounded up to the next minute.
DateRoundedUp(signed) == (signed + MinuteTicks - 1) \div MinuteTicks

\* The minute an identifier signed at the moment is dated.
Date(signed) == signed \div MinuteTicks

Dates == 0 .. LastMoment \div MinuteTicks + 1
Requests == Dates \cup {Never}

-----------------------------------------------------------------------------
(***************************************************************************)
(* A request is answered with at most one key, and two requests that are   *)
(* answered with different keys are told of periods that do not meet, so   *)
(* that no client is ever told two keys for one moment, whichever dates it *)
(* asks about, whatever order the keys were supplied in and even where two *)
(* of them share a start.                                                  *)
(***************************************************************************)
Apart(a, b) ==
  \/ a.to # Never /\ a.to <= b.from
  \/ b.to # Never /\ b.to <= a.from

PeriodsDoNotMeet ==
  \A d, e \in Requests :
    \A a \in Selected(keys, d, moment), b \in Selected(keys, e, moment) :
      a = b \/ Apart(a, b)

(***************************************************************************)
(* A caller cannot learn of a key before its period has begun, by any date *)
(* it asks about or none, though the schedule holds keys far ahead.        *)
(***************************************************************************)
NothingAheadOfTime ==
  \A d \in Requests : \A i \in DOMAIN keys :
    InForce(keys, i, Asked(d, moment)) => keys[i].start <= moment

(***************************************************************************)
(* What is answered for a minute that has come stands: publishing further  *)
(* keys and the passing of time never change which key it is.  The clients *)
(* hold keys for past minutes on the strength of this.                     *)
(***************************************************************************)
PemsFor(k, date, at) == {a.pem : a \in Selected(k, date, at)}

PastAnswersStand ==
  [][\A d \in Dates : d * MinuteTicks <= moment =>
       PemsFor(keys', d, moment') = PemsFor(keys, d, moment)]_vars

(***************************************************************************)
(* public_key_answer checks an answer before sending it and raises where   *)
(* the check fails, "which is a fault in the schedule".  The check         *)
(* compares the moment asked about with an end that has been cut to its    *)
(* second, and so fails where another key starts later within that second  *)
(* and nowhere else: whatever the schedule, every other request that       *)
(* selects a key is answered with it.                                      *)
(***************************************************************************)
StartsWithinSecond(at) ==
  \E i \in DOMAIN keys : keys[i].start > at /\ Text(keys[i].start) = Text(at)

AnswersPassTheCheck ==
  \A d \in Requests : \A a \in Selected(keys, d, moment) :
    Validated(a, Asked(d, moment)) <=> ~StartsWithinSecond(Asked(d, moment))

(***************************************************************************)
(* key_for: "Returns the key that signed the OWID, being the key in force  *)
(* at the date the OWID carries".  The key a creator signed with at any    *)
(* moment so far is the one the schedule names for the date it wrote, and  *)
(* the one a client that asks about that date is served, unless it started *)
(* within the minute and before the identifier was signed.                 *)
(***************************************************************************)
StartedWithin(signed) ==
  \E i \in DOMAIN keys : /\ keys[i].start <= signed
                        /\ keys[i].start % MinuteTicks # 0
                        /\ keys[i].start \div MinuteTicks = signed \div MinuteTicks

SignerIsFound ==
  \A signed \in 0 .. moment : \A i \in DOMAIN keys :
    InForce(keys, i, signed) /\ ~StartedWithin(signed) =>
      PemsFor(keys, Date(signed), moment) = {keys[i].pem}
=============================================================================
