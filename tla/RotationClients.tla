--------------------------- MODULE RotationClients ---------------------------
(***************************************************************************)
(* Identifiers a creator signed around the rotations of its key, judged by *)
(* the two surfaces the package has: PublicKeySchedule.signature_status,   *)
(* with the creator's own schedule, and signature_status of                *)
(* src/owid/public_key_fetch.py, which asks the end point and has nothing  *)
(* held.  The first compares moments; what reaches the second has been     *)
(* written in whole seconds and read in whole minutes.  All requests of    *)
(* one verification are answered at one moment; Verification has them take *)
(* time, and share a store, but keeps to keys that start on the minute.    *)
(***************************************************************************)
EXTENDS CreatorEndPoint, Neighbours, Functions

\* The last minute a date field holds is past the last a datetime does.
ASSUME ClientAssumption ==
  LastMinute \in Nat /\ Drift \in Nat /\ MaximumMinutes <= LastMinute

Client == INSTANCE HeldKeys WITH EndPoints <- {}

-----------------------------------------------------------------------------
(* PublicKeySchedule.signature_status *)

\* Mutant: the key with the latest start is taken for the key in force.
KeyForLatest(date) ==
  {keys[i].pem : i \in {j \in DOMAIN keys : Following(keys, keys[j]) = {}}}

\* key_for, which is none where the schedule begins later.
KeyFor(date) ==
  {keys[i].pem : i \in {j \in DOMAIN keys : InForce(keys, j, date * MinuteTicks)}}

\* A signature is the key that made it, so that under key_for the status is
\* valid, invalid, or, without a key, KEY_UNAVAILABLE.
ScheduleAccepts(date, signer) == signer \in KeyFor(date)
ScheduleDenies(date, signer) == KeyFor(date) # {} /\ signer \notin KeyFor(date)

-----------------------------------------------------------------------------
(* signature_status over HTTP *)

\* _minutes_or_none.
Minutes(time) == IF time = Never THEN Client!Absent ELSE time \div MinuteTicks

\* The answer a client reads, and none where the creator finds its own answer
\* wanting.
AnswersFor(date) ==
  {Client!Stated(a.pem, Minutes(a.from), Minutes(a.to)) :
     a \in {b \in Selected(keys, date, moment) : Validated(b, Asked(date, moment))}}

\* The keys tried, first the one selected.
Tried(date, answer) ==
  {answer.pem} \cup
    {a.pem : a \in UNION {AnswersFor(m) : m \in Range(Beyond(date, answer))}}

\* Mutant: a key that was not in force at the date denies as any other does.
DeniesUncovered(date, signer) ==
  \E answer \in AnswersFor(date) : signer \notin Tried(date, answer)

\* _signature_status_at_url is valid, invalid, or otherwise KEY_UNAVAILABLE.
ClientAccepts(date, signer) ==
  \E answer \in AnswersFor(date) : signer \in Tried(date, answer)
ClientDenies(date, signer) ==
  \E answer \in AnswersFor(date) :
    signer \notin Tried(date, answer) /\ Client!Covers(answer, date)

-----------------------------------------------------------------------------
\* The dates an identifier can have.
OwidDates == {date \in Dates : date <= MaximumMinutes}

\* The key signed an identifier of the date by now, on a machine whose clock
\* is within the allowance of the schedule.
Signed(i, date) ==
  \E time \in 0 .. moment :
    InForce(keys, i, time) /\ NearEdge(date, Date(time))

Spaced(ticks) ==
  \A i, j \in DOMAIN keys :
    keys[i].start <= keys[j].start /\ i # j => keys[i].start + ticks <= keys[j].start

(***************************************************************************)
(* "An identifier dated just after a key started may have been signed with *)
(* the key before it, and one dated just before may have been signed with  *)
(* the key after": an identifier signed within the allowance is never      *)
(* reported as not matching, at whatever moment of a minute its key and    *)
(* the keys next to it start, but where its own key starts within a minute *)
(* and it is dated before that minute.  Keys are in force for two minutes  *)
(* or longer, and for no less than the allowance.                          *)
(***************************************************************************)
DatedBeforeStart(i, date) ==
  keys[i].start % MinuteTicks # 0 /\ date < keys[i].start \div MinuteTicks

LongLived == Spaced(2 * MinuteTicks) /\ Spaced(Drift * MinuteTicks)

GenuineIsSpared ==
  LongLived =>
    \A date \in OwidDates : \A i \in DOMAIN keys :
      Signed(i, date) /\ ClientDenies(date, keys[i].pem) => DatedBeforeStart(i, date)

(***************************************************************************)
(* The same without the exception.  "The key for the minute just beyond    *)
(* that edge is asked for and tried", and one that starts within that      *)
(* minute is not what the creator serves for it.                           *)
(***************************************************************************)
EdgesFindTheSigner ==
  LongLived =>
    \A date \in OwidDates : \A i \in DOMAIN keys :
      Signed(i, date) => ~ClientDenies(date, keys[i].pem)

(***************************************************************************)
(* The two surfaces do not contradict each other about a date that has     *)
(* come: what the schedule accepts a client accepts, but where the creator *)
(* refuses its own answer, and what a client denies the schedule denies,   *)
(* although the client sees less of it.                                    *)
(***************************************************************************)
SurfacesAgree ==
  \A date \in OwidDates, signer \in Pems : date * MinuteTicks <= moment =>
    /\ ScheduleAccepts(date, signer) /\ ~StartsWithinSecond(date * MinuteTicks) =>
         ClientAccepts(date, signer)
    /\ ClientDenies(date, signer) => ScheduleDenies(date, signer)
=============================================================================
