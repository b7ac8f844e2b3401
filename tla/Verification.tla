---------------------------- MODULE Verification ----------------------------
(***************************************************************************)
(* Verification over HTTP, end to end: a creator that publishes its keys   *)
(* ahead, its end point (Schedule), requests that take time or fail, the   *)
(* store of keys (KeyCache) filled with the answers, and verifiers that    *)
(* judge identifiers with _signature_status_at_url and _neighbour_verifies *)
(* of src/owid/public_key_fetch.py.                                        *)
(*                                                                         *)
(* Time is in whole minutes and keys start on whole minutes                *)
(* (CreatorEndPoint looks closer).  Three clocks meet: this process's, the *)
(* creator's, and that of the machine that signed.  One request is made    *)
(* for a minute at a time and every verifier that wants the minute waits   *)
(* on it; SharedFetch shows how.  A step of a verifier is what it does     *)
(* between looking in the store and waiting, so that verifiers in other    *)
(* threads may change the store in between.  clear_cache, which only       *)
(* empties the store, is left to the other two modules.                    *)
(***************************************************************************)
EXTENDS Neighbours, FiniteSets

CONSTANTS
  EndPoint, Pems, MaxCachedKeys,   \* see KeyCache
  Verifiers,
  Styles,         \* whether creators' answers state validFrom and validTo
  ClockSkew,      \* how far the creator's clock is from this one, at most
  SigningSkew,    \* how far a signing machine's clock is from the schedule
  Latency,        \* minutes a request may take
  Lead,           \* how far ahead a creator publishes a key
  Period,         \* the shortest time a key is in force
  MaxKeys         \* bound on the keys the creator publishes

VARIABLES
  cache, heldKeys, now, learned,   \* the store, see KeyCache
  keys,       \* the creator's schedule
  states,     \* whether the creator's answers state validFrom and validTo
  ahead,      \* how far the creator's clock is ahead of this one
  asked,      \* requests on their way to the creator
  answered,   \* answers on their way back
  job         \* what each verifier is doing

store == <<cache, heldKeys, now, learned>>
vars == <<cache, heldKeys, now, learned, keys, states, ahead, asked, answered,
          job>>
creator == <<keys, states, ahead>>

Store == INSTANCE KeyCache WITH EndPoints <- {EndPoint}
Creator == INSTANCE Schedule
  WITH SecondTicks <- 1, MinuteTicks <- 1, MaximumMinutes <- LastMinute

Absent == Store!Absent
Minute == Store!Minute

ASSUME VerificationAssumption ==
  /\ LastMinute \in Nat /\ Drift \in Nat /\ MaxCachedKeys \in Nat \ {0}
  /\ Styles \subseteq BOOLEAN /\ Styles # {}
  /\ ClockSkew \in Nat /\ SigningSkew \in Nat /\ Latency \in Nat
  /\ Lead \in Nat \ {0} /\ Period \in Nat \ {0} /\ MaxKeys \in Nat \ {0}

\* An identifier, and the creator's time when it was presented.
Owid == [minute : Minute, signer : Pems, seen : Int]

Request == [minute : Minute, sent : Minute]
Reply == [minute : Minute, sent : Minute, pem : Pems,
          start : Store!Moment, end : Store!Moment]

Status == {"SIGNATURE_VALID", "SIGNATURE_INVALID", "KEY_UNAVAILABLE",
           "INVALID_KEY"}

\* A verifier looks for the key of a minute, waits for it, or has a status.
\* tried holds the answer the identifier's own minute selected, once there is
\* one, and beyond the minutes of the neighbours still to be tried.  missed is
\* history: a neighbour's key could not be obtained, or it came with a request
\* made before the identifier was presented; and so did the selected key, of a
\* creator that states no spans.
Job == [phase : {"looking", "waiting", "done"}, owid : Owid, minute : Minute,
        tried : SUBSET Store!KeyAnswer, beyond : Seq(Minute),
        missed : SUBSET {"failed", "older"}, status : Status]

NewJob(minute, signer, seen) ==
  [phase |-> "looking", minute |-> minute, tried |-> {}, beyond |-> <<>>,
   owid |-> [minute |-> minute, signer |-> signer, seen |-> seen],
   missed |-> {}, status |-> "KEY_UNAVAILABLE"]

CreatorNow == now + ahead

TypeOK ==
  /\ Store!TypeOK
  /\ keys \in Seq(Creator!DatedPublicKey)
  /\ states \in Styles
  /\ ahead \in -ClockSkew .. ClockSkew
  /\ asked \subseteq Request
  /\ answered \subseteq Reply
  /\ job \in [Verifiers -> Job]

Idle(v) == job[v].phase = "done"

Init ==
  /\ Store!Init
  /\ states \in Styles
  /\ ahead \in -ClockSkew .. ClockSkew
  /\ \E pem \in Pems, start \in 0 .. Period :
       keys = <<[start |-> start, pem |-> pem]>>
  /\ asked = {}
  /\ answered = {}
  /\ \E pem \in Pems :
       job = [v \in Verifiers |-> [NewJob(0, pem, 0) EXCEPT !.phase = "done"]]

-----------------------------------------------------------------------------
(* The creator and the clocks *)

\* The creator publishes a key it has not used before, ahead of its start.
Publish(pem, start) ==
  /\ Len(keys) < MaxKeys
  /\ \A i \in DOMAIN keys : keys[i].pem # pem /\ keys[i].start + Period <= start
  /\ start >= CreatorNow + Lead
  /\ keys' = Append(keys, [start |-> start, pem |-> pem])
  /\ UNCHANGED <<store, states, ahead, asked, answered, job>>

\* A minute passes, unless a request would take longer than it may.
Tick ==
  /\ now < LastMinute
  /\ \A r \in asked \cup answered : now < r.sent + Latency
  /\ now' = now + 1
  /\ UNCHANGED <<cache, heldKeys, learned, creator, asked, answered, job>>

-----------------------------------------------------------------------------
(* _signature_status_at_url and _neighbour_verifies *)

Done(j, status) ==
  [j EXCEPT !.phase = "done", !.status = status,
            !.minute = j.owid.minute, !.tried = {}, !.beyond = <<>>]

\* Mutant: a neighbour that has been tried stays the next to be tried.
NextNeighbourAgain(j) ==
  IF j.beyond # <<>>
    THEN [j EXCEPT !.phase = "looking", !.minute = Head(j.beyond)]
  ELSE IF \E t \in j.tried : t.known /\ ~Store!Covers(t, j.owid.minute)
    THEN Done(j, "KEY_UNAVAILABLE")
  ELSE Done(j, "SIGNATURE_INVALID")

\* The next neighbour, and after the last the status under the selected key.
NextNeighbour(j) ==
  IF j.beyond # <<>>
    THEN [j EXCEPT !.phase = "looking", !.minute = Head(j.beyond),
                   !.beyond = Tail(j.beyond)]
  ELSE IF \E t \in j.tried : t.known /\ ~Store!Covers(t, j.owid.minute)
    THEN Done(j, "KEY_UNAVAILABLE")
  ELSE Done(j, "SIGNATURE_INVALID")

\* The verifier goes on with a key, selected or a neighbour.  A neighbour that
\* is the same key fails again, which is why the code does not try it.
Given(j, answer) ==
  IF answer.pem = j.owid.signer THEN Done(j, "SIGNATURE_VALID")
  ELSE IF j.tried = {}
    THEN NextNeighbour([j EXCEPT !.tried = {answer},
                                 !.beyond = Beyond(j.owid.minute, answer)])
  ELSE NextNeighbour(j)

\* The verifier goes on without the key it waited for.
Denied(j, status) ==
  IF j.tried = {} THEN Done(j, status)
  ELSE NextNeighbour([j EXCEPT !.missed = @ \cup {"failed"}])

Verify(v, minute, signer) ==
  /\ Idle(v)
  /\ job' = [job EXCEPT ![v] = NewJob(minute, signer, CreatorNow)]
  /\ UNCHANGED <<store, creator, asked, answered>>

\* public_key_url raises: the domain is none a request is made to.
Refuse(v, minute, signer) ==
  /\ Idle(v)
  /\ job' = [job EXCEPT ![v] =
       Done(NewJob(minute, signer, CreatorNow), "KEY_UNAVAILABLE")]
  /\ UNCHANGED <<store, creator, asked, answered>>

(* _key_at_url *)

Held(minute) == Store!HeldFor(cache, EndPoint, minute, now)

FindHeld(v) ==
  /\ job[v].phase = "looking"
  /\ \E key \in Held(job[v].minute) :
       job' = [job EXCEPT ![v] = Given(@, Store!StatedFor(key))]
  /\ UNCHANGED <<store, creator, asked, answered>>

\* Wait on the request for the minute, making it unless it is in flight.
Ask(v) ==
  /\ job[v].phase = "looking"
  /\ Held(job[v].minute) = {}
  /\ asked' = IF \E r \in asked \cup answered : r.minute = job[v].minute
                THEN asked
                ELSE asked \cup {[minute |-> job[v].minute, sent |-> now]}
  /\ job' = [job EXCEPT ![v].phase = "waiting"]
  /\ UNCHANGED <<store, creator, answered>>

(* The end point, and _fetch_and_hold *)

\* What the creator says of a key, and this process reads in the answer.
ReplyTo(r, answer) ==
  [minute |-> r.minute, sent |-> r.sent, pem |-> answer.pem,
   start |-> IF states THEN answer.from ELSE Absent,
   end |-> IF states THEN answer.to ELSE Absent]

Respond(r) ==
  /\ \E answer \in Creator!Selected(keys, r.minute, CreatorNow) :
       answered' = answered \cup {ReplyTo(r, answer)}
  /\ asked' = asked \ {r}
  /\ UNCHANGED <<store, creator, job>>

\* Every verifier that waits for the minute goes on.
Waiting(minute) == {v \in Verifiers : job[v].phase = "waiting" /\ job[v].minute = minute}

\* History: the request is older than the identifier's presentation, and it is
\* for a neighbour or to a creator whose answers state no span.
Noting(j, r) ==
  IF (j.tried # {} \/ ~states) /\ r.sent + ahead < j.owid.seen
    THEN [j EXCEPT !.missed = @ \cup {"older"}] ELSE j

Receive(r) ==
  /\ Store!Hold(EndPoint, r.minute, r.pem, r.start, r.end)
  /\ answered' = answered \ {r}
  /\ job' = [v \in Verifiers |->
       IF v \in Waiting(r.minute)
         THEN Given(Noting(job[v], r), Store!Stated(r.pem, r.start, r.end))
         ELSE job[v]]
  /\ UNCHANGED <<creator, asked>>

\* What may become of a request instead: the transport raises, for a request or
\* an answer that is lost or late; the creator replies 404 or 500, or redirects,
\* which is not followed; the body is longer than a key, is not JSON, or is no
\* answer that passes the check.
Failure == {"RAISED", "OTHER_CODE", "TOO_LONG", "NOT_JSON", "NOT_VALID"}

\* The status _read and _parse_answer give each.
FailureStatus(failure) ==
  IF failure \in {"NOT_JSON", "NOT_VALID"} THEN "INVALID_KEY" ELSE "KEY_UNAVAILABLE"

FailureStatuses == {FailureStatus(failure) : failure \in Failure}

Fail(r, status) ==
  /\ asked' = asked \ {r}
  /\ answered' = answered \ {r}
  /\ job' = [v \in Verifiers |->
       IF v \in Waiting(r.minute) THEN Denied(job[v], status) ELSE job[v]]
  /\ UNCHANGED <<store, creator>>

Next ==
  \/ \E pem \in Pems, start \in Minute : Publish(pem, start)
  \/ Tick
  \/ \E v \in Verifiers :
       \/ \E minute \in Minute, signer \in Pems :
            Verify(v, minute, signer) \/ Refuse(v, minute, signer)
       \/ FindHeld(v)
       \/ Ask(v)
  \/ \E r \in asked : Respond(r)
  \/ \E r \in answered : Receive(r)
  \/ \E r \in asked \cup answered, status \in FailureStatuses : Fail(r, status)

Spec == Init /\ [][Next]_vars

\* A loop runs a callback that is ready, and a transport has TIMEOUT_SECONDS,
\* after which it raises.  Nothing makes a creator answer.
EndsFor(minute) ==
  \/ \E r \in asked : r.minute = minute /\ Respond(r)
  \/ \E r \in answered : r.minute = minute /\ Receive(r)
  \/ \E r \in asked \cup answered, status \in FailureStatuses :
       r.minute = minute /\ Fail(r, status)

FairSpec ==
  /\ Spec
  /\ \A v \in Verifiers : WF_vars(FindHeld(v) \/ Ask(v))
  /\ \A minute \in Minute : WF_vars(EndsFor(minute))

-----------------------------------------------------------------------------
\* The keys in force at a minute by the creator's schedule.
InForceAt(minute) ==
  {keys[i].pem : i \in {j \in DOMAIN keys : Creator!InForce(keys, j, minute)}}

\* A signing machine within its allowance signed with the key in force.  A
\* creator that states no spans is taken to sign by its schedule exactly.
SigningMinutes(o) ==
  IF states
    THEN {x \in Minute : /\ x <= o.seen
                         /\ x - o.minute <= SigningSkew
                         /\ o.minute - x <= SigningSkew}
    ELSE {x \in {o.minute} : x <= o.seen}

Genuine(o) == \E x \in SigningMinutes(o) : o.signer \in InForceAt(x)

(***************************************************************************)
(* Every minute of every span held is a minute the key was in force for by *)
(* the creator's own schedule, including the minutes no answer was about,  *)
(* keys published after the answer, answers that came late, and a clock    *)
(* that differs from the creator's.                                        *)
(***************************************************************************)
HeldSpansAreTrue ==
  \A k \in cache : \A minute \in k.first .. k.last : InForceAt(minute) = {k.pem}

(***************************************************************************)
(* A span held as the creator's own statement is one: it begins where the  *)
(* key starts and, if its end is held as stated, ends where the next key   *)
(* starts, however it was pieced together from statements with an end and  *)
(* without, older and newer.  A verifier tries a neighbour at these edges  *)
(* and nowhere else.                                                       *)
(***************************************************************************)
StartsAt(pem, minute) ==
  \E i \in DOMAIN keys : keys[i].pem = pem /\ keys[i].start = minute
EndsAt(pem, minute) ==
  \E i \in DOMAIN keys :
    keys[i].pem = pem /\ Creator!NextStartAfter(keys, keys[i]) = minute

StatedSpansAreWhole ==
  \A k \in cache :
    /\ k.explicit \/ k.openEnded => StartsAt(k.pem, k.first)
    /\ k.explicit => EndsAt(k.pem, k.last + 1)

(***************************************************************************)
(* "Reporting either as invalid would read as an attack": an identifier    *)
(* signed by a machine whose clock is within the allowance of the schedule *)
(* is not reported as not matching, whichever keys the store happened to   *)
(* hold, except where a neighbour's key could not be obtained or came with *)
(* a request another verifier had made before; of a creator that states no *)
(* spans, so where the selected key did.                                   *)
(***************************************************************************)
Denies(v) ==
  /\ job[v].phase = "done" /\ job[v].status = "SIGNATURE_INVALID"
  /\ Genuine(job[v].owid)

GenuineIsNotDenied ==
  \A v \in Verifiers : Denies(v) => job[v].missed # {}

(***************************************************************************)
(* A signature is accepted only under a key that was in force within the   *)
(* allowance of the identifier's minute; or, for an identifier dated later *)
(* than its presentation, under the key the creator was then signing with. *)
(* A key whose period is over gains nothing from the neighbours or the     *)
(* spans pieced together in the store.                                     *)
(***************************************************************************)
AcceptedKeyWasInForce ==
  \A v \in Verifiers :
    LET o == job[v].owid IN
    job[v].phase = "done" /\ job[v].status = "SIGNATURE_VALID" =>
      \E x \in Minute :
        /\ o.signer \in InForceAt(x)
        /\ \/ x - o.minute <= Drift + 1 /\ o.minute - x <= Drift + 1
           \/ x < o.minute /\ o.seen - Latency <= x

(***************************************************************************)
(* signature_status: "A key that cannot be fetched is KEY_UNAVAILABLE" and *)
(* "None of these is SIGNATURE_INVALID, because an outage or a badly       *)
(* served key leaves the signature unjudged".                              *)
(***************************************************************************)
OutageIsNotInvalid ==
  \A v \in Verifiers : Denies(v) => "failed" \notin job[v].missed

(***************************************************************************)
(* An identifier near an edge "that does not verify under that key is      *)
(* checked against the key for the minute just beyond that edge before it  *)
(* is reported as not matching", whoever made the request for that key.    *)
(***************************************************************************)
EdgesAreChecked ==
  \A v \in Verifiers : Denies(v) => "failed" \in job[v].missed

(***************************************************************************)
(* Every verification ends with a status, whatever neighbours it tries,    *)
(* whose requests it waits on and however they end.                        *)
(***************************************************************************)
VerificationsEnd == \A v \in Verifiers : []<>Idle(v)
=============================================================================
