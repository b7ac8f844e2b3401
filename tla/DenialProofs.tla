---------------------------- MODULE DenialProofs ----------------------------
(***************************************************************************)
(* Proved for any number of verifiers, keys and minutes: the spans held as *)
(* a creator's own statements are its statements, and no identifier of a   *)
(* signing machine within the allowance is reported as not matching,       *)
(* except where a neighbour could not be obtained or came too early.       *)
(***************************************************************************)
EXTENDS VerificationProofs

\* What signing machines and creators are asked for: clocks within the drift
\* allowance and within the shortest time a key is in force, and keys published
\* further ahead than the allowance.
Allowed == SigningSkew <= Drift /\ SigningSkew <= Period /\ Drift < Lead

-----------------------------------------------------------------------------
(* Where keys start and end *)

Spaced ==
  \A i, j \in DOMAIN keys : i < j => keys[i].start + Period <= keys[j].start

\* The key is followed by another, which starts at the minute.
Followed(pem, minute) ==
  \E i \in DOMAIN keys :
    /\ i + 1 \in DOMAIN keys
    /\ keys[i].pem = pem
    /\ keys[i + 1].start = minute

LEMMA FollowedEnds ==
  ASSUME KeysOk, NEW pem, NEW minute, Followed(pem, minute)
  PROVE  EndsAt(pem, minute)
<1> PICK i \in DOMAIN keys :
      i + 1 \in DOMAIN keys /\ keys[i].pem = pem /\ keys[i + 1].start = minute
  BY DEF Followed
<1>1. i < Len(keys)
  BY KeyFacts
<1>2. Creator!NextStartAfter(keys, keys[i]) = minute
  BY <1>1, NextStart
<1> QED
  BY <1>2 DEF EndsAt

LEMMA OneStart ==
  ASSUME KeysOk, NEW pem, NEW a, NEW b, StartsAt(pem, a), StartsAt(pem, b)
  PROVE  a = b
<1>1. \A i, j \in DOMAIN keys : keys[i].pem = keys[j].pem => i = j
  BY KeyFacts DEF KeysOk
<1> QED
  BY <1>1 DEF StartsAt

LEMMA OneEnd ==
  ASSUME KeysOk, NEW pem, NEW a, NEW b, Followed(pem, a), Followed(pem, b)
  PROVE  a = b
<1>1. \A i, j \in DOMAIN keys : keys[i].pem = keys[j].pem => i = j
  BY KeyFacts DEF KeysOk
<1> QED
  BY <1>1 DEF Followed

LEMMA SettledBeforeEnd ==
  ASSUME KeysOk, NEW pem, NEW x \in Int, NEW end \in Int,
         Settled(pem, x), Followed(pem, end)
  PROVE  x < end
<1>1. \A i, j \in DOMAIN keys : keys[i].pem = keys[j].pem => i = j
  BY KeyFacts DEF KeysOk
<1>2. PICK i \in DOMAIN keys :
        i + 1 \in DOMAIN keys /\ keys[i].pem = pem /\ keys[i + 1].start = end
  BY DEF Followed
<1>3. PICK l \in DOMAIN keys :
        keys[l].pem = pem /\ \A j \in DOMAIN keys : j > l => x < keys[j].start
  BY DEF Settled
<1>4. i = l /\ i + 1 > i
  BY <1>1, <1>2, <1>3, KeyFacts
<1> QED
  BY <1>2, <1>3, <1>4

LEMMA SpacedStep ==
  ASSUME KeysOk, Spaced, [Next]_vars
  PROVE  Spaced'
<1>1. CASE keys' = keys
  BY <1>1 DEF Spaced
<1>2. ASSUME NEW pem \in Pems, NEW start \in Minute, Publish(pem, start)
      PROVE  Spaced'
  <2>1. Added(pem, start)
    BY <1>2, Published
  <2>2. \A i \in DOMAIN keys : keys[i].start + Period <= start
    BY <1>2 DEF Publish
  <2>3. ASSUME NEW i \in DOMAIN keys', NEW j \in DOMAIN keys', i < j
        PROVE  keys'[i].start + Period <= keys'[j].start
    <3>1. i \in DOMAIN keys /\ keys'[i] = keys[i]
      BY <2>1, <2>3, KeyFacts DEF Added
    <3>2. CASE j \in DOMAIN keys
      BY <2>1, <2>3, <3>1, <3>2 DEF Added, Spaced
    <3>3. CASE j = Len(keys) + 1
      BY <2>1, <2>2, <3>1, <3>3 DEF Added
    <3> QED
      BY <2>1, <3>2, <3>3, KeyFacts DEF Added
  <2> QED
    BY <2>3 DEF Spaced
<1> QED
  BY <1>1, <1>2, KeysChange

LEMMA EdgesStay ==
  ASSUME KeysOk, [Next]_vars, NEW pem, NEW x
  PROVE  /\ StartsAt(pem, x) => StartsAt(pem, x)'
         /\ Followed(pem, x) => Followed(pem, x)'
<1>1. CASE keys' = keys
  BY <1>1 DEF StartsAt, Followed
<1>2. ASSUME NEW new \in Pems, NEW start \in Minute, Publish(new, start)
      PROVE  DOMAIN keys \subseteq DOMAIN keys' /\ \A i \in DOMAIN keys : keys'[i] = keys[i]
  <2>1. Added(new, start)
    BY <1>2, Published
  <2> QED
    BY <2>1, KeyFacts DEF Added
<1> QED
  BY <1>1, <1>2, KeysChange DEF StartsAt, Followed

LEMMA StatesStay == ASSUME [Next]_vars PROVE states' = states
BY DEF Next, vars, creator, Publish, Tick, Verify, Refuse, FindHeld, Ask, Respond,
       Receive, Fail

-----------------------------------------------------------------------------
(* What the creator tells of edges, and what is held of them *)

\* A creator that states spans states where keys start and end, and one it
\* states no end of is in force for as long as it publishes keys ahead.
Spanned(r, c) ==
  /\ states <=> r.start # Absent
  /\ r.start # Absent => StartsAt(r.pem, r.start)
  /\ r.end # Absent => Followed(r.pem, r.end)
  /\ r.start # Absent /\ r.end = Absent => Settled(r.pem, c + Lead - 1)

LEMMA ResponseIsSpanned ==
  ASSUME KeysOk, ClocksOk, states \in BOOLEAN, NEW r \in Request,
         NEW answer \in Creator!Selected(keys, r.minute, CreatorNow)
  PROVE  Spanned(ReplyTo(r, answer), CreatorNow)
<1> DEFINE at == Store!Earlier(r.minute, CreatorNow)
<1>1. /\ CreatorNow \in Int /\ Lead \in Nat \ {0} /\ r.minute \in Int /\ Absent = -1
  BY VerificationAssumption
  DEF ClocksOk, CreatorNow, Request, Minute, Store!Minute, Absent, Store!Absent
<1>2. at \in Int /\ at <= CreatorNow
  BY <1>1 DEF Store!Earlier
<1> PICK i \in DOMAIN keys : /\ answer = Creator!Answer(keys, keys[i])
                             /\ Creator!InForce(keys, i, at)
  BY <1>1, RequestMoment DEF Creator!Selected, Request
<1>3. /\ answer.pem = keys[i].pem
      /\ answer.from = keys[i].start
      /\ answer.to = IF i < Len(keys) THEN keys[i + 1].start ELSE Absent
  BY AnswerOfKey
<1>4. /\ i \in 1 .. Len(keys) /\ Len(keys) \in Nat /\ DOMAIN keys = 1 .. Len(keys)
      /\ keys[i].start \in Nat
      /\ i < Len(keys) => i + 1 \in DOMAIN keys /\ keys[i + 1].start \in Nat
  BY KeyFacts
<1>5. keys[i].start <= CreatorNow
  BY <1>1, <1>2, <1>4 DEF Creator!InForce
<1>6. i = Len(keys) => Settled(keys[i].pem, CreatorNow + Lead - 1)
  BY <1>1, <1>4, <1>5 DEF Settled
<1>7. StartsAt(keys[i].pem, keys[i].start)
  BY DEF StartsAt
<1>8. i < Len(keys) => Followed(keys[i].pem, keys[i + 1].start)
  BY <1>4 DEF Followed
<1> HIDE DEF at
<1> SUFFICES ASSUME NEW reply, reply = ReplyTo(r, answer)
             PROVE  Spanned(reply, CreatorNow)
  OBVIOUS
<1>9. /\ reply.pem = keys[i].pem
      /\ reply.start = IF states THEN keys[i].start ELSE Absent
      /\ reply.end = IF states /\ i < Len(keys) THEN keys[i + 1].start ELSE Absent
  BY <1>3 DEF ReplyTo
<1> QED
  BY <1>1, <1>4, <1>6, <1>7, <1>8, <1>9 DEF Spanned

RepliesSpanned == \A r \in answered : \E c \in Int : Told(r, c) /\ Spanned(r, c)

LEMMA SpannedStays ==
  ASSUME KeysOk, ClocksOk, [Next]_vars, NEW r \in Reply, NEW c \in Int, Spanned(r, c)
  PROVE  Spanned(r, c)'
<1>1. c + Lead - 1 \in Int
  BY VerificationAssumption
<1> QED
  BY <1>1, StatesStay, EdgesStay, SettledStays DEF Spanned

LEMMA RepliesSpannedStep ==
  ASSUME TruthInv, RepliesSpanned, [Next]_vars
  PROVE  RepliesSpanned'
<1>1. /\ KeysOk /\ ClocksOk /\ states \in BOOLEAN /\ answered \subseteq Reply
      /\ asked \subseteq Request /\ \A q \in asked : q.sent <= now
      /\ CreatorNow \in Int
  BY InvHasClocks, VerificationAssumption
  DEF TruthInv, TypeOK, RequestsTimely, ClocksOk, CreatorNow, Minute, Store!Minute
<1>2. ASSUME NEW q \in asked, NEW answer \in Creator!Selected(keys, q.minute, CreatorNow)
      PROVE  /\ ReplyTo(q, answer) \in Reply
             /\ Told(ReplyTo(q, answer), CreatorNow)
             /\ Spanned(ReplyTo(q, answer), CreatorNow)
  BY <1>1, ResponseIsTold, ResponseIsSpanned
<1>3. \A r \in answered' : r \in Reply /\ \E c \in Int : Told(r, c) /\ Spanned(r, c)
  BY <1>1, <1>2, RequestsChange DEF RepliesSpanned
<1>4. ASSUME NEW r \in Reply, NEW c \in Int, Told(r, c), Spanned(r, c)
      PROVE  Told(r, c)' /\ Spanned(r, c)'
  BY <1>1, <1>4, ToldStays, SpannedStays
<1> QED
  BY <1>3, <1>4 DEF RepliesSpanned

\* A span that may be served is one the creator stated: it begins where the
\* key starts, ends where the next one does if its end was stated, and is clear
\* of any key yet to come by the allowance if it was not.
Whole(k) ==
  /\ k.explicit \/ k.openEnded <=> states
  /\ states => StartsAt(k.pem, k.first)
  /\ k.explicit => Followed(k.pem, k.last + 1)
  /\ k.openEnded => Settled(k.pem, k.last + Drift)

CacheWhole == \A k \in cache : Whole(k)

LEMMA WholeStays ==
  ASSUME KeysOk, ClocksOk, [Next]_vars, NEW k \in Store!HeldKey, Whole(k)
  PROVE  Whole(k)'
<1>1. k.last + Drift \in Int
  BY VerificationAssumption DEF Store!HeldKey, Store!Minute
<1> QED
  BY <1>1, StatesStay, EdgesStay, SettledStays DEF Whole

LEMMA TaughtIsWhole ==
  ASSUME Timely, Allowed, KeysOk, ClocksOk, NEW r \in Reply, NEW c \in Int,
         Told(r, c), Spanned(r, c), now <= r.sent + Latency,
         NEW t, t = Store!Taught(EndPoint, r.minute, r.pem, r.start, r.end, now)
  PROVE  Whole(t)
<1>1. /\ r.sent \in Int /\ r.start \in -1 .. LastMinute /\ r.end \in -1 .. LastMinute
      /\ now \in Int /\ ahead \in Int /\ -ClockSkew <= ahead
      /\ LastMinute \in Nat /\ Drift \in Nat /\ Latency \in Nat /\ ClockSkew \in Nat
      /\ Lead \in Nat /\ Absent = -1 /\ Store!Absent = -1
  BY VerificationAssumption
  DEF Reply, ClocksOk, Minute, Store!Minute, Store!Moment, Store!Absent, Absent
<1>2. CASE r.start = Absent
  <2>1. r.end = Absent
    BY <1>2 DEF Told
  <2>2. ~t.explicit /\ ~t.openEnded
    BY <1>1, <1>2, <2>1 DEF Store!Taught, Store!BothEnds
  <2> QED
    BY <1>2, <2>2 DEF Spanned, Whole
<1>3. CASE r.start # Absent /\ r.end # Absent
  <2>1. r.start < r.end
    BY <1>3 DEF Told
  <2>2. t = [endPoint |-> EndPoint, pem |-> r.pem, first |-> r.start,
             last |-> r.end - 1, explicit |-> TRUE, openEnded |-> FALSE]
    BY <1>1, <1>3, <2>1 DEF Store!Taught, Store!BothEnds
  <2>3. t.last + 1 = r.end
    BY <1>1, <2>2
  <2> QED
    BY <1>3, <2>2, <2>3 DEF Spanned, Whole
<1>4. CASE r.start # Absent /\ r.end = Absent
  <2> DEFINE last == Store!Later(r.start, now - Drift)
  <2>1. t = [endPoint |-> EndPoint, pem |-> r.pem, first |-> r.start,
             last |-> last, explicit |-> FALSE, openEnded |-> TRUE]
    BY <1>1, <1>4 DEF Store!Taught, Store!BothEnds
  <2>2. r.start <= c /\ r.sent + ahead <= c
    BY <1>4 DEF Told
  <2>3. /\ last \in Int /\ r.start <= last + Drift
        /\ last + Drift <= c + Lead - 1
    BY <1>1, <2>2 DEF Store!Later, Timely, Allowed
  <2>4. Settled(r.pem, r.start) /\ Settled(r.pem, c + Lead - 1)
    BY <1>4 DEF Told, Spanned
  <2> HIDE DEF last
  <2>5. Settled(r.pem, last + Drift)
    BY <1>1, <2>3, <2>4, SettledBetween
  <2> QED
    BY <1>4, <2>1, <2>5 DEF Spanned, Whole
<1> QED
  BY <1>2, <1>3, <1>4

\* However a span is pieced together, it is one statement of the creator's.
LEMMA WidenedIsWhole ==
  ASSUME KeysOk, ClocksOk, NEW k \in Store!HeldKey, NEW t \in Store!HeldKey,
         k.pem = t.pem, Whole(k), Whole(t)
  PROVE  Whole(Store!Widened(k, t))
<1> DEFINE w == Store!Widened(k, t)
<1>1. /\ k.first \in Int /\ t.first \in Int /\ k.last \in Int /\ t.last \in Int
      /\ Drift \in Nat
      /\ k.explicit \in BOOLEAN /\ t.explicit \in BOOLEAN
      /\ k.openEnded \in BOOLEAN /\ t.openEnded \in BOOLEAN
  BY VerificationAssumption DEF Store!HeldKey, Store!Minute
<1>2. /\ w.pem = k.pem
      /\ w.first = Store!Earlier(t.first, k.first)
      /\ w.last = Store!Later(t.last, k.last)
      /\ w.explicit = (k.explicit \/ t.explicit)
      /\ w.openEnded = (~(k.explicit \/ t.explicit) /\ (k.openEnded \/ t.openEnded))
  BY DEF Store!Widened, Store!HeldKey
<1> HIDE DEF w
<1>3. w.explicit \/ w.openEnded <=> states
  BY <1>1, <1>2 DEF Whole
<1>4. states => StartsAt(w.pem, w.first)
  <2>1. states => k.first = t.first
    BY OneStart DEF Whole
  <2> QED
    BY <1>2, <2>1 DEF Whole, Store!Earlier
<1>5. w.explicit => Followed(w.pem, w.last + 1)
  <2>1. CASE k.explicit /\ t.explicit
    <3>1. k.last + 1 = t.last + 1
      BY <2>1, OneEnd DEF Whole
    <3>2. w.last = k.last
      BY <1>1, <1>2, <3>1 DEF Store!Later
    <3> QED
      BY <1>2, <2>1, <3>2 DEF Whole
  <2>2. CASE k.explicit /\ ~t.explicit
    <3>1. Followed(k.pem, k.last + 1) /\ Settled(k.pem, t.last + Drift)
      BY <2>2 DEF Whole
    <3>2. t.last + Drift < k.last + 1
      BY <1>1, <3>1, SettledBeforeEnd
    <3>3. w.last = k.last
      BY <1>1, <1>2, <3>2 DEF Store!Later
    <3> QED
      BY <1>2, <3>1, <3>3
  <2>3. CASE ~k.explicit /\ t.explicit
    <3>1. Followed(k.pem, t.last + 1) /\ Settled(k.pem, k.last + Drift)
      BY <2>3 DEF Whole
    <3>2. k.last + Drift < t.last + 1
      BY <1>1, <3>1, SettledBeforeEnd
    <3>3. w.last = t.last
      BY <1>1, <1>2, <3>2 DEF Store!Later
    <3> QED
      BY <1>2, <3>1, <3>3
  <2> QED
    BY <1>1, <1>2, <2>1, <2>2, <2>3
<1>6. w.openEnded => Settled(w.pem, w.last + Drift)
  <2>1. w.openEnded => Settled(k.pem, k.last + Drift) /\ Settled(k.pem, t.last + Drift)
    BY <1>1, <1>2 DEF Whole
  <2>2. w.last = k.last \/ w.last = t.last
    BY <1>2 DEF Store!Later
  <2> QED
    BY <1>2, <2>1, <2>2
<1> QED
  BY <1>3, <1>4, <1>5, <1>6 DEF Whole, w

LEMMA CacheWholeStep ==
  ASSUME Timely, Allowed, TruthInv, RepliesSpanned, CacheWhole, [Next]_vars
  PROVE  CacheWhole'
<1>1. /\ KeysOk /\ ClocksOk /\ cache \subseteq Store!HeldKey
      /\ answered \subseteq Reply /\ \A k \in cache : Whole(k)
  BY InvHasClocks DEF TruthInv, TypeOK, Store!TypeOK, CacheWhole
<1>2. ASSUME \A k \in cache' : k \in Store!HeldKey /\ Whole(k)
      PROVE  CacheWhole'
  <2>1. ASSUME NEW k \in Store!HeldKey, Whole(k)
        PROVE  Whole(k)'
    BY <1>1, <2>1, WholeStays
  <2> QED
    BY <1>2, <2>1 DEF CacheWhole
<1>3. CASE cache' = cache
  BY <1>1, <1>2, <1>3
<1>4. ASSUME NEW r \in answered, Receive(r)
      PROVE  CacheWhole'
  <2> DEFINE t == Store!Taught(EndPoint, r.minute, r.pem, r.start, r.end, now)
  <2>1. PICK c \in Int : Told(r, c) /\ Spanned(r, c)
    BY DEF RepliesSpanned
  <2>2. r \in Reply /\ now <= r.sent + Latency
    BY <1>1 DEF TruthInv, RequestsTimely
  <2>3. \/ Store!HoldNothing(r.minute, r.start)
        \/ /\ Store!Teaches(r.minute, r.start, now)
           /\ Store!HoldKnown(t) \/ Store!HoldRefused(t) \/ Store!HoldNew(t)
    BY <1>4 DEF Receive, Store!Hold
  <2>4. CASE Store!HoldNothing(r.minute, r.start)
    BY <1>3, <2>4 DEF Store!HoldNothing
  <2> HIDE DEF t
  <2>5. CASE Store!Teaches(r.minute, r.start, now)
    <3>1. t \in Store!HeldKey /\ Whole(t)
      BY <1>1, <2>1, <2>2, <2>5, TaughtIsTrue, TaughtIsWhole DEF t
    <3>2. CASE Store!HoldKnown(t)
      <4>1. PICK key \in cache :
              /\ Store!SameKey(key, t)
              /\ cache' = cache \/ cache' = (cache \ {key}) \cup {Store!Widened(key, t)}
        BY <3>2 DEF Store!HoldKnown
      <4>2. Store!Widened(key, t) \in Store!HeldKey /\ Whole(Store!Widened(key, t))
        BY <1>1, <3>1, <4>1, WidenedEnds, WidenedIsWhole DEF Store!SameKey
      <4> QED
        BY <1>1, <1>2, <4>1, <4>2
    <3>3. CASE Store!HoldRefused(t)
      BY <1>3, <3>3 DEF Store!HoldRefused
    <3>4. CASE Store!HoldNew(t)
      BY <1>1, <1>2, <3>1, <3>4 DEF Store!HoldNew
    <3> QED
      BY <2>3, <2>4, <3>2, <3>3, <3>4
  <2> QED
    BY <2>3, <2>4, <2>5
<1> QED
  BY <1>3, <1>4, StoreChanges

WholeInv == TruthInv /\ Spaced /\ RepliesSpanned /\ CacheWhole

LEMMA WholeInvariant == ASSUME Timely, Allowed PROVE Spec => []WholeInv
<1>1. Init => WholeInv
  <2>1. Init => Spaced /\ RepliesSpanned /\ CacheWhole
    BY TruthInit
    DEF Init, Store!Init, Spaced, RepliesSpanned, CacheWhole
  <2> QED
    BY <2>1, TruthInit DEF WholeInv
<1>2. TruthInv /\ TruthInv' /\ WholeInv /\ [Next]_vars => WholeInv'
  BY SpacedStep, RepliesSpannedStep, CacheWholeStep DEF WholeInv, TruthInv
<1> QED
  BY <1>1, <1>2, TruthInvariant, PTL DEF Spec

\* A span held as the creator's own is its statement, edge for edge, through
\* any number of widenings.
THEOREM StatedAreWhole ==
  ASSUME Timely, Allowed PROVE Spec => []StatedSpansAreWhole
<1>1. WholeInv => StatedSpansAreWhole
  BY FollowedEnds
  DEF WholeInv, TruthInv, CacheWhole, Whole, StatedSpansAreWhole
<1> QED
  BY <1>1, WholeInvariant, PTL

-----------------------------------------------------------------------------
(* Why an identifier is reported as not matching *)

\* A key that is not the signer's was the one the creator named for the minute,
\* or for a moment before it, when the identifier had been presented.
Says(o, minute) ==
  \E pem \in Pems, at \in Int :
    /\ pem # o.signer
    /\ at <= minute
    /\ at = minute \/ o.seen <= at
    /\ Settled(pem, at)

\* The selected key is not the signer's, and what it states is so.
TriedTruly(o, t) ==
  /\ t.pem # o.signer
  /\ t.known <=> states
  /\ ~t.known => Says(o, o.minute)
  /\ t.known =>
       /\ StartsAt(t.pem, t.first)
       /\ t.last # LastMinute => Followed(t.pem, t.last + 1)
       /\ \A x \in SigningMinutes(o) : t.first <= x /\ x <= t.last => Settled(t.pem, x)

\* The minute is one that Beyond returns.
JustBeyond(o, t, minute) ==
  /\ t.known
  /\ \/ t.first > 0 /\ NearEdge(o.minute, t.first) /\ minute = t.first - 1
     \/ t.last < LastMinute /\ NearEdge(o.minute, t.last) /\ minute = t.last + 1

\* No machine within the allowance signed with the identifier's key.
Rejected(o) ==
  \A x \in SigningMinutes(o) : \E pem \in Pems : pem # o.signer /\ Settled(pem, x)

\* Each neighbour has been heard of, is being asked about or is still to be.
Heard(j, t) ==
  \A minute \in Minute : JustBeyond(j.owid, t, minute) =>
    \/ Says(j.owid, minute)
    \/ \E i \in DOMAIN j.beyond : j.beyond[i] = minute

HeardOrAsked(j, t) ==
  \A minute \in Minute : JustBeyond(j.owid, t, minute) =>
    \/ Says(j.owid, minute)
    \/ minute = j.minute
    \/ \E i \in DOMAIN j.beyond : j.beyond[i] = minute

JobJudged(j) ==
  j.missed = {} =>
    /\ j.phase # "done" =>
         /\ j.tried = {} => j.minute = j.owid.minute
         /\ \A t \in j.tried : TriedTruly(j.owid, t) /\ HeardOrAsked(j, t)
    /\ j.phase = "done" /\ j.status = "SIGNATURE_INVALID" => Rejected(j.owid)

JobsJudged == \A v \in Verifiers : JobJudged(job[v])

LEMMA RejectedIsNotGenuine ==
  ASSUME KeysOk, NEW o \in Owid, Rejected(o)
  PROVE  ~Genuine(o)
<1>1. \A x \in SigningMinutes(o) : x \in Int
  BY VerificationAssumption DEF SigningMinutes, Owid, Minute, Store!Minute
<1>2. ASSUME NEW x \in SigningMinutes(o)
      PROVE  o.signer \notin InForceAt(x)
  <2>1. PICK pem \in Pems : pem # o.signer /\ Settled(pem, x)
    BY DEF Rejected
  <2>2. InForceAt(x) = {pem}
    BY <1>1, <2>1, SettledInForce
  <2> QED
    BY <2>1, <2>2
<1> QED
  BY <1>2 DEF Genuine

\* A minute before the selected key starts, but not by more than the allowance,
\* is a minute of the key before it.
LEMMA BeforeIsRejected ==
  ASSUME Allowed, KeysOk, ClocksOk, Spaced, NEW pem, NEW first \in Int,
         NEW o \in Owid, StartsAt(pem, first), Says(o, first - 1),
         NEW x \in Int, x < first, x <= o.seen, first <= x + SigningSkew
  PROVE  \E other \in Pems : other # o.signer /\ Settled(other, x)
<1>1. /\ o.seen \in Int /\ SigningSkew \in Nat /\ Period \in Nat /\ Lead \in Nat
      /\ CreatorNow \in Int
  BY VerificationAssumption DEF Owid, ClocksOk, CreatorNow, Minute, Store!Minute
<1>2. PICK other \in Pems, at \in Int :
        other # o.signer /\ at <= first - 1 /\ x <= at /\ Settled(other, at)
  BY <1>1 DEF Says
<1>3. PICK l \in DOMAIN keys :
        /\ keys[l].pem = other
        /\ keys[l].start <= at
        /\ \A j \in DOMAIN keys : j > l => at < keys[j].start
        /\ l = Len(keys) => at < CreatorNow + Lead
  BY <1>2 DEF Settled
<1>4. PICK i \in DOMAIN keys : keys[i].start = first
  BY DEF StartsAt
<1>5. \A j \in DOMAIN keys : j \in Int /\ keys[j].start \in Nat
  BY KeyFacts
<1>6. l < i
  <2>1. keys[l].start < keys[i].start
    BY <1>2, <1>3, <1>4, <1>5
  <2> QED
    BY <1>5, <2>1 DEF KeysOk
<1>7. keys[l].start <= x
  BY <1>1, <1>4, <1>5, <1>6 DEF Spaced, Allowed
<1>8. \A j \in DOMAIN keys : j > l => x < keys[j].start
  BY <1>2, <1>3, <1>5
<1>9. l = Len(keys) => x < CreatorNow + Lead
  BY <1>1, <1>2, <1>3
<1>10. Settled(other, x)
  BY <1>3, <1>7, <1>8, <1>9 DEF Settled
<1> QED
  BY <1>2, <1>10

\* A minute after it ends is one of the key after it.
LEMMA AfterIsRejected ==
  ASSUME Allowed, KeysOk, ClocksOk, Spaced, NEW pem, NEW last \in Int,
         NEW o \in Owid, Followed(pem, last + 1), Says(o, last + 1),
         NEW x \in Int, last < x, x <= o.seen, x <= last + SigningSkew,
         o.seen <= CreatorNow
  PROVE  \E other \in Pems : other # o.signer /\ Settled(other, x)
<1>1. /\ o.seen \in Int /\ SigningSkew \in Nat /\ Period \in Nat
      /\ Lead \in Nat \ {0} /\ CreatorNow \in Int
  BY VerificationAssumption DEF Owid, ClocksOk, CreatorNow, Minute, Store!Minute
<1>2. PICK other \in Pems : other # o.signer /\ Settled(other, last + 1)
  BY <1>1 DEF Says
<1>3. PICK l \in DOMAIN keys :
        /\ keys[l].pem = other
        /\ keys[l].start <= last + 1
        /\ \A j \in DOMAIN keys : j > l => last + 1 < keys[j].start
  BY <1>2 DEF Settled
<1>4. PICK i \in DOMAIN keys : i + 1 \in DOMAIN keys /\ keys[i + 1].start = last + 1
  BY DEF Followed
<1>5. \A j \in DOMAIN keys : j \in Int /\ keys[j].start \in Nat
  BY KeyFacts
<1>6. keys[l].start = last + 1
  <2>1. ~ i + 1 > l
    BY <1>3, <1>4, <1>5
  <2>2. i + 1 < l => keys[i + 1].start < keys[l].start
    BY <1>4 DEF KeysOk
  <2> QED
    BY <1>3, <1>4, <1>5, <2>1, <2>2
<1>7. \A j \in DOMAIN keys : j > l => x < keys[j].start
  <2>1. \A j \in DOMAIN keys : j > l => keys[l].start + Period <= keys[j].start
    BY <1>5 DEF Spaced
  <2> QED
    BY <1>1, <1>5, <1>6, <2>1 DEF Allowed
<1>8. keys[l].start <= x /\ x < CreatorNow + Lead
  BY <1>1, <1>6
<1>9. Settled(other, x)
  BY <1>3, <1>7, <1>8 DEF Settled
<1> QED
  BY <1>2, <1>9

\* Where the selected key covers the identifier's minute, it and its neighbours
\* are all the keys a machine within the allowance can have signed with.
LEMMA TriedIsRejected ==
  ASSUME Allowed, KeysOk, ClocksOk, Spaced, NEW o \in Owid, NEW t \in Store!KeyAnswer,
         TriedTruly(o, t), t.known => Store!Covers(t, o.minute),
         \A minute \in Minute : JustBeyond(o, t, minute) => Says(o, minute),
         o.seen <= CreatorNow
  PROVE  Rejected(o)
<1>1. /\ t.first \in 0 .. LastMinute /\ t.last \in 0 .. LastMinute
      /\ o.minute \in 0 .. LastMinute /\ o.seen \in Int
      /\ SigningSkew \in Nat /\ Drift \in Nat /\ LastMinute \in Nat
      /\ Minute = 0 .. LastMinute /\ SigningSkew <= Drift
  BY VerificationAssumption DEF Owid, Store!KeyAnswer, Minute, Store!Minute, Allowed
<1>2. CASE t.known
  <2>1. /\ states /\ t.first <= o.minute /\ o.minute <= t.last
        /\ StartsAt(t.pem, t.first)
        /\ t.last # LastMinute => Followed(t.pem, t.last + 1)
    BY <1>2 DEF TriedTruly, Store!Covers
  <2> SUFFICES ASSUME NEW x \in SigningMinutes(o)
               PROVE  \E pem \in Pems : pem # o.signer /\ Settled(pem, x)
    BY DEF Rejected
  <2>2. /\ x \in 0 .. LastMinute /\ x <= o.seen
        /\ x - o.minute <= SigningSkew /\ o.minute - x <= SigningSkew
    BY <1>1, <2>1 DEF SigningMinutes
  <2>3. CASE t.first <= x /\ x <= t.last
    BY <1>2, <2>3 DEF TriedTruly, Store!KeyAnswer
  <2>4. CASE x < t.first
    <3>1. t.first - 1 \in Minute /\ t.first > 0 /\ NearEdge(o.minute, t.first)
      BY <1>1, <2>1, <2>2, <2>4 DEF NearEdge
    <3>2. Says(o, t.first - 1)
      BY <1>2, <3>1 DEF JustBeyond
    <3>3. t.first <= x + SigningSkew /\ x \in Int /\ t.first \in Int
      BY <1>1, <2>1, <2>2
    <3> QED
      BY <2>1, <2>2, <2>4, <3>2, <3>3, BeforeIsRejected
  <2>5. CASE t.last < x
    <3>1. /\ t.last + 1 \in Minute /\ t.last < LastMinute /\ t.last # LastMinute
          /\ NearEdge(o.minute, t.last)
      BY <1>1, <2>1, <2>2, <2>5 DEF NearEdge
    <3>2. Says(o, t.last + 1)
      BY <1>2, <3>1 DEF JustBeyond
    <3>3. x <= t.last + SigningSkew /\ x \in Int /\ t.last \in Int
      BY <1>1, <2>1, <2>2
    <3> QED
      BY <2>1, <2>2, <2>5, <3>1, <3>2, <3>3, AfterIsRejected
  <2> QED
    BY <1>1, <2>2, <2>3, <2>4, <2>5
<1>3. CASE ~t.known
  <2>1. ~states /\ Says(o, o.minute)
    BY <1>3 DEF TriedTruly
  <2>2. \A x \in SigningMinutes(o) : x = o.minute /\ x <= o.seen
    BY <2>1 DEF SigningMinutes
  <2>3. PICK pem \in Pems, at \in Int :
          /\ pem # o.signer /\ at <= o.minute
          /\ at = o.minute \/ o.seen <= at
          /\ Settled(pem, at)
    BY <2>1 DEF Says
  <2>4. o.minute <= o.seen => at = o.minute
    BY <1>1, <2>3
  <2> QED
    BY <2>2, <2>3, <2>4 DEF Rejected
<1> QED
  BY <1>2, <1>3

LEMMA BeyondHasEdges ==
  ASSUME NEW minute \in Minute, NEW t \in Store!KeyAnswer, NEW o, o.minute = minute,
         NEW n \in Minute, JustBeyond(o, t, n)
  PROVE  \E i \in DOMAIN Beyond(minute, t) : Beyond(minute, t)[i] = n
<1>1. /\ t.first \in Int /\ t.last \in Int
  BY VerificationAssumption DEF Store!KeyAnswer, Store!Minute
<1> DEFINE before == IF t.first > 0 /\ NearEdge(minute, t.first)
                       THEN <<t.first - 1>> ELSE <<>>
           after == IF t.last < LastMinute /\ NearEdge(minute, t.last)
                      THEN <<t.last + 1>> ELSE <<>>
<1>2. Beyond(minute, t) = before \o after
  BY DEF Beyond, JustBeyond
<1>3. before \in Seq(Int) /\ after \in Seq(Int)
  <2>1. <<>> \in Seq(Int) /\ <<t.first - 1>> \in Seq(Int) /\ <<t.last + 1>> \in Seq(Int)
    BY <1>1
  <2> QED
    BY <2>1
<1>4. \/ Len(before) = 1 /\ before[1] = n
      \/ Len(after) = 1 /\ after[1] = n
  BY DEF JustBeyond
<1> HIDE DEF before, after
<1>5. /\ Len(before) \in Nat /\ Len(after) \in Nat
      /\ Len(before \o after) = Len(before) + Len(after)
      /\ \A i \in 1 .. Len(before) + Len(after) :
           (before \o after)[i] = IF i <= Len(before) THEN before[i]
                                  ELSE after[i - Len(before)]
      /\ DOMAIN (before \o after) = 1 .. Len(before) + Len(after)
  BY <1>3, ConcatProperties, LenProperties
<1>6. CASE Len(before) = 1 /\ before[1] = n
  <2>1. 1 \in DOMAIN (before \o after) /\ (before \o after)[1] = n
    BY <1>5, <1>6
  <2> QED
    BY <1>2, <2>1
<1>7. CASE Len(after) = 1 /\ after[1] = n
  <2> DEFINE i == Len(before) + 1
  <2>1. i \in 1 .. Len(before) + Len(after) /\ ~ i <= Len(before) /\ i - Len(before) = 1
    BY <1>5, <1>7
  <2>2. i \in DOMAIN (before \o after) /\ (before \o after)[i] = n
    BY <1>5, <1>7, <2>1
  <2> QED
    BY <1>2, <2>2
<1> QED
  BY <1>4, <1>6, <1>7

-----------------------------------------------------------------------------
(* What a verifier concludes from an answer, and from the store *)

LEMMA NextNeighbourJudged ==
  ASSUME Allowed, KeysOk, ClocksOk, Spaced, NEW j \in Job,
         j.phase # "done", j.tried # {}, j.owid.seen <= CreatorNow,
         j.missed = {} => \A t \in j.tried : TriedTruly(j.owid, t) /\ Heard(j, t)
  PROVE  JobJudged(NextNeighbour(j))
<1>1. CASE j.beyond # <<>>
  <2> DEFINE n == NextNeighbour(j)
  <2>1. /\ n.owid = j.owid /\ n.minute = Head(j.beyond) /\ n.beyond = Tail(j.beyond)
        /\ n.phase = "looking" /\ n.tried = j.tried /\ n.missed = j.missed
    BY <1>1 DEF NextNeighbour, Job
  <2>2. ASSUME NEW i \in DOMAIN j.beyond
        PROVE  \/ j.beyond[i] = n.minute
               \/ \E k \in DOMAIN n.beyond : n.beyond[k] = j.beyond[i]
    <3>1. /\ Head(j.beyond) = j.beyond[1] /\ Tail(j.beyond) \in Seq(Minute)
          /\ Len(j.beyond) \in Nat /\ i \in 1 .. Len(j.beyond)
          /\ Len(Tail(j.beyond)) = Len(j.beyond) - 1
          /\ \A k \in 1 .. Len(Tail(j.beyond)) : Tail(j.beyond)[k] = j.beyond[k + 1]
          /\ DOMAIN Tail(j.beyond) = 1 .. Len(Tail(j.beyond))
      BY <1>1, JobNumbers, HeadTailProperties, LenProperties, EmptySeq
    <3>2. CASE i = 1
      BY <2>1, <3>1, <3>2
    <3>3. CASE i # 1
      <4>1. i - 1 \in 1 .. Len(Tail(j.beyond)) /\ (i - 1) + 1 = i
        BY <3>1, <3>3
      <4> QED
        BY <2>1, <3>1, <4>1
    <3> QED
      BY <3>2, <3>3
  <2> HIDE DEF n
  <2>3. ASSUME j.missed = {}, NEW t \in j.tried
        PROVE  TriedTruly(n.owid, t) /\ HeardOrAsked(n, t)
    <3>1. TriedTruly(j.owid, t) /\ Heard(j, t)
      BY <2>3
    <3> QED
      BY <2>1, <2>2, <3>1 DEF Heard, HeardOrAsked
  <2>4. JobJudged(n)
    BY <2>1, <2>3 DEF JobJudged
  <2> QED
    BY <2>4 DEF n
<1>2. CASE j.beyond = <<>>
  <2> DEFINE n == NextNeighbour(j)
  <2>1. /\ n.owid = j.owid /\ n.phase = "done" /\ n.missed = j.missed
        /\ n.status = "SIGNATURE_INVALID" =>
             ~ \E t \in j.tried : t.known /\ ~Store!Covers(t, j.owid.minute)
    BY <1>2 DEF NextNeighbour, Done, Job
  <2> HIDE DEF n
  <2>2. ASSUME n.missed = {}, n.status = "SIGNATURE_INVALID"
        PROVE  Rejected(n.owid)
    <3>1. PICK t \in j.tried : TriedTruly(j.owid, t) /\ Heard(j, t)
      BY <2>1, <2>2
    <3>2. t \in Store!KeyAnswer /\ j.owid \in Owid
      BY DEF Job
    <3>3. t.known => Store!Covers(t, j.owid.minute)
      BY <2>1, <2>2
    <3>4. \A minute \in Minute : JustBeyond(j.owid, t, minute) => Says(j.owid, minute)
      <4>1. DOMAIN j.beyond = {}
        BY <1>2, EmptySeq, LenProperties
      <4> QED
        BY <3>1, <4>1 DEF Heard
    <3> QED
      BY <2>1, <3>1, <3>2, <3>3, <3>4, TriedIsRejected
  <2>3. JobJudged(n)
    BY <2>1, <2>2 DEF JobJudged
  <2> QED
    BY <2>3 DEF n
<1> QED
  BY <1>1, <1>2

\* An answer is sound for a verifier when the selected key is truly tried and a
\* neighbour is truly another key's minute.
Sound(j, answer) ==
  answer.pem # j.owid.signer =>
    /\ j.tried = {} => TriedTruly(j.owid, answer)
    /\ j.tried # {} => Says(j.owid, j.minute)

LEMMA GivenJudged ==
  ASSUME Allowed, KeysOk, ClocksOk, Spaced, NEW j \in Job, NEW answer \in Store!KeyAnswer,
         j.phase # "done", j.owid.seen <= CreatorNow, JobJudged(j),
         j.missed = {} => Sound(j, answer)
  PROVE  JobJudged(Given(j, answer))
<1>1. CASE answer.pem = j.owid.signer
  <2>1. /\ Given(j, answer).phase = "done"
        /\ Given(j, answer).status = "SIGNATURE_VALID"
    BY <1>1 DEF Given, Done, Job
  <2> QED
    BY <2>1 DEF JobJudged
<1>2. CASE answer.pem # j.owid.signer /\ j.tried = {}
  <2> DEFINE n == [j EXCEPT !.tried = {answer}, !.beyond = Beyond(j.owid.minute, answer)]
  <2>1. Beyond(j.owid.minute, answer) \in Seq(Minute)
    BY BeyondIsMinutes DEF Job, Owid
  <2>2. n \in Job
    BY <2>1 DEF Job
  <2>3. /\ n.owid = j.owid /\ n.phase = j.phase /\ n.tried = {answer}
        /\ n.beyond = Beyond(j.owid.minute, answer) /\ n.missed = j.missed
    BY DEF Job
  <2> HIDE DEF n
  <2>4. j.owid.minute \in Minute
    BY DEF Job, Owid
  <2>5. Heard(n, answer)
    BY <2>3, <2>4, BeyondHasEdges DEF Heard
  <2>6. n.missed = {} => \A t \in n.tried : TriedTruly(n.owid, t) /\ Heard(n, t)
    BY <1>2, <2>3, <2>5 DEF Sound
  <2>7. JobJudged(NextNeighbour(n))
    BY <2>2, <2>3, <2>6, NextNeighbourJudged
  <2> QED
    BY <1>2, <2>7 DEF Given, n
<1>3. CASE answer.pem # j.owid.signer /\ j.tried # {}
  <2>1. j.missed = {} => \A t \in j.tried : TriedTruly(j.owid, t) /\ Heard(j, t)
    BY <1>3 DEF JobJudged, Sound, HeardOrAsked, Heard
  <2>2. JobJudged(NextNeighbour(j))
    BY <1>3, <2>1, NextNeighbourJudged
  <2> QED
    BY <1>3, <2>2 DEF Given
<1> QED
  BY <1>1, <1>2, <1>3

LEMMA DeniedJudged ==
  ASSUME Allowed, KeysOk, ClocksOk, Spaced, NEW j \in Job,
         NEW status \in {"KEY_UNAVAILABLE", "INVALID_KEY"},
         j.phase # "done", j.owid.seen <= CreatorNow
  PROVE  JobJudged(Denied(j, status))
<1>1. CASE j.tried = {}
  <2>1. Denied(j, status).status = status
    BY <1>1 DEF Denied, Done, Job
  <2>2. Denied(j, status).phase = "done"
    BY <1>1 DEF Denied, Done, Job
  <2> QED
    BY <2>1, <2>2 DEF JobJudged
<1>2. CASE j.tried # {}
  <2> DEFINE n == [j EXCEPT !.missed = j.missed \cup {"failed"}]
  <2>1. n \in Job /\ n.phase = j.phase /\ n.tried = j.tried /\ n.owid = j.owid
        /\ n.missed # {}
    BY DEF Job
  <2>2. Denied(j, status) = NextNeighbour(n)
    BY <1>2 DEF Denied
  <2> HIDE DEF n
  <2>3. JobJudged(NextNeighbour(n))
    BY <1>2, <2>1, NextNeighbourJudged
  <2> QED
    BY <2>2, <2>3
<1> QED
  BY <1>1, <1>2

\* A creator's answer is about the minute asked, or about a moment after the
\* identifier was presented if the request was made after that.
LEMMA ToldSays ==
  ASSUME ClocksOk, NEW r \in Reply, NEW c \in Int, Told(r, c), NEW o \in Owid,
         o.seen <= r.sent + ahead, r.pem # o.signer
  PROVE  Says(o, r.minute)
<1>1. /\ r.minute \in Int /\ r.sent \in Int /\ ahead \in Int /\ o.seen \in Int
      /\ r.pem \in Pems
  BY VerificationAssumption DEF Reply, Owid, ClocksOk, Minute, Store!Minute
<1> DEFINE at == Store!Earlier(r.minute, c)
<1>2. at \in Int /\ at <= r.minute /\ (at = r.minute \/ o.seen <= at)
  BY <1>1 DEF Store!Earlier, Told
<1>3. Settled(r.pem, at)
  BY DEF Told
<1> HIDE DEF at
<1> QED
  BY <1>1, <1>2, <1>3 DEF Says

LEMMA ReplyIsSound ==
  ASSUME Timely, Allowed, TruthInv, RepliesSpanned, NEW r \in answered, NEW j \in Job,
         JobFine(j), j.phase # "done", JobJudged(j), j.minute = r.minute,
         Noting(j, r).missed = {}
  PROVE  Sound(j, Store!Stated(r.pem, r.start, r.end))
<1> DEFINE t == Store!Stated(r.pem, r.start, r.end)
<1>1. /\ KeysOk /\ ClocksOk /\ states \in BOOLEAN /\ r \in Reply /\ j.owid \in Owid
      /\ now <= r.sent + Latency /\ j.owid.seen <= CreatorNow
  BY InvHasClocks DEF TruthInv, TypeOK, RequestsTimely, JobFine, Job
<1>2. /\ r.sent \in Int /\ now \in Int /\ ahead \in Int /\ j.owid.seen \in Int
      /\ r.start \in -1 .. LastMinute /\ r.end \in -1 .. LastMinute
      /\ Lead \in Nat /\ Latency \in Nat /\ Drift \in Nat /\ LastMinute \in Nat
      /\ ClockSkew \in Nat /\ Absent = -1 /\ Store!Absent = -1
  BY <1>1, VerificationAssumption
  DEF Reply, Owid, ClocksOk, Minute, Store!Minute, Store!Moment, Store!Absent, Absent
<1>3. PICK c \in Int : Told(r, c) /\ Spanned(r, c)
  BY DEF RepliesSpanned
<1>4. j.missed = {} /\ (j.tried # {} \/ ~states => j.owid.seen <= r.sent + ahead)
  <2>1. CASE (j.tried # {} \/ ~states) /\ r.sent + ahead < j.owid.seen
    <3>1. "older" \in Noting(j, r).missed
      BY <2>1 DEF Noting, Job
    <3> QED
      BY <3>1
  <2>2. CASE ~((j.tried # {} \/ ~states) /\ r.sent + ahead < j.owid.seen)
    <3>1. Noting(j, r) = j
      BY <2>2 DEF Noting
    <3> QED
      BY <1>2, <2>2, <3>1
  <2> QED
    BY <2>1, <2>2
<1>5. t.pem = r.pem /\ (t.known <=> r.start # Absent)
  BY <1>2 DEF Store!Stated, Store!Unstated, Store!StatedSpan
<1> SUFFICES ASSUME r.pem # j.owid.signer
             PROVE  /\ j.tried = {} => TriedTruly(j.owid, t)
                    /\ j.tried # {} => Says(j.owid, j.minute)
  BY <1>5 DEF Sound
<1>6. j.tried # {} \/ ~states => Says(j.owid, j.minute)
  BY <1>1, <1>3, <1>4, ToldSays
<1>7. ASSUME j.tried = {}, r.start = Absent
      PROVE  TriedTruly(j.owid, t)
  <2>1. ~states /\ ~t.known
    BY <1>3, <1>5, <1>7 DEF Spanned
  <2>2. j.minute = j.owid.minute
    BY <1>4, <1>7 DEF JobJudged
  <2> QED
    BY <1>5, <1>6, <2>1, <2>2 DEF TriedTruly
<1>8. ASSUME j.tried = {}, r.start # Absent
      PROVE  TriedTruly(j.owid, t)
  <2>1. /\ states /\ t.known /\ t.first = r.start
        /\ t.last = IF r.end = Absent THEN LastMinute ELSE r.end - 1
    BY <1>2, <1>3, <1>8
    DEF Spanned, Told, Store!Stated, Store!BothEnds, Store!StatedSpan
  <2>2. StartsAt(t.pem, t.first)
    BY <1>3, <1>5, <1>8, <2>1 DEF Spanned
  <2>3. t.last # LastMinute => Followed(t.pem, t.last + 1)
    BY <1>2, <1>3, <1>5, <2>1 DEF Spanned
  <2>4. ASSUME NEW x \in SigningMinutes(j.owid), t.first <= x, x <= t.last
        PROVE  Settled(t.pem, x)
    <3>1. x \in Int /\ x <= j.owid.seen
      BY <1>1, <2>1, VerificationAssumption DEF SigningMinutes, Minute, Store!Minute
    <3>2. CASE r.end = Absent
      <4>1. x <= c + Lead - 1
        BY <1>1, <1>2, <1>3, <3>1 DEF Told, CreatorNow, Timely, Allowed
      <4>2. Settled(r.pem, r.start) /\ Settled(r.pem, c + Lead - 1)
        BY <1>3, <1>8, <3>2 DEF Told, Spanned
      <4> QED
        BY <1>1, <1>2, <1>5, <2>1, <2>4, <3>1, <4>1, <4>2, SettledBetween
    <3>3. CASE r.end # Absent
      <4>1. Settled(r.pem, r.start) /\ Settled(r.pem, r.end - 1)
        BY <1>3, <1>8, <3>3 DEF Told
      <4> QED
        BY <1>1, <1>2, <1>5, <2>1, <2>4, <3>1, <3>3, <4>1, SettledBetween
    <3> QED
      BY <3>2, <3>3
  <2> HIDE DEF t
  <2> QED
    BY <1>5, <2>1, <2>2, <2>3, <2>4 DEF TriedTruly
<1> QED
  BY <1>6, <1>7, <1>8

LEMMA HeldIsSound ==
  ASSUME Timely, Allowed, TruthInv, CacheWhole, NEW k \in cache, NEW j \in Job,
         JobFine(j), j.phase # "done", JobJudged(j), j.missed = {},
         Store!Covers(k, j.minute)
  PROVE  Sound(j, Store!StatedFor(k))
<1> DEFINE t == Store!StatedFor(k)
<1>1. /\ KeysOk /\ ClocksOk /\ states \in BOOLEAN /\ k \in Store!HeldKey
      /\ Settled(k.pem, k.first) /\ Settled(k.pem, k.last) /\ Whole(k)
      /\ j.owid \in Owid /\ j.minute \in Int
  BY InvHasClocks, JobNumbers
  DEF TruthInv, TypeOK, Store!TypeOK, CacheTrue, CacheWhole, Job
<1>2. /\ k.first \in Int /\ k.last \in Int /\ k.pem \in Pems
      /\ k.first <= j.minute /\ j.minute <= k.last
      /\ SigningSkew \in Nat /\ Drift \in Nat /\ j.owid.minute \in Int
      /\ k.explicit \in BOOLEAN /\ k.openEnded \in BOOLEAN
  BY <1>1, JobNumbers, VerificationAssumption DEF Store!HeldKey, Store!Minute, Store!Covers
<1>3. /\ t.pem = k.pem
      /\ t.known <=> k.explicit \/ k.openEnded
      /\ t.known => t.first = k.first
      /\ k.explicit => t.last = k.last
      /\ ~k.explicit /\ k.openEnded => t.last = LastMinute
  BY DEF Store!StatedFor, Store!Unstated, Store!StatedSpan
<1> HIDE DEF t
<1>4. Settled(k.pem, j.minute)
  BY <1>1, <1>2, SettledBetween
<1> SUFFICES ASSUME k.pem # j.owid.signer
             PROVE  /\ j.tried = {} => TriedTruly(j.owid, t)
                    /\ j.tried # {} => Says(j.owid, j.minute)
  BY <1>3 DEF Sound, t
<1>5. Says(j.owid, j.minute)
  BY <1>1, <1>2, <1>4 DEF Says
<1>6. ASSUME j.tried = {}
      PROVE  TriedTruly(j.owid, t)
  <2>1. j.minute = j.owid.minute
    BY <1>6 DEF JobJudged
  <2>2. t.known => StartsAt(t.pem, t.first)
    BY <1>1, <1>3 DEF Whole
  <2>3. t.known /\ t.last # LastMinute => Followed(t.pem, t.last + 1)
    BY <1>1, <1>2, <1>3 DEF Whole
  <2>4. ASSUME t.known, NEW x \in SigningMinutes(j.owid), t.first <= x, x <= t.last
        PROVE  Settled(t.pem, x)
    <3>1. states /\ x \in Int /\ x - j.owid.minute <= SigningSkew
      BY <1>1, <1>3, <2>4, VerificationAssumption
      DEF SigningMinutes, Whole, Minute, Store!Minute
    <3>2. CASE k.explicit
      BY <1>1, <1>2, <1>3, <2>4, <3>1, <3>2, SettledBetween
    <3>3. CASE ~k.explicit
      <4>1. Settled(k.pem, k.last + Drift) /\ k.last + Drift \in Int
        BY <1>1, <1>2, <1>3, <2>4, <3>3 DEF Whole
      <4>2. k.first <= x /\ x <= k.last + Drift
        BY <1>2, <1>3, <2>1, <2>4, <3>1 DEF Allowed
      <4> QED
        BY <1>1, <1>2, <1>3, <3>1, <4>1, <4>2, SettledBetween
    <3> QED
      BY <3>2, <3>3
  <2> QED
    BY <1>1, <1>3, <1>5, <2>1, <2>2, <2>3, <2>4 DEF TriedTruly, Whole
<1> QED
  BY <1>5, <1>6

-----------------------------------------------------------------------------
(* The inductive invariant *)

LEMMA JobJudgedStays ==
  ASSUME KeysOk, ClocksOk, [Next]_vars, NEW j \in Job, JobJudged(j)
  PROVE  JobJudged(j)'
<1>1. ASSUME NEW minute, Says(j.owid, minute)
      PROVE  Says(j.owid, minute)'
  BY <1>1, SettledStays DEF Says
<1>2. SigningMinutes(j.owid)' = SigningMinutes(j.owid)
  BY StatesStay DEF SigningMinutes
<1>3. \A x \in SigningMinutes(j.owid) : x \in Int
  BY VerificationAssumption DEF SigningMinutes, Job, Owid, Minute, Store!Minute
<1>4. Rejected(j.owid) => Rejected(j.owid)'
  BY <1>2, <1>3, SettledStays DEF Rejected
<1>5. ASSUME NEW t, TriedTruly(j.owid, t)
      PROVE  TriedTruly(j.owid, t)'
  <2>1. \A x \in Int : Settled(t.pem, x) => Settled(t.pem, x)'
    BY SettledStays
  <2>2. /\ StartsAt(t.pem, t.first) => StartsAt(t.pem, t.first)'
        /\ Followed(t.pem, t.last + 1) => Followed(t.pem, t.last + 1)'
    BY EdgesStay
  <2>3. states' = states
    BY StatesStay
  <2> QED
    BY <1>1, <1>2, <1>3, <1>5, <2>1, <2>2, <2>3 DEF TriedTruly
<1>6. ASSUME NEW t, HeardOrAsked(j, t)
      PROVE  HeardOrAsked(j, t)'
  BY <1>1, <1>6 DEF HeardOrAsked, JustBeyond
<1> QED
  BY <1>4, <1>5, <1>6 DEF JobJudged

\* What was judged depends on neither the phase nor what was missed, before the
\* end.
LEMMA JudgedAgain ==
  ASSUME NEW j, NEW n, JobJudged(j), j.phase # "done", n.phase # "done",
         n.owid = j.owid, n.minute = j.minute, n.tried = j.tried, n.beyond = j.beyond,
         n.missed = {} => j.missed = {}
  PROVE  JobJudged(n)
<1>1. \A t \in j.tried : HeardOrAsked(j, t) => HeardOrAsked(n, t)
  BY DEF HeardOrAsked
<1> QED
  BY <1>1 DEF JobJudged

LEMMA JobsJudgedStep ==
  ASSUME Timely, Allowed, WholeInv, JobsFine, JobsJudged, [Next]_vars
  PROVE  JobsJudged'
<1>1. /\ job \in [Verifiers -> Job] /\ job' \in [Verifiers -> Job]
      /\ answered \subseteq Reply /\ cache \subseteq Store!HeldKey
      /\ KeysOk /\ ClocksOk /\ Spaced /\ TruthInv /\ RepliesSpanned /\ CacheWhole
      /\ \A v \in Verifiers : /\ job[v] \in Job
                              /\ JobFine(job[v]) /\ JobJudged(job[v])
                              /\ job[v].phase # "done" => job[v].owid.seen <= CreatorNow
  BY JobTypeStep, InvHasClocks
  DEF WholeInv, TruthInv, TypeOK, Store!TypeOK, JobsFine, JobsJudged, JobFine
<1>2. CASE \A v \in Verifiers : JobJudged(job'[v])
  <2>1. ASSUME NEW j \in Job, JobJudged(j)
        PROVE  JobJudged(j)'
    BY <1>1, <2>1, JobJudgedStays
  <2> QED
    BY <1>1, <1>2, <2>1 DEF JobsJudged
<1>3. ASSUME NEW v \in Verifiers, NEW minute \in Minute, NEW signer \in Pems,
             Verify(v, minute, signer) \/ Refuse(v, minute, signer)
      PROVE  \A u \in Verifiers : JobJudged(job'[u])
  <2> DEFINE n == NewJob(minute, signer, CreatorNow)
             d == Done(n, "KEY_UNAVAILABLE")
  <2>1. n.owid.minute = minute /\ n.minute = minute /\ n.tried = {} /\ n.phase = "looking"
    BY DEF NewJob
  <2>2. d.status = "KEY_UNAVAILABLE" /\ d.phase = "done"
    BY DEF NewJob, Done
  <2>3. job' = [job EXCEPT ![v] = n] \/ job' = [job EXCEPT ![v] = d]
    BY <1>3 DEF Verify, Refuse
  <2> HIDE DEF n, d
  <2>4. JobJudged(n) /\ JobJudged(d)
    BY <2>1, <2>2 DEF JobJudged
  <2> QED
    BY <1>1, <2>3, <2>4
<1>4. ASSUME NEW v \in Verifiers, FindHeld(v)
      PROVE  \A u \in Verifiers : JobJudged(job'[u])
  <2>1. PICK key \in cache :
          /\ Store!Covers(key, job[v].minute)
          /\ job' = [job EXCEPT ![v] = Given(job[v], Store!StatedFor(key))]
    BY <1>4 DEF FindHeld, Held, Store!HeldFor
  <2>2. Store!StatedFor(key) \in Store!KeyAnswer
    BY <1>1, VerificationAssumption
    DEF Store!StatedFor, Store!KeyAnswer, Store!HeldKey, Store!Minute,
        Store!Unstated, Store!StatedSpan
  <2>3. job[v].phase # "done"
    BY <1>4 DEF FindHeld
  <2>4. job[v].missed = {} => Sound(job[v], Store!StatedFor(key))
    BY <1>1, <2>1, <2>3, HeldIsSound
  <2>5. JobJudged(Given(job[v], Store!StatedFor(key)))
    BY <1>1, <2>2, <2>3, <2>4, GivenJudged
  <2> QED
    BY <1>1, <2>1, <2>5
<1>5. ASSUME NEW v \in Verifiers, Ask(v)
      PROVE  \A u \in Verifiers : JobJudged(job'[u])
  <2> DEFINE n == [job[v] EXCEPT !.phase = "waiting"]
  <2>1. /\ n.owid = job[v].owid /\ n.minute = job[v].minute /\ n.phase = "waiting"
        /\ n.beyond = job[v].beyond /\ n.tried = job[v].tried /\ n.missed = job[v].missed
        /\ job[v].phase = "looking"
    BY <1>1, <1>5 DEF Ask, Job
  <2>2. job' = [job EXCEPT ![v] = n]
    BY <1>5 DEF Ask
  <2> HIDE DEF n
  <2>3. JobJudged(n)
    BY <1>1, <2>1, JudgedAgain
  <2> QED
    BY <1>1, <2>2, <2>3
<1>6. ASSUME NEW r \in answered, Receive(r)
      PROVE  \A u \in Verifiers : JobJudged(job'[u])
  <2> SUFFICES ASSUME NEW u \in Verifiers
               PROVE  JobJudged(job'[u])
    OBVIOUS
  <2> DEFINE n == Noting(job[u], r)
             t == Store!Stated(r.pem, r.start, r.end)
  <2>1. /\ n \in Job /\ n.owid = job[u].owid /\ n.minute = job[u].minute
        /\ n.phase = job[u].phase /\ n.beyond = job[u].beyond /\ n.status = job[u].status
        /\ n.tried = job[u].tried
        /\ n.missed = {} => job[u].missed = {}
    BY <1>1 DEF Noting, Job
  <2>2. t \in Store!KeyAnswer
    BY <1>1, VerificationAssumption
    DEF Reply, Store!Stated, Store!KeyAnswer, Store!Minute, Store!Moment,
        Store!Unstated, Store!StatedSpan, Store!BothEnds, Store!Absent, Minute
  <2>3. CASE u \in Waiting(r.minute)
    <3>1. job[u].phase # "done" /\ job[u].minute = r.minute
      BY <2>3 DEF Waiting
    <3>2. job'[u] = Given(n, t)
      BY <1>6, <2>3 DEF Receive
    <3>3. n.missed = {} => Sound(job[u], t)
      BY <1>1, <3>1, ReplyIsSound
    <3> HIDE DEF n, t
    <3>4. n.missed = {} => Sound(n, t)
      BY <2>1, <3>3 DEF Sound
    <3>5. JobJudged(n)
      BY <1>1, <2>1, <3>1, JudgedAgain
    <3>6. n.owid.seen <= CreatorNow /\ n.phase # "done"
      BY <1>1, <2>1, <3>1
    <3> QED
      BY <1>1, <2>1, <2>2, <3>2, <3>4, <3>5, <3>6, GivenJudged
  <2>4. CASE u \notin Waiting(r.minute)
    BY <1>1, <1>6, <2>4 DEF Receive
  <2> QED
    BY <2>3, <2>4
<1>7. ASSUME NEW r \in asked \cup answered,
             NEW status \in FailureStatuses, Fail(r, status)
      PROVE  \A u \in Verifiers : JobJudged(job'[u])
  <2> SUFFICES ASSUME NEW u \in Verifiers
               PROVE  JobJudged(job'[u])
    OBVIOUS
  <2>1. CASE u \in Waiting(r.minute)
    <3>1. job[u].phase # "done"
      BY <2>1 DEF Waiting
    <3> QED
      BY <1>1, <1>7, <2>1, <3>1, FailuresLeaveUnjudged, DeniedJudged DEF Fail
  <2>2. CASE u \notin Waiting(r.minute)
    BY <1>1, <1>7, <2>2 DEF Fail
  <2> QED
    BY <2>1, <2>2
<1>8. CASE job' = job
  BY <1>1, <1>2, <1>8
<1> QED
  BY <1>2, <1>3, <1>4, <1>5, <1>6, <1>7, <1>8 DEF Next, vars, Publish, Tick, Respond

\* An identifier of a machine within the allowance is not reported as not
\* matching, whichever keys the store held and however the answers and the
\* creator's publications interleaved, unless a neighbour's key could not be
\* obtained or came with an earlier request.
THEOREM GenuineNotDenied ==
  ASSUME Timely, Allowed PROVE Spec => []GenuineIsNotDenied
<1>1. Init => JobsJudged
  <2> SUFFICES ASSUME Init
               PROVE  JobsJudged
    OBVIOUS
  <2>1. PICK p \in Pems : job = [v \in Verifiers |-> [NewJob(0, p, 0) EXCEPT !.phase = "done"]]
    BY DEF Init
  <2> DEFINE n == [NewJob(0, p, 0) EXCEPT !.phase = "done"]
  <2>2. n.phase = "done" /\ n.status = "KEY_UNAVAILABLE"
    BY DEF NewJob
  <2> HIDE DEF n
  <2>3. JobJudged(n)
    BY <2>2 DEF JobJudged
  <2> QED
    BY <2>1, <2>3 DEF JobsJudged, n
<1>2. WholeInv /\ JobsFine /\ JobsJudged /\ [Next]_vars => JobsJudged'
  BY JobsJudgedStep
<1>3. TypeOK /\ WholeInv /\ JobsJudged => GenuineIsNotDenied
  <2> SUFFICES ASSUME TypeOK, WholeInv, JobsJudged, NEW v \in Verifiers, Denies(v)
               PROVE  job[v].missed # {}
    BY DEF GenuineIsNotDenied
  <2>1. job[v].owid \in Owid /\ KeysOk
    BY DEF TypeOK, Job, WholeInv, TruthInv
  <2>2. job[v].missed = {} => Rejected(job[v].owid)
    BY DEF JobsJudged, JobJudged, Denies
  <2> QED
    BY <2>1, <2>2, RejectedIsNotGenuine DEF Denies
<1> QED
  BY <1>1, <1>2, <1>3, WholeInvariant, JobsInvariant, TypeCorrect, PTL DEF Spec
=============================================================================
