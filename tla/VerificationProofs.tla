------------------------- MODULE VerificationProofs -------------------------
(***************************************************************************)
(* Proved for any number of verifiers, keys and minutes: what the store    *)
(* holds about a creator is true of the creator's own schedule, where      *)
(* clocks differ, requests take time and keys go on being published, as    *)
(* long as the drift allowance covers what clocks and requests can be late *)
(* by together.                                                            *)
(***************************************************************************)
EXTENDS Verification, SequenceTheorems, TLAPS

\* What the runs give the constants, and the code gives its allowance of 15
\* minutes: the creator's clock and a request's 10 seconds fit in it.
Timely == ClockSkew + Latency <= Drift

-----------------------------------------------------------------------------
(* The creator's keys *)

KeysOk ==
  /\ keys \in Seq(Creator!DatedPublicKey)
  /\ \A i, j \in DOMAIN keys : i < j =>
       keys[i].start < keys[j].start /\ keys[i].pem # keys[j].pem
  /\ \A i \in DOMAIN keys : i > 1 => keys[i].start \in Minute

ClocksOk == now \in Minute /\ ahead \in -ClockSkew .. ClockSkew

\* It is settled that the key is the one in force at the minute: another key
\* follows it, or the minute is too near for a key yet to be published.
Settled(pem, x) ==
  \E i \in DOMAIN keys :
    /\ keys[i].pem = pem
    /\ keys[i].start <= x
    /\ \A j \in DOMAIN keys : j > i => x < keys[j].start
    /\ i = Len(keys) => x < CreatorNow + Lead

LEMMA KeyFacts ==
  ASSUME KeysOk
  PROVE  /\ Len(keys) \in Nat
         /\ DOMAIN keys = 1 .. Len(keys)
         /\ \A i \in DOMAIN keys : /\ i \in Int
                                   /\ keys[i].start \in Nat
                                   /\ keys[i].pem \in Pems
<1>1. Len(keys) \in Nat /\ DOMAIN keys = 1 .. Len(keys)
  BY LenProperties DEF KeysOk
<1>2. \A i \in 1 .. Len(keys) : keys[i] \in Creator!DatedPublicKey
  BY ElementOfSeq DEF KeysOk
<1> QED
  BY <1>1, <1>2 DEF Creator!DatedPublicKey

\* A schedule with one more key is the schedule as it was, and the key.
Added(pem, start) ==
  /\ DOMAIN keys' = 1 .. Len(keys) + 1
  /\ Len(keys') = Len(keys) + 1
  /\ \A i \in DOMAIN keys :
       /\ keys'[i] = keys[i] /\ keys[i].start < start /\ keys[i].pem # pem
  /\ keys'[Len(keys) + 1] = [start |-> start, pem |-> pem]
  /\ keys' \in Seq(Creator!DatedPublicKey)
  /\ start >= CreatorNow + Lead

LEMMA Published ==
  ASSUME KeysOk, NEW pem \in Pems, NEW start \in Minute, Publish(pem, start)
  PROVE  Added(pem, start)
<1>1. [start |-> start, pem |-> pem] \in Creator!DatedPublicKey
  BY VerificationAssumption DEF Creator!DatedPublicKey, Minute, Store!Minute
<1> DEFINE key == [start |-> start, pem |-> pem]
<1>2. /\ Append(keys, key) \in Seq(Creator!DatedPublicKey)
      /\ Len(Append(keys, key)) = Len(keys) + 1
      /\ \A i \in 1 .. Len(keys) : Append(keys, key)[i] = keys[i]
      /\ Append(keys, key)[Len(keys) + 1] = key
  BY <1>1, AppendProperties DEF KeysOk
<1>3. DOMAIN Append(keys, key) = 1 .. Len(keys) + 1
  BY <1>2, LenProperties
<1>4. /\ keys' = Append(keys, key)
      /\ \A i \in DOMAIN keys : keys[i].pem # pem /\ keys[i].start + Period <= start
      /\ start >= CreatorNow + Lead
  BY DEF Publish
<1>5. start \in Int /\ Period \in Nat \ {0}
  BY VerificationAssumption DEF Minute, Store!Minute
<1>6. \A i \in DOMAIN keys : keys[i].start < start
  BY <1>4, <1>5, KeyFacts
<1> QED
  BY <1>2, <1>3, <1>4, <1>6, KeyFacts DEF Added

LEMMA Clocks ==
  ASSUME ClocksOk, [Next]_vars
  PROVE  ClocksOk' /\ ahead' = ahead /\ now <= now'
<1>1. CASE Tick
  BY <1>1, VerificationAssumption
  DEF Tick, ClocksOk, creator, Minute, Store!Minute
<1>2. CASE now' = now /\ ahead' = ahead
  BY <1>2, VerificationAssumption DEF ClocksOk, Minute, Store!Minute
<1>3. Tick \/ (now' = now /\ ahead' = ahead)
  BY DEF Next, vars, store, creator, Publish, Verify, Refuse, FindHeld, Ask, Respond,
         Receive, Fail, Store!Hold
<1> QED
  BY <1>1, <1>2, <1>3

LEMMA KeysChange ==
  ASSUME [Next]_vars
  PROVE  keys' = keys \/ \E pem \in Pems, start \in Minute : Publish(pem, start)
BY DEF Next, vars, store, creator, Tick, Verify, Refuse, FindHeld, Ask, Respond, Receive, Fail

LEMMA KeysStep == KeysOk /\ [Next]_vars => KeysOk'
<1> SUFFICES ASSUME KeysOk, [Next]_vars
             PROVE  KeysOk'
  OBVIOUS
<1>1. CASE keys' = keys
  BY <1>1 DEF KeysOk
<1>2. ASSUME NEW pem \in Pems, NEW start \in Minute, Publish(pem, start)
      PROVE  KeysOk'
  <2>0. Added(pem, start)
    BY <1>2, Published
  <2>1. ASSUME NEW i \in DOMAIN keys', NEW j \in DOMAIN keys', i < j
        PROVE  keys'[i].start < keys'[j].start /\ keys'[i].pem # keys'[j].pem
    <3>1. CASE j \in DOMAIN keys
      BY <2>0, <2>1, <3>1, KeyFacts DEF Added, KeysOk
    <3>2. CASE j = Len(keys) + 1
      BY <2>0, <2>1, <3>2, KeyFacts DEF Added
    <3> QED
      BY <2>0, <2>1, <3>1, <3>2, KeyFacts DEF Added
  <2>2. ASSUME NEW i \in DOMAIN keys', i > 1
        PROVE  keys'[i].start \in Minute
    BY <2>0, <2>2, KeyFacts DEF Added, KeysOk
  <2> QED
    BY <2>0, <2>1, <2>2 DEF Added, KeysOk
<1> QED
  BY <1>1, <1>2, KeysChange

\* What is settled stays settled, whatever is published and however late.
LEMMA SettledStays ==
  ASSUME KeysOk, ClocksOk, [Next]_vars, NEW pem, NEW x \in Int, Settled(pem, x)
  PROVE  Settled(pem, x)'
<1> PICK i \in DOMAIN keys :
      /\ keys[i].pem = pem
      /\ keys[i].start <= x
      /\ \A j \in DOMAIN keys : j > i => x < keys[j].start
      /\ i = Len(keys) => x < CreatorNow + Lead
  BY DEF Settled
<1>1. /\ CreatorNow \in Int /\ CreatorNow' \in Int /\ Lead \in Int
      /\ CreatorNow <= CreatorNow'
  BY Clocks, VerificationAssumption DEF ClocksOk, CreatorNow, Minute, Store!Minute
<1>2. CASE keys' = keys
  BY <1>1, <1>2 DEF Settled
<1>3. ASSUME NEW new \in Pems, NEW start \in Minute, Publish(new, start)
      PROVE  Settled(pem, x)'
  <2>0. Added(new, start)
    BY <1>3, Published
  <2>1. start \in Int
    BY VerificationAssumption DEF Minute, Store!Minute
  <2>2. i # Len(keys) => x < start
    <3> SUFFICES ASSUME i # Len(keys)
                 PROVE  x < start
      OBVIOUS
    <3>1. i + 1 \in DOMAIN keys /\ i + 1 > i
      BY <2>0, KeyFacts DEF Added
    <3>2. x < keys[i + 1].start /\ keys[i + 1].start < start /\ keys[i + 1].start \in Nat
      BY <2>0, <3>1, KeyFacts DEF Added
    <3> QED
      BY <2>1, <3>2
  <2>3. i = Len(keys) => x < start
    BY <1>1, <2>0, <2>1 DEF Added
  <2>4. ASSUME NEW j \in DOMAIN keys', j > i
        PROVE  x < keys'[j].start
    BY <2>0, <2>2, <2>3, <2>4, KeyFacts DEF Added
  <2>5. i \in DOMAIN keys' /\ keys'[i] = keys[i] /\ i # Len(keys')
    BY <2>0, KeyFacts DEF Added
  <2> QED
    BY <2>4, <2>5 DEF Settled
<1> QED
  BY <1>2, <1>3, KeysChange

\* The key in force at a settled minute, and no other, is the settled one.
LEMMA SettledInForce ==
  ASSUME KeysOk, NEW pem, NEW x \in Int, Settled(pem, x)
  PROVE  InForceAt(x) = {pem}
<1> PICK i \in DOMAIN keys :
      /\ keys[i].pem = pem
      /\ keys[i].start <= x
      /\ \A j \in DOMAIN keys : j > i => x < keys[j].start
  BY DEF Settled
<1>1. \A j \in DOMAIN keys : j \in Int /\ keys[j].start \in Nat
  BY KeyFacts
<1>2. \A j \in DOMAIN keys : keys[j].start <= x /\ j # i => keys[j].start < keys[i].start
  BY <1>1 DEF KeysOk
<1>3. Creator!InForce(keys, i, x)
  BY <1>1, <1>2 DEF Creator!InForce
<1>4. \A j \in DOMAIN keys : Creator!InForce(keys, j, x) => j = i
  BY <1>1, <1>2 DEF Creator!InForce
<1> QED
  BY <1>3, <1>4 DEF InForceAt

\* A key is in force without a break.
LEMMA SettledBetween ==
  ASSUME KeysOk, ClocksOk, NEW pem, NEW a \in Int, NEW b \in Int, NEW x \in Int,
         Settled(pem, a), Settled(pem, b), a <= x, x <= b
  PROVE  Settled(pem, x)
<1>1. \A j \in DOMAIN keys : j \in Int /\ keys[j].start \in Nat
  BY KeyFacts
<1>2. CreatorNow \in Int /\ Lead \in Int
  BY VerificationAssumption DEF ClocksOk, CreatorNow, Minute, Store!Minute
<1> PICK i \in DOMAIN keys : keys[i].pem = pem /\ keys[i].start <= a
  BY DEF Settled
<1> PICK l \in DOMAIN keys :
      /\ keys[l].pem = pem
      /\ \A j \in DOMAIN keys : j > l => b < keys[j].start
      /\ l = Len(keys) => b < CreatorNow + Lead
  BY DEF Settled
<1>3. i = l
  BY <1>1 DEF KeysOk
<1>4. keys[i].start <= x
  BY <1>1
<1>5. \A j \in DOMAIN keys : j > i => x < keys[j].start
  BY <1>1, <1>3
<1>6. i = Len(keys) => x < CreatorNow + Lead
  BY <1>2, <1>3
<1> QED
  BY <1>3, <1>4, <1>5, <1>6 DEF Settled

-----------------------------------------------------------------------------
(* What verifiers are doing keeps to its type *)

LEMMA NextNeighbourIsJob ==
  ASSUME NEW j \in Job
  PROVE  NextNeighbour(j) \in Job
<1>1. CASE j.beyond # <<>>
  <2>1. Head(j.beyond) \in Minute /\ Tail(j.beyond) \in Seq(Minute)
    BY <1>1, HeadTailProperties DEF Job
  <2> QED
    BY <1>1, <2>1 DEF NextNeighbour, Job
<1>2. CASE j.beyond = <<>>
  <2>1. \A status \in Status : Done(j, status) \in Job
    <3>1. <<>> \in Seq(Minute)
      BY EmptySeq
    <3> QED
      BY <3>1 DEF Done, Job, Owid
  <2> QED
    BY <1>2, <2>1 DEF NextNeighbour, Status
<1> QED
  BY <1>1, <1>2

LEMMA DoneIsJob ==
  ASSUME NEW j \in Job, NEW status \in Status
  PROVE  Done(j, status) \in Job
<1>1. <<>> \in Seq(Minute)
  BY EmptySeq
<1> QED
  BY <1>1 DEF Done, Job, Owid

LEMMA BeyondIsMinutes ==
  ASSUME NEW minute \in Minute, NEW answer \in Store!KeyAnswer
  PROVE  Beyond(minute, answer) \in Seq(Minute)
<1> DEFINE before == IF answer.first > 0 /\ NearEdge(minute, answer.first)
                       THEN <<answer.first - 1>> ELSE <<>>
           after == IF answer.last < LastMinute /\ NearEdge(minute, answer.last)
                      THEN <<answer.last + 1>> ELSE <<>>
<1>1. answer.first \in 0 .. LastMinute /\ answer.last \in 0 .. LastMinute
  BY DEF Store!KeyAnswer, Store!Minute
<1>2. before \in Seq(Minute)
  <2>1. answer.first > 0 => answer.first - 1 \in Minute
    BY <1>1, VerificationAssumption DEF Minute, Store!Minute
  <2> QED
    BY <2>1, EmptySeq
<1>3. after \in Seq(Minute)
  <2>1. answer.last < LastMinute => answer.last + 1 \in Minute
    BY <1>1, VerificationAssumption DEF Minute, Store!Minute
  <2> QED
    BY <2>1, EmptySeq
<1>4. before \o after \in Seq(Minute)
  BY <1>2, <1>3, ConcatProperties
<1> HIDE DEF before, after
<1>5. Beyond(minute, answer) = IF ~answer.known THEN <<>> ELSE before \o after
  BY DEF Beyond, before, after
<1> QED
  BY <1>4, <1>5, EmptySeq

LEMMA GivenIsJob ==
  ASSUME NEW j \in Job, NEW answer \in Store!KeyAnswer
  PROVE  Given(j, answer) \in Job
<1>1. "SIGNATURE_VALID" \in Status
  BY DEF Status
<1>2. [j EXCEPT !.tried = {answer}, !.beyond = Beyond(j.owid.minute, answer)] \in Job
  <2>1. Beyond(j.owid.minute, answer) \in Seq(Minute)
    BY BeyondIsMinutes DEF Job, Owid
  <2> QED
    BY <2>1 DEF Job
<1> QED
  BY <1>1, <1>2, DoneIsJob, NextNeighbourIsJob DEF Given

LEMMA DeniedIsJob ==
  ASSUME NEW j \in Job, NEW status \in Status
  PROVE  Denied(j, status) \in Job
<1>1. [j EXCEPT !.missed = @ \cup {"failed"}] \in Job
  BY DEF Job
<1> QED
  BY <1>1, DoneIsJob, NextNeighbourIsJob DEF Denied

-----------------------------------------------------------------------------
(* What the creator tells *)

\* An answer the creator gave by its clock at c, which is not earlier than the
\* request: the key is the one in force at the minute asked about, or at c
\* where that was earlier, and every end it states is settled.
Told(r, c) ==
  /\ r.sent + ahead <= c
  /\ c <= CreatorNow
  /\ Settled(r.pem, Store!Earlier(r.minute, c))
  /\ r.start # Absent =>
       /\ r.start <= c
       /\ Settled(r.pem, r.start)
       /\ r.end = Absent => Settled(r.pem, c)
       /\ r.end # Absent => r.start < r.end /\ Settled(r.pem, r.end - 1)
  /\ r.start = Absent => r.end = Absent

LEMMA NextStart ==
  ASSUME KeysOk, NEW i \in DOMAIN keys
  PROVE  Creator!NextStartAfter(keys, keys[i]) =
           IF i < Len(keys) THEN keys[i + 1].start ELSE Absent
<1>1. \A j \in DOMAIN keys : keys[j].start > keys[i].start <=> j > i
  BY KeyFacts DEF KeysOk
<1>2. CASE i < Len(keys)
  <2>1. i + 1 \in DOMAIN keys /\ i + 1 > i
    BY <1>2, KeyFacts
  <2>2. \A j \in DOMAIN keys : j > i => keys[i + 1].start <= keys[j].start
    BY <2>1, KeyFacts DEF KeysOk
  <2>3. /\ keys[i + 1].start \in Creator!Following(keys, keys[i])
        /\ \A start \in Creator!Following(keys, keys[i]) : keys[i + 1].start <= start
    BY <1>1, <2>1, <2>2 DEF Creator!Following
  <2>4. \A start \in Creator!Following(keys, keys[i]) : start \in Nat
    BY KeyFacts DEF Creator!Following
  <2>5. \A start \in Creator!Following(keys, keys[i]) :
          (\A other \in Creator!Following(keys, keys[i]) : start <= other)
            => start = keys[i + 1].start
    BY <2>3, <2>4
  <2> QED
    BY <1>2, <2>3, <2>5 DEF Creator!NextStartAfter
<1>3. CASE ~ i < Len(keys)
  <2>1. \A j \in DOMAIN keys : ~ j > i
    BY <1>3, KeyFacts
  <2>2. Creator!Following(keys, keys[i]) = {}
    BY <1>1, <2>1 DEF Creator!Following
  <2> QED
    BY <1>3, <2>2
    DEF Creator!NextStartAfter, Creator!Never, Absent, Store!Absent
<1> QED
  BY <1>2, <1>3

LEMMA WholeMinutes ==
  ASSUME NEW moment \in Int
  PROVE  Creator!Text(moment) = moment
<1>1. moment % 1 = 0
  OBVIOUS
<1> QED
  BY <1>1 DEF Creator!Text, Creator!Never

\* An answer names the key, and its start and end as they are.
LEMMA AnswerOfKey ==
  ASSUME KeysOk, NEW i \in DOMAIN keys
  PROVE  LET answer == Creator!Answer(keys, keys[i]) IN
         /\ answer.pem = keys[i].pem
         /\ answer.from = keys[i].start
         /\ answer.to = IF i < Len(keys) THEN keys[i + 1].start ELSE Absent
<1>1. /\ keys[i].start \in Int /\ i \in Int /\ Len(keys) \in Nat
      /\ i < Len(keys) => keys[i + 1].start \in Int
  BY KeyFacts
<1>2. Creator!Text(Absent) = Absent
  BY DEF Creator!Text, Creator!Never, Absent, Store!Absent
<1> QED
  BY <1>1, <1>2, NextStart, WholeMinutes DEF Creator!Answer

LEMMA RequestMoment ==
  ASSUME NEW minute \in Minute, NEW moment \in Int
  PROVE  Creator!Asked(minute, moment) = Store!Earlier(minute, moment)
BY VerificationAssumption
DEF Creator!Asked, Creator!Never, Store!Earlier, Minute, Store!Minute

LEMMA ResponseIsTold ==
  ASSUME KeysOk, ClocksOk, states \in BOOLEAN, NEW r \in Request, r.sent <= now,
         NEW answer \in Creator!Selected(keys, r.minute, CreatorNow)
  PROVE  ReplyTo(r, answer) \in Reply /\ Told(ReplyTo(r, answer), CreatorNow)
<1> DEFINE at == Store!Earlier(r.minute, CreatorNow)
<1>1. /\ CreatorNow \in Int /\ Lead \in Nat \ {0} /\ r.minute \in 0 .. LastMinute
      /\ r.sent \in Int /\ now \in Int /\ ahead \in Int /\ LastMinute \in Int
  BY VerificationAssumption DEF ClocksOk, CreatorNow, Request, Minute, Store!Minute
<1>2. at \in Int /\ at <= CreatorNow /\ at <= r.minute
  BY <1>1 DEF Store!Earlier
<1> PICK i \in DOMAIN keys : /\ answer = Creator!Answer(keys, keys[i])
                             /\ Creator!InForce(keys, i, at)
  BY <1>1, RequestMoment DEF Creator!Selected, Minute, Store!Minute
<1>3. /\ keys[i].start \in Nat /\ keys[i].pem \in Pems /\ i \in Int
      /\ Len(keys) \in Nat /\ i <= Len(keys)
  BY KeyFacts
<1>4. /\ answer.pem = keys[i].pem
      /\ answer.from = keys[i].start
      /\ answer.to = IF i < Len(keys) THEN keys[i + 1].start ELSE Absent
  BY AnswerOfKey
<1>5. keys[i].start <= at
  BY DEF Creator!InForce
<1>6. \A j \in DOMAIN keys : j > i => at < keys[j].start
  BY <1>2, KeyFacts DEF Creator!InForce, KeysOk
<1> HIDE DEF at
<1>7. Settled(keys[i].pem, at)
  BY <1>1, <1>2, <1>5, <1>6 DEF Settled
<1>8. Settled(keys[i].pem, keys[i].start)
  <2>1. \A j \in DOMAIN keys : j > i => keys[i].start < keys[j].start
    BY KeyFacts DEF KeysOk
  <2> QED
    BY <1>1, <1>2, <1>3, <1>5, <2>1 DEF Settled
<1>9. i = Len(keys) => Settled(keys[i].pem, CreatorNow)
  <2>1. i = Len(keys) => \A j \in DOMAIN keys : ~ j > i
    BY KeyFacts
  <2> QED
    BY <1>1, <1>2, <1>3, <1>5, <2>1 DEF Settled
<1>10. i < Len(keys) =>
         /\ keys[i + 1].start \in Minute
         /\ keys[i].start < keys[i + 1].start
         /\ Settled(keys[i].pem, keys[i + 1].start - 1)
  <2> SUFFICES ASSUME i < Len(keys)
               PROVE  /\ keys[i + 1].start \in Minute
                      /\ keys[i].start < keys[i + 1].start
                      /\ Settled(keys[i].pem, keys[i + 1].start - 1)
    OBVIOUS
  <2>1. i + 1 \in DOMAIN keys /\ i + 1 > i /\ i + 1 > 1 /\ i # Len(keys)
    BY <1>3, KeyFacts
  <2>2. keys[i + 1].start \in Minute /\ keys[i].start < keys[i + 1].start
    BY <2>1 DEF KeysOk
  <2>3. keys[i + 1].start \in Nat
    BY <2>1, KeyFacts
  <2>4. \A j \in DOMAIN keys : j > i => keys[i + 1].start <= keys[j].start
    BY <2>1, KeyFacts DEF KeysOk
  <2>5. \A j \in DOMAIN keys : j > i => keys[i + 1].start - 1 < keys[j].start
    BY <2>3, <2>4, KeyFacts
  <2>6. keys[i].start <= keys[i + 1].start - 1
    BY <1>3, <2>2, <2>3
  <2> QED
    BY <2>1, <2>2, <2>5, <2>6 DEF Settled
<1>11. keys[i].start \in Minute
  BY <1>1, <1>2, <1>3, <1>5 DEF Minute, Store!Minute
<1>12. ReplyTo(r, answer) \in Reply
  BY <1>3, <1>4, <1>10, <1>11
  DEF ReplyTo, Reply, Request, Store!Moment, Minute, Absent, Store!Absent
<1>13. Told(ReplyTo(r, answer), CreatorNow)
  <2> SUFFICES ASSUME NEW reply, reply = ReplyTo(r, answer)
               PROVE  Told(reply, CreatorNow)
    OBVIOUS
  <2>1. /\ reply.minute = r.minute /\ reply.sent = r.sent /\ reply.pem = keys[i].pem
        /\ reply.start = IF states THEN keys[i].start ELSE Absent
        /\ reply.end = IF states /\ i < Len(keys) THEN keys[i + 1].start ELSE Absent
    BY <1>4 DEF ReplyTo
  <2>2. reply.sent + ahead <= CreatorNow
    BY <1>1, <2>1 DEF CreatorNow
  <2>3. Absent = -1
    BY DEF Absent, Store!Absent
  <2>4. i < Len(keys) => keys[i + 1].start # Absent
    BY <1>1, <1>10, <2>3 DEF Minute, Store!Minute
  <2>5. Settled(reply.pem, Store!Earlier(reply.minute, CreatorNow))
    BY <1>7, <2>1 DEF at
  <2>6. CASE states /\ i < Len(keys)
    BY <1>1, <1>2, <1>3, <1>5, <1>8, <1>10, <2>1, <2>2, <2>3, <2>4, <2>5, <2>6 DEF Told
  <2>7. CASE states /\ ~ i < Len(keys)
    <3>1. i = Len(keys)
      BY <1>3, <2>7
    <3> QED
      BY <1>1, <1>2, <1>3, <1>5, <1>8, <1>9, <2>1, <2>2, <2>3, <2>5, <2>7, <3>1 DEF Told
  <2>8. CASE ~states
    BY <1>1, <2>1, <2>2, <2>5, <2>8 DEF Told
  <2> QED
    BY <2>6, <2>7, <2>8
<1> QED
  BY <1>12, <1>13

\* The answer stands whatever the creator publishes after it.
LEMMA ToldStays ==
  ASSUME KeysOk, ClocksOk, [Next]_vars, NEW r \in Reply, NEW c \in Int, Told(r, c)
  PROVE  Told(r, c)'
<1>1. /\ r.sent \in Int /\ r.minute \in Int /\ r.start \in Int /\ r.end \in Int
  BY VerificationAssumption
  DEF Reply, Minute, Store!Minute, Store!Moment, Store!Absent
<1>2. Store!Earlier(r.minute, c) \in Int /\ r.end - 1 \in Int
  BY <1>1 DEF Store!Earlier
<1>3. ahead' = ahead /\ CreatorNow \in Int /\ CreatorNow' \in Int /\ CreatorNow <= CreatorNow'
  BY Clocks, VerificationAssumption DEF ClocksOk, CreatorNow, Minute, Store!Minute
<1>4. \A x \in Int : Settled(r.pem, x) => Settled(r.pem, x)'
  BY SettledStays
<1>5. c <= CreatorNow'
  BY <1>3 DEF Told
<1> QED
  BY <1>1, <1>2, <1>3, <1>4, <1>5 DEF Told

\* Why the allowance must cover the skew and the latency: by the time an
\* answer is here, a minute outside the allowance was past for the creator
\* when it answered, so that it was the minute itself that it answered for.
LEMMA TaughtIsTrue ==
  ASSUME Timely, KeysOk, ClocksOk, NEW r \in Reply, NEW c \in Int, Told(r, c),
         now <= r.sent + Latency, Store!Teaches(r.minute, r.start, now),
         NEW t, t = Store!Taught(EndPoint, r.minute, r.pem, r.start, r.end, now)
  PROVE  /\ t \in Store!HeldKey
         /\ Settled(t.pem, t.first)
         /\ Settled(t.pem, t.last)
<1>1. /\ r.sent \in Int /\ r.minute \in 0 .. LastMinute /\ r.pem \in Pems
      /\ r.start \in -1 .. LastMinute /\ r.end \in -1 .. LastMinute
      /\ now \in 0 .. LastMinute /\ ahead \in Int /\ -ClockSkew <= ahead
      /\ LastMinute \in Nat /\ Drift \in Nat /\ Latency \in Nat /\ ClockSkew \in Nat
      /\ Absent = -1 /\ Store!Absent = -1
  BY VerificationAssumption
  DEF Reply, ClocksOk, Minute, Store!Minute, Store!Moment, Store!Absent, Absent
<1>2. now - Drift <= c
  BY <1>1 DEF Told, Timely
<1>3. CASE r.start = Absent
  <2>1. r.end = Absent /\ r.minute <= now - Drift
    BY <1>1, <1>3 DEF Told, Store!Teaches, Store!Recent
  <2>2. Store!Earlier(r.minute, c) = r.minute
    BY <1>1, <1>2, <2>1 DEF Store!Earlier
  <2>3. t = [endPoint |-> EndPoint, pem |-> r.pem, first |-> r.minute,
             last |-> r.minute, explicit |-> FALSE, openEnded |-> FALSE]
    BY <1>1, <1>3, <2>1 DEF Store!Taught, Store!BothEnds
  <2> QED
    BY <1>1, <2>2, <2>3 DEF Told, Store!HeldKey, Store!Minute
<1>4. CASE r.start # Absent /\ r.end # Absent
  <2>1. r.start < r.end
    BY <1>4 DEF Told
  <2>2. t = [endPoint |-> EndPoint, pem |-> r.pem, first |-> r.start,
             last |-> r.end - 1, explicit |-> TRUE, openEnded |-> FALSE]
    BY <1>1, <1>4, <2>1 DEF Store!Taught, Store!BothEnds
  <2> QED
    BY <1>1, <1>4, <2>1, <2>2 DEF Told, Store!HeldKey, Store!Minute
<1>5. CASE r.start # Absent /\ r.end = Absent
  <2> DEFINE last == Store!Later(r.start, now - Drift)
  <2>1. t = [endPoint |-> EndPoint, pem |-> r.pem, first |-> r.start,
             last |-> last, explicit |-> FALSE, openEnded |-> TRUE]
    BY <1>1, <1>5 DEF Store!Taught, Store!BothEnds
  <2>2. last \in 0 .. LastMinute /\ r.start <= last /\ last <= c
    BY <1>1, <1>2, <1>5 DEF Told, Store!Later
  <2>3. Settled(r.pem, r.start) /\ Settled(r.pem, c)
    BY <1>5 DEF Told
  <2> HIDE DEF last
  <2>4. Settled(r.pem, last)
    BY <1>1, <2>2, <2>3, SettledBetween
  <2>5. r.start \in 0 .. LastMinute
    BY <1>1, <1>5
  <2>6. t \in Store!HeldKey
    BY <1>1, <2>1, <2>2, <2>5 DEF Store!HeldKey, Store!Minute
  <2>7. t.pem = r.pem /\ t.first = r.start /\ t.last = last
    BY <2>1
  <2> QED
    BY <2>3, <2>4, <2>6, <2>7
<1> QED
  BY <1>3, <1>4, <1>5

-----------------------------------------------------------------------------
(* The inductive invariant *)

\* No request is older than the transport lets it become.
RequestsTimely ==
  \A r \in asked \cup answered : r.sent <= now /\ now <= r.sent + Latency

RepliesTold == \A r \in answered : \E c \in Int : Told(r, c)

CacheTrue == \A k \in cache : Settled(k.pem, k.first) /\ Settled(k.pem, k.last)

TruthInv == TypeOK /\ KeysOk /\ RequestsTimely /\ RepliesTold /\ CacheTrue

LEMMA InvHasClocks ==
  ASSUME TypeOK
  PROVE  ClocksOk /\ states \in BOOLEAN
BY VerificationAssumption
DEF TypeOK, ClocksOk, Store!TypeOK, Minute, Store!Minute

\* Only an answer that arrives changes the store.
LEMMA StoreChanges ==
  ASSUME [Next]_vars
  PROVE  \/ UNCHANGED <<cache, heldKeys, learned>>
         \/ \E r \in answered : Receive(r)
BY DEF Next, vars, store, Publish, Tick, Verify, Refuse, FindHeld, Ask, Respond, Fail

\* The ways an answer changes the store.
LEMMA HoldCases ==
  ASSUME TruthInv, Timely, NEW r \in answered, Receive(r)
  PROVE  \/ UNCHANGED <<cache, heldKeys, learned>>
         \/ \E t \in Store!HeldKey :
              /\ Settled(t.pem, t.first)
              /\ Settled(t.pem, t.last)
              /\ Store!HoldKnown(t) \/ Store!HoldRefused(t) \/ Store!HoldNew(t)
<1> DEFINE taught == Store!Taught(EndPoint, r.minute, r.pem, r.start, r.end, now)
<1>1. \/ Store!HoldNothing(r.minute, r.start)
      \/ /\ Store!Teaches(r.minute, r.start, now)
         /\ Store!HoldKnown(taught) \/ Store!HoldRefused(taught) \/ Store!HoldNew(taught)
  BY DEF Receive, Store!Hold
<1>2. CASE Store!HoldNothing(r.minute, r.start)
  BY <1>2 DEF Store!HoldNothing
<1>3. CASE Store!Teaches(r.minute, r.start, now)
  <2>1. r \in Reply /\ now <= r.sent + Latency /\ KeysOk /\ ClocksOk
    BY InvHasClocks DEF TruthInv, TypeOK, RequestsTimely
  <2>2. PICK c \in Int : Told(r, c)
    BY DEF TruthInv, RepliesTold
  <2> HIDE DEF taught
  <2>3. /\ taught \in Store!HeldKey
        /\ Settled(taught.pem, taught.first)
        /\ Settled(taught.pem, taught.last)
    BY <1>3, <2>1, <2>2, TaughtIsTrue DEF taught
  <2> QED
    BY <1>1, <1>2, <2>3
<1> QED
  BY <1>1, <1>2, <1>3

LEMMA WidenedEnds ==
  ASSUME NEW k \in Store!HeldKey, NEW t \in Store!HeldKey
  PROVE  LET w == Store!Widened(k, t) IN
         /\ w \in Store!HeldKey
         /\ w.pem = k.pem
         /\ w.first = k.first \/ w.first = t.first
         /\ w.last = k.last \/ w.last = t.last
BY DEF Store!Widened, Store!HeldKey, Store!Earlier, Store!Later

LEMMA StoreTypeStep ==
  ASSUME TruthInv, Timely, NEW r \in answered, Receive(r)
  PROVE  Store!TypeOK'
<1>0. Store!TypeOK /\ now' = now
  BY DEF TruthInv, TypeOK, Receive, Store!Hold
<1>1. ASSUME NEW t \in Store!HeldKey,
             Store!HoldKnown(t) \/ Store!HoldRefused(t) \/ Store!HoldNew(t)
      PROVE  Store!TypeOK'
  <2>1. CASE Store!HoldKnown(t)
    BY <1>0, <2>1, WidenedEnds DEF Store!HoldKnown, Store!TypeOK
  <2>2. CASE Store!HoldRefused(t)
    BY <1>0, <1>1, <2>2 DEF Store!HoldRefused, Store!TypeOK
  <2>3. CASE Store!HoldNew(t)
    BY <1>0, <1>1, <2>3 DEF Store!HoldNew, Store!TypeOK
  <2> QED
    BY <1>1, <2>1, <2>2, <2>3
<1>2. CASE UNCHANGED <<cache, heldKeys, learned>>
  BY <1>0, <1>2 DEF Store!TypeOK
<1> QED
  BY <1>1, <1>2, HoldCases

LEMMA CacheStep ==
  ASSUME TruthInv, Timely, [Next]_vars
  PROVE  CacheTrue'
<1>1. ASSUME NEW pem, NEW x \in Int, Settled(pem, x)
      PROVE  Settled(pem, x)'
  BY <1>1, InvHasClocks, SettledStays DEF TruthInv
<1>2. \A k \in Store!HeldKey : k.first \in Int /\ k.last \in Int
  BY VerificationAssumption DEF Store!HeldKey, Store!Minute
<1>3. /\ cache \subseteq Store!HeldKey
      /\ \A k \in cache : Settled(k.pem, k.first) /\ Settled(k.pem, k.last)
  BY DEF TruthInv, TypeOK, Store!TypeOK, CacheTrue
<1>4. CASE cache' = cache
  BY <1>1, <1>2, <1>3, <1>4 DEF CacheTrue
<1>5. ASSUME NEW t \in Store!HeldKey, Settled(t.pem, t.first), Settled(t.pem, t.last),
             Store!HoldKnown(t) \/ Store!HoldRefused(t) \/ Store!HoldNew(t)
      PROVE  \A k \in cache' : /\ k \in Store!HeldKey
                               /\ Settled(k.pem, k.first)
                               /\ Settled(k.pem, k.last)
  <2>1. CASE Store!HoldKnown(t)
    <3>1. PICK key \in cache :
            /\ Store!SameKey(key, t)
            /\ cache' = cache \/ cache' = (cache \ {key}) \cup {Store!Widened(key, t)}
      BY <2>1 DEF Store!HoldKnown
    <3> DEFINE w == Store!Widened(key, t)
    <3>2. /\ w \in Store!HeldKey /\ w.pem = key.pem /\ key.pem = t.pem
          /\ w.first = key.first \/ w.first = t.first
          /\ w.last = key.last \/ w.last = t.last
      BY <1>3, <3>1, WidenedEnds DEF Store!SameKey
    <3> HIDE DEF w
    <3>3. Settled(w.pem, w.first) /\ Settled(w.pem, w.last)
      BY <1>3, <1>5, <3>2
    <3> QED
      BY <1>3, <3>1, <3>2, <3>3 DEF w
  <2>2. CASE Store!HoldRefused(t)
    BY <1>3, <2>2 DEF Store!HoldRefused
  <2>3. CASE Store!HoldNew(t)
    BY <1>3, <1>5, <2>3 DEF Store!HoldNew
  <2> QED
    BY <1>5, <2>1, <2>2, <2>3
<1>6. CASE \E r \in answered : Receive(r)
  <2>1. CASE UNCHANGED <<cache, heldKeys, learned>>
    BY <1>4, <2>1
  <2>2. CASE \A k \in cache' : /\ k \in Store!HeldKey
                               /\ Settled(k.pem, k.first)
                               /\ Settled(k.pem, k.last)
    BY <1>1, <1>2, <2>2 DEF CacheTrue
  <2> QED
    BY <1>5, <1>6, <2>1, <2>2, HoldCases
<1> QED
  BY <1>4, <1>6, StoreChanges

\* Where the requests and the replies come from.
LEMMA RequestsChange ==
  ASSUME [Next]_vars
  PROVE  /\ \A r \in asked' : r \in asked \/ \E minute \in {job[v].minute : v \in Verifiers} :
              r = [minute |-> minute, sent |-> now]
         /\ \A r \in answered' : r \in answered \/ \E q \in asked :
              /\ Respond(q)
              /\ \E answer \in Creator!Selected(keys, q.minute, CreatorNow) :
                   r = ReplyTo(q, answer)
<1>1. CASE UNCHANGED <<asked, answered>>
  BY <1>1
<1>2. ASSUME NEW v \in Verifiers, Ask(v)
      PROVE  /\ answered' = answered
             /\ \A r \in asked' : r \in asked \/ r = [minute |-> job[v].minute, sent |-> now]
  BY <1>2 DEF Ask
<1>3. ASSUME NEW q \in asked, Respond(q)
      PROVE  /\ asked' \subseteq asked
             /\ \A r \in answered' : r \in answered \/
                  \E answer \in Creator!Selected(keys, q.minute, CreatorNow) :
                    r = ReplyTo(q, answer)
  BY <1>3 DEF Respond
<1>4. CASE asked' \subseteq asked /\ answered' \subseteq answered
  BY <1>4
<1>5. \/ UNCHANGED <<asked, answered>>
      \/ \E v \in Verifiers : Ask(v)
      \/ \E q \in asked : Respond(q)
      \/ asked' \subseteq asked /\ answered' \subseteq answered
  BY DEF Next, vars, Publish, Tick, Verify, Refuse, FindHeld, Receive, Fail
<1> QED
  BY <1>1, <1>2, <1>3, <1>4, <1>5

LEMMA RequestsStep ==
  ASSUME TruthInv, [Next]_vars
  PROVE  /\ asked' \subseteq Request
         /\ answered' \subseteq Reply
         /\ RequestsTimely'
         /\ RepliesTold'
<1>1. /\ asked \subseteq Request /\ answered \subseteq Reply /\ now \in Minute
      /\ \A v \in Verifiers : job[v].minute \in Minute
      /\ KeysOk /\ ClocksOk /\ states \in BOOLEAN /\ RequestsTimely /\ RepliesTold
  BY InvHasClocks DEF TruthInv, TypeOK, Job, Store!TypeOK, Minute
<1>2. /\ \A r \in Reply : r.sent \in Int
      /\ \A r \in Request : r.sent \in Int
      /\ now \in Int /\ now' \in Int /\ Latency \in Nat /\ now <= now' /\ ahead' = ahead
  BY <1>1, Clocks, VerificationAssumption
  DEF Reply, Request, Minute, Store!Minute, ClocksOk
<1>3. asked' \subseteq Request
  BY <1>1, RequestsChange DEF Request
<1>4. ASSUME NEW q \in asked, NEW answer \in Creator!Selected(keys, q.minute, CreatorNow)
      PROVE  /\ ReplyTo(q, answer) \in Reply
             /\ Told(ReplyTo(q, answer), CreatorNow)
             /\ ReplyTo(q, answer).sent = q.sent
  <2>1. q \in Request /\ q.sent <= now
    BY <1>1 DEF RequestsTimely
  <2> QED
    BY <1>1, <2>1, ResponseIsTold DEF ReplyTo
<1>5. answered' \subseteq Reply
  BY <1>1, <1>4, RequestsChange
<1>6. RequestsTimely'
  <2>1. CASE Tick
    BY <1>2, <1>1, <2>1 DEF Tick, RequestsTimely
  <2>2. CASE now' = now
    <3>1. \A r \in asked' : r.sent <= now /\ now <= r.sent + Latency
      BY <1>1, <1>2, RequestsChange DEF RequestsTimely
    <3>2. \A r \in answered' : r.sent <= now /\ now <= r.sent + Latency
      BY <1>1, <1>4, RequestsChange DEF RequestsTimely
    <3> QED
      BY <2>2, <3>1, <3>2 DEF RequestsTimely
  <2>3. Tick \/ now' = now
    BY DEF Next, vars, store, Publish, Verify, Refuse, FindHeld, Ask, Respond, Receive,
           Fail, Store!Hold
  <2> QED
    BY <2>1, <2>2, <2>3
<1>7. RepliesTold'
  <2>1. ASSUME NEW r \in Reply, NEW c \in Int, Told(r, c)
        PROVE  Told(r, c)'
    BY <1>1, <2>1, ToldStays
  <2>2. CreatorNow \in Int
    BY <1>1, <1>2 DEF CreatorNow, ClocksOk
  <2>3. \A r \in answered' : r \in Reply /\ \E c \in Int : Told(r, c)
    BY <1>1, <1>4, <2>2, RequestsChange DEF RepliesTold
  <2> QED
    BY <2>1, <2>3 DEF RepliesTold
<1> QED
  BY <1>3, <1>5, <1>6, <1>7

LEMMA FailuresLeaveUnjudged ==
  \A status \in FailureStatuses : status \in {"KEY_UNAVAILABLE", "INVALID_KEY"}
BY DEF FailureStatuses, FailureStatus

LEMMA JobTypeStep ==
  ASSUME TypeOK, [Next]_vars
  PROVE  job' \in [Verifiers -> Job]
<1>1. /\ job \in [Verifiers -> Job] /\ answered \subseteq Reply
      /\ cache \subseteq Store!HeldKey /\ CreatorNow \in Int
      /\ LastMinute \in Nat
  BY InvHasClocks, VerificationAssumption
  DEF TypeOK, Store!TypeOK, CreatorNow, ClocksOk, Minute, Store!Minute
<1>2. ASSUME NEW v \in Verifiers, NEW minute \in Minute, NEW signer \in Pems,
             Verify(v, minute, signer)
      PROVE  job' \in [Verifiers -> Job]
  <2>1. NewJob(minute, signer, CreatorNow) \in Job
    BY <1>1, EmptySeq DEF NewJob, Job, Owid, Status
  <2> QED
    BY <1>1, <1>2, <2>1 DEF Verify
<1>2r. ASSUME NEW v \in Verifiers, NEW minute \in Minute, NEW signer \in Pems,
              Refuse(v, minute, signer)
       PROVE  job' \in [Verifiers -> Job]
  <2>1. NewJob(minute, signer, CreatorNow) \in Job
    BY <1>1, EmptySeq DEF NewJob, Job, Owid, Status
  <2>2. Done(NewJob(minute, signer, CreatorNow), "KEY_UNAVAILABLE") \in Job
    BY <2>1, DoneIsJob DEF Status
  <2> QED
    BY <1>1, <1>2r, <2>2 DEF Refuse
<1>3. ASSUME NEW v \in Verifiers, FindHeld(v)
      PROVE  job' \in [Verifiers -> Job]
  <2>1. PICK key \in cache : job' = [job EXCEPT ![v] = Given(job[v], Store!StatedFor(key))]
    BY <1>3 DEF FindHeld, Held, Store!HeldFor
  <2>2. Store!StatedFor(key) \in Store!KeyAnswer
    BY <1>1
    DEF Store!StatedFor, Store!KeyAnswer, Store!HeldKey, Store!Minute,
        Store!Unstated, Store!StatedSpan
  <2>3. Given(job[v], Store!StatedFor(key)) \in Job
    BY <1>1, <2>2, GivenIsJob
  <2> QED
    BY <1>1, <2>1, <2>3
<1>4. ASSUME NEW v \in Verifiers, Ask(v)
      PROVE  job' \in [Verifiers -> Job]
  <2>1. [job[v] EXCEPT !.phase = "waiting"] \in Job
    BY <1>1 DEF Job
  <2> QED
    BY <1>1, <1>4, <2>1 DEF Ask
<1>5. ASSUME NEW r \in answered, Receive(r)
      PROVE  job' \in [Verifiers -> Job]
  <2>1. Store!Stated(r.pem, r.start, r.end) \in Store!KeyAnswer
    BY <1>1
    DEF Reply, Store!Stated, Store!KeyAnswer, Store!Minute, Store!Moment,
        Store!Unstated, Store!StatedSpan, Store!BothEnds, Store!Absent, Minute
  <2>2. \A v \in Verifiers : Noting(job[v], r) \in Job
    BY <1>1 DEF Noting, Job
  <2>3. \A v \in Verifiers :
          Given(Noting(job[v], r), Store!Stated(r.pem, r.start, r.end)) \in Job
    BY <2>1, <2>2, GivenIsJob
  <2> QED
    BY <1>1, <1>5, <2>3 DEF Receive
<1>6. ASSUME NEW r \in asked \cup answered,
             NEW status \in FailureStatuses, Fail(r, status)
      PROVE  job' \in [Verifiers -> Job]
  <2>1. \A v \in Verifiers : Denied(job[v], status) \in Job
    BY <1>1, FailuresLeaveUnjudged, DeniedIsJob DEF Status
  <2> QED
    BY <1>1, <1>6, <2>1 DEF Fail
<1>7. CASE job' = job
  BY <1>1, <1>7
<1> QED
  BY <1>2, <1>2r, <1>3, <1>4, <1>5, <1>6, <1>7 DEF Next, vars, Publish, Tick, Respond

LEMMA TypeStep ==
  ASSUME TruthInv, Timely, [Next]_vars
  PROVE  TypeOK'
<1>1. states' = states
  BY DEF Next, vars, creator, Publish, Tick, Verify, Refuse, FindHeld, Ask, Respond, Receive, Fail
<1>2. ClocksOk' /\ KeysOk'
  BY InvHasClocks, Clocks, KeysStep DEF TruthInv
<1>3. Store!TypeOK'
  <2>1. CASE UNCHANGED <<cache, heldKeys, learned>>
    BY <1>2, <2>1 DEF TruthInv, TypeOK, Store!TypeOK, ClocksOk, Minute
  <2> QED
    BY <2>1, StoreChanges, StoreTypeStep
<1> QED
  BY <1>1, <1>2, <1>3, RequestsStep, JobTypeStep
  DEF TruthInv, TypeOK, ClocksOk, KeysOk

LEMMA TruthInit == Init => TruthInv
<1> SUFFICES ASSUME Init
             PROVE  TruthInv
  OBVIOUS
<1>1. PICK pem \in Pems, start \in 0 .. Period : keys = <<[start |-> start, pem |-> pem]>>
  BY DEF Init
<1>2. /\ keys \in Seq(Creator!DatedPublicKey)
      /\ DOMAIN keys = {1}
  BY <1>1, VerificationAssumption DEF Creator!DatedPublicKey
<1>3. KeysOk
  BY <1>2 DEF KeysOk
<1>4. job \in [Verifiers -> Job]
  <2>1. PICK p \in Pems : job = [v \in Verifiers |-> [NewJob(0, p, 0) EXCEPT !.phase = "done"]]
    BY DEF Init
  <2>2. [NewJob(0, p, 0) EXCEPT !.phase = "done"] \in Job
    <3>1. 0 \in Minute /\ <<>> \in Seq(Minute)
      BY EmptySeq, VerificationAssumption DEF Minute, Store!Minute
    <3>2. NewJob(0, p, 0) \in Job
      BY <3>1 DEF NewJob, Job, Owid, Status
    <3> QED
      BY <3>2 DEF Job
  <2> QED
    BY <2>1, <2>2
<1>5. Store!TypeOK /\ cache = {}
  BY DEF Init, Store!Init, Store!TypeOK
<1> QED
  BY <1>2, <1>3, <1>4, <1>5
  DEF Init, TruthInv, TypeOK, RequestsTimely, RepliesTold, CacheTrue

LEMMA TruthInvariant == ASSUME Timely PROVE Spec => []TruthInv
<1>1. TruthInv /\ [Next]_vars => TruthInv'
  <2> SUFFICES ASSUME TruthInv, [Next]_vars
               PROVE  TruthInv'
    OBVIOUS
  <2>1. KeysOk'
    BY KeysStep DEF TruthInv
  <2> QED
    BY <2>1, TypeStep, RequestsStep, CacheStep DEF TruthInv
<1> QED
  BY <1>1, TruthInit, PTL DEF Spec

\* Verifiers, requests and answers keep to their types however clocks differ,
\* where the allowance covers the skew and the latency.
THEOREM TypeCorrect == ASSUME Timely PROVE Spec => []TypeOK
<1>1. TruthInv => TypeOK
  BY DEF TruthInv
<1> QED
  BY <1>1, TruthInvariant, PTL

\* Every minute of every span in the store is one its key was in force for,
\* whatever was published since and however late the answers came.
THEOREM HeldIsTrue == ASSUME Timely PROVE Spec => []HeldSpansAreTrue
<1>1. TruthInv => HeldSpansAreTrue
  <2> SUFFICES ASSUME TruthInv, NEW k \in cache, NEW minute \in k.first .. k.last
               PROVE  InForceAt(minute) = {k.pem}
    BY DEF HeldSpansAreTrue
  <2>1. /\ k.first \in Int /\ k.last \in Int /\ KeysOk /\ ClocksOk
        /\ Settled(k.pem, k.first) /\ Settled(k.pem, k.last)
    BY InvHasClocks
    DEF TruthInv, TypeOK, Store!TypeOK, Store!HeldKey, Store!Minute, CacheTrue
  <2>2. minute \in Int /\ k.first <= minute /\ minute <= k.last
    BY <2>1
  <2> QED
    BY <2>1, <2>2, SettledBetween, SettledInForce
<1> QED
  BY <1>1, TruthInvariant, PTL

-----------------------------------------------------------------------------
(* What a signature is accepted under *)

Near(o, x) == x - o.minute <= Drift + 1 /\ o.minute - x <= Drift + 1

\* The signer's key was in force near the identifier's minute, or was the one
\* the creator was using when the identifier, dated later, was presented.
Justified(o) ==
  \E x \in Minute :
    /\ Settled(o.signer, x)
    /\ Near(o, x) \/ (x < o.minute /\ o.seen - Latency <= x)

\* A verifier asks about minutes near the identifier's and no others, and has
\* accepted nothing that is not justified.
JobFine(j) ==
  /\ Near(j.owid, j.minute)
  /\ \A i \in DOMAIN j.beyond : Near(j.owid, j.beyond[i])
  /\ j.phase # "done" => j.owid.seen <= CreatorNow
  /\ j.phase = "done" /\ j.status = "SIGNATURE_VALID" => Justified(j.owid)

JobsFine == \A v \in Verifiers : JobFine(job[v])

LEMMA JobNumbers ==
  ASSUME NEW j \in Job
  PROVE  /\ j.minute \in Int /\ j.owid.minute \in Int /\ j.owid.seen \in Int
         /\ j.minute \in 0 .. LastMinute /\ j.owid.minute \in 0 .. LastMinute
         /\ j.beyond \in Seq(Minute)
         /\ LastMinute \in Nat /\ Drift \in Nat /\ Latency \in Nat
BY VerificationAssumption DEF Job, Owid, Minute, Store!Minute

LEMMA JobFineStays ==
  ASSUME KeysOk, ClocksOk, [Next]_vars, NEW j \in Job, JobFine(j)
  PROVE  JobFine(j)'
<1>1. Justified(j.owid) => Justified(j.owid)'
  <2> SUFFICES ASSUME Justified(j.owid)
               PROVE  Justified(j.owid)'
    OBVIOUS
  <2>1. PICK x \in Minute :
          /\ Settled(j.owid.signer, x)
          /\ Near(j.owid, x) \/ (x < j.owid.minute /\ j.owid.seen - Latency <= x)
    BY DEF Justified
  <2>2. x \in Int
    BY VerificationAssumption DEF Minute, Store!Minute
  <2>3. Settled(j.owid.signer, x)'
    BY <2>1, <2>2, SettledStays
  <2> QED
    BY <2>1, <2>3 DEF Justified, Near
<1>2. /\ CreatorNow \in Int /\ CreatorNow' \in Int /\ CreatorNow <= CreatorNow'
  BY Clocks, VerificationAssumption DEF ClocksOk, CreatorNow, Minute, Store!Minute
<1>3. j.owid.seen <= CreatorNow => j.owid.seen <= CreatorNow'
  BY <1>2, JobNumbers
<1> QED
  BY <1>1, <1>3 DEF JobFine, Near

LEMMA DoneFine ==
  ASSUME NEW j \in Job, NEW status \in Status,
         status = "SIGNATURE_VALID" => Justified(j.owid)
  PROVE  JobFine(Done(j, status))
<1>1. Near(j.owid, j.owid.minute)
  BY JobNumbers DEF Near
<1>2. /\ Done(j, status).owid = j.owid /\ Done(j, status).minute = j.owid.minute
      /\ Done(j, status).beyond = <<>> /\ Done(j, status).phase = "done"
      /\ Done(j, status).status = status
  BY DEF Done, Job
<1> QED
  BY <1>1, <1>2 DEF JobFine

LEMMA NextNeighbourFine ==
  ASSUME NEW j \in Job, JobFine(j), j.phase # "done"
  PROVE  JobFine(NextNeighbour(j))
<1>1. CASE j.beyond # <<>>
  <2> DEFINE n == NextNeighbour(j)
  <2>1. /\ n.owid = j.owid /\ n.minute = Head(j.beyond) /\ n.beyond = Tail(j.beyond)
        /\ n.phase = "looking"
    BY <1>1 DEF NextNeighbour, Job
  <2>2. 1 \in DOMAIN j.beyond /\ Head(j.beyond) = j.beyond[1]
    BY <1>1, JobNumbers, HeadTailProperties, EmptySeq
  <2>3. \A i \in DOMAIN Tail(j.beyond) :
          i + 1 \in DOMAIN j.beyond /\ Tail(j.beyond)[i] = j.beyond[i + 1]
    BY <1>1, JobNumbers
  <2> HIDE DEF n
  <2>4. JobFine(n)
    BY <2>1, <2>2, <2>3 DEF JobFine
  <2> QED
    BY <2>4 DEF n
<1>2. CASE j.beyond = <<>>
  <2>1. NextNeighbour(j) \in {Done(j, "KEY_UNAVAILABLE"), Done(j, "SIGNATURE_INVALID")}
    BY <1>2 DEF NextNeighbour
  <2> QED
    BY <2>1, DoneFine DEF Status
<1> QED
  BY <1>1, <1>2

LEMMA BeyondIsNear ==
  ASSUME NEW o \in Owid, NEW answer \in Store!KeyAnswer,
         NEW i \in DOMAIN Beyond(o.minute, answer)
  PROVE  Near(o, Beyond(o.minute, answer)[i])
<1>1. /\ answer.first \in Int /\ answer.last \in Int /\ o.minute \in Int /\ Drift \in Nat
  BY VerificationAssumption DEF Store!KeyAnswer, Store!Minute, Owid, Minute
<1>2. NearEdge(o.minute, answer.first) => Near(o, answer.first - 1)
  BY <1>1 DEF NearEdge, Near
<1>3. NearEdge(o.minute, answer.last) => Near(o, answer.last + 1)
  BY <1>1 DEF NearEdge, Near
<1> DEFINE first == answer.first - 1
           last == answer.last + 1
<1>4. PICK before, after :
        /\ Beyond(o.minute, answer) = <<>> \/ Beyond(o.minute, answer) = before \o after
        /\ before = <<>> \/ (before = <<first>> /\ NearEdge(o.minute, answer.first))
        /\ after = <<>> \/ (after = <<last>> /\ NearEdge(o.minute, answer.last))
  BY Zenon DEF Beyond
<1>5. /\ first \in Int /\ last \in Int
      /\ NearEdge(o.minute, answer.first) => Near(o, first)
      /\ NearEdge(o.minute, answer.last) => Near(o, last)
  BY <1>1, <1>2, <1>3
<1> HIDE DEF first, last
<1>6. before \in Seq(Int) /\ after \in Seq(Int)
  <2>1. <<>> \in Seq(Int) /\ <<first>> \in Seq(Int) /\ <<last>> \in Seq(Int)
    BY <1>5
  <2> QED
    BY <1>4, <2>1
<1>7. ASSUME NEW k \in DOMAIN (before \o after)
      PROVE  Near(o, (before \o after)[k])
  <2>1. /\ Len(before) \in Nat /\ Len(after) \in Nat /\ k \in 1 .. Len(before) + Len(after)
        /\ (before \o after)[k] = IF k <= Len(before) THEN before[k]
                                  ELSE after[k - Len(before)]
    BY <1>6, <1>7, ConcatProperties, LenProperties
  <2>2. k <= Len(before) => Near(o, before[k])
    BY <1>4, <1>5, <2>1
  <2>3. ~ k <= Len(before) => Near(o, after[k - Len(before)])
    BY <1>4, <1>5, <2>1
  <2> QED
    BY <2>1, <2>2, <2>3
<1> QED
  BY <1>4, <1>7

LEMMA GivenFine ==
  ASSUME NEW j \in Job, NEW answer \in Store!KeyAnswer, JobFine(j), j.phase # "done",
         answer.pem = j.owid.signer => Justified(j.owid)
  PROVE  JobFine(Given(j, answer))
<1>1. CASE answer.pem = j.owid.signer
  BY <1>1, DoneFine DEF Given, Status
<1>2. CASE answer.pem # j.owid.signer /\ j.tried = {}
  <2> DEFINE n == [j EXCEPT !.tried = {answer}, !.beyond = Beyond(j.owid.minute, answer)]
  <2>1. Beyond(j.owid.minute, answer) \in Seq(Minute)
    BY BeyondIsMinutes DEF Job, Owid
  <2>2. n \in Job
    BY <2>1 DEF Job
  <2>3. /\ n.owid = j.owid /\ n.minute = j.minute /\ n.phase = j.phase
        /\ n.beyond = Beyond(j.owid.minute, answer)
    BY DEF Job
  <2>4. j.owid \in Owid
    BY DEF Job
  <2> HIDE DEF n
  <2>5. JobFine(n)
    BY <2>3, <2>4, BeyondIsNear DEF JobFine
  <2>6. Given(j, answer) = NextNeighbour(n)
    BY <1>2 DEF Given, n
  <2> QED
    BY <2>2, <2>3, <2>5, <2>6, NextNeighbourFine
<1>3. CASE answer.pem # j.owid.signer /\ j.tried # {}
  BY <1>3, NextNeighbourFine DEF Given
<1> QED
  BY <1>1, <1>2, <1>3

LEMMA DeniedFine ==
  ASSUME NEW j \in Job, NEW status \in {"KEY_UNAVAILABLE", "INVALID_KEY"},
         JobFine(j), j.phase # "done"
  PROVE  JobFine(Denied(j, status))
<1> DEFINE n == [j EXCEPT !.missed = j.missed \cup {"failed"}]
<1>1. /\ n \in Job /\ n.owid = j.owid /\ n.minute = j.minute /\ n.phase = j.phase
      /\ n.beyond = j.beyond
  BY DEF Job
<1>2. Denied(j, status) = IF j.tried = {} THEN Done(j, status) ELSE NextNeighbour(n)
  BY DEF Denied
<1> HIDE DEF n
<1>3. JobFine(n)
  BY <1>1 DEF JobFine
<1> QED
  BY <1>1, <1>2, <1>3, DoneFine, NextNeighbourFine DEF Status

\* An answer that arrives justifies the key it brings.
LEMMA ReplyJustifies ==
  ASSUME TruthInv, NEW r \in answered, NEW j \in Job, JobFine(j), j.phase # "done",
         j.minute = r.minute, r.pem = j.owid.signer
  PROVE  Justified(j.owid)
<1> PICK c \in Int : Told(r, c)
  BY DEF TruthInv, RepliesTold
<1> DEFINE x == Store!Earlier(r.minute, c)
<1>1. /\ r.sent \in Int /\ now \in Int /\ ahead \in Int /\ now <= r.sent + Latency
      /\ r.sent + ahead <= c /\ j.owid.seen <= now + ahead /\ Near(j.owid, r.minute)
      /\ r.minute \in 0 .. LastMinute
  BY InvHasClocks, JobNumbers
  DEF TruthInv, TypeOK, Store!TypeOK, Reply, Request, Store!Minute, Minute, ClocksOk,
      RequestsTimely, Told, JobFine, CreatorNow
<1>2. Settled(r.pem, x) /\ x \in Int
  BY <1>1 DEF Told, Store!Earlier
<1>3. 0 <= x
  <2>1. PICK i \in DOMAIN keys : keys[i].start <= x
    BY <1>2 DEF Settled
  <2> QED
    BY <1>2, <2>1, KeyFacts DEF TruthInv
<1>4. x \in Minute
  BY <1>1, <1>2, <1>3, VerificationAssumption DEF Minute, Store!Minute, Store!Earlier
<1>5. Near(j.owid, x) \/ (x < j.owid.minute /\ j.owid.seen - Latency <= x)
  <2>1. /\ j.owid.minute \in Int /\ j.owid.seen \in Int /\ r.minute \in Int
        /\ Latency \in Nat /\ Drift \in Nat
    BY <1>1, JobNumbers
  <2>2. CASE r.minute <= c
    BY <1>1, <2>2 DEF Store!Earlier
  <2>3. CASE c < r.minute
    <3>1. x = c
      BY <2>1, <2>3 DEF Store!Earlier
    <3>2. j.owid.seen - Latency <= c
      BY <1>1, <2>1
    <3>3. CASE c < j.owid.minute
      BY <3>1, <3>2, <3>3
    <3>4. CASE j.owid.minute <= c
      BY <1>1, <2>1, <2>3, <3>1, <3>4 DEF Near
    <3> QED
      BY <2>1, <3>3, <3>4
  <2> QED
    BY <2>1, <2>2, <2>3
<1> QED
  BY <1>2, <1>4, <1>5 DEF Justified

\* So does a key held for the minute, whoever asked for it and when.
LEMMA HeldJustifies ==
  ASSUME TruthInv, NEW key \in cache, NEW j \in Job, JobFine(j),
         Store!Covers(key, j.minute), key.pem = j.owid.signer
  PROVE  Justified(j.owid)
<1>1. /\ key.first \in Int /\ key.last \in Int /\ KeysOk /\ ClocksOk
      /\ Settled(key.pem, key.first) /\ Settled(key.pem, key.last)
  BY InvHasClocks
  DEF TruthInv, TypeOK, Store!TypeOK, Store!HeldKey, Store!Minute, CacheTrue
<1>2. Settled(key.pem, j.minute)
  BY <1>1, JobNumbers, SettledBetween DEF Store!Covers
<1>3. j.minute \in Minute
  BY DEF Job
<1> QED
  BY <1>2, <1>3 DEF Justified, JobFine

LEMMA JobsStep ==
  ASSUME TruthInv, JobsFine, [Next]_vars
  PROVE  JobsFine'
<1>1. /\ job \in [Verifiers -> Job] /\ job' \in [Verifiers -> Job]
      /\ answered \subseteq Reply /\ cache \subseteq Store!HeldKey /\ KeysOk /\ ClocksOk
      /\ \A v \in Verifiers : job[v] \in Job /\ JobFine(job[v])
  BY JobTypeStep, InvHasClocks DEF TruthInv, TypeOK, Store!TypeOK, JobsFine
<1>2. CASE \A v \in Verifiers : JobFine(job'[v])
  <2>1. ASSUME NEW j \in Job, JobFine(j)
        PROVE  JobFine(j)'
    BY <1>1, <2>1, JobFineStays
  <2> QED
    BY <1>1, <1>2, <2>1 DEF JobsFine
<1>3. ASSUME NEW v \in Verifiers, NEW minute \in Minute, NEW signer \in Pems,
             Verify(v, minute, signer)
      PROVE  \A u \in Verifiers : JobFine(job'[u])
  <2> DEFINE n == NewJob(minute, signer, CreatorNow)
  <2>1. /\ n.owid.minute = minute /\ n.minute = minute /\ n.phase = "looking"
        /\ n.owid.seen = CreatorNow /\ n.beyond = <<>>
    BY DEF NewJob
  <2>2. minute \in Int /\ Drift \in Nat /\ CreatorNow \in Int
    BY <1>1, VerificationAssumption DEF Minute, Store!Minute, ClocksOk, CreatorNow
  <2> HIDE DEF n
  <2>3. JobFine(n)
    BY <2>1, <2>2 DEF JobFine, Near
  <2>4. job' = [job EXCEPT ![v] = n]
    BY <1>3 DEF Verify, n
  <2> QED
    BY <1>1, <2>3, <2>4
<1>3r. ASSUME NEW v \in Verifiers, NEW minute \in Minute, NEW signer \in Pems,
              Refuse(v, minute, signer)
       PROVE  \A u \in Verifiers : JobFine(job'[u])
  <2> DEFINE n == NewJob(minute, signer, CreatorNow)
  <2>1. n \in Job
    BY <1>1, EmptySeq, VerificationAssumption
    DEF NewJob, Job, Owid, Status, ClocksOk, CreatorNow, Minute, Store!Minute
  <2>2. job' = [job EXCEPT ![v] = Done(n, "KEY_UNAVAILABLE")]
    BY <1>3r DEF Refuse
  <2> HIDE DEF n
  <2>3. JobFine(Done(n, "KEY_UNAVAILABLE"))
    BY <2>1, DoneFine DEF Status
  <2> QED
    BY <1>1, <2>2, <2>3
<1>4. ASSUME NEW v \in Verifiers, FindHeld(v)
      PROVE  \A u \in Verifiers : JobFine(job'[u])
  <2>1. PICK key \in cache :
          /\ Store!Covers(key, job[v].minute)
          /\ job' = [job EXCEPT ![v] = Given(job[v], Store!StatedFor(key))]
    BY <1>4 DEF FindHeld, Held, Store!HeldFor
  <2>2. Store!StatedFor(key) \in Store!KeyAnswer /\ Store!StatedFor(key).pem = key.pem
    BY <1>1, VerificationAssumption
    DEF Store!StatedFor, Store!KeyAnswer, Store!HeldKey, Store!Minute,
        Store!Unstated, Store!StatedSpan
  <2>3. job[v].phase # "done"
    BY <1>4 DEF FindHeld
  <2>4. JobFine(Given(job[v], Store!StatedFor(key)))
    BY <1>1, <2>1, <2>2, <2>3, HeldJustifies, GivenFine
  <2> QED
    BY <1>1, <2>1, <2>4
<1>5. ASSUME NEW v \in Verifiers, Ask(v)
      PROVE  \A u \in Verifiers : JobFine(job'[u])
  <2> DEFINE n == [job[v] EXCEPT !.phase = "waiting"]
  <2>1. /\ n.owid = job[v].owid /\ n.minute = job[v].minute /\ n.phase = "waiting"
        /\ n.beyond = job[v].beyond /\ job[v].phase = "looking"
    BY <1>1, <1>5 DEF Ask, Job
  <2>2. job' = [job EXCEPT ![v] = n]
    BY <1>5 DEF Ask
  <2> HIDE DEF n
  <2>3. JobFine(n)
    BY <1>1, <2>1 DEF JobFine
  <2> QED
    BY <1>1, <2>2, <2>3
<1>6. ASSUME NEW r \in answered, Receive(r)
      PROVE  \A u \in Verifiers : JobFine(job'[u])
  <2> SUFFICES ASSUME NEW u \in Verifiers
               PROVE  JobFine(job'[u])
    OBVIOUS
  <2> DEFINE n == Noting(job[u], r)
  <2>1. /\ n \in Job /\ n.owid = job[u].owid /\ n.minute = job[u].minute
        /\ n.phase = job[u].phase /\ n.beyond = job[u].beyond /\ n.status = job[u].status
    BY <1>1 DEF Noting, Job
  <2>2. JobFine(n)
    BY <1>1, <2>1 DEF JobFine
  <2>3. /\ Store!Stated(r.pem, r.start, r.end) \in Store!KeyAnswer
        /\ Store!Stated(r.pem, r.start, r.end).pem = r.pem
    BY <1>1, VerificationAssumption
    DEF Reply, Store!Stated, Store!KeyAnswer, Store!Minute, Store!Moment,
        Store!Unstated, Store!StatedSpan, Store!BothEnds, Store!Absent, Minute
  <2>4. CASE u \in Waiting(r.minute)
    <3>1. n.phase # "done" /\ n.minute = r.minute
      BY <2>1, <2>4 DEF Waiting
    <3>2. job'[u] = Given(n, Store!Stated(r.pem, r.start, r.end))
      BY <1>6, <2>4 DEF Receive
    <3> HIDE DEF n
    <3> QED
      BY <2>1, <2>2, <2>3, <3>1, <3>2, ReplyJustifies, GivenFine
  <2>5. CASE u \notin Waiting(r.minute)
    BY <1>1, <1>6, <2>5 DEF Receive
  <2> QED
    BY <2>4, <2>5
<1>7. ASSUME NEW r \in asked \cup answered,
             NEW status \in FailureStatuses, Fail(r, status)
      PROVE  \A u \in Verifiers : JobFine(job'[u])
  <2> SUFFICES ASSUME NEW u \in Verifiers
               PROVE  JobFine(job'[u])
    OBVIOUS
  <2>1. CASE u \in Waiting(r.minute)
    <3>1. job[u].phase # "done"
      BY <2>1 DEF Waiting
    <3> QED
      BY <1>1, <1>7, <2>1, <3>1, FailuresLeaveUnjudged, DeniedFine DEF Fail
  <2>2. CASE u \notin Waiting(r.minute)
    BY <1>1, <1>7, <2>2 DEF Fail
  <2> QED
    BY <2>1, <2>2
<1>8. CASE job' = job
  BY <1>1, <1>2, <1>8
<1> QED
  BY <1>2, <1>3, <1>3r, <1>4, <1>5, <1>6, <1>7, <1>8
  DEF Next, vars, Publish, Tick, Respond

LEMMA JobsInvariant == ASSUME Timely PROVE Spec => []JobsFine
<1>1. Init => JobsFine
  <2> SUFFICES ASSUME Init
               PROVE  JobsFine
    OBVIOUS
  <2>1. PICK p \in Pems : job = [v \in Verifiers |-> [NewJob(0, p, 0) EXCEPT !.phase = "done"]]
    BY DEF Init
  <2> DEFINE n == [NewJob(0, p, 0) EXCEPT !.phase = "done"]
  <2>2. /\ n.owid.minute = 0 /\ n.minute = 0 /\ n.phase = "done" /\ n.beyond = <<>>
        /\ n.status # "SIGNATURE_VALID"
    BY DEF NewJob
  <2> HIDE DEF n
  <2>3. JobFine(n)
    BY <2>2, VerificationAssumption DEF JobFine, Near
  <2> QED
    BY <2>1, <2>3 DEF JobsFine, n
<1>2. TruthInv /\ JobsFine /\ [Next]_vars => JobsFine'
  BY JobsStep
<1> QED
  BY <1>1, <1>2, TruthInvariant, PTL DEF Spec

\* No signature is accepted under a key that was not in force close to the
\* identifier's minute, or close to its presentation where it is dated later.
THEOREM AcceptedWasInForce == ASSUME Timely PROVE Spec => []AcceptedKeyWasInForce
<1>1. TruthInv /\ JobsFine => AcceptedKeyWasInForce
  <2> SUFFICES ASSUME TruthInv, JobsFine, NEW v \in Verifiers,
                      job[v].phase = "done", job[v].status = "SIGNATURE_VALID"
               PROVE  \E x \in Minute :
                        /\ job[v].owid.signer \in InForceAt(x)
                        /\ \/ x - job[v].owid.minute <= Drift + 1
                              /\ job[v].owid.minute - x <= Drift + 1
                           \/ x < job[v].owid.minute /\ job[v].owid.seen - Latency <= x
    BY DEF AcceptedKeyWasInForce
  <2>1. Justified(job[v].owid)
    BY DEF JobsFine, JobFine
  <2>2. PICK x \in Minute :
          /\ Settled(job[v].owid.signer, x)
          /\ \/ Near(job[v].owid, x)
             \/ x < job[v].owid.minute /\ job[v].owid.seen - Latency <= x
    BY <2>1 DEF Justified
  <2>3. x \in Int
    BY VerificationAssumption DEF Minute, Store!Minute
  <2>4. InForceAt(x) = {job[v].owid.signer}
    BY <2>2, <2>3, SettledInForce DEF TruthInv
  <2> QED
    BY <2>2, <2>4 DEF Near
<1> QED
  BY <1>1, JobsInvariant, TruthInvariant, PTL
=============================================================================
