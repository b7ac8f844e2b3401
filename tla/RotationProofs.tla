--------------------------- MODULE RotationProofs ---------------------------
(***************************************************************************)
(* Proved for any schedule, any clock and any resolution of the two: the   *)
(* surfaces that judge an identifier agree, and of genuine identifiers a   *)
(* client denies only those dated before the minute within which their key *)
(* starts.                                                                 *)
(***************************************************************************)
EXTENDS RotationClients, CreatorEndPointProofs

-----------------------------------------------------------------------------
(* Whole minutes *)

LEMMA MinuteHolds ==
  ASSUME NEW t \in Nat
  PROVE  /\ t \div MinuteTicks \in Nat
         /\ (t \div MinuteTicks) * MinuteTicks <= t
         /\ t < (t \div MinuteTicks) * MinuteTicks + MinuteTicks
         /\ t % MinuteTicks = 0 => (t \div MinuteTicks) * MinuteTicks = t
<1> DEFINE M == MinuteTicks
<1>0. M \in Nat /\ M > 0
  BY ResolutionAssumption
<1>1. t = M * (t \div M) + (t % M) /\ 0 <= t % M /\ t % M < M /\ t \div M \in Nat
  BY <1>0
<1> QED
  BY <1>0, <1>1

\* Moments so many minutes apart are dated no less apart.
LEMMA MinutesApart ==
  ASSUME NEW s \in Nat, NEW t \in Nat, NEW k \in Nat, s + k * MinuteTicks <= t
  PROVE  s \div MinuteTicks + k <= t \div MinuteTicks
<1> DEFINE M == MinuteTicks
           p == s \div M
           q == t \div M
<1>1. M \in Nat /\ p \in Nat /\ q \in Nat /\ p * M <= s /\ t < q * M + M
  BY ResolutionAssumption, MinuteHolds
<1> HIDE DEF p, q
<1>2. SUFFICES ASSUME q < p + k
               PROVE  FALSE
  BY <1>1 DEF p, q
<1>3. M * q + M <= M * (p + k)
  BY <1>1, <1>2, GroupsApart
<1>4. M * (p + k) = p * M + k * M /\ M * q = q * M
  BY <1>1
<1> QED
  BY <1>1, <1>3, <1>4

\* A minute begins with a second, and is no shorter than one.
LEMMA WholeMinute ==
  ASSUME NEW m \in Nat
  PROVE  /\ m * MinuteTicks \in Nat /\ Text(m * MinuteTicks) = m * MinuteTicks
         /\ \A t \in Nat : Text(t) = m * MinuteTicks => t < m * MinuteTicks + MinuteTicks
<1> DEFINE M == MinuteTicks
           S == SecondTicks
           k == M \div S
<1>1. /\ M \in Nat /\ M > 0 /\ S \in Nat /\ S > 0 /\ M % S = 0
      /\ k \in Nat /\ M = S * k
  BY ResolutionAssumption
<1> HIDE DEF k
<1>2. k > 0
  BY <1>1
<1>3. S <= M
  <2>1. S * 0 + S <= S * k
    BY <1>1, <1>2, GroupsApart
  <2> QED
    BY <1>1, <2>1
<1>4. m * k \in Nat /\ m * M = S * (m * k) /\ m * M \in Nat
  BY <1>1
<1>5. (S * (m * k)) % S = 0
  <2>1. PICK c \in Nat : c = m * k
    BY <1>4
  <2>2. (S * c) % S = 0
    BY <1>1
  <2> QED
    BY <2>1, <2>2
<1>6. Text(m * M) = m * M
  <2>1. (m * M) % S = 0
    BY <1>4, <1>5
  <2>2. PICK t \in Nat : t = m * M
    BY <1>4
  <2> QED
    BY <2>1, <2>2 DEF Text, Never
<1>7. ASSUME NEW t \in Nat, Text(t) = m * M
      PROVE  t < m * M + M
  <2>1. Text(t) = t - (t % S) /\ t % S < S /\ t % S \in Int
    BY <1>1 DEF Text, Never
  <2>2. PICK x \in Nat, y \in Int : x = m * M /\ y = t % S
    BY <1>4, <2>1
  <2> QED
    BY <1>1, <1>3, <1>7, <2>1, <2>2
<1> QED
  BY <1>4, <1>6, <1>7

LEMMA MinutesGrow ==
  ASSUME NEW s \in Nat, NEW t \in Nat, s <= t
  PROVE  s \div MinuteTicks <= t \div MinuteTicks
<1>1. s + 0 * MinuteTicks <= t /\ s \div MinuteTicks \in Nat
  BY ResolutionAssumption, MinuteHolds
<1> QED
  BY <1>1, MinutesApart

\* What is before a minute is dated before it.
LEMMA BeforeMinute ==
  ASSUME NEW t \in Nat, NEW q \in Int, t < q * MinuteTicks
  PROVE  t \div MinuteTicks < q
<1> DEFINE p == t \div MinuteTicks
<1>1. p \in Nat /\ p * MinuteTicks <= t /\ MinuteTicks \in Nat
  BY ResolutionAssumption, MinuteHolds
<1> HIDE DEF p
<1>2. CASE q = p
  BY <1>1, <1>2
<1>3. CASE q < p
  <2>1. MinuteTicks * q + MinuteTicks <= MinuteTicks * p
    BY <1>1, <1>3, GroupsApart
  <2>2. MinuteTicks * q = q * MinuteTicks /\ MinuteTicks * p = p * MinuteTicks
    BY <1>1
  <2> QED
    BY <1>1, <2>1, <2>2
<1> QED
  BY <1>1, <1>2, <1>3 DEF p

\* Cutting a moment to its second leaves the minute it lies in.
LEMMA MinuteOfText ==
  ASSUME NEW t \in Nat
  PROVE  Text(t) \in Nat /\ Text(t) \div MinuteTicks = t \div MinuteTicks
<1> DEFINE M == MinuteTicks
           p == t \div M
<1>1. /\ M \in Nat /\ M > 0 /\ p \in Nat /\ p * M \in Nat
      /\ p * M <= t /\ t < p * M + M
  BY ResolutionAssumption, MinuteHolds
<1> HIDE DEF p
<1>2. Text(p * M) = p * M
  BY <1>1, WholeMinute
<1>3. Text(t) \in Nat /\ p * M <= Text(t) /\ Text(t) <= t
  BY <1>1, <1>2, TextGrows
<1> DEFINE x == Text(t)
           q == x \div M
<1>4. q \in Nat /\ q * M <= x /\ x < q * M + M
  BY <1>1, <1>3, MinuteHolds
<1> HIDE DEF x, q
<1>5. M * p = p * M /\ M * q = q * M
  BY <1>1, <1>4
<1>6. q = p
  <2>1. CASE q < p
    <3>1. M * q + M <= M * p
      BY <1>1, <1>4, <2>1, GroupsApart
    <3> QED
      BY <1>1, <1>3, <1>4, <1>5, <3>1 DEF x
  <2>2. CASE p < q
    <3>1. M * p + M <= M * q
      BY <1>1, <1>4, <2>2, GroupsApart
    <3> QED
      BY <1>1, <1>3, <1>4, <1>5, <3>1 DEF x
  <2> QED
    BY <1>1, <1>4, <2>1, <2>2
<1> QED
  BY <1>3, <1>6 DEF p, q, x

-----------------------------------------------------------------------------
(* What a client reads *)

LEMMA StatedPem ==
  ASSUME NEW pem, NEW start, NEW end
  PROVE  Client!Stated(pem, start, end).pem = pem
BY DEF Client!Stated, Client!Unstated, Client!StatedSpan

LEMMA AskedFor ==
  ASSUME EndPointInv, Datable, NEW date \in Nat, date * MinuteTicks <= moment
  PROVE  Asked(date, moment) = date * MinuteTicks
BY AskedHasCome DEF EndPointInv, TypeOK

\* Each answer read is about a key in force at the moment answered for.
LEMMA AnswerRead ==
  ASSUME NEW date, NEW answer \in AnswersFor(date)
  PROVE  \E j \in DOMAIN keys :
           /\ InForce(keys, j, Asked(date, moment))
           /\ answer.pem = keys[j].pem
           /\ answer = Client!Stated(keys[j].pem, Minutes(Answer(keys, keys[j]).from),
                                     Minutes(Answer(keys, keys[j]).to))
<1>1. PICK a \in Selected(keys, date, moment) :
        answer = Client!Stated(a.pem, Minutes(a.from), Minutes(a.to))
  BY DEF AnswersFor
<1>2. PICK j \in DOMAIN keys :
        a = Answer(keys, keys[j]) /\ InForce(keys, j, Asked(date, moment))
  BY DEF Selected
<1>3. a.pem = keys[j].pem
  BY <1>2 DEF Answer
<1> QED
  BY <1>1, <1>2, <1>3, StatedPem

\* The key in force at a minute that has come is read by who asks about it,
\* unless another starts within its first second.
LEMMA InForceIsRead ==
  ASSUME EndPointInv, Datable, NEW date \in Nat, date * MinuteTicks <= moment,
         NEW i, InForce(keys, i, date * MinuteTicks),
         ~StartsWithinSecond(date * MinuteTicks)
  PROVE  \E answer \in AnswersFor(date) : answer.pem = keys[i].pem
<1> DEFINE a == Answer(keys, keys[i])
           answer == Client!Stated(a.pem, Minutes(a.from), Minutes(a.to))
<1>1. Asked(date, moment) = date * MinuteTicks /\ date * MinuteTicks \in Nat
  BY AskedFor, ResolutionAssumption
<1>2. i \in DOMAIN keys
  BY DEF InForce
<1>3. a \in Selected(keys, date, moment)
  BY <1>1, <1>2 DEF Selected
<1>4. Validated(a, Asked(date, moment))
  BY <1>1, InForcePasses
<1>5. a.pem = keys[i].pem
  BY DEF Answer
<1> HIDE DEF a
<1>6. answer \in AnswersFor(date)
  BY <1>3, <1>4 DEF AnswersFor
<1>7. answer.pem = keys[i].pem
  BY <1>5, StatedPem
<1> QED
  BY <1>6, <1>7

\* A key read about a neighbouring minute is tried.
LEMMA NeighbourIsTried ==
  ASSUME NEW date, NEW answer, NEW m \in Range(Beyond(date, answer)),
         NEW other \in AnswersFor(m)
  PROVE  other.pem \in Tried(date, answer)
<1>1. other \in UNION {AnswersFor(n) : n \in Range(Beyond(date, answer))}
  OBVIOUS
<1> QED
  BY <1>1 DEF Tried

-----------------------------------------------------------------------------
(* The two surfaces *)

\* The schedule and a client with nothing held do not contradict each other
\* about a date that has come.
THEOREM Agreement ==
  ASSUME Datable PROVE Spec => []SurfacesAgree
<1>1. EndPointInv => SurfacesAgree
  <2> SUFFICES ASSUME EndPointInv, NEW date \in OwidDates, NEW signer \in Pems,
                      date * MinuteTicks <= moment
               PROVE  /\ ScheduleAccepts(date, signer)
                           /\ ~StartsWithinSecond(date * MinuteTicks) =>
                             ClientAccepts(date, signer)
                      /\ ClientDenies(date, signer) => ScheduleDenies(date, signer)
    BY DEF SurfacesAgree
  <2> DEFINE at == date * MinuteTicks
  <2>1. date \in Nat /\ at \in Nat /\ TypeOK
    BY ResolutionAssumption, StartsAssumption DEF OwidDates, Dates, EndPointInv
  <2>2. Asked(date, moment) = at
    BY <2>1, AskedFor
  <2>3. ASSUME ScheduleAccepts(date, signer), ~StartsWithinSecond(at)
        PROVE  ClientAccepts(date, signer)
    <3>1. PICK i \in DOMAIN keys : InForce(keys, i, at) /\ keys[i].pem = signer
      BY <2>3 DEF ScheduleAccepts, KeyFor
    <3>2. \E answer \in AnswersFor(date) : answer.pem = signer
      BY <2>1, <2>3, <3>1, InForceIsRead
    <3> QED
      BY <3>2 DEF ClientAccepts, Tried
  <2>4. ASSUME ClientDenies(date, signer)
        PROVE  ScheduleDenies(date, signer)
    <3>1. PICK answer \in AnswersFor(date) : signer \notin Tried(date, answer)
      BY <2>4 DEF ClientDenies
    <3>2. PICK j \in DOMAIN keys : InForce(keys, j, at) /\ answer.pem = keys[j].pem
      BY <2>2, AnswerRead
    <3>3. signer # keys[j].pem
      BY <3>1, <3>2 DEF Tried
    <3> HIDE DEF at
    <3>4. \A i \in DOMAIN keys : InForce(keys, i, at) => i = j
      BY <2>1, <3>2, OneInForce
    <3>5. KeyFor(date) = {keys[j].pem}
      BY <3>2, <3>4 DEF KeyFor, at
    <3> QED
      BY <3>3, <3>5 DEF ScheduleDenies
  <2> QED
    BY <2>3, <2>4
<1> QED
  BY <1>1, EndPointInvariant, PTL

-----------------------------------------------------------------------------
(* Genuine identifiers *)

LEMMA EdgesTried ==
  ASSUME NEW date \in Nat, NEW answer, answer.known,
         answer.first \in Nat, answer.last \in Nat
  PROVE  /\ answer.first > 0 /\ NearEdge(date, answer.first) =>
              answer.first - 1 \in Range(Beyond(date, answer))
         /\ answer.last < LastMinute /\ NearEdge(date, answer.last) =>
              answer.last + 1 \in Range(Beyond(date, answer))
<1> DEFINE A == IF answer.first > 0 /\ NearEdge(date, answer.first)
                  THEN <<answer.first - 1>> ELSE <<>>
           B == IF answer.last < LastMinute /\ NearEdge(date, answer.last)
                  THEN <<answer.last + 1>> ELSE <<>>
<1>1. A \in Seq(Int) /\ B \in Seq(Int)
  OBVIOUS
<1>2. Beyond(date, answer) = A \o B
  BY DEF Beyond
<1>3. /\ answer.first > 0 /\ NearEdge(date, answer.first) =>
           Len(A) = 1 /\ A[1] = answer.first - 1
      /\ answer.last < LastMinute /\ NearEdge(date, answer.last) =>
           Len(B) = 1 /\ B[1] = answer.last + 1
  OBVIOUS
<1> HIDE DEF A, B
<1>4. /\ A \o B \in Seq(Int) /\ Len(A \o B) = Len(A) + Len(B)
      /\ \A n \in 1 .. Len(A) + Len(B) :
           (A \o B)[n] = IF n <= Len(A) THEN A[n] ELSE B[n - Len(A)]
      /\ Len(A) \in Nat /\ Len(B) \in Nat
  BY <1>1, ConcatProperties, LenProperties
<1>5. DOMAIN (A \o B) = 1 .. Len(A) + Len(B)
  BY <1>4, LenProperties
<1>6. ASSUME Len(A) = 1
      PROVE  A[1] \in Range(A \o B)
  <2>1. 1 \in DOMAIN (A \o B) /\ (A \o B)[1] = A[1]
    BY <1>4, <1>5, <1>6
  <2> QED
    BY <2>1 DEF Range
<1>7. ASSUME Len(B) = 1
      PROVE  B[1] \in Range(A \o B)
  <2>1. Len(A) + 1 \in DOMAIN (A \o B) /\ (A \o B)[Len(A) + 1] = B[1]
    BY <1>4, <1>5, <1>7
  <2> QED
    BY <2>1 DEF Range
<1> QED
  BY <1>2, <1>3, <1>6, <1>7

\* The answer about a key that keeps two minutes or longer, in whole minutes.
LEMMA AnswerInMinutes ==
  ASSUME EndPointInv, Spaced(2 * MinuteTicks), NEW j \in DOMAIN keys,
         NEW answer,
         answer = Client!Stated(keys[j].pem, Minutes(Answer(keys, keys[j]).from),
                                Minutes(Answer(keys, keys[j]).to))
  PROVE  /\ answer.known
         /\ answer.first = keys[j].start \div MinuteTicks
         /\ answer.first \in Nat /\ answer.last \in Nat
         /\ NextStartAfter(keys, keys[j]) # Never =>
              answer.last = NextStartAfter(keys, keys[j]) \div MinuteTicks - 1
<1> DEFINE n == NextStartAfter(keys, keys[j])
           first == keys[j].start \div MinuteTicks
           end == n \div MinuteTicks
<1>1. TypeOK /\ LastMinute \in Nat /\ MinuteTicks \in Nat
  BY ClientAssumption, ResolutionAssumption DEF EndPointInv
<1>2. keys[j].start \in Nat /\ first \in Nat
  BY <1>1, ScheduleFacts, MinuteHolds
<1>3. n # Never => n \in Nat /\ first + 2 <= end /\ end \in Nat
  <2> SUFFICES ASSUME n # Never
               PROVE  n \in Nat /\ first + 2 <= end /\ end \in Nat
    OBVIOUS
  <2>1. PICK l \in DOMAIN keys : n = keys[l].start /\ n \in Nat /\ keys[j].start < n
    BY <1>1, NextIsEarliest
  <2> HIDE DEF n
  <2>2. keys[j].start + 2 * MinuteTicks <= n
    BY <1>2, <2>1 DEF Spaced
  <2> QED
    BY <1>2, <2>1, <2>2, MinutesApart, MinuteHolds
<1> DEFINE from == Text(keys[j].start)
           to == Text(n)
<1>4. Answer(keys, keys[j]).from = from /\ Answer(keys, keys[j]).to = to
  BY DEF Answer
<1>5. Minutes(from) = first /\ first # Client!Absent
  <2>1. from \in Nat /\ from \div MinuteTicks = first
    BY <1>2, MinuteOfText
  <2> HIDE DEF from
  <2> QED
    BY <1>2, <2>1 DEF Minutes, Never, Client!Absent
<1>8. n # Never => to \in Nat /\ to \div MinuteTicks = end
  BY <1>3, MinuteOfText
<1>9. n = Never => to = Never
  BY DEF Text
<1> HIDE DEF n, first, end, from, to
<1>6. CASE n = Never
  <2>1. Minutes(to) = Client!Absent
    BY <1>6, <1>9 DEF Minutes
  <2>2. answer = Client!StatedSpan(keys[j].pem, first, LastMinute)
    BY <1>4, <1>5, <2>1 DEF Client!Stated, Client!BothEnds
  <2> QED
    BY <1>1, <1>2, <1>6, <2>2 DEF Client!StatedSpan, n, first
<1>7. CASE n # Never
  <2>1. Minutes(to) = end /\ end # Client!Absent /\ end > first
    BY <1>2, <1>3, <1>7, <1>8 DEF Minutes, Never, Client!Absent
  <2>2. answer = Client!StatedSpan(keys[j].pem, first, end - 1)
    BY <1>4, <1>5, <2>1 DEF Client!Stated, Client!BothEnds
  <2> QED
    BY <1>2, <1>3, <1>7, <2>2 DEF Client!StatedSpan, n, first, end
<1> QED
  BY <1>6, <1>7

LEMMA StartsApart ==
  ASSUME EndPointInv, Spaced(2 * MinuteTicks), NEW i \in DOMAIN keys,
         NEW j \in DOMAIN keys, keys[i].start = keys[j].start
  PROVE  i = j
<1>1. keys[i].start \in Nat /\ MinuteTicks \in Nat /\ MinuteTicks > 0
  BY ScheduleFacts, ResolutionAssumption DEF EndPointInv
<1>2. i # j => keys[i].start + 2 * MinuteTicks <= keys[j].start
  BY <1>1 DEF Spaced
<1> QED
  BY <1>1, <1>2

\* A client that asks about a minute at which the signer's key was in force,
\* and which is beyond an edge it asks beyond, tries that key.
LEMMA FoundBeyond ==
  ASSUME EndPointInv, Datable, NEW date, NEW answer, NEW m \in Nat,
         m \in Range(Beyond(date, answer)), m * MinuteTicks <= moment,
         NEW i, InForce(keys, i, m * MinuteTicks),
         ~StartsWithinSecond(m * MinuteTicks)
  PROVE  keys[i].pem \in Tried(date, answer)
<1>1. PICK other \in AnswersFor(m) : other.pem = keys[i].pem
  BY InForceIsRead
<1> QED
  BY <1>1, NeighbourIsTried

\* Signed before the selected key started, as the signer's clock had it.
LEMMA EarlierKeyIsTried ==
  ASSUME EndPointInv, Datable, LongLived, NEW date \in OwidDates,
         NEW time \in 0 .. moment, NearEdge(date, Date(time)),
         NEW i, InForce(keys, i, time), NEW j, InForce(keys, j, Asked(date, moment)),
         NEW answer,
         answer = Client!Stated(keys[j].pem, Minutes(Answer(keys, keys[j]).from),
                                Minutes(Answer(keys, keys[j]).to)),
         Client!Covers(answer, date), keys[i].start < keys[j].start
  PROVE  keys[i].pem \in Tried(date, answer)
<1> DEFINE M == MinuteTicks
           first == keys[j].start \div M
           before == first - 1
<1>1. /\ M \in Nat /\ M > 0 /\ Drift \in Nat /\ date \in Nat /\ time \in Nat
      /\ date <= MaximumMinutes /\ moment \in Nat /\ moment <= LastMoment
      /\ TypeOK /\ i \in DOMAIN keys /\ j \in DOMAIN keys /\ MaximumMinutes \in Nat
  BY ResolutionAssumption, ClientAssumption, StartsAssumption
  DEF EndPointInv, TypeOK, OwidDates, Dates, InForce
<1>2. \A l \in DOMAIN keys : keys[l].start \in Nat
  BY <1>1, ScheduleFacts
<1>3. Spaced(2 * M) /\ Spaced(Drift * M)
  BY DEF LongLived
<1>4. /\ answer.known /\ answer.first = first /\ answer.first \in Nat
      /\ answer.last \in Nat
  BY <1>1, <1>3, AnswerInMinutes
<1>5. /\ Asked(date, moment) \in Nat /\ Asked(date, moment) <= moment
      /\ Asked(date, moment) <= date * M
  <2>1. ~ date > MaximumMinutes /\ date # Never
    BY <1>1 DEF Never
  <2> QED
    BY <1>1, <2>1 DEF Asked
<1>6. keys[j].start <= moment /\ keys[j].start <= date * M
  <2>1. keys[j].start <= Asked(date, moment)
    BY DEF InForce
  <2> QED
    BY <1>1, <1>2, <1>5, <2>1
<1>7. time < keys[j].start
  BY <1>1, <1>2 DEF InForce
<1>8. keys[i].start + 2 * M <= keys[j].start
  <2>1. i # j
    BY <1>1, <1>2
  <2> QED
    BY <1>1, <1>2, <1>3, <2>1 DEF Spaced
<1>9. /\ before \in Nat /\ first > 0
      /\ keys[i].start <= before * M /\ before * M <= keys[j].start
  <2>1. first \in Nat /\ first * M <= keys[j].start /\ keys[j].start < first * M + M
    BY <1>1, <1>2, MinuteHolds
  <2>2. keys[i].start \div M + 2 <= first /\ keys[i].start \div M \in Nat
    BY <1>1, <1>2, <1>8, MinutesApart, MinuteHolds
  <2> HIDE DEF first
  <2>3. before * M = first * M - M
    BY <1>1, <2>1
  <2> QED
    BY <1>1, <1>2, <1>8, <2>1, <2>2, <2>3
<1>10. Date(time) <= first /\ Date(time) \in Nat
  BY <1>1, <1>2, <1>7, MinutesGrow, MinuteHolds DEF Date
<1>11. NearEdge(date, first)
  <2>1. date - Date(time) <= Drift
    BY DEF NearEdge
  <2>2. first <= date
    BY <1>4 DEF Client!Covers
  <2> HIDE DEF first
  <2> QED
    BY <1>1, <1>4, <1>10, <2>1, <2>2 DEF NearEdge
<1>12. before \in Range(Beyond(date, answer))
  BY <1>1, <1>4, <1>9, <1>11, EdgesTried
<1>13. /\ InForce(keys, i, before * M)
       /\ ~StartsWithinSecond(before * M)
  <2>0. before * M + M <= keys[j].start /\ before * M \in Nat
    <3>1. first * M <= keys[j].start /\ first \in Nat
      BY <1>1, <1>2, MinuteHolds
    <3> HIDE DEF first
    <3>2. before * M = first * M - M
      BY <1>1, <3>1
    <3> QED
      BY <1>1, <1>2, <1>9, <3>1, <3>2
  <2> HIDE DEF before
  <2>1. ASSUME NEW p \in DOMAIN keys, keys[i].start < keys[p].start,
               keys[p].start < before * M + M
        PROVE  FALSE
    <3>1. time < keys[p].start
      BY <1>1, <1>2, <2>1 DEF InForce
    <3>2. p # j
      BY <1>1, <1>2, <2>0, <2>1
    <3>3. keys[p].start + Drift * M <= keys[j].start
      BY <1>1, <1>2, <1>3, <2>0, <2>1, <3>2 DEF Spaced
    <3>4. time < (date - Drift) * M
      <4>1. (date - Drift) * M = date * M - Drift * M /\ Drift * M \in Nat /\ date * M \in Nat
        BY <1>1
      <4> QED
        BY <1>1, <1>2, <1>6, <3>1, <3>3, <4>1
    <3>5. Date(time) < date - Drift
      BY <1>1, <3>4, BeforeMinute DEF Date
    <3>6. date - Date(time) <= Drift
      BY DEF NearEdge
    <3> QED
      BY <1>1, <1>10, <3>5, <3>6
  <2>2. InForce(keys, i, before * M)
    <3>1. \A p \in DOMAIN keys :
            keys[p].start <= before * M => ~(keys[i].start < keys[p].start)
      BY <1>1, <1>2, <2>0, <2>1
    <3>2. \A p \in DOMAIN keys : keys[p].start = keys[i].start => p = i
      BY <1>1, <1>3, StartsApart
    <3> QED
      BY <1>1, <1>2, <1>9, <3>1, <3>2 DEF InForce
  <2>3. ASSUME StartsWithinSecond(before * M)
        PROVE  FALSE
    <3>1. PICK p \in DOMAIN keys :
            keys[p].start > before * M /\ Text(keys[p].start) = Text(before * M)
      BY <2>3 DEF StartsWithinSecond
    <3>2. keys[p].start < before * M + M
      BY <1>2, <1>9, <3>1, WholeMinute
    <3>3. keys[i].start < keys[p].start
      BY <1>1, <1>2, <1>9, <2>0, <3>1
    <3> QED
      BY <2>1, <3>2, <3>3
  <2> QED
    BY <2>2, <2>3
<1>14. before * M <= moment
  <2> HIDE DEF before
  <2> QED
    BY <1>1, <1>2, <1>6, <1>9
<1> QED
  BY <1>9, <1>12, <1>13, <1>14, FoundBeyond

\* Signed after the selected key ended, as the signer's clock had it.
LEMMA LaterKeyIsTried ==
  ASSUME EndPointInv, Datable, LongLived, NEW date \in OwidDates,
         NEW time \in 0 .. moment, NearEdge(date, Date(time)),
         NEW i, InForce(keys, i, time), NEW j, InForce(keys, j, Asked(date, moment)),
         NEW answer,
         answer = Client!Stated(keys[j].pem, Minutes(Answer(keys, keys[j]).from),
                                Minutes(Answer(keys, keys[j]).to)),
         Client!Covers(answer, date), keys[j].start < keys[i].start,
         ~DatedBeforeStart(i, date)
  PROVE  keys[i].pem \in Tried(date, answer)
<1> DEFINE M == MinuteTicks
           n == NextStartAfter(keys, keys[j])
           end == n \div M
<1>1. /\ M \in Nat /\ M > 0 /\ Drift \in Nat /\ date \in Nat /\ time \in Nat
      /\ time <= moment /\ moment \in Nat /\ moment <= LastMoment
      /\ TypeOK /\ i \in DOMAIN keys /\ j \in DOMAIN keys
      /\ MaximumMinutes \in Nat /\ LastMinute \in Nat /\ MaximumMinutes <= LastMinute
      /\ LastMoment \in Nat
  BY ResolutionAssumption, ClientAssumption, StartsAssumption
  DEF EndPointInv, TypeOK, OwidDates, Dates, InForce
<1>2. /\ \A l \in DOMAIN keys : keys[l].start \in Nat
      /\ keys[i].start <= time
  BY <1>1, ScheduleFacts DEF InForce
<1>3. Spaced(2 * M) /\ Spaced(Drift * M)
  BY DEF LongLived
<1>4. PICK e \in DOMAIN keys :
        n = keys[e].start /\ n \in Nat /\ n # Never /\ n <= keys[i].start
  BY <1>1, NextIsEarliest
<1>5. /\ answer.known /\ answer.first \in Nat /\ answer.last \in Nat
      /\ answer.last = end - 1
  BY <1>1, <1>3, <1>4, AnswerInMinutes
<1> HIDE DEF n
<1>6. end \in Nat /\ end * M <= n
  BY <1>4, MinuteHolds
<1>7. date < end
  BY <1>1, <1>5, <1>6 DEF Client!Covers
<1>8. end <= Date(time) /\ Date(time) \in Nat
  BY <1>1, <1>2, <1>4, MinutesGrow, MinuteHolds DEF Date
<1>9. Date(time) - date <= Drift
  BY DEF NearEdge
<1>10. end * M <= moment
  BY <1>1, <1>2, <1>4, <1>6
<1>11. end <= MaximumMinutes
  <2>1. end * M <= MaximumMinutes * M
    BY <1>1, <1>6, <1>10 DEF Datable
  <2> HIDE DEF end
  <2>2. SUFFICES ASSUME MaximumMinutes < end
                 PROVE  FALSE
    BY <1>1, <1>6
  <2>3. M * MaximumMinutes + M <= M * end
    BY <1>1, <1>6, <2>2, GroupsApart
  <2>4. M * MaximumMinutes = MaximumMinutes * M /\ M * end = end * M
    BY <1>1, <1>6
  <2> QED
    BY <1>1, <1>6, <2>1, <2>3, <2>4
<1> HIDE DEF end
<1>12. NearEdge(date, answer.last)
  BY <1>1, <1>5, <1>6, <1>7, <1>8, <1>9 DEF NearEdge
<1>13. end \in Range(Beyond(date, answer))
  <2>1. answer.last < LastMinute /\ answer.last + 1 = end
    BY <1>1, <1>5, <1>6, <1>11
  <2> QED
    BY <1>1, <1>5, <1>12, <2>1, EdgesTried
<1>14. keys[i].start = n
  <2> SUFFICES ASSUME n < keys[i].start
               PROVE  FALSE
    BY <1>1, <1>2, <1>4
  <2>1. n + Drift * M <= keys[i].start
    BY <1>1, <1>2, <1>3, <1>4 DEF Spaced
  <2>2. n + Drift * M <= time
    <3>1. Drift * M \in Nat
      BY <1>1
    <3> QED
      BY <1>1, <1>2, <1>4, <2>1, <3>1
  <2>3. end + Drift <= Date(time)
    BY <1>1, <1>4, <2>2, MinutesApart DEF Date, end
  <2> QED
    BY <1>1, <1>6, <1>7, <1>8, <1>9, <2>3
<1>15. n = end * M
  <2>1. ~ date < keys[i].start \div M => FALSE
    BY <1>7, <1>14 DEF end
  <2>2. keys[i].start % M = 0
    BY <2>1 DEF DatedBeforeStart
  <2> QED
    BY <1>4, <1>14, <2>2, MinuteHolds DEF end
<1>16. InForce(keys, i, end * M) /\ ~StartsWithinSecond(end * M)
  <2>1. \A l \in DOMAIN keys : keys[l].start = keys[i].start => l = i
    BY <1>1, <1>3, StartsApart
  <2>2. InForce(keys, i, end * M)
    BY <1>1, <1>2, <1>14, <1>15, <2>1 DEF InForce
  <2>3. ASSUME StartsWithinSecond(end * M)
        PROVE  FALSE
    <3>1. PICK p \in DOMAIN keys :
            keys[p].start > end * M /\ Text(keys[p].start) = Text(end * M)
      BY <2>3 DEF StartsWithinSecond
    <3>2. keys[p].start < end * M + M
      BY <1>2, <1>6, <3>1, WholeMinute
    <3>3. keys[i].start <= keys[p].start /\ i # p
      BY <1>2, <1>4, <1>14, <1>15, <3>1
    <3>4. keys[i].start + 2 * M <= keys[p].start
      BY <1>1, <1>3, <3>3 DEF Spaced
    <3> QED
      BY <1>1, <1>2, <1>4, <1>14, <1>15, <3>2, <3>4
  <2> QED
    BY <2>2, <2>3
<1> QED
  BY <1>6, <1>10, <1>13, <1>16, FoundBeyond

\* A genuine identifier is not denied by a client, but for one dated before the
\* minute within which its key starts.
THEOREM GenuineSpared ==
  ASSUME Datable PROVE Spec => []GenuineIsSpared
<1>1. EndPointInv => GenuineIsSpared
  <2> SUFFICES ASSUME EndPointInv, LongLived, NEW date \in OwidDates,
                      NEW i \in DOMAIN keys, Signed(i, date),
                      ClientDenies(date, keys[i].pem), ~DatedBeforeStart(i, date)
               PROVE  FALSE
    BY DEF GenuineIsSpared
  <2>1. PICK time \in 0 .. moment : InForce(keys, i, time) /\ NearEdge(date, Date(time))
    BY DEF Signed
  <2>2. PICK answer \in AnswersFor(date) :
          keys[i].pem \notin Tried(date, answer) /\ Client!Covers(answer, date)
    BY DEF ClientDenies
  <2>3. PICK j \in DOMAIN keys :
          /\ InForce(keys, j, Asked(date, moment))
          /\ answer.pem = keys[j].pem
          /\ answer = Client!Stated(keys[j].pem, Minutes(Answer(keys, keys[j]).from),
                                    Minutes(Answer(keys, keys[j]).to))
    BY AnswerRead
  <2>4. keys[i].start \in Nat /\ keys[j].start \in Nat
    BY ScheduleFacts DEF EndPointInv
  <2>5. CASE keys[i].start < keys[j].start
    BY <2>1, <2>2, <2>3, <2>5, EarlierKeyIsTried
  <2>6. CASE keys[j].start < keys[i].start
    BY <2>1, <2>2, <2>3, <2>6, LaterKeyIsTried
  <2>7. CASE keys[i].start = keys[j].start
    <3>1. i = j
      BY <2>7, StartsApart DEF LongLived
    <3> QED
      BY <2>2, <2>3, <3>1 DEF Tried
  <2> QED
    BY <2>4, <2>5, <2>6, <2>7
<1> QED
  BY <1>1, EndPointInvariant, PTL
=============================================================================
