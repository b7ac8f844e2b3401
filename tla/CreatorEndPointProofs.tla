----------------------- MODULE CreatorEndPointProofs -----------------------
(***************************************************************************)
(* Proved for any schedule, clock and resolution of the two: no key is     *)
(* told of ahead of its time, what is told of a minute that has come       *)
(* stands, no two keys are told for one moment, and the end point refuses  *)
(* its own answer exactly where a key starts later within the second.      *)
(***************************************************************************)
EXTENDS CreatorEndPoint, SequenceTheorems, WellFoundedInduction, TLAPS

\* The clock of the model stays among the dates a datetime can hold.
Datable == LastMoment <= MaximumMinutes * MinuteTicks

EndPointInv ==
  /\ TypeOK
  /\ moment <= LastMoment
  /\ \A i \in DOMAIN keys : keys[i].start \in Starts

-----------------------------------------------------------------------------
(* The schedule *)

LEMMA ScheduleFacts ==
  ASSUME TypeOK
  PROVE  /\ Len(keys) \in Nat
         /\ DOMAIN keys = 1 .. Len(keys)
         /\ \A i \in DOMAIN keys :
              i \in Int /\ keys[i].start \in Nat /\ keys[i].pem \in Pems
<1>1. Len(keys) \in Nat /\ DOMAIN keys = 1 .. Len(keys)
  BY LenProperties DEF TypeOK
<1>2. \A i \in 1 .. Len(keys) : keys[i] \in DatedPublicKey
  BY ElementOfSeq DEF TypeOK
<1> QED
  BY <1>1, <1>2 DEF DatedPublicKey

LEMMA OneInForce ==
  ASSUME TypeOK, NEW i, NEW j, NEW at \in Int, InForce(keys, i, at), InForce(keys, j, at)
  PROVE  i = j
BY ScheduleFacts DEF InForce

LEMMA LeastMoment ==
  ASSUME NEW T \in SUBSET Nat, T # {}
  PROVE  \E least \in T : \A other \in T : least <= other
<1>1. IsWellFoundedOn(OpToRel(<, Nat), Nat)
  BY NatLessThanWellFounded
<1>2. PICK least \in T : \A other \in T : ~(<<other, least>> \in OpToRel(<, Nat))
  BY <1>1, WFMin
<1>3. \A other \in T : ~(other < least)
  BY <1>2 DEF OpToRel
<1> QED
  BY <1>3

\* Of two keys ever in force the one that starts earlier ends no later than the
\* other starts.
LEMMA NextIsEarliest ==
  ASSUME TypeOK, NEW i \in DOMAIN keys
  PROVE  /\ NextStartAfter(keys, keys[i]) # Never =>
              /\ NextStartAfter(keys, keys[i]) \in Nat
              /\ \E j \in DOMAIN keys : NextStartAfter(keys, keys[i]) = keys[j].start
              /\ keys[i].start < NextStartAfter(keys, keys[i])
         /\ \A j \in DOMAIN keys : keys[i].start < keys[j].start =>
              /\ NextStartAfter(keys, keys[i]) # Never
              /\ NextStartAfter(keys, keys[i]) <= keys[j].start
<1> DEFINE F == Following(keys, keys[i])
<1>1. \A start \in F : start \in Nat /\ keys[i].start < start
  BY ScheduleFacts DEF Following
<1>2. \A j \in DOMAIN keys : keys[i].start < keys[j].start => keys[j].start \in F
  BY DEF Following
<1>3. \A start \in F : \E j \in DOMAIN keys : start = keys[j].start
  BY DEF Following
<1>4. CASE F = {}
  BY <1>2, <1>4 DEF NextStartAfter
<1>5. CASE F # {}
  <2>1. \E start \in F : \A other \in F : start <= other
    BY <1>1, <1>5, LeastMoment
  <2> DEFINE n == CHOOSE start \in F : \A other \in F : start <= other
  <2>2. n \in F /\ \A other \in F : n <= other
    BY <2>1
  <2>3. NextStartAfter(keys, keys[i]) = n
    BY <1>5 DEF NextStartAfter
  <2> HIDE DEF n, F
  <2> QED
    BY <1>1, <1>2, <1>3, <2>2, <2>3 DEF Never
<1> QED
  BY <1>4, <1>5

\* A later group of so many ticks begins a whole group later.
LEMMA GroupsApart ==
  ASSUME NEW S \in Nat, NEW p \in Int, NEW q \in Int, p < q
  PROVE  S * p + S <= S * q
<1>1. q - p - 1 \in Nat
  OBVIOUS
<1>2. S * (q - p - 1) >= 0
  BY <1>1
<1>3. S * (q - p - 1) = S * q - S * p - S
  OBVIOUS
<1> QED
  BY <1>2, <1>3

LEMMA TextGrows ==
  ASSUME NEW a \in Nat, NEW b \in Nat, a <= b
  PROVE  Text(a) \in Nat /\ Text(a) <= Text(b) /\ Text(a) <= a
<1> DEFINE S == SecondTicks
<1>0. S \in Nat /\ S > 0
  BY ResolutionAssumption
<1>1. a = S * (a \div S) + (a % S) /\ 0 <= a % S /\ a % S < S /\ a \div S \in Nat
  BY <1>0
<1>2. b = S * (b \div S) + (b % S) /\ 0 <= b % S /\ b % S < S /\ b \div S \in Nat
  BY <1>0
<1>3. a \div S <= b \div S
  <2> SUFFICES ASSUME b \div S < a \div S
               PROVE  FALSE
    BY <1>1, <1>2
  <2>1. S * (b \div S) + S <= S * (a \div S)
    BY <1>0, <1>1, <1>2, GroupsApart
  <2> QED
    BY <1>0, <1>1, <1>2, <2>1
<1>4. S * (a \div S) <= S * (b \div S)
  BY <1>0, <1>1, <1>2, <1>3
<1> QED
  BY <1>0, <1>1, <1>2, <1>3, <1>4 DEF Text, Never

\* A second is told from the next by its text.
LEMMA TextJumps ==
  ASSUME NEW a \in Nat, NEW b \in Nat, a <= b, Text(a) # Text(b)
  PROVE  a < Text(b)
<1> DEFINE S == SecondTicks
           p == a \div S
           q == b \div S
<1>1. S \in Nat /\ S > 0
  BY ResolutionAssumption
<1>2. /\ p \in Nat /\ a = S * p + (a % S) /\ 0 <= a % S /\ a % S < S
      /\ q \in Nat /\ b = S * q + (b % S) /\ 0 <= b % S /\ b % S < S
  BY <1>1
<1>3. S * p \in Nat /\ S * q \in Nat
  BY <1>1, <1>2
<1>4. Text(a) = S * p /\ Text(b) = S * q
  <2>1. Text(a) = a - (a % S) /\ Text(b) = b - (b % S)
    BY DEF Text, Never
  <2>2. PICK x \in Int, y \in Int : x = a % S /\ y = b % S
    BY <1>1
  <2> HIDE DEF p, q
  <2> QED
    BY <1>2, <1>3, <2>1, <2>2
<1>5. Text(a) <= Text(b)
  BY TextGrows
<1> HIDE DEF p, q
<1>6. p < q
  <2>1. CASE q < p
    BY <1>1, <1>2, <1>3, <1>4, <1>5, <2>1, GroupsApart
  <2>2. CASE q = p
    BY <1>4, <2>2
  <2> QED
    BY <1>2, <2>1, <2>2
<1>7. S * p + S <= S * q
  BY <1>1, <1>2, <1>6, GroupsApart
<1> QED
  BY <1>1, <1>2, <1>3, <1>4, <1>7

\* A minute that has started starts no later than now, and no minute later than
\* the one its moment lies in does.
LEMMA MinuteStarts ==
  ASSUME NEW at \in Nat
  PROVE  /\ Date(at) \in Nat
         /\ Date(at) * MinuteTicks <= at
         /\ \A start \in Nat :
              start <= at /\ Date(at) * MinuteTicks <= start =>
                start \div MinuteTicks = Date(at)
         /\ \A start \in Nat :
              start % MinuteTicks = 0 => (start \div MinuteTicks) * MinuteTicks = start
<1> DEFINE M == MinuteTicks
<1>0. M \in Nat /\ M > 0
  BY ResolutionAssumption
<1>1. at = M * (at \div M) + (at % M) /\ 0 <= at % M /\ at % M < M /\ at \div M \in Nat
  BY <1>0
<1>2. ASSUME NEW start \in Nat
      PROVE  /\ start = M * (start \div M) + (start % M)
             /\ 0 <= start % M /\ start % M < M /\ start \div M \in Nat
  BY <1>0
<1>3. ASSUME NEW start \in Nat, start <= at, (at \div M) * M <= start
      PROVE  start \div M = at \div M
  <2>1. CASE start \div M < at \div M
    <3>1. M * (start \div M) + M <= M * (at \div M)
      BY <1>0, <1>1, <1>2, <2>1, GroupsApart
    <3> QED
      BY <1>0, <1>1, <1>2, <1>3, <3>1
  <2>2. CASE at \div M < start \div M
    <3>1. M * (at \div M) + M <= M * (start \div M)
      BY <1>0, <1>1, <1>2, <2>2, GroupsApart
    <3> QED
      BY <1>0, <1>1, <1>2, <1>3, <3>1
  <2> QED
    BY <1>1, <1>2, <2>1, <2>2
<1> QED
  BY <1>0, <1>1, <1>2, <1>3 DEF Date

LEMMA AskedAtMost ==
  ASSUME NEW date \in Nat \cup {Never}, NEW at \in Nat
  PROVE  Asked(date, at) \in Nat /\ Asked(date, at) <= at
BY ResolutionAssumption DEF Asked, Never

\* What starts within the minute a moment is dated by is dated by it, too.
LEMMA StartOfMinute ==
  ASSUME NEW at \in Nat, NEW start \in Nat,
         start <= at, Date(at) * MinuteTicks <= start
  PROVE  start \div MinuteTicks = Date(at)
BY MinuteStarts

\* A minute that has come is answered for as it is, whenever that is.
LEMMA AskedHasCome ==
  ASSUME Datable, NEW date \in Nat, NEW at \in Nat, at <= LastMoment,
         date * MinuteTicks <= at
  PROVE  Asked(date, at) = date * MinuteTicks
<1>1. MinuteTicks \in Nat /\ MinuteTicks > 0 /\ MaximumMinutes \in Nat /\ LastMoment \in Nat
  BY ResolutionAssumption, StartsAssumption
<1>2. date * MinuteTicks <= MaximumMinutes * MinuteTicks
  BY <1>1 DEF Datable
<1>3. ~ date > MaximumMinutes
  BY <1>1, <1>2
<1> QED
  BY <1>1, <1>3 DEF Asked, Never

-----------------------------------------------------------------------------
(* The invariant, and what it makes true *)

LEMMA EndPointInvariant == Spec => []EndPointInv
<1>1. Init => EndPointInv
  BY EmptySeq, StartsAssumption DEF Init, EndPointInv, TypeOK
<1>2. EndPointInv /\ [Next]_vars => EndPointInv'
  <2> SUFFICES ASSUME EndPointInv, [Next]_vars
               PROVE  EndPointInv'
    OBVIOUS
  <2>1. ASSUME NEW start \in Starts, NEW pem \in Pems, Publish(start, pem)
        PROVE  EndPointInv'
    <3> DEFINE key == [start |-> start, pem |-> pem]
    <3>1. key \in DatedPublicKey
      BY StartsAssumption DEF DatedPublicKey
    <3>2. keys \in Seq(DatedPublicKey) /\ keys' = Append(keys, key)
      BY <2>1 DEF EndPointInv, TypeOK, Publish
    <3>3. /\ keys' \in Seq(DatedPublicKey)
          /\ Len(keys') = Len(keys) + 1
          /\ \A i \in 1 .. Len(keys) : keys'[i] = keys[i]
          /\ keys'[Len(keys) + 1] = key
      BY <3>1, <3>2, AppendProperties
    <3>4. DOMAIN keys' = 1 .. Len(keys) + 1 /\ DOMAIN keys = 1 .. Len(keys)
          /\ Len(keys) \in Nat
      BY <3>2, <3>3, LenProperties
    <3>5. \A i \in DOMAIN keys' : keys'[i].start \in Starts
      BY <3>3, <3>4 DEF EndPointInv
    <3> QED
      BY <2>1, <3>3, <3>5 DEF EndPointInv, TypeOK, Publish
  <2>2. CASE Tick
    BY <2>2, StartsAssumption DEF EndPointInv, TypeOK, Tick
  <2>3. CASE UNCHANGED vars
    BY <2>3 DEF EndPointInv, TypeOK, vars
  <2> QED
    BY <2>1, <2>2, <2>3 DEF Next
<1> QED
  BY <1>1, <1>2, PTL DEF Spec

\* No request, whatever date it names, is answered with a key that has not
\* started.
THEOREM NothingAhead == Spec => []NothingAheadOfTime
<1>1. Dates \subseteq Nat
  BY ResolutionAssumption, StartsAssumption DEF Dates
<1>2. EndPointInv => NothingAheadOfTime
  <2> SUFFICES ASSUME EndPointInv, NEW date \in Requests, NEW i \in DOMAIN keys,
                      InForce(keys, i, Asked(date, moment))
               PROVE  keys[i].start <= moment
    BY DEF NothingAheadOfTime
  <2>1. moment \in Nat /\ TypeOK /\ date \in Nat \cup {Never}
    BY <1>1 DEF EndPointInv, TypeOK, Requests
  <2>2. Asked(date, moment) \in Nat /\ Asked(date, moment) <= moment
    BY <2>1, AskedAtMost
  <2>3. keys[i].start \in Nat /\ keys[i].start <= Asked(date, moment)
    BY <2>1, ScheduleFacts DEF InForce
  <2> QED
    BY <2>1, <2>2, <2>3
<1> QED
  BY <1>2, EndPointInvariant, PTL

LEMMA PemsInForce ==
  ASSUME NEW k, NEW date, NEW at
  PROVE  PemsFor(k, date, at) =
           {k[i].pem : i \in {j \in DOMAIN k : InForce(k, j, Asked(date, at))}}
<1>1. \A key : Answer(k, key).pem = key.pem
  BY DEF Answer
<1> DEFINE I == {j \in DOMAIN k : InForce(k, j, Asked(date, at))}
<1>2. Selected(k, date, at) = {Answer(k, k[i]) : i \in I}
  BY DEF Selected
<1> HIDE DEF I
<1>3. PemsFor(k, date, at) = {k[i].pem : i \in I}
  BY <1>1, <1>2 DEF PemsFor
<1> QED
  BY <1>3 DEF I

\* Which key is answered for a minute that has come never changes.
THEOREM PastStands == ASSUME Datable PROVE Spec => PastAnswersStand
<1>1. ASSUME EndPointInv, EndPointInv', [Next]_vars,
             NEW d \in Dates, d * MinuteTicks <= moment
      PROVE  PemsFor(keys', d, moment') = PemsFor(keys, d, moment)
  <2> DEFINE at == d * MinuteTicks
  <2>1. /\ d \in Nat /\ at \in Nat /\ moment \in Nat /\ moment' \in Nat
        /\ moment <= LastMoment /\ moment' <= LastMoment /\ TypeOK
    BY <1>1, ResolutionAssumption, StartsAssumption DEF EndPointInv, TypeOK, Dates
  <2>2. moment <= moment'
    <3>1. moment' = moment \/ moment' = moment + 1
      BY <1>1 DEF Next, vars, Publish, Tick
    <3> QED
      BY <2>1, <3>1
  <2>3. Asked(d, moment) = at /\ Asked(d, moment') = at
    BY <1>1, <2>1, <2>2, AskedHasCome
  <2> HIDE DEF at
  <2>4. CASE keys' = keys
    BY <2>3, <2>4, PemsInForce
  <2>5. ASSUME NEW start \in Starts, NEW pem \in Pems, Publish(start, pem)
        PROVE  PemsFor(keys', d, moment') = PemsFor(keys, d, moment)
    <3> DEFINE key == [start |-> start, pem |-> pem]
    <3>1. key \in DatedPublicKey
      BY StartsAssumption DEF DatedPublicKey
    <3>2. keys \in Seq(DatedPublicKey) /\ keys' = Append(keys, key)
      BY <2>1, <2>5 DEF TypeOK, Publish
    <3>3. /\ keys' \in Seq(DatedPublicKey)
          /\ Len(keys') = Len(keys) + 1
          /\ \A i \in 1 .. Len(keys) : keys'[i] = keys[i]
          /\ keys'[Len(keys) + 1] = key
      BY <3>1, <3>2, AppendProperties
    <3>4. /\ DOMAIN keys' = 1 .. Len(keys) + 1 /\ DOMAIN keys = 1 .. Len(keys)
          /\ Len(keys) \in Nat
      BY <3>2, <3>3, LenProperties
    <3>5. at < key.start /\ start \in Nat
      BY <1>1, <2>1, <2>5, StartsAssumption DEF Publish, at
    <3> HIDE DEF key
    <3>6. {j \in DOMAIN keys' : InForce(keys', j, at)} = {j \in DOMAIN keys : InForce(keys, j, at)}
      <4>1. ~InForce(keys', Len(keys) + 1, at)
        BY <2>1, <3>3, <3>5 DEF InForce, key
      <4>2. /\ \A j \in DOMAIN keys : j \in DOMAIN keys' /\ keys'[j] = keys[j]
            /\ \A j \in DOMAIN keys' : ~ j \in DOMAIN keys => ~ keys'[j].start <= at
        BY <2>1, <3>3, <3>4, <3>5 DEF key
      <4>3. \A j \in DOMAIN keys : InForce(keys', j, at) <=> InForce(keys, j, at)
        BY <4>2 DEF InForce
      <4> QED
        BY <3>4, <4>1, <4>3
    <3>7. \A j \in DOMAIN keys : keys'[j].pem = keys[j].pem
      BY <3>3, <3>4
    <3> QED
      BY <2>3, <3>6, <3>7, PemsInForce
  <2> QED
    BY <1>1, <2>4, <2>5 DEF Next, vars, Tick
<1>2. EndPointInv /\ EndPointInv' /\ [Next]_vars =>
        [\A d \in Dates : d * MinuteTicks <= moment =>
           PemsFor(keys', d, moment') = PemsFor(keys, d, moment)]_vars
  BY <1>1
<1> QED
  BY <1>2, EndPointInvariant, PTL DEF Spec, PastAnswersStand

\* The key a creator signed with is the one served for the date it wrote, but
\* for one that starts within the minute.
THEOREM SignersFound == ASSUME Datable PROVE Spec => []SignerIsFound
<1>1. EndPointInv => SignerIsFound
  <2> SUFFICES ASSUME EndPointInv, NEW signed \in 0 .. moment, NEW i \in DOMAIN keys,
                      InForce(keys, i, signed), ~StartedWithin(signed)
               PROVE  PemsFor(keys, Date(signed), moment) = {keys[i].pem}
    BY DEF SignerIsFound
  <2> DEFINE at == Date(signed) * MinuteTicks
  <2>1. /\ signed \in Nat /\ moment \in Nat /\ moment <= LastMoment /\ signed <= moment
        /\ TypeOK /\ MinuteTicks \in Nat
    BY ResolutionAssumption DEF EndPointInv, TypeOK
  <2>2. Date(signed) \in Nat /\ at <= signed /\ at \in Nat
    BY <2>1, MinuteStarts
  <2>3. Asked(Date(signed), moment) = at
    <3>1. at <= moment
      BY <2>1, <2>2
    <3> QED
      BY <2>1, <2>2, <3>1, AskedHasCome
  <2>4. \A j \in DOMAIN keys : keys[j].start <= signed => keys[j].start <= at
    <3> SUFFICES ASSUME NEW j \in DOMAIN keys, keys[j].start <= signed,
                        ~ keys[j].start <= at
                 PROVE  FALSE
      OBVIOUS
    <3>1. keys[j].start \in Nat
      BY <2>1, ScheduleFacts
    <3>2. Date(signed) * MinuteTicks <= keys[j].start
      BY <2>2, <3>1
    <3>3. keys[j].start \div MinuteTicks = Date(signed)
      BY <2>1, <3>1, <3>2, StartOfMinute
    <3>4. keys[j].start % MinuteTicks # 0
      BY <2>2, <3>1, <3>3, MinuteStarts
    <3> QED
      BY <3>3, <3>4 DEF StartedWithin, Date
  <2> HIDE DEF at
  <2>5. \A j \in DOMAIN keys : keys[j].start <= at <=> keys[j].start <= signed
    BY <2>1, <2>2, <2>4, ScheduleFacts
  <2>6. \A j : InForce(keys, j, at) <=> InForce(keys, j, signed)
    BY <2>5 DEF InForce
  <2>7. {j \in DOMAIN keys : InForce(keys, j, at)} = {i}
    BY <2>1, <2>2, <2>6, OneInForce
  <2> QED
    BY <2>3, <2>7, PemsInForce
<1> QED
  BY <1>1, EndPointInvariant, PTL

\* Two answers are about one key, or about periods that do not meet.
THEOREM PeriodsApart == Spec => []PeriodsDoNotMeet
<1>1. ASSUME EndPointInv, NEW i \in DOMAIN keys, NEW j \in DOMAIN keys,
             keys[i].start < keys[j].start
      PROVE  /\ Answer(keys, keys[i]).to # Never
             /\ Answer(keys, keys[i]).to <= Answer(keys, keys[j]).from
  <2>1. TypeOK /\ keys[j].start \in Nat
    BY <1>1, ScheduleFacts DEF EndPointInv
  <2> DEFINE n == NextStartAfter(keys, keys[i])
  <2>2. n # Never /\ n <= keys[j].start /\ n \in Nat
    BY <1>1, <2>1, NextIsEarliest
  <2> HIDE DEF n
  <2>3. Text(n) \in Nat /\ Text(n) <= Text(keys[j].start)
    BY <2>1, <2>2, TextGrows
  <2> QED
    BY <2>3 DEF Answer, n, Never
<1>2. ASSUME EndPointInv, NEW i \in DOMAIN keys, NEW j \in DOMAIN keys, NEW a \in Int,
             NEW b \in Int, InForce(keys, i, a), InForce(keys, j, b),
             keys[i].start = keys[j].start
      PROVE  i = j
  BY <1>2, ScheduleFacts DEF EndPointInv, InForce
<1>3. EndPointInv => PeriodsDoNotMeet
  <2> SUFFICES ASSUME EndPointInv, NEW d \in Requests, NEW e \in Requests,
                      NEW a \in Selected(keys, d, moment),
                      NEW b \in Selected(keys, e, moment)
               PROVE  a = b \/ Apart(a, b)
    BY DEF PeriodsDoNotMeet
  <2>1. PICK i \in DOMAIN keys :
          a = Answer(keys, keys[i]) /\ InForce(keys, i, Asked(d, moment))
    BY DEF Selected
  <2>2. PICK j \in DOMAIN keys :
          b = Answer(keys, keys[j]) /\ InForce(keys, j, Asked(e, moment))
    BY DEF Selected
  <2>3. /\ keys[i].start \in Nat /\ keys[j].start \in Nat
        /\ Asked(d, moment) \in Int /\ Asked(e, moment) \in Int
    <3>1. TypeOK /\ moment \in Nat /\ \A r \in Requests : r \in Nat \cup {Never}
      BY ResolutionAssumption, StartsAssumption
      DEF EndPointInv, TypeOK, Requests, Dates
    <3>2. Asked(d, moment) \in Nat /\ Asked(e, moment) \in Nat
      BY <3>1, AskedAtMost
    <3> QED
      BY <3>1, <3>2, ScheduleFacts
  <2>4. CASE keys[i].start = keys[j].start
    BY <1>2, <2>1, <2>2, <2>3, <2>4
  <2>5. CASE keys[i].start < keys[j].start
    BY <1>1, <2>1, <2>2, <2>5 DEF Apart
  <2>6. CASE keys[j].start < keys[i].start
    BY <1>1, <2>1, <2>2, <2>6 DEF Apart
  <2> QED
    BY <2>3, <2>4, <2>5, <2>6
<1> QED
  BY <1>3, EndPointInvariant, PTL

\* An answer about the key in force is refused where another starts later within
\* the second, and nowhere else.
LEMMA InForcePasses ==
  ASSUME EndPointInv, NEW at \in Nat, NEW i, InForce(keys, i, at)
  PROVE  Validated(Answer(keys, keys[i]), at) <=> ~StartsWithinSecond(at)
<1>1. /\ TypeOK /\ i \in DOMAIN keys /\ keys[i].start \in Nat /\ keys[i].start <= at
      /\ \A j \in DOMAIN keys : keys[j].start \in Nat
  BY ScheduleFacts DEF EndPointInv, InForce
<1> DEFINE n == NextStartAfter(keys, keys[i])
           from == Text(keys[i].start)
           to == Text(n)
<1>2. /\ n # Never => /\ n \in Nat /\ keys[i].start < n
                      /\ \E j \in DOMAIN keys : n = keys[j].start
      /\ \A j \in DOMAIN keys : keys[i].start < keys[j].start =>
           n # Never /\ n <= keys[j].start
  BY <1>1, NextIsEarliest
<1>3. /\ Answer(keys, keys[i]).from = from /\ Answer(keys, keys[i]).to = to
      /\ from \in Nat /\ from <= at
  <2>1. from \in Nat /\ from <= keys[i].start
    BY <1>1, TextGrows
  <2> HIDE DEF from, to
  <2> QED
    BY <1>1, <2>1 DEF Answer, from, to
<1> HIDE DEF n, from
<1>4. CASE n = Never
  <2>1. ~StartsWithinSecond(at)
    BY <1>1, <1>2, <1>4 DEF StartsWithinSecond
  <2>2. to = Never
    BY <1>4 DEF Text
  <2> QED
    BY <1>3, <2>1, <2>2 DEF Validated
<1>5. CASE n # Never
  <2>1. n \in Nat /\ at < n
    BY <1>1, <1>2, <1>5 DEF InForce
  <2>2. to \in Nat /\ Text(at) \in Nat /\ Text(at) <= at /\ Text(at) <= to
    BY <2>1, TextGrows
  <2>3. Validated(Answer(keys, keys[i]), at) <=> at < to
    BY <1>3, <2>2 DEF Validated, Never
  <2>4. ASSUME at < to, StartsWithinSecond(at)
        PROVE  FALSE
    <3>1. PICK j \in DOMAIN keys : keys[j].start > at /\ Text(keys[j].start) = Text(at)
      BY <2>4 DEF StartsWithinSecond
    <3>2. n <= keys[j].start /\ keys[j].start \in Nat
      BY <1>1, <1>2, <3>1
    <3>3. to <= Text(keys[j].start)
      BY <2>1, <3>2, TextGrows
    <3> HIDE DEF to
    <3> QED
      BY <2>2, <2>4, <3>1, <3>3
  <2>5. ASSUME ~StartsWithinSecond(at)
        PROVE  at < to
    <3>1. to # Text(at)
      BY <1>2, <1>5, <2>1, <2>5 DEF StartsWithinSecond
    <3> QED
      BY <2>1, <3>1, TextJumps
  <2> QED
    BY <2>3, <2>4, <2>5
<1> QED
  BY <1>4, <1>5

\* The end point refuses its own answer exactly where a key starts later within
\* the second asked about, whatever its keys and even where they share a start.
THEOREM AnswersPass == Spec => []AnswersPassTheCheck
<1>1. EndPointInv => AnswersPassTheCheck
  <2> SUFFICES ASSUME EndPointInv, NEW d \in Requests, NEW a \in Selected(keys, d, moment)
               PROVE  Validated(a, Asked(d, moment))
                        <=> ~StartsWithinSecond(Asked(d, moment))
    BY DEF AnswersPassTheCheck
  <2>1. PICK i \in DOMAIN keys :
          a = Answer(keys, keys[i]) /\ InForce(keys, i, Asked(d, moment))
    BY DEF Selected
  <2>2. moment \in Nat /\ d \in Nat \cup {Never}
    BY ResolutionAssumption, StartsAssumption
    DEF EndPointInv, TypeOK, Requests, Dates
  <2>3. Asked(d, moment) \in Nat
    BY <2>2, AskedAtMost
  <2> QED
    BY <2>1, <2>3, InForcePasses
<1> QED
  BY <1>1, EndPointInvariant, PTL
=============================================================================
