------------------------- MODULE SharedFetchProofs -------------------------
(***************************************************************************)
(* For any number of callers, loops, URLs and fetches: the store the       *)
(* callers share is the store KeyCache specifies, so what KeyCacheProofs   *)
(* proves of it holds here, and the requests in flight are the ones the    *)
(* entries name.                                                           *)
(***************************************************************************)
EXTENDS SharedFetch, TLAPS

StoreFacts == INSTANCE KeyCacheProofs WITH
                cache <- CacheAfter(Pending),
                heldKeys <- CountAfter(Pending),
                learned <- LearnedAfter(Pending)

\* The steps that leave the store and the entries alone, named for the cases
\* of the proofs below.
CallerStep ==
  \E c \in Callers : Wake(c) \/ CancelCaller(c) \/ \E u \in Urls : Join(c, u)
LoopStep == \E l \in Loops : CloseLoop(l) \/ StartLoop(l)

LEMMA StepCases ==
  ASSUME [Next]_vars
  PROVE  \/ UNCHANGED vars
         \/ CallerStep
         \/ LoopStep
         \/ ClearCache
         \/ Tick
         \/ \E l \in Loops : EndLoop(l)
         \/ \E c \in Callers, u \in Urls, f \in Fetches : Lead(c, u, f)
         \/ \E f \in Fetches :
              \/ Begin(f) \/ Answered(f) \/ Write(f) \/ Settle(f)
              \/ Failed(f) \/ Withdrawn(f)
BY DEF Next, CallerStep, LoopStep

-----------------------------------------------------------------------------
(* One _hold at a time *)

TaskTypes == task \in [Fetches -> TaskState] /\ plan \in [Fetches -> Plan]

\* The lock is held by one fetch, and only its _hold has decided anything.
Exclusive == \A f, g \in Holding : f = g

\* The steps that neither take the lock nor release it.
LEMMA HoldingStays ==
  ASSUME TaskTypes, [Next]_vars,
         ~ \E f \in Fetches : Answered(f) \/ Write(f)
  PROVE  Holding' = Holding /\ plan' = plan /\ Pending' = Pending
<1>1. plan' = plan
  BY StepCases
  DEF vars, CallerStep, LoopStep, Wake, CancelCaller, Join, CloseLoop, StartLoop,
      ClearCache, Tick, EndLoop, Lead, Begin, Failed, Withdrawn, Settle
<1>2. \A f \in Fetches : task'[f] = "holding" <=> task[f] = "holding"
  <2>1. CASE task' = task
    BY <2>1
  <2>2. ASSUME NEW l \in Loops, EndLoop(l)
        PROVE  \A f \in Fetches : task'[f] = "holding" <=> task[f] = "holding"
    BY <2>2 DEF EndLoop, CancelledTask
  <2>3. ASSUME NEW c \in Callers, NEW u \in Urls, NEW f \in Fetches, Lead(c, u, f)
        PROVE  \A g \in Fetches : task'[g] = "holding" <=> task[g] = "holding"
    BY <2>3 DEF Lead, Fresh, TaskTypes
  <2>4. ASSUME NEW f \in Fetches,
               Begin(f) \/ Failed(f) \/ Withdrawn(f) \/ Settle(f)
        PROVE  \A g \in Fetches : task'[g] = "holding" <=> task[g] = "holding"
    BY <2>4 DEF Begin, Failed, Withdrawn, Settle, Step, Settling, TaskTypes
  <2> QED
    BY <2>1, <2>2, <2>3, <2>4, StepCases
    DEF vars, CallerStep, LoopStep, Wake, CancelCaller, Join, CloseLoop,
        StartLoop, ClearCache, Tick
<1>3. Holding' = Holding
  BY <1>2 DEF Holding
<1> QED
  BY <1>1, <1>3 DEF Pending, Unlocked

LEMMA ExclusiveStep == TaskTypes /\ Exclusive /\ [Next]_vars => Exclusive'
<1> SUFFICES ASSUME TaskTypes, Exclusive, [Next]_vars
             PROVE  Exclusive'
  OBVIOUS
<1>1. ASSUME NEW f \in Fetches, Answered(f)
      PROVE  Exclusive'
  BY <1>1 DEF Answered, Unlocked, Holding, Step, Exclusive, TaskTypes
<1>2. ASSUME NEW f \in Fetches, Write(f)
      PROVE  Exclusive'
  BY <1>2 DEF Write, Holding, Step, Exclusive, TaskTypes
<1> QED
  BY <1>1, <1>2, HoldingStays DEF Exclusive

-----------------------------------------------------------------------------
(* Types *)

\* The part of TypeOK that is not about the store as others see it.
SharingTypes ==
  /\ cache \subseteq Store!HeldKey
  /\ now \in Store!Minute
  /\ inFlight \in [Urls -> Fetches \cup {NoFetch}]
  /\ TaskTypes
  /\ url \in [Fetches -> Urls]
  /\ taskLoop \in [Fetches -> Loops]
  /\ future \in [Fetches -> {"pending", "answered", "failed", "cancelled"}]
  /\ awaits \in [Callers -> Fetches \cup {NoFetch}]
  /\ loopState \in [Loops -> {"running", "ending", "closed"}]
  /\ forgotten \subseteq Fetches
  /\ tainted \in BOOLEAN

LEMMA NothingPlanned == NoPlan \in Plan
BY DEF NoPlan, Plan

\* What an answer teaches is a key with a span, and so is a key it widens.
LEMMA PlanTypes ==
  ASSUME cache \subseteq Store!HeldKey, now \in Store!Minute,
         NEW u \in Urls, NEW a \in Answers
  PROVE  Plans(u, a) \subseteq Plan
<1> DEFINE taught == Store!Taught(u.endPoint, u.minute, a.pem, a.start, a.end, now)
<1>1. /\ u.endPoint \in EndPoints /\ u.minute \in Store!Moment
      /\ a.pem \in Pems /\ a.start \in Store!Moment /\ a.end \in Store!Moment
  BY SharingAssumption DEF Url, Answer
<1>2. Store!Teaches(u.minute, a.start, now) => taught \in Store!HeldKey
  BY <1>1, StoreAssumption
  DEF Store!Teaches, Store!Taught, Store!HeldKey, Store!Moment, Store!Minute,
      Store!Absent, Store!BothEnds, Store!Later
<1>3. ASSUME NEW key \in Store!HeldKey, NEW other \in Store!HeldKey
      PROVE  Store!Widened(key, other) \in Store!HeldKey
  BY StoreAssumption
  DEF Store!Widened, Store!HeldKey, Store!Minute, Store!Earlier, Store!Later
<1> HIDE DEF taught
<1>4. SUFFICES ASSUME Store!Teaches(u.minute, a.start, now), NEW p \in Plans(u, a)
               PROVE  p \in Plan
  BY NothingPlanned DEF Plans
<1>5. taught \in Store!HeldKey
  BY <1>2, <1>4
<1>6. \/ p = [removes |-> {}, adds |-> {}, learns |-> {taught}]
      \/ p = [removes |-> {}, adds |-> {taught}, learns |-> {taught}]
      \/ \E key \in cache : p = [removes |-> {key},
                                  adds |-> {Store!Widened(key, taught)},
                                  learns |-> {taught}]
  BY <1>4 DEF Plans, taught
<1> QED
  BY <1>3, <1>5, <1>6 DEF Plan

LEMMA InitialTypes == Init => SharingTypes
<1> SUFFICES ASSUME Init
             PROVE  SharingTypes
  OBVIOUS
<1>1. (CHOOSE u \in Urls : TRUE) \in Urls /\ (CHOOSE l \in Loops : TRUE) \in Loops
  BY SharingAssumption
<1>2. url \in [Fetches -> Urls] /\ taskLoop \in [Fetches -> Loops]
  BY <1>1 DEF Init
<1>3. inFlight \in [Urls -> Fetches \cup {NoFetch}]
      /\ awaits \in [Callers -> Fetches \cup {NoFetch}]
  BY DEF Init
<1>4. TaskTypes
  BY NothingPlanned DEF Init, TaskState, TaskTypes
<1>5. /\ future \in [Fetches -> {"pending", "answered", "failed", "cancelled"}]
      /\ loopState \in [Loops -> {"running", "ending", "closed"}]
      /\ forgotten \subseteq Fetches
  BY DEF Init
<1>6. tainted \in BOOLEAN
  BY DEF Init
<1>7. cache \subseteq Store!HeldKey /\ now \in Store!Minute
  BY DEF Init
<1> QED
  BY <1>2, <1>3, <1>4, <1>5, <1>6, <1>7 DEF SharingTypes

LEMMA SharingTypesStep == SharingTypes /\ [Next]_vars => SharingTypes'
<1> SUFFICES ASSUME SharingTypes, [Next]_vars
             PROVE  SharingTypes'
  OBVIOUS
<1> USE SharingAssumption
    DEF SharingTypes, TaskTypes, TaskState, Running, Settling, store
<1>1. CASE UNCHANGED vars
  BY <1>1 DEF vars
<1>2. CASE CallerStep
  BY <1>2 DEF CallerStep, Wake, CancelCaller, Join
<1>3. CASE LoopStep
  BY <1>3 DEF LoopStep, CloseLoop, StartLoop
<1>4. CASE ClearCache
  BY <1>4 DEF ClearCache
<1>5. CASE Tick
  BY <1>5, StoreAssumption DEF Tick, Store!Minute
<1>6. ASSUME NEW l \in Loops, EndLoop(l)
      PROVE  SharingTypes'
  BY <1>6 DEF EndLoop, CancelledTask
<1>7. ASSUME NEW c \in Callers, NEW u \in Urls, NEW f \in Fetches, Lead(c, u, f)
      PROVE  SharingTypes'
  BY <1>7 DEF Lead
<1>8. ASSUME NEW f \in Fetches, Begin(f)
      PROVE  SharingTypes'
  BY <1>8 DEF Begin, Step
<1>9. ASSUME NEW f \in Fetches, Answered(f)
      PROVE  SharingTypes'
  <2>1. PICK p \in Plan : plan' = [plan EXCEPT ![f] = p]
    BY <1>9, PlanTypes DEF Answered
  <2> QED
    BY <1>9, <2>1 DEF Answered, Step
<1>10. ASSUME NEW f \in Fetches, Failed(f)
       PROVE  SharingTypes'
  BY <1>10 DEF Failed, Step, Removed
<1>11. ASSUME NEW f \in Fetches, Withdrawn(f)
       PROVE  SharingTypes'
  BY <1>11 DEF Withdrawn, Step, Removed
<1>12. ASSUME NEW f \in Fetches, Settle(f)
       PROVE  SharingTypes'
  BY <1>12 DEF Settle, Step, Outcome
<1>13. ASSUME NEW f \in Fetches, Write(f)
       PROVE  SharingTypes'
  <2>1. cache' \subseteq Store!HeldKey
    BY <1>13 DEF Write, CacheAfter, Plan
  <2>2. plan' \in [Fetches -> Plan]
    BY <1>13, NothingPlanned DEF Write
  <2> QED
    BY <1>13, <2>1, <2>2 DEF Write, Step, Removed
<1> QED
  BY <1>1, <1>2, <1>3, <1>4, <1>5, <1>6, <1>7, <1>8, <1>9, <1>10, <1>11, <1>12,
     <1>13, StepCases

SharingInv == SharingTypes /\ Exclusive

LEMMA SharingHolds == Spec => []SharingInv
<1>1. Init => Exclusive
  BY DEF Init, Exclusive, Holding
<1>2. SharingTypes => TaskTypes
  BY DEF SharingTypes
<1> QED
  BY <1>1, <1>2, InitialTypes, SharingTypesStep, ExclusiveStep, PTL
  DEF Spec, SharingInv

-----------------------------------------------------------------------------
(* The store is the store of KeyCache *)

\* With nothing planned the others see the store as it is.
LEMMA NothingChanges ==
  /\ CacheAfter(NoPlan) = cache
  /\ CountAfter(NoPlan) = heldKeys
  /\ LearnedAfter(NoPlan) = learned
BY DEF CacheAfter, CountAfter, LearnedAfter, Full, New, NoPlan

\* A plan, seen as carried out, is what _hold does in one step.
LEMMA PlanIsHold ==
  ASSUME NEW u \in Urls, NEW a \in Answers, NEW p \in Plans(u, a),
         UNCHANGED store, Pending = NoPlan, Pending' = p
  PROVE  Store!Hold(u.endPoint, u.minute, a.pem, a.start, a.end)
<1> DEFINE taught == Store!Taught(u.endPoint, u.minute, a.pem, a.start, a.end, now)
           known == {key \in cache : Store!SameKey(key, taught)}
<1>1. /\ CacheAfter(Pending) = cache
      /\ CountAfter(Pending) = heldKeys
      /\ LearnedAfter(Pending) = learned
  BY NothingChanges
<1>2. /\ CacheAfter(Pending)' = CacheAfter(p)
      /\ CountAfter(Pending)' = CountAfter(p)
      /\ LearnedAfter(Pending)' = LearnedAfter(p)
      /\ now' = now
  BY DEF store, CacheAfter, CountAfter, LearnedAfter, Full, New
<1>3. CASE ~Store!Teaches(u.minute, a.start, now)
  <2>1. p = NoPlan
    BY <1>3 DEF Plans
  <2> QED
    BY <1>1, <1>2, <1>3, <2>1, NothingChanges DEF Store!Hold, Store!HoldNothing
<1>4. CASE Store!Teaches(u.minute, a.start, now)
  <2> HIDE DEF taught
  <2>1. SUFFICES Store!HoldKnown(taught) \/ Store!HoldRefused(taught)
                   \/ Store!HoldNew(taught)
    BY <1>2, <1>4 DEF Store!Hold, taught
  <2>2. ASSUME NEW key \in cache, Store!SameKey(key, taught),
               p = IF Store!MayWiden(cache, key, taught)
                     THEN [removes |-> {key}, adds |-> {Store!Widened(key, taught)},
                           learns |-> {taught}]
                     ELSE [removes |-> {}, adds |-> {}, learns |-> {taught}]
        PROVE  Store!HoldKnown(taught)
    BY <1>1, <1>2, <2>2
    DEF Store!HoldKnown, CacheAfter, CountAfter, LearnedAfter, Full, New
  <2>3. ASSUME known = {}, Store!InTheWay(cache, taught) # {},
               p = [removes |-> {}, adds |-> {}, learns |-> {taught}]
        PROVE  Store!HoldRefused(taught)
    BY <1>1, <1>2, <2>3
    DEF Store!HoldRefused, CacheAfter, CountAfter, LearnedAfter, Full, New
  <2>4. ASSUME known = {}, Store!InTheWay(cache, taught) = {},
               p = [removes |-> {}, adds |-> {taught}, learns |-> {taught}]
        PROVE  Store!HoldNew(taught)
    BY <1>1, <1>2, <2>4
    DEF Store!HoldNew, CacheAfter, CountAfter, LearnedAfter, Full, New
  <2>5. CASE known # {}
    <3>1. PICK key \in known :
            p = IF Store!MayWiden(cache, key, taught)
                  THEN [removes |-> {key}, adds |-> {Store!Widened(key, taught)},
                        learns |-> {taught}]
                  ELSE [removes |-> {}, adds |-> {}, learns |-> {taught}]
      BY <1>4, <2>5 DEF Plans, taught
    <3> QED
      BY <2>2, <3>1
  <2>6. CASE known = {}
    <3>1. p = [removes |-> {},
               adds |-> IF Store!InTheWay(cache, taught) = {} THEN {taught} ELSE {},
               learns |-> {taught}]
      BY <1>4, <2>6 DEF Plans, taught
    <3> QED
      BY <2>3, <2>4, <2>6, <3>1
  <2> QED
    BY <2>5, <2>6
<1> QED
  BY <1>3, <1>4

LEMMA StoreStep == SharingInv /\ [Next]_vars => [Store!Next]_(Store!vars)
<1> SUFFICES ASSUME SharingInv, [Next]_vars
             PROVE  [Store!Next]_(Store!vars)
  OBVIOUS
<1> USE DEF SharingInv, SharingTypes
<1>1. ASSUME NEW f \in Fetches, Answered(f)
      PROVE  Store!Next
  <2>1. PICK a \in Answers : \E p \in Plans(url[f], a) : plan' = [plan EXCEPT ![f] = p]
    BY <1>1 DEF Answered
  <2>2. PICK p \in Plans(url[f], a) : plan' = [plan EXCEPT ![f] = p]
    BY <2>1
  <2>3. Holding = {} /\ Holding' = {f} /\ plan'[f] = p
    BY <1>1, <2>2 DEF Answered, Unlocked, Holding, Step, TaskTypes
  <2>4. Pending = NoPlan /\ Pending' = p
    BY <2>3 DEF Pending, Unlocked
  <2>5. UNCHANGED store
    BY <1>1 DEF Answered
  <2>6. Store!Hold(url[f].endPoint, url[f].minute, a.pem, a.start, a.end)
    BY <2>4, <2>5, PlanIsHold
  <2>7. /\ url[f].endPoint \in EndPoints /\ url[f].minute \in Store!Moment
        /\ a.pem \in Pems /\ a.start \in Store!Moment /\ a.end \in Store!Moment
        /\ Store!Answerable(a.start, a.end)
    BY SharingAssumption DEF Url, Answer
  <2> QED
    BY <2>6, <2>7 DEF Store!Next
<1>2. ASSUME NEW f \in Fetches, Write(f)
      PROVE  UNCHANGED Store!vars
  <2>1. Holding = {f} /\ Holding' = {}
    BY <1>2 DEF Write, Step, Holding, Exclusive, TaskTypes
  <2>2. Pending = plan[f] /\ Pending' = NoPlan
    BY <2>1 DEF Pending, Unlocked
  <2>3. /\ CacheAfter(Pending)' = cache'
        /\ CountAfter(Pending)' = heldKeys'
        /\ LearnedAfter(Pending)' = learned'
    BY <2>2 DEF CacheAfter, CountAfter, LearnedAfter, Full, New, NoPlan
  <2> QED
    BY <1>2, <2>2, <2>3 DEF Write, Store!vars
<1>3. CASE ~ \E f \in Fetches : Answered(f) \/ Write(f)
  <2>1. Pending' = Pending
    BY <1>3, HoldingStays
  <2>2. CASE UNCHANGED store
    BY <2>1, <2>2
    DEF store, Store!vars, CacheAfter, CountAfter, LearnedAfter, Full, New
  <2>3. CASE ClearCache
    <3>1. Pending = NoPlan
      BY <2>3 DEF ClearCache, Pending
    <3>2. /\ CacheAfter(Pending)' = {}
          /\ CountAfter(Pending)' = 0
          /\ LearnedAfter(Pending)' = {}
      BY <2>1, <2>3, <3>1
      DEF ClearCache, CacheAfter, CountAfter, LearnedAfter, Full, New, NoPlan
    <3> QED
      BY <2>3, <3>2 DEF ClearCache, Store!ClearCache, Store!Next
  <2>4. CASE Tick
    <3>1. /\ CacheAfter(Pending)' = CacheAfter(Pending)
          /\ CountAfter(Pending)' = CountAfter(Pending)
          /\ LearnedAfter(Pending)' = LearnedAfter(Pending)
      BY <2>1, <2>4 DEF Tick, CacheAfter, CountAfter, LearnedAfter, Full, New
    <3> QED
      BY <2>4, <3>1 DEF Tick, Store!Tick, Store!Next
  <2>5. UNCHANGED store \/ ClearCache \/ Tick
    BY <1>3, StepCases
    DEF vars, store, CallerStep, LoopStep, Wake, CancelCaller, Join, CloseLoop,
        StartLoop, EndLoop, Lead, Begin, Failed, Withdrawn, Settle
  <2> QED
    BY <2>2, <2>3, <2>4, <2>5
<1> QED
  BY <1>1, <1>2, <1>3

\* Callers on any number of loops use the store as KeyCache says it is used,
\* although a _hold looks and writes in two steps and the clock runs on in
\* between: an answer is held as of the moment its _hold looked at the clock.
THEOREM ImplementsStore == Spec => StoreSpec
<1>1. Init => Store!Init
  <2> SUFFICES ASSUME Init
               PROVE  Store!Init
    OBVIOUS
  <2>1. Pending = NoPlan
    BY DEF Init, Pending, Unlocked, Holding
  <2> QED
    BY <2>1, NothingChanges DEF Init, Store!Init
<1> QED
  BY <1>1, StoreStep, SharingHolds, PTL DEF Spec, StoreSpec, Store!Spec

\* KeyCacheProofs instantiates KeyCache a second time; the two say the same.
LEMMA SameStore == Store!Spec => StoreFacts!Spec
<1>1. Store!Init => StoreFacts!Init
  BY DEF Store!Init, StoreFacts!Init, Store!Minute, StoreFacts!Minute
<1>2. [Store!Next]_(Store!vars) => [StoreFacts!Next]_(StoreFacts!vars)
  BY DEF Store!Next, StoreFacts!Next, Store!vars, StoreFacts!vars,
     Store!ClearCache, StoreFacts!ClearCache, Store!Tick, StoreFacts!Tick,
     Store!Moment, StoreFacts!Moment, Store!Absent, StoreFacts!Absent,
     Store!Minute, StoreFacts!Minute,
     Store!Answerable, StoreFacts!Answerable, Store!Hold, StoreFacts!Hold,
     Store!HoldNothing, StoreFacts!HoldNothing, Store!Teaches, StoreFacts!Teaches,
     Store!Recent, StoreFacts!Recent, Store!Taught, StoreFacts!Taught,
     Store!BothEnds, StoreFacts!BothEnds, Store!Later, StoreFacts!Later,
     Store!Earlier, StoreFacts!Earlier,
     Store!HoldKnown, StoreFacts!HoldKnown, Store!HoldRefused, StoreFacts!HoldRefused,
     Store!HoldNew, StoreFacts!HoldNew, Store!SameKey, StoreFacts!SameKey,
     Store!Overlap, StoreFacts!Overlap, Store!Widened, StoreFacts!Widened,
     Store!MayWiden, StoreFacts!MayWiden, Store!InTheWay, StoreFacts!InTheWay
<1> QED
  BY <1>1, <1>2, PTL DEF Store!Spec, StoreFacts!Spec

\* Hence at most one key is held for any minute of a creator, however the
\* callers, their loops and clear_cache interleave.
THEOREM SharedStoreIsUnambiguous == Spec => []Store!Unambiguous
<1>1. StoreFacts!Spec => []StoreFacts!Unambiguous
  BY StoreFacts!CacheIsUnambiguous, StoreAssumption
<1>2. StoreFacts!Unambiguous => Store!Unambiguous
  BY DEF Store!Unambiguous, StoreFacts!Unambiguous,
     Store!SpansDisjoint, StoreFacts!SpansDisjoint,
     Store!OneSpanPerKey, StoreFacts!OneSpanPerKey,
     Store!Overlap, StoreFacts!Overlap, Store!SameKey, StoreFacts!SameKey
<1> QED
  BY <1>1, <1>2, ImplementsStore, SameStore, PTL DEF StoreSpec

\* And the count that bounds the store is right under concurrent callers.
THEOREM SharedStoreStaysBounded == Spec => []Store!StoreIsBounded
<1>1. StoreFacts!Spec => []StoreFacts!StoreIsBounded
  BY StoreFacts!StoreStaysBounded, StoreAssumption
<1>2. StoreFacts!StoreIsBounded => Store!StoreIsBounded
  BY DEF Store!StoreIsBounded, StoreFacts!StoreIsBounded,
     Store!CountIsExact, StoreFacts!CountIsExact,
     Store!IsFiniteSet, StoreFacts!IsFiniteSet,
     Store!Cardinality, StoreFacts!Cardinality
<1> QED
  BY <1>1, <1>2, ImplementsStore, SameStore, PTL DEF StoreSpec

LEMMA StoreTypes == Spec => []Store!TypeOK
<1>1. StoreFacts!Spec => []StoreFacts!TypeOK
  BY StoreFacts!TypeCorrect, StoreAssumption
<1>2. StoreFacts!TypeOK => Store!TypeOK
  BY DEF Store!TypeOK, StoreFacts!TypeOK, Store!HeldKey, StoreFacts!HeldKey,
     Store!Minute, StoreFacts!Minute
<1> QED
  BY <1>1, <1>2, ImplementsStore, SameStore, PTL DEF StoreSpec

-----------------------------------------------------------------------------
\* The entries, tasks, futures and callers keep to the states they may be in.
THEOREM TypeCorrect == Spec => []TypeOK
<1>1. SharingInv /\ Store!TypeOK => TypeOK
  BY DEF SharingInv, SharingTypes, TaskTypes, TypeOK
<1> QED
  BY <1>1, SharingHolds, StoreTypes, PTL

-----------------------------------------------------------------------------
(* Requests in flight *)

\* No entry names a fetch that has got as far as its lock: stronger than
\* EntriesAreOpen, because a task between its lock and its future has not
\* settled it yet and soon will.
EntriesUnfinished ==
  \A u \in Urls : inFlight[u] # NoFetch =>
    /\ url[inFlight[u]] = u
    /\ future[inFlight[u]] = "pending"
    /\ task[inFlight[u]] \in Running \cup {"dropped"}

RequestsInv == SharingTypes /\ EntriesUnfinished /\ FetchesAreInFlight

LEMMA LeadKeepsRequests ==
  ASSUME RequestsInv, NEW c \in Callers, NEW u \in Urls, NEW f \in Fetches,
         Lead(c, u, f)
  PROVE  EntriesUnfinished' /\ FetchesAreInFlight'
<1> USE SharingAssumption DEF RequestsInv, SharingTypes, TaskTypes
<1>1. /\ inFlight' = [inFlight EXCEPT ![u] = f]
      /\ task' = [task EXCEPT ![f] = "scheduled"]
      /\ url' = [url EXCEPT ![f] = u]
      /\ future' = [future EXCEPT ![f] = "pending"]
      /\ forgotten' = forgotten \ {f}
      /\ inFlight[u] = NoFetch
      /\ \A v \in Urls : inFlight[v] # f
  BY DEF Lead, Fresh
<1>2. EntriesUnfinished'
  BY <1>1 DEF EntriesUnfinished, Running
<1>3. FetchesAreInFlight'
  BY <1>1 DEF FetchesAreInFlight
<1> QED
  BY <1>2, <1>3

\* What a fetch does as it ends: it leaves Running and removes its own entry.
LEMMA EndingKeepsRequests ==
  ASSUME RequestsInv, NEW f \in Fetches, NEW to \in Settling,
         task' = [task EXCEPT ![f] = to], inFlight' = Removed(f),
         UNCHANGED <<url, future, forgotten>>
  PROVE  EntriesUnfinished' /\ FetchesAreInFlight'
<1> USE SharingAssumption DEF RequestsInv, SharingTypes, TaskTypes
<1>1. \A v \in Urls : inFlight'[v] # NoFetch => inFlight'[v] = inFlight[v]
                                               /\ inFlight[v] # f
  BY DEF Removed, EntriesUnfinished
<1>2. EntriesUnfinished'
  BY <1>1 DEF EntriesUnfinished
<1>3. \A g \in Fetches : task'[g] \in Running => g # f /\ task'[g] = task[g]
  BY DEF Running, Settling
<1>4. \A g \in Fetches : inFlight[url[g]] = g /\ g # f => inFlight'[url[g]] = g
  BY DEF Removed
<1>5. FetchesAreInFlight'
  BY <1>3, <1>4 DEF FetchesAreInFlight
<1> QED
  BY <1>2, <1>5

LEMMA RequestsStep == RequestsInv /\ [Next]_vars => RequestsInv'
<1> SUFFICES ASSUME RequestsInv, [Next]_vars
             PROVE  EntriesUnfinished' /\ FetchesAreInFlight'
  BY SharingTypesStep DEF RequestsInv
<1> USE SharingAssumption DEF RequestsInv, SharingTypes, TaskTypes
<1>1. CASE UNCHANGED <<inFlight, task, url, future, forgotten>>
  BY <1>1 DEF EntriesUnfinished, FetchesAreInFlight
<1>2. CASE UNCHANGED vars \/ CallerStep \/ LoopStep \/ Tick
  BY <1>1, <1>2 DEF vars, CallerStep, Wake, CancelCaller, Join, LoopStep,
                    CloseLoop, StartLoop, Tick
<1>3. CASE ClearCache
  BY <1>3 DEF ClearCache, EntriesUnfinished, FetchesAreInFlight
<1>4. ASSUME NEW l \in Loops, EndLoop(l)
      PROVE  EntriesUnfinished' /\ FetchesAreInFlight'
  <2>1. /\ UNCHANGED <<inFlight, url, future, forgotten>>
        /\ \A f \in Fetches :
             task'[f] # task[f] => task'[f] \in {"dropped", "cancelling"}
                                   /\ task[f] \in Running
    BY <1>4 DEF EndLoop, CancelledTask, Running
  <2> QED
    BY <2>1 DEF EntriesUnfinished, FetchesAreInFlight, Running
<1>5. ASSUME NEW f \in Fetches, Begin(f) \/ Answered(f)
      PROVE  EntriesUnfinished' /\ FetchesAreInFlight'
  <2>1. PICK to \in Running : task' = [task EXCEPT ![f] = to] /\ task[f] \in Running
    BY <1>5 DEF Begin, Answered, Step, Running
  <2>2. UNCHANGED <<inFlight, url, future, forgotten>>
    BY <1>5 DEF Begin, Answered, Step
  <2> QED
    BY <2>1, <2>2 DEF EntriesUnfinished, FetchesAreInFlight
<1>6. ASSUME NEW f \in Fetches, Write(f) \/ Failed(f) \/ Withdrawn(f)
      PROVE  EntriesUnfinished' /\ FetchesAreInFlight'
  <2>1. PICK to \in Settling : task' = [task EXCEPT ![f] = to]
    BY <1>6 DEF Write, Failed, Withdrawn, Step, Settling
  <2>2. inFlight' = Removed(f) /\ UNCHANGED <<url, future, forgotten>>
    BY <1>6 DEF Write, Failed, Withdrawn, Step
  <2> QED
    BY <2>1, <2>2, EndingKeepsRequests
<1>7. ASSUME NEW f \in Fetches, Settle(f)
      PROVE  EntriesUnfinished' /\ FetchesAreInFlight'
  <2>1. \A u \in Urls : inFlight[u] # f
    BY <1>7 DEF Settle, EntriesUnfinished, Running, Settling
  <2> QED
    BY <1>7, <2>1
    DEF Settle, Step, EntriesUnfinished, FetchesAreInFlight, Running
<1> QED
  BY <1>2, <1>3, <1>4, <1>5, <1>6, <1>7, LeadKeepsRequests, StepCases

LEMMA RequestsHold == Spec => []RequestsInv
<1>1. Init => RequestsInv
  BY InitialTypes
  DEF Init, RequestsInv, EntriesUnfinished, FetchesAreInFlight, Running
<1> QED
  BY <1>1, RequestsStep, PTL DEF Spec

\* However fetches end, are cancelled or are forgotten, none removes the
\* entry of another, so a URL is asked for once at a time but for clear_cache.
THEOREM RequestsAreShared == Spec => []FetchesAreInFlight
BY RequestsHold, PTL DEF RequestsInv

\* And nobody joins a request that is over or one for another URL.
THEOREM JoinedRequestsAreOpen == Spec => []EntriesAreOpen
<1>1. RequestsInv => EntriesAreOpen
  BY DEF RequestsInv, EntriesUnfinished, EntriesAreOpen
<1> QED
  BY <1>1, RequestsHold, PTL

-----------------------------------------------------------------------------
(* Where loops outlive the tasks just created on them *)

NoneDropped == \A f \in Fetches : task[f] # "dropped"
DoneIsSettled == \A f \in Fetches : task[f] = "done" => future[f] # "pending"
AwaitedExist == \A c \in Callers : awaits[c] # NoFetch => task[awaits[c]] # "none"

LiveInv == RequestsInv /\ NoneDropped /\ DoneIsSettled /\ AwaitedExist

LEMMA LiveStep == ASSUME ~EndsEarly PROVE LiveInv /\ [Next]_vars => LiveInv'
<1> SUFFICES ASSUME LiveInv, [Next]_vars
             PROVE  NoneDropped' /\ DoneIsSettled' /\ AwaitedExist'
  BY RequestsStep DEF LiveInv
<1> USE SharingAssumption DEF LiveInv, RequestsInv, SharingTypes, TaskTypes
<1>1. CASE UNCHANGED vars \/ LoopStep \/ ClearCache \/ Tick
  <2>1. UNCHANGED <<task, future, awaits>>
    BY <1>1 DEF vars, LoopStep, CloseLoop, StartLoop, ClearCache, Tick
  <2> QED
    BY <2>1 DEF NoneDropped, DoneIsSettled, AwaitedExist
<1>2. CASE CallerStep
  <2>1. UNCHANGED <<task, future>>
    BY <1>2 DEF CallerStep, Wake, CancelCaller, Join
  <2>2. \A u \in Urls : inFlight[u] # NoFetch => task[inFlight[u]] # "none"
    BY DEF EntriesUnfinished, Running
  <2>3. AwaitedExist'
    BY <1>2, <2>1, <2>2 DEF CallerStep, Wake, CancelCaller, Join, AwaitedExist
  <2> QED
    BY <2>1, <2>3 DEF NoneDropped, DoneIsSettled
<1>3. ASSUME NEW l \in Loops, EndLoop(l)
      PROVE  NoneDropped' /\ DoneIsSettled' /\ AwaitedExist'
  <2>1. \A f \in Fetches : \/ task'[f] = task[f]
                           \/ task[f] = "reading" /\ task'[f] = "cancelling"
    BY <1>3 DEF EndLoop, CancelledTask
  <2>2. future' = future /\ \A c \in Callers : awaits'[c] \in {awaits[c], NoFetch}
    BY <1>3 DEF EndLoop
  <2>3. NoneDropped' /\ DoneIsSettled'
    BY <2>1, <2>2 DEF NoneDropped, DoneIsSettled
  <2>4. AwaitedExist'
    BY <2>1, <2>2 DEF AwaitedExist
  <2> QED
    BY <2>3, <2>4
<1>4. ASSUME NEW c \in Callers, NEW u \in Urls, NEW f \in Fetches, Lead(c, u, f)
      PROVE  NoneDropped' /\ DoneIsSettled' /\ AwaitedExist'
  <2>1. /\ task' = [task EXCEPT ![f] = "scheduled"]
        /\ future' = [future EXCEPT ![f] = "pending"]
        /\ awaits' = [awaits EXCEPT ![c] = f]
    BY <1>4 DEF Lead
  <2> QED
    BY <2>1 DEF NoneDropped, DoneIsSettled, AwaitedExist
<1>5. ASSUME NEW f \in Fetches,
             Begin(f) \/ Answered(f) \/ Write(f) \/ Failed(f) \/ Withdrawn(f)
      PROVE  NoneDropped' /\ DoneIsSettled' /\ AwaitedExist'
  <2>1. PICK to \in Running \cup Settling : task' = [task EXCEPT ![f] = to]
    BY <1>5 DEF Begin, Answered, Write, Failed, Withdrawn, Step, Running, Settling
  <2>2. UNCHANGED <<future, awaits>>
    BY <1>5 DEF Begin, Answered, Write, Failed, Withdrawn, Step
  <2> QED
    BY <2>1, <2>2 DEF NoneDropped, DoneIsSettled, AwaitedExist, Running, Settling
<1>6. ASSUME NEW f \in Fetches, Settle(f)
      PROVE  NoneDropped' /\ DoneIsSettled' /\ AwaitedExist'
  <2>1. /\ task' = [task EXCEPT ![f] = "done"]
        /\ future' = [future EXCEPT ![f] = Outcome[task[f]]]
        /\ Outcome[task[f]] # "pending"
        /\ awaits' = awaits
    BY <1>6 DEF Settle, Step, Settling, Outcome
  <2> QED
    BY <2>1 DEF NoneDropped, DoneIsSettled, AwaitedExist
<1> QED
  BY <1>1, <1>2, <1>3, <1>4, <1>5, <1>6, StepCases

LEMMA LiveInvariant == ASSUME ~EndsEarly PROVE Spec => []LiveInv
<1>1. Init => NoneDropped /\ DoneIsSettled /\ AwaitedExist
  BY DEF Init, NoneDropped, DoneIsSettled, AwaitedExist
<1>2. RequestsInv /\ NoneDropped /\ DoneIsSettled /\ AwaitedExist => LiveInv
  BY DEF LiveInv
<1>3. Init => RequestsInv
  BY InitialTypes
  DEF Init, RequestsInv, EntriesUnfinished, FetchesAreInFlight, Running
<1> QED
  BY <1>1, <1>2, <1>3, LiveStep, PTL DEF Spec

\* An entry is removed when its fetch finishes, where no loop ends before a
\* task it was given has begun.
THEOREM EntriesStayLive == ASSUME ~EndsEarly PROVE Spec => []EntriesAreLive
<1>1. LiveInv => EntriesAreLive
  BY SharingAssumption
  DEF LiveInv, RequestsInv, SharingTypes, EntriesUnfinished, NoneDropped,
      TaskTypes, EntriesAreLive
<1> QED
  BY <1>1, LiveInvariant, PTL

\* And whoever awaits a request on a loop that goes on has a task at work for
\* it, or a future to read, whatever became of the loop that made the request.
THEOREM NobodyStrands == ASSUME ~EndsEarly PROVE Spec => []NobodyIsStranded
<1>1. LiveInv => NobodyIsStranded
  BY SharingAssumption
  DEF LiveInv, RequestsInv, SharingTypes, TaskState, NoneDropped, DoneIsSettled,
      TaskTypes, AwaitedExist, NobodyIsStranded
<1> QED
  BY <1>1, LiveInvariant, PTL
=============================================================================
