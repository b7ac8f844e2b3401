--------------------------- MODULE KeyCacheProofs ---------------------------
(***************************************************************************)
(* What the runs of KeyCache show on a small store, proved for every set   *)
(* of creators and keys, every bound on the store, every clock and every   *)
(* history.                                                                *)
(***************************************************************************)
EXTENDS KeyCache, FiniteSetTheorems, TLAPS

-----------------------------------------------------------------------------
(* The operators keep to their types and to what they promise *)

LEMMA TaughtIsHeldKey ==
  ASSUME NEW endPoint \in EndPoints, NEW minute \in Moment, NEW pem \in Pems,
         NEW start \in Moment, NEW end \in Moment, NEW t \in Minute,
         Teaches(minute, start, t)
  PROVE  Taught(endPoint, minute, pem, start, end, t) \in HeldKey
BY ClockAssumption
DEF Taught, HeldKey, Moment, Minute, Absent, Teaches, BothEnds, Later

LEMMA WidenedIsHeldKey ==
  ASSUME NEW key \in HeldKey, NEW taught \in HeldKey
  PROVE  Widened(key, taught) \in HeldKey
BY ClockAssumption DEF Widened, HeldKey, Minute, Earlier, Later

\* Widening changes neither whose key it is nor any minute already covered.
LEMMA WidenedCovers ==
  ASSUME NEW key \in HeldKey, NEW taught \in HeldKey
  PROVE  /\ SameKey(Widened(key, taught), key)
         /\ Widened(key, taught).first <= key.first
         /\ key.last <= Widened(key, taught).last
         /\ key.explicit => Widened(key, taught).explicit
BY ClockAssumption
DEF Widened, HeldKey, Minute, Earlier, Later, SameKey

-----------------------------------------------------------------------------
(* Every step is one of five, whatever answer it holds *)

NothingHeld == UNCHANGED <<cache, heldKeys, learned, now>>

LEMMA HoldCases ==
  ASSUME TypeOK,
         NEW endPoint \in EndPoints, NEW minute \in Moment, NEW pem \in Pems,
         NEW start \in Moment, NEW end \in Moment,
         Hold(endPoint, minute, pem, start, end)
  PROVE  \/ NothingHeld
         \/ /\ now' = now
            /\ \E taught \in HeldKey :
                 /\ taught.explicit \/ taught.openEnded \/ ~Recent(taught.last, now)
                 /\ HoldKnown(taught) \/ HoldRefused(taught) \/ HoldNew(taught)
<1>1. CASE HoldNothing(minute, start)
  BY <1>1 DEF Hold, HoldNothing, NothingHeld
<1>2. CASE ~HoldNothing(minute, start)
  <2> DEFINE taught == Taught(endPoint, minute, pem, start, end, now)
  <2>1. Teaches(minute, start, now)
    BY <1>2 DEF Hold
  <2>2. taught \in HeldKey
    BY <2>1, TaughtIsHeldKey DEF TypeOK
  <2>3. taught.explicit \/ taught.openEnded \/ ~Recent(taught.last, now)
    BY <2>1 DEF Taught, Teaches, BothEnds
  <2>4. HoldKnown(taught) \/ HoldRefused(taught) \/ HoldNew(taught)
    BY <1>2 DEF Hold
  <2> QED
    BY <2>2, <2>3, <2>4 DEF Hold
<1> QED
  BY <1>1, <1>2

\* The same, for the whole of Next.
LEMMA StepCases ==
  ASSUME TypeOK, [Next]_vars
  PROVE  \/ NothingHeld
         \/ ClearCache
         \/ Tick
         \/ /\ now' = now
            /\ \E taught \in HeldKey :
                 /\ taught.explicit \/ taught.openEnded \/ ~Recent(taught.last, now)
                 /\ HoldKnown(taught) \/ HoldRefused(taught) \/ HoldNew(taught)
<1>1. CASE UNCHANGED vars
  BY <1>1 DEF vars, NothingHeld
<1>2. ASSUME NEW endPoint \in EndPoints, NEW minute \in Moment, NEW pem \in Pems,
             NEW start \in Moment, NEW end \in Moment,
             Hold(endPoint, minute, pem, start, end)
      PROVE  \/ NothingHeld
             \/ /\ now' = now
                /\ \E taught \in HeldKey :
                     /\ taught.explicit \/ taught.openEnded \/ ~Recent(taught.last, now)
                     /\ HoldKnown(taught) \/ HoldRefused(taught) \/ HoldNew(taught)
  BY <1>2, HoldCases
<1> QED
  BY <1>1, <1>2 DEF Next

-----------------------------------------------------------------------------
(* Types *)

LEMMA TypeStep == TypeOK /\ [Next]_vars => TypeOK'
<1> SUFFICES ASSUME TypeOK, [Next]_vars
             PROVE  TypeOK'
  OBVIOUS
<1>1. CASE NothingHeld
  BY <1>1 DEF NothingHeld, TypeOK
<1>2. CASE ClearCache
  BY <1>2 DEF ClearCache, TypeOK
<1>3. CASE Tick
  BY <1>3, ClockAssumption DEF Tick, TypeOK, Minute
<1>4. ASSUME NEW taught \in HeldKey, now' = now,
             HoldKnown(taught) \/ HoldRefused(taught) \/ HoldNew(taught)
      PROVE  TypeOK'
  <2>1. CASE HoldKnown(taught)
    BY <1>4, <2>1, WidenedIsHeldKey DEF HoldKnown, TypeOK
  <2>2. CASE HoldRefused(taught)
    BY <1>4, <2>2 DEF HoldRefused, TypeOK
  <2>3. CASE HoldNew(taught)
    BY <1>4, <2>3 DEF HoldNew, TypeOK
  <2> QED
    BY <1>4, <2>1, <2>2, <2>3
<1> QED
  BY <1>1, <1>2, <1>3, <1>4, StepCases

\* Whatever creators answer, the store holds keys with spans of minutes an
\* OWID can carry, and the counter stays a count.
THEOREM TypeCorrect == Spec => []TypeOK
<1>1. Init => TypeOK
  BY DEF Init, TypeOK
<1> QED
  BY <1>1, TypeStep, PTL DEF Spec

-----------------------------------------------------------------------------
(* No two held keys claim a minute *)

\* Keys of one creator that are not each other cover different minutes, and
\* no two are the same key of the same creator.
Apart(held) ==
  /\ \A k, l \in held : k.endPoint = l.endPoint /\ k # l => ~Overlap(k, l)
  /\ \A k, l \in held : SameKey(k, l) => k = l

LEMMA AddedApart ==
  ASSUME NEW held, held \subseteq HeldKey, NEW taught \in HeldKey,
         Apart(held),
         ~ \E key \in held : SameKey(key, taught),
         InTheWay(held, taught) = {}
  PROVE  Apart(held \cup {taught})
<1> DEFINE both == held \cup {taught}
<1>1. \A k \in held : ~SameKey(k, taught) /\ ~SameKey(taught, k)
  BY DEF SameKey
<1>2. \A k \in held : k.endPoint = taught.endPoint =>
                         ~Overlap(k, taught) /\ ~Overlap(taught, k)
  BY DEF InTheWay, Overlap, HeldKey, Minute
<1>3. \A k, l \in both : k.endPoint = l.endPoint /\ k # l => ~Overlap(k, l)
  BY <1>2 DEF Apart
<1>4. \A k, l \in both : SameKey(k, l) => k = l
  BY <1>1 DEF Apart
<1> QED
  BY <1>3, <1>4 DEF Apart

LEMMA WidenedApart ==
  ASSUME NEW held, held \subseteq HeldKey, NEW taught \in HeldKey,
         NEW key \in held, Apart(held), SameKey(key, taught),
         MayWiden(held, key, taught)
  PROVE  /\ Apart((held \ {key}) \cup {Widened(key, taught)})
         /\ Widened(key, taught) \notin held \ {key}
<1> DEFINE wide == Widened(key, taught)
           rest == held \ {key}
<1>1. wide \in HeldKey /\ SameKey(wide, key)
  BY WidenedIsHeldKey, WidenedCovers
<1>2. \A k \in rest : ~SameKey(k, wide)
  BY <1>1 DEF Apart, SameKey
<1>3. InTheWay(rest, wide) = {}
  BY <1>1 DEF MayWiden, InTheWay, SameKey
<1>4. Apart(rest)
  BY DEF Apart
<1>5. Apart(rest \cup {wide})
  BY <1>1, <1>2, <1>3, <1>4, AddedApart
<1>6. wide \notin rest
  BY <1>2 DEF SameKey
<1> QED
  BY <1>5, <1>6

LEMMA UnambiguousStep == TypeOK /\ Unambiguous /\ [Next]_vars => Unambiguous'
<1> SUFFICES ASSUME TypeOK, Apart(cache), [Next]_vars
             PROVE  Apart(cache')
  BY DEF Apart, Unambiguous, SpansDisjoint, OneSpanPerKey
<1>1. CASE NothingHeld \/ Tick
  BY <1>1 DEF NothingHeld, Tick
<1>2. CASE ClearCache
  BY <1>2 DEF ClearCache, Apart
<1>3. ASSUME NEW taught \in HeldKey, HoldKnown(taught)
      PROVE  Apart(cache')
  BY <1>3, WidenedApart DEF HoldKnown, TypeOK
<1>4. ASSUME NEW taught \in HeldKey, HoldRefused(taught)
      PROVE  Apart(cache')
  BY <1>4 DEF HoldRefused
<1>5. ASSUME NEW taught \in HeldKey, HoldNew(taught)
      PROVE  Apart(cache')
  <2>1. CASE heldKeys >= MaxCachedKeys
    BY <1>5, <2>1 DEF HoldNew, Apart
  <2>2. CASE ~(heldKeys >= MaxCachedKeys)
    BY <1>5, <2>2, AddedApart DEF HoldNew, TypeOK
  <2> QED
    BY <2>1, <2>2
<1> QED
  BY <1>1, <1>2, <1>3, <1>4, <1>5, StepCases

\* Whatever creators answer and in whatever order, at most one key is held
\* for any minute of any creator, so the verdict on an identifier does not
\* depend on the order in which a list of _cache was filled.
THEOREM CacheIsUnambiguous == Spec => []Unambiguous
<1>1. Init => Unambiguous
  BY DEF Init, Unambiguous, SpansDisjoint, OneSpanPerKey
<1> QED
  BY <1>1, UnambiguousStep, TypeCorrect, PTL DEF Spec

-----------------------------------------------------------------------------
(* The count is the size of the store *)

LEMMA CountStep ==
  TypeOK /\ Unambiguous /\ StoreIsBounded /\ [Next]_vars => StoreIsBounded'
<1> SUFFICES ASSUME TypeOK, Apart(cache), StoreIsBounded, [Next]_vars
             PROVE  StoreIsBounded'
  BY DEF Apart, Unambiguous, SpansDisjoint, OneSpanPerKey
<1> USE BoundAssumption
<1>1. CASE NothingHeld \/ Tick
  BY <1>1 DEF NothingHeld, Tick, StoreIsBounded, CountIsExact
<1>2. CASE ClearCache
  BY <1>2, FS_EmptySet DEF ClearCache, StoreIsBounded, CountIsExact
<1>3. ASSUME NEW taught \in HeldKey, HoldKnown(taught)
      PROVE  StoreIsBounded'
  <2>1. PICK key \in cache :
          /\ SameKey(key, taught)
          /\ IF MayWiden(cache, key, taught)
               THEN cache' = (cache \ {key}) \cup {Widened(key, taught)}
               ELSE UNCHANGED cache
          /\ UNCHANGED heldKeys
    BY <1>3 DEF HoldKnown
  <2>2. CASE MayWiden(cache, key, taught)
    <3>1. Widened(key, taught) \notin cache \ {key}
      BY <2>1, <2>2, WidenedApart DEF TypeOK
    <3>2. IsFiniteSet(cache \ {key})
          /\ Cardinality(cache \ {key}) = Cardinality(cache) - 1
      BY FS_RemoveElement DEF StoreIsBounded, CountIsExact
    <3>3. IsFiniteSet(cache') /\ Cardinality(cache') = Cardinality(cache)
      BY <2>1, <2>2, <3>1, <3>2, FS_AddElement
      DEF StoreIsBounded, CountIsExact, TypeOK
    <3> QED
      BY <2>1, <3>3 DEF StoreIsBounded, CountIsExact
  <2>3. CASE ~MayWiden(cache, key, taught)
    BY <2>1, <2>3 DEF StoreIsBounded, CountIsExact
  <2> QED
    BY <2>2, <2>3
<1>4. ASSUME NEW taught \in HeldKey, HoldRefused(taught)
      PROVE  StoreIsBounded'
  BY <1>4 DEF HoldRefused, StoreIsBounded, CountIsExact
<1>5. ASSUME NEW taught \in HeldKey, HoldNew(taught)
      PROVE  StoreIsBounded'
  <2>1. CASE heldKeys >= MaxCachedKeys
    <3>1. cache' = {taught} /\ heldKeys' = 1
      BY <1>5, <2>1 DEF HoldNew
    <3>2. IsFiniteSet({taught}) /\ Cardinality({taught}) = 1
      BY FS_Singleton
    <3> QED
      BY <3>1, <3>2 DEF StoreIsBounded, CountIsExact
  <2>2. CASE ~(heldKeys >= MaxCachedKeys)
    <3>1. taught \notin cache
      BY <1>5 DEF HoldNew, SameKey
    <3>2. IsFiniteSet(cache') /\ Cardinality(cache') = Cardinality(cache) + 1
      BY <1>5, <2>2, <3>1, FS_AddElement DEF HoldNew, StoreIsBounded, CountIsExact
    <3> QED
      BY <1>5, <2>2, <3>2 DEF HoldNew, StoreIsBounded, CountIsExact, TypeOK
  <2> QED
    BY <2>1, <2>2
<1> QED
  BY <1>1, <1>2, <1>3, <1>4, <1>5, StepCases

\* The store never outgrows MAXIMUM_CACHED_KEYS, because the count that is
\* compared with the bound is never out of step with the store itself.
THEOREM StoreStaysBounded == Spec => []StoreIsBounded
<1>1. Init => StoreIsBounded
  BY BoundAssumption, FS_EmptySet DEF Init, StoreIsBounded, CountIsExact
<1> QED
  BY <1>1, CountStep, CacheIsUnambiguous, TypeCorrect, PTL DEF Spec

-----------------------------------------------------------------------------
(* Spans are taught, never invented *)

\* What SpansWereTaught says of one key, as a function of the history.
WasTaught(k, history) ==
  /\ \E a \in history : SameKey(a, k) /\ a.first = k.first
  /\ \E b \in history : SameKey(b, k) /\ b.last = k.last
  /\ k.explicit => \E c \in history : SameKey(c, k) /\ c.explicit
                     /\ k.first <= c.first /\ c.last <= k.last

LEMMA TaughtWasTaught ==
  ASSUME NEW taught \in HeldKey
  PROVE  WasTaught(taught, {taught})
BY DEF WasTaught, SameKey, HeldKey, Minute

LEMMA WasTaughtGrows ==
  ASSUME NEW history, NEW more, history \subseteq more,
         NEW k, WasTaught(k, history)
  PROVE  WasTaught(k, more)
BY DEF WasTaught

LEMMA WidenedWasTaught ==
  ASSUME NEW history, history \subseteq HeldKey,
         NEW key \in HeldKey, NEW taught \in HeldKey,
         SameKey(key, taught), WasTaught(key, history)
  PROVE  WasTaught(Widened(key, taught), history \cup {taught})
<1> DEFINE wide == Widened(key, taught)
           more == history \cup {taught}
<1>1. /\ wide \in HeldKey
      /\ wide.first \in {key.first, taught.first}
      /\ wide.last \in {key.last, taught.last}
      /\ wide.first <= key.first /\ wide.first <= taught.first
      /\ key.last <= wide.last /\ taught.last <= wide.last
      /\ wide.explicit => key.explicit \/ taught.explicit
      /\ SameKey(wide, key)
  <2>1. wide \in HeldKey /\ SameKey(wide, key)
    BY WidenedIsHeldKey, WidenedCovers
  <2>2. wide.first = Earlier(taught.first, key.first)
        /\ wide.last = Later(taught.last, key.last)
    BY DEF Widened, HeldKey
  <2>3. wide.explicit => key.explicit \/ taught.explicit
    BY DEF Widened, HeldKey
  <2> QED
    BY <2>1, <2>2, <2>3, ClockAssumption DEF HeldKey, Minute, Earlier, Later
<1>2. /\ \E a \in more : SameKey(a, wide) /\ a.first = wide.first
      /\ \E b \in more : SameKey(b, wide) /\ b.last = wide.last
  BY <1>1 DEF WasTaught, SameKey
<1>3. ASSUME wide.explicit
      PROVE  \E c \in more : SameKey(c, wide) /\ c.explicit
               /\ wide.first <= c.first /\ c.last <= wide.last
  <2>1. CASE taught.explicit
    BY <1>1, <2>1 DEF SameKey
  <2>2. CASE ~taught.explicit
    <3>1. PICK c \in history : SameKey(c, key) /\ c.explicit
                                /\ key.first <= c.first /\ c.last <= key.last
      BY <1>1, <1>3, <2>2 DEF WasTaught
    <3> QED
      BY <1>1, <3>1, ClockAssumption DEF SameKey, HeldKey, Minute
  <2> QED
    BY <2>1, <2>2
<1> QED
  BY <1>2, <1>3 DEF WasTaught

LEMMA SpansStep ==
  TypeOK /\ SpansWereTaught /\ [Next]_vars => SpansWereTaught'
<1> SUFFICES ASSUME TypeOK, \A k \in cache : WasTaught(k, learned), [Next]_vars
             PROVE  \A k \in cache' : WasTaught(k, learned')
  BY DEF SpansWereTaught, WasTaught
<1>1. CASE NothingHeld \/ Tick
  BY <1>1 DEF NothingHeld, Tick
<1>2. CASE ClearCache
  BY <1>2 DEF ClearCache
<1>3. ASSUME NEW taught \in HeldKey, HoldKnown(taught)
      PROVE  \A k \in cache' : WasTaught(k, learned')
  <2>1. learned' = learned \cup {taught}
    BY <1>3 DEF HoldKnown
  <2>2. \A k \in cache : WasTaught(k, learned')
    BY <2>1, WasTaughtGrows
  <2>3. \A key \in cache : SameKey(key, taught) =>
                             WasTaught(Widened(key, taught), learned')
    BY <2>1, WidenedWasTaught DEF TypeOK
  <2> QED
    BY <1>3, <2>2, <2>3 DEF HoldKnown
<1>4. ASSUME NEW taught \in HeldKey, HoldRefused(taught)
      PROVE  \A k \in cache' : WasTaught(k, learned')
  BY <1>4, WasTaughtGrows DEF HoldRefused
<1>5. ASSUME NEW taught \in HeldKey, HoldNew(taught)
      PROVE  \A k \in cache' : WasTaught(k, learned')
  BY <1>5, TaughtWasTaught, WasTaughtGrows DEF HoldNew
<1> QED
  BY <1>1, <1>2, <1>3, <1>4, <1>5, StepCases

\* However spans are merged, a held span starts and ends where the creator
\* itself put a start and an end of that key.
THEOREM SpansAreNeverInvented == Spec => []SpansWereTaught
<1>1. Init => SpansWereTaught
  BY DEF Init, SpansWereTaught
<1> QED
  BY <1>1, SpansStep, TypeCorrect, PTL DEF Spec

-----------------------------------------------------------------------------
(* Confirmed spans stay clear of the present *)

LEMMA ConfirmedStep ==
  TypeOK /\ ConfirmedSpansAreOld /\ [Next]_vars => ConfirmedSpansAreOld'
<1> SUFFICES ASSUME TypeOK, ConfirmedSpansAreOld, [Next]_vars
             PROVE  ConfirmedSpansAreOld'
  OBVIOUS
<1> USE ClockAssumption DEF Recent
<1>1. CASE NothingHeld
  BY <1>1 DEF NothingHeld, ConfirmedSpansAreOld
<1>2. CASE Tick
  BY <1>2 DEF Tick, ConfirmedSpansAreOld, TypeOK, HeldKey, Minute
<1>3. CASE ClearCache
  BY <1>3 DEF ClearCache, ConfirmedSpansAreOld
<1>4. ASSUME NEW taught \in HeldKey, now' = now,
             taught.explicit \/ taught.openEnded \/ ~Recent(taught.last, now),
             HoldKnown(taught) \/ HoldRefused(taught) \/ HoldNew(taught)
      PROVE  ConfirmedSpansAreOld'
  <2>1. ASSUME NEW key \in cache, LET w == Widened(key, taught)
                                  IN  ~w.explicit /\ ~w.openEnded
        PROVE  ~Recent(Widened(key, taught).last, now)
    <3>1. /\ ~key.explicit /\ ~key.openEnded
          /\ ~taught.explicit /\ ~taught.openEnded
      BY <2>1 DEF Widened, TypeOK, HeldKey
    <3>2. Widened(key, taught).last \in {key.last, taught.last}
      BY DEF Widened, Later, TypeOK, HeldKey
    <3> QED
      BY <1>4, <3>1, <3>2 DEF ConfirmedSpansAreOld
  <2>2. CASE HoldKnown(taught)
    BY <1>4, <2>1, <2>2 DEF HoldKnown, ConfirmedSpansAreOld
  <2>3. CASE HoldRefused(taught)
    BY <1>4, <2>3 DEF HoldRefused, ConfirmedSpansAreOld
  <2>4. CASE HoldNew(taught)
    BY <1>4, <2>4 DEF HoldNew, ConfirmedSpansAreOld
  <2> QED
    BY <1>4, <2>2, <2>3, <2>4
<1> QED
  BY <1>1, <1>2, <1>3, <1>4, StepCases

\* No chain of bare confirmations ever reaches into the allowance for a
\* creator whose clock differs.
THEOREM ConfirmedSpansStayOld == Spec => []ConfirmedSpansAreOld
<1>1. Init => ConfirmedSpansAreOld
  BY DEF Init, ConfirmedSpansAreOld
<1> QED
  BY <1>1, ConfirmedStep, TypeCorrect, PTL DEF Spec

-----------------------------------------------------------------------------
(* What is served goes on being served *)

\* The same key, covering every minute the other does and stated if it was.
TakesIn(l, k) ==
  /\ SameKey(l, k)
  /\ l.first <= k.first /\ k.last <= l.last
  /\ k.explicit => l.explicit

\* A minute safely in the past stays there as the clock advances.
LEMMA PastStaysPast ==
  ASSUME NEW minute \in Minute, NEW s \in Minute, NEW t \in Minute, s <= t,
         ~Recent(minute, s)
  PROVE  ~Recent(minute, t)
BY ClockAssumption DEF Recent, Minute

\* A step that replaces every held key by one that covers at least as much
\* serves whatever was served.
LEMMA CoveredIsServed ==
  ASSUME TypeOK, TypeOK', now <= now',
         NEW endPoint \in EndPoints, NEW minute \in Minute,
         NEW k \in HeldFor(cache, endPoint, minute, now), NEW l \in cache',
         TakesIn(l, k)
  PROVE  l \in HeldFor(cache', endPoint, minute, now')
<1>1. /\ k \in cache /\ k.endPoint = endPoint /\ minute # Absent
      /\ Covers(k, minute)
      /\ k.explicit \/ ~Recent(minute, now)
  BY DEF HeldFor
<1>2. Covers(l, minute)
  BY <1>1, ClockAssumption DEF TakesIn, Covers, TypeOK, HeldKey, Minute
<1>3. ~Recent(minute, now) => ~Recent(minute, now')
  BY PastStaysPast DEF TypeOK
<1>4. l.explicit \/ ~Recent(minute, now')
  BY <1>1, <1>3 DEF TakesIn
<1> QED
  BY <1>1, <1>2, <1>4 DEF HeldFor, TakesIn, SameKey

LEMMA ServesStep ==
  TypeOK /\ TypeOK' /\ [Next]_vars => [KeepsServing \/ Emptied]_vars
<1> SUFFICES ASSUME TypeOK, TypeOK', [Next]_vars, ~ Emptied
             PROVE  KeepsServing
  OBVIOUS
<1>1. SUFFICES ASSUME NEW endPoint \in EndPoints, NEW minute \in Minute,
                      NEW k \in HeldFor(cache, endPoint, minute, now)
               PROVE  \E l \in HeldFor(cache', endPoint, minute, now') : l.pem = k.pem
  BY DEF KeepsServing
<1>2. k \in cache /\ k \in HeldKey
  BY DEF HeldFor, TypeOK
<1>3. now <= now'
  BY StepCases DEF NothingHeld, ClearCache, Tick, TypeOK, Minute
<1>4. \E l \in cache' : TakesIn(l, k)
  <2>1. CASE cache \subseteq cache'
    BY <1>2, <2>1 DEF TakesIn, SameKey, HeldKey, Minute
  <2>2. ASSUME NEW taught \in HeldKey, HoldKnown(taught),
               ~ (cache \subseteq cache')
        PROVE  \E l \in cache' : TakesIn(l, k)
    <3>1. PICK key \in cache : cache' = (cache \ {key}) \cup {Widened(key, taught)}
      BY <2>2 DEF HoldKnown
    <3>2. CASE k = key
      BY <1>2, <2>2, <3>1, <3>2, WidenedCovers DEF TakesIn
    <3>3. CASE k # key
      BY <1>2, <3>1, <3>3 DEF TakesIn, SameKey, HeldKey, Minute
    <3> QED
      BY <3>2, <3>3
  <2>3. cache \subseteq cache' \/ \E taught \in HeldKey : HoldKnown(taught)
    <3>1. ~ClearCache
      BY DEF ClearCache, Emptied
    <3>2. NothingHeld \/ Tick => cache' = cache
      BY DEF NothingHeld, Tick
    <3>3. ASSUME NEW taught \in HeldKey, HoldRefused(taught) \/ HoldNew(taught)
          PROVE  cache \subseteq cache'
      BY <3>3 DEF HoldRefused, HoldNew, Emptied
    <3> QED
      BY <3>1, <3>2, <3>3, StepCases
  <2> QED
    BY <2>1, <2>2, <2>3
<1>5. PICK l \in cache' : TakesIn(l, k)
  BY <1>4
<1>6. l \in HeldFor(cache', endPoint, minute, now')
  BY <1>3, <1>5, CoveredIsServed
<1> QED
  BY <1>5, <1>6 DEF TakesIn, SameKey

\* A key once served for a minute is served for it until the store is
\* emptied: a verdict reached from the store is reached again.
THEOREM ServedKeysStayServed == Spec => ServesStably
<1>1. TypeOK /\ TypeOK' /\ [Next]_vars => [KeepsServing \/ Emptied]_vars
  BY ServesStep
<1> QED
  BY <1>1, TypeCorrect, PTL DEF Spec, ServesStably
=============================================================================
