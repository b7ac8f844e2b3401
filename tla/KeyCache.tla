------------------------------ MODULE KeyCache ------------------------------
(***************************************************************************)
(* The store of keys in src/owid/public_key_fetch.py: _cache and the count *)
(* _held_keys, changed under _lock by _hold and clear_cache and bounded by *)
(* MAXIMUM_CACHED_KEYS.  Creators here may answer anything the answer      *)
(* check lets through, so what holds of this module holds whatever the     *)
(* creators do; SharedFetch adds the callers that share it.             *)
(***************************************************************************)
EXTENDS HeldKeys, FiniteSets

CONSTANT MaxCachedKeys   \* MAXIMUM_CACHED_KEYS

ASSUME BoundAssumption == MaxCachedKeys \in Nat \ {0}

VARIABLES
  cache,      \* _cache: every key held, of every end point
  heldKeys,   \* _held_keys: how many keys the code believes it holds
  now,        \* this process's clock, in minutes
  learned     \* history: every span taught since the store was last empty

vars == <<cache, heldKeys, now, learned>>

TypeOK ==
  /\ cache \subseteq HeldKey
  /\ heldKeys \in Nat
  /\ now \in Minute
  /\ learned \subseteq HeldKey

Init ==
  /\ cache = {}
  /\ heldKeys = 0
  /\ now \in Minute
  /\ learned = {}

-----------------------------------------------------------------------------
(* _hold, called under the lock with an answer to a URL *)

\* Nothing certain was said: no span, and no minute safely in the past.
HoldNothing(minute, start) ==
  /\ ~Teaches(minute, start, now)
  /\ UNCHANGED <<cache, heldKeys, learned>>

\* Mutant: the flags are set where the span was not widened, too.
HoldKnownFlagsAnyway(taught) ==
  \E key \in cache :
    /\ SameKey(key, taught)
    /\ cache' = (cache \ {key}) \cup
         {IF MayWiden(cache, key, taught) THEN Widened(key, taught)
          ELSE [Widened(key, taught) EXCEPT !.first = key.first, !.last = key.last]}
    /\ learned' = learned \cup {taught}
    /\ UNCHANGED heldKeys

\* The key is held already, and its span is widened unless another key of
\* the creator is in between.
HoldKnown(taught) ==
  \E key \in cache :
    /\ SameKey(key, taught)
    /\ IF MayWiden(cache, key, taught)
         THEN cache' = (cache \ {key}) \cup {Widened(key, taught)}
         ELSE UNCHANGED cache
    /\ learned' = learned \cup {taught}
    /\ UNCHANGED heldKeys

\* A key not held before is not held where it would overlap another.
HoldRefused(taught) ==
  /\ ~ \E key \in cache : SameKey(key, taught)
  /\ InTheWay(cache, taught) # {}
  /\ learned' = learned \cup {taught}
  /\ UNCHANGED <<cache, heldKeys>>

\* Otherwise it is added, after emptying the store when the store is full.
HoldNew(taught) ==
  /\ ~ \E key \in cache : SameKey(key, taught)
  /\ InTheWay(cache, taught) = {}
  /\ IF heldKeys >= MaxCachedKeys
       THEN /\ cache' = {taught}
            /\ heldKeys' = 1
            /\ learned' = {taught}
       ELSE /\ cache' = cache \cup {taught}
            /\ heldKeys' = heldKeys + 1
            /\ learned' = learned \cup {taught}

Hold(endPoint, minute, pem, start, end) ==
  LET taught == Taught(endPoint, minute, pem, start, end, now)
  IN  /\ \/ HoldNothing(minute, start)
         \/ /\ Teaches(minute, start, now)
            /\ HoldKnown(taught) \/ HoldRefused(taught) \/ HoldNew(taught)
      /\ UNCHANGED now

\* Mutant: the count is not reset with the store.
ClearCacheKeepingCount ==
  /\ cache' = {}
  /\ learned' = {}
  /\ UNCHANGED <<heldKeys, now>>

\* clear_cache, as far as the store goes.
ClearCache ==
  /\ cache' = {}
  /\ heldKeys' = 0
  /\ learned' = {}
  /\ UNCHANGED now

Tick ==
  /\ now < LastMinute
  /\ now' = now + 1
  /\ UNCHANGED <<cache, heldKeys, learned>>

\* The answer check lets through no key that ends before it starts; within a
\* minute it may do both, and a start before 2020 is read as none.
Answerable(start, end) == start # Absent /\ end # Absent => start <= end

Next ==
  \/ \E endPoint \in EndPoints, minute \in Moment, pem \in Pems,
        start \in Moment, end \in Moment :
       Answerable(start, end) /\ Hold(endPoint, minute, pem, start, end)
  \/ ClearCache
  \/ Tick

Spec == Init /\ [][Next]_vars

-----------------------------------------------------------------------------
(* Safety *)

(***************************************************************************)
(* No minute of a creator is claimed by two keys at once, and no key is    *)
(* held twice, so _held_for has at most one key to serve and the order in  *)
(* which a list was filled never decides which key verifies an identifier. *)
(***************************************************************************)
SpansDisjoint ==
  \A k, l \in cache : k.endPoint = l.endPoint /\ k # l => ~Overlap(k, l)

OneSpanPerKey == \A k, l \in cache : SameKey(k, l) => k = l

Unambiguous == SpansDisjoint /\ OneSpanPerKey

(***************************************************************************)
(* The count kept beside the store is the number of keys in it, through    *)
(* every widening, refusal, emptying and clearing, so the bound on the     *)
(* count is a bound on the store.                                          *)
(***************************************************************************)
CountIsExact == IsFiniteSet(cache) /\ heldKeys = Cardinality(cache)

StoreIsBounded == CountIsExact /\ heldKeys <= MaxCachedKeys

(***************************************************************************)
(* A span is never invented: it starts where some answer for that key      *)
(* started, ends where some answer for it ended, and is the creator's own  *)
(* statement only when such an answer was.                                 *)
(***************************************************************************)
SpansWereTaught ==
  \A k \in cache :
    /\ \E a \in learned : SameKey(a, k) /\ a.first = k.first
    /\ \E b \in learned : SameKey(b, k) /\ b.last = k.last
    /\ k.explicit => \E c \in learned : SameKey(c, k) /\ c.explicit
                       /\ k.first <= c.first /\ c.last <= k.last

(***************************************************************************)
(* A key learned from bare minutes alone never reaches into the minutes a  *)
(* creator with another clock may have read as its present, however the    *)
(* span was pieced together and however long ago.                          *)
(***************************************************************************)
ConfirmedSpansAreOld ==
  \A k \in cache : ~k.explicit /\ ~k.openEnded => ~Recent(k.last, now)

(***************************************************************************)
(* What the store answers for a minute does not change under the reader:   *)
(* once a key is served for a minute, every later step goes on serving     *)
(* that key for it, whatever is learned and however the clock advances,    *)
(* until the whole store is emptied at the bound or cleared.               *)
(***************************************************************************)
Emptied == learned' = cache' /\ heldKeys' <= 1

KeepsServing ==
  \A endPoint \in EndPoints, minute \in Minute :
    \A k \in HeldFor(cache, endPoint, minute, now) :
      \E l \in HeldFor(cache', endPoint, minute, now') : l.pem = k.pem

ServesStably == [][KeepsServing \/ Emptied]_vars
=============================================================================
