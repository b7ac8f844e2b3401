---------------------------- MODULE SharedFetch ----------------------------
(***************************************************************************)
(* How callers on several event loops share one request for a key URL:     *)
(* _key_at_url, _fetch_and_hold and clear_cache of                         *)
(* src/owid/public_key_fetch.py, over the store KeyCache describes.        *)
(*                                                                         *)
(* Each loop runs in a thread of its own and runs one callback at a time.  *)
(* A step here is what one thread does between two points where another    *)
(* thread, callback or clock can make a difference: the lock taken or      *)
(* released, the future settled, or an await.  _hold is two steps: it      *)
(* looks at the clock and the store and decides, and then writes what it   *)
(* decided; only the lock, held from the one to the other, keeps the store *)
(* from changing in between.  _key_at_url up to its await is one step,     *)
(* since what follows its lock only schedules the task of the entry it     *)
(* added.  A call answered from the store at once changes nothing and is   *)
(* not an action; it is why Join and Lead need the store to hold nothing.  *)
(***************************************************************************)
EXTENDS Integers, FiniteSets

CONSTANTS
  EndPoints, Pems, LastMinute, Drift, MaxCachedKeys,   \* see KeyCache
  Callers,      \* coroutines that ask for keys, one key at a time
  Loops,        \* event loops, each in its own thread
  HomeLoop,     \* the loop each caller runs on
  Urls,         \* key URLs: an end point and the minute asked about
  Answers,      \* what creators may answer: a key, its start and its end
  Fetches,      \* identities of the shared futures and their tasks
  NoFetch,      \* None: no entry in _in_flight, or nothing awaited
  EndsEarly     \* whether a loop may end before a task on it has begun

VARIABLES
  cache, heldKeys, now, learned,   \* the store, see KeyCache
  inFlight,    \* _in_flight: the fetch a URL is being asked with
  task,        \* how far the task of each fetch has come
  plan,        \* what the _hold of each fetch has decided to write
  url,         \* the URL of each fetch
  taskLoop,    \* the loop each task was created on
  future,      \* the shared future of each fetch, pending or settled
  awaits,      \* the fetch each caller awaits
  loopState,   \* asyncio.run for each loop: running, ending or closed
  forgotten,   \* history: fetches clear_cache found still running
  tainted      \* history: a forgotten fetch has taught the store since

store == <<cache, heldKeys, now, learned>>
vars == <<cache, heldKeys, now, learned, inFlight, task, plan, url, taskLoop,
          future, awaits, loopState, forgotten, tainted>>

-----------------------------------------------------------------------------
(* The two halves of _hold *)

\* Between its halves _hold has the lock.
Holding == {f \in Fetches : task[f] = "holding"}
Unlocked == Holding = {}

\* Keys to be put in the place of others, and what is learned from the answer.
NoPlan == [removes |-> {}, adds |-> {}, learns |-> {}]

\* A key not held before is counted, and empties the store when it is full.
New(p) == p.adds # {} /\ p.removes = {}
Full(p) == New(p) /\ heldKeys >= MaxCachedKeys

CacheAfter(p) == IF Full(p) THEN p.adds ELSE (cache \ p.removes) \cup p.adds
CountAfter(p) == IF Full(p) THEN 1 ELSE IF New(p) THEN heldKeys + 1 ELSE heldKeys
LearnedAfter(p) == IF Full(p) THEN p.learns ELSE learned \cup p.learns

\* To everyone else an answer is held as of the moment its _hold looked at the
\* clock, since nobody sees the store before it is written.
Pending == IF Unlocked THEN NoPlan ELSE plan[CHOOSE f \in Holding : TRUE]

Store == INSTANCE KeyCache WITH
           cache <- CacheAfter(Pending),
           heldKeys <- CountAfter(Pending),
           learned <- LearnedAfter(Pending)

-----------------------------------------------------------------------------

Url == [endPoint : EndPoints, minute : Store!Moment]
Answer == [pem : Pems, start : Store!Moment, end : Store!Moment]

ASSUME StoreAssumption ==
  LastMinute \in Nat /\ Drift \in Nat /\ MaxCachedKeys \in Nat \ {0}

ASSUME SharingAssumption ==
  /\ HomeLoop \in [Callers -> Loops] /\ Loops # {}
  /\ Urls \subseteq Url /\ Urls # {}
  /\ Answers \subseteq {a \in Answer : Store!Answerable(a.start, a.end)}
  /\ NoFetch \notin Fetches
  /\ EndsEarly \in BOOLEAN

(* A task waits for its first turn, waits for the creator, holds an answer *)
(* under the lock, has been thrown a CancelledError, is between its lock   *)
(* and its future with an answer, a failure or a cancellation, has run to  *)
(* its end, or never ran at all.                                           *)
Running == {"scheduled", "reading", "holding", "cancelling"}
Settling == {"answering", "failing", "withdrawing"}
TaskState == Running \cup Settling \cup {"none", "done", "dropped"}

Outcome == [answering |-> "answered", failing |-> "failed",
            withdrawing |-> "cancelled"]

Plan == [removes : SUBSET Store!HeldKey, adds : SUBSET Store!HeldKey,
         learns : SUBSET Store!HeldKey]

TypeOK ==
  /\ Store!TypeOK
  /\ plan \in [Fetches -> Plan]
  /\ inFlight \in [Urls -> Fetches \cup {NoFetch}]
  /\ task \in [Fetches -> TaskState]
  /\ url \in [Fetches -> Urls]
  /\ taskLoop \in [Fetches -> Loops]
  /\ future \in [Fetches -> {"pending", "answered", "failed", "cancelled"}]
  /\ awaits \in [Callers -> Fetches \cup {NoFetch}]
  /\ loopState \in [Loops -> {"running", "ending", "closed"}]
  /\ forgotten \subseteq Fetches
  /\ tainted \in BOOLEAN

Init ==
  /\ cache = {} /\ heldKeys = 0 /\ learned = {}
  /\ now \in Store!Minute
  /\ inFlight = [u \in Urls |-> NoFetch]
  /\ task = [f \in Fetches |-> "none"]
  /\ plan = [f \in Fetches |-> NoPlan]
  /\ url = [f \in Fetches |-> CHOOSE u \in Urls : TRUE]
  /\ taskLoop = [f \in Fetches |-> CHOOSE l \in Loops : TRUE]
  /\ future = [f \in Fetches |-> "pending"]
  /\ awaits = [c \in Callers |-> NoFetch]
  /\ loopState = [l \in Loops |-> "running"]
  /\ forgotten = {}
  /\ tainted = FALSE

-----------------------------------------------------------------------------
\* The loop's thread is in the last stretch of a task, between taking the lock
\* and settling the future, where only other threads can step in.
Busy(l) ==
  \E f \in Fetches : taskLoop[f] = l /\ task[f] \in {"holding"} \cup Settling

\* The loop may run its next callback, and its caller's coroutines.
Turn(l) == loopState[l] # "closed" /\ ~Busy(l)
Serves(l) == loopState[l] = "running" /\ ~Busy(l)

Awaited(f) == \E c \in Callers : awaits[c] = f

\* An identity nothing refers to any more, so that a new future may have it.
Fresh(f) ==
  /\ task[f] \in {"none", "done", "dropped"}
  /\ ~Awaited(f)
  /\ \A u \in Urls : inFlight[u] # f

\* Whether the store leaves the caller to fetch.
Missing(u) == Store!HeldFor(cache, u.endPoint, u.minute, now) = {}

(* _key_at_url *)

\* Another caller's request for the URL is still in flight: await it.
Join(c, u) ==
  /\ awaits[c] = NoFetch /\ Serves(HomeLoop[c]) /\ Unlocked
  /\ Missing(u) /\ inFlight[u] # NoFetch
  /\ awaits' = [awaits EXCEPT ![c] = inFlight[u]]
  /\ UNCHANGED <<store, inFlight, task, plan, url, taskLoop, future, loopState,
                 forgotten, tainted>>

\* No request is in flight: add the entry, create the task, and await it.
Lead(c, u, f) ==
  /\ awaits[c] = NoFetch /\ Serves(HomeLoop[c]) /\ Unlocked
  /\ Missing(u) /\ inFlight[u] = NoFetch
  /\ Fresh(f)
  /\ inFlight' = [inFlight EXCEPT ![u] = f]
  /\ task' = [task EXCEPT ![f] = "scheduled"]
  /\ url' = [url EXCEPT ![f] = u]
  /\ taskLoop' = [taskLoop EXCEPT ![f] = HomeLoop[c]]
  /\ future' = [future EXCEPT ![f] = "pending"]
  /\ awaits' = [awaits EXCEPT ![c] = f]
  /\ forgotten' = forgotten \ {f}
  /\ UNCHANGED <<store, plan, loopState, tainted>>

\* The shared future is settled and the caller's loop runs the caller.
Wake(c) ==
  /\ awaits[c] # NoFetch /\ Serves(HomeLoop[c])
  /\ future[awaits[c]] # "pending"
  /\ awaits' = [awaits EXCEPT ![c] = NoFetch]
  /\ UNCHANGED <<store, inFlight, task, plan, url, taskLoop, future, loopState,
                 forgotten, tainted>>

\* The caller is cancelled, by a timeout of its own say.  The shield keeps
\* the cancellation from the shared future.
CancelCaller(c) ==
  /\ awaits[c] # NoFetch /\ Serves(HomeLoop[c])
  /\ awaits' = [awaits EXCEPT ![c] = NoFetch]
  /\ UNCHANGED <<store, inFlight, task, plan, url, taskLoop, future, loopState,
                 forgotten, tainted>>

-----------------------------------------------------------------------------
(* _fetch_and_hold, from its first turn to the settled future *)

\* Mutant: the entry is removed whosoever it is.
RemovedBlindly(f) == [inFlight EXCEPT ![url[f]] = NoFetch]

\* The entry the fetch added, removed if it is still the one there.
Removed(f) ==
  IF inFlight[url[f]] = f THEN [inFlight EXCEPT ![url[f]] = NoFetch] ELSE inFlight

Step(f, from, to) ==
  /\ task[f] = from
  /\ task' = [task EXCEPT ![f] = to]
  /\ UNCHANGED <<url, taskLoop, awaits, loopState, forgotten>>

\* The first turn of the task, which takes it to the transport.
Begin(f) ==
  /\ Turn(taskLoop[f])
  /\ Step(f, "scheduled", "reading")
  /\ UNCHANGED <<store, plan, inFlight, future, tainted>>

\* What _hold decides of an answer: nothing, to widen the key that is held,
\* to add one that is not, or only to have been told.
Plans(u, a) ==
  LET taught == Store!Taught(u.endPoint, u.minute, a.pem, a.start, a.end, now)
      known == {key \in cache : Store!SameKey(key, taught)}
      change(removed, added) ==
        [removes |-> removed, adds |-> added, learns |-> {taught}]
  IN  IF ~Store!Teaches(u.minute, a.start, now) THEN {NoPlan}
      ELSE IF known # {} THEN
        {IF Store!MayWiden(cache, key, taught)
           THEN change({key}, {Store!Widened(key, taught)}) ELSE change({}, {}) :
           key \in known}
      ELSE {change({}, IF Store!InTheWay(cache, taught) = {} THEN {taught} ELSE {})}

\* Mutant: the store is read before the lock is taken.
AnsweredUnlocked(f) ==
  /\ Turn(taskLoop[f])
  /\ Step(f, "reading", "holding")
  /\ \E a \in Answers : \E p \in Plans(url[f], a) : plan' = [plan EXCEPT ![f] = p]
  /\ UNCHANGED <<store, inFlight, future, tainted>>

\* The creator's answer is read, the lock taken, and the store looked through.
Answered(f) ==
  /\ Turn(taskLoop[f]) /\ Unlocked
  /\ Step(f, "reading", "holding")
  /\ \E a \in Answers : \E p \in Plans(url[f], a) : plan' = [plan EXCEPT ![f] = p]
  /\ UNCHANGED <<store, inFlight, future, tainted>>

\* The store is written and the entry removed before the lock is released.
Write(f) ==
  /\ Step(f, "holding", "answering")
  /\ cache' = CacheAfter(plan[f])
  /\ heldKeys' = CountAfter(plan[f])
  /\ learned' = LearnedAfter(plan[f])
  /\ plan' = [plan EXCEPT ![f] = NoPlan]
  /\ inFlight' = Removed(f)
  /\ tainted' = (tainted \/ (f \in forgotten /\ cache' # cache))
  /\ UNCHANGED <<now, future>>

\* Mutant: a failed fetch leaves its entry behind.
FailedKeepingEntry(f) ==
  /\ Turn(taskLoop[f]) /\ Unlocked
  /\ Step(f, "reading", "failing")
  /\ UNCHANGED <<store, plan, inFlight, future, tainted>>

\* No answer, or none that can be read: the entry is removed and no more.
Failed(f) ==
  /\ Turn(taskLoop[f]) /\ Unlocked
  /\ Step(f, "reading", "failing")
  /\ inFlight' = Removed(f)
  /\ UNCHANGED <<store, plan, future, tainted>>

\* Mutant: only Exception is caught, which a CancelledError is not.
WithdrawnUncaught(f) ==
  /\ Turn(taskLoop[f]) /\ Unlocked
  /\ Step(f, "cancelling", "done")
  /\ UNCHANGED <<store, plan, inFlight, future, tainted>>

\* The CancelledError thrown into the task takes the same way out.
Withdrawn(f) ==
  /\ Turn(taskLoop[f]) /\ Unlocked
  /\ Step(f, "cancelling", "withdrawing")
  /\ inFlight' = Removed(f)
  /\ UNCHANGED <<store, plan, future, tainted>>

\* Mutant: only an answer is passed on to the callers.
SettleAnswersOnly(f) ==
  /\ task[f] \in Settling
  /\ future' = [future EXCEPT ![f] = IF task[f] = "answering" THEN "answered" ELSE @]
  /\ Step(f, task[f], "done")
  /\ UNCHANGED <<store, plan, inFlight, tainted>>

\* set_result or set_exception, after which the task is at its end.
Settle(f) ==
  /\ task[f] \in Settling
  /\ future' = [future EXCEPT ![f] = Outcome[task[f]]]
  /\ Step(f, task[f], "done")
  /\ UNCHANGED <<store, plan, inFlight, tainted>>

-----------------------------------------------------------------------------
(* The process around the module *)

\* A cancelled task that has not begun never runs a line, and one awaiting
\* the creator is thrown a CancelledError.
CancelledTask == [scheduled |-> "dropped", reading |-> "cancelling"]

\* asyncio.run ends: every task of the loop, callers included, is cancelled.
EndLoop(l) ==
  /\ Serves(l)
  /\ EndsEarly \/ \A f \in Fetches : taskLoop[f] = l => task[f] # "scheduled"
  /\ loopState' = [loopState EXCEPT ![l] = "ending"]
  /\ task' = [f \in Fetches |->
                IF taskLoop[f] = l /\ task[f] \in DOMAIN CancelledTask
                  THEN CancelledTask[task[f]] ELSE task[f]]
  /\ awaits' = [c \in Callers |-> IF HomeLoop[c] = l THEN NoFetch ELSE awaits[c]]
  /\ UNCHANGED <<store, inFlight, plan, url, taskLoop, future, forgotten, tainted>>

\* asyncio.run waits for the tasks it cancelled and closes the loop.
CloseLoop(l) ==
  /\ loopState[l] = "ending"
  /\ \A f \in Fetches : taskLoop[f] = l => task[f] \notin Running \cup Settling
  /\ loopState' = [loopState EXCEPT ![l] = "closed"]
  /\ UNCHANGED <<store, inFlight, task, plan, url, taskLoop, future, awaits,
                 forgotten, tainted>>

\* The thread calls asyncio.run again.
StartLoop(l) ==
  /\ loopState[l] = "closed"
  /\ loopState' = [loopState EXCEPT ![l] = "running"]
  /\ UNCHANGED <<store, inFlight, task, plan, url, taskLoop, future, awaits,
                 forgotten, tainted>>

\* clear_cache, from any thread.
ClearCache ==
  /\ Unlocked
  /\ cache' = {} /\ heldKeys' = 0 /\ learned' = {}
  /\ inFlight' = [u \in Urls |-> NoFetch]
  /\ forgotten' = {f \in Fetches : task[f] \in Running}
  /\ tainted' = FALSE
  /\ UNCHANGED <<now, task, plan, url, taskLoop, future, awaits, loopState>>

\* The clock waits for no lock.
Tick ==
  /\ now < LastMinute
  /\ now' = now + 1
  /\ UNCHANGED <<cache, heldKeys, learned, inFlight, task, plan, url, taskLoop,
                 future, awaits, loopState, forgotten, tainted>>

Next ==
  \/ \E c \in Callers, u \in Urls : Join(c, u) \/ \E f \in Fetches : Lead(c, u, f)
  \/ \E c \in Callers : Wake(c) \/ CancelCaller(c)
  \/ \E f \in Fetches : \/ Begin(f) \/ Answered(f) \/ Write(f) \/ Settle(f)
                        \/ Failed(f) \/ Withdrawn(f)
  \/ \E l \in Loops : EndLoop(l) \/ CloseLoop(l) \/ StartLoop(l)
  \/ ClearCache
  \/ Tick

Spec == Init /\ [][Next]_vars

(***************************************************************************)
(* A loop runs its callbacks in the order they became ready, so a task or  *)
(* caller that is ready again and again is run; a transport is given       *)
(* TIMEOUT_SECONDS and answers or raises; a thread in the middle of a      *)
(* callback goes on.  Loops end, callers ask and are cancelled as they please. *)
(***************************************************************************)
Fairness ==
  /\ \A c \in Callers : SF_vars(Wake(c))
  /\ \A f \in Fetches : /\ SF_vars(Begin(f))
                         /\ SF_vars(Answered(f) \/ Failed(f))
                         /\ SF_vars(Withdrawn(f))
                         /\ WF_vars(Write(f) \/ Settle(f))

FairSpec == Spec /\ Fairness

-----------------------------------------------------------------------------
(* Safety *)

(***************************************************************************)
(* A fetch that has neither finished nor been forgotten by clear_cache is  *)
(* the one its URL is in flight with.  In particular a fetch that ends     *)
(* after clear_cache never removes the entry of the request that replaced  *)
(* it, and no URL is asked for twice at once but across a clear_cache.     *)
(***************************************************************************)
FetchesAreInFlight ==
  \A f \in Fetches : task[f] \in Running /\ f \notin forgotten => inFlight[url[f]] = f

(***************************************************************************)
(* Whoever finds an entry joins a request that is not over: its future is  *)
(* still to be settled and it is a request for that very URL.              *)
(***************************************************************************)
EntriesAreOpen ==
  \A u \in Urls : inFlight[u] # NoFetch =>
    future[inFlight[u]] = "pending" /\ url[inFlight[u]] = u

(***************************************************************************)
(* What the comment on _in_flight says, "An entry is removed when its      *)
(* fetch finishes, whatever the outcome": no entry outlives its task.      *)
(***************************************************************************)
EntriesAreLive ==
  \A u \in Urls : inFlight[u] # NoFetch => task[inFlight[u]] \in Running

(***************************************************************************)
(* A caller still waiting on a loop that has not ended has a task at work  *)
(* for it, or a settled future to read: nobody awaits an orphan.           *)
(***************************************************************************)
NobodyIsStranded ==
  \A c \in Callers : awaits[c] # NoFetch =>
    \/ task[awaits[c]] \in Running \cup Settling
    \/ future[awaits[c]] # "pending"

(***************************************************************************)
(* What the comment on the shield says, "cancelling one caller must not    *)
(* cancel the request that other callers are waiting on": a caller nobody  *)
(* cancelled is never handed a cancellation.                               *)
(***************************************************************************)
CancellingSparesOthers ==
  \A c \in Callers : awaits[c] # NoFetch => future[awaits[c]] # "cancelled"

(***************************************************************************)
(* What clear_cache promises, "so that the next caller for any key starts  *)
(* a request of its own": nothing asked before it is held after it.        *)
(***************************************************************************)
ClearedKeysStayOut == ~tainted

(***************************************************************************)
(* The store under the concurrent calls is the store of KeyCache, where an *)
(* answer is held all at once: no answer of another loop and no clear_cache *)
(* comes between what a _hold saw of the store and what it writes, nobody   *)
(* reads a store half written, and a minute that passes meanwhile changes   *)
(* nothing.                                                                 *)
(***************************************************************************)
StoreSpec == Store!Spec

-----------------------------------------------------------------------------
(* Liveness *)

(***************************************************************************)
(* Every caller that waits is answered, fails or is cancelled in the end,  *)
(* whichever loop the request it joined runs on.                           *)
(***************************************************************************)
WaitersAreAnswered ==
  \A c \in Callers : awaits[c] # NoFetch ~> awaits[c] = NoFetch

(***************************************************************************)
(* A URL is never stuck in flight: its entry is removed in the end.        *)
(***************************************************************************)
EntriesAreRemoved ==
  \A u \in Urls : inFlight[u] # NoFetch ~> inFlight[u] = NoFetch
=============================================================================
