# Verification of owid-python

TLA+ modules, TLC runs and TLAPS proofs about the code under `owid/`. Line
numbers are those of the files at the commit the project is kept beside.

## The system

An OWID is a signed claim by a creator domain: a version, the domain, a date in
whole minutes since 2020-01-01, a payload, and a 64 byte signature over the
rest. The package makes them, reads them and verifies them, fetching the key
that was in force at an OWID's date from the creator that signed it.

| part | file | state it keeps | operations | how it meets the others |
| --- | --- | --- | --- | --- |
| store of keys | `public_key_fetch.py` | `_cache`: per end point, keys with a span of minutes and two flags; `_held_keys`, a count | `_held_for`, `_hold` with `_widen`, `clear_cache` | called under `_lock` by every fetch, from any thread |
| shared requests | `public_key_fetch.py` | `_in_flight`: URL to a future any thread can wait on; a task on the loop of the caller that leads | `_key_at_url`, `_fetch_and_hold`, `clear_cache` | reads and fills the store; runs a transport |
| verification over HTTP | `public_key_fetch.py` | none of its own | `signature_status`, `_signature_status_at_url`, `_neighbour_verifies` | up to three keys through shared requests, each judged by `Owid.signature_status` |
| key URL and transport | `public_key_fetch.py` | none | `public_key_url`, `_check_domain`, `_read`, `_urllib_transport` | external HTTP, a timeout of 10 s, no redirects |
| schedule | `public_key_schedule.py` | an immutable tuple of dated keys | `key_in_force`, `next_start_after`, `current`, `signature_status` | the creator's answers come from it |
| creator end points | `endpoints.py` | none | `public_key_response_at`, `public_key_answer`, `validate_public_key_answer` | both the creator and the client validate an answer |
| parsing | `parse.py` | none | `parse_base64`, `parse_bytes`, `parse_prefix` | the only way an OWID arrives from outside |
| byte layout | `io.py` | a cursor in `Reader` | `Reader.read_*`, `write_*`, `minutes_since_base` | used by `Owid` to write and to compute what is signed |
| OWID | `owid.py` | immutable fields | `to_buffer`, `signed_bytes`, `signature_status` | re-encodes its fields to verify them |
| creator | `creator.py` | domain and key | `create`, `_sign` | the only way an OWID is made |
| crypto, statuses, errors, versions | `crypto.py`, `status.py`, `error.py`, `version.py` | key objects | sign, verify | values and a library |

What makes each part correct:

* **Store.** At most one key is held for any minute of a creator; a span is
  never longer than what the creator's answers support; a key learned without a
  span is never held or served near the present; the count is the size of the
  store; what is served goes on being served until the store is emptied.
* **Shared requests.** One request per URL at a time; a fetch removes its own
  entry and no other; nobody joins a request that is over; every waiter is
  answered; cancelling one caller spares the others; after `clear_cache`
  nothing from before it is served.
* **Verification.** A genuine identifier is never reported as not matching; a
  failure to obtain a key is never reported as a bad signature.
* **Schedule and end points.** The answer names the key in force at the minute
  asked about, with the period it was in force for, and never one that has not
  started.
* **Wire format.** What a creator writes is read back equal; a framed read
  consumes exactly one frame or nothing.

What is hard here: several event loops in several threads share three
dictionaries; a request outlives its caller, its store and sometimes its loop;
answers about the same key arrive in any order and are merged; the creator's
clock differs from this one's; the creator rotates its keys while old answers
are still held.

## Modules

| module | what it models |
| --- | --- |
| `HeldKeys` | the rules the store is kept by, as operators: what an answer teaches, which held key covers a minute, when a span may be widened |
| `KeyCache` | the store as a state machine: `_hold` as four alternatives, `clear_cache`, the clock. Creators may answer anything the answer check lets through |
| `KeyCacheProofs` | its theorems |
| `SharedFetch` | callers on several loops, the entries in flight, the tasks and their futures, and `_hold` in two steps under its lock, shown to implement `KeyCache` (`Store == INSTANCE KeyCache WITH ...`) |
| `SharedFetchProofs` | that it implements `KeyCache`, and its own theorems |
| `Schedule` | operators: which key is in force, when the next starts, what the end point selects, the text of an answer and the check of it |
| `CreatorEndPoint` | a creator that publishes keys as its clock advances, at a resolution finer than a second; its answers to every date, and the dates it signs |
| `CreatorEndPointProofs` | its theorems |
| `Neighbours` | operators: which minutes `_neighbour_verifies` asks about |
| `RotationClients` | `CreatorEndPoint` with both surfaces that judge an identifier: the schedule's and the HTTP client's (`Client == INSTANCE HeldKeys`) |
| `RotationProofs` | its theorems |
| `Verification` | the whole of verification over HTTP: `Creator == INSTANCE Schedule`, `Store == INSTANCE KeyCache`, requests that take time or fail, verifiers judging identifiers |
| `VerificationProofs` | its types, the truth of what is held, the keys that are accepted |
| `DenialProofs` | on those, that statements are held whole and that no genuine identifier is denied |
| `Envelope` | operators: the byte form written, the walk both parsing contracts share, and the raising `Reader` with its cursor |
| `EnvelopeText` | operators: the base 64 form, as written and as read |
| `EnvelopeReads` | a buffer bytes arrive in, and the reads of it |
| `FrameQueue` | the abstract specification of a stream of OWIDs: a queue |
| `FrameStream` | a creator, a stream of frames and the walk of a reader, shown to implement `FrameQueue` |
| `EnvelopeProofs` | theorems about the byte form, the text and the reads |
| `FrameStreamProofs` | that the stream implements the queue, and what a status says of the bytes received |
| `MCKeyCache`, `MCSharedFetch`, `MCCreatorEndPoint`, `MCVerification`, `MCFrameStream` | small instances for TLC |

### How state and actions correspond to the code

`KeyCache`: `cache` is `_cache` as a set of records carrying their end point,
`heldKeys` is `_held_keys`, `now` the process's clock in minutes, and `learned`
is history: every span taught since the store was last empty. `Hold` is one call
of `_hold` from start to return, because the code makes the call under `_lock`:
`HoldNothing` is the `else: return stated`, `HoldKnown` the branch for a PEM that
is held already, `HoldRefused` the return for an overlap with another key, and
`HoldNew` the rest, including the emptying at `MAXIMUM_CACHED_KEYS`. The order of
a list in `_cache` is left out: `Unambiguous` shows that it cannot matter.

`SharedFetch`: `inFlight` is `_in_flight`; a fetch is the identity of a future
and its task; `task`, `future`, `url` and `taskLoop` describe it; `awaits` says
which future each caller has got as far as awaiting. `Join` and `Lead` are
`_key_at_url` up to its await, `Begin` the first turn of `_fetch_and_hold`.
`Answered` takes the lock and is what `_hold` reads and decides: the clock and
the store as they are then give one of the `Plans`, keys to be put in the place
of others. `Write` carries the plan out, removes the entry and releases the
lock. In between the clock runs on and other loops go on with everything that
takes no lock (`Unlocked` is in the guard of what does). `Failed` and
`Withdrawn` are the other ways to the end of a lock, `Settle` the `set_result`
or `set_exception` after each, `Wake` and `CancelCaller`
what the loop does to a caller. `EndLoop`, `CloseLoop` and `StartLoop` are
`asyncio.run` in a thread. Other threads may step in wherever the lock has been
released; callbacks of one loop do not interleave (`Busy`). `forgotten` and
`tainted` are history. `Store` is the refinement mapping to `KeyCache`: the store
as it is with the plan of whoever has the lock carried out (`CacheAfter`,
`CountAfter`, `LearnedAfter`), so an answer counts as held from the moment its
`_hold` looked at the clock. A call answered from the store changes nothing and is no
action.

`CreatorEndPoint`: `keys` is the sequence of keys a `PublicKeySchedule` is built
from, in the order supplied, and `moment` the creator's clock, in ticks since
2020. `Publish` is the schedule built anew with one more key, `Tick` the clock.
An answer changes nothing, so the answers are operators of `Schedule`:
`InForce` is `key_in_force` (of keys that share a start, the first supplied, as
the stable sort and the walk from the end of the list give it), `NextStartAfter`
is `next_start_after`, `Asked` the reading of the `date` parameter, `Text`
`_moment_text`, `Selected` `public_key_response_at`, and `Validated`
`validate_public_key_answer`, which client and creator both apply. `Date` is the
truncation of `_sign`.

`RotationClients` adds no state: the two surfaces are operators of the same
schedule and clock. `KeyFor` is `key_for`, `ScheduleAccepts` and
`ScheduleDenies` what `PublicKeySchedule.signature_status` says under it.
`AnswersFor` is what `_parse_answer` reads of an answer, with the text's seconds
cut to minutes by `Minutes`, and `ClientAccepts` and `ClientDenies` are
`_signature_status_at_url` with nothing held and every request answered at one
moment. `Verification` is the complement: requests take time, fail and share a
store, and everything is on whole minutes.

`Verification`: one end point and its creator. `asked` and `answered` are
requests on their way there and back; one `minute` is asked for at a time, as
`SharedFetch` shows `_key_at_url` to do. `job` is where each verifier is in
`_signature_status_at_url` and `_neighbour_verifies`: `phase`, the minute it
wants the key of, the answer the identifier's own minute selected (`tried`), and
the neighbours still to be tried (`beyond`). `Verify` is the call; `FindHeld` and
`Ask` are `_key_at_url` up to its await, from the store or with a request;
`Respond` is the end point; `Receive` is `_fetch_and_hold` from the answer to
the callers going on, and `Fail` is its other ending. `Given` and `Denied` are
what the verifier does with a key and without one, up to its next await. A
signature is the PEM of the key that made it, so "verifies" is an equality. A
404 or 500 of the creator, a lost or late request, and a body that is no key are
all `Fail`, with the status `FailureStatus` gives each; `Refuse` is an
identifier whose domain `public_key_url` will not make a request to. `missed` is
history: that a neighbour's key failed, or came with a request older than the
presentation of the identifier.
The `map` of `PROJECT.json` gives the lines each definition stands for.

`Envelope`: `Owid` is the record of the fields, `Parse(b, exact)` is `_parse`
with its two callers `parse_bytes` (exact) and `parse_prefix`, guard for guard
in the order of the code; `Written` and `SignedBytes` are `to_buffer` and
`signed_bytes`; `Writable` says where a writer raises. `ReaderOwids` is
`_from_byte_array_or_raise`, method by method (`ReadVersion` to
`ReadSignature`): each takes a cursor, which is the position and the fields read
so far, and gives those it may leave the reader with, none where it raises. It
shares nothing with `Parse` but the value of a run of bytes. Widths, the maximum of a domain and the number of
values of a byte are constants: the boundaries are the same, closer together.
A byte that is not ASCII decodes to one `Replacement`, which encodes to three
bytes again, as `decode("ascii", "replace")` and UTF-8 do; `Wide` is a character
of two bytes, which a creator may write and of the reads the `Reader` alone
gives back (`Utf8`). Dates count ticks, so that version 1
has its hours and the others their minutes of one clock. `EnvelopeText` has
texts as sequences of symbols: `Unpadded` is the encoder, `ParseText` is
`parse_base64`, with the padding it adds (`Filled`) and the texts the library
then takes (`Decodable`). `EnvelopeReads` has one variable, `buffer`, and one
action, `Arrive`.

`FrameStream` extends it. `domain` is the creator's and `clock` its clock;
`Create` is `create` with `_sign`, from the truncated date to the signature over
`signed_bytes`, and `created` what it has handed out. `SendOwid` and
`SendAbsent` are `to_buffer` and `empty_to_buffer` on a stream whose unread
bytes are `wire`, for OWIDs created here or passed on from others (`Others`, of
versions 1 and 2). `Deliver` moves one byte into `buffer`, so the reader may
look at any prefix. `Walk` is one turn of the loop the repository's README gives
(`README.md:376`), which steps over an absent node; the loop in the docstring of
`parse_prefix` (`parse.py:108`) is shorter and stops at one. `sent` and `read` are what `FrameQueue` speaks of. `signed`
holds what has been signed with its signature, which is all that
`verify_byte_array` is known to tell apart. In the other half of the states
(`source` is "anyone") arbitrary bytes arrive, up to `MaxLength`; the properties
of `EnvelopeReads` are about those buffers above all.

## What is checked

Every property has a mutant in `PROJECT.json`: a plausible slip in a mapped
definition under which TLC finds the property violated in the same run.

| run | states | what it asks |
| --- | --- | --- |
| `key_cache` | 4,400 | Whatever two creators answer, is the store unambiguous, bounded, truthful to its answers, and stable in what it serves? |
| `shared_fetch` | 517,000 | Callers on two loops, `clear_cache`, cancellations, loops that end and a clock that runs, between the halves of a `_hold` too: one live request per URL, only open requests joined, and is the store one that holds each answer all at once (`KeyCache`)? |
| `shared_live` | 33,400 | Where loops outlive tasks just created on them, is every caller answered and every entry removed? |
| `frame_stream` | 113,000 | Is the walk over a stream cut anywhere a queue of what was written? Of any bytes at all: is what is read what was signed, in bytes and in text, do the two contracts and the old `Reader` agree, does waiting help exactly where a read says so, and do decisions stand as bytes arrive? |
| `end_point` | 109,000 | Are the answers to every date consistent with each other, in time and over time, when does the creator refuse its own, does the date of an identifier lead to its key, are genuine identifiers spared around a rotation, and do the schedule and the client agree? |
| `verification` | 564,000 | With clocks that differ, requests that are late and answers of either style: is what is held true, are statements held whole, is no genuine identifier denied, is no key accepted away from its period, and does every verification end? |
| `orphaned_entry`, `spread_cancellation`, `cleared_key_returns`, `older_request`, `neighbour_outage`, `rotation_within_minute` | | One disagreement each between the code and what its comments say (below). |

### Bounds

Every bound is a constant. They are small because each hazard needs few parts,
and each mutant shows that the case a property is about does occur.

* `key_cache`: two end points and two keys, so spans of one creator can collide
  and spans of two must not; minutes 0 to 4 with `Drift` 1, so a minute can be
  recent, past and ahead; a store of two keys, so the third empties it.
  `MaxLearned` = 2 (a `CONSTRAINT` on the history) bounds what is taught between
  two emptyings: a collision, a widening and an overlap of three spans each need
  two answers and a third that is attempted. The theorems have none of these
  bounds.
* `shared_fetch`, `shared_live`: two loops are what a request that crosses loops
  needs; two callers, one who leads and one who joins; two fetches, one
  forgotten and its successor; two URLs of one creator (one in `shared_live`);
  `LastMinute` 1, so that the clock ticks between the halves of a `_hold`, an
  allowance of none (`Drift` 0; `key_cache` has one) and a store of one key, so
  that answers are held, not held, and empty the store. When a fetch is done its
  identity is taken again, so the number of fetches bounds those alive at once
  and not those made.
* `end_point`: two ticks to a second and two seconds to a minute; keys start
  on a minute or a fraction of a second past it, on a second within one, or a
  fraction of a second before one (`AroundMinutes`), so that two may start within
  one second; three keys, so a key has a neighbour on either
  side and may share a start; dates past the last `datetime` minute are asked.
  Twenty ticks are five minutes, with `Drift` 2 room for an identifier on either
  side of an edge and one out of its reach. Whether a client spares genuine
  identifiers is asked of keys in force for two minutes or longer, and for the
  allowance (`LongLived`; the two are one length here): a key that is in force at
  the beginning of no minute is one no date can ask for, and past a key shorter
  than the allowance the signer's may be two keys away.
* `verification`: `Drift` 2 covers `ClockSkew` 1 and `Latency` 1 with nothing to
  spare, and `SigningSkew` is the whole allowance; `Lead` 3 is one more than
  `Drift`; six minutes are one key, its successor and both sides of the edge.
  One verifier, because its safety properties are proved for any number; the two
  violations have `Drift` 1 and the verifiers and minutes they need.
* `frame_stream`: a byte has sixteen values, of which eight are ASCII, 0 is the
  terminator and three more are versions; a symbol has eight, since a byte is
  four parts and a symbol three (`PartValues`, of two values here and four in the
  code), so that three bytes hold what four symbols hold. A
  domain is at most two bytes, so that one the `Reader` and the parse read
  differently fits, a signature is one, dates two, a length one. From anyone come
  the bytes 0, 1, 2 and 8: a terminator, two versions, and the first that is not
  ASCII, two of which are one
  character in UTF-8. Eight bytes are two more than the shortest
  envelope, so payloads of up to two bytes fit with and without something after
  them, and dates pass `MaximumMinutes`. A minute is two ticks and an hour four,
  so that what truncation drops exists. Three domains are offered to the creator:
  one byte, none at all, and two characters of two bytes each, of which it takes
  the first two; three frames are sent, among them the absent marker, an OWID of
  version 1 and one of version 2.

Deadlock is checked but in `end_point`, `rotation_within_minute` and
`frame_stream`, where the clock and the schedule, or the stream, reach their
bounds and nothing is left to do. In the others something can always happen: a
cache can be cleared, a caller can ask, a verifier that has a status is given
another identifier.

### Fairness

Three runs assume some.

* `shared_live`. A loop runs its callbacks first in, first out, so a task that
  is ready again and again does run although other threads may disable its turn
  in between (`Busy`, `Turn`): strong fairness for `Wake`, `Begin` and
  `Withdrawn`. The transport is given `TIMEOUT_SECONDS` and answers or raises:
  strong fairness for `Answered \/ Failed`, never for `Answered`. A thread that
  has the lock, or has released it and not settled its future, goes on: weak
  fairness for `Write \/ Settle`. Nothing is assumed of callers, cancellations, `clear_cache`, or of
  loops ending or starting. `EndsEarly` = FALSE keeps `EndLoop` from a loop that
  has a task which has not had its first turn, because with it the answer is no:
  that is `orphaned_entry`.
* `verification`, for `VerificationsEnd`. A verifier that can go on does: weak
  fairness for `FindHeld \/ Ask` of each. A request ends in one of its ways,
  because the transport raises at its timeout: weak fairness for `EndsFor`, of
  which failing is always one alternative. That the creator ever answers is not
  assumed, nor that time passes.
* `frame_stream`, for `QueueIsRead`, which is the fairness of `FrameQueue`: the
  transport delivers what it carries (weak fairness for `Deliver`), and the
  reader's loop turns while there is something to consume (for `Walk`). That
  anything more is ever sent is not assumed, so the last frame has to be read
  without one after it.

### What the runs that end in a violation show

1. `orphaned_entry` (`public_key_fetch.py:438`). A task cancelled before its
   first step never enters the `try` that removes its entry. The comment at
   line 201 says an entry is removed whatever the outcome; this one stays, and
   every later caller for the URL waits on a future nobody settles, until
   `clear_cache`.
2. `spread_cancellation` (468). When the loop of the caller that leads ends, the
   fetch is cancelled, and `except BaseException` puts the `CancelledError` into
   the future shared with callers on other loops. The comment at line 440 says
   cancelling one caller must not cancel the request others wait on.
3. `cleared_key_returns` (463). A fetch under way at `clear_cache` holds its
   answer afterwards, so the next caller need not make a request of its own, as
   line 298 says it will.
4. `neighbour_outage` (390). Where the neighbour's key cannot be fetched the
   failure under the selected key stands, so an outage turns a genuine
   identifier into `SIGNATURE_INVALID`, which line 273 says no outage does.
5. `older_request` (429). A request made while its minute was still ahead is
   answered for the creator's present. A second verifier that joins it once the
   minute has come is given the earlier key for the neighbour, and reports a
   genuine identifier as not matching; line 97 says it is checked against the
   key beyond the edge first. One verifier alone cannot meet this: it
   has no request out when an identifier is presented to it.
6. `rotation_within_minute` (383). The end a creator states is cut to the minute,
   and the key beyond the edge is asked for by that minute. Where a key starts
   within it, the creator rightly serves the earlier key for its beginning, so
   the key that signed is never tried: a key that starts at 10:00:30 signs on a
   machine one minute slow, and the identifier dated 09:59 is
   `SIGNATURE_INVALID`. Line 364 says an identifier dated just before a start may
   have been signed with the key after, and that this key is asked for and
   tried. Rounding the end up to the next minute would do so.

`GenuineIsNotDenied` is therefore stated with its two exceptions, which are 4
and 5, and the proof shows that there is no third where keys start on whole
minutes; `GenuineIsSpared` has the exception that is 6, and
`AnswersPassTheCheck` and `SurfacesAgree` have the creator's refusals of its own
answers (last section); the proofs show no other, at whatever moments keys
start.

### Under which assumptions verification is right

`Verification` makes each of these a constant or a guard; without the first, or
the last part of the second, TLC finds a counterexample.

* `ClockSkew + Latency <= Drift`. The clock that decides whether an answer may
  be held is read when the answer arrives (`public_key_fetch.py:592`), the
  creator's when it answers. Where the allowance does not cover the two
  together, a bare answer for a minute the creator read as its present is held
  for that minute. The code has 15 minutes for both; that a request takes less
  than a minute or so is an assumption, because the 10 seconds of `urllib` are
  per socket operation.
* `Allowed`, for `StatedSpansAreWhole` and `GenuineIsNotDenied`, is three things.
  `SigningSkew <= Drift`: a signing machine's clock is within the allowance.
  `SigningSkew <= Period`: a key is in force for as long as the clocks may
  differ, or the signer may be two rotations away and only one neighbour is
  tried. `Drift < Lead`: a creator publishes a key further ahead than the
  allowance, or a signing machine whose clock is ahead can be using a key while
  answers state no end yet.
* Keys are published in the order they start, none is used twice, each is in
  force for at least `Period`, and each starts on a whole minute after 2020.
  `CreatorEndPoint` has keys in any order, sharing starts and used again, and
  starts within a minute.
* Where a creator states no periods, its machines sign by the schedule: without
  a period there is no edge to try a neighbour at.

## What is proved

TLAPS proves these for every value of the constants that the named assumptions
allow; the runs check the same definitions on the instances above.

* **`KeyCacheProofs`**, from `KeyCacheAssumption`. `TypeCorrect`; on it,
  `CacheIsUnambiguous`, whose step is one lemma per way the store changes
  (`AddedApart`, `WidenedApart`), on the predicate `Apart`: no two keys of a
  creator overlap and no key is there twice. A widened span keeps apart because
  `_widen` refuses a union that meets another key. `StoreStaysBounded` needs
  `Unambiguous` as well: the count stays exact because a widening replaces one
  record by one, which two records for one key would break.
  `SpansAreNeverInvented` and `ConfirmedSpansStayOld` are inductive with the
  types; the second uses that time only moves forward. `ServedKeysStayServed` is
  an action property from the types: whatever covered a minute
  is still there or within its widened successor (`TakesIn`), and a minute that
  was served stays far enough in the past (`PastStaysPast`).
* **`SharedFetchProofs`**. `ImplementsStore` is refinement, with the plan of
  whoever has the lock as if it were carried out: `Answered` is the `Hold` of
  `KeyCache` (`PlanIsHold`, one case for each of its alternatives), `Write`, which
  changes the store, stutters, and so must everything else that may happen
  between the two. It rests on `SharingInv`: the types of the plans (`PlanTypes`),
  which the clock's passing must not spoil, and `Exclusive`, that one fetch at
  most has decided and not written. With the lock dropped from `Answered` TLC
  finds the store of two half done calls that is no store of `KeyCache`. The theorems about the store follow through it, with
  `SharedStoreIsUnambiguous` and `SharedStoreStaysBounded` spelt out.
  `RequestsAreShared` and `JoinedRequestsAreOpen` come from `RequestsInv`: the
  types, the first property, and `EntriesUnfinished`, that an entry names a
  pending request for its URL whose task has not got as far as its lock.
  `EntriesAreOpen` alone is not inductive: that a future is pending says nothing
  of a task that is about to settle it. `EntriesStayLive` and `NobodyStrands`
  assume `~EndsEarly` and add to it (`LiveInv`) that no task was dropped before
  its first turn, that a task which is done has settled its future, and that
  what a caller awaits has a task.
* **`VerificationProofs`**, from `VerificationAssumption` and `Timely`, which is
  the first assumption above. `HeldIsTrue` says that every minute of every held
  span is one the key was in force for, by a schedule that goes on growing after
  the answer. In force is not inductive, as a key published later may end it;
  `Settled(pem, x)` is: the key is in force at `x` and either another follows it
  or `x` is too near for one still to be published. It is kept by every step
  (`SettledStays`), implies that the key alone is in force (`SettledInForce`),
  and holds between any two minutes it holds at (`SettledBetween`), which is why
  a widened span is true of the minutes no answer was about. `Told(r, c)` says
  the same of an answer on its way, given by the creator's clock at `c`.
  `TruthInv` is the types, the order of the keys, the ages of requests, answers
  told and spans settled. `AcceptedWasInForce` adds `JobsFine`: each verifier
  waits for a minute it may accept the key of, and has accepted only a
  `Justified` one.

* **`DenialProofs`**, from `Timely` and `Allowed`. `StatedAreWhole` strengthens
  `TruthInv` by `WholeInv`: keys are `Spaced` by `Period`; an answer on its way
  states the start of its key and, if it states an end, a key that follows
  (`RepliesSpanned`); a held span with a stated edge has that edge
  (`CacheWhole`). That a widened span keeps it needs `HeldIsTrue`: two stated
  edges of one key could differ only if the span had swallowed a minute of
  another. `GenuineNotDenied` follows what a verifier has learned. `Rejected(o,
  pem)` says that a key in force near the identifier's minute is not the
  signer's. `JobJudged` is the invariant: with the selected answer tried and
  some neighbours still to come, every minute a signing machine may have read is
  either one of the tried key's (`TriedTruly`), or at or beyond an edge whose
  neighbour is to come, or has been heard of and rejected (`HeardOrAsked`).
  `BeforeIsRejected` and `AfterIsRejected` are where the arithmetic is: a
  neighbour's key covers every signing minute on its side of the edge, since the
  key next to it is at least `Period` long. When the last neighbour is done, the
  disjuncts leave only rejected minutes, and `RejectedIsNotGenuine` ends it.
* **`CreatorEndPointProofs`**, from `EndPointInv`, which adds to the types that
  the clock keeps its bound. `NothingAhead` follows from `Asked` never passing
  the clock. `PastStands` and `SignersFound` assume `Datable`, that the clock
  stays within what a `datetime` holds: past that, a date that has come would be
  read as the present. `PeriodsApart` rests on `NextIsEarliest` and on
  `TextGrows`, that cutting to seconds is monotonic, so two keys that start
  within one second still state periods that do not meet. `AnswersPass` says
  where the check refuses an answer and that it does nowhere else: by `TextJumps`,
  two moments whose texts differ are told apart by the later text, so the end of
  the key in force is past the moment asked about unless it lies in its second. `EndPointInv` has no bound on the number of keys and none on
  their order.
* **`RotationProofs`**, from the same invariant, `Datable` and
  `ClientAssumption`, that a date field holds later minutes than a `datetime`.
  `Agreement` is that the moment a client is answered for is the one the
  schedule is asked about, that the answer for it passes the check
  unless a key starts within its first second (`InForcePasses`), and that one key
  is in force then (`OneInForce`). That an answer's text lies in the minute of the
  moment it was cut from is `MinuteOfText`.
  `GenuineSpared` compares the signer's key with the selected one. Where it
  started earlier (`EarlierKeyIsTried`) it is in force at the minute before the
  first stated: the keys keep two minutes, so that it has started by then, and
  one in between would have started more than the allowance before the date, which
  is also why the creator does not refuse the answer for that minute.
  Where it started later (`LaterKeyIsTried`) it is the key that ended the
  selected one, or the signer's clock was past the allowance, and it is in force
  at the minute the end was cut to if it starts on it, which is where the
  exception comes from. `MinutesApart` is the arithmetic of the cut. Neither
  theorem bounds `Drift`, which is 2 in the run and 15 in the code.

* **`EnvelopeProofs`**, from `WidthsAssumption`, `SymbolAssumption` and
  `MaximumAssumption`, and of buffers of any length: the invariant is only
  `BufferIsBytes`, and the work is in what the operators compute. `Number`,
  `Encoded`, `GroupValue` and `Quotients` are recursive functions over data of
  any length. Their values are told of by predicates that no longer mention how
  they were chosen (`Values`, `Encodings`), and induction over a length is
  `Induction`, of a set of numbers where the library's is of an operator,
  which rests on `LeastExists`. `DigitsOfNumber` and `NumberOfDigits` are that
  the bytes of a value and the value of bytes are inverse within a width.
  `Complete(b)` is what a buffer has that a framed read succeeds on.
  `WhatIsReadWasSigned` then writes the fields again and finds the bytes,
  field after field. `DecisionIsFinal` goes through the branches of `Parse` in the
  order of the code: what each looks at lies within the buffer it decided on.
  `WaitingIsWorthIt` completes each buffer that is waited for, with zeros: the
  one that ends within its date is why `MaximumAssumption` is needed, that a date
  whose most significant byte is zero is one a `datetime` holds (in the code,
  16,777,215 minutes of 4,197,074,399). `TextIsRead` follows a group of
  three bytes into its four symbols and back (`GroupHolds`, `GroupOfText`), a
  last group of one or two bytes included. `ReadersTakeTheSame` is of every
  buffer: `ReaderIs` walks the cursor through the five methods and finds the
  fields of the parse wherever `Complete` holds of the whole, with each text of
  which the domain's bytes are the UTF-8. Where those bytes are ASCII there is
  one such text (`AsciiIsOneText`), since a text whose UTF-8 is ASCII is ASCII
  itself (`AsciiText`).
* **`FrameStreamProofs`**, on those, from `FramesAssumption` and
  `LegibleAssumption`. `StreamTypes` is inductive and gives the properties of
  reads in the stream (`StreamReadsAreSound`, `StreamDecisionsStand`), and
  `ValidMeansSigned`, for which `ReadIsWritten` says that the fields written
  again are the bytes received. `StreamIsQueue` is refinement: the two variables
  of the queue map to themselves, a `Send` is a `Send`, a `Walk` is a `Take`. It
  needs `InOrder`: the buffer and the wire together hold, end to end, the bytes
  of the frames written and not read, which `Holds` says with the place each
  frame ends at. `FrameIsRead` is the other half: a frame with anything after it
  is read as itself and consumes its own bytes; `WalkTakesFirst` joins the two
  by finality, as the reader may have a part of what `InOrder` speaks of.
  `LegibleAssumption` is that OWIDs are what their bytes are read back as: the
  domains a creator accepts are ASCII, which its constructor does not check
  (last section), its clock shows dates a `datetime` holds, and what is passed
  on was read and so is whole in its date. TLC evaluates it in `frame_stream`.

Model-checked only: the liveness of `SharedFetch` (`shared_live`),
`VerificationsEnd` and `QueueIsRead`, which is out of this prover's reach. Every
invariant, action property and refinement a passing run checks is also proved.
RECURSIVE operators are not used, so that every module can be proved about.

## What is not modelled

* The text of a URL, sockets and threads of `urllib`. Their outcomes, an answer
  or one of the failures, are inputs of `SharedFetch` and `Verification`.
* ECDSA, and the import and export of keys: a library's. A signature is the key
  that made it in `Verification`, and the bytes it is over in `FrameStream`.
* Statuses, errors and versions: enumerations.
* The refusal of values that are not bytes or text, the printable forms,
  `age_minutes`, JSON text and PEM text.
* A 400 of the end point; keys that started before 2020; `clear_cache` during a
  verification (it empties the store, which `KeyCache` and `SharedFetch` have,
  and a verifier then asks), and a request cancelled under one, which
  `SharedFetch` has and `Fail` of `Verification` has not.

Edges of the code that the properties have to leave room for:

* The text of an answer drops fractions of a second (`endpoints.py:175`), and the
  check of the answer compares it with the moment asked about (161). Where the
  next key starts at 10:00:00.5, the key in force at 10:00 is told to have ended
  at 10:00:00, and every request for that minute raises, at whatever later time
  it is made; so does one without a date in the half second before the start.
  Line 225 calls a failing check a fault in the schedule, but `DatedPublicKey`
  takes any `datetime`, such as the `now` a key was made at, and no other key has
  to be near. `AnswersPassTheCheck` states exactly these requests, and the proof
  is that there are no others.
* A key that starts within a minute signs identifiers dated before its start
  (`creator.py:119`), which `key_for` finds the previous key for
  (`public_key_schedule.py:178`), so that `PublicKeySchedule.signature_status`
  says `SIGNATURE_INVALID`. A client over HTTP says `KEY_UNAVAILABLE` where the
  creator's answer reads as not covering the minute. `SignerIsFound` excludes
  that minute (`StartedWithin`).
* The `explicit` flag survives a widening by minutes that no statement covered
  (`public_key_fetch.py:610` against 147). Those minutes lie between the edges
  the creator stated, which is `StatedSpansAreWhole`.
* A domain that is not ASCII is signed as UTF-8 and read as ASCII with
  replacements, so its copies are not equal to it and never verify.
  `ReadsWhatWasSigned` and `ValidIsSigned` say ASCII, and in `frame_stream` the
  one such domain that is offered is too long in bytes, so that the creators
  there have ASCII ones.

## Plan

1. That `Verification` implements `KeyCache` (`Store`), as `SharedFetch` does,
   and its types without `Timely`.
2. `clear_cache` and loops of the process in `Verification`, if its runs allow.
