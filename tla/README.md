# Verification of pg_fedi

TLA+ modules, TLC runs and TLAPS proofs for pg_fedi, a PostgreSQL extension that
keeps an ActivityPub server in the database: the application and a thin HTTP
proxy call its SQL functions, an external worker sends what it queues. Paths are
those of the repository; `activities.rs` stands for `src/activities.rs`, and so on.

Contents: [the system](#the-system) · [modules](#modules) · [runs](#runs) ·
[fairness](#fairness) · [proofs](#proofs) · [disagreements found](#disagreements-found) ·
[not modelled](#not-modelled) · [plan](#plan)

## The system

| Component | State | Operations | What makes it correct |
| --- | --- | --- | --- |
| Inbox (`activities.rs`) | `ap_activities`, `ap_blocks` (domains), stub rows of `ap_actors` | `ap_process_inbox_activity`: domain check, duplicate check, stub, log entry, handler, all in one transaction | an activity is processed once; nothing of a blocked domain; an error leaves nothing |
| Social graph (`activities.rs`, trigger in `schema.rs`) | `ap_follows`, `ap_blocks` (actors) | `process_follow`, `_accept`, `_reject`, `_block`, Undo of a Follow | a row's URI names its Follow; a follow that is gone stays gone; each Follow is answered once |
| Content (`activities.rs`) | `ap_objects`, `ap_likes`, `ap_announces` | `process_create`, `_update`, `_delete`, `_like`, `_announce`, Undo of the last two, `ap_create_note` | only the owner changes an object; deleted stays deleted; an undone reaction stays undone |
| Statistics (`schema.rs`, `admin.rs`) | `ap_actor_stats` | triggers on `ap_follows` and `ap_objects`, `ap_refresh_actor_stats` | the counters are the numbers of rows |
| Delivery queue (`delivery.rs`, `admin.rs`) | `ap_deliveries` | INSERT by `process_follow` and `ap_create_note`; `ap_get_pending_deliveries`, `ap_delivery_success`, `ap_delivery_failure`, `ap_cleanup_expired_deliveries` | every row ends Delivered (and the inbox got it) or Expired after the configured attempts |
| Delivery worker (not in the repository) | the rows it was given | poll, POST, report | see below |
| Domain blocks (`admin.rs`) | `ap_blocks` | `ap_block_domain`, `ap_unblock_domain` | see Inbox |
| Actors and keys (`actors.rs`) | `ap_actors`, `ap_keys` | `ap_create_local_actor`, `ap_upsert_remote_actor` | an actor whose key ids nobody else shows has a key it published, with the profile from the same document; a local actor keeps its private key and its key id |
| Settings (`guc.rs`) | GUCs | `ALTER SYSTEM` at any time | |
| Lists (`serialization.rs`, `admin.rs`) | none; the reader keeps a page number or a cursor | `ap_get_actor_outbox`, `_followers`, `_following` by page, `ap_home_timeline` by cursor | a walk ends, and misses or repeats no more than what came and went |
| Cryptography (`crypto.rs`) | none | `ap_build_signature_header`, `ap_verify_http_signature`, digests, key pairs | what this server signs it accepts, with the key of the moment; a request is accepted only if the parts its signature covers came as they were signed. The body is not among them: that the Digest header fits it is for the caller to find (`ap_digest`) |
| Rendering, WebFinger, NodeInfo, search | none | queries rendered as JSON or rows | |

**Interaction.** The proxy calls the inbox once per HTTP request, each in a
backend and transaction of its own. The inbox writes log, graph, content and, for
an Accept, the delivery queue; `ap_create_note` reads the graph and writes content
and the queue: `Federation` is these parts together. Triggers keep the statistics within the transaction that changes
the rows. The worker sees the queue only through the three SQL functions. There is
no other shared state: no threads, no files.

**What is hard.** Activities arrive in any order, any number of times, and from
several servers; requests overlap at READ COMMITTED; settings and blocks change
between and during requests; several workers may poll, and each may die between a
POST and its report; a POST without an answer may have arrived. `PROJECT.json`
lists each of these hazards at its line with the properties that cover it.

### Delivery worker

The repository documents its interface (README, "Delivery Worker"): poll, send,
report. `Delivery` models it accordingly. A worker polls when it has no rows left,
POSTs each row it was given once, and reports each outcome with one call, in any
order. It may crash at any time; it then forgets its rows, and the SQL call it was
in is rolled back. One process is what the README describes; nothing in the code
prevents several, so the queue is studied with one and with two.

## Modules

| Module | Models |
| --- | --- |
| `DeliveryPromise` | what the queue promises, row by row: accepted, tried a bounded number of times, ended once; no schedule, no workers |
| `Delivery` | `ap_deliveries`, the four SQL functions, workers, network and clock |
| `Inbox` | what every activity goes through: block, duplicates, stub, log |
| `SocialGraph` | extends `Inbox`: follows, their URIs, counters, actor blocks, Accepts |
| `Content` | extends `SocialGraph`: objects, reactions, status count, notes and the rows they queue |
| `Federation` | `Content` and an instance of `Delivery`: the server with its queue |
| `InboxRace` | overlapping calls of the inbox, statement by statement, with their locks, moderation and recalculation |
| `Actors` | rows and keys of actors: local ones, stubs, documents of remote ones |
| `HttpSignature` | extends `Actors`: signed requests under way while keys are stored |
| `Paging` | lists read page by page while they change |
| `DeliveryProofs`, `SocialGraphProofs`, `ContentProofs`, `FederationProofs`, `InboxRaceProofs`, `ActorsProofs`, `HttpSignatureProofs`, `PagingProofs` | theorems about the module they extend |
| `MCDelivery`, `MCContent`, `MCFederation`, `MCInboxRace`, `MCActors`, `MCHttpSignature` | instances for TLC (`Paging` needs none) |

Refinement: `Federation` implements `Content` and `Delivery`, `Content` implements
`SocialGraph`, `Delivery` with one worker implements `DeliveryPromise`.

**Delivery.** One function per column of `ap_deliveries` that decides anything.
`wait` is `next_retry_at - now()`: `Tick` lets it fall, a row is due at 0 or below.
`job[w][d]` is the stage of worker w with row d. `ap_delivery_success` is one UPDATE
and one action; `ap_delivery_failure` is a SELECT and an UPDATE and two
(`FailureRead`, `FailureWrite`), between which other sessions run. `received`,
`posts` and `pollError` only observe. An UPDATE of a row that the cleanup removed
changes nothing, and `ap_delivery_failure` fails at its SELECT then, which changes nothing
either. `Enqueue` takes the rows of one
transaction, of the two kinds the code queues: an Accept, stored with its JSON, and a
Create, stored without.

**Inbox and SocialGraph.** An activity is a record of what the handlers read. The
handlers are one action each, a whole transaction: an error (unknown target, an
activity without the object its handler needs, handle of a stub taken, URI of another
row) rolls everything back, so such a call is no step. `known` is who has a row in `ap_actors`. `SetRow` is any INSERT, UPDATE
or DELETE on `ap_follows` together with its trigger. `accepts[u]` counts the Accepts
queued in answer to Follow u. A local user's own follow is an INSERT by the
application, as the tests of `lib.rs` do it (`LocalFollow`). Duplicate rows of
`ap_blocks`, which has no unique key to prevent them, are not told apart.

**Content** adds the rest of the inbox and `ap_create_note`; the actions of
`SocialGraph` are part of its next-state relation. `sent[o][i]` counts the rows
queued for note o to inbox i.

**Federation** names the rows of the queue by what they deliver: an Accept by the URI
of the Follow it answers, a note by object and follower. The step of the server that
inserts rows is the step of the queue that accepts them (`ProcessInbox`,
`PublishNote`); the queue's other steps leave the server alone (`Deliver`). `Audience`
is the query of `ap_create_note`: accepted followers on other servers, at that
moment. It assumes that every Follow has an id, as the rows of anonymous ones are
told apart by nothing. Domain blocks only keep activities out, which the network may
do as well; they are left to `Content`.

**InboxRace** cuts one call at its statements. What a statement reads is what is
committed; what it writes is visible at `Commit`. `Holds` is the set of locks of an
open transaction: the entry of the log, the row of `ap_follows`, and the rows of
`ap_actor_stats` of the followed actor and, in a second statement of the trigger, of
the follower. `Needs` is what the next statement takes; `CanGo` waits for it. A DELETE
neither sees nor waits for a row that another transaction is inserting. `Abort` is an
error or a lost connection at any statement; `BreakDeadlock` is the database, which
rolls back one of the agents that wait in a circle. The recalculation is one UPDATE,
split where its snapshot is taken (`RefreshCounts`), where it locks each row, in any
order (`RefreshLocks`), and where it writes. The activities are Follows of one local
actor, Undos that embed them, and Accepts of the follows that the local actor sent:
they reach both directions and both kinds of write to a shared row. `grace` only
observes: how many calls of a blocked sender may still commit.

**Actors.** An actor publishes several documents over time, which the application
fetches and hands to `ap_upsert_remote_actor` in any order, any number of times.
The two statements of that function are `StoreRow` and `StoreKey`, in one
transaction: `UpsertRemote` is both, `UpsertFails` neither. `handle` is the pair
UNIQUE(username, domain), which does not bind local actors, whose domain is NULL;
`profile` stands for all columns a document fills. The rows and the key id of a
document decide whether it fits (`HandleIsFree`, `KeyFits`). A call whose row is
rejected for its handle changes nothing and is no step.

The code does not ask whose key id a document shows: the upsert replaces the PEM of
whichever row has that id, and so does `StoreKey`. The modules therefore assume nothing
of the key ids in documents; the properties say instead of which actors they hold.
`WithOwnIds` are the actors whose key ids no other actor publishes: of the others, an
actor's row may hold another's PEM. `Undisputed` are the local actors whose key id no
document shows with another PEM: of the others, only the private key and the id are
certain (`LocalsCanSign`), and a delivery may fail its verification. In the instance,
carol and dave are on a server that shows one key for all its actors. A document with
the URI of a local actor is stored as any other: before the actor was created, it makes
a row with a domain, and the creation then fails at UNIQUE(uri).

**HttpSignature** adds one request under way to `Actors`: a delivery of this server,
signed with the key a poll gave out, or one of another server, signed with the key of
any document it ever published and covering what such servers cover (`Shapes`: more,
less, nothing named, parts this code does not know, fields without quotes). While it
is under way, documents are stored, and a part of it or its body may be altered.
`Verifies` is `ap_verify_http_signature`: a header is a record of its fields, the text
signed the set of its numbered lines; RSA and SHA-256 are ideal, a signature being the
pair of key and text, and character-level parsing is left out. The body is not an
argument of the function, and an altered body under unchanged headers is accepted;
`AcceptedWhenIntact` says what a caller knows that compares a covered Digest header with
`ap_digest` of the body itself.

**Paging.** A list has up to `N` rows in the order of their dates; they arrive in any
order (`id` is the order of arrival) and may leave. A reader walks it by the links it
is given: from `first` by `next`, from `last` by `prev`, or by the timeline's cursor,
which is an id while the order is by date. Each page is one query. `kept`, `added`
and `dropped` only observe; `Repeats` has one element for every time a row was given that
the reader had already. Dates are assumed to differ: rows with equal dates have
no fixed order in SQL, and nothing could be promised of them.

## Runs

| Run | Instance | Shows |
| --- | --- | --- |
| `federation` | local author, two remote followers (one undoes), a note; one worker, 1 crash | a note is queued when it is made and never later, for those who are accepted followers at that moment and were answered, and for each of them (`NotesGoToFollowers`); the queue with one worker implements `DeliveryPromise`, including that every row ends (`KeepsPromise`); who follows hears of it (`FollowersHear`); rows held are pending also while the cleanup runs (`HeldRowsArePending`); at most one extra POST per crash (`PostsBounded`); ends are final (`SettledStays`). Several workers are `delivery_workers`: there the last three do not hold |
| `delivery_workers` | 2 workers, 2 rows, 1 crash, rows with and without JSON | attempts, status and what the inbox received agree in spite of overlapping reports (`PendingHasBudget`, `DeliveredWasReceived`, `AttemptsWereMade`); a late report may reopen a settled row, but unless a poll fails every row is settled for good in the end (`EverySettles`) |
| `inbox` | a local user who writes, two remote actors that claim one handle, one that reacts; 8 activities about the graph or 11 about objects | follows (`StatsMatchGraph`, `UriNamesItsFollow`, `AnsweredOnce`, `FollowersWereTold`, `GoneStaysGone`) and objects (`StatusesCounted`, `TombstonesStay`, `OnlyOwnersChange`, `ReactionsComeAnew`) under every order and repetition of either group, with the setting flipped, domain blocks and the recalculation in between, and calls that fail because the stub's handle is taken or an object is missing. The status count is not the number of live objects, since a soft delete is an UPDATE and its trigger is for INSERT and DELETE: it lies between these and all objects the actor ever had |
| `race_calls` | one local actor, 2 backends, 3 calls, 1 block or recalculation | when calls for the same and for different activities overlap and abort: the counts are those of the rows (`CountMatchesRows`); a block lets no more calls through than had passed its check when it was made (`BlockLetsFewThrough`); a Follow that passes the duplicate check more than once is answered at most once per backend (`AnswersAreBounded`); of the modelled calls, the only deadlocks are at the second counter, of a recalculation, or of a sender's Follow or Undo with its Accept of the follow in the other direction (`OnlyCrossingsDeadlock`; follows between several local actors could make longer circles at the counters); no call waits for ever (`CallsReturn`) |
| `signatures` | 2 local actors, 3 remote ones, two of which show one key, 9 documents, 5 shapes of header, inbox URLs with and without path | `KeysAreOwn`, `ProfileMatchesKey`, `LocalsCanSign` with key rotation under the same id and a new one, documents without key and with the key id of another actor, a document of a local actor from before its creation, a stub whose guessed handle another actor has; a delivery that arrives intact is accepted (`OwnDeliveriesVerify`); an accepted request has its covered parts as they were signed, and which intact ones are certain to be accepted (`AcceptedWhenIntact`) |
| `paging` | 5 rows, pages of 2, 2 arrivals and 2 departures | a page-numbered walk misses at most one row per departure and repeats at most one per arrival, backwards the other way round (`SlipsAreAccounted`); `last` and `next` agree, also when the list grew (`NextEndsAtLast`); the cursor misses or repeats only rows about which id and date disagree (`OnlyLateOnesAreMissed`, `OnlyLateOnesRepeat`); every walk ends (`WalkEnds`) |
| `delivery_poll`, `delivery_schedule`, `race_duplicate`, `race_refresh`, `actors_rotation`, `signatures_skipped` | | expected violations, [below](#disagreements-found) |

**Bounds.** `MaxAttempts` is 2, so that there is a first and a last attempt, or 8 in
`delivery_schedule`, which needs every interval; two retry intervals tell the first
and the clamped index apart. Two rows or more and a batch of one make rows wait for
each other. `OverdueCap` stops telling apart how long a row has been due, which only
orders a batch; at 0 all due rows are equally old and any of them may be first, which
includes the order by `next_retry_at`. Two overlapping workers show every lost or late
report; the proofs cover more. In the graph, what a follow can go through needs one
pair: a Follow sent anew under a second id, one without id (`MaxAnonymous` bounds how
often it is answered), Undo, Block, and Accept and Reject of the local user's own
follow. The log only grows and makes this run finite without another bound; a behaviour
has activities of one of the two groups (`group`), since objects and follows meet only in
`ap_create_note`, whose run is `federation`.
`MaxCalls` and `MaxAdmin` bound `InboxRace`: with three calls two can overlap after
another has committed, in either order. A deadlock of two calls needs an
Accept next to a Follow or an Undo of one sender, which two backends give; one with the
recalculation needs one call that holds one counter and wants another. In `Paging` five rows are
two full pages and a part of one, so that there is a page before, at and after the
reader; two changes show that slips add up. `Actors` and `HttpSignature` are finite as
they are. `CHECK_DEADLOCK FALSE` stands where a bound, an empty queue or a walk that
is done lets everything come to rest; `inbox` and `signatures` never rest.

Every property has a mutant: a definition next to the one it replaces, which makes
a plausible mistake and violates the property in the same run.

## Fairness

`Delivery`: weak fairness of the poll (`Poll` or `PollFails`) per worker, of `Post`
and of `Report` per worker and row, and of `Tick`. A worker is a loop that polls again when it is done; a
POST ends by an answer or by the client's timeout (`delivery_timeout_seconds`);
time passes. Nothing obliges the remote inbox to accept, so rows may all expire.
Crashes are bounded; without a bound a worker may crash in every round, and nothing
is promised. A note in the queue makes the poll fail for ever, which is the first
disagreement below; `EverySettles`, `KeepsPromise` and `FollowersHear` therefore
promise something of the behaviours in which no poll fails, and `FollowersHear` adds
that polls fail only when a note was published to a follower. `Federation` takes the
queue's fairness and adds none: nobody has to send, follow or publish.

`InboxRace`: weak fairness of each backend's next statement, of the recalculation's
locks and write, and of `BreakDeadlock`. PostgreSQL grants a lock that is free to a
backend that waits for it, and looks for deadlocks after `deadlock_timeout`. Calls do
not have to begin, nor to abort.

`Paging`: weak fairness of the reader's next request once the walk has begun. The
list changes finitely often during a walk (`MaxChanges`); a reader of a list that
grows as fast as it is read need not end.

## Proofs

All proofs hold for any actors, activities, workers, backends and limits; what is
assumed are the named ASSUMEs on the constants (finite sets where something is
counted, the shape of activities, `MaxAttempts` in 1..20 as in `guc.rs`).

- `DeliveryProofs`. `IInv` is the inductive invariant. Its heart is
  `AttemptsAccounted`: attempts plus the answers that workers have not reported yet
  are at most the POSTs made, and so is what a running `ap_delivery_failure` has
  read plus these. `AttemptsWereMade` alone is not inductive: a report raises
  attempts without a POST in the same step. From it follow `AttemptsSafe`,
  `BudgetSafe`, `DeliveredIsTrue` and `TypeCorrect`.
  With `Workers = {u}`: `HeldSafe`, since nothing but the holder's own report settles
  a pending row; `PostsSafe` by `ChargedOnce`, every POST is charged, under way or was
  lost in a crash; `Implements`, that each step is a step of `DeliveryPromise` or a
  stutter, by `OneInv`, which joins these with `IInv` because a report is a
  settlement only of a row that is open; and `SettledSafe`.
- `SocialGraphProofs`. `StatsSafe`: the counters are the cardinalities of the sets
  of accepted rows; each handler's case is a set that gains or loses one element
  (`CountedUp`, `CountedDown`), a Block's is two such steps.
  `AnswersSafe`: an Accept is counted only for a Follow in the log, and a logged one
  is never processed again. `UrisSafe` needs that an id has one log entry. `ToldSafe`
  needs `UriHasItsFollow`: the URI of a row is that of a Follow of this pair, so an
  Accept that names it is about this row. `GoneSafe`: of all handlers only that of a
  Follow makes a row (`OnlyFollowsAdd`), and it runs for an activity not yet in the log.
- `ContentProofs`. `ContentIsGraph` is a refinement by the same variables: to the
  graph, an activity about objects is one it has no handler for. `StatusesSafe`:
  the count lies between two cardinalities, of live objects and of all rows; every
  step inserts one row, marks rows deleted, or neither. `TombstonesSafe` needs
  `MarkedHasRow`: only a row can be marked, and a Create meets the row.
  `OwnersSafe` and `ReactionsSafe` are about single steps, from the check for duplicates
  and the conditions of each handler.
- `FederationProofs`. `FederationIsServer` and `FederationIsQueue`, fairness
  included, step by step; with them the theorems about the parts hold of the whole
  (`StatsOfServer`; `QueueHeldSafe`, `QueuePostsSafe`, `QueueSettledSafe` through an
  instance `QP` of `DeliveryProofs`, shown to be about the same actions in
  `SameActions`), and so does the promise itself (`QueuePromiseSafe`, `SamePromise`).
  `AudienceSafe` is a fact of neither part, about the step that queues a row for a note:
  `AInv` says that whoever is an accepted follower has a processed Follow with an Accept
  queued or received (`FollowersWereAnswered`), and that this was so for the addressee of
  every note (`NotesAreAddressed`), which lasts as log entries and rows of the queue do not
  vanish and gives `UnaskedSafe`.
  `MatchSafe` (`MInv`): what the server counts as answered (`accepts`) and as sent
  (`sent`) are exactly the rows that the queue was given, per Follow and per note and
  inbox, whatever the queue did with them since. With `ReceivedWasQueued` and
  `AnsweredIsLogged` it gives `UnaskedSafe`, from end to end: a remote inbox gets no
  Accept but of a processed Follow, and no note but of an author that accepted it.
- `InboxRaceProofs`. `CountSafe` and `DeadlocksSafe` rest on `SInv`: no lock has two holders
  (`OneWriter`, which is PostgreSQL's part), as each is taken only when no other agent holds
  it. `CountSafe` (`CInv`), until the first recalculation: what an open transaction has done to its row
  still fits the committed row (`ChangesFit`), so that the commit moves row set and counter
  together. `BlockSafe` (`BInv`): the grace of a blocked sender covers its calls that are
  past the check, which only get fewer while it is blocked. `AnswersBoundedSafe` (`AInv`):
  the answers to a Follow and the calls that are past the duplicate check with it are
  together at most the backends, since nobody gets past once the log has it. Both are by
  what any step lets a call do (`CallsAdvance`).
  `DeadlocksSafe`: in a set of agents each of which waits for
  another and that has no smaller such set, everyone is waited for (`AwaitedInCircle`).
  A lock on a log entry is wanted before any other is held, one on a follow row before
  any counter, and the first counter before the second; so no call of the set is before
  its second counter (`CirclesAtCounters`), and calls that want each other's counters are
  about the two directions of one pair (`CountersMeet`). All for any number of calls, in both directions, with
  `BreakDeadlock` as a rollback that could happen anyway.
- `ActorsProofs`. An upsert by key id touches the rows that have the id, or gives the
  document's actor a first one (`StoreKeyEffect`); nothing is assumed of the ids. An id
  that is among one actor's only is that actor's in every row (`OwnIdHasOneActor`), which
  gives `KeysSafe` and, with rotation to a new id being all or nothing and a row's
  profile a document of its actor (`ProfilesAreOwn`), `ProfilesSafe`. `SigningSafe`: a
  row keeps its key id in every upsert, and a PEM under an undisputed id can only be the
  generated one.
- `HttpSignatureProofs`. `SignaturesAreActors` carries the theorems about `Actors`
  over. `RequestInv` ties a request under way to what was signed, and a local signer to
  its key pair; nothing is needed about the stored keys of others, nor of who names whose
  key id. `AcceptedSafe` then is about texts: that of a list, made from the parts known here, is the one signed
  only if every part of the list is known and came as signed (`LinesDetermine`), and
  then it is (`LinesAgree`). `OwnDeliveriesSafe` adds `LocalsCanSign` and
  is about undisputed signers only.
- `PagingProofs`. The place of a row (`Pos`) is the number of rows down to it: places are
  1, 2, ... without gaps (`TopSize`), and a row that comes or goes moves no other by more
  than one (`InsertShifts`), so that at most one row crosses the border between read and
  unread (`OneAtPlace`). `PInv` counts on both sides of that border, before the reader is
  at the end: for one that goes forward, the rows it has and will be given again
  (`Beyond`) together with the `Repeats` are at most the arrivals, and the lasting rows it
  has passed without getting them (`LostUpTo`) at most the departures; for one that goes
  back the other way round (`UpTo`, `LostBeyond`). `SlipsAreAccounted` is neither
  inductive nor enough: it says nothing of a walk under way. `LastSafe` is that there is
  one page whose offset is within the list and the next one's is not (`LastPageType`),
  and that an offset reached stays within a list from which nothing leaves. For the
  timeline, each lasting row not yet given is below the cursor or late (`Late`), each row
  given above it or followed by an early one (`Early`); ids are given once and in order
  (`IdInv`), and rows left out of a page are earlier than its last one (`FirstPage`).

Left to TLC: liveness (`EverySettles`, `KeepsPromise` beyond its safety, `FollowersHear`,
`CallsReturn`, `WalkEnds`) and ENABLED, which the prover does not reach. Every invariant
and every action property of the passing runs is proved, with one worker where the run
has one. Two facts are proved and not run as properties: `QueueMatchesServer` and
`NothingUnasked`, stated in `FederationProofs`.

## Disagreements found

| Run | Code | Says otherwise |
| --- | --- | --- |
| `delivery_poll` | `ap_create_note` stores its Create without `raw`; `delivery.rs:54-59` unwraps it, so one queued note makes every poll that includes it fail | `tests/endpoint_test.sql:313`: "the function should not error" |
| `delivery_schedule` | `delivery.rs:146` indexes the intervals by the number of attempts after the failure: the first retry comes after 5 minutes, 1 minute is never used | `README.md:75`: "Retry schedule: 1m, 5m, 30m, ..." |
| `race_duplicate` | two overlapping deliveries of a Follow both pass the check; the second goes on by ON CONFLICT DO UPDATE and the Follow is answered twice | `activities.rs:143`: "skip if we've already processed this activity" |
| `race_refresh` | the recalculation overwrites an increment that was committed after its snapshot | `admin.rs:296`: "Recalculate all actor stats from source data" |
| `actors_rotation` | the key is upserted by `key_id`, but `actor_id` is UNIQUE as well (`schema.rs:58`): the document of an actor that rotates to a key under a new id always fails | `actors.rs:70`: "inserts or updates the actor row, and stores/updates the public key if present" |
| `signatures_skipped` | a part that the code does not know is left out of the text to verify, which then is not the text that was signed: a signature that covers the content type is refused, also when everything came as it was signed | `crypto.rs:198`: "Some implementations include content-type; we accept but skip" |

## Not modelled

The JSON of single rows, WebFinger, NodeInfo, search, the views and `ap_delivery_stats`
read rows and change none; no two of their reads belong together. `last_status_at` is
written, by two triggers and the recalculation, and read by nothing in the code.
NOTIFY triggers only tell listeners that rows exist, the worker polls regardless.
Undo of an Undo or of another type, and activities of unknown type, only add to the
log (`ProcessOther`; some are rejected by the type's enum, which rolls them back).
An activity that comes before the one it is about finds nothing and is logged; the
runs include these orders, nothing in the repository promises anything of them. A stub
keeps the username guessed from its URI, and an inbox that several followers share
gets one row each. Page numbers below 1, which no link contains, are not walked.
RSA, SHA-256, base64 and the parsing of header text and URLs by character
are abstracted.

## Plan

1. Done: all modules above with their runs; the invariants and action properties of all
   of them; the refinements between `Federation`, `Content`, `SocialGraph`, `Delivery` and
   `DeliveryPromise` (safety).
2. Proofs: overlapping calls of `InboxRace` without a duplicate and without a
   recalculation as calls one at a time, a refinement of `SocialGraph` at `Commit`.
3. Larger: `delivery_workers` with `OverdueCap` above 0, so that the order of a batch
   matters over several rounds; `race_calls` with a third backend.
