# Kognit in TLA+

Kognit is a study assistant: a FastAPI server (`backend/`), a single-page web
client (`static/`, `templates/`), and a Supabase PostgreSQL database
(`supabase/migrations/`). This directory holds TLA+ models of the parts of it
that are hard to test, the TLC configurations that check them on small
instances, and proofs of their safety properties for every instance.

Run, in this directory:

    tlc -config MCQuotaLimit.cfg MCQuotaLimit      # any of the runs below
    tlapm QuotaLedger_proofs.tla                   # any of the *_proofs modules

`PROJECT.json` says which lines of the source each definition stands for, which
hazard of the code each property is aimed at, and which plausible bug (a
"mutant", defined right before the definition it changes) makes each property
fail.

## 1. The system

A request for AI work travels through most of the parts:

    page (app.js: a chat's question, the entry in activeGenerations)
     --HTTP--> endpoint (main.py)
       rate limit (memory) -> enforce_quota --RPC--> consume_quota (PostgreSQL)
       -> admission (asyncio semaphore) -> attempt loop (ai_engine, a thread)
             -> router / breakers / governor / retry budget (shared, locked)
             -> provider adapter -> Gemini
       -> settle_request (background task) --RPC--> usage rows, refund_quota
     <--events, as lines of JSON, cut anywhere-- NDJSON parser -> text on display
       -> the chat's messages -> localStorage, and an upsert of the notebook

Everything in the server's memory (collectors, refund tickets, breakers, retry
budget, rate buckets, pending quizzes, PDF contexts) dies with the process; only
the database remembers. The page keeps its own copies: notebooks in memory and in
localStorage, notes in memory and in IndexedDB, assets in the caches of the
service worker. Students sign in and out of one browser while requests of the
visit before are still on their way.

| component | state | operations | what is hard | correct when |
|---|---|---|---|---|
| **Quota ledger** (0008, 0012) | `plan_limits`, `quota_ledger`, `subscriptions` | `consume_quota`, `refund_quota` | concurrent transactions, an advisory lock per user and kind, `now()` fixed before the lock is granted, replays, midnight, a plan change | limits hold, an id is counted once, a refund is final and needs the row's own token, growth is capped |
| **Subscriptions and payments** (0011, `payments.py`) | `subscriptions` | `activate_pro_subscription`, verification | two activations with one transaction id, a period appended to a running one | each payment is sold once, periods do not overlap |
| **Quota client and settlement** (`quota_service`, `usage_collector`, `usage_telemetry`) | a `UsageCollector` and a refund ticket per request | `enforce_quota`, record, `settle_request`, `refund` | lost and late RPCs, students leaving, restart, the order of mark, record and settle | delivered work stays charged, useless work is refunded, nothing runs unmetered, failure is closed |
| **HTTP endpoints** (`main.py`) | rate buckets, stores below | 33 routes | awaits between check and use, cleanup in `finally`, background tasks | the order quota - work - answer - settle; one grade per quiz |
| **AI engine** (`ai_engine.py`) | one attempt loop per answer | `stream_ai_response`, `get_ai_response`, `generate_quiz`, title | three retry ceilings, two deadlines, one recovery, one switch of models, a shared budget | one terminal event, no mixed text, bounded load, it ends |
| **Gateway, health, router** (`backend/ai/`) | breakers, probe slots, permits, retry budget | `allow`, `record_*`, `route`, `acquire`, `release` | methods atomic one by one, callers that combine them; cancellation at every await | breakers trip by failures in a row, probes are answered, permits are conserved |
| **AI configuration, prompts, cost, registry, verification** | none, or constants | lookups | - | - |
| **Provider adapters** (`backend/providers/`) | none | SDK calls, classification of errors | every failure kind at every moment | each failure has the right kind |
| **In-memory state limits** (`state_limits.py`) | pending quizzes, PDF contexts | put, get, remove, evict, expire | eviction of what is in use, expiry in flight | caps hold, what is in use stays |
| **Database client** (`database.py`, `http_client.py`) | none | PostgREST calls; two-insert saves with compensation | an insert executed whose answer is lost | no half-saved record |
| **Learning engines** | none (pure functions of stored evidence) | mastery, mistakes, insights, snapshot, next steps | tie-breaks, thresholds, duplicate evidence | each agrees with its definition |
| **Notes** (`notes_engine`, `notes_ai`) | notes rows | create, edit, tags, study material | concurrent edits of a note, a note deleted during generation | tags bounded and unique, no lost edit |
| **Share links** (`share_engine`, 0013) | shared snapshots | create, revoke, read | read against revoke | a revoked token shows nothing |
| **Entitlements**, **research and retrieval**, **other migrations** | none of their own | views, heuristics, tables and row-level security | - | - |
| **Chat client** (`app.js`, `stream-render.js`) | the chats of a notebook, `activeGenerations`, the PDF and mode of a chat | send, Stop, edit, resend, regenerate, rename, delete, open; parse events, render text | replies that arrive when another chat is open, or none; Stop against the terminal event | text goes to its own chat, once, whole or marked as cut; Stop works; nothing rendered is taken back |
| **Notebooks and accounts** (`app.js`) | `projects`, the copy in localStorage, `currentUser`, the profile | load, save, create, rename, delete, sign in, Log out | unordered upserts, storage that refuses, a session that expires | nobody sees or stores another's work; loading ends |
| **Quiz dialog** (`app.js`) | one set of globals | generate, answer, close, save | a generation that ends in another dialog | answers given are lost only on purpose |
| **Learning panel** (`app.js`) | `_spGeneration` | open, close, load in two awaits | loads outliving an opening or a session | shows its own student |
| **Notes client** (`notes.js`, `notes-store.js`) | the list on screen, the IndexedDB copy | load, save an answer, edit, study, sign out | replies applied to the state of the moment | own notes only; "available offline" is true |
| **Share dialog** (`share.js`) | view, captured chat, `busy` | preview, create, revoke | the chat goes on; late replies | what was approved is what is stored |
| **Service worker** (`sw.js`, `shell.js`) | caches per version, the page's status | install, activate, fetch, status | replaced between two writes, error pages | "ready" is true |
| **Page furniture** (`nav-views`, `profile-menu`, `ui-core`...) | layout | navigation, menus, focus | - | - |
| **Templates, vendored code, evaluation suite, load test** | - | - | - | - |

## 2. The modules

| module | models |
|---|---|
| `QuotaPlans` | plans, limits, period keys, ledger rows, the counting operators |
| `QuotaMeter` | abstract: an atomic meter, what the quota tables promise |
| `QuotaLedger` | `consume_quota`, `refund_quota` and their locks as interleaved transactions; implements `QuotaMeter` |
| `RequestSettlement` | a metered request from its quota call to its settlement, over a `QuotaMeter` reached by calls that are lost or late |
| `StreamContract` | abstract: what the events of a streamed answer promise the page |
| `StreamEngine` | the attempt loop of `stream_ai_response`; implements `StreamContract` |
| `CircuitBreaker` | the health tracker, the router's health gate and the fallback between two models |
| `Admission` | the admission of generations over an asyncio semaphore |
| `QuizSubmission` | pending quizzes, `/api/quiz/submit`, `save_quiz_attempt` |
| `AnswerContract` | abstract: what the page promises about a streamed answer |
| `ChatClient` | the chats of a notebook and everything that writes to them; implements `AnswerContract` |
| `ProjectStore` | notebooks, the local copy, the database rows and the accounts of one browser |
| `NotesClient` | the notes list, its offline copy and their requests |
| `QuizModal` | the quiz dialog |
| `StudentPanel` | the learning panel |
| `ShareDialog` | the share dialog and the live copies on the server |
| `OfflineShell` | the service worker's versions and caches, and the page's claim |
| `ChatAttachment` | the PDF and the answering mode of a chat |
| `NdjsonReader` | the parser of the event stream |
| `StreamText` | how much of a growing text may be rendered |
| `MC*` | the values of the constants for TLC; `MCChat` and `MCPage` put parts of the page side by side |
| `*_proofs` | theorems, checked by TLAPS |

They compose: `RequestSettlement` INSTANCEs `QuotaMeter` as its database, which
`QuotaLedger` is proved to implement, so what it shows of an atomic meter holds of
the SQL. What `RequestSettlement` lets a streaming engine do (text, a discarded
attempt, one terminal result with its record) is what `StreamEngine` does in
detail; the events that `StreamContract` allows are those `ChatClient` listens to,
and `AnswerContract` says what becomes of them.

`MCChat` and `MCPage` do not compose their parts, which share no state: a
behaviour is one of a single part (`side`, `part`), the others rest in one state.
That checks each part by itself, for the price of one run.

### QuotaLedger

A database session runs one call at a time. `Begin` opens the transaction and
fixes `now()` (`began`); `TakeLock` is `pg_advisory_xact_lock` on user and kind;
`ReadPlan`/`PlanMissing` read the plan and compute period and limit; `Replay`,
`Deny` and `Accept` are the decision in the order of the SQL; `Insert` commits
the row; `Refund`/`RefundRefused` are `refund_quota`; `Abort` is a rollback at any
point. Statements read what is committed when they run (READ COMMITTED), which
is why the plan, the replay check and the insert are separate steps. Time is in
ticks from a Monday midnight in Dhaka; `DayTicks` and `WeekDays` set the calendar.
Subscription periods are the environment's (`Activate`), appended as
`activate_pro_subscription` does; its transaction-id replay is not modelled.

### RequestSettlement

A request is its own refund token (the server makes a fresh one). `Accept` is
the endpoint up to the RPC of `enforce_quota`. `wire` holds calls the database has
not run; it runs them in any order, any time later, and an answer is delivered
only while the request still waits for that call, so a timeout (`ConsumeFails`,
`Settled`, `Refuse`) may race a late execution. Then come the endpoints, each with
its own shape: `/api/chat/stream` as the chain `StreamReady` ... `StreamEnds`; the
JSON endpoints as `ProviderCall`, then `Deliver`, `DeliverNothing`, `ChatRaises`,
`GuardedRaises` or `NoteGone`. `Settle` is `settle_request` with `refund_due` in its
order. A student may leave between any two steps of a stream, and whether the
background task still runs then is left open; `Restart` loses everything in
memory. `TransportBound` says whether `quota_service` can name its HTTP client
(in the code it cannot, finding 1). `Calm` switches the disturbances off.
Endpoints stand for their unit: the plan is "free" and the day does not change
here, both are `QuotaLedger`'s subject. That a pro plan or a midnight between
consume and refund make no difference follows from the row being found by user,
kind, request id and token, never by plan or day.

### StreamEngine

One generator per request; a step is what happens between two provider events
or yields. Whether a breaker is open and admits the other model is free here
(`SwitchIfOpen`) and is `CircuitBreaker`'s subject. A piece of text stands for the
attempt that produced it, which is all `ImplementsContract` needs to tell mixed
answers apart. A request's time advances in `Wait`, anywhere it may pass.
`Failing` is the entry to the exception handler, both for the provider's
exceptions and for the deadline found after a slow consumer. The handler's
branches are `Recover`, `Interrupt`, `Retry`, `RetryElsewhere`, `GiveUp`.

### CircuitBreaker

Every `HealthTracker` method runs under its lock and is one operator; callers
call several in a row, and each call is a step of its own: `Route`, `AskOther`,
`AskOwn` are the three reads of the health gate, in the code's order of
evaluation. `Fail` records a failure and `Retry`/`Switch`/`SwitchLimited` are the
governor's ways on from it. `fails` is counted up to `Threshold`, because no
guard tells larger counts apart. With `AllCounted = FALSE` a call may end in
nothing recorded, as an empty answer, a bad request or a student who leaves do.

### Admission

Tasks of one event loop, interleaved at awaits. `value`, `granted` and `WakeOne`
are `asyncio.Semaphore` (external code, modelled from what the controller relies
on): a released permit is handed to a waiter that resumes later and may by then
be cancelled. It picks any waiter where the real one is first in, first out, so
the model has every behaviour of the code and more.

### QuizSubmission

The store is a set of quiz ids with the tick each was stored at. `Kept` states
what eviction may leave without walking a list: nothing in flight goes, nothing
younger goes before something older, eviction stops as soon as there is room.
`Submit` is the endpoint up to its first await, atomic on the event loop.
`InsertDone`, `AnswersFail`, `RollbackDone`, `Saved` follow the two inserts and the
compensating delete; `Run`, `Reject` and `Lose` are the database under the faults
the constant `Faults` allows: any call, the compensating delete included, may be
refused, run late or never, and its answer may be lost. An attempt is its row in
`quiz_attempts`, which holds the score, with or without answers beside it.
`astray` is a history variable: the requests that gave up on an insert before any
answer came, or whose delete the database did not carry out.

### ChatClient, AnswerContract

A chat is its id and its messages; a message is an *ask* (one text of one
question) and who speaks. `SendMessage` runs up to the request, `Headers` up to the
body, where the chat is looked up once more by its id (`held`), then `Delta`, `Retry`
and `Terminal` are the events, and `StreamEnds` is everything after the last chunk:
what is kept (`Kept`), the write to the chat if it is still there, the request for
a title, and the `finally` that frees the chat (`Released`). `StopGeneration` aborts;
`Unwind` is how a stopped run gets out. Events are taken in any order, also after
a terminal one, as `applyStreamEvent` takes them; a retry forgets the terminal
event with the text. The first question of a chat names it (`FirstTitle`) if the
title is exactly "New Chat", whoever wrote that. Editing, resending and regenerating are two
requests each answered any time later, `posts` and `regens`, with the index they
were asked at. An answer whose index lies beyond a chat that was cut meanwhile
leaves holes in the array, and `Put` makes them. The text of an answer is the
number of its pieces. `ImplementsAnswer` maps the run of each ask to the contract.

### ProjectStore

A notebook is the set of students whose work is in it, which is all that the
leaving of one student in front of another can show. `SaveProjects` is
`saveProjectsToStorage`, the write to localStorage (which a full storage refuses
for the whole visit) and the upsert of the active notebook; upserts reach the
database in any order. `OpenApp`, `SignIn` and `Reload` begin a load, `ListLoaded`
and `ListFails` end it, `StartupChat` is what either then does. `HandleLogout`
forgets; `SessionEnds` is a session that expired, for which the page does nothing
but forget the account. `crossed` is a history variable: it becomes true when a
session ends without Log out, or when Log out overtakes a request.

### NotesClient

A request captures its token when it is sent (`Asked`) and its reply is applied
to whatever `state` is then. The list is a snapshot the server took in between
(`ServeList`); a listing by offset may miss notes, one of more than 12 pages is
partial. IndexedDB runs transactions in the order of the calls, so `PutNote`,
`RemoveNote` and `ClearUser` are part of the step that issues them, and the
completion of a whole list (`ListStored`) is a step of its own. Every write may be
refused. `mixed` is the history variable here.

### The other parts of the page

`QuizModal` has the dialog's globals and three kinds of request that reach them
whenever they end; `overrun` says that Retry was used on a toast while another
generation ran or a quiz was on screen. `StudentPanel` has `_spGeneration` (`epoch`) and the two awaits of
a load. In `ShareDialog` a text is a chat's number of messages; a request carries
the text captured when its button was pressed, and its reply is drawn into the
dialog of the moment, whichever chat that is open for. `OfflineShell` deploys,
installs, activates and replaces versions; a cache holds per asset nothing, a good
copy or an error page, and a status is computed in two reads. `ChatAttachment` has
what `applyPDFStatusUI` and `applyChatSettingsUI` show, and for which chat; `late`
says that a removal ended in another chat than it began in, and is forgotten when
a chat is opened. In
`NdjsonReader` the server writes characters and the parser takes them in chunks of
any length. `StreamText` evaluates `findSafeBoundary` on texts that grow by one
character, over an alphabet with the delimiters the renderer knows.

## 3. The runs

Every run finishes within minutes on two workers. Deadlock is checked in
`MCQuotaLimit`, `MCQuotaCap`, `MCBreaker` and `MCBreakerClaims`, whose systems never stop; elsewhere a
bounded number of requests, streams, quizzes or visits is used up and the system
does stop, so `CHECK_DEADLOCK FALSE`.

| run | question | instance |
|---|---|---|
| `MCQuotaLimit` | do limits, single counting and final refunds hold while two calls race over a first day, a midnight and a plan change, and does the SQL implement the atomic meter? | 1 user, 1 meter, 3 request ids, 2 sessions, 1 token, 2 days, 1 subscription; free 1 a day and 2 on the first, pro 2 a day |
| `MCQuotaCap` | how far can calls of different meters overshoot the growth cap, and is every lock waiter served? | 2 meters, 2 ids, 2 sessions, cap 1, one instant; pro has no plan row |
| `MCSettlement` | can any disturbance refund delivered or abandoned work, or run the provider unmetered? | 2 requests on 6 endpoints with ids that may collide, limit 1 |
| `MCSettlementCalm` | is an answer without text given back when nothing goes wrong? | endpoints stream, chat, quiz, tags |
| `MCSettlementUnbound` | does a request whose quota cannot be checked get the safe 503? (violated) | as `MCSettlement`, `TransportBound = FALSE` |
| `MCStream` | do the events keep the contract under every failure and deadline, are discarded attempts recorded, does the shared budget bound the load, does it end? | 2 answers of one piece, 3 attempts, deadlines of one tick, margins 0, budget 1 with 2 refills |
| `MCBreaker` | do breakers and gate keep sense under interleaved results? | 3 threads, threshold 2, cool-down 1, 2 attempts |
| `MCBreakerClaims` | is every probe answered, all calls recorded and requests still coming? (violated) | 2 threads |
| `MCAdmission` | are permits conserved, waiters woken, waits finite? | 5 streams twice each, 2 permits, queue of 2 |
| `MCQuiz` | is a quiz graded once, kept while it is saved, stored as one scored attempt? | 2 students, 4 quizzes, 2 submits, caps 2 and 3, expiry after one tick; refused and lost calls, restarts |
| `MCChat` | do answers land where they were asked and are they kept as promised; does anyone see or store another student's work? | 2 chats, 2 asks, 1 piece of text, 1 edit or regeneration in flight; 2 students, 1 new notebook, 1 save beside the page's own, 1 sign-in |
| `MCPage` | do the other parts of the page keep their claims under late, lost and refused replies? | 2 students with a note each; 3 quizzes of 2 questions; 2 pupils, 5 openings; 2 shared chats of 2 messages, 2 requests; 2 versions of 4 assets, 2 status questions; 2 chats with PDFs; texts of 6 characters out of 7; streams of 6 characters |

**Why the bounds suffice.** Two sessions are the fewest that race; the lock is
per user and kind, so a third only queues. Three request ids are one more than
any limit in play, so the denial, the replay and the refused reuse all occur.
Two days bring one midnight, one first day and, with one sold period, one change
of plan in each direction. A growth cap of one with two meters is the smallest
where two calls can pass it together. Two requests suffice for settlement
because a refund touches only the row with its own token: the second is there
to collide on the id and to take the last unit. Three attempts leave room for a
retry, a recovery and a last attempt; each deadline is passed in some behaviours
and not in others; one token makes the budget refuse, its refills make it allow
again, and two answers compete for it. Three threads bring a late result while two
others route. Five streams are one more than permits and queue together. Two
submits race; four quizzes against caps of two and three force both evictions.

On the page nearly every hazard is one reply that arrives after one change of
scene, so two of everything that can be confused are enough: two chats, two
students, two dialogs' subjects. Two asks in two chats let an answer stream while
the other is edited, resent or regenerated. Two versions of the shell are one
that claims and one that replaces it. Six characters are the shortest texts in
which a two-character delimiter opens, closes and is followed by more. The
theorems below remove these bounds for all of the safety properties.

**What is cut off.** `MCChat` does not follow a behaviour beyond the step that makes
`crossed` true, which its properties exclude anyway, nor beyond one in which the
student types a title for another chat than the first (`WithinBounds` of `MCChat`): no
property relates the titles of two chats, and the theorem has no such bound. `MCPage` does not
follow one in which `mixed` is true, and once IndexedDB has refused a write follows
visits and loads but no saves and edits (`WithinBounds`): after a refusal
`OfflineClaimHolds` claims nothing, and what `OwnNotesOnly` says is not touched by a
save that is not stored. `NotebooksSettle` is therefore shown of behaviours in
which no session expires. `FirstChat` fixes which of two equal chats is open first;
`MCPage`'s symmetry exchanges the two students together with their notes, and the
two shared chats.

**Fairness.** `QuotaLedger`: strong fairness of `TakeLock`, as PostgreSQL queues
lock waiters, and weak fairness of a granted transaction's steps. Nothing makes
students call or transactions abort. `StreamEngine`: weak fairness of `Step`, since
every provider call has a timeout that raises if nothing else does and a
generator's thread runs on; not of text, time or students. `CircuitBreaker`: weak
fairness of the clock and of threads that have begun; `BusySpec` adds that
requests keep arriving, and is used only to show that a stuck probe stays stuck
*although* they do. `Admission`: weak fairness of resuming or giving up, since
`wait_for` ends every wait; releases are not assumed, a generation may run as
long as it likes. `ChatClient`: weak fairness of `Unwind`, because `abort()` rejects the
pending `fetch` or `read` and the browser runs the handler; answers are not assumed
to come. `ProjectStore`: weak fairness of `OpenApp`, which the page runs when it is
loaded, and of `Loaded`, as a request is answered or fails. The other runs check
safety only.

## 4. What the runs show

The properties, by the question they answer:

* **Quota.** `QuotaRespected` counts the standing units of each period against the
  limits of plans the student has held, so a call that waited for its lock over
  midnight or over an upgrade is judged by the period it was counted in.
  `LedgerInv` is the inductive invariant of the proofs, and contains that a request
  id has one row; `AllowedHasUnit`: a repeated id is never allowed on a refunded
  unit. `RefundIsFinal`: rows only ever change by one refund made with their own
  token. `GrowthBounded`: the rolling-day cap is overshot by at most one row per
  other meter, which is what the comment in migration 0012 concedes.
  `EveryCallEnds`. `ImplementsMeter` is the refinement.
* **Settlement.** `DeliveredIsFinal` and `AbandonedIsKept` are the two halves of
  refund decision A (docs/DEPLOYMENT.md); `NeverUnmetered` is why the quota exists;
  `NothingUsableIsRefunded` is the student's side.
* **Streams.** `ImplementsContract`; `ShownWorkIsRecorded`; `LimitedModelLeftAlone`: no
  attempt goes to a model whose 429 has already ended one of this answer, whatever
  recovery, switches and breakers decide in between; `LoadBounded`;
  `EveryStreamEnds`.
* **Health.** `TrippedByFailures`, `HealthyModelPreferred`.
* **Admission.** `PermitsConserved`, `NobodyForgotten`, `EveryWaitEnds`.
* **Quizzes.** On the server `OneSuccessPerQuiz`, `SubmitKeepsDefinition`,
  `OneAttemptPerQuiz`, which counts every scored row, whether it has answers or not;
  in the dialog `ProgressKept`.
* **Chats.** `RightChat`: every question and answer stands in the chat it was asked
  in. `OneStreamPerChat`: the registry names exactly the run that is not over, so
  Stop reaches it and Send is free when it ends. `StopEndsIt`. `ManualTitleKept`:
  only the student replaces a title the student typed, but for the first question
  of a chat the student called "New Chat".
  `ImplementsAnswer`: a whole answer was declared whole by the server, a cut one was
  stopped by the student. `AttachmentShown`: the bar and the mode are the open
  chat's. `ChunkingIrrelevant` and `BoundaryGrows`: neither events nor rendered text
  depend on where the network cuts.
* **Students on one browser.** `NobodyElsesWork` for notebooks and profile,
  `OwnNotesOnly` for notes and their copy, `PanelShowsOwn` for the learning panel;
  `NotebooksSettle`: the list does not show "loading" for ever.
* **Claims of the page.** `OfflineClaimHolds` (a note marked as available offline is),
  `ReadyIsTrue` (so is the app), `ApprovedIsShared` (what is published was on screen
  when "Create link" was pressed).

Two places where the code differs from what its own text says, each with a run:

1. `quota_service.py:151` calls `http_client`, which the module never imports.
   The `NameError` is not `QuotaUnavailable`, so every metered endpoint answers 500
   instead of the "safe 503 (fail closed)" of line 65 (`MCSettlementUnbound`). All
   other settlement runs take the import as present.
2. `router.py:250` asks `allow(other)` before `allow(spec)`. With both breakers
   cooled down it claims the other model's only probe and then uses its own
   model; nobody answers that probe and the model is refused from then on
   (`MCBreakerClaims`; `health.py:12` promises that the probe closes or reopens the
   breaker). A probe whose call ends unrecorded has the same effect; the run
   excludes it (`AllCounted = TRUE`) to show the router alone suffices.

What the models do besides, and no kept run reports. Each follows from the
definition named:

* `database.py:247` raises at once when the answer to the first insert of an
  attempt is lost; the row, with its score, may exist and nothing deletes it, so a
  retry stores a second scored attempt of the quiz. The docstring (188-192) promises
  that a failed submission leaves no "0 answers, non-zero score" record, and names
  a failed delete as the only residual (`InsertFails` in `QuizSubmission`).
  `OneAttemptPerQuiz` speaks of all other rows: `astray` has the requests whose insert
  went unanswered and those whose delete was not carried out.
* A chat that the student has called exactly "New Chat" is renamed by its first
  question and again by a generated title (`app.js:4195`, `FirstTitle`), though the
  comment there (4200-4202) says that a manual title opts out for good.
* A title that is empty keeps its unit, as does study material whose note was
  deleted meanwhile, though docs/DEPLOYMENT.md says that a student who received
  nothing usable gets it back; so `NothingUsableIsRefunded` fails with the
  endpoints "title" or "study", and `MCSettlementCalm` leaves them out.
* An attempt retried before its first token leaves no usage row (the code says
  so at `ai_engine.py:1889`); `ShownWorkIsRecorded` is about shown text only.
* A regenerated answer is written at the index it was asked at
  (`app.js:2300`). If the student has cut the chat by an edit meanwhile, the array
  gets holes (`Put`), and a chat with holes cannot be drawn.
* Topics that arrive after their note was closed throw in the handler and again
  in the handler of that error (`notes.js:955`); `busy` stays raised until a reload
  (`TopicsSuggested`).
* A removal of a PDF that ends after a switch of chats takes down the bar of the
  chat that is open now (`app.js:3963`); `AttachmentShown` lets the bar be missing
  (`late`) from then until a chat is opened, and holds again from there on.
* Upserts of notebooks are not ordered (`app.js:576`): an older one may overwrite a
  newer, and one that is late brings a deleted notebook back (`UpsertLands`).
* Retry of a toast that outlived its failure, used while another generation runs or
  a quiz is on screen, resets an attempt in progress (`RetryGenerate`); `ProgressKept`
  excludes what follows that by `overrun`, and no other use of Retry.
* A session that expires leaves the page, an open panel and the local copies as
  they are (`SessionEnds`, `PanelSessionEnds`), and a profile request outlives Log out;
  hence `crossed`, `mixed` and `outlived` in the properties about students.

## 5. What is proved

With TLAPS, for every value of the constants that satisfies the assumptions named
in the component modules (`PlanAssumption`, `ChatAssumption`, ...), theorems
of the form `Spec => []P`, `Spec => [][A]_vars` or `Spec => Abstract!Spec`:

| module | properties | inductive invariant |
|---|---|---|
| `QuotaLedger_proofs` | types, `LedgerInv`, `QuotaRespected`, `OneRowPerRequest`, `GrowthBounded`, `AllowedHasUnit`, `RefundIsFinal`, refinement of `QuotaMeter` | `LedgerInv`, `BusyUnanswered` |
| `RequestSettlement_proofs` | types, `DeliveredIsFinal`, `AbandonedIsKept`, `NeverUnmetered`, `NothingUsableIsRefunded`, `TextWithinLimit`, `FailsClosed` | `SettlementInv`, `CalmInv` |
| `StreamEngine_proofs` | types, refinement of `StreamContract`, `LoadBounded`, `LimitedModelLeftAlone`, `ShownWorkIsRecorded` | `EngineInv`, `LoadInv` |
| `CircuitBreaker_proofs` | types, `TrippedByFailures`, `ClaimedWhileHalfOpen`, `HealthyModelPreferred` | `BreakerInv` |
| `Admission_proofs` | types, `PermitsConserved`, `NobodyForgotten`, `CountersExact` | `AdmissionInv` |
| `QuizSubmission_proofs` | types, `SubmitKeepsDefinition`, `OneSuccessPerQuiz`, `OneAttemptPerQuiz`, `PendingBounded` | `QuizInv`, `AttemptsInv`, `FlagsInv` |
| `ChatProjects_proofs` | `RightChat`, `OneStreamPerChat`, `ManualTitleKept`, refinement of `AnswerContract`; `NobodyElsesWork` | `ChatInv`; `OwnInv` |
| `PageParts_proofs` | `PanelShowsOwn`, `ApprovedIsShared`, `AttachmentShown`, `ReadyIsTrue`, `OwnNotesOnly`, `OfflineClaimHolds`, `ProgressKept`, `BoundaryGrows`, `ChunkingIrrelevant` | `PanelInv`, `ShareInv`, `AttachInv`, `ShellInv`, `NotesInv`, `QuizModalInv`, `TextInv`, `ReaderInv` |

The theorems about parts of the page are about each part's own specification
(`ChatSpec`, `ProjectSpec`, ...), with no cut and no bound on what is in flight other
than an arbitrary constant.

Why each needs strengthening:

* **LedgerInv.** `QuotaRespected` is about committed rows, but the count is checked
  one step before the row is committed. What carries the check over is the lock:
  `LockExclusive` (no two holders for one user and kind) gives `ChecksStand` (a
  transaction about to insert still has a free unit and a fresh id), and
  `MeterEntitled` says the limit it computed belongs to a plan that was held. The
  cap is not covered by the lock, so `GrowthReserved` counts, beside the rows, one
  reserved unit for every *kind* with an insert pending; as inserts of one kind
  exclude each other, at most `|Kinds| - 1` others can be pending.
* **SettlementInv.** A refund call may run arbitrarily late, so it is not enough that
  no row is refunded now: *no refund call of this request may be on the wire or
  still to come*. `Early` says that the collector is new until the quota call is
  answered; `Ticketed` that a ticket, and every record and mark, follows a row of
  the ledger; and `RefundsInv` that each refund call on the wire and each refunded
  row belongs to a `Closed` request: nothing was delivered or abandoned, and it
  is past the places where that could still happen.
* **BusyUnanswered.** That every "allowed" stands for a unit of its own holds because
  an answer is given only by the step that commits the row or by one that has
  found it, and a transaction under way has given none.
* **TextWithinLimit** is about text alone, and needs rows, calls on the wire and
  answers to agree (`RowsFit`): a request that is fed holds a unit of the ledger,
  and the units of a period never exceed its limit.
* **CalmInv.** While no call is lost, nobody leaves and nothing restarts (`Calm`), which
  `NothingUsableIsRefunded` supposes, a request has one call on its way at most, the one it waits for
  (`CallAwaited`), and its row and its collector are where its place says. The
  theorem assumes that neither "title" nor "study" is among the endpoints, which break the
  property (section 4).
* **FailsClosed** is proved under `TransportBound` alone: what `MCSettlementUnbound` finds
  has no other cause than the name that is not bound.
* **EngineInv.** The text on display is the collected text while an attempt streams
  and empty between attempts; a failed switch after a 429 never leads back to a
  limited model because the loop then ends; a row exists for every text that is
  over. `LoadInv` adds to the calls made the calls *owed*, the attempts a spent
  token has paid for and that have not begun.
* **BreakerInv.** A breaker's state, count, claim and cool-down fit together
  (`HealthInv`), which each method keeps whoever calls it; a thread that is about to
  call has an attempt left (`ThreadInv`). The routing property then follows from
  the last read of the gate, the only one that decides where the request goes.
* **AdmissionInv.** The conservation law, the equality of counters and places, and
  that a free permit next to an ungranted waiter means another one is about to
  wake it.
* **QuizInv.** For each submit, what is on the wire and in the tables is determined by
  its place; a saved attempt has no call left that could undo it.
* **AttemptsInv.** Two attempts of one quiz would need two submits that may keep one.
  `OneKeeper` says there is at most one: it is saving, or it was cut off by a
  restart, or it is done; and `TrailFits` that whatever else left rows behind has a
  compensating delete still to come or is astray. The theorem holds under every
  fault; what a lost insert or a failed delete leaves is named by `astray`.
* **FlagsInv.** Eviction spares a quiz that is being submitted, so a cap may be exceeded
  by as many quizzes as have their flag up; each of them is held by a submit in
  flight, which bounds the excess by the requests.

* **ChatInv.** That an answer lands in its chat follows from what is *in flight*:
  every edit, resend and regeneration names an ask of the chat it will write to
  (`RequestsHome`), and every run was begun in a chat. `RunsHome` and `Registered`
  say from both sides that a run is registered exactly while it is in flight, in its
  own chat and in no other; `RunShape` that a run that has not begun or is over has
  no text, verdict or Stop, which is what makes its end a step of the contract.
* **PanelInv.** A load that is current carries the token of the student who opened
  the panel, unless that session expired; loads of earlier openings are older than
  `epoch` and stay so because it only grows.
* **ShareInv.** The preview lists exactly the captured text, and every `create` in
  flight was approved, so that the server can publish nothing else.
* **AttachInv.** Types and the property itself, which every step keeps because each
  looks at the chat that is open once it is over.
* **ShellInv.** Versions ascend: what is installed is newer than what controls the
  page and than whatever said "ready", so only the clean-up before a claim can take
  caches that a claim rests on. `CountedIsKept`: outside that moment, what a status
  has counted so far is still stored when it is answered.
* **NotesInv.** Late replies are harmless for what they carry and dangerous for where
  they land: `RequestsAreOwn` ties what each answer holds to the student whose token
  asked for it, `ShownIsOwn` ties screen and copy to the student they are kept for.
  For the offline mark, a list that is being stored counts as marked already
  (`MarkedIsStored`), as the mark is set at the end of a write that saves and edits
  race with.
* **QuizModalInv.** An attempt with answers is in an open dialog (`AttemptIsOpen`), so
  closing has to pass the guard; and while a quiz is being made no quiz is on screen
  and no second one is under way (`OneAtSetup`), so that the quiz that arrives has
  nothing to overwrite. A Retry keeps this unless it makes `overrun` true.
* **TextInv** is the property itself, but its step needs a lemma about two scans:
  up to the last character that is no part of a delimiter, the scan of the
  longer text meets the same openings (`TriedStays`) and closings (`ClosedStays`),
  and where the two part, the longer one is past all that the clamp leaves of the
  shorter (`SafeGrows`). The scan is a recursive function; that it has a value
  (`ScanExists`), and what holds at every position, is shown from the last
  position at which it would fail.
* **ReaderInv.** What waits in the buffer is the last piece of all that has arrived
  (`BufferWaits`). `SplitConcat`: splitting a text that goes on is splitting the piece
  that waited together with the rest. Both this and `SaidConcat` are inductions over
  sequences, by way of `GrowsToAll`, which states them for a set of sequences
  instead of a predicate.
* **OwnInv.** Memory, the local copy, saves and loads in flight and the rows of the
  database hold each student's own work, all at once: any of the five could carry
  another's work into the next.

Every safety and action property that a passing run checks is proved, with the
refinements. Model-checked only: the liveness properties `EveryCallEnds`,
`EveryStreamEnds`, `EveryWaitEnds`, `StopEndsIt`, `NotebooksSettle` (outside what the
prover supports), and the two violations. The other way round,
`OneRowPerRequest`, `ClaimedWhileHalfOpen`, `CountersExact`,
`TextWithinLimit` and `PendingBounded` are proved and not run, and `FailsClosed` is run
only where it fails.

## 6. What is left out, and the plan

Not modelled:

* prompts, wording, HTML, Markdown, formulas and sanitising; classification of SDK
  errors; token and cost accounting; row-level security and seed rows; page
  furniture; the offline evaluation and the load test. They hold no state that
  operations could get wrong together, or are outside the running service;
* the learning engines, research and retrieval: pure functions whose results are
  defined nowhere but in their own code, so a model would have nothing to be
  checked against;
* the server's side of notes and share links: single statements over one table.
  `NotesClient` and `ShareDialog` have what the page can see of them;
* of the page: sign-up, the profile form and Google sign-in (which leaves the
  page), search and filters of the notes, the read-only page of a shared chat.

Left for later, most important first:

1. `Subscriptions` - `activate_pro_subscription` with its transaction-id replay and
   its lock: one period per payment, no overlap; then `QuotaLedger`'s `Activate`
   becomes an abstraction proved against it.
2. `PdfContexts` - the other store of `state_limits.py`: byte accounting against
   capacity under replace, expiry and eviction, composed with `ChatAttachment`.
3. `RateLimit` - the sliding windows of `main.py`: buckets shared by threads and the
   sweep that deletes empty ones.
4. The non-streaming attempt loops of chat answers and quiz generation, as two
   further implementations of one abstract "bounded retry" specification.
5. Proofs across parts: that `RequestSettlement`'s `TextWithinLimit` holds of the SQL, by
   the refinement of `QuotaMeter` instead of beside it; and that the events the
   reader hears are those `AnswerContract` starts from.
