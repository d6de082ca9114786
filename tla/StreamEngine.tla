------------------------------ MODULE StreamEngine ------------------------------
(***************************************************************************)
(* stream_ai_response: the attempts one streamed answer makes at the AI        *)
(* provider, under the deadlines and the process-wide retry budget of the      *)
(* gateway (AI_GATEWAY=v2).  A generator runs in its own thread and is         *)
(* suspended at every chunk it yields; several of them share the budget.       *)
(* Whether a breaker is open or admits the other model is left free here.      *)
(***************************************************************************)
EXTENDS Integers, Sequences, FiniteSets

CONSTANTS
  Requests,            \* streamed answers
  MaxAttempts,         \* MAX_ATTEMPTS, also MAX_ATTEMPTS_BUCKET_B
  MaxUnknown,          \* MAX_ATTEMPTS_UNKNOWN
  FirstTokenDeadline,  \* in ticks since the request began
  StreamDeadline,      \* once it has shown text
  CallMargin,          \* no provider call with this much time left, or less
  RetryMargin,         \* no retry either
  Burst,               \* size of the retry budget
  Fallback,            \* AI_MODEL_FALLBACK
  MaxElapsed,          \* bound on the time of one request
  MaxRefills,          \* bound on the refills of the budget
  MaxPieces            \* bound on the pieces of one generation

ASSUME EngineAssumption ==
  /\ MaxAttempts \in Nat \ {0}
  /\ MaxUnknown \in 1 .. MaxAttempts
  /\ FirstTokenDeadline \in Nat
  /\ StreamDeadline \in Nat
  /\ CallMargin \in Nat
  /\ RetryMargin \in Nat
  /\ Burst \in Nat
  /\ Fallback \in BOOLEAN
  /\ MaxElapsed \in Nat
  /\ MaxRefills \in Nat
  /\ MaxPieces \in Nat

VARIABLES
  pc,         \* where each generator is
  attempt,    \* its attempt number
  collected,  \* text of the current attempt
  recovered,  \* recovery_used
  first,      \* the governor has seen a first token
  elapsed,    \* time since the request began
  model,      \* the model in use
  switched,   \* the one switch of models was spent
  limited,    \* models that answered 429
  budget,     \* tokens in the retry budget
  refilled,   \* tokens ever put back into it
  calls,      \* provider calls, as <<request, attempt>>
  rows,       \* usage rows, as <<request, attempt, status>>
  shown, retried, ended  \* the events the response has carried

engineVars == <<pc, attempt, collected, recovered, first, elapsed, model,
                switched, limited>>
sharedVars == <<budget, refilled, calls, rows>>
eventVars == <<shown, retried, ended>>
vars == <<engineVars, sharedVars, eventVars>>

Models == {"general", "advanced"}

Other(m) == IF m = "general" THEN "advanced" ELSE "general"

\* ProviderErrorKind
Failures == {"unavailable", "conflict", "timeout", "unknown", "rate_limited",
             "auth", "invalid_request"}

\* A piece of text stands for the attempt that produced it.
Pieces == 1 .. MaxAttempts

Contract == INSTANCE StreamContract

Init ==
  /\ pc = [r \in Requests |-> "idle"]
  /\ attempt = [r \in Requests |-> 1]
  /\ collected = [r \in Requests |-> <<>>]
  /\ recovered = [r \in Requests |-> FALSE]
  /\ first = [r \in Requests |-> FALSE]
  /\ elapsed = [r \in Requests |-> 0]
  /\ model \in [Requests -> Models]
  /\ switched = [r \in Requests |-> FALSE]
  /\ limited = [r \in Requests |-> {}]
  /\ budget = Burst
  /\ refilled = 0
  /\ calls = {}
  /\ rows = {}
  /\ Contract!Init

TypeOK ==
  /\ pc \in [Requests -> {"idle", "attempting", "streaming", "yielded",
                          "pausing", "ended", "left"}]
  /\ attempt \in [Requests -> 1 .. MaxAttempts]
  /\ collected \in [Requests -> Seq(Pieces)]
  /\ recovered \in [Requests -> BOOLEAN]
  /\ first \in [Requests -> BOOLEAN]
  /\ elapsed \in [Requests -> Nat]
  /\ model \in [Requests -> Models]
  /\ switched \in [Requests -> BOOLEAN]
  /\ limited \in [Requests -> SUBSET Models]
  /\ budget \in 0 .. Burst
  /\ refilled \in Nat
  /\ calls \subseteq Requests \X (1 .. MaxAttempts)
  /\ rows \subseteq Requests \X (1 .. MaxAttempts) \X {"success", "error", "interrupted"}
  /\ shown \in [Requests -> Seq(Pieces)]
  /\ retried \in [Requests -> BOOLEAN]
  /\ ended \in [Requests -> [kind : {"none", "done", "interrupted", "error"},
                             text : Seq(Pieces)]]

-----------------------------------------------------------------------------
(* The governor *)

Remaining(r) ==
  (IF first[r] THEN StreamDeadline ELSE FirstTokenDeadline) - elapsed[r]

Expired(r) == Remaining(r) <= 0

\* allow_retry has time and a token; the token is spent by the caller.
RetryAllowed(r) == Remaining(r) > RetryMargin /\ budget >= 1

SpendToken == budget' = budget - 1

\* Mutant: the request may go back and forth between the models.
MaySwitchAgain(r) == Fallback

\* Only failures that count for health may move the request to the other model.
MaySwitch(r) == Fallback /\ ~switched[r]

SwitchModel(r) ==
  /\ MaySwitch(r)
  /\ model' = [model EXCEPT ![r] = Other(@)]
  /\ switched' = [switched EXCEPT ![r] = TRUE]

\* The breaker of the current model is open and the other model is admitted, or
\* the request stays where it is.
SwitchIfOpen(r) == SwitchModel(r) \/ UNCHANGED <<model, switched>>

-----------------------------------------------------------------------------
(* Chunks and rows *)

Goto(r, place) == pc' = [pc EXCEPT ![r] = place]

Record(r, status) == rows' = rows \cup {<<r, attempt[r], status>>}

\* A terminal chunk carries the text of the current attempt alone.
Terminal(r, kind, text) ==
  /\ ended' = [ended EXCEPT ![r] = [kind |-> kind, text |-> text]]
  /\ UNCHANGED <<shown, retried>>
  /\ Goto(r, "ended")

EndsAfter(r, status, kind, text) ==
  /\ Record(r, status)
  /\ Terminal(r, kind, text)
  /\ UNCHANGED <<attempt, collected, recovered, first, elapsed, model, switched,
                 budget, refilled, calls>>

-----------------------------------------------------------------------------
(* The attempt loop *)

Start(r) ==
  /\ pc[r] = "idle"
  /\ Goto(r, "attempting")
  /\ UNCHANGED <<attempt, collected, recovered, first, elapsed, model, switched,
                 limited, sharedVars, eventVars>>

\* An undecodable image: an error row, though no provider call was made.
BuildFails(r) ==
  /\ pc[r] = "idle"
  /\ EndsAfter(r, "error", "error", <<>>)
  /\ UNCHANGED limited

\* Mutant: a request past its deadline waits for the next turn of the loop.
DeadlineSkips(r) ==
  /\ pc[r] = "attempting"
  /\ Remaining(r) <= CallMargin
  /\ UNCHANGED vars

\* No time is left for another provider call.
DeadlineReached(r) ==
  /\ pc[r] = "attempting"
  /\ Remaining(r) <= CallMargin
  /\ EndsAfter(r, "error", "error", <<>>)
  /\ UNCHANGED limited

\* Mutant: the text of the last attempt is kept.
CallKeepsText(r) ==
  /\ pc[r] = "attempting"
  /\ Remaining(r) > CallMargin
  /\ calls' = calls \cup {<<r, attempt[r]>>}
  /\ Goto(r, "streaming")
  /\ UNCHANGED <<attempt, collected, recovered, first, elapsed, model, switched,
                 limited, budget, refilled, rows, eventVars>>

\* The provider is called; text and usage of this attempt start from nothing.
Call(r) ==
  /\ pc[r] = "attempting"
  /\ Remaining(r) > CallMargin
  /\ calls' = calls \cup {<<r, attempt[r]>>}
  /\ collected' = [collected EXCEPT ![r] = <<>>]
  /\ Goto(r, "streaming")
  /\ UNCHANGED <<attempt, recovered, first, elapsed, model, switched, limited,
                 budget, refilled, rows, eventVars>>

\* A piece of text is collected and yielded.
Text(r) ==
  /\ pc[r] = "streaming"
  /\ Len(collected[r]) < MaxPieces
  /\ collected' = [collected EXCEPT ![r] = Append(@, attempt[r])]
  /\ shown' = [shown EXCEPT ![r] = Append(@, attempt[r])]
  /\ first' = [first EXCEPT ![r] = TRUE]
  /\ Goto(r, "yielded")
  /\ UNCHANGED <<attempt, recovered, elapsed, model, switched, limited,
                 sharedVars, retried, ended>>

\* The consumer asks for more and the deadline has not passed.
Resume(r) ==
  /\ pc[r] = "yielded"
  /\ ~Expired(r)
  /\ Goto(r, "streaming")
  /\ UNCHANGED <<attempt, collected, recovered, first, elapsed, model, switched,
                 limited, sharedVars, eventVars>>

\* The provider's iterator ends without an exception: a blocked or empty answer,
\* a finished one, or one cut off by its finish reason.
ProviderFinishes(r) ==
  /\ pc[r] = "streaming"
  /\ \/ collected[r] = <<>> /\ EndsAfter(r, "error", "error", <<>>)
     \/ /\ collected[r] # <<>>
        /\ \/ EndsAfter(r, "success", "done", collected[r])
           \/ EndsAfter(r, "interrupted", "interrupted", collected[r])
  /\ UNCHANGED limited

-----------------------------------------------------------------------------
(* The handler of a failed attempt *)

\* The provider raises, or the deadline passed while a chunk was consumed.
Failing(r, kind) ==
  \/ pc[r] = "streaming"
  \/ pc[r] = "yielded" /\ Expired(r) /\ kind = "timeout"

Limit(r, kind) ==
  limited' = IF kind = "rate_limited" THEN [limited EXCEPT ![r] = @ \cup {model[r]}]
             ELSE limited

\* Attempts a failure before the first token may use up.
Ceiling(kind) ==
  CASE kind \in {"unavailable", "conflict", "timeout"} -> MaxAttempts
    [] kind = "unknown" -> MaxUnknown
    [] OTHER -> 0

MayRecover(r, kind) ==
  /\ kind = "unavailable"
  /\ ~recovered[r]
  /\ attempt[r] < MaxAttempts
  /\ RetryAllowed(r)

MayRetry(r, kind) == attempt[r] < Ceiling(kind) /\ RetryAllowed(r)

\* Mutant: the discarded attempt leaves no row.
RecoverUnrecorded(r) ==
  /\ Failing(r, "unavailable")
  /\ collected[r] # <<>>
  /\ MayRecover(r, "unavailable")
  /\ SpendToken
  /\ recovered' = [recovered EXCEPT ![r] = TRUE]
  /\ SwitchIfOpen(r)
  /\ shown' = [shown EXCEPT ![r] = <<>>]
  /\ retried' = [retried EXCEPT ![r] = TRUE]
  /\ Goto(r, "pausing")
  /\ UNCHANGED <<attempt, collected, first, elapsed, limited, refilled, calls, rows, ended>>

\* A server error after text, once: the partial answer is recorded and thrown
\* away, and "retry" tells the page to start over before the backoff.
Recover(r) ==
  /\ Failing(r, "unavailable")
  /\ collected[r] # <<>>
  /\ MayRecover(r, "unavailable")
  /\ SpendToken
  /\ recovered' = [recovered EXCEPT ![r] = TRUE]
  /\ SwitchIfOpen(r)
  /\ Record(r, "interrupted")
  /\ shown' = [shown EXCEPT ![r] = <<>>]
  /\ retried' = [retried EXCEPT ![r] = TRUE]
  /\ Goto(r, "pausing")
  /\ UNCHANGED <<attempt, collected, first, elapsed, limited, refilled, calls, ended>>

\* The backoff of a recovery ends.
Continue(r) ==
  /\ pc[r] = "pausing"
  /\ attempt' = [attempt EXCEPT ![r] = @ + 1]
  /\ Goto(r, "attempting")
  /\ UNCHANGED <<collected, recovered, first, elapsed, model, switched, limited,
                 sharedVars, eventVars>>

\* Any other failure after text keeps the partial answer.
Interrupt(r, kind) ==
  /\ Failing(r, kind)
  /\ collected[r] # <<>>
  /\ ~MayRecover(r, kind)
  /\ EndsAfter(r, "interrupted", "interrupted", collected[r])
  /\ Limit(r, kind)

\* Mutant: a retry is free.
RetryUnspent(r, kind) ==
  /\ Failing(r, kind)
  /\ collected[r] = <<>>
  /\ MayRetry(r, kind)
  /\ budget' = budget
  /\ IF kind = "conflict" THEN UNCHANGED <<model, switched>> ELSE SwitchIfOpen(r)
  /\ attempt' = [attempt EXCEPT ![r] = @ + 1]
  /\ Goto(r, "attempting")
  /\ UNCHANGED <<collected, recovered, first, elapsed, limited, refilled, calls,
                 rows, eventVars>>

\* A failure before the first token of its attempt is tried again.
Retry(r, kind) ==
  /\ Failing(r, kind)
  /\ collected[r] = <<>>
  /\ MayRetry(r, kind)
  /\ SpendToken
  /\ IF kind = "conflict" THEN UNCHANGED <<model, switched>> ELSE SwitchIfOpen(r)
  /\ attempt' = [attempt EXCEPT ![r] = @ + 1]
  /\ Goto(r, "attempting")
  /\ UNCHANGED <<collected, recovered, first, elapsed, limited, refilled, calls,
                 rows, eventVars>>

\* A 429 before text: one attempt on the other model, if that may be used.
RetryElsewhere(r) ==
  /\ Failing(r, "rate_limited")
  /\ collected[r] = <<>>
  /\ attempt[r] < MaxAttempts
  /\ RetryAllowed(r)
  /\ SpendToken
  /\ SwitchModel(r)
  /\ attempt' = [attempt EXCEPT ![r] = @ + 1]
  /\ Goto(r, "attempting")
  /\ Limit(r, "rate_limited")
  /\ UNCHANGED <<collected, recovered, first, elapsed, refilled, calls, rows, eventVars>>

\* No retry is left: a recorded error.  After a 429 the other model may always
\* turn out to be refused.
GiveUp(r, kind) ==
  /\ Failing(r, kind)
  /\ collected[r] = <<>>
  /\ ~MayRetry(r, kind)
  /\ EndsAfter(r, "error", "error", <<>>)
  /\ Limit(r, kind)

-----------------------------------------------------------------------------
(* The environment *)

\* Time passes: the provider works, the consumer is slow, or a backoff sleeps.
Wait(r) ==
  /\ pc[r] \in {"attempting", "streaming", "yielded", "pausing"}
  /\ elapsed[r] < MaxElapsed
  /\ elapsed' = [elapsed EXCEPT ![r] = @ + 1]
  /\ UNCHANGED <<pc, attempt, collected, recovered, first, model, switched,
                 limited, sharedVars, eventVars>>

\* The student leaves: the generator is closed at a chunk and records nothing.
Leave(r) ==
  /\ pc[r] \in {"yielded", "pausing"}
  /\ Goto(r, "left")
  /\ UNCHANGED <<attempt, collected, recovered, first, elapsed, model, switched,
                 limited, sharedVars, eventVars>>

\* The token bucket refills with time, never above its burst.
Refill ==
  /\ budget < Burst
  /\ refilled < MaxRefills
  /\ budget' = budget + 1
  /\ refilled' = refilled + 1
  /\ UNCHANGED <<engineVars, calls, rows, eventVars>>

Step(r) ==
  \/ Call(r) \/ DeadlineReached(r)
  \/ Resume(r) \/ ProviderFinishes(r)
  \/ Recover(r) \/ Continue(r) \/ RetryElsewhere(r)
  \/ \E kind \in Failures : Interrupt(r, kind) \/ Retry(r, kind) \/ GiveUp(r, kind)

Next ==
  \/ \E r \in Requests :
       Start(r) \/ BuildFails(r) \/ Text(r) \/ Step(r) \/ Wait(r) \/ Leave(r)
  \/ Refill

SafeSpec == Init /\ [][Next]_vars

\* Every provider call ends: its timeout raises if nothing else does; and the
\* generator's thread runs on.
Fairness == \A r \in Requests : WF_vars(Step(r))

Spec == SafeSpec /\ Fairness

-----------------------------------------------------------------------------
(* Properties *)

\* The events of stream_ai_response keep the promise to the page: one terminal
\* event, at most one retry, no text of a discarded attempt in the answer, no
\* error in place of visible text.
ImplementsContract == Contract!Spec

\* The load retries put on a struggling provider is bounded by the budget all
\* requests share: one call per request, and one per token ever in the bucket.
LoadBounded ==
  Cardinality(calls) <=
    Cardinality({r \in Requests : pc[r] # "idle"}) + Burst + refilled

\* A model that answered 429 is never asked again by the same request: after the
\* switch, failures of the other model, its open breaker and the recovery of a
\* partial answer may not lead back ("the same model is never retried").
LimitedModelLeftAlone ==
  \A r \in Requests : pc[r] = "streaming" => model[r] \notin limited[r]

\* A discarded or kept partial answer always leaves its own row, so provider
\* work the student saw is never lost from the usage table.
ShownWorkIsRecorded ==
  \A r \in Requests :
    (pc[r] \notin {"yielded", "streaming", "left"}) =>
      /\ retried[r] => \E a \in 1 .. MaxAttempts : <<r, a, "interrupted">> \in rows
      /\ shown[r] # <<>> => \E s \in {"success", "interrupted"} : <<r, attempt[r], s>> \in rows

\* Every answer that is started ends, or its student has left.
EveryStreamEnds ==
  \A r \in Requests : pc[r] # "idle" ~> pc[r] \in {"ended", "left"}
=============================================================================
