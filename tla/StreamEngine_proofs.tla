--------------------------- MODULE StreamEngine_proofs ---------------------------
(***************************************************************************)
(* The streamed answers, for any number of them, any ceilings, deadlines and  *)
(* budget: the event contract is kept, and the load of retries is bounded.    *)
(***************************************************************************)
EXTENDS StreamEngine, FiniteSetTheorems, TLAPS

\* How the text on display follows the place of the generator.
Display(r) ==
  /\ pc[r] # "ended" => ended[r] = Contract!Open
  /\ pc[r] \in {"streaming", "yielded"} => shown[r] = collected[r]
  /\ pc[r] \in {"idle", "attempting", "pausing"} => shown[r] = <<>>
  /\ retried[r] = recovered[r]
  /\ pc[r] = "pausing" => attempt[r] < MaxAttempts   \* for the types

Busy == {"attempting", "streaming", "yielded", "pausing"}

\* A request that goes on after a 429 has spent its switch of models.
Limits(r) ==
  /\ pc[r] = "idle" => limited[r] = {}
  /\ pc[r] \in Busy => model[r] \notin limited[r] /\ (limited[r] # {} => switched[r])

\* Rows of a discarded and of a final partial answer.
Rows(r) ==
  /\ retried[r] => \E a \in 1 .. MaxAttempts : <<r, a, "interrupted">> \in rows
  /\ (pc[r] = "ended" /\ shown[r] # <<>>) =>
        \E s \in {"success", "interrupted"} : <<r, attempt[r], s>> \in rows

RequestInv == \A r \in Requests : Display(r) /\ Limits(r) /\ Rows(r)

EngineInv == TypeOK /\ RequestInv

-----------------------------------------------------------------------------
(* Types *)

LEMMA OtherModel == \A m \in Models : Other(m) \in Models /\ Other(m) # m
BY DEF Models, Other

LEMMA EndTypes ==
  ASSUME TypeOK, NEW r \in Requests, NEW status \in {"success", "error", "interrupted"},
         NEW kind \in {"done", "interrupted", "error"}, NEW text \in Seq(Pieces),
         EndsAfter(r, status, kind, text), limited' \in [Requests -> SUBSET Models]
  PROVE  TypeOK'
<1>1. ended' \in [Requests -> [kind : {"none", "done", "interrupted", "error"}, text : Seq(Pieces)]]
  BY DEF TypeOK, EndsAfter, Terminal
<1>2. rows' \subseteq Requests \X (1 .. MaxAttempts) \X {"success", "error", "interrupted"}
  BY DEF TypeOK, EndsAfter, Record
<1>3. pc' \in [Requests -> {"idle", "attempting", "streaming", "yielded", "pausing", "ended", "left"}]
  BY DEF TypeOK, EndsAfter, Terminal, Goto
<1> QED
  BY <1>1, <1>2, <1>3 DEF TypeOK, EndsAfter, Terminal

\* A token and an attempt more.
LEMMA TokenTypes ==
  ASSUME TypeOK, NEW r \in Requests, RetryAllowed(r), attempt[r] < MaxAttempts
  PROVE  /\ budget - 1 \in 0 .. Burst
         /\ [attempt EXCEPT ![r] = @ + 1] \in [Requests -> 1 .. MaxAttempts]
<1>1. budget - 1 \in 0 .. Burst
  BY EngineAssumption DEF TypeOK, RetryAllowed
<1>2. attempt[r] + 1 \in 1 .. MaxAttempts
  BY EngineAssumption DEF TypeOK
<1> QED
  BY <1>1, <1>2 DEF TypeOK

LEMMA CeilingBound == \A kind \in Failures : Ceiling(kind) \in 0 .. MaxAttempts
BY EngineAssumption DEF Ceiling, Failures

LEMMA SwitchTypes ==
  ASSUME TypeOK, NEW r \in Requests, SwitchIfOpen(r)
  PROVE  model' \in [Requests -> Models] /\ switched' \in [Requests -> BOOLEAN]
<1>1. CASE SwitchModel(r)
  BY <1>1, OtherModel DEF SwitchModel, TypeOK
<1>2. CASE UNCHANGED <<model, switched>>
  BY <1>2 DEF TypeOK
<1> QED
  BY <1>1, <1>2 DEF SwitchIfOpen

LEMMA LimitTypes ==
  ASSUME TypeOK, NEW r \in Requests, NEW kind \in Failures, Limit(r, kind)
  PROVE  limited' \in [Requests -> SUBSET Models]
BY DEF TypeOK, Limit

\* A step keeps the types; that the attempts do not run out needs Display.
LEMMA StepKeepsTypes ==
  ASSUME TypeOK, \A r \in Requests : Display(r), [Next]_vars
  PROVE  TypeOK'
<1> USE EngineAssumption
<1>0. <<>> \in Seq(Pieces) /\ (\A r \in Requests : collected[r] \in Seq(Pieces) /\ attempt[r] \in Pieces)
  BY DEF TypeOK, Pieces
<1>1. ASSUME NEW r \in Requests, Start(r) PROVE TypeOK'
  BY <1>1 DEF TypeOK, Start, Goto, sharedVars, eventVars
<1>2. ASSUME NEW r \in Requests, BuildFails(r) PROVE TypeOK'
  BY <1>0, <1>2, EndTypes DEF TypeOK, BuildFails
<1>3. ASSUME NEW r \in Requests, Text(r) PROVE TypeOK'
  <2>1. Append(collected[r], attempt[r]) \in Seq(Pieces) /\ Append(shown[r], attempt[r]) \in Seq(Pieces)
    BY <1>0 DEF TypeOK
  <2> QED
    BY <1>3, <2>1 DEF TypeOK, Text, Goto, sharedVars
<1>4. ASSUME NEW r \in Requests, Call(r) PROVE TypeOK'
  <2>1. calls' \subseteq Requests \X (1 .. MaxAttempts)
    BY <1>4 DEF TypeOK, Call
  <2>2. collected' \in [Requests -> Seq(Pieces)]
    BY <1>0, <1>4 DEF TypeOK, Call
  <2>3. pc' \in [Requests -> {"idle", "attempting", "streaming", "yielded", "pausing", "ended", "left"}]
    BY <1>4 DEF TypeOK, Call, Goto
  <2> QED
    BY <1>4, <2>1, <2>2, <2>3 DEF TypeOK, Call, eventVars
<1>5. ASSUME NEW r \in Requests, DeadlineReached(r) PROVE TypeOK'
  BY <1>0, <1>5, EndTypes DEF TypeOK, DeadlineReached
<1>6. ASSUME NEW r \in Requests, Resume(r) PROVE TypeOK'
  BY <1>6 DEF TypeOK, Resume, Goto, sharedVars, eventVars
<1>7. ASSUME NEW r \in Requests, ProviderFinishes(r) PROVE TypeOK'
  BY <1>0, <1>7, EndTypes DEF TypeOK, ProviderFinishes
<1>8. ASSUME NEW r \in Requests, Recover(r) PROVE TypeOK'
  <2>1. budget' \in 0 .. Burst
    BY <1>8, TokenTypes DEF Recover, MayRecover, SpendToken
  <2>2. model' \in [Requests -> Models] /\ switched' \in [Requests -> BOOLEAN]
    BY <1>8, SwitchTypes DEF Recover
  <2>3. rows' \subseteq Requests \X (1 .. MaxAttempts) \X {"success", "error", "interrupted"}
    BY <1>8 DEF TypeOK, Recover, Record
  <2> QED
    BY <1>0, <1>8, <2>1, <2>2, <2>3 DEF TypeOK, Recover, Goto
<1>9. ASSUME NEW r \in Requests, Continue(r) PROVE TypeOK'
  <2>1. attempt[r] + 1 \in 1 .. MaxAttempts
    BY <1>9 DEF TypeOK, Continue, Display
  <2> QED
    BY <1>9, <2>1 DEF TypeOK, Continue, Goto, sharedVars, eventVars
<1>10. ASSUME NEW r \in Requests, RetryElsewhere(r) PROVE TypeOK'
  <2>1. budget' \in 0 .. Burst /\ attempt' \in [Requests -> 1 .. MaxAttempts]
    BY <1>10, TokenTypes DEF RetryElsewhere, SpendToken
  <2>2. model' \in [Requests -> Models] /\ switched' \in [Requests -> BOOLEAN]
    BY <1>10, SwitchTypes DEF RetryElsewhere, SwitchIfOpen
  <2>3. limited' \in [Requests -> SUBSET Models]
    BY <1>10, LimitTypes DEF RetryElsewhere, Failures
  <2> QED
    BY <1>10, <2>1, <2>2, <2>3 DEF TypeOK, RetryElsewhere, Goto, eventVars
<1>11. ASSUME NEW r \in Requests, NEW kind \in Failures, Interrupt(r, kind) PROVE TypeOK'
  BY <1>0, <1>11, EndTypes, LimitTypes DEF Interrupt
<1>12. ASSUME NEW r \in Requests, NEW kind \in Failures, Retry(r, kind) PROVE TypeOK'
  <2>1. attempt[r] < MaxAttempts
    BY <1>12, CeilingBound DEF TypeOK, Retry, MayRetry
  <2>2. budget' \in 0 .. Burst /\ attempt' \in [Requests -> 1 .. MaxAttempts]
    BY <1>12, <2>1, TokenTypes DEF Retry, MayRetry, SpendToken
  <2>3. model' \in [Requests -> Models] /\ switched' \in [Requests -> BOOLEAN]
    BY <1>12, SwitchTypes DEF TypeOK, Retry
  <2> QED
    BY <1>12, <2>2, <2>3 DEF TypeOK, Retry, Goto, eventVars
<1>13. ASSUME NEW r \in Requests, NEW kind \in Failures, GiveUp(r, kind) PROVE TypeOK'
  BY <1>0, <1>13, EndTypes, LimitTypes DEF GiveUp
<1>14. ASSUME NEW r \in Requests, Wait(r) PROVE TypeOK'
  BY <1>14 DEF TypeOK, Wait, sharedVars, eventVars
<1>15. ASSUME NEW r \in Requests, Leave(r) PROVE TypeOK'
  BY <1>15 DEF TypeOK, Leave, Goto, sharedVars, eventVars
<1>16. ASSUME Refill PROVE TypeOK'
  <2>1. budget' \in 0 .. Burst /\ refilled' \in Nat
    BY <1>16 DEF TypeOK, Refill
  <2>2. UNCHANGED <<engineVars, calls, rows, eventVars>>
    BY <1>16 DEF Refill
  <2> QED
    BY <2>1, <2>2 DEF TypeOK, engineVars, eventVars
<1>17. CASE UNCHANGED vars
  BY <1>17 DEF TypeOK, vars, engineVars, sharedVars, eventVars
<1> QED
  BY <1>1, <1>2, <1>3, <1>4, <1>5, <1>6, <1>7, <1>8, <1>9, <1>10, <1>11, <1>12, <1>13,
     <1>14, <1>15, <1>16, <1>17 DEF Next, Step

-----------------------------------------------------------------------------
(* The invariant *)

\* What a step of another request leaves of request q.
Same(q) ==
  /\ pc'[q] = pc[q]
  /\ attempt'[q] = attempt[q]
  /\ collected'[q] = collected[q]
  /\ recovered'[q] = recovered[q]
  /\ model'[q] = model[q]
  /\ switched'[q] = switched[q]
  /\ limited'[q] = limited[q]
  /\ shown'[q] = shown[q]
  /\ retried'[q] = retried[q]
  /\ ended'[q] = ended[q]

LEMMA SameKeeps ==
  ASSUME NEW q \in Requests, Same(q), rows \subseteq rows',
         Display(q), Limits(q), Rows(q)
  PROVE  Display(q)' /\ Limits(q)' /\ Rows(q)'
<1>1. Display(q)'
  BY DEF Same, Display
<1>2. Limits(q)'
  BY DEF Same, Limits
<1>3. Rows(q)'
  BY DEF Same, Rows
<1> QED
  BY <1>1, <1>2, <1>3

\* A step of one request is examined at that request alone.
LEMMA StepOfOne ==
  ASSUME RequestInv, NEW r \in Requests, rows \subseteq rows',
         \A q \in Requests \ {r} : Same(q),
         Display(r)', Limits(r)', Rows(r)'
  PROVE  RequestInv'
BY SameKeeps DEF RequestInv

\* Every way to end keeps the text on display and records it.
LEMMA EndKeeps ==
  ASSUME TypeOK, RequestInv, NEW r \in Requests,
         NEW status \in {"success", "error", "interrupted"},
         NEW kind \in {"done", "interrupted", "error"}, NEW text,
         EndsAfter(r, status, kind, text),
         shown[r] # <<>> => status # "error",
         limited' \in [Requests -> SUBSET Models],
         \A q \in Requests \ {r} : limited'[q] = limited[q]
  PROVE  RequestInv'
<1>1. pc'[r] = "ended" /\ pc' = [pc EXCEPT ![r] = "ended"]
  BY DEF TypeOK, EndsAfter, Terminal, Goto
<1>2. rows \subseteq rows' /\ <<r, attempt[r], status>> \in rows'
  BY DEF EndsAfter, Record
<1>3. \A q \in Requests \ {r} : Same(q)
  BY <1>1 DEF TypeOK, EndsAfter, Terminal, Same
<1>4. Display(r)'
  BY <1>1 DEF RequestInv, Display, EndsAfter, Terminal
<1>5. Limits(r)'
  BY <1>1 DEF Limits, Busy
<1>6. Rows(r)'
  <2>1. attempt' = attempt /\ shown' = shown /\ retried' = retried
    BY DEF EndsAfter, Terminal
  <2>2. Rows(r)
    BY DEF RequestInv
  <2> QED
    BY <1>2, <2>1, <2>2 DEF Rows
<1> QED
  BY <1>2, <1>3, <1>4, <1>5, <1>6, StepOfOne

\* A failed attempt of the handler that shows no text has none on display.
LEMMA FailingDisplay ==
  ASSUME RequestInv, NEW r \in Requests, NEW kind, Failing(r, kind)
  PROVE  /\ pc[r] \in {"streaming", "yielded"}
         /\ shown[r] = collected[r]
         /\ ended[r] = Contract!Open
         /\ model[r] \notin limited[r]
         /\ limited[r] # {} => switched[r]
BY DEF RequestInv, Failing, Display, Limits, Busy

LEMMA SwitchKeepsLimits ==
  ASSUME TypeOK, NEW r \in Requests, SwitchIfOpen(r),
         model[r] \notin limited[r], limited[r] # {} => switched[r]
  PROVE  /\ model'[r] \notin limited[r]
         /\ limited[r] # {} => switched'[r]
         /\ \A q \in Requests \ {r} : model'[q] = model[q] /\ switched'[q] = switched[q]
<1>1. CASE SwitchModel(r)
  <2>1. limited[r] = {}
    BY <1>1 DEF SwitchModel, MaySwitch
  <2> QED
    BY <1>1, <2>1 DEF TypeOK, SwitchModel
<1>2. CASE UNCHANGED <<model, switched>>
  BY <1>2
<1> QED
  BY <1>1, <1>2 DEF SwitchIfOpen

\* An attempt more for a request that showed nothing.
LEMMA NextAttemptKeeps ==
  ASSUME TypeOK, RequestInv, NEW r \in Requests, NEW kind, Failing(r, kind),
         collected[r] = <<>>, Goto(r, "attempting"),
         attempt' = [attempt EXCEPT ![r] = @ + 1],
         model'[r] \notin limited'[r], limited'[r] # {} => switched'[r],
         \A q \in Requests \ {r} :
           model'[q] = model[q] /\ switched'[q] = switched[q] /\ limited'[q] = limited[q],
         UNCHANGED <<collected, recovered, rows, eventVars>>
  PROVE  RequestInv'
<1>1. pc'[r] = "attempting"
  BY DEF TypeOK, Goto
<1>2. \A q \in Requests \ {r} : Same(q)
  BY DEF TypeOK, Goto, Same, eventVars
<1>3. Display(r)'
  BY <1>1, FailingDisplay DEF RequestInv, Display, eventVars
<1>4. Limits(r)'
  BY <1>1 DEF Limits, Busy
<1>5. Rows(r)'
  BY <1>1 DEF RequestInv, Rows, eventVars
<1> QED
  BY <1>2, <1>3, <1>4, <1>5, StepOfOne

LEMMA LimitOne ==
  ASSUME TypeOK, NEW r \in Requests, NEW kind \in Failures, Limit(r, kind)
  PROVE  /\ \A q \in Requests \ {r} : limited'[q] = limited[q]
         /\ limited'[r] = IF kind = "rate_limited" THEN limited[r] \cup {model[r]} ELSE limited[r]
BY DEF TypeOK, Limit

LEMMA StepKeepsRequest ==
  ASSUME TypeOK, RequestInv, [Next]_vars
  PROVE  RequestInv'
<1>0. TypeOK'
  BY StepKeepsTypes DEF RequestInv
<1>1. ASSUME NEW r \in Requests, Start(r) PROVE RequestInv'
  <2>1. pc'[r] = "attempting"
    BY <1>1 DEF TypeOK, Start, Goto
  <2>2. \A q \in Requests \ {r} : Same(q)
    BY <1>1 DEF TypeOK, Start, Goto, Same, sharedVars, eventVars
  <2>3. Display(r)' /\ Limits(r)' /\ Rows(r)'
    BY <1>1, <2>1 DEF RequestInv, Start, Display, Limits, Rows, Busy, sharedVars, eventVars
  <2> QED
    BY <1>1, <2>2, <2>3, StepOfOne DEF Start, sharedVars
<1>2. ASSUME NEW r \in Requests, BuildFails(r) PROVE RequestInv'
  <2>1. shown[r] = <<>>
    BY <1>2 DEF RequestInv, BuildFails, Display
  <2> QED
    BY <1>0, <1>2, <2>1, EndKeeps DEF TypeOK, BuildFails
<1>3. ASSUME NEW r \in Requests, Text(r) PROVE RequestInv'
  <2>1. pc'[r] = "yielded"
    BY <1>3 DEF TypeOK, Text, Goto
  <2>2. \A q \in Requests \ {r} : Same(q)
    BY <1>3 DEF TypeOK, Text, Goto, Same, sharedVars
  <2>3. shown'[r] = collected'[r]
    BY <1>3 DEF TypeOK, RequestInv, Text, Display
  <2>4. Display(r)' /\ Limits(r)' /\ Rows(r)'
    BY <1>3, <2>1, <2>3 DEF RequestInv, Text, Display, Limits, Rows, Busy, sharedVars
  <2> QED
    BY <1>3, <2>2, <2>4, StepOfOne DEF Text, sharedVars
<1>4. ASSUME NEW r \in Requests, Call(r) PROVE RequestInv'
  <2>1. pc'[r] = "streaming" /\ collected'[r] = <<>>
    BY <1>4 DEF TypeOK, Call, Goto
  <2>2. \A q \in Requests \ {r} : Same(q)
    BY <1>4 DEF TypeOK, Call, Goto, Same, eventVars
  <2>3. Display(r)' /\ Limits(r)' /\ Rows(r)'
    BY <1>4, <2>1 DEF RequestInv, Call, Display, Limits, Rows, Busy, eventVars
  <2> QED
    BY <1>4, <2>2, <2>3, StepOfOne DEF Call
<1>5. ASSUME NEW r \in Requests, DeadlineReached(r) PROVE RequestInv'
  <2>1. shown[r] = <<>>
    BY <1>5 DEF RequestInv, DeadlineReached, Display
  <2> QED
    BY <1>0, <1>5, <2>1, EndKeeps DEF TypeOK, DeadlineReached
<1>6. ASSUME NEW r \in Requests, Resume(r) PROVE RequestInv'
  <2>1. pc'[r] = "streaming"
    BY <1>6 DEF TypeOK, Resume, Goto
  <2>2. \A q \in Requests \ {r} : Same(q)
    BY <1>6 DEF TypeOK, Resume, Goto, Same, sharedVars, eventVars
  <2>3. Display(r)' /\ Limits(r)' /\ Rows(r)'
    BY <1>6, <2>1 DEF RequestInv, Resume, Display, Limits, Rows, Busy, sharedVars, eventVars
  <2> QED
    BY <1>6, <2>2, <2>3, StepOfOne DEF Resume, sharedVars
<1>7. ASSUME NEW r \in Requests, ProviderFinishes(r) PROVE RequestInv'
  <2>1. shown[r] = collected[r]
    BY <1>7 DEF RequestInv, ProviderFinishes, Display
  <2>2. limited' = limited
    BY <1>7 DEF ProviderFinishes
  <2>3. CASE collected[r] = <<>> /\ EndsAfter(r, "error", "error", <<>>)
    BY <1>0, <2>1, <2>2, <2>3, EndKeeps DEF TypeOK
  <2>4. CASE EndsAfter(r, "success", "done", collected[r])
    BY <1>0, <2>2, <2>4, EndKeeps DEF TypeOK
  <2>5. CASE EndsAfter(r, "interrupted", "interrupted", collected[r])
    BY <1>0, <2>2, <2>5, EndKeeps DEF TypeOK
  <2> QED
    BY <1>7, <2>3, <2>4, <2>5 DEF ProviderFinishes
<1>8. ASSUME NEW r \in Requests, Recover(r) PROVE RequestInv'
  <2>0. Failing(r, "unavailable")
    BY <1>8 DEF Recover
  <2>1. /\ pc'[r] = "pausing" /\ shown'[r] = <<>> /\ retried'[r] = TRUE /\ recovered'[r] = TRUE
        /\ attempt[r] < MaxAttempts
    BY <1>8 DEF TypeOK, Recover, Goto, MayRecover
  <2>2. \A q \in Requests \ {r} : Same(q)
    BY <1>8, <2>0, FailingDisplay, SwitchKeepsLimits DEF TypeOK, Recover, Goto, Same
  <2>3. <<r, attempt[r], "interrupted">> \in rows' /\ rows \subseteq rows'
    BY <1>8 DEF Recover, Record
  <2>4. Display(r)'
    BY <1>8, <2>0, <2>1, FailingDisplay DEF Recover, Display
  <2>5. Limits(r)'
    BY <1>8, <2>0, <2>1, FailingDisplay, SwitchKeepsLimits DEF Recover, Limits, Busy
  <2>6. Rows(r)'
    BY <2>1, <2>3 DEF TypeOK, Rows
  <2> QED
    BY <2>2, <2>3, <2>4, <2>5, <2>6, StepOfOne
<1>9. ASSUME NEW r \in Requests, Continue(r) PROVE RequestInv'
  <2>1. pc'[r] = "attempting"
    BY <1>9 DEF TypeOK, Continue, Goto
  <2>2. \A q \in Requests \ {r} : Same(q)
    BY <1>9 DEF TypeOK, Continue, Goto, Same, sharedVars, eventVars
  <2>3. Display(r)' /\ Limits(r)' /\ Rows(r)'
    BY <1>9, <2>1 DEF RequestInv, Continue, Display, Limits, Rows, Busy, sharedVars, eventVars
  <2> QED
    BY <1>9, <2>2, <2>3, StepOfOne DEF Continue, sharedVars
<1>10. ASSUME NEW r \in Requests, RetryElsewhere(r) PROVE RequestInv'
  <2>0. Failing(r, "rate_limited") /\ SwitchModel(r) /\ Limit(r, "rate_limited")
    BY <1>10 DEF RetryElsewhere
  <2>1. limited[r] = {} /\ model'[r] = Other(model[r]) /\ switched'[r] = TRUE
    BY <2>0, FailingDisplay DEF TypeOK, SwitchModel, MaySwitch
  <2>2. limited'[r] = {model[r]} /\ \A q \in Requests \ {r} : limited'[q] = limited[q]
    BY <2>0, <2>1, LimitOne DEF Failures
  <2>3. model'[r] \notin limited'[r] /\ switched'[r]
    BY <2>1, <2>2, OtherModel DEF TypeOK
  <2>4. \A q \in Requests \ {r} : model'[q] = model[q] /\ switched'[q] = switched[q]
    BY <2>0 DEF TypeOK, SwitchModel
  <2> QED
    BY <1>10, <2>0, <2>2, <2>3, <2>4, NextAttemptKeeps DEF RetryElsewhere
<1>11. ASSUME NEW r \in Requests, NEW kind \in Failures, Interrupt(r, kind) PROVE RequestInv'
  BY <1>0, <1>11, EndKeeps, LimitOne DEF TypeOK, Interrupt
<1>12. ASSUME NEW r \in Requests, NEW kind \in Failures, Retry(r, kind) PROVE RequestInv'
  <2>1. Failing(r, kind) /\ limited' = limited
    BY <1>12 DEF Retry
  <2>2. CASE kind = "conflict"
    BY <1>12, <2>1, <2>2, FailingDisplay, NextAttemptKeeps DEF Retry
  <2>3. CASE kind # "conflict"
    BY <1>12, <2>1, <2>3, FailingDisplay, SwitchKeepsLimits, NextAttemptKeeps DEF Retry
  <2> QED
    BY <2>2, <2>3
<1>13. ASSUME NEW r \in Requests, NEW kind \in Failures, GiveUp(r, kind) PROVE RequestInv'
  <2>1. shown[r] = <<>>
    BY <1>13, FailingDisplay DEF GiveUp
  <2> QED
    BY <1>0, <1>13, <2>1, EndKeeps, LimitOne DEF TypeOK, GiveUp
<1>14. ASSUME NEW r \in Requests, Wait(r) PROVE RequestInv'
  BY <1>14 DEF Wait, RequestInv, Display, Limits, Rows, sharedVars, eventVars
<1>15. ASSUME NEW r \in Requests, Leave(r) PROVE RequestInv'
  <2>1. pc'[r] = "left" /\ pc[r] \in {"yielded", "pausing"}
    BY <1>15 DEF TypeOK, Leave, Goto
  <2>2. \A q \in Requests \ {r} : Same(q)
    BY <1>15 DEF TypeOK, Leave, Goto, Same, sharedVars, eventVars
  <2>3. Display(r)' /\ Limits(r)' /\ Rows(r)'
    BY <1>15, <2>1 DEF RequestInv, Leave, Display, Limits, Rows, Busy, sharedVars, eventVars
  <2> QED
    BY <1>15, <2>2, <2>3, StepOfOne DEF Leave, sharedVars
<1>16. ASSUME Refill PROVE RequestInv'
  BY <1>16 DEF RequestInv, Display, Limits, Rows, Refill, engineVars, eventVars
<1>17. CASE UNCHANGED vars
  BY <1>17 DEF RequestInv, Display, Limits, Rows, vars, engineVars, sharedVars, eventVars
<1> QED
  BY <1>1, <1>2, <1>3, <1>4, <1>5, <1>6, <1>7, <1>8, <1>9, <1>10, <1>11, <1>12, <1>13,
     <1>14, <1>15, <1>16, <1>17 DEF Next, Step

LEMMA InitHolds == Init => EngineInv
<1> SUFFICES ASSUME Init PROVE EngineInv
  OBVIOUS
<1>1. TypeOK
  BY EngineAssumption DEF Init, TypeOK, Contract!Init, Contract!Open, Models
<1>2. RequestInv
  BY DEF Init, RequestInv, Display, Limits, Rows, Busy, Contract!Init
<1> QED
  BY <1>1, <1>2 DEF EngineInv

LEMMA InvHolds == SafeSpec => []EngineInv
<1>1. EngineInv /\ [Next]_vars => EngineInv'
  BY StepKeepsTypes, StepKeepsRequest DEF EngineInv, RequestInv
<1> QED
  BY InitHolds, <1>1, PTL DEF SafeSpec

-----------------------------------------------------------------------------
(* Theorems *)

\* Every variable of every stream keeps its type, whatever the provider does.
THEOREM TypesCorrect == Spec => []TypeOK
BY InvHolds, PTL DEF Spec, EngineInv

\* A model that answered 429 is not asked again by the same request: the switch
\* that followed the 429 was its only one.
THEOREM LimitedModelsRest == Spec => []LimitedModelLeftAlone
<1>1. EngineInv => LimitedModelLeftAlone
  BY DEF EngineInv, RequestInv, Limits, Busy, LimitedModelLeftAlone
<1> QED
  BY InvHolds, <1>1, PTL DEF Spec

\* Partial answers leave their rows.
THEOREM PartialsRecorded == Spec => []ShownWorkIsRecorded
<1>1. EngineInv => ShownWorkIsRecorded
  BY DEF EngineInv, TypeOK, RequestInv, Display, Rows, ShownWorkIsRecorded
<1> QED
  BY InvHolds, <1>1, PTL DEF Spec

-----------------------------------------------------------------------------
(* The engine implements the contract of its events *)

LEMMA EndImplements ==
  ASSUME NEW r \in Requests, NEW status,
         NEW kind \in {"done", "interrupted", "error"},
         EndsAfter(r, status, kind, shown[r]), ended[r] = Contract!Open,
         kind = "error" <=> shown[r] = <<>>
  PROVE  Contract!Next
BY DEF EndsAfter, Terminal, Contract!Next, Contract!End

LEMMA StepImplements ==
  ASSUME EngineInv, [Next]_vars
  PROVE  [Contract!Next]_Contract!contractVars
<1>0. TypeOK /\ RequestInv
  BY DEF EngineInv
<1> USE DEF Contract!contractVars
<1>1. ASSUME NEW r \in Requests, Start(r) PROVE UNCHANGED Contract!contractVars
  BY <1>1 DEF Start, eventVars
<1>2. ASSUME NEW r \in Requests, BuildFails(r) PROVE Contract!Next
  BY <1>0, <1>2, EndImplements DEF RequestInv, Display, BuildFails
<1>3. ASSUME NEW r \in Requests, Text(r) PROVE Contract!Next
  <2>1. attempt[r] \in Pieces
    BY <1>0 DEF TypeOK, Pieces
  <2>2. Contract!Show(r, attempt[r])
    BY <1>0, <1>3 DEF RequestInv, Display, Text, Contract!Show
  <2> QED
    BY <2>1, <2>2 DEF Contract!Next
<1>4. ASSUME NEW r \in Requests, Call(r) PROVE UNCHANGED Contract!contractVars
  BY <1>4 DEF Call, eventVars
<1>5. ASSUME NEW r \in Requests, DeadlineReached(r) PROVE Contract!Next
  BY <1>0, <1>5, EndImplements DEF RequestInv, Display, DeadlineReached
<1>6. ASSUME NEW r \in Requests, Resume(r) PROVE UNCHANGED Contract!contractVars
  BY <1>6 DEF Resume, eventVars
<1>7. ASSUME NEW r \in Requests, ProviderFinishes(r) PROVE Contract!Next
  <2>1. shown[r] = collected[r] /\ ended[r] = Contract!Open
    BY <1>0, <1>7 DEF RequestInv, Display, ProviderFinishes
  <2>2. CASE collected[r] = <<>> /\ EndsAfter(r, "error", "error", <<>>)
    BY <2>1, <2>2, EndImplements
  <2>3. CASE collected[r] # <<>> /\ EndsAfter(r, "success", "done", collected[r])
    BY <2>1, <2>3, EndImplements
  <2>4. CASE collected[r] # <<>> /\ EndsAfter(r, "interrupted", "interrupted", collected[r])
    BY <2>1, <2>4, EndImplements
  <2> QED
    BY <1>7, <2>2, <2>3, <2>4 DEF ProviderFinishes
<1>8. ASSUME NEW r \in Requests, Recover(r) PROVE Contract!Next
  <2>1. shown[r] = collected[r] /\ ended[r] = Contract!Open
    BY <1>0, <1>8, FailingDisplay DEF Recover
  <2>2. ~retried[r]
    BY <1>0, <1>8 DEF RequestInv, Display, Recover, MayRecover
  <2>3. Contract!StartOver(r)
    BY <1>8, <2>1, <2>2 DEF Recover, Contract!StartOver
  <2> QED
    BY <2>3 DEF Contract!Next
<1>9. ASSUME NEW r \in Requests, Continue(r) PROVE UNCHANGED Contract!contractVars
  BY <1>9 DEF Continue, eventVars
<1>10. ASSUME NEW r \in Requests, RetryElsewhere(r) PROVE UNCHANGED Contract!contractVars
  BY <1>10 DEF RetryElsewhere, eventVars
<1>11. ASSUME NEW r \in Requests, NEW kind \in Failures, Interrupt(r, kind) PROVE Contract!Next
  <2>1. shown[r] = collected[r] /\ ended[r] = Contract!Open
    BY <1>0, <1>11, FailingDisplay DEF Interrupt
  <2> QED
    BY <1>11, <2>1, EndImplements DEF Interrupt
<1>12. ASSUME NEW r \in Requests, NEW kind \in Failures, Retry(r, kind)
       PROVE  UNCHANGED Contract!contractVars
  BY <1>12 DEF Retry, eventVars
<1>13. ASSUME NEW r \in Requests, NEW kind \in Failures, GiveUp(r, kind) PROVE Contract!Next
  <2>1. shown[r] = <<>> /\ ended[r] = Contract!Open
    BY <1>0, <1>13, FailingDisplay DEF GiveUp
  <2> QED
    BY <1>13, <2>1, EndImplements DEF GiveUp
<1>14. ASSUME NEW r \in Requests, Wait(r) \/ Leave(r) PROVE UNCHANGED Contract!contractVars
  BY <1>14 DEF Wait, Leave, eventVars
<1>15. CASE Refill \/ UNCHANGED vars
  BY <1>15 DEF Refill, vars, eventVars
<1> QED
  BY <1>1, <1>2, <1>3, <1>4, <1>5, <1>6, <1>7, <1>8, <1>9, <1>10, <1>11, <1>12, <1>13,
     <1>14, <1>15 DEF Next, Step

\* Every behaviour of the engine is one the page was promised: one terminal event
\* with exactly the text on display, at most one "retry", no error over text.
THEOREM EventsKeepContract == Spec => ImplementsContract
<1>1. Init => Contract!Init
  BY DEF Init
<1>2. EngineInv /\ [Next]_vars => [Contract!Next]_Contract!contractVars
  BY StepImplements
<1> QED
  BY InvHolds, <1>1, <1>2, PTL DEF Spec, SafeSpec, ImplementsContract, Contract!Spec

-----------------------------------------------------------------------------
(* The load of retries *)

Started == {r \in Requests : pc[r] # "idle"}

\* Provider calls made, and those the loop is already bound to make: a retry is
\* owed from the moment its token is spent.
Owed ==
  calls \cup {<<r, attempt[r]>> : r \in {q \in Requests : pc[q] = "attempting"}}
        \cup {<<r, attempt[r] + 1>> : r \in {q \in Requests : pc[q] = "pausing"}}

LoadInv ==
  /\ IsFiniteSet(Owed)
  /\ IsFiniteSet(Started)
  /\ Cardinality(Owed) + budget <= Cardinality(Started) + Burst + refilled

\* Nothing new is owed.
LEMMA OwesNoMore ==
  ASSUME TypeOK, LoadInv, Owed' \subseteq Owed, Started' = Started,
         UNCHANGED <<budget, refilled>>
  PROVE  LoadInv'
<1>1. IsFiniteSet(Owed') /\ Cardinality(Owed') <= Cardinality(Owed)
  BY FS_Subset DEF LoadInv
<1>2. Cardinality(Owed') \in Nat /\ Cardinality(Owed) \in Nat /\ Cardinality(Started) \in Nat
  BY <1>1, FS_CardinalityType DEF LoadInv
<1> HIDE DEF Owed, Started
<1> QED
  BY <1>1, <1>2, EngineAssumption DEF TypeOK, LoadInv

\* One call more is owed.
LEMMA OwesOneMore ==
  ASSUME TypeOK, LoadInv, NEW x, Owed' \subseteq Owed \cup {x}
  PROVE  /\ IsFiniteSet(Owed') /\ Cardinality(Owed') \in Nat
         /\ Cardinality(Owed) \in Nat
         /\ Cardinality(Owed') <= Cardinality(Owed) + 1
<1> DEFINE S == Owed \cup {x}
<1>0. IsFiniteSet(Owed) /\ Cardinality(Owed) \in Nat
  BY FS_CardinalityType DEF LoadInv
<1>1. IsFiniteSet(S) /\ Cardinality(S) <= Cardinality(Owed) + 1 /\ Cardinality(Owed) \in Nat
  <2> HIDE DEF Owed
  <2>1. /\ IsFiniteSet(S)
        /\ Cardinality(S) = IF x \in Owed THEN Cardinality(Owed) ELSE Cardinality(Owed) + 1
    BY <1>0, FS_AddElement
  <2> QED
    BY <1>0, <2>1
<1>2. IsFiniteSet(Owed') /\ Cardinality(Owed') <= Cardinality(S)
  BY <1>1, FS_Subset
<1>3. Cardinality(Owed') \in Nat /\ Cardinality(S) \in Nat
  BY <1>1, <1>2, FS_CardinalityType
<1> HIDE DEF S, Owed
<1> QED
  BY <1>1, <1>2, <1>3

\* A token pays for it.
LEMMA TokenPays ==
  ASSUME TypeOK, LoadInv, NEW x, Owed' \subseteq Owed \cup {x}, Started' = Started,
         SpendToken, refilled' = refilled
  PROVE  LoadInv'
<1>1. /\ IsFiniteSet(Owed') /\ Cardinality(Owed') \in Nat /\ Cardinality(Owed) \in Nat
      /\ Cardinality(Owed') <= Cardinality(Owed) + 1
  BY OwesOneMore
<1>2. Cardinality(Started) \in Nat
  BY FS_CardinalityType DEF LoadInv
<1> HIDE DEF Owed, Started
<1> QED
  BY <1>1, <1>2, EngineAssumption DEF TypeOK, LoadInv, SpendToken

\* The first call of a request is paid for by its start.
LEMMA StartPays ==
  ASSUME TypeOK, LoadInv, NEW r \in Requests, pc[r] = "idle", NEW x,
         Owed' \subseteq Owed \cup {x}, Started' = Started \cup {r},
         UNCHANGED <<budget, refilled>>
  PROVE  LoadInv'
<1>1. /\ IsFiniteSet(Owed') /\ Cardinality(Owed') \in Nat /\ Cardinality(Owed) \in Nat
      /\ Cardinality(Owed') <= Cardinality(Owed) + 1
  BY OwesOneMore
<1>2. r \notin Started /\ IsFiniteSet(Started)
  BY DEF Started, LoadInv
<1>3. IsFiniteSet(Started') /\ Cardinality(Started') = Cardinality(Started) + 1
  BY <1>2, FS_AddElement
<1>4. Cardinality(Started) \in Nat
  BY <1>2, FS_CardinalityType
<1>5. budget \in Nat /\ refilled \in Nat /\ Burst \in Nat /\ budget' = budget /\ refilled' = refilled
  BY EngineAssumption DEF TypeOK
<1>6. Cardinality(Owed) + budget <= Cardinality(Started) + Burst + refilled
  BY DEF LoadInv
<1> HIDE DEF Owed, Started
<1>7. Cardinality(Owed') + budget' <= Cardinality(Started') + Burst + refilled'
  BY <1>1, <1>3, <1>4, <1>5, <1>6
<1> QED
  BY <1>1, <1>3, <1>7 DEF LoadInv

\* A step that leaves the "attempting" and "pausing" requests as they were, but
\* for one that may leave them, owes nothing new.
LEMMA LeavesOwed ==
  ASSUME TypeOK, NEW r \in Requests, NEW place, place \notin {"attempting", "pausing"},
         Goto(r, place), calls' \subseteq Owed, attempt' = attempt
  PROVE  Owed' \subseteq Owed
BY DEF TypeOK, Goto, Owed

LEMMA GoesOn ==
  ASSUME TypeOK, NEW r \in Requests, pc[r] # "idle", NEW place, place # "idle", Goto(r, place)
  PROVE  Started' = Started
BY DEF TypeOK, Goto, Started

LEMMA EndOwes ==
  ASSUME TypeOK, LoadInv, NEW r \in Requests, pc[r] # "idle",
         NEW status, NEW kind, NEW text, EndsAfter(r, status, kind, text)
  PROVE  LoadInv'
<1>1. Goto(r, "ended") /\ UNCHANGED <<attempt, calls, budget, refilled>>
  BY DEF EndsAfter, Terminal
<1>2. Owed' \subseteq Owed
  BY <1>1, LeavesOwed DEF Owed
<1>3. Started' = Started
  BY <1>1, GoesOn
<1> QED
  BY <1>1, <1>2, <1>3, OwesNoMore

LEMMA RetryOwes ==
  ASSUME TypeOK, LoadInv, NEW r \in Requests, pc[r] # "idle",
         Goto(r, "attempting"), attempt' = [attempt EXCEPT ![r] = @ + 1],
         SpendToken, UNCHANGED <<calls, refilled>>
  PROVE  LoadInv'
<1>1. Owed' \subseteq Owed \cup {<<r, attempt[r] + 1>>}
  BY DEF TypeOK, Goto, Owed
<1>2. Started' = Started
  BY GoesOn
<1> QED
  BY <1>1, <1>2, TokenPays

LEMMA StepKeepsLoad ==
  ASSUME TypeOK, LoadInv, [Next]_vars
  PROVE  LoadInv'
<1>1. ASSUME NEW r \in Requests, Start(r) PROVE LoadInv'
  <2>1. Owed' \subseteq Owed \cup {<<r, attempt[r]>>} /\ Started' = Started \cup {r}
    BY <1>1 DEF TypeOK, Start, Goto, Owed, Started, sharedVars
  <2> QED
    BY <1>1, <2>1, StartPays DEF Start, sharedVars
<1>2. ASSUME NEW r \in Requests, BuildFails(r) PROVE LoadInv'
  <2>1. /\ pc[r] = "idle" /\ Goto(r, "ended")
        /\ UNCHANGED <<attempt, calls, budget, refilled>>
    BY <1>2 DEF BuildFails, EndsAfter, Terminal
  <2>2. Owed' \subseteq Owed
    BY <2>1, LeavesOwed DEF Owed
  <2>3. Started' = Started \cup {r}
    BY <2>1 DEF TypeOK, Goto, Started
  <2> QED
    BY <2>1, <2>2, <2>3, StartPays
<1>3. ASSUME NEW r \in Requests, Text(r) PROVE LoadInv'
  <2>1. /\ pc[r] = "streaming" /\ Goto(r, "yielded")
        /\ UNCHANGED <<attempt, calls, budget, refilled>>
    BY <1>3 DEF Text, sharedVars
  <2> QED
    BY <2>1, LeavesOwed, GoesOn, OwesNoMore DEF Owed
<1>4. ASSUME NEW r \in Requests, Call(r) PROVE LoadInv'
  <2>1. /\ pc[r] = "attempting" /\ Goto(r, "streaming")
        /\ calls' = calls \cup {<<r, attempt[r]>>}
        /\ UNCHANGED <<attempt, budget, refilled>>
    BY <1>4 DEF Call
  <2>2. calls' \subseteq Owed
    BY <2>1 DEF Owed
  <2> QED
    BY <2>1, <2>2, LeavesOwed, GoesOn, OwesNoMore
<1>5. ASSUME NEW r \in Requests, DeadlineReached(r) PROVE LoadInv'
  BY <1>5, EndOwes DEF DeadlineReached
<1>6. ASSUME NEW r \in Requests, Resume(r) PROVE LoadInv'
  <2>1. /\ pc[r] = "yielded" /\ Goto(r, "streaming")
        /\ UNCHANGED <<attempt, calls, budget, refilled>>
    BY <1>6 DEF Resume, sharedVars
  <2> QED
    BY <2>1, LeavesOwed, GoesOn, OwesNoMore DEF Owed
<1>7. ASSUME NEW r \in Requests, ProviderFinishes(r) PROVE LoadInv'
  BY <1>7, EndOwes DEF ProviderFinishes
<1>8. ASSUME NEW r \in Requests, Recover(r) PROVE LoadInv'
  <2>1. /\ pc[r] \in {"streaming", "yielded"} /\ Goto(r, "pausing") /\ SpendToken
        /\ UNCHANGED <<attempt, calls, refilled>>
    BY <1>8 DEF Recover, Failing
  <2>2. Owed' \subseteq Owed \cup {<<r, attempt[r] + 1>>}
    BY <2>1 DEF TypeOK, Goto, Owed
  <2> QED
    BY <2>1, <2>2, GoesOn, TokenPays
<1>9. ASSUME NEW r \in Requests, Continue(r) PROVE LoadInv'
  <2>1. /\ pc[r] = "pausing" /\ Goto(r, "attempting")
        /\ attempt' = [attempt EXCEPT ![r] = @ + 1]
        /\ UNCHANGED <<calls, budget, refilled>>
    BY <1>9 DEF Continue, sharedVars
  <2>2. Owed' \subseteq Owed
    BY <2>1 DEF TypeOK, Goto, Owed
  <2> QED
    BY <2>1, <2>2, GoesOn, OwesNoMore
<1>10. ASSUME NEW r \in Requests, RetryElsewhere(r) PROVE LoadInv'
  BY <1>10, RetryOwes DEF RetryElsewhere, Failing
<1>11. ASSUME NEW r \in Requests, NEW kind \in Failures, Interrupt(r, kind) PROVE LoadInv'
  BY <1>11, EndOwes DEF Interrupt, Failing
<1>12. ASSUME NEW r \in Requests, NEW kind \in Failures, Retry(r, kind) PROVE LoadInv'
  BY <1>12, RetryOwes DEF Retry, Failing
<1>13. ASSUME NEW r \in Requests, NEW kind \in Failures, GiveUp(r, kind) PROVE LoadInv'
  BY <1>13, EndOwes DEF GiveUp, Failing
<1>14. ASSUME NEW r \in Requests, Wait(r) PROVE LoadInv'
  BY <1>14, OwesNoMore DEF Wait, sharedVars, Owed, Started
<1>15. ASSUME NEW r \in Requests, Leave(r) PROVE LoadInv'
  <2>1. /\ pc[r] \in {"yielded", "pausing"} /\ Goto(r, "left")
        /\ UNCHANGED <<attempt, calls, budget, refilled>>
    BY <1>15 DEF Leave, sharedVars
  <2> QED
    BY <2>1, LeavesOwed, GoesOn, OwesNoMore DEF Owed
<1>16. ASSUME Refill PROVE LoadInv'
  <2>1. Owed' = Owed /\ Started' = Started
    BY <1>16 DEF Refill, engineVars, Owed, Started
  <2>2. Cardinality(Owed) \in Nat /\ Cardinality(Started) \in Nat
    BY FS_CardinalityType DEF LoadInv
  <2> HIDE DEF Owed, Started
  <2> QED
    BY <1>16, <2>1, <2>2, EngineAssumption DEF TypeOK, LoadInv, Refill
<1>17. CASE UNCHANGED vars
  BY <1>17, OwesNoMore DEF vars, engineVars, sharedVars, Owed, Started
<1> QED
  BY <1>1, <1>2, <1>3, <1>4, <1>5, <1>6, <1>7, <1>8, <1>9, <1>10, <1>11, <1>12, <1>13,
     <1>14, <1>15, <1>16, <1>17 DEF Next, Step

\* However many streams fail at once, the provider gets no more calls than there
\* are requests and tokens ever in the shared budget.
THEOREM LoadIsBounded == Spec => []LoadBounded
<1>1. Init => LoadInv
  <2> SUFFICES ASSUME Init PROVE LoadInv
    OBVIOUS
  <2>1. Owed = {} /\ Started = {} /\ budget = Burst /\ refilled = 0
    BY DEF Init, Owed, Started
  <2>2. IsFiniteSet({}) /\ Cardinality({}) = 0
    BY FS_EmptySet
  <2> QED
    BY <2>1, <2>2, EngineAssumption DEF LoadInv
<1>2. EngineInv /\ LoadInv /\ [Next]_vars => LoadInv'
  BY StepKeepsLoad DEF EngineInv
<1>3. EngineInv /\ LoadInv => LoadBounded
  <2> SUFFICES ASSUME EngineInv, LoadInv PROVE LoadBounded
    OBVIOUS
  <2>1. calls \in SUBSET Owed
    BY DEF Owed
  <2>2. IsFiniteSet(calls) /\ Cardinality(calls) <= Cardinality(Owed)
    BY <2>1, FS_Subset DEF LoadInv
  <2>3. /\ Cardinality(calls) \in Nat /\ Cardinality(Owed) \in Nat
        /\ Cardinality(Started) \in Nat
    BY <2>2, FS_CardinalityType DEF LoadInv
  <2>4. budget \in Nat /\ refilled \in Nat
    BY EngineAssumption DEF EngineInv, TypeOK
  <2>5. Cardinality(calls) <= Cardinality(Started) + Burst + refilled
    <3> HIDE DEF Owed, Started
    <3> QED
      BY <2>2, <2>3, <2>4, EngineAssumption DEF LoadInv
  <2> QED
    BY <2>5 DEF LoadBounded, Started
<1> QED
  BY InvHolds, <1>1, <1>2, <1>3, PTL DEF Spec, SafeSpec
=============================================================================
