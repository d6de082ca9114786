-------------------------- MODULE QuizSubmission_proofs --------------------------
(***************************************************************************)
(* Quiz submission for any number of quizzes, students and submits, any caps   *)
(* and expiry, and any faults: a quiz that is being saved keeps its definition *)
(* and its flag, and is saved at most once.                                   *)
(***************************************************************************)
EXTENDS QuizSubmission, FiniteSetTheorems, WellFoundedInduction, TLAPS

\* A saved quiz is gone from the store, and was saved by one request.
SavedGone ==
  /\ \A r \in Requests : outcome[r] = "saved" => quiz[r] \in made \ pending
  /\ \A r, s \in Requests :
       (outcome[r] = "saved" /\ outcome[s] = "saved" /\ quiz[r] = quiz[s]) => r = s

\* What a request has sent and been told fits its place.
CallsFit(r) ==
  /\ outcome[r] # "none" => pc[r] = "over"
  /\ <<r, "delete">> \in wire => /\ pc[r] \in {"delete", "over", "lost"}
                                 /\ outcome[r] # "saved"
  /\ (pc[r] = "answers" /\ reply[r] = "ok") => r \in answered
  /\ outcome[r] = "saved" => r \in answered

CallsInv == \A r \in Requests : CallsFit(r)

QuizInv == TypeOK /\ SubmitKeepsDefinition /\ SavedGone /\ CallsInv

-----------------------------------------------------------------------------
(* The store *)

\* A quiz with its flag up is never dropped by a lookup.
LEMMA FlagKeepsLive ==
  /\ Live \subseteq pending
  /\ \A q \in pending : submitted[q] => q \in Live
BY DEF Live, Expired

\* Nor by an eviction.
LEMMA FlagKeepsPut ==
  ASSUME TypeOK, NEW q, Put(q)
  PROVE  /\ \A p \in pending : submitted[p] => p \in pending'
         /\ pending' \subseteq pending \cup {q}
         /\ q \notin made
<1>1. PICK mine \in Kept(Of(Live, owner[q]), MaxPerUser) :
        \E rest \in Kept(mine \cup (Live \ Of(Live, owner[q])), MaxGlobal) :
          pending' = rest \cup {q}
  BY DEF Put
<1> DEFINE all == mine \cup (Live \ Of(Live, owner[q]))
<1>2. PICK rest \in Kept(all, MaxGlobal) : pending' = rest \cup {q}
  BY <1>1
<1>3. /\ mine \subseteq Of(Live, owner[q])
      /\ \A p \in Of(Live, owner[q]) \ mine : ~submitted[p]
  BY DEF Kept
<1>4. rest \subseteq all /\ \A p \in all \ rest : ~submitted[p]
  BY DEF Kept
<1>5. Of(Live, owner[q]) \subseteq Live
  BY DEF Of
<1> HIDE DEF all
<1>6. all \subseteq Live /\ \A p \in Live \ all : ~submitted[p]
  BY <1>3, <1>5 DEF all
<1> QED
  BY <1>2, <1>4, <1>6, FlagKeepsLive DEF Put

-----------------------------------------------------------------------------
(* Types *)

LEMMA PutTypes == \A q \in Quizzes : TypeOK /\ Put(q) => TypeOK'
<1> SUFFICES ASSUME TypeOK, NEW q \in Quizzes, Put(q) PROVE TypeOK'
  OBVIOUS
<1>1. pending' \subseteq made' /\ made' \subseteq Quizzes
  BY FlagKeepsPut DEF TypeOK, Put
<1> QED
  BY <1>1 DEF TypeOK, Put, requestVars, dbVars

LEMMA SubmitTypes ==
  ASSUME TypeOK, NEW r \in Requests, NEW q \in made, NEW u \in Users, Submit(r, q, u)
  PROVE  TypeOK'
<1>1. pending' \subseteq made' /\ q \in Quizzes
  BY FlagKeepsLive DEF TypeOK, Submit
<1>2. quiz' \in [Requests -> Quizzes \cup {NoQuiz}] /\ quiz'[r] = q
  BY <1>1 DEF TypeOK, Submit
<1>3. CASE UNCHANGED <<submitted, dbVars>>
  <2>1. PICK answer \in {"not_found", "conflict", "bad_request"} : Respond(r, answer)
    BY <1>3, <1>1 DEF Submit, Goto, TypeOK
  <2>2. /\ pc' \in [Requests -> {"idle", "over", "lost"} \cup Saving]
        /\ outcome' \in [Requests -> {"none", "saved", "not_found", "conflict",
                                      "bad_request", "failed"}]
        /\ \A s \in Requests : pc'[s] # "idle" => quiz'[s] \in Quizzes
    BY <1>1, <1>2, <2>1 DEF TypeOK, Respond, Goto, Submit
  <2> QED
    BY <1>1, <1>2, <1>3, <2>2 DEF TypeOK, Submit, dbVars
<1>4. CASE /\ submitted' = [submitted EXCEPT ![q] = TRUE]
           /\ Goto(r, "insert") /\ Send(r, "insert") /\ UNCHANGED outcome
  <2>1. /\ pc' \in [Requests -> {"idle", "over", "lost"} \cup Saving]
        /\ \A s \in Requests : pc'[s] # "idle" => quiz'[s] \in Quizzes
    BY <1>1, <1>2, <1>4 DEF TypeOK, Goto, Submit, Saving
  <2>2. wire' \subseteq Requests \X Saving
    BY <1>4 DEF TypeOK, Send, Saving
  <2> QED
    BY <1>1, <1>2, <1>4, <2>1, <2>2 DEF TypeOK, Submit, Send
<1> QED
  BY <1>3, <1>4 DEF Submit

\* How a request fails: what it gave up on may go astray.
Failed(r) ==
  /\ pc[r] \in {"insert", "delete"} /\ Fail(r)
  /\ UNCHANGED <<wire, reply, attempts, answered>>
  /\ astray' \in {astray, astray \cup {r}}

LEMMA FailedCases ==
  ASSUME NEW r \in Requests, InsertFails(r) \/ RollbackDone(r) PROVE Failed(r)
BY DEF InsertFails, RollbackDone, CallFailed, Failed, dbVars

LEMMA FailTypes ==
  ASSUME TypeOK, NEW r \in Requests, Failed(r)
  PROVE  TypeOK'
BY DEF TypeOK, Failed, Fail, Respond, Goto, storeVars, Saving

LEMMA SendTypes ==
  ASSUME TypeOK, NEW r \in Requests, pc[r] \in Saving, NEW op \in Saving,
         Goto(r, op), Send(r, op), UNCHANGED <<storeVars, submitted, quiz, outcome>>
  PROVE  TypeOK'
<1>1. wire' \subseteq Requests \X Saving
  BY DEF TypeOK, Send, Saving
<1>2. /\ pc' \in [Requests -> {"idle", "over", "lost"} \cup Saving]
      /\ \A s \in Requests : pc'[s] # "idle" => quiz'[s] \in Quizzes
  BY DEF TypeOK, Goto, Saving
<1> QED
  BY <1>1, <1>2 DEF TypeOK, Send, storeVars

LEMMA WorkTypes ==
  ASSUME TypeOK, NEW r \in Requests, Work(r)
  PROVE  TypeOK'
<1>1. CASE InsertFails(r)
  BY <1>1, FailTypes, FailedCases
<1>2. CASE InsertDone(r)
  BY <1>2, SendTypes DEF InsertDone, Saving
<1>3. CASE AnswersFail(r)
  BY <1>3, SendTypes DEF AnswersFail, CallFailed, Saving
<1>4. CASE RollbackDone(r)
  BY <1>4, FailTypes, FailedCases
<1>5. CASE Saved(r)
  BY <1>5 DEF TypeOK, Saved, Respond, Goto, dbVars
<1> QED
  BY <1>1, <1>2, <1>3, <1>4, <1>5 DEF Work

LEMMA DatabaseTypes == TypeOK /\ Database => TypeOK'
<1> SUFFICES ASSUME TypeOK, NEW r \in Requests, NEW op \in Saving,
                    Run(r, op) \/ Reject(r, op) \/ Lose(r, op)
             PROVE  TypeOK'
  BY DEF Database
<1>1. CASE Run(r, op)
  <2>1. attempts' \subseteq Requests /\ answered' \subseteq attempts'
    BY <1>1 DEF TypeOK, Run, RunDelete, Saving
  <2>2. PICK a \in {"ok", "error"} : Answer(r, op, a)
    BY <1>1 DEF Run, Saving
  <2> QED
    BY <1>1, <2>1, <2>2 DEF TypeOK, Run, Answer, storeVars, requestVars
<1>2. CASE Reject(r, op)
  BY <1>2 DEF TypeOK, Reject, NotRun, Answer, storeVars, requestVars
<1>3. CASE Lose(r, op)
  BY <1>3 DEF TypeOK, Lose, NotRun, storeVars, requestVars
<1> QED
  BY <1>1, <1>2, <1>3

LEMMA StepKeepsTypes == TypeOK /\ [Next]_vars => TypeOK'
<1> SUFFICES ASSUME TypeOK, [Next]_vars PROVE TypeOK'
  OBVIOUS
<1>1. CASE Tick
  BY <1>1 DEF TypeOK, Tick, requestVars, dbVars
<1>2. CASE Restart
  BY <1>2 DEF TypeOK, Restart, dbVars, Saving
<1>3. CASE UNCHANGED vars
  BY <1>3 DEF TypeOK, vars, storeVars, requestVars, dbVars
<1> QED
  BY <1>1, <1>2, <1>3, PutTypes, SubmitTypes, WorkTypes, DatabaseTypes DEF Next

-----------------------------------------------------------------------------
(* Steps *)

LEMMA PutStep ==
  ASSUME QuizInv, NEW q \in Quizzes, Put(q)
  PROVE  SubmitKeepsDefinition' /\ SavedGone' /\ CallsInv'
<1>1. UNCHANGED <<submitted, requestVars, dbVars>>
  BY DEF Put
<1>2. /\ \A p \in pending : submitted[p] => p \in pending'
      /\ pending' \subseteq pending \cup {q} /\ q \notin made
  BY FlagKeepsPut DEF QuizInv
<1>3. SubmitKeepsDefinition'
  BY <1>1, <1>2 DEF QuizInv, SubmitKeepsDefinition, requestVars
<1>4. CallsInv'
  BY <1>1 DEF QuizInv, CallsInv, CallsFit, requestVars, dbVars
<1>5. \A r \in Requests : outcome[r] = "saved" => quiz[r] \in made' \ pending'
  BY <1>2 DEF QuizInv, SavedGone, Put
<1> QED
  BY <1>1, <1>3, <1>4, <1>5 DEF QuizInv, SavedGone, requestVars

LEMMA SubmitStep ==
  ASSUME QuizInv, NEW r \in Requests, NEW q \in made, NEW u \in Users, Submit(r, q, u)
  PROVE  SubmitKeepsDefinition' /\ SavedGone' /\ CallsInv'
<1>0. TypeOK /\ pc[r] = "idle" /\ outcome[r] = "none" /\ <<r, "delete">> \notin wire
      /\ q \in Quizzes
  BY DEF QuizInv, TypeOK, CallsInv, CallsFit, Submit
<1>1. /\ quiz'[r] = q
      /\ \A s \in Requests \ {r} : quiz'[s] = quiz[s]
      /\ pending' \subseteq pending
      /\ \A p \in pending : (submitted[p] \/ p \in Live) => p \in pending'
      /\ UNCHANGED <<made, answered>>
  BY <1>0, FlagKeepsLive DEF TypeOK, Submit, Send, dbVars
<1>2. CASE UNCHANGED <<submitted, dbVars>>
  <2>1. PICK answer \in {"not_found", "conflict", "bad_request"} : Respond(r, answer)
    BY <1>2, <1>0 DEF Submit, Goto, TypeOK
  <2>2. /\ pc'[r] = "over" /\ outcome'[r] # "saved"
        /\ \A s \in Requests \ {r} : pc'[s] = pc[s] /\ outcome'[s] = outcome[s]
    BY <1>0, <2>1 DEF TypeOK, Respond, Goto
  <2>3. SubmitKeepsDefinition'
    BY <1>1, <1>2, <2>2 DEF QuizInv, SubmitKeepsDefinition, Saving
  <2>4. SavedGone'
    BY <1>1, <2>2 DEF QuizInv, SavedGone
  <2>5. CallsInv'
    BY <1>0, <1>2, <2>2 DEF QuizInv, CallsInv, CallsFit, dbVars
  <2> QED
    BY <2>3, <2>4, <2>5
<1>3. CASE /\ q \in Live /\ ~submitted[q]
           /\ submitted' = [submitted EXCEPT ![q] = TRUE]
           /\ Goto(r, "insert") /\ Send(r, "insert") /\ UNCHANGED outcome
  <2>1. /\ pc'[r] = "insert"
        /\ \A s \in Requests \ {r} : pc'[s] = pc[s] /\ reply'[s] = reply[s]
        /\ submitted'[q] /\ \A p \in Quizzes \ {q} : submitted'[p] = submitted[p]
        /\ wire' = wire \cup {<<r, "insert">>}
    BY <1>0, <1>3 DEF TypeOK, Goto, Send
  <2>2. \A s \in Requests \ {r} : pc[s] \in Saving => quiz[s] # q /\ quiz[s] \in Quizzes
    BY <1>0, <1>3 DEF QuizInv, TypeOK, SubmitKeepsDefinition, Saving
  <2>3. q \in pending'
    BY <1>1, <1>3, FlagKeepsLive
  <2>4. SubmitKeepsDefinition'
    <3>1. ASSUME NEW s \in Requests, pc'[s] \in Saving
          PROVE  quiz'[s] \in pending' /\ submitted'[quiz'[s]] /\ (quiz'[s] = q => s = r)
      <4>1. CASE s = r
        BY <1>1, <2>1, <2>3, <4>1
      <4>2. CASE s # r
        BY <1>1, <2>1, <2>2, <3>1, <4>2 DEF QuizInv, SubmitKeepsDefinition
      <4> QED
        BY <4>1, <4>2
    <3>2. ASSUME NEW s \in Requests, NEW t \in Requests, pc'[s] \in Saving, pc'[t] \in Saving,
                 quiz'[s] = quiz'[t]
          PROVE  s = t
      BY <1>1, <2>1, <3>1, <3>2 DEF QuizInv, SubmitKeepsDefinition
    <3> QED
      BY <3>1, <3>2 DEF SubmitKeepsDefinition
  <2>5. SavedGone'
    BY <1>0, <1>1, <1>3 DEF QuizInv, SavedGone
  <2>6. CallsInv'
    BY <1>0, <1>1, <1>3, <2>1 DEF QuizInv, CallsInv, CallsFit
  <2> QED
    BY <2>4, <2>5, <2>6
<1> QED
  BY <1>2, <1>3 DEF Submit

LEMMA FailStep ==
  ASSUME QuizInv, NEW r \in Requests, Failed(r)
  PROVE  SubmitKeepsDefinition' /\ SavedGone' /\ CallsInv'
<1>0. TypeOK /\ quiz[r] \in Quizzes /\ pc[r] \in Saving /\ Fail(r)
  BY DEF QuizInv, TypeOK, Failed, Saving
<1>1. /\ pc'[r] = "over" /\ outcome'[r] = "failed"
      /\ \A s \in Requests \ {r} : pc'[s] = pc[s] /\ outcome'[s] = outcome[s]
      /\ UNCHANGED <<pending, made, quiz, wire, reply, answered>>
  BY <1>0 DEF TypeOK, Failed, Fail, Respond, Goto, storeVars
<1>2. \A p \in Quizzes \ {quiz[r]} : submitted'[p] = submitted[p]
  BY <1>0 DEF TypeOK, Fail
<1>3. \A s \in Requests \ {r} : pc[s] \in Saving => quiz[s] # quiz[r] /\ quiz[s] \in Quizzes
  BY <1>0 DEF QuizInv, TypeOK, SubmitKeepsDefinition, Saving
<1>4. SubmitKeepsDefinition'
  BY <1>1, <1>2, <1>3 DEF QuizInv, SubmitKeepsDefinition, Saving
<1>5. SavedGone'
  BY <1>1 DEF QuizInv, SavedGone
<1>6. CallsInv'
  BY <1>1 DEF QuizInv, CallsInv, CallsFit
<1> QED
  BY <1>4, <1>5, <1>6

LEMMA SendStep ==
  ASSUME QuizInv, NEW r \in Requests, pc[r] \in Saving, NEW op \in {"answers", "delete"},
         op = "answers" => pc[r] = "insert",
         Goto(r, op), Send(r, op), UNCHANGED <<storeVars, submitted, quiz, outcome>>
  PROVE  SubmitKeepsDefinition' /\ SavedGone' /\ CallsInv'
<1>0. TypeOK /\ outcome[r] = "none"
  BY DEF QuizInv, TypeOK, CallsInv, CallsFit, Saving
<1>1. /\ pc'[r] = op /\ reply'[r] = "none" /\ wire' = wire \cup {<<r, op>>}
      /\ \A s \in Requests \ {r} : pc'[s] = pc[s] /\ reply'[s] = reply[s]
      /\ UNCHANGED <<pending, made, submitted, quiz, outcome, answered>>
  BY <1>0 DEF TypeOK, Goto, Send, storeVars
<1>2. SubmitKeepsDefinition'
  <2>1. \A s \in Requests : pc'[s] \in Saving => pc[s] \in Saving
    BY <1>1
  <2> QED
    BY <1>1, <2>1 DEF QuizInv, SubmitKeepsDefinition
<1>3. SavedGone'
  BY <1>1 DEF QuizInv, SavedGone
<1>4. ASSUME NEW s \in Requests PROVE CallsFit(s)'
  <2>1. CallsFit(s)
    BY DEF QuizInv, CallsInv
  <2>2. CASE s = r
    BY <1>0, <1>1, <2>1, <2>2 DEF CallsFit
  <2>3. CASE s # r
    BY <1>1, <2>1, <2>3 DEF CallsFit
  <2> QED
    BY <2>2, <2>3
<1> QED
  BY <1>2, <1>3, <1>4 DEF CallsInv

\* The definition goes as the answer "saved" is given: nobody else is saving it,
\* and nobody has.
LEMMA SavedStep ==
  ASSUME QuizInv, NEW r \in Requests, Saved(r)
  PROVE  SubmitKeepsDefinition' /\ SavedGone' /\ CallsInv'
<1>0. TypeOK /\ pc[r] \in Saving /\ r \in answered /\ <<r, "delete">> \notin wire
      /\ quiz[r] \in pending
  BY DEF QuizInv, SubmitKeepsDefinition, CallsInv, CallsFit, Saved, Saving
<1>1. /\ pc'[r] = "over" /\ outcome'[r] = "saved"
      /\ \A s \in Requests \ {r} : pc'[s] = pc[s] /\ outcome'[s] = outcome[s]
      /\ pending' = pending \ {quiz[r]}
      /\ UNCHANGED <<made, submitted, quiz, wire, reply, answered>>
  BY <1>0 DEF TypeOK, Saved, Respond, Goto, dbVars
<1>2. SubmitKeepsDefinition'
  BY <1>0, <1>1 DEF QuizInv, SubmitKeepsDefinition, Saving
<1>3. SavedGone'
  BY <1>0, <1>1 DEF QuizInv, TypeOK, SavedGone
<1>4. CallsInv'
  BY <1>0, <1>1 DEF QuizInv, CallsInv, CallsFit
<1> QED
  BY <1>2, <1>3, <1>4

LEMMA WorkStep ==
  ASSUME QuizInv, NEW r \in Requests, Work(r)
  PROVE  SubmitKeepsDefinition' /\ SavedGone' /\ CallsInv'
<1>1. CASE InsertFails(r)
  BY <1>1, FailStep, FailedCases
<1>2. CASE InsertDone(r)
  BY <1>2, SendStep DEF InsertDone, Saving
<1>3. CASE AnswersFail(r)
  BY <1>3, SendStep DEF AnswersFail, CallFailed, Saving
<1>4. CASE RollbackDone(r)
  BY <1>4, FailStep, FailedCases
<1>5. CASE Saved(r)
  BY <1>5, SavedStep
<1> QED
  BY <1>1, <1>2, <1>3, <1>4, <1>5 DEF Work

LEMMA DatabaseStep ==
  ASSUME QuizInv, Database
  PROVE  SubmitKeepsDefinition' /\ SavedGone' /\ CallsInv'
<1> SUFFICES ASSUME NEW r \in Requests, NEW op \in Saving,
                    Run(r, op) \/ Reject(r, op) \/ Lose(r, op)
             PROVE  SubmitKeepsDefinition' /\ SavedGone' /\ CallsInv'
  BY DEF Database
<1>0. TypeOK
  BY DEF QuizInv
<1>1. /\ UNCHANGED <<pending, made, submitted, pc, quiz, outcome>>
      /\ wire' \subseteq wire
      /\ <<r, op>> \in wire
  BY DEF Run, RunDelete, Answer, Reject, Lose, storeVars, requestVars, Saving
<1>2. SubmitKeepsDefinition' /\ SavedGone'
  BY <1>1 DEF QuizInv, SubmitKeepsDefinition, SavedGone
<1>3. \A s \in Requests : reply'[s] = "ok" =>
        \/ reply[s] = "ok"
        \/ s = r /\ pc[r] = op /\ (op = "answers" => r \in answered')
  BY <1>0 DEF TypeOK, Run, RunDelete, Answer, Reject, Lose, Saving
<1>4. \A s \in answered : s \in answered' \/ (s = r /\ op = "delete")
  BY DEF Run, RunDelete, Reject, Lose, Saving
<1>5. ASSUME NEW s \in Requests PROVE CallsFit(s)'
  <2>1. CallsFit(s)
    BY DEF QuizInv, CallsInv
  <2>2. s \in answered /\ (pc[s] = "answers" \/ outcome[s] = "saved") => s \in answered'
    BY <1>1, <1>4, <2>1 DEF CallsFit
  <2> QED
    BY <1>1, <1>3, <2>1, <2>2 DEF CallsFit
<1> QED
  BY <1>2, <1>5 DEF CallsInv

LEMMA StepKeepsInv == QuizInv /\ [Next]_vars => QuizInv'
<1> SUFFICES ASSUME QuizInv, [Next]_vars PROVE QuizInv'
  OBVIOUS
<1>0. TypeOK'
  BY StepKeepsTypes DEF QuizInv
<1>1. CASE Tick
  BY <1>0, <1>1 DEF QuizInv, Tick, SubmitKeepsDefinition, SavedGone, CallsInv, CallsFit,
                    requestVars, dbVars
<1>2. CASE Restart
  <2>1. pending' = {} /\ UNCHANGED <<made, quiz, outcome, wire, reply, answered>>
    BY <1>2 DEF Restart, dbVars
  <2>2. ASSUME NEW r \in Requests
        PROVE  /\ pc'[r] \notin Saving
               /\ pc[r] \in Saving => pc'[r] = "lost"
               /\ pc[r] \notin Saving => pc'[r] = pc[r]
    BY <1>2 DEF Restart, Saving
  <2>3. SubmitKeepsDefinition' /\ SavedGone'
    BY <2>1, <2>2 DEF QuizInv, SubmitKeepsDefinition, SavedGone
  <2>4. ASSUME NEW r \in Requests PROVE CallsFit(r)'
    BY <2>1, <2>2 DEF QuizInv, CallsInv, CallsFit, Saving
  <2> QED
    BY <1>0, <2>3, <2>4 DEF QuizInv, CallsInv
<1>3. CASE UNCHANGED vars
  BY <1>0, <1>3 DEF QuizInv, SubmitKeepsDefinition, SavedGone, CallsInv, CallsFit, vars,
                    storeVars, requestVars, dbVars
<1> QED
  BY <1>0, <1>1, <1>2, <1>3, PutStep, SubmitStep, WorkStep, DatabaseStep DEF Next, QuizInv

-----------------------------------------------------------------------------
(* Theorems *)

\* The inductive invariant of store, submits and calls.
THEOREM QuizCorrect == Spec => []QuizInv
<1>1. Init => QuizInv
  BY DEF Init, QuizInv, TypeOK, SubmitKeepsDefinition, SavedGone, CallsInv, CallsFit, Saving
<1> QED
  BY <1>1, StepKeepsInv, PTL DEF Spec

\* Every variable of store, submits and tables keeps its type; answers have an
\* attempt.
THEOREM TypesCorrect == Spec => []TypeOK
BY QuizCorrect, PTL DEF QuizInv

\* A quiz that is being saved keeps its definition and its flag, and only one
\* submit saves it, whatever is evicted, expires or restarts.
THEOREM DefinitionsKept == Spec => []SubmitKeepsDefinition
BY QuizCorrect, PTL DEF QuizInv

\* A quiz is saved once, and what was saved stays, however late calls run.
THEOREM SavedOnce == Spec => []OneSuccessPerQuiz
<1>1. QuizInv => OneSuccessPerQuiz
  BY DEF QuizInv, SavedGone, CallsInv, CallsFit, OneSuccessPerQuiz
<1> QED
  BY QuizCorrect, <1>1, PTL

-----------------------------------------------------------------------------
(* One scored attempt of a quiz.  The row of a failed request is not there, is   *)
(* still to be deleted, or has gone astray.                                     *)

Undone(r) == <<r, "delete">> \in wire \/ r \notin attempts \/ r \in astray

NoInsert(r) == <<r, "insert">> \notin wire

TrailFits(r) ==
  /\ pc[r] = "idle" => r \notin attempts /\ \A op \in Saving : <<r, op>> \notin wire
  /\ pc[r] = "insert" => /\ reply[r] # "none" => NoInsert(r)
                         /\ (reply[r] = "error" \/ ~NoInsert(r)) => r \notin attempts
  /\ (pc[r] \in {"answers", "delete"} \/ <<r, "delete">> \in wire) => NoInsert(r)
  /\ pc[r] = "delete" => Undone(r)
  /\ (pc[r] = "over" /\ outcome[r] # "saved") => r \in astray \/ (Undone(r) /\ NoInsert(r))
  /\ pc[r] = "lost" => quiz[r] \in made \ pending

\* A request that may leave its attempt behind for good: in flight, cut off by a
\* restart, or saved.  Each quiz has one.
MayKeep(r) == pc[r] \in Saving \cup {"lost"} \/ outcome[r] = "saved"

OneKeeper ==
  \A r, s \in Requests : (MayKeep(r) /\ MayKeep(s) /\ quiz[r] = quiz[s]) => r = s

AttemptsInv == (\A r \in Requests : TrailFits(r)) /\ OneKeeper

\* A request that may keep its attempt has a quiz, one that was put back or taken
\* out of the store for good.
LEMMA KeeperHasQuiz ==
  ASSUME QuizInv, AttemptsInv, NEW r \in Requests, MayKeep(r)
  PROVE  /\ quiz[r] \in made
         /\ pc[r] \in Saving => quiz[r] \in pending /\ submitted[quiz[r]]
         /\ pc[r] \notin Saving => quiz[r] \notin pending
BY DEF QuizInv, TypeOK, SubmitKeepsDefinition, SavedGone, CallsInv, CallsFit, AttemptsInv,
       TrailFits, MayKeep, Saving

LEMMA PutTrail ==
  ASSUME QuizInv, AttemptsInv, NEW q \in Quizzes, Put(q)
  PROVE  AttemptsInv'
<1>1. UNCHANGED <<requestVars, dbVars>> /\ made' = made \cup {q}
  BY DEF Put
<1>2. pending' \subseteq pending \cup {q} /\ q \notin made
  BY FlagKeepsPut DEF QuizInv
<1>3. OneKeeper'
  BY <1>1 DEF AttemptsInv, OneKeeper, MayKeep, requestVars
<1>4. ASSUME NEW r \in Requests PROVE TrailFits(r)'
  BY <1>1, <1>2 DEF AttemptsInv, TrailFits, NoInsert, Undone, requestVars, dbVars
<1> QED
  BY <1>3, <1>4 DEF AttemptsInv

LEMMA SubmitTrail ==
  ASSUME QuizInv, AttemptsInv, NEW r \in Requests, NEW q \in made, NEW u \in Users,
         Submit(r, q, u)
  PROVE  AttemptsInv'
<1>0. TypeOK /\ pc[r] = "idle" /\ outcome[r] = "none" /\ TrailFits(r)
  BY DEF QuizInv, AttemptsInv, CallsInv, CallsFit, Submit
<1>1. /\ quiz'[r] = q
      /\ \A s \in Requests \ {r} : quiz'[s] = quiz[s]
      /\ pending' \subseteq pending
      /\ UNCHANGED <<made, attempts, answered, astray>>
  BY <1>0, FlagKeepsLive DEF TypeOK, Submit, Send, dbVars
<1>2. CASE UNCHANGED <<submitted, dbVars>>
  <2>1. PICK answer \in {"not_found", "conflict", "bad_request"} : Respond(r, answer)
    BY <1>2, <1>0 DEF Submit, Goto, TypeOK
  <2>2. /\ pc'[r] = "over" /\ outcome'[r] # "saved"
        /\ \A s \in Requests \ {r} : pc'[s] = pc[s] /\ outcome'[s] = outcome[s]
    BY <1>0, <2>1 DEF TypeOK, Respond, Goto
  <2>3. \A s \in Requests : MayKeep(s)' => s # r /\ MayKeep(s)
    BY <2>2 DEF MayKeep, Saving
  <2>4. OneKeeper'
    BY <1>1, <2>3 DEF AttemptsInv, OneKeeper
  <2>6. ASSUME NEW s \in Requests PROVE TrailFits(s)'
    <3>1. CASE s = r
      BY <1>0, <1>1, <1>2, <2>2, <3>1 DEF TrailFits, NoInsert, Undone, Saving, dbVars
    <3>2. CASE s # r
      BY <1>1, <1>2, <2>2, <3>2 DEF AttemptsInv, TrailFits, NoInsert, Undone, dbVars
    <3> QED
      BY <3>1, <3>2
  <2> QED
    BY <2>4, <2>6 DEF AttemptsInv
<1>3. CASE /\ q \in Live /\ ~submitted[q]
           /\ Goto(r, "insert") /\ Send(r, "insert") /\ UNCHANGED outcome
  <2>1. /\ pc'[r] = "insert" /\ reply'[r] = "none"
        /\ \A s \in Requests \ {r} : pc'[s] = pc[s] /\ reply'[s] = reply[s]
        /\ wire' = wire \cup {<<r, "insert">>} /\ UNCHANGED outcome
    BY <1>0, <1>3 DEF TypeOK, Goto, Send
  <2>2. \A s \in Requests \ {r} : MayKeep(s) => quiz[s] # q
    BY <1>3, KeeperHasQuiz, FlagKeepsLive
  <2>3. OneKeeper'
    BY <1>1, <2>1, <2>2 DEF AttemptsInv, OneKeeper, MayKeep
  <2>4. ASSUME NEW s \in Requests PROVE TrailFits(s)'
    <3>1. CASE s = r
      BY <1>0, <1>1, <2>1, <3>1 DEF TypeOK, TrailFits, NoInsert, Undone, Saving
    <3>2. CASE s # r
      BY <1>1, <2>1, <3>2 DEF AttemptsInv, TrailFits, NoInsert, Undone
    <3> QED
      BY <3>1, <3>2
  <2> QED
    BY <2>3, <2>4 DEF AttemptsInv
<1> QED
  BY <1>2, <1>3 DEF Submit

\* A request that ends in failure no longer keeps an attempt.
LEMMA FailTrail ==
  ASSUME QuizInv, AttemptsInv, NEW r \in Requests, Failed(r),
         r \in astray' \/ (Undone(r) /\ NoInsert(r))
  PROVE  AttemptsInv'
<1>0. TypeOK
  BY DEF QuizInv
<1>1. /\ pc'[r] = "over" /\ outcome'[r] = "failed"
      /\ \A s \in Requests \ {r} : pc'[s] = pc[s] /\ outcome'[s] = outcome[s]
      /\ UNCHANGED <<pending, made, quiz, wire, reply, attempts, answered>>
  BY <1>0 DEF TypeOK, Failed, Fail, Respond, Goto, storeVars
<1>2. \A s \in Requests : MayKeep(s)' => MayKeep(s)
  BY <1>1 DEF MayKeep, Saving, Failed
<1>3. OneKeeper'
  BY <1>1, <1>2 DEF AttemptsInv, OneKeeper
<1>4. ASSUME NEW s \in Requests PROVE TrailFits(s)'
  BY <1>1 DEF AttemptsInv, TrailFits, NoInsert, Undone, Failed
<1> QED
  BY <1>3, <1>4 DEF AttemptsInv

LEMMA SendTrail ==
  ASSUME QuizInv, AttemptsInv, NEW r \in Requests, NEW op \in {"answers", "delete"},
         op = "answers" => pc[r] = "insert" /\ reply[r] = "ok",
         op = "delete" => pc[r] = "answers",
         Goto(r, op), Send(r, op), UNCHANGED <<storeVars, submitted, quiz, outcome>>
  PROVE  AttemptsInv'
<1>0. TypeOK /\ outcome[r] = "none" /\ TrailFits(r)
  BY DEF QuizInv, TypeOK, CallsInv, CallsFit, AttemptsInv
<1>1. /\ pc'[r] = op /\ reply'[r] = "none" /\ wire' = wire \cup {<<r, op>>}
      /\ \A s \in Requests \ {r} : pc'[s] = pc[s] /\ reply'[s] = reply[s]
      /\ UNCHANGED <<pending, made, quiz, outcome, attempts, answered, astray>>
  BY <1>0 DEF TypeOK, Goto, Send, storeVars
<1>2. \A s \in Requests : MayKeep(s)' => MayKeep(s)
  BY <1>1 DEF MayKeep, Saving
<1>3. OneKeeper'
  BY <1>1, <1>2 DEF AttemptsInv, OneKeeper
<1>4. ASSUME NEW s \in Requests PROVE TrailFits(s)'
  <2>1. CASE s = r
    BY <1>0, <1>1, <2>1 DEF TrailFits, NoInsert, Undone
  <2>2. CASE s # r
    BY <1>1, <2>2 DEF AttemptsInv, TrailFits, NoInsert, Undone
  <2> QED
    BY <2>1, <2>2
<1> QED
  BY <1>3, <1>4 DEF AttemptsInv

LEMMA SavedTrail ==
  ASSUME QuizInv, AttemptsInv, NEW r \in Requests, Saved(r)
  PROVE  AttemptsInv'
<1>0. TypeOK /\ MayKeep(r) /\ TrailFits(r)
  BY DEF QuizInv, AttemptsInv, MayKeep, Saved, Saving
<1>1. /\ pc'[r] = "over" /\ outcome'[r] = "saved"
      /\ \A s \in Requests \ {r} : pc'[s] = pc[s] /\ outcome'[s] = outcome[s]
      /\ pending' \subseteq pending
      /\ UNCHANGED <<made, quiz, wire, reply, attempts, answered, astray>>
  BY <1>0 DEF TypeOK, Saved, Respond, Goto, dbVars
<1>2. \A s \in Requests : MayKeep(s)' => MayKeep(s)
  BY <1>0, <1>1 DEF MayKeep
<1>3. OneKeeper'
  BY <1>1, <1>2 DEF AttemptsInv, OneKeeper
<1>4. <<r, "delete">> \notin wire /\ pc[r] = "answers"
  BY DEF QuizInv, CallsInv, CallsFit, Saved
<1>5. ASSUME NEW s \in Requests PROVE TrailFits(s)'
  BY <1>1, <1>4 DEF AttemptsInv, TrailFits, NoInsert, Undone
<1> QED
  BY <1>3, <1>5 DEF AttemptsInv

LEMMA WorkTrail ==
  ASSUME QuizInv, AttemptsInv, NEW r \in Requests, Work(r)
  PROVE  AttemptsInv'
<1>1. CASE InsertFails(r)
  <2>1. r \in astray' \/ (Undone(r) /\ NoInsert(r))
    BY <1>1 DEF AttemptsInv, TrailFits, NoInsert, Undone, InsertFails, CallFailed
  <2> QED
    BY <1>1, <2>1, FailTrail, FailedCases
<1>2. CASE InsertDone(r)
  BY <1>2, SendTrail DEF InsertDone
<1>3. CASE AnswersFail(r)
  BY <1>3, SendTrail DEF AnswersFail, CallFailed
<1>4. CASE RollbackDone(r)
  BY <1>4, FailTrail, FailedCases DEF AttemptsInv, TrailFits, Undone, RollbackDone, dbVars
<1>5. CASE Saved(r)
  BY <1>5, SavedTrail
<1> QED
  BY <1>1, <1>2, <1>3, <1>4, <1>5 DEF Work

\* A delete that leaves the wire has run, or its attempt has gone astray.
LEMMA DatabaseTrail ==
  ASSUME QuizInv, AttemptsInv, Database
  PROVE  AttemptsInv'
<1> SUFFICES ASSUME NEW r \in Requests, NEW op \in Saving,
                    Run(r, op) \/ Reject(r, op) \/ Lose(r, op)
             PROVE  AttemptsInv'
  BY DEF Database
<1>0. TypeOK
  BY DEF QuizInv
<1>1. /\ UNCHANGED <<pending, made, pc, quiz, outcome>>
      /\ wire' = wire \ {<<r, op>>}
      /\ <<r, op>> \in wire
  BY DEF Run, RunDelete, Answer, Reject, Lose, storeVars, requestVars, Saving
<1>2. OneKeeper'
  BY <1>1 DEF AttemptsInv, OneKeeper, MayKeep
<1>3. /\ op = "delete" => r \notin attempts' \/ r \in astray'
      /\ r \in attempts' => r \in attempts \/ op = "insert"
      /\ \A s \in Requests \ {r} : s \in attempts' <=> s \in attempts
      /\ astray \subseteq astray'
  BY <1>0 DEF TypeOK, Run, RunDelete, Reject, Lose, NotRun, Saving
<1>4. \A s \in Requests : reply'[s] # reply[s] => s = r /\ pc[r] = op
  BY <1>0 DEF TypeOK, Run, RunDelete, Answer, Reject, Lose, Saving
<1>5. pc[r] = "insert" /\ reply'[r] = "error" => r \notin attempts'
  <2>1. pc[r] = "insert" /\ reply[r] = "error" => op # "insert" /\ r \notin attempts
    BY <1>1 DEF AttemptsInv, TrailFits, NoInsert
  <2>2. pc[r] = "insert" /\ reply[r] # "error" /\ reply'[r] = "error" =>
          op = "insert" /\ UNCHANGED attempts /\ r \notin attempts
    BY <1>0, <1>1 DEF AttemptsInv, TrailFits, NoInsert, TypeOK, Run, Answer, Reject, Lose, Saving
  <2> QED
    BY <1>3, <2>1, <2>2
<1>6. ASSUME NEW s \in Requests PROVE TrailFits(s)'
  <2>1. TrailFits(s)
    BY DEF AttemptsInv
  <2>2. CASE s # r
    BY <1>1, <1>3, <1>4, <2>1, <2>2 DEF TrailFits, NoInsert, Undone
  <2>3. CASE s = r
    <3>1. NoInsert(r) => NoInsert(r)'
      BY <1>1 DEF NoInsert
    <3>2. (Undone(r) /\ NoInsert(r)) => Undone(r)'
      BY <1>1, <1>3 DEF Undone, NoInsert
    <3>3. pc[r] = "insert" => /\ reply'[r] # "none" => NoInsert(r)'
                              /\ (reply'[r] = "error" \/ ~NoInsert(r)') => r \notin attempts'
      <4>1. pc[r] = "insert" /\ reply'[r] # "none" => NoInsert(r)'
        BY <1>1, <1>4, <2>1, <2>3 DEF TrailFits, NoInsert
      <4>2. ~NoInsert(r)' => ~NoInsert(r) /\ op # "insert"
        BY <1>1 DEF NoInsert
      <4>3. pc[r] = "insert" /\ ~NoInsert(r)' => r \notin attempts'
        BY <1>3, <2>1, <2>3, <4>2 DEF TrailFits
      <4> QED
        BY <1>1, <1>5, <4>1, <4>3
    <3>4. pc[r] # "idle"
      BY <1>1, <2>1, <2>3 DEF TrailFits
    <3> QED
      BY <1>1, <1>3, <2>1, <2>3, <3>1, <3>2, <3>3, <3>4 DEF TrailFits
  <2> QED
    BY <2>2, <2>3
<1> QED
  BY <1>2, <1>6 DEF AttemptsInv

LEMMA StepKeepsTrail ==
  QuizInv /\ AttemptsInv /\ [Next]_vars => AttemptsInv'
<1> SUFFICES ASSUME QuizInv, AttemptsInv, [Next]_vars PROVE AttemptsInv'
  OBVIOUS
<1>1. CASE Tick
  BY <1>1 DEF AttemptsInv, TrailFits, NoInsert, Undone, OneKeeper, MayKeep, Tick,
              requestVars, dbVars
<1>2. CASE Restart
  <2>1. /\ pending' = {}
        /\ UNCHANGED <<made, quiz, outcome, wire, reply, attempts, answered, astray>>
    BY <1>2 DEF Restart, dbVars
  <2>2. ASSUME NEW r \in Requests
        PROVE  /\ pc[r] \in Saving => pc'[r] = "lost" /\ quiz[r] \in made
               /\ pc[r] \notin Saving => pc'[r] = pc[r]
    BY <1>2 DEF QuizInv, TypeOK, SubmitKeepsDefinition, Restart, Saving
  <2>3. \A r \in Requests : MayKeep(r)' => MayKeep(r)
    BY <2>1, <2>2 DEF MayKeep, Saving
  <2>4. OneKeeper'
    BY <2>1, <2>3 DEF AttemptsInv, OneKeeper
  <2>5. ASSUME NEW r \in Requests PROVE TrailFits(r)'
    BY <2>1, <2>2 DEF AttemptsInv, TrailFits, NoInsert, Undone, Saving
  <2> QED
    BY <2>4, <2>5 DEF AttemptsInv
<1>3. CASE UNCHANGED vars
  BY <1>3 DEF AttemptsInv, TrailFits, NoInsert, Undone, OneKeeper, MayKeep, vars,
              storeVars, requestVars, dbVars
<1> QED
  BY <1>1, <1>2, <1>3, PutTrail, SubmitTrail, WorkTrail, DatabaseTrail DEF Next

\* Whatever is lost, late, refused or restarted, and however submits race, the rows
\* that stay in quiz_attempts were reported saved or cut off by a restart, one for
\* a quiz; but for those whose insert was not answered or whose delete failed.
THEOREM OneAttemptCorrect == Spec => []OneAttemptPerQuiz
<1>1. Init => AttemptsInv
  BY DEF Init, AttemptsInv, TrailFits, OneKeeper, MayKeep, Saving
<1>2. QuizInv /\ AttemptsInv => OneAttemptPerQuiz
  <2> SUFFICES ASSUME QuizInv, AttemptsInv, Quiet,
                      NEW r \in attempts \ astray, NEW s \in attempts \ astray
               PROVE  /\ outcome[r] = "saved" \/ pc[r] = "lost"
                      /\ quiz[r] = quiz[s] => r = s
    BY DEF OneAttemptPerQuiz
  <2>1. ASSUME NEW t \in attempts \ astray
        PROVE  t \in Requests /\ (outcome[t] = "saved" \/ pc[t] = "lost")
    BY <2>1 DEF QuizInv, TypeOK, AttemptsInv, TrailFits, Undone, Quiet, Saving
  <2> QED
    BY <2>1 DEF AttemptsInv, OneKeeper, MayKeep
<1>3. Spec => []AttemptsInv
  BY <1>1, StepKeepsTrail, QuizCorrect, PTL DEF Spec
<1> QED
  BY <1>2, <1>3, QuizCorrect, PTL

-----------------------------------------------------------------------------
(* The cap of a student *)

\* A flag that is up belongs to a submit in flight, or to a quiz that is gone.
FlagsInv ==
  \A q \in Quizzes : submitted[q] =>
    /\ q \in made
    /\ q \in pending => \E r \in Requests : pc[r] \in Saving /\ quiz[r] = q

\* A finite set of quizzes that is not empty has an oldest one.
LEMMA OldestExists ==
  ASSUME TypeOK, NEW qs, qs \subseteq Quizzes, qs # {}
  PROVE  Oldest(qs) # {}
<1> DEFINE ages == {stored[q] : q \in qs}
<1>1. ages \subseteq Nat /\ ages # {}
  BY DEF TypeOK
<1>2. \A a, b \in Nat : a < b => <<a, b>> \in OpToRel(<, Nat)
  BY Zenon DEF OpToRel
<1>3. PICK a \in ages : \A b \in ages : ~ (<<b, a>> \in OpToRel(<, Nat))
  BY <1>1, NatLessThanWellFounded, WFMin
<1>4. \A b \in ages : ~(b < a)
  BY <1>1, <1>2, <1>3
<1>5. \A b \in ages : a <= b
  BY <1>1, <1>4
<1>6. PICK q \in qs : stored[q] = a
  OBVIOUS
<1>7. q \in Oldest(qs)
  BY <1>5, <1>6 DEF Oldest
<1> QED
  BY <1>7

\* As many quizzes as have their flag up are being submitted.
LEMMA FlaggedBounded ==
  ASSUME TypeOK, FlagsInv, NEW qs, qs \subseteq pending, \A q \in qs : submitted[q]
  PROVE  Cardinality(qs) <= Cardinality(Requests)
<1> DEFINE asking == {r \in Requests : quiz[r] \in qs}
           f == [r \in asking |-> quiz[r]]
<1>1. f \in Surjection(asking, qs)
  BY DEF TypeOK, FlagsInv, Surjection
<1>2. IsFiniteSet(Requests) /\ asking \in SUBSET Requests
  BY QuizAssumption
<1>3. IsFiniteSet(asking) /\ Cardinality(asking) <= Cardinality(Requests)
  BY <1>2, FS_Subset
<1>4. IsFiniteSet(qs) /\ Cardinality(qs) <= Cardinality(asking)
  BY <1>1, <1>3, FS_Surjection
<1>5. Cardinality(qs) \in Nat /\ Cardinality(asking) \in Nat /\ Cardinality(Requests) \in Nat
  BY <1>2, <1>3, <1>4, FS_CardinalityType
<1> HIDE DEF asking, f
<1> QED
  BY <1>3, <1>4, <1>5

LEMMA StepKeepsFlags == QuizInv /\ FlagsInv /\ [Next]_vars => FlagsInv'
<1> SUFFICES ASSUME QuizInv, FlagsInv, [Next]_vars PROVE FlagsInv'
  OBVIOUS
<1>0. TypeOK /\ SubmitKeepsDefinition
  BY DEF QuizInv
<1>1. ASSUME NEW q \in Quizzes, Put(q) PROVE FlagsInv'
  BY <1>0, <1>1, FlagKeepsPut DEF FlagsInv, Put, requestVars
<1>2. ASSUME NEW r \in Requests, NEW q \in made, NEW u \in Users, Submit(r, q, u)
      PROVE  FlagsInv'
  <2>1. /\ pending' \subseteq pending /\ made' = made /\ quiz'[r] = q
        /\ \A s \in Requests \ {r} : quiz'[s] = quiz[s] /\ pc'[s] = pc[s]
        /\ pc[r] = "idle"
    BY <1>0, <1>2, FlagKeepsLive DEF TypeOK, Submit, Respond, Goto
  <2>2. \A p \in Quizzes : submitted'[p] => submitted[p] \/ (p = q /\ pc'[r] = "insert")
    BY <1>0, <1>2 DEF TypeOK, Submit, Goto
  <2> QED
    BY <1>0, <2>1, <2>2 DEF TypeOK, FlagsInv, Saving
<1>3. ASSUME NEW r \in Requests, Failed(r) PROVE FlagsInv'
  BY <1>0, <1>3 DEF TypeOK, FlagsInv, Failed, Fail, Respond, Goto, storeVars, Saving
<1>4. ASSUME NEW r \in Requests, pc[r] \in Saving, NEW op \in Saving,
             Goto(r, op), UNCHANGED <<storeVars, submitted, quiz, outcome>>
      PROVE  FlagsInv'
  BY <1>0, <1>4 DEF TypeOK, FlagsInv, Goto, storeVars
<1>5. ASSUME NEW r \in Requests, Saved(r) PROVE FlagsInv'
  BY <1>0, <1>5 DEF TypeOK, FlagsInv, Saved, Respond, Goto
<1>6. ASSUME NEW r \in Requests, Work(r) PROVE FlagsInv'
  <2>1. CASE InsertFails(r)
    BY <1>3, <2>1, FailedCases
  <2>2. CASE InsertDone(r)
    BY <1>4, <2>2 DEF InsertDone, Saving
  <2>3. CASE AnswersFail(r)
    BY <1>4, <2>3 DEF AnswersFail, CallFailed, Saving
  <2>4. CASE RollbackDone(r)
    BY <1>3, <2>4, FailedCases
  <2>5. CASE Saved(r)
    BY <1>5, <2>5
  <2> QED
    BY <1>6, <2>1, <2>2, <2>3, <2>4, <2>5 DEF Work
<1>7. CASE Database \/ Tick \/ UNCHANGED vars
  <2>1. UNCHANGED <<pending, made, submitted, pc, quiz>>
    BY <1>7 DEF Database, Run, Reject, Lose, Tick, vars, storeVars, requestVars
  <2> QED
    BY <2>1 DEF FlagsInv
<1>8. CASE Restart
  BY <1>8 DEF FlagsInv, Restart
<1> QED
  BY <1>1, <1>2, <1>6, <1>7, <1>8 DEF Next

\* A new quiz makes room among those of its student: below the cap, or down to the
\* ones being submitted.
LEMMA PutKeepsBound ==
  ASSUME TypeOK, FlagsInv, PendingBounded, NEW q \in Quizzes, Put(q)
  PROVE  PendingBounded'
<1> SUFFICES ASSUME NEW u \in Users
             PROVE  \/ Cardinality(Of(pending', u)) <= MaxPerUser
                    \/ Cardinality(Of(pending', u)) <= Cardinality(Requests) + 1
  BY DEF PendingBounded, Of, Put
<1>1. PICK mine \in Kept(Of(Live, owner[q]), MaxPerUser) :
        \E rest \in Kept(mine \cup (Live \ Of(Live, owner[q])), MaxGlobal) :
          pending' = rest \cup {q}
  BY DEF Put
<1>2. PICK rest \in Kept(mine \cup (Live \ Of(Live, owner[q])), MaxGlobal) :
        pending' = rest \cup {q}
  BY <1>1
<1>3. mine \subseteq Of(Live, owner[q]) /\ rest \subseteq mine \cup (Live \ Of(Live, owner[q]))
  BY DEF Kept
<1>4. Live \subseteq pending /\ pending \subseteq Quizzes
  BY FlagKeepsLive DEF TypeOK
<1>5. CASE u = owner[q]
  <2>1. Of(pending', u) \subseteq mine \cup {q} /\ mine \subseteq Quizzes
    BY <1>2, <1>3, <1>4, <1>5 DEF Of
  <2>2. /\ IsFiniteSet(mine) /\ IsFiniteSet(mine \cup {q})
        /\ Cardinality(mine \cup {q}) <= Cardinality(mine) + 1
    <3>1. IsFiniteSet(mine)
      BY <2>1, FS_Subset, QuizAssumption
    <3>2. /\ IsFiniteSet(mine \cup {q})
          /\ Cardinality(mine \cup {q}) = IF q \in mine THEN Cardinality(mine)
                                          ELSE Cardinality(mine) + 1
      BY <3>1, FS_AddElement
    <3>3. Cardinality(mine) \in Nat
      BY <3>1, FS_CardinalityType
    <3> QED
      BY <3>1, <3>2, <3>3
  <2>3. Cardinality(Of(pending', u)) <= Cardinality(mine \cup {q})
    BY <2>1, <2>2, FS_Subset
  <2>4. \/ Cardinality(mine) < MaxPerUser
        \/ Cardinality(mine) <= Cardinality(Requests)
    <3>1. CASE Victims(mine) = {}
      <4>1. {p \in mine : ~submitted[p]} = {}
        BY <2>1, <3>1, OldestExists DEF Victims
      <4>2. mine \subseteq pending
        BY <1>3, <1>4 DEF Of
      <4> QED
        BY <4>1, <4>2, FlaggedBounded
    <3> QED
      BY <3>1 DEF Kept
  <2>5. /\ Cardinality(mine) \in Nat /\ Cardinality(mine \cup {q}) \in Nat
        /\ Cardinality(Of(pending', u)) \in Nat /\ Cardinality(Requests) \in Nat
        /\ MaxPerUser \in Nat
    <3>1. IsFiniteSet(Of(pending', u))
      BY <2>1, <2>2, FS_Subset
    <3> QED
      BY <2>2, <3>1, FS_CardinalityType, QuizAssumption
  <2> QED
    BY <2>2, <2>3, <2>4, <2>5
<1>6. CASE u # owner[q]
  <2>1. Of(pending', u) \subseteq Of(pending, u)
    BY <1>2, <1>3, <1>4, <1>6 DEF Of
  <2>2. Of(pending, u) \subseteq Quizzes
    BY <1>4 DEF Of
  <2>3. IsFiniteSet(Of(pending, u))
    BY <2>2, FS_Subset, QuizAssumption
  <2>4. /\ Cardinality(Of(pending', u)) <= Cardinality(Of(pending, u))
        /\ IsFiniteSet(Of(pending', u))
    BY <2>1, <2>3, FS_Subset
  <2>5. /\ Cardinality(Of(pending', u)) \in Nat /\ Cardinality(Of(pending, u)) \in Nat
        /\ Cardinality(Requests) \in Nat /\ MaxPerUser \in Nat
    BY <2>3, <2>4, FS_CardinalityType, QuizAssumption
  <2> QED
    BY <2>4, <2>5 DEF PendingBounded
<1> QED
  BY <1>5, <1>6

\* No other step adds to the store.
LEMMA StepKeepsBound ==
  ASSUME QuizInv, FlagsInv, PendingBounded, [Next]_vars
  PROVE  PendingBounded'
<1>0. TypeOK
  BY DEF QuizInv
<1>1. CASE \E q \in Quizzes : Put(q)
  BY <1>0, <1>1, PutKeepsBound
<1>2. CASE ~ \E q \in Quizzes : Put(q)
  <2>1. pending' \subseteq pending /\ owner' = owner
    <3>1. ASSUME NEW r \in Requests, NEW q \in made, NEW u \in Users, Submit(r, q, u)
          PROVE  pending' \subseteq pending /\ owner' = owner
      BY <3>1, FlagKeepsLive DEF Submit
    <3>2. ASSUME NEW r \in Requests, Work(r)
          PROVE  pending' \subseteq pending /\ owner' = owner
      BY <3>2 DEF Work, InsertFails, InsertDone, AnswersFail, RollbackDone, Saved, Fail,
                  storeVars
    <3>3. CASE Database \/ Tick \/ Restart \/ UNCHANGED vars
      BY <3>3 DEF Database, Run, Reject, Lose, Tick, Restart, vars, storeVars
    <3> QED
      BY <1>2, <3>1, <3>2, <3>3 DEF Next
  <2> SUFFICES ASSUME NEW u \in Users
               PROVE  \/ Cardinality(Of(pending', u)) <= MaxPerUser
                      \/ Cardinality(Of(pending', u)) <= Cardinality(Requests) + 1
    BY <2>1 DEF PendingBounded, Of
  <2>2. Of(pending, u) \subseteq Quizzes /\ Of(pending', u) \subseteq Of(pending, u)
    BY <1>0, <2>1 DEF Of, TypeOK
  <2>3. IsFiniteSet(Of(pending, u))
    BY <2>2, FS_Subset, QuizAssumption
  <2>4. /\ Cardinality(Of(pending', u)) <= Cardinality(Of(pending, u))
        /\ IsFiniteSet(Of(pending', u))
    BY <2>2, <2>3, FS_Subset
  <2>5. /\ Cardinality(Of(pending', u)) \in Nat /\ Cardinality(Of(pending, u)) \in Nat
        /\ Cardinality(Requests) \in Nat /\ MaxPerUser \in Nat
    BY <2>3, <2>4, FS_CardinalityType, QuizAssumption
  <2> QED
    BY <2>4, <2>5 DEF PendingBounded
<1> QED
  BY <1>1, <1>2

\* A student's pending quizzes stay within the cap, or within one more than the
\* submits in flight, which are what keeps the cap from being met.
THEOREM StoreBounded == Spec => []PendingBounded
<1>1. Init => FlagsInv
  BY DEF Init, FlagsInv
<1>2. Init => PendingBounded
  <2>1. Init => \A u \in Users : Of(pending, u) = {}
    BY DEF Init, Of
  <2> QED
    BY <2>1, FS_EmptySet, QuizAssumption DEF PendingBounded
<1>3. Spec => []FlagsInv
  BY <1>1, StepKeepsFlags, QuizCorrect, PTL DEF Spec
<1> QED
  BY <1>2, <1>3, StepKeepsBound, QuizCorrect, PTL DEF Spec
=============================================================================
