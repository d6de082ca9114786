----------------------------- MODULE QuizSubmission -----------------------------
(***************************************************************************)
(* A quiz from its generation to its stored attempt: the bounded store of     *)
(* pending quizzes (BoundedQuizDefinitions), /api/quiz/submit, and the two     *)
(* inserts of save_quiz_attempt with their compensating delete, over a         *)
(* database whose answers may be lost and whose calls may run late.            *)
(* Endpoints run on one event loop: between two awaits nothing intervenes.     *)
(***************************************************************************)
EXTENDS Integers, FiniteSets

CONSTANTS
  Users,
  Quizzes,     \* quiz ids; each is generated at most once
  NoQuiz,      \* no quiz id
  Requests,    \* submit requests; a request is the id of the attempt it inserts
  MaxPerUser,  \* QUIZ_DEFINITION_MAX_PER_USER
  MaxGlobal,   \* QUIZ_DEFINITION_MAX_GLOBAL
  TTL,         \* QUIZ_DEFINITION_TTL_SECONDS, in ticks
  MaxClock,    \* bound on the clock
  Faults       \* what may go wrong: "reject", "lose", "restart"

ASSUME QuizAssumption ==
  /\ IsFiniteSet(Quizzes)
  /\ NoQuiz \notin Quizzes
  /\ IsFiniteSet(Requests)
  /\ MaxPerUser \in Nat \ {0}
  /\ MaxGlobal \in Nat \ {0}
  /\ TTL \in Nat
  /\ MaxClock \in Nat
  /\ Faults \subseteq {"reject", "lose", "restart"}

VARIABLES
  clock,
  pending,    \* active_quiz_definitions: quiz ids in the store
  made,       \* quiz ids ever generated
  owner,      \* user_id of each definition
  stored,     \* when the store took it
  submitted,  \* its flag
  pc,         \* where each submit request is
  quiz,       \* the quiz it submits
  wire,       \* calls the database has not run, as <<request, call>>
  reply,      \* answer to the call a request waits for
  outcome,    \* response of each request
  attempts,   \* rows of quiz_attempts, each with its score
  answered,   \* attempts with rows in quiz_answers
  astray      \* history: requests that gave up on an insert no answer had come
              \* to, or whose delete the database did not carry out

storeVars == <<clock, pending, made, owner, stored>>
requestVars == <<pc, quiz, outcome>>
dbVars == <<wire, reply, attempts, answered, astray>>
vars == <<storeVars, submitted, requestVars, dbVars>>

Init ==
  /\ clock = 0
  /\ pending = {}
  /\ made = {}
  /\ owner \in [Quizzes -> Users]
  /\ stored = [q \in Quizzes |-> 0]
  /\ submitted = [q \in Quizzes |-> FALSE]
  /\ pc = [r \in Requests |-> "idle"]
  /\ quiz = [r \in Requests |-> NoQuiz]
  /\ wire = {}
  /\ reply = [r \in Requests |-> "none"]
  /\ outcome = [r \in Requests |-> "none"]
  /\ attempts = {}
  /\ answered = {}
  /\ astray = {}

Saving == {"insert", "answers", "delete"}

TypeOK ==
  /\ clock \in Nat
  /\ pending \subseteq made
  /\ made \subseteq Quizzes
  /\ owner \in [Quizzes -> Users]
  /\ stored \in [Quizzes -> Nat]
  /\ submitted \in [Quizzes -> BOOLEAN]
  /\ pc \in [Requests -> {"idle", "over", "lost"} \cup Saving]
  /\ quiz \in [Requests -> Quizzes \cup {NoQuiz}]
  /\ \A r \in Requests : pc[r] # "idle" => quiz[r] \in Quizzes
  /\ wire \subseteq Requests \X Saving
  /\ reply \in [Requests -> {"none", "ok", "error"}]
  /\ outcome \in [Requests -> {"none", "saved", "not_found", "conflict",
                               "bad_request", "failed"}]
  /\ attempts \subseteq Requests
  /\ answered \subseteq attempts
  /\ astray \subseteq Requests

-----------------------------------------------------------------------------
(* BoundedQuizDefinitions *)

\* Mutant: a submit in flight does not stop the clock.
ExpiredInFlight(q) == clock - stored[q] > TTL

\* A submit in flight never expires.
Expired(q) == clock - stored[q] > TTL /\ ~submitted[q]

Live == {q \in pending : ~Expired(q)}

Of(qs, u) == {q \in qs : owner[q] = u}

\* The oldest of these, ties by id.
Oldest(qs) == {q \in qs : \A p \in qs : stored[q] <= stored[p]}

\* What may be evicted first: never a submit in flight.
Victims(qs) == Oldest({q \in qs : ~submitted[q]})

\* The sets the store may keep when candidates are evicted, oldest first, until
\* fewer than cap are left or none can go: everything kept but evictable is at
\* least as young as everything evicted.
Kept(qs, cap) ==
  {keep \in SUBSET qs :
     /\ \A q \in qs \ keep :
          ~submitted[q] /\ \A p \in keep : submitted[p] \/ stored[q] <= stored[p]
     /\ Cardinality(keep) < cap \/ Victims(keep) = {}
     /\ keep # qs => Cardinality(keep) + 1 >= cap /\ Cardinality(qs) >= cap}

\* /api/quiz/generate stores a new definition under a fresh id: expired ones go,
\* then the student's oldest, then anybody's.
Put(q) ==
  /\ q \notin made
  /\ \E mine \in Kept(Of(Live, owner[q]), MaxPerUser) :
       \E rest \in Kept(mine \cup (Live \ Of(Live, owner[q])), MaxGlobal) :
         pending' = rest \cup {q}
  /\ made' = made \cup {q}
  /\ stored' = [stored EXCEPT ![q] = clock]
  /\ UNCHANGED <<clock, owner, submitted, requestVars, dbVars>>

-----------------------------------------------------------------------------
(* /api/quiz/submit *)

Goto(r, place) == pc' = [pc EXCEPT ![r] = place]

Respond(r, answer) ==
  /\ outcome' = [outcome EXCEPT ![r] = answer]
  /\ Goto(r, "over")

Send(r, op) ==
  /\ wire' = wire \cup {<<r, op>>}
  /\ reply' = [reply EXCEPT ![r] = "none"]
  /\ UNCHANGED <<attempts, answered, astray>>

\* Store lookup, ownership, flag and answers are checked and the flag is set
\* before the first await.  The lookup drops what has expired, perhaps only the
\* quiz it asks for.
Submit(r, q, u) ==
  /\ pc[r] = "idle"
  /\ quiz' = [quiz EXCEPT ![r] = q]
  /\ \E swept \in {Live, pending \ ({q} \ Live)} : pending' = swept
  /\ \/ /\ ~(q \in Live /\ owner[q] = u)
        /\ Respond(r, "not_found")
        /\ UNCHANGED <<submitted, dbVars>>
     \/ /\ q \in Live /\ owner[q] = u /\ submitted[q]
        /\ Respond(r, "conflict")
        /\ UNCHANGED <<submitted, dbVars>>
     \/ /\ q \in Live /\ owner[q] = u /\ ~submitted[q]
        /\ Respond(r, "bad_request")
        /\ UNCHANGED <<submitted, dbVars>>
     \/ /\ q \in Live /\ owner[q] = u /\ ~submitted[q]
        /\ submitted' = [submitted EXCEPT ![q] = TRUE]
        /\ Goto(r, "insert")
        /\ Send(r, "insert")
        /\ UNCHANGED outcome
  /\ UNCHANGED <<clock, made, owner, stored>>

\* A call that was answered with an error, or not at all in time.
CallFailed(r, op) ==
  /\ pc[r] = op
  /\ reply[r] = "error" \/ "lose" \in Faults

\* DatabaseError: the flag is taken back, the student may try again.
Fail(r) ==
  /\ submitted' = [submitted EXCEPT ![quiz[r]] = FALSE]
  /\ Respond(r, "failed")
  /\ UNCHANGED <<storeVars, quiz>>

\* A refused insert stored nothing.  One that was not answered may have stored
\* the attempt, or may do so yet: nothing deletes it.
InsertFails(r) ==
  /\ CallFailed(r, "insert")
  /\ Fail(r)
  /\ astray' = IF reply[r] = "error" THEN astray ELSE astray \cup {r}
  /\ UNCHANGED <<wire, reply, attempts, answered>>

InsertDone(r) ==
  /\ pc[r] = "insert"
  /\ reply[r] = "ok"
  /\ Goto(r, "answers")
  /\ Send(r, "answers")
  /\ UNCHANGED <<storeVars, submitted, quiz, outcome>>

\* Mutant: the attempt is left where it is.
AnswersFailOutright(r) ==
  /\ CallFailed(r, "answers")
  /\ Fail(r)
  /\ UNCHANGED dbVars

\* The answers were not stored, or so it seems: the attempt is deleted again.
AnswersFail(r) ==
  /\ CallFailed(r, "answers")
  /\ Goto(r, "delete")
  /\ Send(r, "delete")
  /\ UNCHANGED <<storeVars, submitted, quiz, outcome>>

\* The delete is best effort: the request fails whatever became of it.
RollbackDone(r) ==
  /\ pc[r] = "delete"
  /\ reply[r] # "none" \/ "lose" \in Faults
  /\ Fail(r)
  /\ UNCHANGED dbVars

\* Mutant: the definition stays in the store, its flag down.
SavedKeepsQuiz(r) ==
  /\ pc[r] = "answers"
  /\ reply[r] = "ok"
  /\ submitted' = [submitted EXCEPT ![quiz[r]] = FALSE]
  /\ Respond(r, "saved")
  /\ UNCHANGED <<storeVars, quiz, dbVars>>

\* Both inserts are confirmed: the definition is removed.
Saved(r) ==
  /\ pc[r] = "answers"
  /\ reply[r] = "ok"
  /\ pending' = pending \ {quiz[r]}
  /\ Respond(r, "saved")
  /\ UNCHANGED <<clock, made, owner, stored, submitted, quiz, dbVars>>

-----------------------------------------------------------------------------
(* The database *)

\* An answer reaches its request only while that still waits for this call.
Answer(r, op, a) ==
  /\ wire' = wire \ {<<r, op>>}
  /\ reply' = IF pc[r] = op THEN [reply EXCEPT ![r] = a] ELSE reply

\* The delete of an attempt; the foreign key takes its answers along.
RunDelete(r) ==
  /\ attempts' = attempts \ {r}
  /\ answered' = answered \ {r}

\* The call runs, and its answer may still be lost; answers need their attempt.
Run(r, op) ==
  /\ <<r, op>> \in wire
  /\ CASE op = "insert" ->
            attempts' = attempts \cup {r} /\ Answer(r, op, "ok") /\ UNCHANGED answered
       [] op = "answers" ->
            /\ answered' = answered \cup ({r} \cap attempts)
            /\ Answer(r, op, IF r \in attempts THEN "ok" ELSE "error")
            /\ UNCHANGED attempts
       [] op = "delete" -> RunDelete(r) /\ Answer(r, op, "ok")
  /\ UNCHANGED <<storeVars, submitted, requestVars, astray>>

\* A delete that does not run is logged, if its failure is heard, and that is all.
NotRun(r, op) == astray' = IF op = "delete" THEN astray \cup {r} ELSE astray

\* The database refuses the call.
Reject(r, op) ==
  /\ <<r, op>> \in wire
  /\ "reject" \in Faults
  /\ Answer(r, op, "error")
  /\ NotRun(r, op)
  /\ UNCHANGED <<storeVars, submitted, requestVars, attempts, answered>>

\* The call never arrives.
Lose(r, op) ==
  /\ <<r, op>> \in wire
  /\ "lose" \in Faults
  /\ wire' = wire \ {<<r, op>>}
  /\ NotRun(r, op)
  /\ UNCHANGED <<storeVars, submitted, requestVars, reply, attempts, answered>>

-----------------------------------------------------------------------------
(* The environment *)

Tick ==
  /\ clock < MaxClock
  /\ clock' = clock + 1
  /\ UNCHANGED <<pending, made, owner, stored, submitted, requestVars, dbVars>>

\* The server stops: definitions live only in its memory.
Restart ==
  /\ "restart" \in Faults
  /\ pending' = {}
  /\ submitted' = [q \in Quizzes |-> FALSE]
  /\ pc' = [r \in Requests |-> IF pc[r] \in Saving THEN "lost" ELSE pc[r]]
  /\ UNCHANGED <<clock, made, owner, stored, quiz, outcome, dbVars>>

Work(r) ==
  \/ InsertFails(r) \/ InsertDone(r) \/ AnswersFail(r) \/ RollbackDone(r) \/ Saved(r)

Database ==
  \E r \in Requests, op \in Saving : Run(r, op) \/ Reject(r, op) \/ Lose(r, op)

Next ==
  \/ \E q \in Quizzes : Put(q)
  \/ \E r \in Requests :
       \/ \E q \in made, u \in Users : Submit(r, q, u)
       \/ Work(r)
  \/ Database
  \/ Tick
  \/ Restart

Spec == Init /\ [][Next]_vars

-----------------------------------------------------------------------------
(* Properties *)

\* A quiz is graded once: at most one request is told that it was saved, and
\* nothing ever takes that attempt or its answers away again.
OneSuccessPerQuiz ==
  /\ \A r, s \in Requests :
       (outcome[r] = "saved" /\ outcome[s] = "saved" /\ quiz[r] = quiz[s]) => r = s
  /\ \A r \in Requests : outcome[r] = "saved" => r \in answered

\* While an attempt is being saved its definition stays in the store with the
\* flag up, whatever is generated, expires or is looked up meanwhile; so a second
\* submit gets a conflict, not a second insert.
SubmitKeepsDefinition ==
  /\ \A r \in Requests : pc[r] \in Saving =>
       quiz[r] \in pending /\ submitted[quiz[r]]
  /\ \A r, s \in Requests :
       (pc[r] \in Saving /\ pc[s] \in Saving /\ quiz[r] = quiz[s]) => r = s

\* The store of a student never outgrows its cap by more than the submits in
\* flight forced on it.
PendingBounded ==
  \A u \in Users :
    LET n == Cardinality(Of(pending, u))
    IN  n <= MaxPerUser \/ n <= Cardinality(Requests) + 1

Quiet == wire = {} /\ \A r \in Requests : pc[r] \notin Saving

\* A scored attempt that stays in quiz_attempts once all calls are done was
\* reported saved, or cut off by a restart, and is then the only one of its quiz:
\* submits that were refused, that raced or that failed after their insert leave
\* nothing that the history would count.  The exceptions are rows that
\* save_quiz_attempt never learned of, or failed to delete.
OneAttemptPerQuiz ==
  Quiet => \A r, s \in attempts \ astray :
             /\ outcome[r] = "saved" \/ pc[r] = "lost"
             /\ quiz[r] = quiz[s] => r = s
=============================================================================
