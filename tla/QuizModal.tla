------------------------------- MODULE QuizModal -------------------------------
(***************************************************************************)
(* The quiz dialog: generating, answering, the guard against losing an      *)
(* attempt, and saving the result.  One dialog, one set of globals, and     *)
(* requests that reach them whenever they end.                              *)
(***************************************************************************)
EXTENDS Naturals

CONSTANTS
  Quizzes,     \* ids of the quizzes the server can make
  NoQuiz,
  Questions    \* questions of a quiz

ASSUME QuizModalAssumption == NoQuiz \notin Quizzes /\ Questions \in Nat \ {0}

VARIABLES
  open,       \* the dialog is visible
  stage,      \* its view: "setup", "active", "result"
  quizId,     \* currentQuizId
  idx,        \* currentQuizIdx
  picked,     \* the current question has an answer
  discard,    \* "close the quiz?" is asked
  ready,      \* the Generate button is enabled
  making,     \* generations in flight
  made,       \* quizzes the server has made
  offer,      \* a toast offers to generate again
  sending,    \* submitQuizAttempt calls waiting for the session
  submits,    \* quiz ids on their way to be graded
  saveStatus, \* quiz-save-status
  overrun     \* history: Retry was used on a toast that had outlived its failure:
              \* another generation was running, or a quiz was on screen

quizModalVars == <<open, stage, quizId, idx, picked, discard, ready, making, made,
                   offer, sending, submits, saveStatus, overrun>>

QuizModalInit ==
  /\ open = FALSE /\ stage = "setup" /\ discard = FALSE
  /\ quizId = NoQuiz /\ idx = 0 /\ picked = FALSE
  /\ ready = TRUE /\ making = {} /\ made = {} /\ offer = FALSE
  /\ sending = 0 /\ submits = {} /\ saveStatus = ""
  /\ overrun = FALSE

attempt == <<stage, quizId, idx, picked, saveStatus>>

ResetQuizModal ==
  /\ stage' = "setup" /\ quizId' = NoQuiz /\ idx' = 0 /\ picked' = FALSE
  /\ saveStatus' = ""

QuizHasProgress == stage = "active" /\ (idx > 0 \/ picked)

-----------------------------------------------------------------------------
OpenQuizModal ==
  /\ ~open
  /\ open' = TRUE
  /\ ResetQuizModal
  /\ UNCHANGED <<discard, ready, making, made, offer, sending, submits, overrun>>

\* The close button, Escape and a click outside.
RequestCloseQuiz ==
  /\ open
  /\ IF QuizHasProgress THEN discard' = TRUE /\ UNCHANGED open
     ELSE open' = FALSE /\ UNCHANGED discard
  /\ UNCHANGED <<attempt, ready, making, made, offer, sending, submits, overrun>>

ContinueQuiz ==
  /\ discard
  /\ discard' = FALSE
  /\ UNCHANGED <<attempt, open, ready, making, made, offer, sending, submits, overrun>>

ConfirmQuizDiscard ==
  /\ discard
  /\ discard' = FALSE /\ open' = FALSE
  /\ ResetQuizModal
  /\ UNCHANGED <<ready, making, made, offer, sending, submits, overrun>>

-----------------------------------------------------------------------------
\* generateAndStartQuiz up to its answer; the button is disabled meanwhile.
StartMaking ==
  /\ \E q \in Quizzes \ (making \cup made) : making' = making \cup {q}
  /\ ready' = FALSE
  /\ UNCHANGED <<attempt, open, discard, made, sending, submits>>

\* Mutant: the button stays enabled during the request.
GenerateQuizAgain == open /\ stage = "setup" /\ StartMaking /\ UNCHANGED <<offer, overrun>>

GenerateQuiz == open /\ stage = "setup" /\ ready /\ StartMaking /\ UNCHANGED <<offer, overrun>>

\* The toast stays until it is used, dismissed or replaced.
RetryGenerate ==
  /\ offer /\ StartMaking
  /\ offer' = FALSE
  /\ overrun' = (overrun \/ making # {} \/ (open /\ stage = "active"))

DismissOffer ==
  /\ offer /\ offer' = FALSE
  /\ UNCHANGED <<attempt, open, discard, ready, making, made, sending, submits, overrun>>

Generation(q) ==
  /\ q \in making
  /\ making' = making \ {q}
  /\ ready' = TRUE
  /\ UNCHANGED <<open, discard, sending, submits, overrun>>

\* An answer of a server that could not register the quiz has no id.
QuizMade(q) ==
  /\ Generation(q)
  /\ made' = made \cup {q}
  /\ stage' = "active" /\ idx' = 0 /\ picked' = FALSE
  /\ quizId' \in {q, NoQuiz}
  /\ UNCHANGED <<offer, saveStatus>>

\* Refused or lost: a new offer; signed out or no questions: a plain notice.
MakingFails(q) ==
  /\ Generation(q)
  /\ offer' \in {TRUE, offer}
  /\ UNCHANGED <<attempt, made>>

-----------------------------------------------------------------------------
Answering == open /\ stage = "active" /\ ~discard

SelectQuizOption ==
  /\ Answering
  /\ picked' = TRUE
  /\ UNCHANGED <<open, stage, quizId, idx, discard, ready, making, made, offer, sending,
                 submits, saveStatus, overrun>>

\* After the last question the result is shown, and is sent off to be graded.
NextQuizQuestion ==
  /\ Answering /\ picked
  /\ IF idx + 1 < Questions
     THEN idx' = idx + 1 /\ picked' = FALSE /\ UNCHANGED <<stage, sending, saveStatus>>
     ELSE /\ stage' = "result"
          /\ saveStatus' = IF quizId = NoQuiz THEN "failed" ELSE "saving"
          /\ sending' = IF quizId = NoQuiz THEN sending ELSE sending + 1
          /\ UNCHANGED <<idx, picked>>
  /\ UNCHANGED <<open, quizId, discard, ready, making, made, offer, submits, overrun>>

\* submitQuizAttempt after getSession: the id and the answers are read now.
SendAttempt ==
  /\ sending > 0
  /\ sending' = sending - 1
  /\ \/ submits' = submits \cup {quizId} /\ UNCHANGED saveStatus
     \/ saveStatus' = "failed" /\ UNCHANGED submits      \* the session has expired
  /\ UNCHANGED <<open, stage, quizId, idx, picked, discard, ready, making, made, offer, overrun>>

\* Saved, or submitted before.
AttemptSaved(q) ==
  /\ q \in submits \ {NoQuiz}
  /\ submits' = submits \ {q}
  /\ saveStatus' = "saved" /\ quizId' = NoQuiz
  /\ UNCHANGED <<open, stage, idx, picked, discard, ready, making, made, offer, sending, overrun>>

AttemptNotSaved(q) ==
  /\ q \in submits
  /\ submits' = submits \ {q}
  /\ saveStatus' = "failed"
  /\ UNCHANGED <<open, stage, quizId, idx, picked, discard, ready, making, made, offer,
                 sending, overrun>>

QuizModalNext ==
  \/ OpenQuizModal \/ RequestCloseQuiz \/ ContinueQuiz \/ ConfirmQuizDiscard
  \/ GenerateQuiz \/ RetryGenerate \/ DismissOffer
  \/ \E q \in Quizzes : QuizMade(q) \/ MakingFails(q)
  \/ SelectQuizOption \/ NextQuizQuestion
  \/ SendAttempt
  \/ \E q \in Quizzes \cup {NoQuiz} : AttemptSaved(q) \/ AttemptNotSaved(q)

QuizModalSpec == QuizModalInit /\ [][QuizModalNext]_quizModalVars

-----------------------------------------------------------------------------
\* Answers that were given are lost only to Discard: however the dialog is
\* closed and opened again and whenever a generation ends, an attempt with
\* progress ends by its result or by that confirmation, also when a generation is
\* tried again from the toast of a failed one.  Only after a toast was used while
\* another generation ran, or a quiz was on screen, may its quiz end an attempt.
ProgressKept ==
  [][(QuizHasProgress /\ ~overrun) =>
        QuizHasProgress' \/ stage' = "result" \/ (discard /\ ~open')]_quizModalVars
=============================================================================
