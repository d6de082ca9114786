---------------------------- MODULE AnswerContract ----------------------------
(***************************************************************************)
(* What the page promises about a streamed answer, whatever the connection,  *)
(* the server and the student do: a finished answer was declared finished by *)
(* the server; an unfinished one is kept only when the student stopped it,    *)
(* is then marked as cut, and holds what had been heard by that moment.       *)
(***************************************************************************)
EXTENDS Naturals

CONSTANT Asks   \* questions that are streamed

VARIABLES
  heard,    \* pieces of the answer since it was last started over
  verdict,  \* the last terminal event since then
  stopped,  \* the student pressed Stop
  kept      \* what the chat keeps

answerVars == <<heard, verdict, stopped, kept>>

AnswerInit ==
  /\ heard = [a \in Asks |-> 0]
  /\ verdict = [a \in Asks |-> "none"]
  /\ stopped = [a \in Asks |-> FALSE]
  /\ kept = [a \in Asks |-> "open"]

Open(a) == kept[a] = "open" /\ ~stopped[a]

Hear(a) ==
  /\ Open(a)
  /\ heard' = [heard EXCEPT ![a] = @ + 1]
  /\ UNCHANGED <<verdict, stopped, kept>>

StartOver(a) ==
  /\ Open(a)
  /\ heard' = [heard EXCEPT ![a] = 0]
  /\ verdict' = [verdict EXCEPT ![a] = "none"]
  /\ UNCHANGED <<stopped, kept>>

Judge(a, v) ==
  /\ Open(a)
  /\ verdict' = [verdict EXCEPT ![a] = v]
  /\ UNCHANGED <<heard, stopped, kept>>

Stop(a) ==
  /\ Open(a)
  /\ stopped' = [stopped EXCEPT ![a] = TRUE]
  /\ UNCHANGED <<heard, verdict, kept>>

Keep(a, k) ==
  /\ kept[a] = "open"
  /\ \/ k = "whole" /\ verdict[a] = "done"
     \/ k = "cut" /\ stopped[a] /\ verdict[a] = "none" /\ heard[a] > 0
     \/ k = "nothing"
  /\ kept' = [kept EXCEPT ![a] = k]
  /\ heard' = [heard EXCEPT ![a] = 0]
  /\ verdict' = [verdict EXCEPT ![a] = "none"]
  /\ stopped' = [stopped EXCEPT ![a] = FALSE]

AnswerNext ==
  \E a \in Asks :
    \/ Hear(a) \/ StartOver(a) \/ Stop(a)
    \/ \E v \in {"done", "failed"} : Judge(a, v)
    \/ \E k \in {"whole", "cut", "nothing"} : Keep(a, k)

AnswerSpec == AnswerInit /\ [][AnswerNext]_answerVars
=============================================================================
