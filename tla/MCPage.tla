-------------------------------- MODULE MCPage --------------------------------
(***************************************************************************)
(* The parts of the page that share nothing but the screen, side by side:    *)
(* a behaviour is one of any single part, the others rest at a state of      *)
(* their own.                                                               *)
(***************************************************************************)
EXTENDS NotesClient, QuizModal, StudentPanel, ShareDialog, OfflineShell,
        ChatAttachment, StreamText, NdjsonReader

CONSTANTS a1, b1, A, B, c1, c2, P1

VARIABLE part

Parts == {"notes", "quiz", "panel", "share", "shell", "attachment", "text", "reader"}

\* One answer of each student.
MCOwner == (a1 :> A) @@ (b1 :> B)

\* The students can be exchanged together with their answers, and the chats that
\* are shared with each other; the panel and the PDFs have names of their own.
Swapped == [x \in {a1, b1, A, B} |->
              CASE x = A -> B [] x = B -> A [] x = a1 -> b1 [] x = b1 -> a1]
Same(S) == [x \in S |-> x]
Symmetry == {s @@ t : s \in {Same({a1, b1, A, B}), Swapped}, t \in Permutations({c1, c2})}

\* Not followed further: runs in which a request outlived its visit, which the
\* properties exclude; and saves and mutations once IndexedDB has refused a write
\* (visits and loads do go on).
WithinBounds == ~mixed /\ (state.storageOk \/ {mut} \cup Range(saves) = {Idle})

pageVars == <<part, notesVars, quizModalVars, panelVars, shareVars, shellVars,
              attachVars, text, readerVars>>

\* A part that rests does so in one state.
NotesRest == session = NoUser /\ online /\ idb = EmptyStore
PanelRests == pupil = P1
RoomRests == room = (CHOOSE r \in Rooms : TRUE)

Init ==
  /\ part \in Parts
  /\ NotesInit /\ (part # "notes" => NotesRest)
  /\ QuizModalInit
  /\ PanelInit /\ (part # "panel" => PanelRests)
  /\ ShareInit /\ ShellInit
  /\ AttachInit /\ (part # "attachment" => RoomRests)
  /\ TextInit /\ ReaderInit

Next ==
  \/ /\ part = "notes" /\ NotesNext
     /\ UNCHANGED <<part, quizModalVars, panelVars, shareVars, shellVars, attachVars, text, readerVars>>
  \/ /\ part = "quiz" /\ QuizModalNext
     /\ UNCHANGED <<part, notesVars, panelVars, shareVars, shellVars, attachVars, text, readerVars>>
  \/ /\ part = "panel" /\ PanelNext
     /\ UNCHANGED <<part, notesVars, quizModalVars, shareVars, shellVars, attachVars, text, readerVars>>
  \/ /\ part = "share" /\ ShareNext
     /\ UNCHANGED <<part, notesVars, quizModalVars, panelVars, shellVars, attachVars, text, readerVars>>
  \/ /\ part = "shell" /\ ShellNext
     /\ UNCHANGED <<part, notesVars, quizModalVars, panelVars, shareVars, attachVars, text, readerVars>>
  \/ /\ part = "attachment" /\ AttachNext
     /\ UNCHANGED <<part, notesVars, quizModalVars, panelVars, shareVars, shellVars, text, readerVars>>
  \/ /\ part = "text" /\ TextArrives
     /\ UNCHANGED <<part, notesVars, quizModalVars, panelVars, shareVars, shellVars, attachVars, readerVars>>
  \/ /\ part = "reader" /\ ReaderNext
     /\ UNCHANGED <<part, notesVars, quizModalVars, panelVars, shareVars, shellVars, attachVars, text>>

Spec == Init /\ [][Next]_pageVars
===============================================================================
