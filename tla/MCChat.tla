-------------------------------- MODULE MCChat --------------------------------
(***************************************************************************)
(* The chats of a notebook, and the notebooks of the students of a browser,  *)
(* side by side: a behaviour is one of either, the other one rests.          *)
(***************************************************************************)
EXTENDS ChatClient, ProjectStore

CONSTANTS A, B

VARIABLE side

MCRecent == (A :> "recent_A") @@ (B :> "recent_B") @@ (Guest :> "recent_guest")

pageVars == <<side, chatVars, projectVars>>

\* Chats are interchangeable, so it does not matter which one is there first.
First == CHOOSE c \in Chats : TRUE
FirstChat == active = First

\* Not followed further: what the properties exclude; and titles the student types
\* for another chat than the first, which is open, left, answered and deleted too.
WithinBounds == ~crossed /\ \A c \in Chats \ {First} : title[c] \notin Typed

ProjectRest == user = Guest /\ cache = None /\ ~full /\ table = None

Init ==
  /\ side \in {"chats", "notebooks"}
  /\ ChatInit /\ FirstChat
  /\ ProjectInit /\ (side # "notebooks" => ProjectRest)

Next ==
  \/ side = "chats" /\ ChatNext /\ UNCHANGED <<side, projectVars>>
  \/ side = "notebooks" /\ ProjectNext /\ UNCHANGED <<side, chatVars>>

Fairness ==
  /\ \A a \in Asks : WF_chatVars(Unwind(a))
  /\ WF_projectVars(side = "notebooks" /\ OpenApp)
  /\ \A u \in Students : WF_projectVars(Loaded(u))

Spec == Init /\ [][Next]_pageVars /\ Fairness

\* LoadSettles, of the side that loads.
NotebooksSettle == side = "notebooks" => LoadSettles
===============================================================================
