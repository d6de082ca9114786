----------------------------- MODULE StudentPanel -----------------------------
(***************************************************************************)
(* The learning profile of a student: a panel whose data is loaded in two    *)
(* awaits each time it is opened, while students sign in and out and sessions *)
(* expire.  A load paints only if no other opening, closing or Log out came   *)
(* in between.                                                               *)
(***************************************************************************)
EXTENDS Naturals

CONSTANTS
  Pupils, Nobody,
  MaxOpenings    \* bound: value of _spGeneration

ASSUME PanelAssumption == Nobody \notin Pupils /\ MaxOpenings \in Nat

VARIABLES
  pupil,       \* the signed-in student
  panelOpen,
  painted,     \* whose data is in the panel
  epoch,       \* _spGeneration
  looks,       \* loadStudentProfilePanelData calls: [epoch, at, token]
  outlived     \* history: the panel that is open outlived its session

panelVars == <<pupil, panelOpen, painted, epoch, looks, outlived>>

PanelInit ==
  /\ pupil \in Pupils
  /\ panelOpen = FALSE /\ painted = Nobody /\ epoch = 0 /\ looks = {} /\ outlived = FALSE

\* _spResetStudentProfileState
ResetPanel ==
  /\ painted' = Nobody
  /\ epoch' = epoch + 1

OpenStudentProfilePanel ==
  /\ pupil # Nobody /\ ~panelOpen /\ epoch < MaxOpenings
  /\ panelOpen' = TRUE
  /\ ResetPanel
  /\ looks' = looks \cup {[epoch |-> epoch + 1, at |-> "session", token |-> Nobody]}
  /\ outlived' = FALSE
  /\ UNCHANGED pupil

CloseStudentProfilePanel ==
  /\ panelOpen
  /\ panelOpen' = FALSE
  /\ epoch' = epoch + 1
  /\ UNCHANGED <<pupil, painted, looks, outlived>>

\* Mutant: somebody being signed in is taken for the same student.
CurrentIfSignedIn(l) == pupil # Nobody

Current(l) == l.epoch = epoch

SessionKnown(l) ==
  /\ l \in looks /\ l.at = "session"
  /\ looks' = (looks \ {l}) \cup
       (IF Current(l) THEN {[l EXCEPT !.at = "answers", !.token = pupil]} ELSE {})
  /\ UNCHANGED <<pupil, panelOpen, painted, epoch, outlived>>

\* The three requests have settled; a section whose request failed says so.
SectionsSettle(l) ==
  /\ l \in looks /\ l.at = "answers"
  /\ looks' = looks \ {l}
  /\ painted' = IF Current(l) THEN l.token ELSE painted
  /\ UNCHANGED <<pupil, panelOpen, epoch, outlived>>

\* handleLogout closes the panel and resets it.
PanelLogout ==
  /\ pupil # Nobody /\ epoch < MaxOpenings
  /\ pupil' = Nobody
  /\ panelOpen' = FALSE
  /\ painted' = Nobody /\ epoch' = epoch + 2
  /\ UNCHANGED <<looks, outlived>>

\* onAuthStateChange: a session that expired.  The panel is not touched.
PanelSessionEnds ==
  /\ pupil # Nobody
  /\ pupil' = Nobody
  /\ outlived' = (outlived \/ panelOpen)
  /\ UNCHANGED <<panelOpen, painted, epoch, looks>>

PanelSignIn(u) ==
  /\ pupil = Nobody
  /\ pupil' = u
  /\ UNCHANGED <<panelOpen, painted, epoch, looks, outlived>>

PanelNext ==
  \/ OpenStudentProfilePanel \/ CloseStudentProfilePanel
  \/ \E l \in looks : SessionKnown(l) \/ SectionsSettle(l)
  \/ PanelLogout \/ PanelSessionEnds \/ \E u \in Pupils : PanelSignIn(u)

PanelSpec == PanelInit /\ [][PanelNext]_panelVars

-----------------------------------------------------------------------------
\* The panel never shows the learning profile of a student who is not signed in,
\* not even for a moment, however late a load ends and whoever opened the panel
\* since; but a panel that is open when its session expires stays as it is.
PanelShowsOwn == (panelOpen /\ ~outlived) => painted \in {pupil, Nobody}
=============================================================================
