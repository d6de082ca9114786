---------------------------- MODULE PageParts_proofs ----------------------------
(***************************************************************************)
(* Eight parts of the page, for any number of students, chats, openings,     *)
(* messages, assets, versions, notes, quizzes and characters: the learning   *)
(* panel, the share dialog, the PDF of a chat, the service worker, the notes *)
(* client, the quiz dialog, the boundary of what may be rendered of a        *)
(* streamed text, and the reader of its events.  Each has its own invariant. *)
(***************************************************************************)
EXTENDS NotesClient, QuizModal, StudentPanel, ShareDialog, ChatAttachment, OfflineShell,
        StreamText, NdjsonReader, SequenceTheorems, NaturalsInduction, WellFoundedInduction, TLAPS

-----------------------------------------------------------------------------
(* The learning panel.  A load that is still current belongs to an opening   *)
(* that was not followed by a closing or a Log out, and a panel that did not *)
(* outlive its session has somebody signed in.                               *)

PanelTypeOK ==
  /\ pupil \in Pupils \cup {Nobody} /\ painted \in Pupils \cup {Nobody}
  /\ panelOpen \in BOOLEAN /\ outlived \in BOOLEAN /\ epoch \in Nat
  /\ looks \subseteq [epoch : Nat, at : {"session", "answers"}, token : Pupils \cup {Nobody}]

LooksOld == \A l \in looks : l.epoch <= epoch

InSession == (panelOpen /\ ~outlived) => pupil # Nobody

LoadIsOwn ==
  (panelOpen /\ ~outlived) => \A l \in looks : Current(l) => l.token \in {pupil, Nobody}

PanelInv == PanelTypeOK /\ LooksOld /\ InSession /\ LoadIsOwn /\ PanelShowsOwn

LEMMA EpochGrows == PanelTypeOK => epoch + 1 \in Nat /\ epoch + 2 \in Nat
BY DEF PanelTypeOK

LEMMA PanelInit_Inv == PanelInit => PanelInv
<1> SUFFICES ASSUME PanelInit PROVE PanelInv
  OBVIOUS
<1>1. PanelTypeOK
  BY DEF PanelInit, PanelTypeOK
<1>2. LooksOld /\ InSession /\ LoadIsOwn /\ PanelShowsOwn
  BY DEF PanelInit, LooksOld, InSession, LoadIsOwn, PanelShowsOwn
<1> QED
  BY <1>1, <1>2 DEF PanelInv

LEMMA PanelStep_Inv == PanelInv /\ [PanelNext]_panelVars => PanelInv'
<1> SUFFICES ASSUME PanelInv, [PanelNext]_panelVars PROVE PanelInv'
  OBVIOUS
<1> USE PanelAssumption DEF PanelInv
<1>1. CASE OpenStudentProfilePanel
  <2>1. PanelTypeOK'
    <3>1. [epoch |-> epoch + 1, at |-> "session", token |-> Nobody] \in
            [epoch : Nat, at : {"session", "answers"}, token : Pupils \cup {Nobody}]
      BY EpochGrows
    <3> QED
      BY <1>1, <3>1, EpochGrows DEF OpenStudentProfilePanel, ResetPanel, PanelTypeOK
  <2>2. LooksOld'
    BY <1>1 DEF OpenStudentProfilePanel, ResetPanel, PanelTypeOK, LooksOld
  <2>3. InSession' /\ LoadIsOwn' /\ PanelShowsOwn'
    BY <1>1 DEF OpenStudentProfilePanel, ResetPanel, PanelTypeOK, LooksOld, InSession, LoadIsOwn, PanelShowsOwn, Current
  <2> QED
    BY <2>1, <2>2, <2>3
<1>2. CASE CloseStudentProfilePanel
  <2>1. PanelTypeOK'
    BY <1>2, EpochGrows DEF CloseStudentProfilePanel, PanelTypeOK
  <2>2. LooksOld'
    BY <1>2 DEF CloseStudentProfilePanel, PanelTypeOK, LooksOld
  <2>3. InSession' /\ LoadIsOwn' /\ PanelShowsOwn'
    BY <1>2 DEF CloseStudentProfilePanel, PanelTypeOK, LooksOld, InSession, LoadIsOwn, PanelShowsOwn, Current
  <2> QED
    BY <2>1, <2>2, <2>3
<1>3. ASSUME NEW l \in looks, SessionKnown(l) PROVE PanelInv'
  <2>1. PanelTypeOK'
    BY <1>3 DEF SessionKnown, PanelTypeOK, Current
  <2>2. LooksOld'
    BY <1>3 DEF SessionKnown, PanelTypeOK, LooksOld, Current
  <2>3. InSession' /\ LoadIsOwn' /\ PanelShowsOwn'
    BY <1>3 DEF SessionKnown, PanelTypeOK, LooksOld, InSession, LoadIsOwn, PanelShowsOwn, Current
  <2> QED
    BY <2>1, <2>2, <2>3
<1>4. ASSUME NEW l \in looks, SectionsSettle(l) PROVE PanelInv'
  <2>1. PanelTypeOK'
    BY <1>4 DEF SectionsSettle, PanelTypeOK, Current
  <2>2. LooksOld'
    BY <1>4 DEF SectionsSettle, PanelTypeOK, LooksOld, Current
  <2>3. InSession' /\ LoadIsOwn' /\ PanelShowsOwn'
    BY <1>4 DEF SectionsSettle, PanelTypeOK, LooksOld, InSession, LoadIsOwn, PanelShowsOwn, Current
  <2> QED
    BY <2>1, <2>2, <2>3
<1>5. CASE PanelLogout
  <2>1. PanelTypeOK'
    BY <1>5, EpochGrows DEF PanelLogout, PanelTypeOK
  <2>2. LooksOld'
    BY <1>5 DEF PanelLogout, PanelTypeOK, LooksOld
  <2>3. InSession' /\ LoadIsOwn' /\ PanelShowsOwn'
    BY <1>5 DEF PanelLogout, PanelTypeOK, LooksOld, InSession, LoadIsOwn, PanelShowsOwn, Current
  <2> QED
    BY <2>1, <2>2, <2>3
<1>6. CASE PanelSessionEnds
  <2>1. PanelTypeOK'
    BY <1>6 DEF PanelSessionEnds, PanelTypeOK
  <2>2. LooksOld'
    BY <1>6 DEF PanelSessionEnds, PanelTypeOK, LooksOld
  <2>3. InSession' /\ LoadIsOwn' /\ PanelShowsOwn'
    BY <1>6 DEF PanelSessionEnds, PanelTypeOK, LooksOld, InSession, LoadIsOwn, PanelShowsOwn, Current
  <2> QED
    BY <2>1, <2>2, <2>3
<1>7. ASSUME NEW u \in Pupils, PanelSignIn(u) PROVE PanelInv'
  <2>1. PanelTypeOK'
    BY <1>7 DEF PanelSignIn, PanelTypeOK
  <2>2. LooksOld'
    BY <1>7 DEF PanelSignIn, PanelTypeOK, LooksOld
  <2>3. InSession' /\ LoadIsOwn' /\ PanelShowsOwn'
    BY <1>7 DEF PanelSignIn, PanelTypeOK, LooksOld, InSession, LoadIsOwn, PanelShowsOwn, Current
  <2> QED
    BY <2>1, <2>2, <2>3
<1>8. CASE UNCHANGED panelVars
  <2>1. PanelTypeOK'
    BY <1>8 DEF panelVars, PanelTypeOK
  <2>2. LooksOld'
    BY <1>8 DEF panelVars, PanelTypeOK, LooksOld
  <2>3. InSession' /\ LoadIsOwn' /\ PanelShowsOwn'
    BY <1>8 DEF panelVars, PanelTypeOK, LooksOld, InSession, LoadIsOwn, PanelShowsOwn, Current
  <2> QED
    BY <2>1, <2>2, <2>3
<1> QED
  BY <1>1, <1>2, <1>3, <1>4, <1>5, <1>6, <1>7, <1>8 DEF PanelNext

\* loadStudentProfilePanelData: whatever awaits end whenever, an open panel shows
\* the student who is signed in or nobody, until its session expires under it.
THEOREM PanelCorrect == PanelSpec => []PanelShowsOwn
<1>1. PanelInv => PanelShowsOwn
  BY DEF PanelInv
<1> QED
  BY <1>1, PanelInit_Inv, PanelStep_Inv, PTL DEF PanelSpec

-----------------------------------------------------------------------------
(* The share dialog.  What the preview lists is what was captured with the   *)
(* chat, and a request to publish carries what was listed.                   *)

Captured == [of : Talks, text : Nat]
MaybeCaptured == Captured \cup {NoChat}
ShareRequest == [kind : {"load", "create", "revoke"}, chat : Captured, at : {"sent", "served"},
                 live : BOOLEAN]

ShareTypeOK ==
  /\ turns \in [Talks -> Nat] /\ published \in [Talks -> Nat]
  /\ shareChat \in MaybeCaptured /\ drawn \in MaybeCaptured
  /\ requests \subseteq ShareRequest

ListedIsCaptured == shareView = "preview" => drawn = shareChat

CreatesApproved == \A r \in requests : r.kind = "create" => r.chat \in approved

ShareInv == ShareTypeOK /\ ListedIsCaptured /\ CreatesApproved /\ ApprovedIsShared

LEMMA ShareInit_Inv == ShareInit => ShareInv
BY DEF ShareInit, ShareInv, ShareTypeOK, MaybeCaptured, ListedIsCaptured, CreatesApproved,
       ApprovedIsShared

\* Drawing keeps the preview and the capture together.
LEMMA RenderKeeps ==
  ASSUME ShareTypeOK, NEW v, Render(v, shareChat), UNCHANGED shareChat
  PROVE  ListedIsCaptured' /\ drawn' \in MaybeCaptured
BY DEF ShareTypeOK, Render, ListedIsCaptured, MaybeCaptured, NoChat

\* A request that is sent is well formed and carries what it is given.
LEMMA SendKeeps ==
  ASSUME NEW kind \in {"load", "create", "revoke"}, NEW chat \in Captured, SendShare(kind, chat)
  PROVE  \E r \in ShareRequest : requests' = requests \cup {r} /\ r.kind = kind /\ r.chat = chat
<1> DEFINE r == [kind |-> kind, chat |-> chat, at |-> "sent", live |-> FALSE]
<1>1. r \in ShareRequest /\ r.kind = kind /\ r.chat = chat
  BY DEF ShareRequest
<1>2. requests' = requests \cup {r}
  BY DEF SendShare
<1> QED
  BY <1>1, <1>2

LEMMA ShareStep_Inv == ShareInv /\ [ShareNext]_shareVars => ShareInv'
<1> SUFFICES ASSUME ShareInv, [ShareNext]_shareVars PROVE ShareInv'
  OBVIOUS
<1> USE ShareAssumption DEF ShareInv
<1>1. ASSUME NEW c \in Talks, TalkGoesOn(c) PROVE ShareInv'
  BY <1>1 DEF TalkGoesOn, ShareTypeOK, ListedIsCaptured, CreatesApproved, ApprovedIsShared
<1>2. ASSUME NEW c \in Talks, ShareChatLink(c) PROVE ShareInv'
  <2>1. shareChat' \in Captured
    BY <1>2 DEF ShareChatLink, ShareTypeOK, Captured
  <2>2. CASE turns[c] = 0
    BY <1>2, <2>1, <2>2 DEF ShareChatLink, ShareTypeOK, MaybeCaptured, ListedIsCaptured,
          CreatesApproved, ApprovedIsShared
  <2>3. CASE turns[c] # 0
    <3>1. shareView' = "loading" /\ SendShare("load", shareChat')
      BY <1>2, <2>3 DEF ShareChatLink
    <3>2. PICK r \in ShareRequest : requests' = requests \cup {r} /\ r.kind = "load"
      BY <2>1, <3>1, SendKeeps
    <3> QED
      BY <1>2, <2>1, <3>1, <3>2 DEF ShareChatLink, ShareTypeOK, MaybeCaptured, ListedIsCaptured,
            CreatesApproved, ApprovedIsShared
  <2> QED
    BY <2>2, <2>3
<1>3. CASE RetryLoad
  <2>1. shareChat \in Captured
    BY <1>3 DEF RetryLoad, ShareTypeOK, MaybeCaptured
  <2>2. PICK r \in ShareRequest : requests' = requests \cup {r} /\ r.kind = "load"
    BY <1>3, <2>1, SendKeeps DEF RetryLoad
  <2>3. ListedIsCaptured' /\ drawn' \in MaybeCaptured
    BY <1>3, RenderKeeps DEF RetryLoad
  <2> QED
    BY <1>3, <2>2, <2>3 DEF RetryLoad, ShareTypeOK, CreatesApproved, ApprovedIsShared
<1>4. CASE CloseShareModal
  BY <1>4 DEF CloseShareModal, DialogClosed, ShareTypeOK, MaybeCaptured, ListedIsCaptured,
        CreatesApproved, ApprovedIsShared
<1>5. CASE CreateShare
  <2>1. shareChat \in Captured /\ drawn = shareChat
    BY <1>5 DEF CreateShare, ShareTypeOK, MaybeCaptured, ListedIsCaptured
  <2>2. PICK r \in ShareRequest : requests' = requests \cup {r} /\ r.chat = shareChat
    BY <1>5, <2>1, SendKeeps DEF CreateShare
  <2> QED
    BY <1>5, <2>1, <2>2 DEF CreateShare, ShareTypeOK, ListedIsCaptured, CreatesApproved,
          ApprovedIsShared
<1>6. CASE RevokeShare
  <2>1. shareChat \in Captured
    BY <1>6 DEF RevokeShare, ShareTypeOK, MaybeCaptured
  <2>2. PICK r \in ShareRequest : requests' = requests \cup {r} /\ r.kind = "revoke"
    BY <1>6, <2>1, SendKeeps DEF RevokeShare
  <2> QED
    BY <1>6, <2>2 DEF RevokeShare, ShareTypeOK, ListedIsCaptured, CreatesApproved,
          ApprovedIsShared
<1>7. ASSUME NEW r \in requests, ServeShare(r) PROVE ShareInv'
  <2> DEFINE c == r.chat.of
  <2>1. c \in Talks /\ r.chat.text \in Nat /\ r.chat = [of |-> c, text |-> r.chat.text]
    BY DEF ShareTypeOK, ShareRequest, Captured
  <2>2. published' \in [Talks -> Nat] /\ ApprovedIsShared'
    <3>1. CASE r.kind = "create" /\ published[c] = 0
      <4>1. published' = [published EXCEPT ![c] = r.chat.text]
        BY <1>7, <3>1 DEF ServeShare, Publish
      <4> QED
        BY <1>7, <2>1, <3>1, <4>1 DEF ServeShare, ShareTypeOK, CreatesApproved, ApprovedIsShared
    <3>2. CASE r.kind = "revoke"
      <4>1. published' = [published EXCEPT ![c] = 0]
        BY <1>7, <3>2 DEF ServeShare, Publish
      <4> QED
        BY <1>7, <2>1, <4>1 DEF ServeShare, ShareTypeOK, ApprovedIsShared
    <3>3. CASE ~(r.kind = "create" /\ published[c] = 0) /\ r.kind # "revoke"
      <4>1. published' = published
        BY <1>7, <3>3 DEF ServeShare, Publish
      <4> QED
        BY <1>7, <4>1 DEF ServeShare, ShareTypeOK, ApprovedIsShared
    <3> QED
      BY <3>1, <3>2, <3>3
  <2>3. requests' = (requests \ {r}) \cup
                    {[r EXCEPT !.at = "served", !.live = published'[c] > 0]}
    BY <1>7 DEF ServeShare
  <2>4. PICK served \in ShareRequest :
          /\ requests' = (requests \ {r}) \cup {served}
          /\ served.kind = r.kind /\ served.chat = r.chat
    <3> DEFINE served == [r EXCEPT !.at = "served", !.live = published'[c] > 0]
    <3>1. (published'[c] > 0) \in BOOLEAN
      OBVIOUS
    <3>2. served \in ShareRequest /\ served.kind = r.kind /\ served.chat = r.chat
      BY <3>1 DEF ShareTypeOK, ShareRequest
    <3> QED
      BY <2>3, <3>2
  <2> QED
    BY <1>7, <2>2, <2>4 DEF ServeShare, ShareTypeOK, ListedIsCaptured, CreatesApproved
<1>8. ASSUME NEW r \in requests, ShareReply(r) PROVE ShareInv'
  <2>1. ListedIsCaptured' /\ drawn' \in MaybeCaptured
    BY <1>8, RenderKeeps DEF ShareReply
  <2> QED
    BY <1>8, <2>1 DEF ShareReply, Answered, ShareTypeOK, CreatesApproved, ApprovedIsShared
<1>9. ASSUME NEW r \in requests, ShareFails(r) PROVE ShareInv'
  <2>1. ListedIsCaptured' /\ drawn' \in MaybeCaptured
    <3>1. CASE r.kind = "load"
      BY <1>9, <3>1, RenderKeeps DEF ShareFails
    <3>2. CASE r.kind # "load"
      BY <1>9, <3>2 DEF ShareFails, ListedIsCaptured, ShareTypeOK
    <3> QED
      BY <3>1, <3>2
  <2> QED
    BY <1>9, <2>1 DEF ShareFails, Answered, ShareTypeOK, CreatesApproved, ApprovedIsShared
<1>10. ASSUME NEW r \in requests, ShareSignedOut(r) PROVE ShareInv'
  BY <1>10 DEF ShareSignedOut, Answered, DialogClosed, ShareTypeOK, MaybeCaptured,
        ListedIsCaptured, CreatesApproved, ApprovedIsShared
<1>11. CASE UNCHANGED shareVars
  BY <1>11 DEF shareVars, ShareTypeOK, ListedIsCaptured, CreatesApproved, ApprovedIsShared
<1> QED
  BY <1>1, <1>2, <1>3, <1>4, <1>5, <1>6, <1>7, <1>8, <1>9, <1>10, <1>11 DEF ShareNext

\* createShare: what is published was listed on screen when it was approved, for
\* any chats and any order of replies.
THEOREM SharingCorrect == ShareSpec => []ApprovedIsShared
<1>1. ShareInv => ApprovedIsShared
  BY DEF ShareInv
<1> QED
  BY <1>1, ShareInit_Inv, ShareStep_Inv, PTL DEF ShareSpec
-----------------------------------------------------------------------------
(* The PDF of a chat: AttachmentShown needs only the types beside it.        *)

AttachInv ==
  /\ room \in Rooms /\ pdf \in [Rooms -> BOOLEAN] /\ bar \in BOOLEAN /\ late \in BOOLEAN
  /\ modeOf \in [Rooms -> {"direct", "socratic"}]
  /\ AttachmentShown

LEMMA AttachStep_Inv == AttachInv /\ [AttachNext]_attachVars => AttachInv'
<1> SUFFICES ASSUME AttachInv, [AttachNext]_attachVars PROVE AttachInv'
  OBVIOUS
<1> USE DEF AttachInv, AttachmentShown
<1>1. ASSUME NEW c \in Rooms, EnterRoom(c) PROVE AttachInv'
  BY <1>1 DEF EnterRoom
<1>2. ASSUME NEW c \in Rooms, PDFUploaded(c) PROVE AttachInv'
  BY <1>2 DEF PDFUploaded, ShowPDF
<1>3. ASSUME NEW c \in Rooms, UploadFails(c) PROVE AttachInv'
  BY <1>3 DEF UploadFails
<1>4. ASSUME NEW c \in Rooms, PDFCleared(c) PROVE AttachInv'
  BY <1>4 DEF PDFCleared
<1>5. ASSUME NEW c \in Rooms, ContextLost(c) PROVE AttachInv'
  BY <1>5 DEF ContextLost
<1>6. ASSUME NEW c \in Rooms, MarkPDFExpired(c) PROVE AttachInv'
  BY <1>6 DEF MarkPDFExpired, ShowPDF
<1>7. ASSUME NEW m \in {"direct", "socratic"}, SetMode(m) PROVE AttachInv'
  BY <1>7 DEF SetMode
<1>8. CASE HandlePDFUpload
  BY <1>8 DEF HandlePDFUpload
<1>9. CASE ClearPDFContext
  BY <1>9 DEF ClearPDFContext
<1>10. CASE UNCHANGED attachVars
  BY <1>10 DEF attachVars
<1> QED
  BY <1>1, <1>2, <1>3, <1>4, <1>5, <1>6, <1>7, <1>8, <1>9, <1>10 DEF AttachNext

\* applyPDFStatusUI and applyChatSettingsUI: the mode and the demand for a PDF
\* that a question carries are those of the open chat, for any number of chats.
THEOREM AttachmentCorrect == AttachSpec => []AttachmentShown
<1>1. AttachInit => AttachInv
  BY DEF AttachInit, AttachInv, AttachmentShown
<1>2. AttachInv => AttachmentShown
  BY DEF AttachInv
<1> QED
  BY <1>1, <1>2, AttachStep_Inv, PTL DEF AttachSpec

-----------------------------------------------------------------------------
(* The service worker.  Versions only go up, so a worker that lost control   *)
(* never regains it; until a worker's caches are deleted, what it counted is  *)
(* still there.                                                              *)

ShellTypeOK ==
  /\ deployed \in Versions
  /\ control \in Nat /\ claim \in Nat
  /\ installing \in {0} \cup Versions /\ activating \in {0} \cup Versions
  /\ stored \in [Versions -> [Assets -> {"nothing", "ok"}]]
  /\ statuses \subseteq [to : Nat, core : {"unknown", "there", "missing"}]

\* The worker in control is the newest that was ever activated.
VersionsAscend ==
  /\ control <= deployed /\ installing <= deployed /\ activating <= deployed
  /\ installing # 0 => activating = 0 /\ control < installing
  /\ activating # 0 => control < activating
  /\ claim <= control
  /\ \A s \in statuses : s.to <= control

\* The caches of version v hold a good copy of each of these assets.
Good(v, assets) == \A a \in assets : stored[v][a] = "ok"

CleanedInActivate == cleaned => activating # 0

\* What a status in flight and what the page claims have counted.
CountedIsKept ==
  /\ control # 0 => control \in Versions
  /\ control # 0 /\ ~cleaned =>
       /\ \A s \in statuses : s.to = control /\ s.core = "there" => Good(control, Core)
       /\ claim = control => Good(control, Core \cup Required)

ShellInv == ShellTypeOK /\ VersionsAscend /\ CleanedInActivate /\ CountedIsKept

\* Storing keeps the types and loses nothing good.
LEMMA PutKeeps ==
  ASSUME ShellTypeOK, NEW v \in Versions, NEW a, NEW response \in Responses,
         stored' = Put(v, a, response)
  PROVE  /\ stored' \in [Versions -> [Assets -> {"nothing", "ok"}]]
         /\ \A w \in Versions, b \in Assets : stored[w][b] = "ok" => stored'[w][b] = "ok"
BY DEF ShellTypeOK, Put

\* A step that stores and moves no version keeps what was counted.
LEMMA StoringKeepsCounted ==
  ASSUME CountedIsKept, UNCHANGED <<control, cleaned, claim, statuses>>,
         \A w \in Versions, b \in Assets : stored[w][b] = "ok" => stored'[w][b] = "ok"
  PROVE  CountedIsKept'
BY DEF CountedIsKept, Good, Assets

\* A status that is asked for has counted nothing yet.
LEMMA AskKeeps ==
  ASSUME ShellTypeOK, NEW v \in Nat, Ask(v)
  PROVE  /\ statuses' \subseteq [to : Nat, core : {"unknown", "there", "missing"}]
         /\ \A s \in statuses' : s \in statuses \/ (s.to = v /\ s.core = "unknown")
BY DEF ShellTypeOK, Ask

LEMMA ShellStep_Inv == ShellInv /\ [ShellNext]_shellVars => ShellInv'
<1> SUFFICES ASSUME ShellInv, [ShellNext]_shellVars PROVE ShellInv'
  OBVIOUS
<1> USE ShellAssumption DEF ShellInv
<1>1. CASE Deploy
  BY <1>1 DEF Deploy, ShellTypeOK, Versions, VersionsAscend, CleanedInActivate, CountedIsKept, Good
<1>2. CASE Register
  BY <1>2 DEF Register, ShellTypeOK, Versions, VersionsAscend, CleanedInActivate, CountedIsKept, Good
<1>3. ASSUME NEW a \in Assets, NEW r \in Responses, Precache(a, r) PROVE ShellInv'
  <2>1. installing \in Versions
    BY <1>3 DEF Precache, ShellTypeOK
  <2>2. CountedIsKept' /\ stored' \in [Versions -> [Assets -> {"nothing", "ok"}]]
    BY <1>3, <2>1, PutKeeps, StoringKeepsCounted DEF Precache
  <2> QED
    BY <1>3, <2>2 DEF Precache, ShellTypeOK, Versions, VersionsAscend, CleanedInActivate
<1>4. CASE Installed
  <2>1. installing \in Versions
    BY <1>4 DEF Installed, ShellTypeOK
  <2>2. PICK had : stored' = [stored EXCEPT ![installing] =
                               [a \in Assets |-> IF a \in had THEN "ok" ELSE @[a]]]
    BY <1>4 DEF Installed
  <2>3. /\ stored' \in [Versions -> [Assets -> {"nothing", "ok"}]]
        /\ \A w \in Versions, b \in Assets : stored[w][b] = "ok" => stored'[w][b] = "ok"
    BY <2>1, <2>2 DEF ShellTypeOK
  <2>4. CountedIsKept'
    BY <1>4, <2>3, StoringKeepsCounted DEF Installed
  <2> QED
    BY <1>4, <2>1, <2>3, <2>4 DEF Installed, ShellTypeOK, Versions, VersionsAscend, CleanedInActivate
<1>5. CASE CleanUp
  <2>1. stored' \in [Versions -> [Assets -> {"nothing", "ok"}]]
    BY <1>5 DEF CleanUp, Cleaned, NothingStored, ShellTypeOK
  <2> QED
    BY <1>5, <2>1 DEF CleanUp, ShellTypeOK, VersionsAscend, CleanedInActivate, CountedIsKept
<1>6. CASE Claimed
  <2>1. activating \in Versions /\ control < activating
    BY <1>6 DEF Claimed, ShellTypeOK, VersionsAscend
  <2>2. activating \in Nat /\ activating # 0 /\ control \in Nat
    BY <2>1 DEF Versions, ShellTypeOK
  <2>3. /\ statuses' \subseteq [to : Nat, core : {"unknown", "there", "missing"}]
        /\ \A s \in statuses' : s \in statuses \/ (s.to = activating /\ s.core = "unknown")
    BY <1>6, <2>2, AskKeeps DEF Claimed
  <2>4. ShellTypeOK'
    BY <1>6, <2>2, <2>3 DEF Claimed, ShellTypeOK
  <2>5. VersionsAscend' /\ CleanedInActivate'
    BY <1>6, <2>1, <2>2, <2>3 DEF Claimed, ShellTypeOK, VersionsAscend, CleanedInActivate, Versions
  <2>6. CountedIsKept'
    <3>1. \A s \in statuses' : ~(s.to = control' /\ s.core = "there")
      BY <1>6, <2>1, <2>2, <2>3 DEF Claimed, ShellTypeOK, VersionsAscend
    <3>2. claim' # control'
      BY <1>6, <2>1, <2>2 DEF Claimed, ShellTypeOK, VersionsAscend
    <3> QED
      BY <1>6, <2>1, <3>1, <3>2 DEF Claimed, CountedIsKept
  <2> QED
    BY <2>4, <2>5, <2>6
<1>7. ASSUME NEW a \in Assets, NEW r \in Responses, Fetch(a, r) PROVE ShellInv'
  <2>1. control \in Versions
    BY <1>7 DEF Fetch, CountedIsKept
  <2>2. CountedIsKept' /\ stored' \in [Versions -> [Assets -> {"nothing", "ok"}]]
    BY <1>7, <2>1, PutKeeps, StoringKeepsCounted DEF Fetch
  <2> QED
    BY <1>7, <2>2 DEF Fetch, ShellTypeOK, Versions, VersionsAscend, CleanedInActivate
<1>8. CASE RefreshSwStatus
  <2>1. /\ statuses' \subseteq [to : Nat, core : {"unknown", "there", "missing"}]
        /\ \A s \in statuses' : s \in statuses \/ (s.to = control /\ s.core = "unknown")
    <3>1. CASE control = 0
      BY <1>8, <3>1 DEF RefreshSwStatus, ShellTypeOK
    <3>2. CASE control # 0
      BY <1>8, <3>2, AskKeeps DEF RefreshSwStatus, ShellTypeOK
    <3> QED
      BY <3>1, <3>2
  <2>2. claim' = claim \/ (claim' = 0 /\ control = 0)
    BY <1>8 DEF RefreshSwStatus
  <2>3. ShellTypeOK' /\ VersionsAscend' /\ CleanedInActivate'
    BY <1>8, <2>1, <2>2 DEF RefreshSwStatus, ShellTypeOK, VersionsAscend, CleanedInActivate
  <2>4. CountedIsKept'
    BY <1>8, <2>1, <2>2 DEF RefreshSwStatus, CountedIsKept, Good
  <2> QED
    BY <2>3, <2>4
<1>9. ASSUME NEW s \in statuses, CoreChecked(s) PROVE ShellInv'
  <2> DEFINE seen == [s EXCEPT !.core = IF Has(s.to, Core) THEN "there" ELSE "missing"]
  <2>1. seen.to = s.to /\ (seen.core = "there" => Has(s.to, Core))
    BY DEF ShellTypeOK
  <2>2. seen \in [to : Nat, core : {"unknown", "there", "missing"}]
    BY DEF ShellTypeOK
  <2>3. statuses' = (statuses \ {s}) \cup {seen}
    BY <1>9 DEF CoreChecked
  <2>4. ShellTypeOK' /\ VersionsAscend' /\ CleanedInActivate'
    <3> HIDE DEF seen
    <3> QED
      BY <1>9, <2>1, <2>2, <2>3 DEF CoreChecked, ShellTypeOK, VersionsAscend, CleanedInActivate
  <2>5. CountedIsKept'
    <3>1. control # 0 /\ Has(control, Core) => Good(control, Core)
      BY DEF Has, Good, CountedIsKept, ShellTypeOK, Assets
    <3> HIDE DEF seen
    <3> QED
      BY <1>9, <2>1, <2>3, <3>1 DEF CoreChecked, CountedIsKept, Good
  <2> QED
    BY <2>4, <2>5
<1>10. ASSUME NEW s \in statuses, StatusAnswered(s) PROVE ShellInv'
  <2>1. statuses' = statuses \ {s} /\ claim' = IF Ready(s) THEN s.to ELSE 0
    BY <1>10 DEF StatusAnswered
  <2>2. ShellTypeOK' /\ VersionsAscend' /\ CleanedInActivate'
    BY <1>10, <2>1 DEF StatusAnswered, ShellTypeOK, VersionsAscend, CleanedInActivate
  <2>3. CountedIsKept'
    <3>1. ASSUME control # 0, ~cleaned, claim' = control PROVE Good(control, Core \cup Required)
      <4>1. s.to = control /\ s.core = "there" /\ Has(control, Required)
        BY <2>1, <3>1 DEF Ready
      <4>2. Good(control, Core) /\ control \in Versions
        BY <3>1, <4>1 DEF CountedIsKept
      <4> QED
        BY <4>1, <4>2 DEF Has, Good, ShellTypeOK, Assets
    <3> QED
      BY <1>10, <2>1, <3>1 DEF StatusAnswered, CountedIsKept, Good
  <2> QED
    BY <2>2, <2>3
<1>11. ASSUME NEW s \in statuses, StatusTimeout(s) PROVE ShellInv'
  BY <1>11 DEF StatusTimeout, ShellTypeOK, VersionsAscend, CleanedInActivate, CountedIsKept, Good
<1>12. CASE UNCHANGED shellVars
  BY <1>12 DEF shellVars, ShellTypeOK, VersionsAscend, CleanedInActivate, CountedIsKept, Good
<1> QED
  BY <1>1, <1>2, <1>3, <1>4, <1>5, <1>6, <1>7, <1>8, <1>9, <1>10, <1>11, <1>12 DEF ShellNext

\* computeStatus and refreshSwStatus: while the worker that said "ready" is in
\* control and no other one is taking over, what the app needs to open is stored,
\* for any set of assets and any number of deployments.
THEOREM OfflineCorrect == ShellSpec => []ReadyIsTrue
<1>1. ShellInit => ShellInv
  BY ShellAssumption DEF ShellInit, ShellInv, ShellTypeOK, NothingStored, Versions, VersionsAscend,
        CleanedInActivate, CountedIsKept
<1>2. ShellInv => ReadyIsTrue
  BY DEF ShellInv, ReadyIsTrue, CleanedInActivate, CountedIsKept, Good
<1> QED
  BY <1>1, <1>2, ShellStep_Inv, PTL DEF ShellSpec
-----------------------------------------------------------------------------
(* The notes client.  A request that is sent carries the token of a student,  *)
(* and what it brings back is that student's; a reply that is applied under   *)
(* another one sets `mixed'.  What is marked as available offline counts the  *)
(* list that is still being stored: that is what a deletion races with.       *)

Holders == Users \cup {NoUser}

PageState ==
  [notes : SUBSET Notes, loaded : BOOLEAN, fromCache : BOOLEAN, userId : Holders,
   cachedIds : SUBSET Notes, storageOk : BOOLEAN, selectedId : Notes \cup {NoNote},
   study : Notes \cup {NoNote}, busy : BOOLEAN]

Store == [notes : [Holders -> SUBSET Notes], synced : SUBSET Holders, last : Holders]

ListRequest ==
  [at : {"sent", "reply", "store"}, tok : Holders, reply : {"", "network", "auth", "http", "ok"},
   got : SUBSET Notes, partial : BOOLEAN]
CacheRead == [at : {"cached"}, uid : Holders, got : SUBSET Notes, any : BOOLEAN]
Mutation == [at : {"sent", "reply"}, kind : Kinds, note : Notes, tok : Holders,
             reply : {"", "network", "auth"}]
SaveRequest == [at : {"sent"}, tok : Users]

ServerTypes == session \in Holders /\ rows \in [Users -> SUBSET Notes]
PageTypes == state \in PageState /\ idb \in Store
LoadTypes ==
  load \in {Idle} \cup ListRequest \cup CacheRead /\ (load.at = "sent" => load.tok \in Users)
MutTypes == mut \in {Idle} \cup Mutation /\ (mut.at = "sent" => mut.tok \in Users)
RequestTypes ==
  /\ LoadTypes /\ MutTypes
  /\ saves \in [Notes -> {Idle} \cup SaveRequest]

FlagTypes == online \in BOOLEAN /\ mixed \in BOOLEAN

NotesTypes == ServerTypes /\ FlagTypes /\ PageTypes /\ RequestTypes

LEMMA LoadShape ==
  ASSUME RequestTypes
  PROVE  /\ load.at \in {"sent", "reply", "store"} => load \in ListRequest
         /\ load.at = "cached" => load \in CacheRead
<1>1. CASE load = Idle
  BY <1>1 DEF Idle
<1>2. CASE load \in ListRequest
  BY <1>2 DEF ListRequest
<1>3. CASE load \in CacheRead
  BY <1>3 DEF CacheRead
<1> QED
  BY <1>1, <1>2, <1>3 DEF RequestTypes, LoadTypes

LEMMA MutShape == RequestTypes /\ mut.at # "idle" => mut \in Mutation
BY DEF RequestTypes, MutTypes, Idle

LEMMA CacheUserTyped == PageTypes => CacheUser \in Holders
BY DEF PageTypes, CacheUser, PageState, Store

LEMMA PutTyped ==
  ASSUME PageTypes, NEW u \in Holders, NEW n \in Notes
  PROVE  PutNote(u, n) \in Store /\ RemoveNote(u, n) \in Store
<1>1. [idb.notes EXCEPT ![u] = @ \cup {n}] \in [Holders -> SUBSET Notes]
  BY DEF PageTypes, Store
<1>2. [idb.notes EXCEPT ![u] = @ \ {n}] \in [Holders -> SUBSET Notes]
  BY DEF PageTypes, Store
<1> QED
  BY <1>1, <1>2 DEF PageTypes, PutNote, RemoveNote, Store

LEMMA StoreAllTyped ==
  ASSUME PageTypes, NEW u \in Holders, NEW ns \in SUBSET Notes
  PROVE  StoreAll(u, ns) \in Store
<1>1. EmptyStore.notes \in [Holders -> SUBSET Notes]
  BY DEF EmptyStore, Holders
<1>2. (IF u = NoUser THEN [EmptyStore.notes EXCEPT ![NoUser] = @ \cup ns]
       ELSE [idb.notes EXCEPT ![u] = ns]) \in [Holders -> SUBSET Notes]
  <2>1. CASE u = NoUser
    BY <1>1, <2>1
  <2>2. CASE u # NoUser
    BY <2>2 DEF PageTypes, Store
  <2> QED
    BY <2>1, <2>2
<1> QED
  BY <1>2 DEF PageTypes, StoreAll, Store

LEMMA ClearTyped ==
  ASSUME PageTypes, NEW u \in Holders
  PROVE  ClearUser(u) \in Store
<1>1. [idb.notes EXCEPT ![u] = {}] \in [Holders -> SUBSET Notes]
  BY DEF PageTypes, Store
<1> QED
  BY <1>1 DEF PageTypes, ClearUser, Store, Holders

LEMMA ResetTyped == ASSUME NEW s \in PageState PROVE ResetForNewUser(s) \in PageState
BY DEF PageState, ResetForNewUser

LEMMA CacheNoteTyped ==
  ASSUME PageTypes, NEW s \in PageState, NEW n \in Notes, CacheNote(s, n)
  PROVE  PageTypes'
<1>1. s.userId \in Holders
  BY DEF PageState
<1>2. CASE /\ idb' = PutNote(s.userId, n)
           /\ state' = [s EXCEPT !.cachedIds = @ \cup {n}]
  BY <1>1, <1>2, PutTyped DEF PageTypes, PageState
<1>3. CASE state' = [s EXCEPT !.storageOk = FALSE] /\ UNCHANGED idb
  BY <1>3 DEF PageTypes, PageState
<1> QED
  BY <1>2, <1>3 DEF CacheNote

LEMMA OverTyped == ASSUME NEW s \in PageState PROVE MutationOver(s) \in PageState
BY DEF PageState, MutationOver

LEMMA LoadCases == [NotesNext]_notesVars => LoadNotes \/ Loading \/ UNCHANGED load
BY DEF NotesNext, Loading, Mutating, Saving, SaveAnswer, Saved, SaveFails, OpenNote, CloseNote,
       OpenStored, Mutate, NoteReplaced, TopicsSuggested, NoteDeleted, MutationFails, SignIn,
       Elsewhere, OnSignedOut, Network, notesVars

LEMMA MutCases ==
  [NotesNext]_notesVars => (\E k \in Kinds : Mutate(k)) \/ Mutating \/ UNCHANGED mut
BY DEF NotesNext, Loading, Mutating, Saving, LoadNotes, ServeList, ApplyServerList, ListStored,
       LoadFails, ReadCache, ShowCache, SaveAnswer, Saved, SaveFails, OpenNote, CloseNote,
       OpenStored, SignIn, Elsewhere, OnSignedOut, Network, notesVars

LEMMA SavesCases ==
  [NotesNext]_notesVars => (\E n \in Notes : SaveAnswer(n) \/ Saving(n)) \/ UNCHANGED saves
BY DEF NotesNext, Loading, Mutating, Saving, LoadNotes, ServeList, ApplyServerList, ListStored,
       LoadFails, ReadCache, ShowCache, OpenNote, CloseNote, OpenStored, Mutate, NoteReplaced,
       TopicsSuggested, NoteDeleted, MutationFails, SignIn, Elsewhere, OnSignedOut, Network,
       notesVars

LEMMA ServerCases ==
  [NotesNext]_notesVars =>
     \/ (\E n \in Notes : Saving(n)) \/ NoteDeleted \/ MutationFails \/ OnSignedOut
     \/ (\E u \in Users : SignIn(u) \/ Elsewhere(u))
     \/ UNCHANGED <<session, rows>>
BY DEF NotesNext, Loading, Mutating, LoadNotes, ServeList, ApplyServerList, ListStored,
       LoadFails, ReadCache, ShowCache, SaveAnswer, OpenNote, CloseNote, OpenStored, Mutate,
       NoteReplaced, TopicsSuggested, Network, notesVars

LEMMA FlagTypesKept == FlagTypes /\ [NotesNext]_notesVars => FlagTypes'
<1> SUFFICES ASSUME FlagTypes, [NotesNext]_notesVars PROVE FlagTypes'
  OBVIOUS
<1>1. \A r : Crosses(r) \in BOOLEAN
  BY DEF Crosses
<1>2. CASE ApplyServerList
  BY <1>1, <1>2 DEF ApplyServerList, FlagTypes
<1>3. ASSUME NEW n \in Notes, Saved(n) PROVE FlagTypes'
  BY <1>1, <1>3 DEF Saved, FlagTypes
<1>4. CASE NoteReplaced \/ TopicsSuggested \/ NoteDeleted
  BY <1>1, <1>4 DEF NoteReplaced, TopicsSuggested, NoteDeleted, FlagTypes
<1>5. CASE OnSignedOut
  <2>1. (mixed \/ {load, mut} # {Idle} \/ Range(saves) # {Idle}) \in BOOLEAN
    OBVIOUS
  <2> QED
    BY <1>5, <2>1 DEF OnSignedOut, FlagTypes
<1>6. CASE Network
  BY <1>6 DEF Network, FlagTypes
<1>7. CASE UNCHANGED <<online, mixed>>
  BY <1>7 DEF FlagTypes
<1>8. CASE \/ LoadNotes \/ ServeList \/ ListStored \/ LoadFails \/ ReadCache \/ ShowCache
           \/ (\E n \in Notes : SaveAnswer(n) \/ SaveFails(n) \/ OpenNote(n))
           \/ CloseNote \/ OpenStored \/ (\E k \in Kinds : Mutate(k)) \/ MutationFails
           \/ (\E u \in Users : SignIn(u) \/ Elsewhere(u)) \/ UNCHANGED notesVars
  BY <1>7, <1>8 DEF LoadNotes, ServeList, ListStored, LoadFails, ReadCache, ShowCache, SaveAnswer,
        SaveFails, OpenNote, CloseNote, OpenStored, Mutate, MutationFails, SignIn, Elsewhere, notesVars
<1> QED
  BY <1>2, <1>3, <1>4, <1>5, <1>6, <1>7, <1>8 DEF NotesNext, Loading, Mutating, Saving

LEMMA ServerTypesKept ==
  ASSUME NotesTypes, [NotesNext]_notesVars PROVE ServerTypes'
<1> USE DEF NotesTypes, ServerTypes
<1>1. ASSUME NEW n \in Notes, Saved(n) \/ SaveFails(n) PROVE ServerTypes'
  <2>1. saves[n].tok \in Users
    BY <1>1 DEF Saved, SaveFails, RequestTypes, Idle, SaveRequest
  <2> QED
    BY <1>1, <2>1 DEF Saved, SaveFails, RunSave
<1>2. CASE NoteDeleted \/ MutationFails
  BY <1>2 DEF NoteDeleted, MutationFails, RunMutation
<1>3. ASSUME NEW u \in Users, SignIn(u) \/ Elsewhere(u) PROVE ServerTypes'
  BY <1>3 DEF SignIn, Elsewhere, Holders
<1>4. CASE OnSignedOut
  BY <1>4 DEF OnSignedOut, Holders
<1>5. CASE UNCHANGED <<session, rows>>
  BY <1>5
<1> QED
  BY <1>1, <1>2, <1>3, <1>4, <1>5, ServerCases DEF Saving

LEMMA PageTypesKept ==
  ASSUME NotesTypes, [NotesNext]_notesVars PROVE PageTypes'
<1>0. PageTypes /\ state \in PageState /\ idb \in Store /\ session \in Holders
  BY DEF NotesTypes, PageTypes, ServerTypes
<1>1. CASE LoadNotes
  <2>1. UNCHANGED idb
    BY <1>1 DEF LoadNotes
  <2>2. CASE session = NoUser
    BY <1>0, <1>1, <2>1, <2>2 DEF LoadNotes, PageTypes
  <2>3. CASE session # NoUser
    <3> DEFINE s == IF state.userId \in {NoUser, session} THEN state ELSE ResetForNewUser(state)
    <3>1. s \in PageState
      BY <1>0, ResetTyped
    <3>2. state' = [s EXCEPT !.userId = session]
      BY <1>1, <2>3 DEF LoadNotes
    <3> HIDE DEF s
    <3>3. state' \in PageState
      BY <1>0, <3>1, <3>2 DEF PageState
    <3> QED
      BY <1>0, <2>1, <3>3 DEF PageTypes
  <2> QED
    BY <2>2, <2>3
<1>2. CASE ApplyServerList
  <2> DEFINE shown == [state EXCEPT !.notes = load.got, !.fromCache = FALSE, !.cachedIds = {}]
  <2>1. load.got \in SUBSET Notes /\ state.userId \in Holders
    <3>1. load \in ListRequest
      BY <1>2, LoadShape DEF ApplyServerList, NotesTypes
    <3> QED
      BY <1>0, <3>1 DEF ListRequest, PageState
  <2>2. shown \in PageState
    BY <1>0, <2>1 DEF PageState
  <2>3. idb' \in {idb, StoreAll(state.userId, load.got)}
    BY <1>2 DEF ApplyServerList
  <2>4. \/ state' = shown
        \/ state' = [shown EXCEPT !.storageOk = FALSE, !.loaded = TRUE]
        \/ state' = [shown EXCEPT !.loaded = TRUE]
    BY <1>2 DEF ApplyServerList
  <2> HIDE DEF shown
  <2>5. state' \in PageState
    BY <2>2, <2>4 DEF PageState
  <2>6. idb' \in Store
    BY <1>0, <2>1, <2>3, StoreAllTyped
  <2> QED
    BY <2>5, <2>6 DEF PageTypes
<1>3. CASE ListStored \/ LoadFails \/ ShowCache
  <2>1. /\ ListStored => load.got \in SUBSET Notes
        /\ ShowCache => load.got \in SUBSET Notes /\ load.uid \in Holders
    <3>1. ListStored => load \in ListRequest
      BY LoadShape DEF ListStored, NotesTypes
    <3>2. ShowCache => load \in CacheRead
      BY LoadShape DEF ShowCache, NotesTypes
    <3> QED
      BY <3>1, <3>2 DEF ListRequest, CacheRead
  <2>2. UNCHANGED idb
    BY <1>3 DEF ListStored, LoadFails, ShowCache
  <2>3. state' \in PageState
    BY <1>0, <1>3, <2>1 DEF ListStored, LoadFails, ShowCache, PageState
  <2> QED
    BY <1>0, <2>2, <2>3 DEF PageTypes
<1>4. ASSUME NEW n \in Notes, Saved(n) PROVE PageTypes'
  <2> DEFINE s == IF state.loaded THEN [state EXCEPT !.notes = @ \cup {n}] ELSE state
  <2>1. s \in PageState
    BY <1>0 DEF PageState
  <2>2. CacheNote(s, n) \/ (state' = s /\ UNCHANGED idb)
    BY <1>4 DEF Saved
  <2> HIDE DEF s
  <2> QED
    BY <1>0, <2>1, <2>2, CacheNoteTyped DEF PageTypes
<1>5. ASSUME NEW n \in Notes, OpenNote(n) PROVE PageTypes'
  BY <1>0, <1>5 DEF OpenNote, PageTypes, PageState
<1>6. CASE CloseNote \/ OpenStored
  BY <1>0, <1>6 DEF CloseNote, OpenStored, PageTypes, PageState
<1>7. ASSUME NEW k \in Kinds, Mutate(k) PROVE PageTypes'
  BY <1>0, <1>7 DEF Mutate, PageTypes, PageState
<1>8. CASE NoteReplaced
  <2>1. MutationOver(state) \in PageState /\ mut.note \in Notes
    <3>1. mut \in Mutation
      BY <1>8, MutShape DEF NoteReplaced, NotesTypes
    <3> QED
      BY <1>0, <3>1, OverTyped DEF Mutation
  <2> QED
    BY <1>0, <1>8, <2>1, CacheNoteTyped DEF NoteReplaced
<1>9. CASE TopicsSuggested
  BY <1>0, <1>9, OverTyped DEF TopicsSuggested, PageTypes
<1>10. CASE NoteDeleted
  <2> DEFINE s == [MutationOver(state) EXCEPT !.notes = @ \ {mut.note}, !.selectedId = NoNote,
                     !.study = IF Found THEN NoNote ELSE @,
                     !.cachedIds = IF Found THEN @ \ {mut.note} ELSE @]
  <2>1. mut.note \in Notes /\ state.userId \in Holders
    <3>1. mut \in Mutation
      BY <1>10, MutShape DEF NoteDeleted, NotesTypes
    <3> QED
      BY <1>0, <3>1 DEF Mutation, PageState
  <2>2. s \in PageState
    BY <1>0, OverTyped DEF PageState
  <2>3. state' = s \/ state' = [s EXCEPT !.storageOk = FALSE]
    BY <1>10 DEF NoteDeleted
  <2> HIDE DEF s
  <2>4. state' \in PageState
    BY <2>2, <2>3 DEF PageState
  <2>5. idb' \in {idb, RemoveNote(state.userId, mut.note)}
    BY <1>10 DEF NoteDeleted
  <2> QED
    BY <1>0, <2>1, <2>4, <2>5, PutTyped DEF PageTypes
<1>11. CASE MutationFails
  <2>1. MutationOver(state) \in PageState /\ mut.note \in Notes
    <3>1. mut \in Mutation
      BY <1>11, MutShape DEF MutationFails, NotesTypes
    <3> QED
      BY <1>0, <3>1, OverTyped DEF Mutation
  <2>2. state' \in PageState /\ UNCHANGED idb
    BY <1>11, <2>1 DEF MutationFails, PageState
  <2> QED
    BY <1>0, <2>2 DEF PageTypes
<1>12. CASE OnSignedOut
  <2>1. state' \in PageState
    BY <1>0, <1>12, ResetTyped DEF OnSignedOut, PageState, Holders
  <2>2. idb' \in Store
    BY <1>0, <1>12, ClearTyped, CacheUserTyped DEF OnSignedOut
  <2> QED
    BY <2>1, <2>2 DEF PageTypes
<1>13. CASE \/ ServeList \/ ReadCache \/ Network \/ UNCHANGED notesVars
            \/ \E n \in Notes : SaveAnswer(n) \/ SaveFails(n)
            \/ \E u \in Users : SignIn(u) \/ Elsewhere(u)
  <2>1. UNCHANGED <<state, idb>>
    BY <1>13 DEF ServeList, ReadCache, Network, SaveAnswer, SaveFails, SignIn, Elsewhere, notesVars
  <2> QED
    BY <1>0, <2>1 DEF PageTypes
<1> QED
  BY <1>1, <1>2, <1>3, <1>4, <1>5, <1>6, <1>7, <1>8, <1>9, <1>10, <1>11, <1>12, <1>13
     DEF NotesNext, Loading, Mutating, Saving

LEMMA RequestTypesKept ==
  ASSUME NotesTypes, [NotesNext]_notesVars PROVE RequestTypes'
<1>0. ServerTypes /\ PageTypes /\ RequestTypes
  BY DEF NotesTypes
<1>1. LoadTypes'
  <2>1. CASE LoadNotes
    <3> DEFINE r == [at |-> "", tok |-> NoUser, reply |-> "", got |-> {}, partial |-> FALSE]
    <3>1. load' = Asked(r)
      BY <2>1 DEF LoadNotes
    <3>2. Asked(r) \in ListRequest /\ (Asked(r).at = "sent" => Asked(r).tok \in Users)
      BY <1>0 DEF Asked, ServerTypes, ListRequest, Holders
    <3> QED
      BY <3>1, <3>2 DEF LoadTypes
  <2>2. CASE ServeList
    <3>1. load \in ListRequest /\ load.tok \in Users
      BY <1>0, <2>2, LoadShape DEF ServeList, RequestTypes, LoadTypes
    <3> QED
      BY <1>0, <2>2, <3>1 DEF ServeList, ListRequest, ServerTypes, LoadTypes
  <2>3. CASE ApplyServerList
    <3>1. load \in ListRequest
      BY <1>0, <2>3, LoadShape DEF ApplyServerList
    <3>2. load' = Idle \/ load' = [load EXCEPT !.at = "store"]
      BY <2>3 DEF ApplyServerList
    <3> QED
      <4>1. CASE load' = Idle
        BY <4>1 DEF Idle, LoadTypes
      <4>2. CASE load' = [load EXCEPT !.at = "store"]
        <5>1. load' \in ListRequest /\ load'.at = "store"
          BY <3>1, <4>2 DEF ListRequest
        <5> QED
          BY <5>1 DEF LoadTypes
      <4> QED
        BY <3>2, <4>1, <4>2
  <2>4. CASE ListStored \/ LoadFails \/ ShowCache
    BY <2>4 DEF ListStored, LoadFails, ShowCache, Idle, LoadTypes
  <2>5. CASE ReadCache
    <3>1. CacheUser \in Holders /\ idb.notes[CacheUser] \in SUBSET Notes
      BY <1>0, CacheUserTyped DEF PageTypes, Store
    <3> DEFINE any == CacheUser # NoUser /\ (CacheUser \in idb.synced \/ idb.notes[CacheUser] # {})
    <3>2. any \in BOOLEAN
      OBVIOUS
    <3>3. load' = [at |-> "cached", uid |-> CacheUser, got |-> idb.notes[CacheUser], any |-> any]
      BY <2>5 DEF ReadCache
    <3> HIDE DEF any
    <3> QED
      BY <3>1, <3>2, <3>3 DEF CacheRead, LoadTypes
  <2>6. CASE UNCHANGED load
    BY <1>0, <2>6 DEF RequestTypes, LoadTypes
  <2> QED
    BY <2>1, <2>2, <2>3, <2>4, <2>5, <2>6, LoadCases DEF Loading
<1>2. MutTypes'
  <2>1. ASSUME NEW k \in Kinds, Mutate(k) PROVE MutTypes'
    <3> DEFINE r == [at |-> "", kind |-> k, note |-> state.selectedId, tok |-> NoUser, reply |-> ""]
    <3>1. mut' = Asked(r) /\ state.selectedId \in Notes
      BY <1>0, <2>1 DEF Mutate, Editable, PageTypes, PageState
    <3>2. Asked(r) \in Mutation /\ (Asked(r).at = "sent" => Asked(r).tok \in Users)
      BY <1>0, <3>1 DEF Asked, ServerTypes, Mutation, Holders
    <3> QED
      BY <3>1, <3>2 DEF MutTypes
  <2>2. CASE NoteReplaced \/ TopicsSuggested \/ NoteDeleted \/ MutationFails
    BY <2>2 DEF NoteReplaced, TopicsSuggested, NoteDeleted, MutationFails, Idle, MutTypes
  <2>3. CASE UNCHANGED mut
    BY <1>0, <2>3 DEF RequestTypes, MutTypes
  <2> QED
    BY <2>1, <2>2, <2>3, MutCases DEF Mutating
<1>3. saves' \in [Notes -> {Idle} \cup SaveRequest]
  <2>1. ASSUME NEW n \in Notes, SaveAnswer(n) PROVE saves' \in [Notes -> {Idle} \cup SaveRequest]
    <3>1. session \in Users
      BY <2>1, NotesAssumption DEF SaveAnswer
    <3>2. [at |-> "sent", tok |-> session] \in SaveRequest
      BY <3>1 DEF SaveRequest
    <3> QED
      BY <1>0, <2>1, <3>2 DEF SaveAnswer, RequestTypes
  <2>2. ASSUME NEW n \in Notes, Saved(n) \/ SaveFails(n)
        PROVE  saves' \in [Notes -> {Idle} \cup SaveRequest]
    BY <1>0, <2>2 DEF Saved, SaveFails, RequestTypes
  <2>3. CASE UNCHANGED saves
    BY <1>0, <2>3 DEF RequestTypes
  <2> QED
    BY <2>1, <2>2, <2>3, SavesCases DEF Saving
<1> QED
  BY <1>1, <1>2, <1>3 DEF RequestTypes

ListIsOwn ==
  (load.at = "reply" /\ load.reply = "ok") => load.tok \in Users /\ load.got \subseteq Own(load.tok)

RequestsAreOwn ==
  /\ \A u \in Users : rows[u] \subseteq Own(u)
  /\ \A n \in Notes : saves[n].at = "sent" => saves[n].tok = Owner[n]
  /\ ListIsOwn

LEMMA RequestsStayOwn ==
  ASSUME NotesTypes, RequestsAreOwn, [NotesNext]_notesVars PROVE RequestsAreOwn'
<1>0. ServerTypes /\ RequestTypes
  BY DEF NotesTypes
<1>1. \A u \in Users : rows'[u] \subseteq Own(u)
  <2>1. ASSUME NEW n \in Notes, Saved(n) \/ SaveFails(n) PROVE \A u \in Users : rows'[u] \subseteq Own(u)
    <3>1. saves[n].tok \in Users /\ n \in Own(saves[n].tok)
      BY <2>1, NotesAssumption DEF Saved, SaveFails, RequestsAreOwn, Own
    <3>2. rows' = [rows EXCEPT ![saves[n].tok] = @ \cup {n}] \/ rows' = rows
      BY <2>1 DEF Saved, SaveFails, RunSave
    <3> QED
      BY <1>0, <3>1, <3>2 DEF ServerTypes, RequestsAreOwn
  <2>2. CASE NoteDeleted \/ MutationFails
    <3>1. rows' = [rows EXCEPT ![mut.tok] = @ \ {mut.note}] \/ rows' = rows
      BY <2>2 DEF NoteDeleted, MutationFails, RunMutation
    <3> QED
      BY <1>0, <3>1 DEF ServerTypes, RequestsAreOwn
  <2>3. ASSUME NEW v \in Users, Elsewhere(v) PROVE \A u \in Users : rows'[u] \subseteq Own(u)
    BY <1>0, <2>3 DEF Elsewhere, ServerTypes, RequestsAreOwn
  <2>4. CASE UNCHANGED rows
    BY <2>4 DEF RequestsAreOwn
  <2>5. CASE OnSignedOut \/ \E u \in Users : SignIn(u)
    BY <2>4, <2>5 DEF OnSignedOut, SignIn
  <2> QED
    BY <2>1, <2>2, <2>3, <2>4, <2>5, ServerCases DEF Saving
<1>2. \A m \in Notes : saves'[m].at = "sent" => saves'[m].tok = Owner[m]
  <2>1. ASSUME NEW n \in Notes, SaveAnswer(n)
        PROVE  \A m \in Notes : saves'[m].at = "sent" => saves'[m].tok = Owner[m]
    BY <1>0, <2>1 DEF SaveAnswer, RequestTypes, RequestsAreOwn
  <2>2. ASSUME NEW n \in Notes, Saved(n) \/ SaveFails(n)
        PROVE  \A m \in Notes : saves'[m].at = "sent" => saves'[m].tok = Owner[m]
    BY <1>0, <2>2 DEF Saved, SaveFails, Idle, RequestTypes, RequestsAreOwn
  <2>3. CASE UNCHANGED saves
    BY <2>3 DEF RequestsAreOwn
  <2> QED
    BY <2>1, <2>2, <2>3, SavesCases DEF Saving
<1>3. ListIsOwn'
  <2>1. CASE LoadNotes
    <3>1. load' = Asked([at |-> "", tok |-> NoUser, reply |-> "", got |-> {}, partial |-> FALSE])
      BY <2>1 DEF LoadNotes
    <3> QED
      BY <3>1 DEF Asked, ListIsOwn
  <2>2. CASE ServeList
    <3>1. load \in ListRequest /\ load.tok \in Users
      BY <1>0, <2>2, LoadShape DEF ServeList, RequestTypes, LoadTypes
    <3>2. load'.tok = load.tok
      BY <2>2, <3>1 DEF ServeList, ListRequest
    <3>3. load'.reply = "ok" => load'.got \subseteq rows[load.tok]
      BY <2>2, <3>1 DEF ServeList, ListRequest
    <3> QED
      BY <3>1, <3>2, <3>3 DEF ListIsOwn, RequestsAreOwn
  <2>3. CASE ApplyServerList
    <3>1. load \in ListRequest
      BY <1>0, <2>3, LoadShape DEF ApplyServerList
    <3>2. load' = Idle \/ load' = [load EXCEPT !.at = "store"]
      BY <2>3 DEF ApplyServerList
    <3>3. ([load EXCEPT !.at = "store"]).at = "store"
      BY <3>1 DEF ListRequest
    <3> QED
      <4>1. CASE load' = Idle
        BY <4>1 DEF ListIsOwn, Idle
      <4>2. CASE load' = [load EXCEPT !.at = "store"]
        BY <3>3, <4>2 DEF ListIsOwn
      <4> QED
        BY <3>2, <4>1, <4>2
  <2>4. CASE ListStored \/ LoadFails \/ ShowCache
    BY <2>4 DEF ListStored, LoadFails, ShowCache, Idle, ListIsOwn
  <2>5. CASE ReadCache
    BY <2>5 DEF ReadCache, ListIsOwn
  <2>6. CASE UNCHANGED load
    BY <2>6 DEF RequestsAreOwn, ListIsOwn
  <2> QED
    BY <2>1, <2>2, <2>3, <2>4, <2>5, <2>6, LoadCases DEF Loading
<1> QED
  BY <1>1, <1>2, <1>3 DEF RequestsAreOwn

\* What is on screen, in the copy, and on its way from the copy to the screen.
ScreenIsOwn == state.notes \subseteq Own(state.userId)
CopyIsOwn == \A u \in Holders : idb.notes[u] \subseteq Own(u)
ReadIsOwn == load.at = "cached" => load.got \subseteq Own(load.uid)

ShownIsOwn == ~mixed => ScreenIsOwn /\ CopyIsOwn /\ ReadIsOwn

LEMMA NobodyOwns == Own(NoUser) = {}
BY NotesAssumption DEF Own

LEMMA PutKeepsOwn ==
  ASSUME PageTypes, CopyIsOwn, NEW u \in Holders, NEW n \in Own(u),
         idb' \in {idb, PutNote(u, n)}
  PROVE  CopyIsOwn'
<1>1. CASE idb' = idb
  BY <1>1 DEF CopyIsOwn
<1>2. CASE idb' = PutNote(u, n)
  <2>1. idb'.notes = [idb.notes EXCEPT ![u] = @ \cup {n}]
    BY <1>2 DEF PutNote, PageTypes, Store
  <2> QED
    BY <2>1 DEF CopyIsOwn, PageTypes, Store
<1> QED
  BY <1>1, <1>2

LEMMA RemoveKeepsOwn ==
  ASSUME PageTypes, CopyIsOwn, NEW u \in Holders, NEW n,
         idb' \in {idb, RemoveNote(u, n)}
  PROVE  CopyIsOwn'
<1>1. CASE idb' = idb
  BY <1>1 DEF CopyIsOwn
<1>2. CASE idb' = RemoveNote(u, n)
  <2>1. idb'.notes = [idb.notes EXCEPT ![u] = @ \ {n}]
    BY <1>2 DEF RemoveNote, PageTypes, Store
  <2> QED
    BY <2>1 DEF CopyIsOwn, PageTypes, Store
<1> QED
  BY <1>1, <1>2

LEMMA StoreAllKeepsOwn ==
  ASSUME PageTypes, CopyIsOwn, NEW u \in Users, NEW ns \in SUBSET Own(u),
         idb' \in {idb, StoreAll(u, ns)}
  PROVE  CopyIsOwn'
<1>1. CASE idb' = idb
  BY <1>1 DEF CopyIsOwn
<1>2. CASE idb' = StoreAll(u, ns)
  <2>1. idb'.notes = [idb.notes EXCEPT ![u] = ns]
    BY <1>2, NotesAssumption DEF StoreAll
  <2> QED
    BY <2>1 DEF CopyIsOwn, PageTypes, Store
<1> QED
  BY <1>1, <1>2

LEMMA ClearKeepsOwn ==
  ASSUME PageTypes, CopyIsOwn, NEW u \in Holders, idb' = ClearUser(u)
  PROVE  CopyIsOwn'
<1>1. idb'.notes = [idb.notes EXCEPT ![u] = {}]
  BY DEF ClearUser, PageTypes, Store
<1> QED
  BY <1>1 DEF CopyIsOwn, PageTypes, Store

LEMMA CacheNoteKeepsOwn ==
  ASSUME PageTypes, CopyIsOwn, NEW s \in PageState, NEW n \in Own(s.userId), CacheNote(s, n),
         s.notes \subseteq Own(s.userId)
  PROVE  CopyIsOwn' /\ ScreenIsOwn'
<1>1. s.userId \in Holders /\ idb' \in {idb, PutNote(s.userId, n)}
  BY DEF CacheNote, PageState
<1>2. state'.notes = s.notes /\ state'.userId = s.userId
  BY DEF CacheNote, PageState
<1> QED
  BY <1>1, <1>2, PutKeepsOwn DEF ScreenIsOwn

LEMMA MixedStays == NotesTypes /\ [NotesNext]_notesVars /\ ~mixed' => ~mixed
BY DEF NotesNext, Loading, Mutating, Saving, LoadNotes, ServeList, ApplyServerList, ListStored,
       LoadFails, ReadCache, ShowCache, SaveAnswer, Saved, SaveFails, OpenNote, CloseNote,
       OpenStored, Mutate, NoteReplaced, TopicsSuggested, NoteDeleted, MutationFails, SignIn,
       Elsewhere, OnSignedOut, Network, notesVars, Crosses

LEMMA ReadStaysOwn ==
  ASSUME NotesTypes, CopyIsOwn, ReadIsOwn, [NotesNext]_notesVars PROVE ReadIsOwn'
<1>1. CASE LoadNotes
  <2>1. load' = Asked([at |-> "", tok |-> NoUser, reply |-> "", got |-> {}, partial |-> FALSE])
    BY <1>1 DEF LoadNotes
  <2> QED
    BY <2>1 DEF Asked, ReadIsOwn
<1>2. CASE ServeList
  <2>1. load \in ListRequest
    BY <1>2, LoadShape DEF ServeList, NotesTypes
  <2>2. load'.at = "reply"
    BY <1>2, <2>1 DEF ServeList, ListRequest
  <2> QED
    BY <2>2 DEF ReadIsOwn
<1>3. CASE ApplyServerList
  <2>1. load \in ListRequest
    BY <1>3, LoadShape DEF ApplyServerList, NotesTypes
  <2>2. ([load EXCEPT !.at = "store"]).at = "store"
    BY <2>1 DEF ListRequest
  <2>3. CASE load' = Idle
    BY <2>3 DEF ReadIsOwn, Idle
  <2>4. CASE load' = [load EXCEPT !.at = "store"]
    BY <2>2, <2>4 DEF ReadIsOwn
  <2> QED
    BY <1>3, <2>3, <2>4 DEF ApplyServerList
<1>4. CASE ListStored \/ LoadFails \/ ShowCache
  BY <1>4 DEF ListStored, LoadFails, ShowCache, ReadIsOwn, Idle
<1>5. CASE ReadCache
  <2>1. CacheUser \in Holders
    BY CacheUserTyped DEF NotesTypes
  <2>2. load'.uid = CacheUser /\ load'.got = idb.notes[CacheUser]
    BY <1>5 DEF ReadCache
  <2> QED
    BY <2>1, <2>2 DEF ReadIsOwn, CopyIsOwn
<1>6. CASE UNCHANGED load
  BY <1>6 DEF ReadIsOwn
<1> QED
  BY <1>1, <1>2, <1>3, <1>4, <1>5, <1>6, LoadCases DEF Loading

LEMMA ShownStaysOwn ==
  ASSUME NotesTypes, RequestsAreOwn, ShownIsOwn, [NotesNext]_notesVars PROVE ShownIsOwn'
<1> SUFFICES ASSUME ~mixed' PROVE ScreenIsOwn' /\ CopyIsOwn'
  BY MixedStays, ReadStaysOwn DEF ShownIsOwn
<1>0. /\ ScreenIsOwn /\ CopyIsOwn /\ ReadIsOwn /\ ~mixed
      /\ PageTypes /\ state \in PageState /\ idb \in Store /\ state.userId \in Holders
  BY MixedStays DEF ShownIsOwn, NotesTypes, PageTypes, PageState
<1>1. CASE LoadNotes
  <2>1. UNCHANGED idb
    BY <1>1 DEF LoadNotes
  <2>2. CASE session = NoUser
    BY <1>0, <1>1, <2>1, <2>2 DEF LoadNotes, ScreenIsOwn, CopyIsOwn
  <2>3. CASE session # NoUser /\ state.userId \in {NoUser, session}
    <3>1. state' = [state EXCEPT !.userId = session]
      BY <1>1, <2>3 DEF LoadNotes
    <3>2. state'.notes = state.notes /\ state'.userId = session
      BY <1>0, <3>1 DEF PageState
    <3> QED
      BY <1>0, <2>1, <2>3, <3>2, NobodyOwns DEF ScreenIsOwn, CopyIsOwn
  <2>4. CASE session # NoUser /\ state.userId \notin {NoUser, session}
    <3>1. state' = [ResetForNewUser(state) EXCEPT !.userId = session]
      BY <1>1, <2>4 DEF LoadNotes
    <3>2. state'.notes = {}
      BY <1>0, <3>1 DEF PageState, ResetForNewUser
    <3> QED
      BY <1>0, <2>1, <3>2 DEF ScreenIsOwn, CopyIsOwn
  <2> QED
    BY <2>2, <2>3, <2>4
<1>2. CASE ApplyServerList
  <2>1. load.tok \in Users /\ load.got \subseteq Own(load.tok) /\ load.tok = state.userId
    BY <1>2, NotesAssumption DEF ApplyServerList, Crosses, RequestsAreOwn, ListIsOwn
  <2>2. idb' \in {idb, StoreAll(state.userId, load.got)}
    BY <1>2 DEF ApplyServerList
  <2>3. state'.notes = load.got /\ state'.userId = state.userId
    BY <1>0, <1>2 DEF ApplyServerList, PageState
  <2> QED
    BY <1>0, <2>1, <2>2, <2>3, StoreAllKeepsOwn DEF ScreenIsOwn
<1>3. CASE ListStored
  BY <1>0, <1>3 DEF ListStored, ScreenIsOwn, CopyIsOwn, PageState
<1>4. CASE LoadFails
  BY <1>0, <1>4 DEF LoadFails, ScreenIsOwn, CopyIsOwn, PageState
<1>5. CASE ShowCache
  BY <1>0, <1>5 DEF ShowCache, ScreenIsOwn, CopyIsOwn, ReadIsOwn, PageState
<1>6. ASSUME NEW n \in Notes, Saved(n) PROVE ScreenIsOwn' /\ CopyIsOwn'
  <2> DEFINE s == IF state.loaded THEN [state EXCEPT !.notes = @ \cup {n}] ELSE state
  <2>1. saves[n].tok = Owner[n] /\ Owner[n] \in Users
    BY <1>6, NotesAssumption DEF Saved, RequestsAreOwn
  <2>2. n \in Own(state.userId)
    BY <1>6, <2>1, NotesAssumption DEF Saved, Crosses, Own
  <2>3. s \in PageState /\ s.userId = state.userId /\ s.notes \subseteq Own(s.userId)
    BY <1>0, <2>2 DEF PageState, ScreenIsOwn
  <2>4. CacheNote(s, n) \/ (state' = s /\ UNCHANGED idb)
    BY <1>6 DEF Saved
  <2> HIDE DEF s
  <2>5. CASE CacheNote(s, n)
    BY <1>0, <2>2, <2>3, <2>5, CacheNoteKeepsOwn
  <2>6. CASE state' = s /\ UNCHANGED idb
    BY <1>0, <2>3, <2>6 DEF ScreenIsOwn, CopyIsOwn
  <2> QED
    BY <2>4, <2>5, <2>6
<1>7. CASE NoteReplaced
  <2>1. mut.tok \in Users /\ mut.tok = state.userId
    BY <1>7, NotesAssumption DEF NoteReplaced, Crosses, NotesTypes, RequestTypes, MutTypes
  <2>2. mut.note \in Own(state.userId)
    BY <1>7, <2>1 DEF NoteReplaced, Found, RequestsAreOwn
  <2>3. /\ MutationOver(state) \in PageState
        /\ MutationOver(state).userId = state.userId /\ MutationOver(state).notes = state.notes
    BY <1>0 DEF MutationOver, PageState
  <2>4. CacheNote(MutationOver(state), mut.note)
    BY <1>7 DEF NoteReplaced
  <2> QED
    BY <1>0, <2>2, <2>3, <2>4, CacheNoteKeepsOwn DEF ScreenIsOwn
<1>8. CASE NoteDeleted
  <2>1. idb' \in {idb, RemoveNote(state.userId, mut.note)}
    BY <1>8 DEF NoteDeleted
  <2>2. state'.notes = state.notes \ {mut.note} /\ state'.userId = state.userId
    BY <1>0, <1>8 DEF NoteDeleted, MutationOver, PageState
  <2> QED
    BY <1>0, <2>1, <2>2, RemoveKeepsOwn DEF ScreenIsOwn
<1>9. CASE OnSignedOut
  <2>1. state'.notes = {}
    BY <1>0, <1>9 DEF OnSignedOut, ResetForNewUser, PageState
  <2>2. idb' = idb \/ idb' = ClearUser(CacheUser)
    BY <1>9 DEF OnSignedOut
  <2> QED
    BY <1>0, <2>1, <2>2, ClearKeepsOwn, CacheUserTyped DEF ScreenIsOwn, CopyIsOwn
<1>10. CASE \/ CloseNote \/ OpenStored \/ TopicsSuggested \/ MutationFails
            \/ (\E n \in Notes : OpenNote(n)) \/ (\E k \in Kinds : Mutate(k))
  <2>1. UNCHANGED idb /\ state'.notes = state.notes /\ state'.userId = state.userId
    BY <1>0, <1>10 DEF CloseNote, OpenStored, TopicsSuggested, MutationFails, MutationOver,
          OpenNote, Mutate, PageState
  <2> QED
    BY <1>0, <2>1 DEF ScreenIsOwn, CopyIsOwn
<1>11. CASE \/ ServeList \/ ReadCache \/ Network \/ UNCHANGED notesVars
            \/ (\E n \in Notes : SaveAnswer(n) \/ SaveFails(n))
            \/ \E u \in Users : SignIn(u) \/ Elsewhere(u)
  <2>1. UNCHANGED <<state, idb>>
    BY <1>11 DEF ServeList, ReadCache, Network, SaveAnswer, SaveFails, SignIn, Elsewhere, notesVars
  <2> QED
    BY <1>0, <2>1 DEF ScreenIsOwn, CopyIsOwn
<1> QED
  BY <1>1, <1>2, <1>3, <1>4, <1>5, <1>6, <1>7, <1>8, <1>9, <1>10, <1>11
     DEF NotesNext, Loading, Mutating, Saving

\* What is marked as available offline, or will be when the list is stored.
Marked == state.cachedIds \cup (IF load.at = "store" THEN load.got ELSE {})

Claims == state.storageOk /\ ~state.fromCache /\ state.userId # NoUser

MarkedIsStored ==
  (~mixed /\ Claims) => (state.notes \cap Marked) \subseteq idb.notes[state.userId]

\* A step that promises no more than before, about the same copy.
LEMMA MarkedNoMore ==
  ASSUME MarkedIsStored, ~mixed, UNCHANGED idb,
         Claims' => Claims /\ state'.userId = state.userId,
         state'.notes \cap Marked' \subseteq state.notes \cap Marked
  PROVE  MarkedIsStored'
BY DEF MarkedIsStored

LEMMA CacheNoteKeepsMarked ==
  ASSUME PageTypes, MarkedIsStored, ~mixed, UNCHANGED load, NEW s \in PageState, NEW n \in Notes,
         CacheNote(s, n), s.userId = state.userId, s.notes \subseteq state.notes \cup {n},
         s.cachedIds = state.cachedIds, s.storageOk = state.storageOk, s.fromCache = state.fromCache
  PROVE  MarkedIsStored'
<1>1. CASE state' = [s EXCEPT !.storageOk = FALSE]
  <2>1. ~Claims'
    BY <1>1 DEF Claims, PageState
  <2> QED
    BY <2>1 DEF MarkedIsStored
<1>2. CASE idb' = PutNote(s.userId, n) /\ state' = [s EXCEPT !.cachedIds = @ \cup {n}]
  <2>1. /\ state'.notes = s.notes /\ state'.cachedIds = s.cachedIds \cup {n}
        /\ state'.userId = s.userId /\ state'.storageOk = s.storageOk
        /\ state'.fromCache = s.fromCache /\ s.userId \in Holders
    BY <1>2 DEF PageState
  <2>2. idb'.notes[s.userId] = idb.notes[s.userId] \cup {n}
    BY <1>2, <2>1 DEF PutNote, PageTypes, Store
  <2>3. Marked' = Marked \cup {n}
    BY <2>1 DEF Marked
  <2> QED
    BY <2>1, <2>2, <2>3 DEF MarkedIsStored, Claims
<1> QED
  BY <1>1, <1>2 DEF CacheNote

LEMMA MarkedStaysStored ==
  ASSUME NotesTypes, RequestsAreOwn, ShownIsOwn, MarkedIsStored, [NotesNext]_notesVars
  PROVE  MarkedIsStored'
<1> SUFFICES ASSUME ~mixed', Claims' PROVE MarkedIsStored'
  BY DEF MarkedIsStored
<1>0. /\ ScreenIsOwn /\ ~mixed /\ PageTypes /\ RequestTypes
      /\ state \in PageState /\ idb \in Store /\ state.userId \in Holders
  BY MixedStays DEF ShownIsOwn, NotesTypes, PageTypes, PageState
<1>1. CASE LoadNotes
  <2>1. Marked' = state'.cachedIds /\ Marked = state.cachedIds /\ UNCHANGED idb
    <3>1. load.at = "idle" /\ UNCHANGED idb
          /\ load' = Asked([at |-> "", tok |-> NoUser, reply |-> "", got |-> {}, partial |-> FALSE])
      BY <1>1 DEF LoadNotes
    <3>2. load'.at # "store"
      BY <3>1 DEF Asked
    <3> QED
      BY <3>1, <3>2 DEF Marked
  <2>2. CASE session = NoUser
    <3>1. state' = state
      BY <1>1, <2>2 DEF LoadNotes
    <3> QED
      BY <1>0, <2>1, <3>1, MarkedNoMore DEF Claims
  <2>3. CASE session # NoUser /\ state.userId \in {NoUser, session}
    <3>1. state' = [state EXCEPT !.userId = session]
      BY <1>1, <2>3 DEF LoadNotes
    <3>2. /\ state'.notes = state.notes /\ state'.cachedIds = state.cachedIds
          /\ state'.userId = session /\ state'.storageOk = state.storageOk
          /\ state'.fromCache = state.fromCache
      BY <1>0, <3>1 DEF PageState
    <3>3. CASE state.userId = NoUser
      <4>1. state'.notes = {}
        BY <1>0, <3>2, <3>3, NobodyOwns DEF ScreenIsOwn
      <4> QED
        BY <4>1 DEF MarkedIsStored
    <3>4. CASE state.userId = session
      BY <1>0, <2>1, <2>3, <3>2, <3>4, MarkedNoMore DEF Claims
    <3> QED
      BY <2>3, <3>3, <3>4
  <2>4. CASE session # NoUser /\ state.userId \notin {NoUser, session}
    <3>1. state' = [ResetForNewUser(state) EXCEPT !.userId = session]
      BY <1>1, <2>4 DEF LoadNotes
    <3>2. state'.notes = {}
      BY <1>0, <3>1 DEF PageState, ResetForNewUser
    <3> QED
      BY <3>2 DEF MarkedIsStored
  <2> QED
    BY <2>2, <2>3, <2>4
<1>2. CASE ServeList
  <2>1. load \in ListRequest
    BY <1>0, <1>2, LoadShape DEF ServeList
  <2>2. load.at = "sent" /\ load'.at = "reply" /\ UNCHANGED <<state, idb>>
    BY <1>2, <2>1 DEF ServeList, ListRequest
  <2> QED
    BY <1>0, <2>2, MarkedNoMore DEF Marked, Claims
<1>3. CASE ApplyServerList
  <2> DEFINE shown == [state EXCEPT !.notes = load.got, !.fromCache = FALSE, !.cachedIds = {}]
  <2>1. load \in ListRequest
    BY <1>0, <1>3, LoadShape DEF ApplyServerList
  <2>2. CASE state' = shown /\ idb' = StoreAll(state.userId, load.got)
             /\ load' = [load EXCEPT !.at = "store"]
    <3>1. state'.notes = load.got /\ state'.cachedIds = {} /\ state'.userId = state.userId
      BY <1>0, <2>2 DEF PageState
    <3>2. idb'.notes[state.userId] = load.got
      BY <1>0, <2>2, <3>1 DEF StoreAll, Claims, Store
    <3> QED
      BY <3>1, <3>2 DEF MarkedIsStored
  <2>3. CASE state' = [shown EXCEPT !.storageOk = FALSE, !.loaded = TRUE]
    <3>1. ~state'.storageOk
      BY <1>0, <2>3 DEF PageState
    <3> QED
      BY <3>1 DEF Claims
  <2>4. CASE state' = [shown EXCEPT !.loaded = TRUE] /\ load' = Idle
    <3>1. state'.cachedIds = {} /\ load'.at = "idle"
      BY <1>0, <2>4 DEF PageState, Idle
    <3>2. Marked' = {}
      BY <3>1 DEF Marked
    <3> QED
      BY <3>2 DEF MarkedIsStored
  <2> QED
    BY <1>3, <2>2, <2>3, <2>4 DEF ApplyServerList
<1>4. CASE ListStored
  <2>1. /\ state'.cachedIds = state.cachedIds \cup load.got /\ state'.notes = state.notes
        /\ state'.userId = state.userId /\ state'.storageOk = state.storageOk
        /\ state'.fromCache = state.fromCache /\ load.at = "store" /\ load' = Idle /\ UNCHANGED idb
    BY <1>0, <1>4 DEF ListStored, PageState
  <2>2. Marked' = Marked
    BY <2>1 DEF Marked, Idle
  <2> QED
    BY <1>0, <2>1, <2>2, MarkedNoMore DEF Claims
<1>5. CASE LoadFails
  <2>1. /\ state'.cachedIds = state.cachedIds /\ load.at = "reply" /\ load' = Idle /\ UNCHANGED idb
        /\ state'.userId = state.userId /\ state'.storageOk = state.storageOk
        /\ \/ state'.notes = {}
           \/ state'.notes = state.notes /\ state'.fromCache = state.fromCache
    BY <1>0, <1>5 DEF LoadFails, PageState
  <2>2. Marked' = Marked
    BY <2>1 DEF Marked, Idle
  <2>3. CASE state'.notes = {}
    BY <2>3 DEF MarkedIsStored
  <2>4. CASE state'.notes = state.notes /\ state'.fromCache = state.fromCache
    BY <1>0, <2>1, <2>2, <2>4, MarkedNoMore DEF Claims
  <2> QED
    BY <2>1, <2>3, <2>4
<1>6. CASE ReadCache
  <2>1. load.at = "reply" /\ load'.at = "cached" /\ UNCHANGED <<state, idb>>
    BY <1>6 DEF ReadCache
  <2> QED
    BY <1>0, <2>1, MarkedNoMore DEF Marked, Claims
<1>7. CASE ShowCache
  <2>1. load.at = "cached" /\ load' = Idle /\ UNCHANGED idb
    BY <1>7 DEF ShowCache
  <2>2. CASE load.any
    <3>1. state'.fromCache
      BY <1>0, <1>7, <2>2 DEF ShowCache, PageState
    <3> QED
      BY <3>1 DEF Claims
  <2>3. CASE ~load.any
    <3>1. state' = [state EXCEPT !.loaded = TRUE]
      BY <1>7, <2>3 DEF ShowCache
    <3>2. /\ state'.cachedIds = state.cachedIds /\ state'.notes = state.notes
          /\ state'.userId = state.userId /\ state'.storageOk = state.storageOk
          /\ state'.fromCache = state.fromCache
      BY <1>0, <3>1 DEF PageState
    <3>3. Marked' = Marked
      BY <2>1, <3>2 DEF Marked, Idle
    <3> QED
      BY <1>0, <2>1, <3>2, <3>3, MarkedNoMore DEF Claims
  <2> QED
    BY <2>2, <2>3
<1>8. ASSUME NEW n \in Notes, Saved(n) PROVE MarkedIsStored'
  <2> DEFINE s == IF state.loaded THEN [state EXCEPT !.notes = @ \cup {n}] ELSE state
  <2>1. saves[n].tok = Owner[n] /\ Owner[n] \in Users
    BY <1>8, NotesAssumption DEF Saved, RequestsAreOwn
  <2>2. state.userId # NoUser
    BY <1>8, <2>1, NotesAssumption DEF Saved, Crosses
  <2>3. CacheNote(s, n) /\ UNCHANGED load
    BY <1>8, <2>2 DEF Saved
  <2>4. /\ s \in PageState /\ s.userId = state.userId /\ s.notes \subseteq state.notes \cup {n}
        /\ s.cachedIds = state.cachedIds /\ s.storageOk = state.storageOk
        /\ s.fromCache = state.fromCache
    BY <1>0 DEF PageState
  <2> HIDE DEF s
  <2> QED
    BY <1>0, <2>3, <2>4, CacheNoteKeepsMarked
<1>9. CASE NoteReplaced
  <2> DEFINE s == MutationOver(state)
  <2>1. /\ s \in PageState /\ s.userId = state.userId /\ s.notes = state.notes
        /\ s.cachedIds = state.cachedIds /\ s.storageOk = state.storageOk
        /\ s.fromCache = state.fromCache
    BY <1>0 DEF PageState, MutationOver
  <2>2. mut.note \in Notes
    BY <1>0, <1>9, MutShape DEF NoteReplaced, Mutation
  <2>3. CacheNote(s, mut.note) /\ UNCHANGED load
    BY <1>9 DEF NoteReplaced
  <2> HIDE DEF s
  <2> QED
    BY <1>0, <2>1, <2>2, <2>3, CacheNoteKeepsMarked
<1>10. CASE NoteDeleted
  <2>1. /\ state'.notes = state.notes \ {mut.note} /\ state'.cachedIds \subseteq state.cachedIds
        /\ state'.userId = state.userId /\ state'.fromCache = state.fromCache /\ UNCHANGED load
    <3> DEFINE s == [MutationOver(state) EXCEPT !.notes = @ \ {mut.note}, !.selectedId = NoNote,
                       !.study = IF Found THEN NoNote ELSE @,
                       !.cachedIds = IF Found THEN @ \ {mut.note} ELSE @]
    <3>1. /\ s.notes = state.notes \ {mut.note} /\ s.cachedIds \subseteq state.cachedIds
          /\ s.userId = state.userId /\ s.fromCache = state.fromCache
          /\ DOMAIN s = DOMAIN state
      BY <1>0 DEF MutationOver, PageState
    <3>2. state' = s \/ state' = [s EXCEPT !.storageOk = FALSE]
      BY <1>10 DEF NoteDeleted
    <3>3. UNCHANGED load
      BY <1>10 DEF NoteDeleted
    <3> HIDE DEF s
    <3>4. /\ state'.notes = s.notes /\ state'.cachedIds = s.cachedIds
          /\ state'.userId = s.userId /\ state'.fromCache = s.fromCache
      BY <3>1, <3>2, <1>0 DEF PageState
    <3> QED
      BY <3>1, <3>3, <3>4
  <2>2. Marked' \subseteq Marked
    BY <2>1 DEF Marked
  <2>3. state'.storageOk => state.storageOk /\ idb' = RemoveNote(state.userId, mut.note)
    BY <1>0, <1>10 DEF NoteDeleted, MutationOver, PageState
  <2>4. idb'.notes[state.userId] = idb.notes[state.userId] \ {mut.note}
    BY <1>0, <2>3 DEF Claims, RemoveNote, Store
  <2> QED
    BY <1>0, <2>1, <2>2, <2>3, <2>4 DEF MarkedIsStored, Claims
<1>11. CASE OnSignedOut
  <2>1. state'.userId = NoUser
    BY <1>0, <1>11 DEF OnSignedOut, ResetForNewUser, PageState
  <2> QED
    BY <2>1 DEF Claims
<1>12. CASE \/ CloseNote \/ OpenStored \/ TopicsSuggested \/ MutationFails
            \/ (\E n \in Notes : OpenNote(n)) \/ (\E k \in Kinds : Mutate(k))
  <2>1. /\ state'.cachedIds = state.cachedIds /\ state'.notes = state.notes
        /\ state'.userId = state.userId /\ state'.storageOk = state.storageOk
        /\ state'.fromCache = state.fromCache /\ UNCHANGED <<idb, load>>
    BY <1>0, <1>12 DEF CloseNote, OpenStored, TopicsSuggested, MutationFails, MutationOver,
          OpenNote, Mutate, PageState
  <2> QED
    BY <1>0, <2>1, MarkedNoMore DEF Marked, Claims
<1>13. CASE \/ Network \/ UNCHANGED notesVars
            \/ (\E n \in Notes : SaveAnswer(n) \/ SaveFails(n))
            \/ \E u \in Users : SignIn(u) \/ Elsewhere(u)
  <2>1. UNCHANGED <<state, idb, load>>
    BY <1>13 DEF Network, SaveAnswer, SaveFails, SignIn, Elsewhere, notesVars
  <2> QED
    BY <1>0, <2>1, MarkedNoMore DEF Marked, Claims
<1> QED
  BY <1>1, <1>2, <1>3, <1>4, <1>5, <1>6, <1>7, <1>8, <1>9, <1>10, <1>11, <1>12, <1>13
     DEF NotesNext, Loading, Mutating, Saving

-----------------------------------------------------------------------------
NotesInv == NotesTypes /\ RequestsAreOwn /\ ShownIsOwn /\ MarkedIsStored

LEMMA NotesInit_Inv == NotesInit => NotesInv
<1> SUFFICES ASSUME NotesInit PROVE NotesInv
  OBVIOUS
<1>1. EmptyState \in PageState /\ EmptyState.notes = {} /\ EmptyState.cachedIds = {}
  BY DEF EmptyState, PageState, Holders
<1>2. idb \in Store /\ CopyIsOwn
  <2>1. EmptyStore \in Store /\ \A u \in Holders : EmptyStore.notes[u] = {}
    BY DEF EmptyStore, Store, Holders
  <2>2. CASE idb = EmptyStore
    BY <2>1, <2>2 DEF CopyIsOwn
  <2>3. ASSUME NEW u \in Users,
               idb = [EmptyStore EXCEPT !.notes[u] = Own(u), !.synced = {u}, !.last = u]
        PROVE  idb \in Store /\ CopyIsOwn
    <3>1. [EmptyStore.notes EXCEPT ![u] = Own(u)] \in [Holders -> SUBSET Notes]
      BY <2>1 DEF Store, Own
    <3>2. idb = [notes |-> [EmptyStore.notes EXCEPT ![u] = Own(u)], synced |-> {u}, last |-> u]
      BY <2>3 DEF EmptyStore
    <3>3. idb \in Store
      BY <3>1, <3>2 DEF Store, Holders
    <3>4. \A v \in Holders : idb.notes[v] = IF v = u THEN Own(u) ELSE {}
      BY <2>1, <3>2 DEF Store
    <3> QED
      BY <3>3, <3>4 DEF CopyIsOwn
  <2> QED
    BY <2>2, <2>3 DEF NotesInit
<1>3. NotesTypes
  BY <1>1, <1>2 DEF NotesInit, NotesTypes, ServerTypes, FlagTypes, PageTypes, RequestTypes, LoadTypes,
        MutTypes, Idle, Own, Holders
<1>4. RequestsAreOwn /\ ShownIsOwn /\ MarkedIsStored
  BY <1>1, <1>2 DEF NotesInit, RequestsAreOwn, ListIsOwn, ShownIsOwn, ScreenIsOwn, ReadIsOwn,
        MarkedIsStored, Idle
<1> QED
  BY <1>3, <1>4 DEF NotesInv

LEMMA NotesStep_Inv == NotesInv /\ [NotesNext]_notesVars => NotesInv'
<1> SUFFICES ASSUME NotesInv, [NotesNext]_notesVars PROVE NotesInv'
  OBVIOUS
<1>1. NotesTypes'
  BY ServerTypesKept, FlagTypesKept, PageTypesKept, RequestTypesKept DEF NotesInv, NotesTypes
<1>2. RequestsAreOwn' /\ ShownIsOwn' /\ MarkedIsStored'
  BY RequestsStayOwn, ShownStaysOwn, MarkedStaysStored DEF NotesInv
<1> QED
  BY <1>1, <1>2 DEF NotesInv

LEMMA NotesAlways == NotesSpec => []NotesInv
BY NotesInit_Inv, NotesStep_Inv, PTL DEF NotesSpec

\* The page, the copy and the requests keep their types, and the server keeps a
\* note with its student.
THEOREM NotesTyped == NotesSpec => []NotesTypeOK
<1>1. NotesInv => NotesTypeOK
  <2> SUFFICES ASSUME NotesInv PROVE NotesTypeOK
    OBVIOUS
  <2> USE DEF NotesInv, NotesTypes, PageTypes
  <2>1. session \in Users \cup {NoUser} /\ (\A u \in Users : rows[u] \subseteq Own(u))
    BY DEF ServerTypes, RequestsAreOwn, Holders
  <2>2. /\ state.notes \cup state.cachedIds \subseteq Notes /\ state.userId \in Users \cup {NoUser}
        /\ state.selectedId \in Notes \cup {NoNote} /\ state.study \in Notes \cup {NoNote}
    BY DEF PageState, Holders
  <2>3. /\ idb.last \in Users \cup {NoUser}
        /\ \A u \in Users \cup {NoUser} : idb.notes[u] \subseteq Notes
    BY DEF Store, Holders
  <2> QED
    BY <2>1, <2>2, <2>3 DEF FlagTypes, NotesTypeOK
<1> QED
  BY <1>1, NotesAlways, PTL

\* notes.js and notes-store.js: across sign-ins, sign-outs, expired sessions and
\* copies of an earlier visit, the list on screen and every student's offline
\* copy hold only their own notes, unless a request outlives its visit.
THEOREM NotesCorrect == NotesSpec => []OwnNotesOnly
<1>1. NotesInv => OwnNotesOnly
  BY DEF NotesInv, ShownIsOwn, ScreenIsOwn, CopyIsOwn, Holders, OwnNotesOnly
<1> QED
  BY <1>1, NotesAlways, PTL

\* applyServerList, noteCached and deleteNote: a note that the list marks as
\* available offline is in the copy an offline load reads, for any number of
\* notes, writes that fail and changes that race with the storing of a list.
THEOREM OfflineMarkCorrect == NotesSpec => []OfflineClaimHolds
<1>1. NotesInv => OfflineClaimHolds
  BY DEF NotesInv, MarkedIsStored, Marked, Claims, OfflineClaimHolds
<1> QED
  BY <1>1, NotesAlways, PTL

-----------------------------------------------------------------------------
(* The quiz dialog.  Until Retry is used on a toast that outlived its failure *)
(* there is one generation at a time, and no quiz is on screen for as long as *)
(* that lasts: it finds no attempt to overwrite when it ends.                *)

CountersOK == idx \in Nat /\ idx < Questions /\ sending \in Nat

QuizModalTypeOK ==
  /\ open \in BOOLEAN /\ picked \in BOOLEAN /\ discard \in BOOLEAN
  /\ ready \in BOOLEAN /\ offer \in BOOLEAN /\ overrun \in BOOLEAN
  /\ stage \in {"setup", "active", "result"} /\ saveStatus \in {"", "saving", "saved", "failed"}
  /\ quizId \in Quizzes \cup {NoQuiz} /\ submits \subseteq Quizzes \cup {NoQuiz}
  /\ making \subseteq Quizzes \ made /\ made \subseteq Quizzes

AttemptIsOpen == QuizHasProgress => open

OneAtSetup ==
  (~overrun /\ making # {}) =>
     ~ready /\ ~(open /\ stage = "active") /\ \E q \in Quizzes : making = {q}

QuizModalInv == CountersOK /\ QuizModalTypeOK /\ AttemptIsOpen /\ OneAtSetup

LEMMA SomeQuestion == Questions \in Nat /\ 0 < Questions
BY QuizModalAssumption

LEMMA QuizModalInit_Inv == QuizModalInit => QuizModalInv
<1> SUFFICES ASSUME QuizModalInit PROVE QuizModalInv
  OBVIOUS
<1>1. CountersOK
  BY SomeQuestion DEF QuizModalInit, CountersOK
<1>2. QuizModalTypeOK
  BY DEF QuizModalInit, QuizModalTypeOK
<1>3. AttemptIsOpen /\ OneAtSetup
  BY DEF QuizModalInit, AttemptIsOpen, QuizHasProgress, OneAtSetup
<1> QED
  BY <1>1, <1>2, <1>3 DEF QuizModalInv

LEMMA CountersKept == CountersOK /\ [QuizModalNext]_quizModalVars => CountersOK'
<1> SUFFICES ASSUME CountersOK, [QuizModalNext]_quizModalVars PROVE CountersOK'
  OBVIOUS
<1> USE SomeQuestion DEF CountersOK
<1>1. CASE OpenQuizModal \/ ConfirmQuizDiscard
  <2>1. idx' = 0 /\ sending' = sending
    BY <1>1 DEF OpenQuizModal, ConfirmQuizDiscard, ResetQuizModal
  <2> QED
    BY <2>1
<1>2. ASSUME NEW q \in Quizzes, QuizMade(q) PROVE CountersOK'
  BY <1>2 DEF QuizMade, Generation
<1>3. CASE NextQuizQuestion /\ idx + 1 < Questions
  BY <1>3 DEF NextQuizQuestion
<1>4. CASE NextQuizQuestion /\ ~(idx + 1 < Questions)
  <2>1. idx' = idx /\ sending' \in {sending, sending + 1}
    BY <1>4 DEF NextQuizQuestion
  <2> QED
    BY <2>1
<1>5. CASE SendAttempt
  BY <1>5 DEF SendAttempt
<1>6. CASE \/ RequestCloseQuiz \/ ContinueQuiz \/ GenerateQuiz \/ RetryGenerate \/ DismissOffer
           \/ SelectQuizOption \/ (\E q \in Quizzes : MakingFails(q))
           \/ \E q \in Quizzes \cup {NoQuiz} : AttemptSaved(q) \/ AttemptNotSaved(q)
           \/ UNCHANGED quizModalVars
  <2>1. UNCHANGED <<idx, sending>>
    BY <1>6 DEF RequestCloseQuiz, ContinueQuiz, GenerateQuiz, RetryGenerate, StartMaking,
          DismissOffer, SelectQuizOption, MakingFails, Generation, AttemptSaved, AttemptNotSaved,
          attempt, quizModalVars
  <2> QED
    BY <2>1
<1> QED
  BY <1>1, <1>2, <1>3, <1>4, <1>5, <1>6 DEF QuizModalNext

\* Nothing but the dialog's own buttons, generations and answers counts.
SameDialog == UNCHANGED <<open, stage, idx, picked, ready, making, overrun>>

LEMMA SameDialogKeeps ==
  ASSUME AttemptIsOpen, OneAtSetup, SameDialog PROVE AttemptIsOpen' /\ OneAtSetup'
BY DEF AttemptIsOpen, OneAtSetup, SameDialog, QuizHasProgress

LEMMA QuizModalTypesKept == QuizModalTypeOK /\ [QuizModalNext]_quizModalVars => QuizModalTypeOK'
<1> SUFFICES ASSUME QuizModalTypeOK, [QuizModalNext]_quizModalVars PROVE QuizModalTypeOK'
  OBVIOUS
<1> USE DEF QuizModalTypeOK, attempt
<1>1. CASE OpenQuizModal
  BY <1>1 DEF OpenQuizModal, ResetQuizModal
<1>2. CASE RequestCloseQuiz \/ ContinueQuiz
  BY <1>2 DEF RequestCloseQuiz, ContinueQuiz
<1>3. CASE ConfirmQuizDiscard
  BY <1>3 DEF ConfirmQuizDiscard, ResetQuizModal
<1>4. CASE GenerateQuiz \/ RetryGenerate \/ DismissOffer
  BY <1>4 DEF GenerateQuiz, RetryGenerate, StartMaking, DismissOffer
<1>5. ASSUME NEW q \in Quizzes, QuizMade(q) PROVE QuizModalTypeOK'
  BY <1>5 DEF QuizMade, Generation
<1>6. ASSUME NEW q \in Quizzes, MakingFails(q) PROVE QuizModalTypeOK'
  BY <1>6 DEF MakingFails, Generation
<1>7. CASE SelectQuizOption
  BY <1>7 DEF SelectQuizOption
<1>8. CASE NextQuizQuestion
  <2>1. CASE idx + 1 < Questions
    BY <1>8, <2>1 DEF NextQuizQuestion
  <2>2. CASE ~(idx + 1 < Questions)
    BY <1>8, <2>2 DEF NextQuizQuestion
  <2> QED
    BY <2>1, <2>2
<1>9. CASE SendAttempt
  BY <1>9 DEF SendAttempt
<1>10. ASSUME NEW q \in Quizzes \cup {NoQuiz}, AttemptSaved(q) \/ AttemptNotSaved(q)
       PROVE  QuizModalTypeOK'
  BY <1>10 DEF AttemptSaved, AttemptNotSaved
<1>11. CASE UNCHANGED quizModalVars
  BY <1>11 DEF quizModalVars
<1> QED
  BY <1>1, <1>2, <1>3, <1>4, <1>5, <1>6, <1>7, <1>8, <1>9, <1>10, <1>11 DEF QuizModalNext

LEMMA QuizModalStep_Inv == QuizModalInv /\ [QuizModalNext]_quizModalVars => QuizModalInv'
<1> SUFFICES ASSUME QuizModalInv, [QuizModalNext]_quizModalVars
             PROVE  AttemptIsOpen' /\ OneAtSetup'
  BY CountersKept, QuizModalTypesKept DEF QuizModalInv
<1>1. QuizModalTypeOK /\ AttemptIsOpen /\ OneAtSetup
  BY DEF QuizModalInv
<1>2. CASE OpenQuizModal \/ ConfirmQuizDiscard
  <2>1. stage' = "setup" /\ UNCHANGED <<ready, making, overrun>>
    BY <1>2 DEF OpenQuizModal, ConfirmQuizDiscard, ResetQuizModal
  <2> QED
    BY <1>1, <2>1 DEF AttemptIsOpen, OneAtSetup, QuizHasProgress
<1>3. CASE RequestCloseQuiz
  BY <1>1, <1>3 DEF RequestCloseQuiz, attempt, AttemptIsOpen, OneAtSetup, QuizHasProgress
<1>4. CASE GenerateQuiz
  <2>1. making = {} \/ overrun
    BY <1>1, <1>4 DEF GenerateQuiz, OneAtSetup
  <2>2. AttemptIsOpen'
    BY <1>4 DEF GenerateQuiz, StartMaking, AttemptIsOpen, attempt
  <2>3. OneAtSetup'
    BY <1>4, <2>1 DEF GenerateQuiz, StartMaking, OneAtSetup, attempt
  <2> QED
    BY <2>2, <2>3
<1>5. CASE RetryGenerate
  BY <1>1, <1>5 DEF RetryGenerate, StartMaking, attempt, AttemptIsOpen, OneAtSetup, QuizHasProgress
<1>6. ASSUME NEW q \in Quizzes, QuizMade(q) PROVE AttemptIsOpen' /\ OneAtSetup'
  <2>1. AttemptIsOpen'
    BY <1>6 DEF QuizMade, AttemptIsOpen, QuizHasProgress
  <2>2. OneAtSetup'
    BY <1>1, <1>6 DEF QuizMade, Generation, OneAtSetup
  <2> QED
    BY <2>1, <2>2
<1>7. ASSUME NEW q \in Quizzes, MakingFails(q) PROVE AttemptIsOpen' /\ OneAtSetup'
  BY <1>1, <1>7 DEF MakingFails, Generation, attempt, AttemptIsOpen, OneAtSetup, QuizHasProgress
<1>8. CASE SelectQuizOption \/ NextQuizQuestion
  BY <1>1, <1>8 DEF SelectQuizOption, NextQuizQuestion, Answering, AttemptIsOpen, OneAtSetup
<1>9. CASE \/ ContinueQuiz \/ DismissOffer \/ SendAttempt
           \/ \E q \in Quizzes \cup {NoQuiz} : AttemptSaved(q) \/ AttemptNotSaved(q)
           \/ UNCHANGED quizModalVars
  <2>1. SameDialog
    BY <1>9 DEF ContinueQuiz, DismissOffer, SendAttempt, AttemptSaved, AttemptNotSaved,
          attempt, quizModalVars, SameDialog
  <2> QED
    BY <1>1, <2>1, SameDialogKeeps
<1> QED
  BY <1>2, <1>3, <1>4, <1>5, <1>6, <1>7, <1>8, <1>9 DEF QuizModalNext

\* A step that takes answers away is the end of the attempt or its Discard.
LEMMA AnswersStay ==
  ASSUME QuizModalInv, [QuizModalNext]_quizModalVars, QuizHasProgress, ~overrun
  PROVE  QuizHasProgress' \/ stage' = "result" \/ (discard /\ ~open')
<1>1. open /\ stage = "active" /\ making = {} /\ idx \in Nat
  BY QuizModalAssumption
     DEF QuizModalInv, CountersOK, AttemptIsOpen, QuizHasProgress, OneAtSetup
<1>2. ~OpenQuizModal /\ ~GenerateQuiz /\ \A q \in Quizzes : ~QuizMade(q) /\ ~MakingFails(q)
  BY <1>1 DEF OpenQuizModal, GenerateQuiz, QuizMade, MakingFails, Generation
<1>3. CASE ConfirmQuizDiscard
  BY <1>3 DEF ConfirmQuizDiscard
<1>4. CASE NextQuizQuestion
  <2>1. CASE idx + 1 < Questions
    <3>1. idx' > 0 /\ stage' = stage
      BY <1>1, <1>4, <2>1 DEF NextQuizQuestion
    <3> QED
      BY <1>1, <3>1 DEF QuizHasProgress
  <2>2. CASE ~(idx + 1 < Questions)
    BY <1>4, <2>2 DEF NextQuizQuestion
  <2> QED
    BY <2>1, <2>2
<1>5. CASE SelectQuizOption
  BY <1>1, <1>5 DEF SelectQuizOption, QuizHasProgress
<1>6. CASE \/ RequestCloseQuiz \/ ContinueQuiz \/ RetryGenerate \/ DismissOffer \/ SendAttempt
           \/ \E q \in Quizzes \cup {NoQuiz} : AttemptSaved(q) \/ AttemptNotSaved(q)
           \/ UNCHANGED quizModalVars
  <2>1. UNCHANGED <<stage, idx, picked>>
    BY <1>6 DEF RequestCloseQuiz, ContinueQuiz, RetryGenerate, StartMaking, DismissOffer,
          SendAttempt, AttemptSaved, AttemptNotSaved, attempt, quizModalVars
  <2> QED
    BY <2>1 DEF QuizHasProgress
<1> QED
  BY <1>2, <1>3, <1>4, <1>5, <1>6 DEF QuizModalNext

\* quizHasProgress, requestCloseQuiz and generateAndStartQuiz: answers that were
\* given end by their result or by Discard, for any number of questions and of
\* generations, until Retry starts a generation beside another or over a quiz.
THEOREM AttemptCorrect == QuizModalSpec => ProgressKept
<1>1. /\ QuizModalInv /\ [QuizModalNext]_quizModalVars
      => [(QuizHasProgress /\ ~overrun) =>
            QuizHasProgress' \/ stage' = "result" \/ (discard /\ ~open')]_quizModalVars
  BY AnswersStay
<1> QED
  BY <1>1, QuizModalInit_Inv, QuizModalStep_Inv, PTL DEF QuizModalSpec, ProgressKept

-----------------------------------------------------------------------------
(* The boundary of what may be rendered.  Up to the last character that is no *)
(* part of a delimiter, a scan of the longer text takes the same way as one of *)
(* the shorter; where it leaves it, it is past all that the clamp had left.   *)

\* The characters that delimiters are made of.
Marks == Ambiguous \cup {"gt", "lbrk", "rbrk", "lpar", "rpar"}

LEMMA DelimitersShape ==
  /\ DOMAIN Delimiters = 1..8
  /\ \A k \in 1..8 :
       /\ Delimiters[k].open \in Seq(Marks) /\ Delimiters[k].close \in Seq(Marks)
       /\ Len(Delimiters[k].open) \in Nat \ {0} /\ Len(Delimiters[k].close) \in Nat \ {0}
       /\ \A n \in 1..Len(Delimiters[k].open) - 1 : Delimiters[k].open[n] \in Ambiguous
<1> DEFINE Shape(d, c) ==
             /\ d \in Seq(Marks) /\ c \in Seq(Marks) /\ Len(d) \in Nat \ {0} /\ Len(c) \in Nat \ {0}
             /\ \A n \in 1..Len(d) - 1 : d[n] \in Ambiguous
<1>1. Shape(Delimiters[1].open, Delimiters[1].close)
  <2>1. Delimiters[1] = [open |-> <<"lt", "bang", "dash", "dash">>, close |-> <<"dash", "dash", "gt">>]
    BY DEF Delimiters
  <2>2. Shape(<<"lt", "bang", "dash", "dash">>, <<"dash", "dash", "gt">>)
    BY DEF Ambiguous, Marks
  <2> QED
    BY <2>1, <2>2
<1>2. Shape(Delimiters[2].open, Delimiters[2].close)
  <2>1. Delimiters[2] = [open |-> <<"tick", "tick", "tick">>, close |-> <<"tick", "tick", "tick">>]
    BY DEF Delimiters
  <2>2. Shape(<<"tick", "tick", "tick">>, <<"tick", "tick", "tick">>)
    BY DEF Ambiguous, Marks
  <2> QED
    BY <2>1, <2>2
<1>3. Shape(Delimiters[3].open, Delimiters[3].close)
  <2>1. Delimiters[3] = [open |-> <<"dollar", "dollar">>, close |-> <<"dollar", "dollar">>]
    BY DEF Delimiters
  <2>2. Shape(<<"dollar", "dollar">>, <<"dollar", "dollar">>)
    BY DEF Ambiguous, Marks
  <2> QED
    BY <2>1, <2>2
<1>4. Shape(Delimiters[4].open, Delimiters[4].close)
  <2>1. Delimiters[4] = [open |-> <<"back", "lbrk">>, close |-> <<"back", "rbrk">>]
    BY DEF Delimiters
  <2>2. Shape(<<"back", "lbrk">>, <<"back", "rbrk">>)
    BY DEF Ambiguous, Marks
  <2> QED
    BY <2>1, <2>2
<1>5. Shape(Delimiters[5].open, Delimiters[5].close)
  <2>1. Delimiters[5] = [open |-> <<"back", "lpar">>, close |-> <<"back", "rpar">>]
    BY DEF Delimiters
  <2>2. Shape(<<"back", "lpar">>, <<"back", "rpar">>)
    BY DEF Ambiguous, Marks
  <2> QED
    BY <2>1, <2>2
<1>6. Shape(Delimiters[6].open, Delimiters[6].close)
  <2>1. Delimiters[6] = [open |-> <<"dollar">>, close |-> <<"dollar">>]
    BY DEF Delimiters
  <2>2. Shape(<<"dollar">>, <<"dollar">>)
    BY DEF Ambiguous, Marks
  <2> QED
    BY <2>1, <2>2
<1>7. Shape(Delimiters[7].open, Delimiters[7].close)
  <2>1. Delimiters[7] = [open |-> <<"tick">>, close |-> <<"tick">>]
    BY DEF Delimiters
  <2>2. Shape(<<"tick">>, <<"tick">>)
    BY DEF Ambiguous, Marks
  <2> QED
    BY <2>1, <2>2
<1>8. Shape(Delimiters[8].open, Delimiters[8].close)
  <2>1. Delimiters[8] = [open |-> <<"star", "star">>, close |-> <<"star", "star">>]
    BY DEF Delimiters
  <2>2. Shape(<<"star", "star">>, <<"star", "star">>)
    BY DEF Ambiguous, Marks
  <2> QED
    BY <2>1, <2>2
<1>9. DOMAIN Delimiters = 1..8
  BY DEF Delimiters
<1> HIDE DEF Shape
<1>10. \A k \in 1..8 : Shape(Delimiters[k].open, Delimiters[k].close)
  BY <1>1, <1>2, <1>3, <1>4, <1>5, <1>6, <1>7, <1>8
<1> QED
  BY <1>9, <1>10 DEF Shape

LEMMA LeastNat ==
  ASSUME NEW S, S \subseteq Nat, S # {}
  PROVE  Least(S) \in S /\ \A m \in S : Least(S) <= m
<1>1. \A a, b \in Nat : a < b => <<a, b>> \in OpToRel(<, Nat)
  BY Zenon DEF OpToRel
<1>2. PICK a \in S : \A b \in S : ~ (<<b, a>> \in OpToRel(<, Nat))
  BY NatLessThanWellFounded, WFMin
<1>3. \A b \in S : ~(b < a)
  BY <1>1, <1>2
<1>4. \A b \in S : a <= b
  BY <1>3
<1> QED
  BY <1>4 DEF Least

\* The largest member is the one that is nearest to the bound.
LEMMA GreatestExists ==
  ASSUME NEW L \in Nat, NEW S, S \subseteq 1..L, S # {}
  PROVE  \E n \in S : \A m \in S : m <= n
<1> DEFINE gaps == {L - n : n \in S}
<1>1. gaps \subseteq Nat /\ gaps # {}
  <2>1. \A n \in S : n \in 1..L /\ L - n \in Nat
    OBVIOUS
  <2>2. gaps \subseteq Nat
    BY <2>1
  <2>3. gaps # {}
    OBVIOUS
  <2> QED
    BY <2>2, <2>3
<1> HIDE DEF gaps
<1>2. Least(gaps) \in gaps /\ \A g \in gaps : Least(gaps) <= g
  BY <1>1, LeastNat
<1>3. PICK n \in S : L - n = Least(gaps)
  BY <1>2 DEF gaps
<1>4. \A m \in S : L - n <= L - m
  BY <1>2, <1>3 DEF gaps
<1>5. \A m \in S : m <= n
  BY <1>4
<1> QED
  BY <1>5

LEMMA StartsWithIs ==
  ASSUME NEW C, NEW t \in Seq(C), NEW i \in Nat \ {0}, NEW d \in Seq(Marks), Len(d) \in Nat \ {0}
  PROVE  StartsWith(t, i, d) <=> /\ i + Len(d) - 1 <= Len(t)
                                 /\ \A n \in 1..Len(d) : t[i + n - 1] = d[n]
<1> SUFFICES ASSUME i + Len(d) - 1 <= Len(t)
    PROVE  SubSeq(t, i, i + Len(d) - 1) = d <=> \A n \in 1..Len(d) : t[i + n - 1] = d[n]
  BY DEF StartsWith
<1> DEFINE s == SubSeq(t, i, i + Len(d) - 1)
<1>1. /\ Len(s) = Len(d)
      /\ s \in Seq(C)
      /\ \A n \in 1..Len(d) : s[n] = t[i + n - 1]
  OBVIOUS
<1>2. s = [n \in 1..Len(d) |-> s[n]] /\ d = [n \in 1..Len(d) |-> d[n]]
  BY <1>1
<1> HIDE DEF s
<1>3. (\A n \in 1..Len(d) : s[n] = d[n]) => s = d
  BY <1>2
<1> QED
  BY <1>1, <1>3 DEF s

\* A delimiter that ends within the text is found in it however the text goes on.
LEMMA StartsWithGrows ==
  ASSUME NEW C, NEW t \in Seq(C), NEW ch \in C, NEW i \in Nat \ {0},
         NEW d \in Seq(Marks), Len(d) \in Nat \ {0}
  PROVE  StartsWith(t, i, d) <=> StartsWith(Append(t, ch), i, d) /\ i + Len(d) - 1 <= Len(t)
<1> DEFINE u == Append(t, ch)
<1>1. u \in Seq(C) /\ Len(u) = Len(t) + 1 /\ \A n \in 1..Len(t) : u[n] = t[n]
  OBVIOUS
<1> HIDE DEF u
<1>2. StartsWith(u, i, d) <=> /\ i + Len(d) - 1 <= Len(u)
                              /\ \A n \in 1..Len(d) : u[i + n - 1] = d[n]
  BY <1>1, StartsWithIs
<1>3. StartsWith(t, i, d) <=> /\ i + Len(d) - 1 <= Len(t)
                              /\ \A n \in 1..Len(d) : t[i + n - 1] = d[n]
  BY StartsWithIs
<1>4. i + Len(d) - 1 <= Len(t) => \A n \in 1..Len(d) : u[i + n - 1] = t[i + n - 1]
  BY <1>1
<1> QED
  BY <1>1, <1>2, <1>3, <1>4 DEF u

LEMMA TriedIs ==
  ASSUME NEW t \in Seq(Alphabet), NEW i \in Nat \ {0}, Tried(t, i) # {}
  PROVE  LET k == Least(Tried(t, i)) IN
         k \in 1..8 /\ k \in Tried(t, i) /\ StartsWith(t, i, Delimiters[k].open)
<1>1. Tried(t, i) \subseteq 1..8
  BY DelimitersShape DEF Tried
<1>2. Least(Tried(t, i)) \in Tried(t, i)
  BY <1>1, LeastNat
<1> QED
  BY <1>1, <1>2 DEF Tried

LEMMA ClosedIs ==
  ASSUME NEW t \in Seq(Alphabet), NEW i \in Nat \ {0}, NEW d \in Seq(Marks), Len(d) \in Nat \ {0}
  PROVE  /\ Closed(t, i, d) \subseteq i + 1..Len(t) + 1
         /\ \A e \in Closed(t, i, d) : e - Len(d) \in i..Len(t) /\ StartsWith(t, e - Len(d), d)
<1>1. ASSUME NEW e \in Closed(t, i, d)
      PROVE  /\ e \in i + 1..Len(t) + 1 /\ e - Len(d) \in i..Len(t)
             /\ StartsWith(t, e - Len(d), d)
  <2>1. PICK j \in i..Len(t) : StartsWith(t, j, d) /\ e = j + Len(d)
    BY <1>1 DEF Closed
  <2>2. j + Len(d) - 1 <= Len(t)
    BY <2>1 DEF StartsWith
  <2>3. e - Len(d) = j
    BY <2>1
  <2> QED
    BY <2>1, <2>2, <2>3
<1> QED
  BY <1>1

\* The scan only goes forward.
LEMMA AdvanceForward ==
  ASSUME NEW t \in Seq(Alphabet), NEW i \in 1..Len(t)
  PROVE  Advance(t, i) = 0 \/ Advance(t, i) \in i + 1..Len(t) + 1
<1>1. CASE Tried(t, i) = {}
  BY <1>1 DEF Advance
<1>2. CASE Tried(t, i) # {}
  <2> DEFINE k == Least(Tried(t, i))
  <2>1. k \in 1..8
    BY <1>2, TriedIs
  <2> HIDE DEF k
  <2>2. /\ Delimiters[k].open \in Seq(Marks) /\ Len(Delimiters[k].open) \in Nat \ {0}
        /\ Delimiters[k].close \in Seq(Marks) /\ Len(Delimiters[k].close) \in Nat \ {0}
    BY <2>1, DelimitersShape
  <2> DEFINE after == Closed(t, i + Len(Delimiters[k].open), Delimiters[k].close)
  <2>3. after \subseteq i + 1..Len(t) + 1
    <3>1. i + Len(Delimiters[k].open) \in Nat \ {0} /\ i + Len(Delimiters[k].open) > i
      BY <2>2
    <3>2. after \subseteq i + Len(Delimiters[k].open) + 1..Len(t) + 1
      BY <2>2, <3>1, ClosedIs
    <3> QED
      BY <2>2, <3>1, <3>2
  <2>4. Advance(t, i) = IF after = {} THEN 0 ELSE Least(after)
    BY <1>2 DEF Advance, k
  <2> HIDE DEF after
  <2>5. after # {} => Least(after) \in after
    <3>1. after \subseteq Nat
      BY <2>3
    <3> QED
      BY <3>1, LeastNat
  <2> QED
    BY <2>3, <2>4, <2>5
<1> QED
  BY <1>1, <1>2

\* The recursion of the scan is well founded: it has a solution on every end of
\* the text, and so on the whole of it.
LEMMA ScanExists ==
  ASSUME NEW t \in Seq(Alphabet)
  PROVE  \E f : f = [n \in 1..Len(t) + 1 |->
                       IF n > Len(t) THEN Len(t)
                       ELSE IF Advance(t, n) = 0 THEN n - 1 ELSE f[Advance(t, n)]]
<1> DEFINE L == Len(t)
           Scan(m, f) == f = [n \in m..L + 1 |->
                                IF n > L THEN L
                                ELSE IF Advance(t, n) = 0 THEN n - 1 ELSE f[Advance(t, n)]]
           Bad == {m \in 1..L + 1 : \A f : ~ Scan(m, f)}
<1>1. L \in Nat
  OBVIOUS
<1>2. \A n \in 1..L : Advance(t, n) = 0 \/ Advance(t, n) \in n + 1..L + 1
  BY AdvanceForward
<1> HIDE DEF L
<1>3. SUFFICES ASSUME Bad # {} PROVE FALSE
  <2>1. 1 \notin Bad
    BY <1>3
  <2>2. \E f : Scan(1, f)
    BY <1>1, <2>1
  <2> QED
    BY <2>2 DEF L
<1>4. PICK m \in Bad : \A n \in Bad : n <= m
  <2>1. Bad \subseteq 1..L + 1 /\ L + 1 \in Nat
    BY <1>1
  <2> HIDE DEF Bad
  <2> QED
    BY <1>3, <2>1, GreatestExists
<1>5. CASE m = L + 1
  <2>1. Scan(L + 1, [n \in L + 1..L + 1 |-> L])
    BY <1>1
  <2> QED
    BY <1>4, <1>5, <2>1
<1>6. CASE m # L + 1
  <2>1. m \in 1..L /\ m + 1 \in 1..L + 1 /\ m + 1 \notin Bad
    BY <1>1, <1>4, <1>6
  <2>2. PICK f : Scan(m + 1, f)
    BY <2>1
  <2> DEFINE h == [n \in m..L + 1 |->
                     IF n = m THEN (IF Advance(t, m) = 0 THEN m - 1 ELSE f[Advance(t, m)])
                     ELSE f[n]]
  <2>3. \A n \in m + 1..L + 1 : h[n] = f[n]
    BY <1>1, <2>1
  <2>4. ASSUME NEW n \in m..L + 1
        PROVE  h[n] = IF n > L THEN L
                      ELSE IF Advance(t, n) = 0 THEN n - 1 ELSE h[Advance(t, n)]
    <3>1. CASE n = m
      <4>1. n <= L
        BY <1>1, <2>1, <3>1
      <4>2. Advance(t, n) # 0 => Advance(t, n) \in m + 1..L + 1
        BY <1>2, <2>1, <3>1
      <4> QED
        BY <1>1, <2>1, <2>3, <3>1, <4>1, <4>2
    <3>2. CASE n # m
      <4>1. n \in m + 1..L + 1
        BY <1>1, <2>1, <3>2
      <4>2. f[n] = IF n > L THEN L
                   ELSE IF Advance(t, n) = 0 THEN n - 1 ELSE f[Advance(t, n)]
        BY <2>2, <4>1
      <4>3. n <= L /\ Advance(t, n) # 0 => Advance(t, n) \in m + 1..L + 1
        BY <1>1, <1>2, <2>1, <4>1
      <4> HIDE DEF h
      <4>4. h[n] = f[n]
        BY <2>3, <4>1
      <4>5. n <= L /\ Advance(t, n) # 0 => h[Advance(t, n)] = f[Advance(t, n)]
        BY <2>3, <4>3
      <4>6. n <= L \/ n > L
        BY <1>1, <2>1, <4>1
      <4> QED
        BY <1>1, <4>1, <4>2, <4>4, <4>5, <4>6
    <3> QED
      BY <3>1, <3>2
  <2>5. h = [n \in m..L + 1 |-> h[n]]
    OBVIOUS
  <2> HIDE DEF h
  <2>6. Scan(m, h)
    BY <2>4, <2>5
  <2> QED
    BY <1>4, <2>6
<1> QED
  BY <1>5, <1>6

LEMMA SafeLengthIs ==
  ASSUME NEW t \in Seq(Alphabet), NEW i \in 1..Len(t) + 1
  PROVE  SafeLength(t, i) = IF i > Len(t) THEN Len(t)
                            ELSE IF Advance(t, i) = 0 THEN i - 1
                            ELSE SafeLength(t, Advance(t, i))
<1> DEFINE Scan(f) == f = [n \in 1..Len(t) + 1 |->
                             IF n > Len(t) THEN Len(t)
                             ELSE IF Advance(t, n) = 0 THEN n - 1 ELSE f[Advance(t, n)]]
           safe == CHOOSE f : Scan(f)
<1>1. \A n : SafeLength(t, n) = safe[n]
  BY Zenon DEF SafeLength
<1>2. Scan(safe)
  <2>1. \E f : Scan(f)
    BY ScanExists
  <2> HIDE DEF Scan
  <2> QED
    BY <2>1
<1> HIDE DEF safe
<1>3. safe[i] = IF i > Len(t) THEN Len(t)
                ELSE IF Advance(t, i) = 0 THEN i - 1 ELSE safe[Advance(t, i)]
  BY <1>2
<1> QED
  BY <1>1, <1>3

\* The text before the position at which a scan stands is never given up.
LEMMA SafeAtLeast ==
  ASSUME NEW t \in Seq(Alphabet), NEW i \in 1..Len(t) + 1
  PROVE  SafeLength(t, i) \in Nat /\ SafeLength(t, i) >= i - 1
<1> DEFINE Bad == {n \in 1..Len(t) + 1 : ~ (SafeLength(t, n) \in Nat /\ SafeLength(t, n) >= n - 1)}
<1>1. SUFFICES ASSUME Bad # {} PROVE FALSE
  BY <1>1
<1>2. PICK m \in Bad : \A n \in Bad : n <= m
  <2>1. Bad \subseteq 1..Len(t) + 1 /\ Len(t) + 1 \in Nat
    OBVIOUS
  <2> HIDE DEF Bad
  <2> QED
    BY <1>1, <2>1, GreatestExists
<1>3. CASE m > Len(t) \/ Advance(t, m) = 0
  BY <1>2, <1>3, SafeLengthIs
<1>4. CASE m <= Len(t) /\ Advance(t, m) # 0
  <2>1. m \in 1..Len(t)
    BY <1>2, <1>4
  <2>2. Advance(t, m) \in m + 1..Len(t) + 1
    BY <1>4, <2>1, AdvanceForward
  <2>3. SafeLength(t, m) = SafeLength(t, Advance(t, m))
    BY <1>2, <1>4, SafeLengthIs
  <2>4. Advance(t, m) \notin Bad
    BY <1>2, <2>1, <2>2
  <2> QED
    BY <1>2, <2>1, <2>2, <2>3, <2>4
<1> QED
  BY <1>2, <1>3, <1>4

LEMMA UnambiguousIs ==
  ASSUME NEW t \in Seq(Alphabet)
  PROVE  /\ Unambiguous(t) \in 0..Len(t)
         /\ Unambiguous(t) # 0 => t[Unambiguous(t)] \notin Ambiguous
         /\ \A n \in 1..Len(t) : t[n] \notin Ambiguous => n <= Unambiguous(t)
<1> DEFINE plain == {n \in DOMAIN t : t[n] \notin Ambiguous}
<1>1. plain = {n \in 1..Len(t) : t[n] \notin Ambiguous}
  OBVIOUS
<1>2. plain \subseteq 1..Len(t)
  BY <1>1
<1>3. Unambiguous(t) = IF plain = {} THEN 0 ELSE CHOOSE n \in plain : \A m \in plain : m <= n
  BY DEF Unambiguous
<1> HIDE DEF plain
<1>4. plain # {} => Unambiguous(t) \in plain /\ \A m \in plain : m <= Unambiguous(t)
  <2>1. Len(t) \in Nat
    OBVIOUS
  <2>2. plain # {} => \E n \in plain : \A m \in plain : m <= n
    BY <1>2, <2>1, GreatestExists
  <2> QED
    BY <1>3, <2>2
<1>5. CASE plain = {}
  <2>1. Unambiguous(t) = 0 /\ 0 \in 0..Len(t)
    BY <1>3, <1>5
  <2>2. \A n \in 1..Len(t) : t[n] \in Ambiguous
    BY <1>1, <1>5
  <2> QED
    BY <2>1, <2>2
<1>6. CASE plain # {}
  BY <1>1, <1>4, <1>6
<1> QED
  BY <1>5, <1>6

LEMMA UnambiguousGrows ==
  ASSUME NEW t \in Seq(Alphabet), NEW ch \in Alphabet
  PROVE  Unambiguous(t) <= Unambiguous(Append(t, ch))
<1> DEFINE u == Append(t, ch)
<1>1. u \in Seq(Alphabet) /\ Len(u) = Len(t) + 1 /\ \A n \in 1..Len(t) : u[n] = t[n]
  OBVIOUS
<1> HIDE DEF u
<1>2. /\ Unambiguous(t) \in 0..Len(t) /\ Unambiguous(u) \in 0..Len(u)
      /\ Unambiguous(t) # 0 => t[Unambiguous(t)] \notin Ambiguous
  BY <1>1, UnambiguousIs
<1>3. CASE Unambiguous(t) = 0
  BY <1>2, <1>3 DEF u
<1>4. CASE Unambiguous(t) # 0
  <2>1. Unambiguous(t) \in 1..Len(u) /\ u[Unambiguous(t)] \notin Ambiguous
    BY <1>1, <1>2, <1>4
  <2> QED
    BY <1>1, <2>1, UnambiguousIs DEF u
<1> QED
  BY <1>3, <1>4

\* Up to the last character that is no part of a delimiter, the same opening is
\* found however the text goes on: one that reached the character that is new
\* would have that character inside.
LEMMA TriedStays ==
  ASSUME NEW t \in Seq(Alphabet), NEW ch \in Alphabet, NEW i \in 1..Unambiguous(t)
  PROVE  Tried(Append(t, ch), i) = Tried(t, i)
<1> DEFINE u == Append(t, ch)
           U == Unambiguous(t)
<1>1. /\ u \in Seq(Alphabet) /\ Len(u) = Len(t) + 1 /\ \A n \in 1..Len(t) : u[n] = t[n]
      /\ Len(t) \in Nat
  OBVIOUS
<1>2. U \in 1..Len(t) /\ t[U] \notin Ambiguous /\ i \in Nat \ {0}
  BY UnambiguousIs
<1> HIDE DEF u, U
<1>3. ASSUME NEW k \in 1..8
      PROVE  StartsWith(u, i, Delimiters[k].open) <=> StartsWith(t, i, Delimiters[k].open)
  <2> DEFINE d == Delimiters[k].open
  <2>1. d \in Seq(Marks) /\ Len(d) \in Nat \ {0} /\ \A n \in 1..Len(d) - 1 : d[n] \in Ambiguous
    BY DelimitersShape
  <2> HIDE DEF d
  <2>2. StartsWith(t, i, d) <=> StartsWith(u, i, d) /\ i + Len(d) - 1 <= Len(t)
    BY <1>2, <2>1, StartsWithGrows DEF u
  <2>3. ASSUME StartsWith(u, i, d), ~ (i + Len(d) - 1 <= Len(t)) PROVE FALSE
    <3>1. i + Len(d) - 1 = Len(t) + 1 /\ \A n \in 1..Len(d) : u[i + n - 1] = d[n]
      <4>1. StartsWith(u, i, d) <=> /\ i + Len(d) - 1 <= Len(u)
                                    /\ \A n \in 1..Len(d) : u[i + n - 1] = d[n]
        BY <1>1, <1>2, <2>1, StartsWithIs
      <4>2. i + Len(d) - 1 <= Len(u) /\ \A n \in 1..Len(d) : u[i + n - 1] = d[n]
        BY <2>3, <4>1
      <4>3. i + Len(d) - 1 = Len(t) + 1
        <5>1. i \in Nat /\ Len(d) \in Nat /\ Len(t) \in Nat /\ Len(u) = Len(t) + 1
          BY <1>1, <1>2, <2>1
        <5>2. i + Len(d) - 1 <= Len(u) /\ ~ (i + Len(d) - 1 <= Len(t))
          BY <2>3, <4>2
        <5> QED
          BY <5>1, <5>2
      <4> QED
        BY <4>2, <4>3
    <3>2. i <= U
      BY DEF U
    <3>3. PICK n \in 1..Len(d) - 1 : i + n - 1 = U
      <4>1. U - i + 1 \in 1..Len(d) - 1 /\ i + (U - i + 1) - 1 = U
        BY <1>1, <1>2, <2>1, <3>1, <3>2
      <4> QED
        BY <4>1
    <3>4. n \in 1..Len(d)
      BY <2>1, <3>3
    <3>5. u[U] = d[n]
      BY <3>1, <3>3, <3>4
    <3> QED
      BY <1>1, <1>2, <2>1, <3>3, <3>5
  <2> QED
    BY <2>2, <2>3 DEF d
<1> QED
  BY <1>3, DelimitersShape DEF Tried, u

\* A construct that is closed stays closed at the same place.
LEMMA ClosedStays ==
  ASSUME NEW t \in Seq(Alphabet), NEW ch \in Alphabet, NEW i \in Nat \ {0},
         NEW d \in Seq(Marks), Len(d) \in Nat \ {0}, Closed(t, i, d) # {}
  PROVE  /\ Closed(Append(t, ch), i, d) # {}
         /\ Least(Closed(Append(t, ch), i, d)) = Least(Closed(t, i, d))
<1> DEFINE u == Append(t, ch)
           old == Closed(t, i, d)
           new == Closed(u, i, d)
<1>1. u \in Seq(Alphabet) /\ Len(u) = Len(t) + 1 /\ Len(t) \in Nat
  OBVIOUS
<1>2. \A j \in Nat \ {0} :
        StartsWith(t, j, d) <=> StartsWith(u, j, d) /\ j + Len(d) - 1 <= Len(t)
  BY StartsWithGrows
<1> HIDE DEF u
<1>3. old \subseteq i + 1..Len(t) + 1
  BY ClosedIs
<1>4. \A e \in new : e \in i + 1..Len(t) + 2
                     /\ e - Len(d) \in i..Len(u) /\ StartsWith(u, e - Len(d), d)
  BY <1>1, ClosedIs
<1>5. old \subseteq new
  <2>1. i..Len(t) \subseteq i..Len(u) /\ i..Len(t) \subseteq Nat \ {0}
    BY <1>1
  <2> QED
    BY <1>2, <2>1 DEF Closed
<1>6. ASSUME NEW e \in new, e <= Len(t) + 1 PROVE e \in old
  <2> DEFINE j == e - Len(d)
  <2>1. j \in i..Len(u) /\ StartsWith(u, j, d) /\ e \in Nat /\ j + Len(d) = e
    BY <1>4
  <2> HIDE DEF j
  <2>2. j \in Nat \ {0} /\ j + Len(d) - 1 <= Len(t) /\ j \in i..Len(t)
    BY <1>1, <1>6, <2>1
  <2>3. StartsWith(t, j, d)
    BY <1>2, <2>1, <2>2
  <2> QED
    BY <2>1, <2>2, <2>3 DEF Closed
<1> HIDE DEF old, new
<1>7. old # {} /\ old \subseteq Nat /\ new \subseteq Nat /\ new # {}
  BY <1>1, <1>3, <1>4, <1>5 DEF old
<1> DEFINE a == Least(old)
           b == Least(new)
<1>8. a \in old /\ \A m \in old : a <= m
  BY <1>7, LeastNat
<1>9. b \in new /\ \A m \in new : b <= m
  BY <1>7, LeastNat
<1> HIDE DEF a, b
<1>10. a \in Nat /\ b \in Nat /\ a <= Len(t) + 1 /\ b <= a
  BY <1>1, <1>3, <1>5, <1>7, <1>8, <1>9
<1>11. b \in old
  BY <1>1, <1>6, <1>9, <1>10
<1>12. a = b
  BY <1>8, <1>10, <1>11
<1> QED
  BY <1>7, <1>12 DEF old, new, u, a, b

LEMMA AdvanceStays ==
  ASSUME NEW t \in Seq(Alphabet), NEW ch \in Alphabet, NEW i \in 1..Unambiguous(t),
         Advance(t, i) # 0
  PROVE  Advance(Append(t, ch), i) = Advance(t, i)
<1> DEFINE u == Append(t, ch)
<1>1. Tried(u, i) = Tried(t, i)
  BY TriedStays
<1>2. i \in Nat \ {0}
  BY UnambiguousIs
<1> HIDE DEF u
<1>3. CASE Tried(t, i) = {}
  BY <1>1, <1>3 DEF Advance, u
<1>4. CASE Tried(t, i) # {}
  <2> DEFINE k == Least(Tried(t, i))
  <2>1. k \in 1..8
    BY <1>2, <1>4, TriedIs
  <2> HIDE DEF k
  <2> DEFINE c == Delimiters[k].close
             from == i + Len(Delimiters[k].open)
  <2>2. c \in Seq(Marks) /\ Len(c) \in Nat \ {0} /\ from \in Nat \ {0}
    <3>1. c \in Seq(Marks) /\ Len(c) \in Nat \ {0} /\ Len(Delimiters[k].open) \in Nat \ {0}
      BY <2>1, DelimitersShape
    <3> QED
      BY <1>2, <3>1
  <2>3. Advance(t, i) = IF Closed(t, from, c) = {} THEN 0 ELSE Least(Closed(t, from, c))
    BY <1>4 DEF Advance, k
  <2>4. Advance(u, i) = IF Closed(u, from, c) = {} THEN 0 ELSE Least(Closed(u, from, c))
    BY <1>1, <1>4 DEF Advance, k
  <2> HIDE DEF c, from
  <2> QED
    BY <2>2, <2>3, <2>4, ClosedStays DEF u
<1> QED
  BY <1>3, <1>4

\* From any position on, a longer text is scanned as far as the shorter one, or
\* else past everything of it that the clamp leaves.
LEMMA SafeGrows ==
  ASSUME NEW t \in Seq(Alphabet), NEW ch \in Alphabet, NEW i \in 1..Len(t) + 1
  PROVE  \/ SafeLength(t, i) <= SafeLength(Append(t, ch), i)
         \/ Unambiguous(t) <= SafeLength(Append(t, ch), i)
<1> DEFINE u == Append(t, ch)
           U == Unambiguous(t)
           Ok(n) == SafeLength(t, n) <= SafeLength(u, n) \/ U <= SafeLength(u, n)
           Bad == {n \in 1..Len(t) + 1 : ~ Ok(n)}
<1>1. u \in Seq(Alphabet) /\ Len(u) = Len(t) + 1 /\ Len(t) \in Nat /\ U \in 0..Len(t)
  BY UnambiguousIs
<1>2. \A n \in 1..U : Advance(t, n) # 0 => Advance(u, n) = Advance(t, n)
  BY AdvanceStays
<1> HIDE DEF u, U
<1>3. SUFFICES ASSUME Bad # {} PROVE FALSE
  BY <1>3 DEF u, U
<1>4. PICK m \in Bad : \A n \in Bad : n <= m
  <2>1. Bad \subseteq 1..Len(t) + 1 /\ Len(t) + 1 \in Nat
    OBVIOUS
  <2> HIDE DEF Bad
  <2> QED
    BY <1>3, <2>1, GreatestExists
<1>5. m \in 1..Len(t) + 1 /\ m \in 1..Len(u) + 1 /\ ~ Ok(m)
  BY <1>1, <1>4
<1>6. SafeLength(u, m) \in Nat /\ SafeLength(u, m) >= m - 1
  BY <1>1, <1>5, SafeAtLeast
<1>7. m <= U /\ m \in 1..Len(t) /\ m \in 1..U /\ m <= Len(u)
  BY <1>1, <1>5, <1>6
<1>8. CASE Advance(t, m) = 0
  <2>1. SafeLength(t, m) = m - 1
    BY <1>5, <1>7, <1>8, SafeLengthIs
  <2> QED
    BY <1>5, <1>6, <2>1
<1>9. CASE Advance(t, m) # 0
  <2> DEFINE n == Advance(t, m)
  <2>1. n \in m + 1..Len(t) + 1
    BY <1>7, <1>9, AdvanceForward
  <2>2. SafeLength(t, m) = SafeLength(t, n)
    BY <1>5, <1>7, <1>9, SafeLengthIs
  <2>3. Advance(u, m) = n
    BY <1>2, <1>7, <1>9
  <2>4. SafeLength(u, m) = SafeLength(u, n)
    BY <1>1, <1>5, <1>7, <1>9, <2>3, SafeLengthIs
  <2>5. Ok(n)
    <3>1. n \in 1..Len(t) + 1 /\ ~ (n <= m)
      BY <1>7, <2>1
    <3> QED
      BY <1>4, <3>1
  <2> HIDE DEF n
  <2> QED
    BY <1>5, <2>2, <2>4, <2>5
<1> QED
  BY <1>8, <1>9

\* One more character never moves the boundary back.
LEMMA BoundaryStep ==
  ASSUME NEW t \in Seq(Alphabet), NEW ch \in Alphabet
  PROVE  /\ FindSafeBoundary(t) \in Nat
         /\ FindSafeBoundary(t) <= FindSafeBoundary(Append(t, ch))
<1> DEFINE u == Append(t, ch)
<1>1. u \in Seq(Alphabet) /\ Len(u) \in Nat /\ Len(t) \in Nat
  OBVIOUS
<1> HIDE DEF u
<1>2. 1 \in 1..Len(t) + 1 /\ 1 \in 1..Len(u) + 1
  BY <1>1
<1>3. SafeLength(t, 1) \in Nat /\ SafeLength(u, 1) \in Nat
  BY <1>1, <1>2, SafeAtLeast
<1>4. Unambiguous(t) \in Nat /\ Unambiguous(u) \in Nat
  BY <1>1, UnambiguousIs
<1>5. Unambiguous(t) <= Unambiguous(u)
  BY UnambiguousGrows DEF u
<1>6. SafeLength(t, 1) <= SafeLength(u, 1) \/ Unambiguous(t) <= SafeLength(u, 1)
  BY <1>2, SafeGrows DEF u
<1>7. FindSafeBoundary(t) \in Nat /\ FindSafeBoundary(t) <= FindSafeBoundary(u)
  BY <1>3, <1>4, <1>5, <1>6 DEF FindSafeBoundary, ClampTrailingDelimiters
<1> QED
  BY <1>7 DEF u

TextInv == text \in Seq(Alphabet) /\ BoundaryGrows

LEMMA TextInit_Inv == TextInit => TextInv
<1> SUFFICES ASSUME TextInit PROVE TextInv
  OBVIOUS
<1>1. text = << >>
  BY DEF TextInit
<1>2. ASSUME NEW n \in 0..Len(text)
      PROVE  FindSafeBoundary(SubSeq(text, 1, n)) <= FindSafeBoundary(text)
  <2>1. SubSeq(text, 1, n) = <<>>
    BY <1>1, <1>2
  <2>2. FindSafeBoundary(<<>>) = 0
    <3>1. <<>> \in Seq(Alphabet) /\ 1 \in 1..Len(<<>>) + 1 /\ Len(<<>>) = 0
      OBVIOUS
    <3>2. SafeLength(<<>>, 1) \in Nat
      BY <3>1, SafeAtLeast
    <3>3. Unambiguous(<<>>) = 0
      <4>1. Unambiguous(<<>>) \in 0..Len(<<>>)
        BY <3>1, UnambiguousIs
      <4> QED
        BY <3>1, <4>1
    <3> QED
      BY <3>2, <3>3 DEF FindSafeBoundary, ClampTrailingDelimiters
  <2>3. FindSafeBoundary(SubSeq(text, 1, n)) = 0 /\ FindSafeBoundary(text) = 0
    BY <1>1, <2>1, <2>2, Zenon
  <2> QED
    BY <2>3
<1>3. text \in Seq(Alphabet)
  BY <1>1
<1> QED
  BY <1>2, <1>3 DEF TextInv, BoundaryGrows

LEMMA TextStep_Inv == TextInv /\ [TextArrives]_text => TextInv'
<1> SUFFICES ASSUME TextInv, [TextArrives]_text PROVE TextInv'
  OBVIOUS
<1>1. CASE UNCHANGED text
  BY <1>1 DEF TextInv, BoundaryGrows
<1>2. CASE TextArrives
  <2>1. PICK ch \in Alphabet : text' = Append(text, ch)
    BY <1>2 DEF TextArrives
  <2>2. /\ text \in Seq(Alphabet) /\ text' \in Seq(Alphabet)
        /\ Len(text') = Len(text) + 1 /\ Len(text) \in Nat
    BY <2>1 DEF TextInv
  <2>3. FindSafeBoundary(text) <= FindSafeBoundary(text')
    BY <2>1, <2>2, BoundaryStep
  <2>4. FindSafeBoundary(text) \in Nat /\ FindSafeBoundary(text') \in Nat
    BY <2>1, <2>2, BoundaryStep
  <2>5. ASSUME NEW n \in 0..Len(text')
        PROVE  FindSafeBoundary(SubSeq(text', 1, n)) <= FindSafeBoundary(text')
    <3>1. CASE n = Len(text')
      <4>1. SubSeq(text', 1, n) = text'
        BY <2>2, <3>1
      <4>2. FindSafeBoundary(SubSeq(text', 1, n)) = FindSafeBoundary(text')
        BY <4>1, Zenon
      <4> QED
        BY <2>4, <4>2
    <3>2. CASE n # Len(text')
      <4>1. n \in 0..Len(text)
        BY <2>2, <2>5, <3>2
      <4>2. SubSeq(text', 1, n) = SubSeq(text, 1, n)
        BY <2>1, <2>2, <4>1
      <4>3. FindSafeBoundary(SubSeq(text, 1, n)) <= FindSafeBoundary(text)
        BY <4>1 DEF TextInv, BoundaryGrows
      <4>4. FindSafeBoundary(SubSeq(text, 1, n)) \in Nat
        <5>1. SubSeq(text, 1, n) \in Seq(Alphabet)
          BY <2>2, <4>1
        <5> QED
          BY <2>1, <5>1, BoundaryStep
      <4>5. FindSafeBoundary(SubSeq(text', 1, n)) = FindSafeBoundary(SubSeq(text, 1, n))
        BY <4>2, Zenon
      <4> QED
        BY <2>3, <2>4, <4>3, <4>4, <4>5
    <3> QED
      BY <3>1, <3>2
  <2> QED
    BY <2>2, <2>5 DEF TextInv, BoundaryGrows
<1> QED
  BY <1>1, <1>2

\* What findSafeBoundary once called safe to render stays so as the answer grows,
\* for texts of any length over any characters.
THEOREM BoundaryCorrect == TextSpec => []BoundaryGrows
<1>1. TextInv => BoundaryGrows
  BY DEF TextInv
<1> QED
  BY <1>1, TextInit_Inv, TextStep_Inv, PTL DEF TextSpec

-----------------------------------------------------------------------------
(* The reader of the event stream.  Splitting a text that goes on is splitting *)
(* the piece that waited together with the rest; what has been heard is then *)
(* what the whole of the arrived text says, and what waits is its last piece. *)

\* Induction over sequences, for a set of sequences instead of a predicate.
LEMMA GrowsToAll ==
  ASSUME NEW C, NEW G, << >> \in G,
         \A s \in Seq(C) : s \in G => \A e \in C : Append(s, e) \in G
  PROVE  \A s \in Seq(C) : s \in G
<1> DEFINE Bad == {Len(s) : s \in {q \in Seq(C) : q \notin G}}
<1>1. SUFFICES ASSUME NEW q \in Seq(C), q \notin G PROVE FALSE
  OBVIOUS
<1>2. Bad \subseteq Nat /\ Len(q) \in Bad
  BY <1>1, LenProperties
<1> HIDE DEF Bad
<1>3. PICK n \in Bad : \A m \in Bad : n <= m
  <2>1. Bad # {}
    BY <1>2
  <2> QED
    BY <1>2, <2>1, LeastNat
<1>4. PICK s \in Seq(C) : s \notin G /\ Len(s) = n
  BY <1>3 DEF Bad
<1>5. PICK r \in Seq(C), e \in C : s = Append(r, e)
  <2>1. s # << >>
    BY <1>4
  <2> QED
    BY <2>1, SequenceEmptyOrAppend
<1>6. Len(r) \in Nat /\ n = Len(r) + 1
  BY <1>4, <1>5, AppendProperties, LenProperties
<1>7. r \in G
  <2>1. Len(r) \notin Bad
    BY <1>3, <1>6
  <2> QED
    BY <2>1 DEF Bad
<1> QED
  BY <1>4, <1>5, <1>7

LEMMA AppendConcat ==
  ASSUME NEW C, NEW a \in Seq(C), NEW b \in Seq(C), NEW e \in C
  PROVE  a \o Append(b, e) = Append(a \o b, e)
<1>1. Append(a \o b, e) \in Seq(C) /\ a \o Append(b, e) \in Seq(C)
  OBVIOUS
<1>2. Len(Append(a \o b, e)) = Len(a \o Append(b, e))
  OBVIOUS
<1>3. \A i \in 1..Len(Append(a \o b, e)) : Append(a \o b, e)[i] = (a \o Append(b, e))[i]
  OBVIOUS
<1> QED
  BY <1>1, <1>2, <1>3, SeqEqual

LEMMA AppendEnds ==
  ASSUME NEW C, NEW s \in Seq(C), NEW e \in C
  PROVE  Front(Append(s, e)) = s /\ Last(Append(s, e)) = e
<1>1. Last(Append(s, e)) = e
  BY DEF Last
<1>2. Front(Append(s, e)) = SubSeq(Append(s, e), 1, Len(s))
  BY DEF Front
<1>3. SubSeq(Append(s, e), 1, Len(s)) \in Seq(C) /\ Len(SubSeq(Append(s, e), 1, Len(s))) = Len(s)
  OBVIOUS
<1>4. \A i \in 1..Len(s) : SubSeq(Append(s, e), 1, Len(s))[i] = s[i]
  OBVIOUS
<1>5. SubSeq(Append(s, e), 1, Len(s)) = s
  BY <1>3, <1>4, SeqEqual
<1> QED
  BY <1>1, <1>2, <1>5

LEMMA FrontAndLast ==
  ASSUME NEW C, NEW s \in Seq(C), s # << >>
  PROVE  Front(s) \in Seq(C) /\ Last(s) \in C /\ s = Append(Front(s), Last(s))
<1>1. PICK r \in Seq(C), e \in C : s = Append(r, e)
  BY SequenceEmptyOrAppend
<1>2. Front(s) = r /\ Last(s) = e
  BY <1>1, AppendEnds
<1> QED
  BY <1>1, <1>2

LEMMA ConcatEnds ==
  ASSUME NEW C, NEW a \in Seq(C), NEW b \in Seq(C), b # << >>
  PROVE  Front(a \o b) = a \o Front(b) /\ Last(a \o b) = Last(b)
<1> DEFINE f == Front(b)
           l == Last(b)
<1>1. f \in Seq(C) /\ l \in C /\ b = Append(f, l)
  BY FrontAndLast
<1> HIDE DEF f, l
<1>2. a \o b = Append(a \o f, l) /\ a \o f \in Seq(C)
  BY <1>1, AppendConcat, ConcatProperties
<1>3. Front(Append(a \o f, l)) = a \o f /\ Last(Append(a \o f, l)) = l
  BY <1>1, <1>2, AppendEnds, Zenon
<1>4. Front(a \o b) = a \o f /\ Last(a \o b) = l
  BY <1>2, <1>3, Zenon
<1> QED
  BY <1>4 DEF f, l

\* What the wire carries, and what may be heard of it.
Chars == {"x", "bad", "nl"}
Texts == Seq(Chars)
Lines == Seq(Texts)

IsSplit(t, f) ==
  f = [n \in 0..Len(t) |->
         IF n = 0 THEN << <<>> >>
         ELSE IF t[n] = "nl" THEN Append(f[n - 1], <<>>)
         ELSE Append(Front(f[n - 1]), Append(Last(f[n - 1]), t[n]))]

LEMMA SplitExists == \A t \in Texts : \E f : IsSplit(t, f)
<1> DEFINE G == {t \in Texts : \E f : IsSplit(t, f)}
<1>1. << >> \in G
  <2>1. IsSplit(<< >>, [n \in 0..0 |-> << <<>> >>])
    BY DEF IsSplit
  <2>2. << >> \in Texts
    BY DEF Texts
  <2> QED
    BY <2>1, <2>2
<1>2. ASSUME NEW t \in Texts, t \in G, NEW c \in Chars PROVE Append(t, c) \in G
  <2> DEFINE u == Append(t, c)
             L == Len(t)
  <2>1. PICK f : IsSplit(t, f)
    BY <1>2
  <2>2. u \in Texts /\ Len(u) = L + 1 /\ L \in Nat /\ u[L + 1] = c /\ \A n \in 1..L : u[n] = t[n]
    BY DEF Texts
  <2> HIDE DEF u, L
  <2> DEFINE last == IF c = "nl" THEN Append(f[L], <<>>)
                     ELSE Append(Front(f[L]), Append(Last(f[L]), c))
             g == [n \in 0..L + 1 |-> IF n = L + 1 THEN last ELSE f[n]]
  <2>3. \A n \in 0..L : g[n] = f[n]
    BY <2>2
  <2>4. g[L + 1] = last /\ L + 1 # 0 /\ L + 1 - 1 = L /\ L \in 0..L
    BY <2>2
  <2>5. g = [n \in 0..L + 1 |-> g[n]]
    OBVIOUS
  <2> HIDE DEF g, last
  <2>6. ASSUME NEW n \in 0..L + 1
        PROVE  g[n] = IF n = 0 THEN << <<>> >>
                      ELSE IF u[n] = "nl" THEN Append(g[n - 1], <<>>)
                      ELSE Append(Front(g[n - 1]), Append(Last(g[n - 1]), u[n]))
    <3>1. CASE n = L + 1
      <4>1. n # 0 /\ n - 1 = L
        BY <2>4, <3>1
      <4>2. g[n] = last /\ g[L] = f[L] /\ u[n] = c
        BY <2>2, <2>3, <2>4, <3>1
      <4> QED
        BY <4>1, <4>2, Zenon DEF last
    <3>2. CASE n # L + 1
      <4>1. n \in 0..L /\ (n # 0 => n - 1 \in 0..L /\ n \in 1..L)
        BY <2>2, <3>2
      <4>2. f[n] = IF n = 0 THEN << <<>> >>
                   ELSE IF t[n] = "nl" THEN Append(f[n - 1], <<>>)
                   ELSE Append(Front(f[n - 1]), Append(Last(f[n - 1]), t[n]))
        BY <2>1, <4>1 DEF IsSplit, L
      <4> QED
        BY <2>2, <2>3, <4>1, <4>2, Zenon
    <3> QED
      BY <3>1, <3>2
  <2>7. IsSplit(u, g)
    BY <2>2, <2>5, <2>6 DEF IsSplit
  <2> QED
    BY <2>2, <2>7 DEF u
<1> HIDE DEF G
<1>3. \A t \in Texts : t \in G
  BY <1>1, <1>2, GrowsToAll DEF Texts
<1> QED
  BY <1>3 DEF G

LEMMA SplitIs ==
  ASSUME NEW t \in Texts
  PROVE  \E f : IsSplit(t, f) /\ SplitLines(t) = f[Len(t)]
<1> DEFINE f == CHOOSE g : IsSplit(t, g)
<1>1. IsSplit(t, f)
  BY SplitExists
<1>2. SplitLines(t) = f[Len(t)]
  BY Zenon DEF SplitLines, IsSplit
<1> HIDE DEF f
<1> QED
  BY <1>1, <1>2

\* The pieces of a text depend on nothing that follows.
LEMMA SplitAgrees ==
  ASSUME NEW t \in Texts, NEW c \in Chars, NEW f, NEW g,
         IsSplit(t, f), IsSplit(Append(t, c), g)
  PROVE  f[Len(t)] = g[Len(t)]
<1> DEFINE u == Append(t, c)
           L == Len(t)
           Bad == {n \in 0..L : f[n] # g[n]}
<1>1. Len(u) = L + 1 /\ L \in Nat /\ \A n \in 1..L : u[n] = t[n]
  BY DEF Texts
<1> HIDE DEF u, L
<1>2. SUFFICES ASSUME Bad # {} PROVE FALSE
  BY <1>1 DEF L
<1>3. PICK n \in Bad : \A m \in Bad : n <= m
  <2>1. Bad \subseteq Nat
    BY <1>1
  <2> HIDE DEF Bad
  <2> QED
    BY <1>2, <2>1, LeastNat
<1>4. n \in 0..L /\ f[n] # g[n] /\ n \in 0..L + 1
  BY <1>1, <1>3
<1>5. f[n] = IF n = 0 THEN << <<>> >>
             ELSE IF t[n] = "nl" THEN Append(f[n - 1], <<>>)
             ELSE Append(Front(f[n - 1]), Append(Last(f[n - 1]), t[n]))
  BY <1>4 DEF IsSplit, L
<1>6. g[n] = IF n = 0 THEN << <<>> >>
             ELSE IF u[n] = "nl" THEN Append(g[n - 1], <<>>)
             ELSE Append(Front(g[n - 1]), Append(Last(g[n - 1]), u[n]))
  BY <1>1, <1>4 DEF IsSplit, u
<1>7. n # 0 => n \in 1..L /\ n - 1 \in 0..L /\ ~ (n <= n - 1)
  BY <1>1, <1>4
<1>8. n # 0 => f[n - 1] = g[n - 1] /\ u[n] = t[n]
  BY <1>1, <1>3, <1>7
<1> QED
  BY <1>4, <1>5, <1>6, <1>8, Zenon

LEMMA SplitStep ==
  /\ SplitLines(<< >>) = << <<>> >>
  /\ \A t \in Texts, c \in Chars :
       SplitLines(Append(t, c)) =
         IF c = "nl" THEN Append(SplitLines(t), <<>>)
         ELSE Append(Front(SplitLines(t)), Append(Last(SplitLines(t)), c))
<1>1. SplitLines(<< >>) = << <<>> >>
  <2>1. << >> \in Texts /\ Len(<< >>) = 0
    BY DEF Texts
  <2>2. PICK f : IsSplit(<< >>, f) /\ SplitLines(<< >>) = f[Len(<< >>)]
    BY <2>1, SplitIs
  <2> QED
    BY <2>1, <2>2 DEF IsSplit
<1>2. ASSUME NEW t \in Texts, NEW c \in Chars
      PROVE  SplitLines(Append(t, c)) =
               IF c = "nl" THEN Append(SplitLines(t), <<>>)
               ELSE Append(Front(SplitLines(t)), Append(Last(SplitLines(t)), c))
  <2> DEFINE u == Append(t, c)
             L == Len(t)
  <2>1. u \in Texts /\ Len(u) = L + 1 /\ L \in Nat /\ u[L + 1] = c
    BY DEF Texts
  <2>2. PICK f : IsSplit(t, f) /\ SplitLines(t) = f[L]
    BY SplitIs
  <2> HIDE DEF u, L
  <2>3. PICK g : IsSplit(u, g) /\ SplitLines(u) = g[L + 1]
    BY <2>1, SplitIs
  <2>4. f[L] = g[L]
    BY <2>2, <2>3, SplitAgrees DEF u, L
  <2>5. L + 1 \in 0..Len(u) /\ L + 1 # 0 /\ L + 1 - 1 = L
    BY <2>1
  <2>6. g[L + 1] = IF u[L + 1] = "nl" THEN Append(g[L], <<>>)
                   ELSE Append(Front(g[L]), Append(Last(g[L]), u[L + 1]))
    <3> DEFINE n == L + 1
    <3>1. n \in 0..Len(u)
      BY <2>5
    <3>2. n # 0 /\ n - 1 = L
      BY <2>1
    <3> HIDE DEF n
    <3>3. g[n] = IF n = 0 THEN << <<>> >>
                 ELSE IF u[n] = "nl" THEN Append(g[n - 1], <<>>)
                 ELSE Append(Front(g[n - 1]), Append(Last(g[n - 1]), u[n]))
      BY <2>3, <3>1 DEF IsSplit
    <3>4. g[n] = IF u[n] = "nl" THEN Append(g[L], <<>>)
                 ELSE Append(Front(g[L]), Append(Last(g[L]), u[n]))
      BY <3>2, <3>3, Zenon
    <3> QED
      BY <3>4 DEF n
  <2> QED
    BY <2>1, <2>2, <2>3, <2>4, <2>6, Zenon DEF u
<1> QED
  BY <1>1, <1>2

Told == Seq(Chars \cup {"malformed"})

IsSaid(ls, f) ==
  f = [n \in 0..Len(ls) |->
         IF n = 0 THEN <<>>
         ELSE IF ls[n] = <<>> THEN f[n - 1] ELSE Append(f[n - 1], Heard(ls[n]))]

LEMMA SaidExists == \A ls \in Lines : \E f : IsSaid(ls, f)
<1> DEFINE G == {ls \in Lines : \E f : IsSaid(ls, f)}
<1>1. << >> \in G
  <2>1. IsSaid(<< >>, [n \in 0..0 |-> <<>>])
    BY DEF IsSaid
  <2>2. << >> \in Lines
    BY DEF Lines
  <2> QED
    BY <2>1, <2>2
<1>2. ASSUME NEW ls \in Lines, ls \in G, NEW l \in Texts PROVE Append(ls, l) \in G
  <2> DEFINE u == Append(ls, l)
             L == Len(ls)
  <2>1. PICK f : IsSaid(ls, f)
    BY <1>2
  <2>2. u \in Lines /\ Len(u) = L + 1 /\ L \in Nat /\ u[L + 1] = l /\ \A n \in 1..L : u[n] = ls[n]
    BY DEF Lines
  <2> HIDE DEF u, L
  <2> DEFINE last == IF l = <<>> THEN f[L] ELSE Append(f[L], Heard(l))
             g == [n \in 0..L + 1 |-> IF n = L + 1 THEN last ELSE f[n]]
  <2>3. \A n \in 0..L : g[n] = f[n]
    BY <2>2
  <2>4. g[L + 1] = last /\ L + 1 # 0 /\ L + 1 - 1 = L /\ L \in 0..L
    BY <2>2
  <2>5. g = [n \in 0..L + 1 |-> g[n]]
    OBVIOUS
  <2> HIDE DEF g, last
  <2>6. ASSUME NEW n \in 0..L + 1
        PROVE  g[n] = IF n = 0 THEN <<>>
                      ELSE IF u[n] = <<>> THEN g[n - 1] ELSE Append(g[n - 1], Heard(u[n]))
    <3>1. CASE n = L + 1
      <4>1. n # 0 /\ n - 1 = L
        BY <2>2, <3>1
      <4>2. g[n] = last /\ g[L] = f[L] /\ u[n] = l
        BY <2>2, <2>3, <2>4, <3>1
      <4> QED
        BY <4>1, <4>2, Zenon DEF last
    <3>2. CASE n # L + 1
      <4>1. n \in 0..L /\ (n # 0 => n - 1 \in 0..L /\ n \in 1..L)
        BY <2>2, <3>2
      <4>2. f[n] = IF n = 0 THEN <<>>
                   ELSE IF ls[n] = <<>> THEN f[n - 1] ELSE Append(f[n - 1], Heard(ls[n]))
        BY <2>1, <4>1 DEF IsSaid, L
      <4> QED
        BY <2>2, <2>3, <4>1, <4>2, Zenon
    <3> QED
      BY <3>1, <3>2
  <2>7. IsSaid(u, g)
    BY <2>2, <2>5, <2>6 DEF IsSaid
  <2> QED
    BY <2>2, <2>7 DEF u
<1> HIDE DEF G
<1>3. \A ls \in Lines : ls \in G
  BY <1>1, <1>2, GrowsToAll DEF Lines
<1> QED
  BY <1>3 DEF G

LEMMA SaidIs ==
  ASSUME NEW ls \in Lines
  PROVE  \E f : IsSaid(ls, f) /\ Emitted(ls) = f[Len(ls)]
<1> DEFINE f == CHOOSE g : IsSaid(ls, g)
<1>1. IsSaid(ls, f)
  BY SaidExists
<1>2. Emitted(ls) = f[Len(ls)]
  BY Zenon DEF Emitted, IsSaid
<1> HIDE DEF f
<1> QED
  BY <1>1, <1>2

\* What is heard of the first lines depends on nothing that follows.
LEMMA SaidAgrees ==
  ASSUME NEW ls \in Lines, NEW l \in Texts, NEW f, NEW g,
         IsSaid(ls, f), IsSaid(Append(ls, l), g)
  PROVE  f[Len(ls)] = g[Len(ls)]
<1> DEFINE u == Append(ls, l)
           L == Len(ls)
           Bad == {n \in 0..L : f[n] # g[n]}
<1>1. Len(u) = L + 1 /\ L \in Nat /\ \A n \in 1..L : u[n] = ls[n]
  BY DEF Lines
<1> HIDE DEF u, L
<1>2. SUFFICES ASSUME Bad # {} PROVE FALSE
  BY <1>1 DEF L
<1>3. PICK n \in Bad : \A m \in Bad : n <= m
  <2>1. Bad \subseteq Nat
    BY <1>1
  <2> HIDE DEF Bad
  <2> QED
    BY <1>2, <2>1, LeastNat
<1>4. n \in 0..L /\ f[n] # g[n] /\ n \in 0..L + 1
  BY <1>1, <1>3
<1>5. f[n] = IF n = 0 THEN <<>>
             ELSE IF ls[n] = <<>> THEN f[n - 1] ELSE Append(f[n - 1], Heard(ls[n]))
  BY <1>4 DEF IsSaid, L
<1>6. g[n] = IF n = 0 THEN <<>>
             ELSE IF u[n] = <<>> THEN g[n - 1] ELSE Append(g[n - 1], Heard(u[n]))
  BY <1>1, <1>4 DEF IsSaid, u
<1>7. n # 0 => n \in 1..L /\ n - 1 \in 0..L /\ ~ (n <= n - 1)
  BY <1>1, <1>4
<1>8. n # 0 => f[n - 1] = g[n - 1] /\ u[n] = ls[n]
  BY <1>1, <1>3, <1>7
<1> QED
  BY <1>4, <1>5, <1>6, <1>8, Zenon

LEMMA SaidStep ==
  /\ Emitted(<< >>) = << >>
  /\ \A ls \in Lines, l \in Texts :
       Emitted(Append(ls, l)) =
         IF l = <<>> THEN Emitted(ls) ELSE Append(Emitted(ls), Heard(l))
<1>1. Emitted(<< >>) = << >>
  <2>1. << >> \in Lines /\ Len(<< >>) = 0
    BY DEF Lines
  <2>2. PICK f : IsSaid(<< >>, f) /\ Emitted(<< >>) = f[Len(<< >>)]
    BY <2>1, SaidIs
  <2> QED
    BY <2>1, <2>2 DEF IsSaid
<1>2. ASSUME NEW ls \in Lines, NEW l \in Texts
      PROVE  Emitted(Append(ls, l)) =
               IF l = <<>> THEN Emitted(ls) ELSE Append(Emitted(ls), Heard(l))
  <2> DEFINE u == Append(ls, l)
             L == Len(ls)
  <2>1. u \in Lines /\ Len(u) = L + 1 /\ L \in Nat /\ u[L + 1] = l
    BY DEF Lines
  <2>2. PICK f : IsSaid(ls, f) /\ Emitted(ls) = f[L]
    BY SaidIs
  <2> HIDE DEF u, L
  <2>3. PICK g : IsSaid(u, g) /\ Emitted(u) = g[L + 1]
    BY <2>1, SaidIs
  <2>4. f[L] = g[L]
    BY <2>2, <2>3, SaidAgrees DEF u, L
  <2>5. g[L + 1] = IF u[L + 1] = <<>> THEN g[L] ELSE Append(g[L], Heard(u[L + 1]))
    <3> DEFINE n == L + 1
    <3>1. n \in 0..Len(u)
      BY <2>1
    <3>2. n # 0 /\ n - 1 = L
      BY <2>1
    <3> HIDE DEF n
    <3>3. g[n] = IF n = 0 THEN <<>>
                 ELSE IF u[n] = <<>> THEN g[n - 1] ELSE Append(g[n - 1], Heard(u[n]))
      BY <2>3, <3>1 DEF IsSaid
    <3>4. g[n] = IF u[n] = <<>> THEN g[L] ELSE Append(g[L], Heard(u[n]))
      BY <3>2, <3>3, Zenon
    <3> QED
      BY <3>4 DEF n
  <2> QED
    BY <2>1, <2>2, <2>3, <2>4, <2>5, Zenon DEF u
<1> QED
  BY <1>1, <1>2

LEMMA HeardTyped == \A l \in Texts : Heard(l) \in Told
<1> SUFFICES ASSUME NEW l \in Texts PROVE Heard(l) \in Told
  OBVIOUS
<1>1. l \in Told
  BY SeqMonotonic DEF Texts, Told
<1>2. <<"malformed">> \in Told
  BY DEF Told
<1> QED
  BY <1>1, <1>2, Zenon DEF Heard

LEMMA SaidTyped == \A ls \in Lines : Emitted(ls) \in Seq(Told)
<1> DEFINE G == {ls \in Lines : Emitted(ls) \in Seq(Told)}
<1>1. << >> \in G
  <2>1. << >> \in Lines /\ << >> \in Seq(Told)
    BY EmptySeq DEF Lines
  <2> QED
    BY <2>1, SaidStep
<1>2. ASSUME NEW ls \in Lines, ls \in G, NEW l \in Texts PROVE Append(ls, l) \in G
  <2>1. Append(ls, l) \in Lines
    BY DEF Lines
  <2>2. Append(Emitted(ls), Heard(l)) \in Seq(Told)
    BY <1>2, HeardTyped, AppendProperties
  <2>3. Emitted(Append(ls, l)) \in Seq(Told)
    BY <1>2, <2>2, SaidStep
  <2> QED
    BY <2>1, <2>3
<1> HIDE DEF G
<1>3. \A ls \in Lines : ls \in G
  BY <1>1, <1>2, GrowsToAll DEF Lines
<1> QED
  BY <1>3 DEF G

\* Lines that are handled in two rounds are heard as in one.
LEMMA SaidConcat == \A a, b \in Lines : Emitted(a \o b) = Emitted(a) \o Emitted(b)
<1> SUFFICES ASSUME NEW a \in Lines
             PROVE  \A b \in Lines : Emitted(a \o b) = Emitted(a) \o Emitted(b)
  OBVIOUS
<1> DEFINE G == {b \in Lines : Emitted(a \o b) = Emitted(a) \o Emitted(b)}
<1>1. << >> \in G
  <2>1. a \o << >> = a /\ << >> \in Lines
    BY ConcatEmptySeq DEF Lines
  <2>2. Emitted(a) \o << >> = Emitted(a)
    BY SaidTyped, ConcatEmptySeq
  <2>3. Emitted(a \o << >>) = Emitted(a)
    BY <2>1, Zenon
  <2> QED
    BY <2>1, <2>2, <2>3, SaidStep
<1>2. ASSUME NEW b \in Lines, b \in G, NEW l \in Texts PROVE Append(b, l) \in G
  <2>1. a \o b \in Lines /\ Append(b, l) \in Lines /\ Append(a \o b, l) \in Lines
    BY DEF Lines
  <2>2. a \o Append(b, l) = Append(a \o b, l)
    BY AppendConcat DEF Lines
  <2>3. Emitted(a \o Append(b, l)) =
          IF l = <<>> THEN Emitted(a \o b) ELSE Append(Emitted(a \o b), Heard(l))
    BY <2>1, <2>2, SaidStep, Zenon
  <2>4. Emitted(Append(b, l)) =
          IF l = <<>> THEN Emitted(b) ELSE Append(Emitted(b), Heard(l))
    BY SaidStep
  <2>5. Emitted(a) \in Seq(Told) /\ Emitted(b) \in Seq(Told) /\ Heard(l) \in Told
    BY SaidTyped, HeardTyped
  <2>6. Append(Emitted(a) \o Emitted(b), Heard(l)) = Emitted(a) \o Append(Emitted(b), Heard(l))
    <3> DEFINE p == Emitted(a)
               q == Emitted(b)
               h == Heard(l)
    <3>1. p \in Seq(Told) /\ q \in Seq(Told) /\ h \in Told
      BY <2>5
    <3> HIDE DEF p, q, h
    <3>2. p \o Append(q, h) = Append(p \o q, h)
      <4>1. \A r, s \in Seq(Told), e \in Told : r \o Append(s, e) = Append(r \o s, e)
        BY AppendConcat
      <4> QED
        BY <3>1, <4>1, Zenon
    <3> QED
      BY <3>2 DEF p, q, h
  <2>7. Emitted(a \o b) = Emitted(a) \o Emitted(b)
    BY <1>2
  <2>8. Emitted(a \o Append(b, l)) = Emitted(a) \o Emitted(Append(b, l))
    BY <2>3, <2>4, <2>6, <2>7, Zenon
  <2> QED
    BY <2>1, <2>8
<1> HIDE DEF G
<1>3. \A b \in Lines : b \in G
  BY <1>1, <1>2, GrowsToAll DEF Lines
<1> QED
  BY <1>3 DEF G

\* A piece that no newline has closed.
Words == Seq({"x", "bad"})

LEMMA WordsAreTexts == Words \subseteq Texts
BY SeqMonotonic DEF Words, Texts, Chars

LEMMA SplitTyped ==
  \A t \in Texts : /\ SplitLines(t) \in Lines /\ SplitLines(t) # << >>
                   /\ Front(SplitLines(t)) \in Lines /\ Last(SplitLines(t)) \in Words
<1> DEFINE Ok(ls) == ls \in Lines /\ ls # << >> /\ Last(ls) \in Words
           G == {t \in Texts : Ok(SplitLines(t))}
<1>1. << >> \in Texts /\ << >> \in Words
  BY DEF Texts, Words
<1>2. << >> \in G
  <2>1. << <<>> >> \in Lines /\ << <<>> >> # << >> /\ Last(<< <<>> >>) = << >>
    BY <1>1 DEF Lines, Last
  <2> QED
    BY <1>1, <2>1, SplitStep
<1>3. ASSUME NEW t \in Texts, t \in G, NEW c \in Chars PROVE Append(t, c) \in G
  <2> DEFINE ls == SplitLines(t)
  <2>1. Append(t, c) \in Texts
    BY DEF Texts
  <2>2. ls \in Lines /\ ls # << >> /\ Last(ls) \in Words /\ Front(ls) \in Lines
    BY <1>3, FrontAndLast DEF Lines
  <2> HIDE DEF ls
  <2>3. CASE c = "nl"
    <3>1. Append(ls, <<>>) \in Lines /\ Append(ls, <<>>) # << >> /\ Last(Append(ls, <<>>)) = << >>
      BY <1>1, <2>2, AppendProperties, AppendEnds DEF Lines
    <3>2. SplitLines(Append(t, c)) = Append(ls, <<>>)
      BY <2>3, SplitStep DEF ls
    <3> QED
      BY <1>1, <2>1, <3>1, <3>2
  <2>4. CASE c # "nl"
    <3> DEFINE w == Append(Last(ls), c)
    <3>1. w \in Words
      BY <2>2, <2>4 DEF Words, Chars
    <3>2. w \in Texts
      BY <3>1, WordsAreTexts
    <3>3. SplitLines(Append(t, c)) = Append(Front(ls), w)
      BY <2>4, SplitStep DEF ls
    <3> HIDE DEF w
    <3>4. /\ Append(Front(ls), w) \in Lines /\ Append(Front(ls), w) # << >>
          /\ Last(Append(Front(ls), w)) = w
      BY <2>2, <3>2, AppendProperties, AppendEnds DEF Lines
    <3> QED
      BY <2>1, <3>1, <3>3, <3>4
  <2> QED
    BY <2>3, <2>4
<1> HIDE DEF G
<1>4. \A t \in Texts : t \in G
  BY <1>2, <1>3, GrowsToAll DEF Texts
<1> QED
  BY <1>4, FrontAndLast DEF G, Lines

LEMMA SplitWord == \A w \in Words : SplitLines(w) = <<w>>
<1> DEFINE G == {w \in Words : SplitLines(w) = <<w>>}
<1>1. << >> \in G
  BY SplitStep DEF Words
<1>2. ASSUME NEW w \in Words, w \in G, NEW c \in {"x", "bad"} PROVE Append(w, c) \in G
  <2>1. Append(w, c) \in Words /\ w \in Texts /\ c \in Chars /\ c # "nl"
    BY WordsAreTexts DEF Words, Chars
  <2>2. SplitLines(Append(w, c)) = Append(Front(<<w>>), Append(Last(<<w>>), c))
    BY <1>2, <2>1, SplitStep
  <2>3. Front(<<w>>) = << >> /\ Last(<<w>>) = w
    BY DEF Front, Last
  <2>4. SplitLines(Append(w, c)) = Append(<< >>, Append(w, c))
    BY <2>2, <2>3
  <2>5. Append(<< >>, Append(w, c)) = <<Append(w, c)>>
    OBVIOUS
  <2> QED
    BY <2>1, <2>4, <2>5
<1> HIDE DEF G
<1>3. \A w \in Words : w \in G
  BY <1>1, <1>2, GrowsToAll DEF Words
<1> QED
  BY <1>3 DEF G

\* The pieces of a text that goes on: those that were whole, and then what the
\* piece that waited makes together with the rest.
LEMMA SplitConcat ==
  \A t, v \in Texts :
    SplitLines(t \o v) = Front(SplitLines(t)) \o SplitLines(Last(SplitLines(t)) \o v)
<1> SUFFICES ASSUME NEW t \in Texts
             PROVE  \A v \in Texts : SplitLines(t \o v) =
                      Front(SplitLines(t)) \o SplitLines(Last(SplitLines(t)) \o v)
  OBVIOUS
<1> DEFINE F == Front(SplitLines(t))
           w == Last(SplitLines(t))
           G == {v \in Texts : SplitLines(t \o v) = F \o SplitLines(w \o v)}
<1>1. F \in Lines /\ w \in Words /\ w \in Texts /\ SplitLines(t) = Append(F, w)
  BY SplitTyped, WordsAreTexts, FrontAndLast DEF Lines
<1> HIDE DEF F, w
<1>2. << >> \in G
  <2>1. t \o << >> = t /\ w \o << >> = w /\ << >> \in Texts
    BY <1>1, ConcatEmptySeq DEF Texts
  <2>2. SplitLines(w) = <<w>> /\ F \o <<w>> = Append(F, w)
    BY <1>1, SplitWord, AppendIsConcat DEF Lines
  <2>3. SplitLines(t \o << >>) = SplitLines(t) /\ SplitLines(w \o << >>) = SplitLines(w)
    BY <2>1, Zenon
  <2> QED
    BY <1>1, <2>1, <2>2, <2>3
<1>3. ASSUME NEW v \in Texts, v \in G, NEW c \in Chars PROVE Append(v, c) \in G
  <2> DEFINE b == SplitLines(w \o v)
  <2>1. t \o v \in Texts /\ w \o v \in Texts /\ Append(v, c) \in Texts
    BY <1>1 DEF Texts
  <2>2. t \o Append(v, c) = Append(t \o v, c) /\ w \o Append(v, c) = Append(w \o v, c)
    BY <1>1, AppendConcat DEF Texts
  <2>3. b \in Lines /\ b # << >> /\ Front(b) \in Lines /\ Last(b) \in Texts
        /\ b = Append(Front(b), Last(b))
    BY <2>1, SplitTyped, WordsAreTexts, FrontAndLast DEF Lines
  <2>4. SplitLines(t \o v) = F \o b
    BY <1>3
  <2>5. SplitLines(Append(w \o v, c)) = IF c = "nl" THEN Append(b, <<>>)
                                        ELSE Append(Front(b), Append(Last(b), c))
    BY <2>1, SplitStep
  <2>6. SplitLines(Append(t \o v, c)) = IF c = "nl" THEN Append(F \o b, <<>>)
                                        ELSE Append(Front(F \o b), Append(Last(F \o b), c))
    BY <2>1, <2>4, SplitStep, Zenon
  <2> HIDE DEF b
  <2>7. F \o b \in Lines
    BY <1>1, <2>3, ConcatProperties DEF Lines
  <2>8. Front(F \o b) = F \o Front(b) /\ Last(F \o b) = Last(b)
    BY <1>1, <2>3, ConcatEnds DEF Lines
  <2>9. SplitLines(Append(t \o v, c)) = F \o SplitLines(Append(w \o v, c))
    <3>1. CASE c = "nl"
      <4>1. << >> \in Texts
        BY DEF Texts
      <4>2. F \o Append(b, <<>>) = Append(F \o b, <<>>)
        BY <1>1, <2>3, <4>1, AppendConcat DEF Lines
      <4> QED
        BY <2>5, <2>6, <3>1, <4>2
    <3>2. CASE c # "nl"
      <4>1. Append(Last(b), c) \in Texts
        BY <2>3 DEF Texts
      <4>2. F \o Append(Front(b), Append(Last(b), c)) = Append(F \o Front(b), Append(Last(b), c))
        BY <1>1, <2>3, <4>1, AppendConcat DEF Lines
      <4> QED
        BY <2>5, <2>6, <2>8, <3>2, <4>2, Zenon
    <3> QED
      BY <3>1, <3>2
  <2>10. SplitLines(t \o Append(v, c)) = F \o SplitLines(w \o Append(v, c))
    BY <2>2, <2>9, Zenon
  <2> QED
    BY <2>1, <2>10
<1> HIDE DEF G
<1>4. \A v \in Texts : v \in G
  BY <1>2, <1>3, GrowsToAll DEF Texts
<1> QED
  BY <1>4 DEF G, F, w

Arrived == SubSeq(written, 1, taken)

ReaderTypes == written \in Texts /\ taken \in 0..Len(written) /\ flushed \in BOOLEAN

\* What waits is the last piece of what has arrived.
BufferWaits == ~ flushed => buffer = Last(SplitLines(Arrived))

ReaderInv == ReaderTypes /\ BufferWaits /\ ChunkingIrrelevant

LEMMA ReaderInit_Inv == ReaderInit => ReaderInv
<1> SUFFICES ASSUME ReaderInit PROVE ReaderInv
  OBVIOUS
<1>1. ReaderTypes
  <2>1. written = << >> /\ taken = 0 /\ flushed = FALSE
    BY DEF ReaderInit
  <2>2. written \in Texts /\ Len(written) = 0
    BY <2>1 DEF Texts
  <2>3. 0 \in 0..0
    OBVIOUS
  <2> QED
    BY <2>1, <2>2, <2>3, Zenon DEF ReaderTypes
<1>2. Arrived = << >>
  BY DEF ReaderInit, Arrived
<1>3. SplitLines(Arrived) = << <<>> >>
  BY <1>2, SplitStep, Zenon
<1>4. Last(<< <<>> >>) = << >> /\ Front(<< <<>> >>) = << >>
  BY DEF Last, Front
<1>5. BufferWaits
  BY <1>3, <1>4 DEF ReaderInit, BufferWaits
<1>6. Emitted(Front(SplitLines(Arrived))) = << >>
  BY <1>3, <1>4, SaidStep, Zenon
<1>7. ChunkingIrrelevant
  BY <1>6 DEF ReaderInit, ChunkingIrrelevant, Arrived
<1> QED
  BY <1>1, <1>5, <1>7 DEF ReaderInv

LEMMA ArrivedTyped == ReaderTypes => Arrived \in Texts
BY DEF ReaderTypes, Arrived, Texts

LEMMA ReaderStep_Inv == ReaderInv /\ [ReaderNext]_readerVars => ReaderInv'
<1> SUFFICES ASSUME ReaderInv, [ReaderNext]_readerVars PROVE ReaderInv'
  OBVIOUS
<1> USE DEF ReaderInv
<1>1. ASSUME NEW ch \in Chars, ServerWrites(ch) PROVE ReaderInv'
  <2>1. ReaderTypes'
    BY <1>1 DEF ServerWrites, ReaderTypes, Texts
  <2>2. Arrived' = Arrived
    BY <1>1 DEF ServerWrites, ReaderTypes, Arrived, Texts
  <2>3. SplitLines(Arrived') = SplitLines(Arrived)
    BY <2>2, Zenon
  <2>4. BufferWaits'
    BY <1>1, <2>3 DEF ServerWrites, BufferWaits
  <2>5. ChunkingIrrelevant'
    BY <1>1, <2>3, Zenon DEF ServerWrites, ChunkingIrrelevant, Arrived
  <2> QED
    BY <2>1, <2>4, <2>5
<1>2. ASSUME NEW n \in 1..Len(written), PushText(n) PROVE ReaderInv'
  <2> DEFINE chunk == SubSeq(written, taken + 1, n)
             lines == SplitLines(buffer \o chunk)
             old == SplitLines(Arrived)
  <2>1. ReaderTypes'
    BY <1>2 DEF PushText, Feed, ReaderTypes
  <2>2. /\ ~ flushed /\ ~ flushed' /\ taken < n /\ taken' = n /\ written' = written
        /\ buffer' = Last(lines) /\ heardOf' = heardOf \o Emitted(Front(lines))
    BY <1>2 DEF PushText, Feed
  <2>3. chunk \in Texts /\ Arrived \in Texts
    BY <2>2, ArrivedTyped DEF ReaderTypes, Texts
  <2>4. Arrived' = Arrived \o chunk
    <3>1. Arrived' = SubSeq(written, 1, n)
      BY <2>2 DEF Arrived
    <3>2. /\ 1 \in 1..Len(written) + 1 /\ taken \in 0..Len(written)
          /\ n \in taken..Len(written) /\ written \in Seq(Chars)
      BY <2>2 DEF ReaderTypes, Texts
    <3>3. SubSeq(written, 1, taken) \o SubSeq(written, taken + 1, n) = SubSeq(written, 1, n)
      BY <3>2, ConcatAdjacentSubSeq
    <3> QED
      BY <3>1, <3>3 DEF Arrived
  <2>5. buffer = Last(old)
    BY <2>2 DEF BufferWaits
  <2>6. heardOf = Emitted(Front(old))
    BY <2>2, Zenon DEF ChunkingIrrelevant, Arrived
  <2>7. buffer \o chunk \in Texts
    BY <2>3, <2>5, SplitTyped, WordsAreTexts DEF Texts
  <2>8. lines \in Lines /\ lines # << >> /\ Front(lines) \in Lines /\ Last(lines) \in Texts
        /\ lines = Append(Front(lines), Last(lines))
    BY <2>7, SplitTyped, WordsAreTexts, FrontAndLast DEF Lines
  <2>9. Front(old) \in Lines
    BY <2>3, SplitTyped
  <2>10. SplitLines(Arrived') = Front(old) \o lines
    BY <2>3, <2>4, <2>5, SplitConcat, Zenon
  <2> HIDE DEF chunk, lines, old
  <2> DEFINE gone == Front(old)
  <2>11. Front(gone \o lines) = gone \o Front(lines) /\ Last(gone \o lines) = Last(lines)
    <3>1. gone \in Lines
      BY <2>9
    <3> HIDE DEF gone
    <3> QED
      BY <2>8, <3>1, ConcatEnds DEF Lines
  <2>12. /\ Front(SplitLines(Arrived')) = Front(old) \o Front(lines)
         /\ Last(SplitLines(Arrived')) = Last(lines)
    BY <2>10, <2>11, Zenon
  <2>13. BufferWaits'
    BY <2>2, <2>12 DEF BufferWaits
  <2>14. Emitted(Front(old) \o Front(lines)) = Emitted(Front(old)) \o Emitted(Front(lines))
    BY <2>8, <2>9, SaidConcat
  <2>15. heardOf' = Emitted(Front(SplitLines(Arrived')))
    BY <2>2, <2>6, <2>12, <2>14, Zenon
  <2>16. ChunkingIrrelevant'
    BY <2>2, <2>15, Zenon DEF ChunkingIrrelevant, Arrived
  <2> QED
    BY <2>1, <2>13, <2>16
<1>3. CASE FlushText
  <2> DEFINE lines == SplitLines(Arrived)
  <2>1. /\ ~ flushed /\ flushed' = TRUE /\ written' = written /\ taken' = taken
        /\ heardOf' = heardOf \o Emitted(<<buffer>>)
    BY <1>3 DEF FlushText
  <2>2. ReaderTypes' /\ BufferWaits' /\ Arrived' = Arrived
    BY <2>1 DEF ReaderTypes, BufferWaits, Arrived
  <2>3. buffer = Last(lines)
    BY <2>1 DEF BufferWaits
  <2>4. heardOf = Emitted(Front(lines))
    BY <2>1, Zenon DEF ChunkingIrrelevant, Arrived
  <2>5. Arrived \in Texts
    BY ArrivedTyped
  <2>6. lines \in Lines /\ Front(lines) \in Lines /\ Last(lines) \in Texts
        /\ lines = Append(Front(lines), Last(lines))
    BY <2>5, SplitTyped, WordsAreTexts, FrontAndLast DEF Lines
  <2>7. SplitLines(Arrived') = lines
    BY <2>2, Zenon
  <2> HIDE DEF lines
  <2>8. lines = Front(lines) \o <<Last(lines)>> /\ <<Last(lines)>> \in Lines
    BY <2>6, AppendIsConcat DEF Lines
  <2>9. Emitted(Front(lines) \o <<Last(lines)>>) = Emitted(Front(lines)) \o Emitted(<<Last(lines)>>)
    BY <2>6, <2>8, SaidConcat
  <2>10. heardOf' = Emitted(lines)
    BY <2>1, <2>3, <2>4, <2>8, <2>9, Zenon
  <2>11. ChunkingIrrelevant'
    BY <2>1, <2>7, <2>10, Zenon DEF ChunkingIrrelevant, Arrived
  <2> QED
    BY <2>2, <2>11
<1>4. CASE UNCHANGED readerVars
  BY <1>4 DEF readerVars, ReaderTypes, BufferWaits, ChunkingIrrelevant, Arrived
<1> QED
  BY <1>1, <1>2, <1>3, <1>4 DEF ReaderNext, Chars

\* Whatever lengths the chunks have, of a stream of any length the same events
\* are heard, once each and in the order in which they were written.
THEOREM ChunkingCorrect == ReaderSpec => []ChunkingIrrelevant
<1>1. ReaderInv => ChunkingIrrelevant
  BY DEF ReaderInv
<1> QED
  BY <1>1, ReaderInit_Inv, ReaderStep_Inv, PTL DEF ReaderSpec
=============================================================================
