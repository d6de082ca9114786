---------------------------- MODULE ChatAttachment ----------------------------
(***************************************************************************)
(* What belongs to one chat and is shown for whichever chat is open: its     *)
(* answering mode and its PDF.  Uploads, removals and the news that the      *)
(* server has dropped a PDF arrive when another chat may be open.            *)
(***************************************************************************)
CONSTANT Rooms   \* chats

VARIABLES
  room,       \* the open chat
  pdf,        \* chat.pdf.active
  bar,        \* isPDFLoaded, and the bar that says so
  modeOf,     \* chat.settings.mode
  mode,       \* currentMode, and the button that is lit
  uploading,  \* chats with an upload in flight
  clearing,   \* chats with a removal in flight
  context,    \* server: chats whose PDF it holds
  late        \* history: a removal ended in another chat than it began in, and
              \* took the bar of the chat that is still open

attachVars == <<room, pdf, bar, modeOf, mode, uploading, clearing, context, late>>

AttachInit ==
  /\ room \in Rooms
  /\ pdf = [c \in Rooms |-> FALSE] /\ bar = FALSE
  /\ modeOf = [c \in Rooms |-> "direct"] /\ mode = "direct"
  /\ uploading = {} /\ clearing = {} /\ context = {}
  /\ late = FALSE

\* Mutant: the bar is set for whichever chat is open.
ShowPDFAnywhere(c, yes) == bar' = yes

\* applyPDFStatusUI, for the chat that is open once the step is over
ShowPDF(c, yes) == bar' = IF room = c THEN yes ELSE bar

\* loadChat, by way of applyPDFStatusUI and applyChatSettingsUI
EnterRoom(c) ==
  /\ c # room
  /\ room' = c /\ bar' = pdf[c] /\ mode' = modeOf[c]
  /\ late' = FALSE
  /\ UNCHANGED <<pdf, modeOf, uploading, clearing, context>>

SetMode(m) ==
  /\ mode' = m
  /\ modeOf' = [modeOf EXCEPT ![room] = m]
  /\ UNCHANGED <<room, pdf, bar, uploading, clearing, context, late>>

-----------------------------------------------------------------------------
HandlePDFUpload ==
  /\ uploading' = uploading \cup {room}
  /\ UNCHANGED <<room, pdf, bar, modeOf, mode, clearing, context, late>>

PDFUploaded(c) ==
  /\ c \in uploading
  /\ uploading' = uploading \ {c}
  /\ context' = context \cup {c}
  /\ pdf' = [pdf EXCEPT ![c] = TRUE]
  /\ ShowPDF(c, TRUE)
  /\ UNCHANGED <<room, modeOf, mode, clearing, late>>

\* Refused, or lost before or after the server indexed it.
UploadFails(c) ==
  /\ c \in uploading
  /\ uploading' = uploading \ {c}
  /\ context' \in {context, context \cup {c}}
  /\ UNCHANGED <<room, pdf, bar, modeOf, mode, clearing, late>>

ClearPDFContext ==
  /\ clearing' = clearing \cup {room}
  /\ UNCHANGED <<room, pdf, bar, modeOf, mode, uploading, context, late>>

\* Answered or lost: the chat forgets its PDF, and the bar of whichever chat is
\* open goes away.
PDFCleared(c) ==
  /\ c \in clearing
  /\ clearing' = clearing \ {c}
  /\ context' \in {context, context \ {c}}
  /\ pdf' = [pdf EXCEPT ![c] = FALSE]
  /\ bar' = FALSE
  /\ late' = (late \/ room # c)
  /\ UNCHANGED <<room, modeOf, mode, uploading>>

-----------------------------------------------------------------------------
\* Idle expiry, eviction or a restart of the server.
ContextLost(c) ==
  /\ c \in context
  /\ context' = context \ {c}
  /\ UNCHANGED <<room, pdf, bar, modeOf, mode, uploading, clearing, late>>

\* markPDFExpiredForChat: a question that expected the PDF was refused; the
\* answer names the chat it was asked in.
MarkPDFExpired(c) ==
  /\ pdf[c] /\ c \notin context
  /\ pdf' = [pdf EXCEPT ![c] = FALSE]
  /\ ShowPDF(c, FALSE)
  /\ UNCHANGED <<room, modeOf, mode, uploading, clearing, context, late>>

AttachNext ==
  \/ \E c \in Rooms : EnterRoom(c) \/ PDFUploaded(c) \/ UploadFails(c) \/ PDFCleared(c)
                      \/ ContextLost(c) \/ MarkPDFExpired(c)
  \/ \E m \in {"direct", "socratic"} : SetMode(m)
  \/ HandlePDFUpload \/ ClearPDFContext

AttachSpec == AttachInit /\ [][AttachNext]_attachVars

-----------------------------------------------------------------------------
\* The next question is asked the way the open chat says: in its own mode, and
\* with the demand for a PDF exactly if the chat has one, whatever uploads and
\* removals of other chats end meanwhile.  A removal that ends after the student
\* left takes the bar of the chat that is open now, until a chat is opened again.
AttachmentShown == mode = modeOf[room] /\ (bar => pdf[room]) /\ (~late => (bar <=> pdf[room]))
=============================================================================
