------------------------------ MODULE ShareDialog ------------------------------
(***************************************************************************)
(* Sharing a chat: the dialog shows what would be published, publishes a     *)
(* frozen copy, and takes it back, while the chat goes on, the dialog is     *)
(* closed and opened for other chats, and replies arrive in any order.       *)
(* A text of a chat is the number of its messages.                          *)
(***************************************************************************)
EXTENDS Naturals, FiniteSets

CONSTANTS
  Talks, NoTalk,
  MaxTurns,      \* bound: messages of a chat
  MaxAsked       \* bound: requests in flight

ASSUME ShareAssumption == NoTalk \notin Talks /\ {MaxTurns, MaxAsked} \subseteq Nat

VARIABLES
  turns,       \* messages of each chat
  shareView,   \* "closed", "loading", "notice", "failed" (with Retry), "preview", "link"
  shareChat,   \* state.chat: the chat and the text captured with it
  drawn,       \* the text that is listed on screen
  shareBusy,   \* state.busy
  requests,    \* requests in flight
  published,   \* server: the text of the live copy of each chat, 0 without one
  approved     \* history: texts that were on screen when "Create link" was pressed

shareVars == <<turns, shareView, shareChat, drawn, shareBusy, requests, published, approved>>

NoChat == [of |-> NoTalk, text |-> 0]

ShareInit ==
  /\ turns = [c \in Talks |-> 0]
  /\ shareView = "closed" /\ shareChat = NoChat /\ drawn = NoChat /\ shareBusy = FALSE
  /\ requests = {}
  /\ published = [c \in Talks |-> 0]
  /\ approved = {}

\* The chat goes on behind the dialog: an answer arrives.
TalkGoesOn(c) ==
  /\ turns[c] < MaxTurns
  /\ turns' = [turns EXCEPT ![c] = @ + 1]
  /\ UNCHANGED <<shareView, shareChat, drawn, shareBusy, requests, published, approved>>

\* Mutant: the messages are collected again when they are sent.
SendShareFresh(kind, chat) ==
  /\ Cardinality(requests) < MaxAsked
  /\ requests' = requests \cup {[kind |-> kind, chat |-> [chat EXCEPT !.text = turns[chat.of]],
                                  at |-> "sent", live |-> FALSE]}

\* The body of a request is put together when the button is pressed.
SendShare(kind, chat) ==
  /\ Cardinality(requests) < MaxAsked
  /\ requests' = requests \cup {[kind |-> kind, chat |-> chat, at |-> "sent", live |-> FALSE]}

\* renderLoading, renderMessage, renderPreview and renderLink: the preview lists
\* state.chat; a closed dialog has none, and draws nothing.
Render(v, chat) ==
  /\ shareView' = IF shareView = "closed" THEN "closed" ELSE v
  /\ drawn' = IF v = "preview" THEN chat ELSE NoChat

-----------------------------------------------------------------------------
\* shareChatLink: what would be shared is captured now.
ShareChatLink(c) ==
  /\ shareView = "closed"
  /\ shareChat' = [of |-> c, text |-> turns[c]]
  /\ shareBusy' = FALSE /\ drawn' = NoChat
  /\ IF turns[c] = 0 THEN shareView' = "notice" /\ UNCHANGED requests
     ELSE shareView' = "loading" /\ SendShare("load", shareChat')
  /\ UNCHANGED <<turns, published, approved>>

RetryLoad ==
  /\ shareView = "failed" /\ shareChat # NoChat
  /\ Render("loading", shareChat)
  /\ SendShare("load", shareChat)
  /\ UNCHANGED <<turns, shareChat, shareBusy, published, approved>>

DialogClosed == shareView' = "closed" /\ shareChat' = NoChat /\ drawn' = NoChat /\ shareBusy' = FALSE

CloseShareModal ==
  /\ shareView # "closed"
  /\ DialogClosed
  /\ UNCHANGED <<turns, requests, published, approved>>

CreateShare ==
  /\ shareView = "preview" /\ ~shareBusy /\ shareChat # NoChat
  /\ shareBusy' = TRUE
  /\ SendShare("create", shareChat)
  /\ approved' = approved \cup {drawn}
  /\ UNCHANGED <<turns, shareView, shareChat, drawn, published>>

RevokeShare ==
  /\ shareView = "link" /\ ~shareBusy /\ shareChat # NoChat
  /\ shareBusy' = TRUE
  /\ SendShare("revoke", shareChat)
  /\ UNCHANGED <<turns, shareView, shareChat, drawn, published, approved>>

-----------------------------------------------------------------------------
\* The server: creating is idempotent per chat.
Publish(r) ==
  LET c == r.chat.of IN
  CASE r.kind = "create" /\ published[c] = 0 -> [published EXCEPT ![c] = r.chat.text]
    [] r.kind = "revoke" -> [published EXCEPT ![c] = 0]
    [] OTHER -> published

ServeShare(r) ==
  /\ r \in requests /\ r.at = "sent"
  /\ published' = Publish(r)
  /\ requests' = (requests \ {r}) \cup
                 {[r EXCEPT !.at = "served", !.live = published'[r.chat.of] > 0]}
  /\ UNCHANGED <<turns, shareView, shareChat, drawn, shareBusy, approved>>

Answered(r) ==
  /\ requests' = requests \ {r}
  /\ UNCHANGED <<turns, published, approved>>

\* The reply is drawn into the dialog of the moment.
ShareReply(r) ==
  /\ r \in requests /\ r.at = "served"
  /\ Answered(r)
  /\ shareBusy' = (shareBusy /\ r.kind = "load")
  /\ Render(IF r.live THEN "link" ELSE "preview", shareChat)
  /\ UNCHANGED shareChat

\* Refused or lost, before or after the server ran it.
ShareFails(r) ==
  /\ r \in requests
  /\ Answered(r)
  /\ IF r.kind = "load"
     THEN (\E v \in {"notice", "failed"} : Render(v, shareChat)) /\ UNCHANGED shareBusy
     ELSE shareBusy' = FALSE /\ UNCHANGED <<shareView, drawn>>
  /\ UNCHANGED shareChat

\* 401, or no session: the dialog closes.
ShareSignedOut(r) ==
  /\ r \in requests /\ r.at = "sent"
  /\ Answered(r)
  /\ DialogClosed

ShareNext ==
  \/ \E c \in Talks : TalkGoesOn(c) \/ ShareChatLink(c)
  \/ RetryLoad \/ CloseShareModal \/ CreateShare \/ RevokeShare
  \/ \E r \in requests : ServeShare(r) \/ ShareReply(r) \/ ShareFails(r) \/ ShareSignedOut(r)

ShareSpec == ShareInit /\ [][ShareNext]_shareVars

-----------------------------------------------------------------------------
\* "What the student approved is what is stored": every live copy is, to the
\* message, a text that was listed on screen when "Create link" was pressed,
\* however the chat and the dialog went on and whatever reply redrew it.
ApprovedIsShared ==
  \A c \in Talks : published[c] > 0 => [of |-> c, text |-> published[c]] \in approved
=============================================================================
