------------------------------ MODULE ChatClient ------------------------------
(***************************************************************************)
(* The chats of one student on one page: asking, the streamed answer and its *)
(* Stop, editing, resending and regenerating, titles, and moving between     *)
(* chats while answers are on their way.  Every reply is applied, by chat id *)
(* and index, to the messages as they are when it arrives.                   *)
(***************************************************************************)
EXTENDS Integers, Sequences, FiniteSets, SequencesExt

CONSTANTS
  Chats, Asks,   \* an ask is one text of one question
  NoAsk,
  MaxText,       \* bound: pieces of a streamed answer
  MaxPending     \* bound: edits, resends and regenerations in flight

ASSUME ChatAssumption ==
  /\ NoAsk \notin Asks
  /\ MaxText \in Nat \ {0} /\ MaxPending \in Nat

VARIABLES
  list,     \* chats of the notebook, newest first
  active,   \* activeChatId
  msgs,     \* chat.messages
  title,    \* "new": the "New Chat" of a new chat; "page": the page's own, from
            \* the first question or generated; "student": typed; "retyped":
            \* typed, and exactly "New Chat"; "gone" with the chat
  naming,   \* the title request of a chat: "never", "sent", "over"
  home,     \* the chat an ask was made in
  gen,      \* the run of sendMessage for an ask
  running,  \* activeGenerations
  posts,    \* submitUserMessageAndAppendReply in flight
  regens    \* regenerateBotMessage in flight

chatVars == <<list, active, msgs, title, naming, home, gen, running, posts, regens>>

NoGen == [at |-> "none", held |-> FALSE, text |-> 0, verdict |-> "none",
          stop |-> FALSE, kept |-> "open"]

Question(a) == [by |-> "user", ask |-> a]
Answer(a) == [by |-> "bot", ask |-> a]
Hole == [by |-> "nobody", ask |-> NoAsk]   \* an array slot never assigned

Typed == {"student", "retyped"}

Unused == {c \in Chats : c \notin ToSet(list) /\ title[c] # "gone"}

\* generate: ids of chats and of asks are never used twice.
FreshAsk(a) == home[a] \notin Chats

ChatInit ==
  /\ \E c \in Chats : list = <<c>> /\ active = c
  /\ msgs = [c \in Chats |-> <<>>]
  /\ title = [c \in Chats |-> "new"]
  /\ naming = [c \in Chats |-> "never"]
  /\ home = [a \in Asks |-> "nowhere"]
  /\ gen = [a \in Asks |-> NoGen]
  /\ running = [c \in Chats |-> NoAsk]
  /\ posts = {} /\ regens = {}

-----------------------------------------------------------------------------
(* Chats *)

LoadChat(c) ==
  /\ c \in ToSet(list) /\ c # active
  /\ active' = c
  /\ UNCHANGED <<list, msgs, title, naming, home, gen, running, posts, regens>>

CreateNewChat(c) ==
  /\ c \in Unused
  /\ list' = <<c>> \o list
  /\ active' = c
  /\ UNCHANGED <<msgs, title, naming, home, gen, running, posts, regens>>

\* The messages go with the chat; requests for it find nothing to write to.
\* The only chat is replaced by an empty one.
DeleteChat(c) ==
  /\ \E i \in DOMAIN list :
       /\ list[i] = c
       /\ LET rest == RemoveAt(list, i)
          IN  IF rest # <<>>
              THEN list' = rest /\ active' = IF active = c THEN rest[1] ELSE active
              ELSE \E d \in Unused : list' = <<d>> /\ active' = d
  /\ msgs' = [msgs EXCEPT ![c] = <<>>]
  /\ title' = [title EXCEPT ![c] = "gone"]
  /\ UNCHANGED <<naming, home, gen, running, posts, regens>>

\* renderChatItem: a title typed by the student.
Rename(c) ==
  /\ c \in ToSet(list)
  /\ \E t \in Typed : title' = [title EXCEPT ![c] = t]
  /\ UNCHANGED <<list, active, msgs, naming, home, gen, running, posts, regens>>

\* maybeGenerateAiTitle: two questions and an answer, once, never over a
\* title of the student's.
Turns(ms) == Len(SelectSeq(ms, LAMBDA m : m.by = "user"))

AskForTitle(c, ms) ==
  naming' = IF title[c] \notin Typed /\ naming[c] = "never" /\ Turns(ms) >= 2
            THEN [naming EXCEPT ![c] = "sent"] ELSE naming

TitleArrives(c, kept) ==
  /\ naming[c] = "sent"
  /\ naming' = [naming EXCEPT ![c] = "over"]
  /\ title' = [title EXCEPT ![c] = IF @ \in kept THEN @ ELSE "page"]
  /\ UNCHANGED <<list, active, msgs, home, gen, running, posts, regens>>

\* Without a session the title is asked for another time.
Untitled(c) ==
  /\ naming[c] = "sent"
  /\ naming' = [naming EXCEPT ![c] = "never"]
  /\ UNCHANGED <<list, active, msgs, title, home, gen, running, posts, regens>>

\* Mutant: the title is looked at before the request, and not again after it.
NamedUnseen(c) == TitleArrives(c, {"gone"})

Named(c) == TitleArrives(c, Typed \cup {"gone"})

-----------------------------------------------------------------------------
(* sendMessage *)

\* The first question of a chat called "New Chat", whoever called it so, names it
\* and lets a generated title follow.
FirstTitle(c) ==
  IF Turns(msgs[c]) = 0 /\ title[c] \in {"new", "retyped"}
  THEN /\ title' = [title EXCEPT ![c] = "page"]
       /\ naming' = [naming EXCEPT ![c] = "never"]
  ELSE UNCHANGED <<title, naming>>

Begin(a) ==
  /\ FreshAsk(a)
  /\ FirstTitle(active)
  /\ msgs' = [msgs EXCEPT ![active] = Append(@, Question(a))]
  /\ home' = [home EXCEPT ![a] = active]
  /\ gen' = [gen EXCEPT ![a].at = "waiting"]
  /\ running' = [running EXCEPT ![active] = a]
  /\ UNCHANGED <<list, active, posts, regens>>

\* Mutant: a chat that is answering does not keep a second question out.
SendMessageAlways(a) == Begin(a)

SendMessage(a) == running[active] = NoAsk /\ Begin(a)

\* The finally block: the entry this call created, and no other, is removed.
Released(a) == [c \in Chats |-> IF running[c] = a THEN NoAsk ELSE running[c]]

Over(a, kept) == gen' = [gen EXCEPT ![a] = [NoGen EXCEPT !.at = "over", !.kept = kept]]

\* The headers arrive; the chat is looked up again, once, by its id.
Headers(a) ==
  /\ gen[a].at = "waiting" /\ ~gen[a].stop
  /\ gen' = [gen EXCEPT ![a].at = "reading", ![a].held = home[a] \in ToSet(list)]
  /\ UNCHANGED <<list, active, msgs, title, naming, home, running, posts, regens>>

Drop(a) ==
  /\ Over(a, "nothing")
  /\ running' = Released(a)
  /\ UNCHANGED <<list, active, msgs, title, naming, home, posts, regens>>

\* Mutant: Stop does not reach a request that still waits for its headers.
NotAnsweredUnlessStopped(a) == gen[a].at \in {"waiting", "reading"} /\ ~gen[a].stop /\ Drop(a)

\* Refused (401, quota, expired PDF...), lost, or stopped before the headers:
\* nothing is kept, the question stays.
NotAnswered(a) ==
  /\ gen[a].at = "waiting" \/ (gen[a].at = "reading" /\ ~gen[a].stop)
  /\ Drop(a)

\* applyStreamEvent takes the events in any order, also after a terminal one; but
\* once Stop is pressed none is looked at.
Listening(a) == gen[a].at = "reading" /\ ~gen[a].stop

Delta(a) ==
  /\ Listening(a) /\ gen[a].text < MaxText
  /\ gen' = [gen EXCEPT ![a].text = @ + 1]
  /\ UNCHANGED <<list, active, msgs, title, naming, home, running, posts, regens>>

\* createStreamState: text and terminal event are forgotten.
Retry(a) ==
  /\ Listening(a)
  /\ gen' = [gen EXCEPT ![a].text = 0, ![a].verdict = "none"]
  /\ UNCHANGED <<list, active, msgs, title, naming, home, running, posts, regens>>

\* "done"; "interrupted" and "error" are told apart in what is shown only.
Terminal(a, kind) ==
  /\ Listening(a)
  /\ gen' = [gen EXCEPT ![a].verdict = kind]
  /\ UNCHANGED <<list, active, msgs, title, naming, home, running, posts, regens>>

StopGeneration ==
  /\ running[active] # NoAsk
  /\ ~gen[running[active]].stop
  /\ gen' = [gen EXCEPT ![running[active]].stop = TRUE]
  /\ UNCHANGED <<list, active, msgs, title, naming, home, running, posts, regens>>

\* Mutant: a connection that dropped after some text counts as a whole answer.
KeptAnyText(g) ==
  IF g.stop /\ g.verdict = "none" THEN IF g.text > 0 THEN "cut" ELSE "nothing"
  ELSE IF g.verdict = "done" \/ g.text > 0 THEN "whole" ELSE "nothing"

\* What the end of the stream leaves: stopped before a terminal event, the text
\* so far, marked; else the whole answer if and only if "done" was heard.
Kept(g) ==
  IF g.stop /\ g.verdict = "none" THEN IF g.text > 0 THEN "cut" ELSE "nothing"
  ELSE IF g.verdict = "done" THEN "whole" ELSE "nothing"

\* The connection ends, with or without a terminal event, or was aborted.
EndIn(a, c) ==
  /\ gen[a].at = "reading"
  /\ LET stored == /\ Kept(gen[a]) # "nothing" /\ gen[a].held /\ c \in ToSet(list)
         ms == IF stored THEN Append(msgs[c], Answer(a)) ELSE msgs[c]
     IN  /\ msgs' = [msgs EXCEPT ![c] = ms]
         /\ IF stored THEN AskForTitle(c, ms) ELSE UNCHANGED naming
  /\ Over(a, Kept(gen[a]))
  /\ running' = Released(a)
  /\ UNCHANGED <<list, active, title, home, posts, regens>>

\* Mutant: the answer goes to the chat on screen.
StreamEndsInView(a) == EndIn(a, active)

StreamEnds(a) == EndIn(a, home[a])

\* A stopped run unwinds: by the abort while it waits or while it reads.
Unwind(a) == gen[a].stop /\ (NotAnswered(a) \/ StreamEnds(a))

-----------------------------------------------------------------------------
(* Editing, resending, regenerating *)

\* Edit (a new text) and resend (the same one, when no answer follows): what
\* comes after the question is cut off; one request per chat and index.
Submit(i, a) ==
  LET ms == msgs[active] IN
  /\ i \in DOMAIN ms /\ ms[i].by = "user"
  /\ Cardinality(posts \cup regens) < MaxPending
  /\ ~\E p \in posts : p.chat = active /\ p.idx = i
  /\ \/ FreshAsk(a)
     \/ a = ms[i].ask /\ ~(i < Len(ms) /\ ms[i + 1].by = "bot")
  /\ msgs' = [msgs EXCEPT ![active] = Append(SubSeq(ms, 1, i - 1), Question(a))]
  /\ home' = [home EXCEPT ![a] = active]
  /\ posts' = posts \cup {[chat |-> active, idx |-> i, ask |-> a]}
  /\ UNCHANGED <<list, active, title, naming, gen, running, regens>>

Submitted(p) ==
  /\ p \in posts
  /\ posts' = posts \ {p}
  /\ \/ /\ p.chat \in ToSet(list)
        /\ msgs' = [msgs EXCEPT ![p.chat] = Append(@, Answer(p.ask))]
        /\ AskForTitle(p.chat, msgs'[p.chat])
     \/ UNCHANGED <<msgs, naming>>     \* refused, lost, or the chat is gone
  /\ UNCHANGED <<list, active, title, home, gen, running, regens>>

\* Regenerate, and resend of an answered question.
Regenerate(i) ==
  LET ms == msgs[active] IN
  /\ i \in DOMAIN ms /\ i > 1
  /\ Cardinality(posts \cup regens) < MaxPending
  /\ ms[i].by = "bot" /\ ms[i - 1].by = "user"
  /\ regens' = regens \cup {[chat |-> active, idx |-> i, ask |-> ms[i - 1].ask]}
  /\ UNCHANGED <<list, active, msgs, title, naming, home, gen, running, posts>>

\* chat.messages[i] = ...: an array shorter than i grows, with holes.
Put(ms, i, m) ==
  [j \in 1..(IF i > Len(ms) THEN i ELSE Len(ms)) |->
     IF j = i THEN m ELSE IF j \in DOMAIN ms THEN ms[j] ELSE Hole]

Regenerated(r) ==
  /\ r \in regens
  /\ regens' = regens \ {r}
  /\ \/ /\ r.chat \in ToSet(list)
        /\ msgs' = [msgs EXCEPT ![r.chat] = Put(@, r.idx, Answer(r.ask))]
     \/ UNCHANGED msgs       \* refused or lost: the old answer is kept
  /\ UNCHANGED <<list, active, title, naming, home, gen, running, posts>>

-----------------------------------------------------------------------------
Streaming(a) ==
  \/ Headers(a) \/ NotAnswered(a) \/ Delta(a) \/ Retry(a) \/ StreamEnds(a)
  \/ \E kind \in {"done", "failed"} : Terminal(a, kind)

ChatNext ==
  \/ \E c \in Chats : LoadChat(c) \/ CreateNewChat(c) \/ DeleteChat(c) \/ Rename(c) \/ Named(c)
                       \/ Untitled(c)
  \/ \E a \in Asks : SendMessage(a) \/ Streaming(a)
  \/ StopGeneration
  \/ \E i \in DOMAIN msgs[active], a \in Asks : Submit(i, a)
  \/ \E i \in DOMAIN msgs[active] : Regenerate(i)
  \/ \E p \in posts : Submitted(p)
  \/ \E r \in regens : Regenerated(r)

ChatSpec ==
  ChatInit /\ [][ChatNext]_chatVars /\ \A a \in Asks : WF_chatVars(Unwind(a))

-----------------------------------------------------------------------------
ChatTypeOK ==
  /\ ToSet(list) \cup {active} \subseteq Chats
  /\ \A c \in Chats : /\ \A i \in DOMAIN msgs[c] : msgs[c][i].ask \in Asks \cup {NoAsk}
                      /\ title[c] \in {"new", "page", "gone"} \cup Typed
                      /\ naming[c] \in {"never", "sent", "over"}
                      /\ running[c] \in Asks \cup {NoAsk}
  /\ \A a \in Asks : gen[a].at \in {"none", "waiting", "reading", "over"}

\* Every question and answer of a chat was asked in that chat, wherever the
\* student was when the answer arrived and whatever was deleted meanwhile.
RightChat ==
  \A c \in Chats : \A i \in DOMAIN msgs[c] :
    msgs[c][i] # Hole => home[msgs[c][i].ask] = c

\* A chat is registered as generating for exactly the one run that is not over:
\* Stop reaches it, and Send is free the moment it ends.
OneStreamPerChat ==
  \A a \in Asks :
    gen[a].at \in {"waiting", "reading"} <=> \E c \in Chats : running[c] = a /\ home[a] = c

\* A title the student typed is replaced only by the student, also while a
\* generated one is on its way.  The one exception is what the first question does
\* to a chat the student called "New Chat".
ManualTitleKept ==
  [][\A c \in Chats :
       title[c] \in Typed => \/ title'[c] \in Typed \cup {"gone"}
                             \/ title[c] = "retyped" /\ Turns(msgs[c]) = 0]_chatVars

\* A response the student stopped does end, and the chat can be written to.
StopEndsIt == \A a \in Asks : gen[a].stop ~> gen[a].at = "over"

\* What is kept of a streamed answer is what AnswerContract promises.
Promise ==
  INSTANCE AnswerContract WITH
    heard <- [a \in Asks |-> gen[a].text],
    verdict <- [a \in Asks |-> gen[a].verdict],
    stopped <- [a \in Asks |-> gen[a].stop],
    kept <- [a \in Asks |-> gen[a].kept]

ImplementsAnswer == Promise!AnswerSpec
=============================================================================
