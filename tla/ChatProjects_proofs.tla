-------------------------- MODULE ChatProjects_proofs --------------------------
(***************************************************************************)
(* The chats of a page, for any number of chats, questions, edits and pieces  *)
(* of text: messages stay in the chat they were asked in, a chat is           *)
(* registered for exactly its running answer, and the steps of the page are   *)
(* steps of AnswerContract.  And the notebooks the chats are kept in: nobody  *)
(* sees, keeps or saves the work of another student of the browser.          *)
(***************************************************************************)
EXTENDS ChatClient, ProjectStore, TLAPS

Message == [by : {"user", "bot"}, ask : Asks] \cup {Hole}

Gen == [at : {"none", "waiting", "reading", "over"}, held : BOOLEAN, text : Nat,
        verdict : {"none", "done", "failed"}, stop : BOOLEAN,
        kept : {"open", "nothing", "whole", "cut"}]

PageTypes ==
  /\ list \in Seq(Chats) /\ active \in Chats
  /\ title \in [Chats -> {"new", "page", "gone"} \cup Typed]

MessageTypes ==
  /\ msgs \in [Chats -> Seq(Message)]
  /\ posts \subseteq [chat : Chats, idx : Nat, ask : Asks]
  /\ regens \subseteq [chat : Chats, idx : Nat \ {0}, ask : Asks]

StreamTypes ==
  /\ DOMAIN home = Asks /\ home = [a \in Asks |-> home[a]]
  /\ gen \in [Asks -> Gen]
  /\ running \in [Chats -> Asks \cup {NoAsk}]

\* Requests go to the chat their question was asked in.
RequestsHome == \A p \in posts \cup regens : home[p.ask] = p.chat

InFlight(a) == gen[a].at \in {"waiting", "reading"}

\* The registry: running answers are registered in their chat, and only they.
RunsHome ==
  \A a \in Asks : /\ gen[a].at # "none" => home[a] \in Chats
                  /\ InFlight(a) => running[home[a]] = a
Registered == \A c \in Chats : running[c] # NoAsk => InFlight(running[c]) /\ home[running[c]] = c

\* What a run has heard is there only while it runs.
RunShape ==
  \A a \in Asks :
    /\ ~InFlight(a) => gen[a].text = 0 /\ gen[a].verdict = "none" /\ ~gen[a].stop
    /\ gen[a].kept = "open" <=> gen[a].at # "over"

TypesInv == PageTypes /\ MessageTypes /\ StreamTypes
ChatInv == TypesInv /\ RightChat /\ RequestsHome /\ RunsHome /\ Registered /\ RunShape

-----------------------------------------------------------------------------
(* Which variables a step is about *)

\* Moving between chats, titles.
PageStep ==
  \E c \in Chats : LoadChat(c) \/ CreateNewChat(c) \/ Rename(c) \/ Named(c) \/ Untitled(c)

\* What a stream does between its first and its last step.
ReadStep(a) ==
  Headers(a) \/ Delta(a) \/ Retry(a) \/ \E kind \in {"done", "failed"} : Terminal(a, kind)

LEMMA NextCases ==
  ASSUME ChatNext
  PROVE  \/ PageStep
         \/ \E c \in Chats : DeleteChat(c)
         \/ \E a \in Asks : SendMessage(a) \/ ReadStep(a) \/ NotAnswered(a) \/ StreamEnds(a)
         \/ StopGeneration
         \/ \E i \in DOMAIN msgs[active], a \in Asks : Submit(i, a)
         \/ \E i \in DOMAIN msgs[active] : Regenerate(i)
         \/ \E p \in posts : Submitted(p)
         \/ \E r \in regens : Regenerated(r)
BY DEF ChatNext, PageStep, ReadStep, Streaming

LEMMA PageStepKeeps ==
  ASSUME PageStep PROVE UNCHANGED <<msgs, home, gen, running, posts, regens>>
BY DEF PageStep, LoadChat, CreateNewChat, Rename, Named, TitleArrives, Untitled

LEMMA ReadStepKeeps ==
  ASSUME NEW a \in Asks, ReadStep(a)
  PROVE  UNCHANGED <<list, active, msgs, title, naming, home, running, posts, regens>>
BY DEF ReadStep, Headers, Delta, Retry, Terminal

-----------------------------------------------------------------------------
(* The chats of the notebook *)

LEMMA RestOfList ==
  ASSUME NEW s \in Seq(Chats), NEW i \in DOMAIN s
  PROVE  /\ RemoveAt(s, i) \in Seq(Chats)
         /\ RemoveAt(s, i) # <<>> => RemoveAt(s, i)[1] \in Chats
<1>1. SubSeq(s, 1, i - 1) \in Seq(Chats) /\ SubSeq(s, i + 1, Len(s)) \in Seq(Chats)
  OBVIOUS
<1>2. RemoveAt(s, i) \in Seq(Chats)
  BY <1>1 DEF RemoveAt
<1> QED
  BY <1>2

LEMMA PageTypesKept ==
  ASSUME ChatInv, [ChatNext]_chatVars PROVE PageTypes'
<1> USE DEF ChatInv, TypesInv, PageTypes
<1>1. CASE PageStep
  <2>1. ASSUME NEW c \in Chats, CreateNewChat(c) PROVE PageTypes'
    BY <2>1 DEF CreateNewChat
  <2>2. ASSUME NEW c \in Chats, LoadChat(c) \/ Rename(c) \/ Named(c) \/ Untitled(c) PROVE PageTypes'
    BY <2>2 DEF LoadChat, Rename, Named, TitleArrives, Untitled, Typed
  <2> QED
    BY <1>1, <2>1, <2>2 DEF PageStep
<1>2. ASSUME NEW c \in Chats, DeleteChat(c) PROVE PageTypes'
  <2>1. PICK i \in DOMAIN list :
          IF RemoveAt(list, i) # <<>>
          THEN /\ list' = RemoveAt(list, i)
               /\ active' = IF active = c THEN RemoveAt(list, i)[1] ELSE active
          ELSE \E d \in Unused : list' = <<d>> /\ active' = d
    BY <1>2 DEF DeleteChat
  <2>0. title' \in [Chats -> {"new", "page", "gone"} \cup Typed]
    BY <1>2 DEF DeleteChat
  <2>2. CASE RemoveAt(list, i) # <<>>
    BY <2>0, <2>1, <2>2, RestOfList
  <2>3. CASE RemoveAt(list, i) = <<>>
    <3>1. PICK d \in Chats : list' = <<d>> /\ active' = d
      BY <2>1, <2>3 DEF Unused
    <3> QED
      BY <2>0, <3>1
  <2> QED
    BY <2>2, <2>3
<1>3. CASE UNCHANGED <<list, active, title>>
  BY <1>3
<1>4. ASSUME NEW a \in Asks, SendMessage(a) PROVE PageTypes'
  BY <1>4 DEF SendMessage, Begin, FirstTitle
<1>5. \/ PageStep \/ (\E c \in Chats : DeleteChat(c)) \/ (\E a \in Asks : SendMessage(a))
      \/ UNCHANGED <<list, active, title>>
  BY NextCases, ReadStepKeeps
     DEF NotAnswered, Drop, StreamEnds, EndIn, StopGeneration, Submit,
         Regenerate, Submitted, Regenerated, chatVars
<1> QED
  BY <1>1, <1>2, <1>3, <1>4, <1>5

-----------------------------------------------------------------------------
(* Sequences of messages *)

\* Every message of ms is one of olds, a hole, or m.
From(ms, olds, m) ==
  \A i \in DOMAIN ms : ms[i] \in {m, Hole} \/ \E j \in DOMAIN olds : ms[i] = olds[j]

LEMMA AppendFrom ==
  ASSUME NEW ms \in Seq(Message), NEW m \in Message
  PROVE  Append(ms, m) \in Seq(Message) /\ From(Append(ms, m), ms, m)
BY DEF From

LEMMA CutFrom ==
  ASSUME NEW ms \in Seq(Message), NEW i \in DOMAIN ms, NEW m \in Message
  PROVE  /\ Append(SubSeq(ms, 1, i - 1), m) \in Seq(Message)
         /\ From(Append(SubSeq(ms, 1, i - 1), m), ms, m)
<1> DEFINE cut == SubSeq(ms, 1, i - 1)
<1>1. cut \in Seq(Message) /\ Len(cut) = i - 1 /\ \A j \in 1..(i - 1) : cut[j] = ms[j]
  OBVIOUS
<1>2. \A j \in DOMAIN cut : cut[j] = ms[j] /\ j \in DOMAIN ms
  BY <1>1
<1> HIDE DEF cut
<1>3. Append(cut, m) \in Seq(Message) /\ From(Append(cut, m), cut, m)
  BY <1>1, AppendFrom
<1>4. From(Append(cut, m), ms, m)
  BY <1>2, <1>3 DEF From
<1> QED
  BY <1>3, <1>4 DEF cut

LEMMA PutFrom ==
  ASSUME NEW ms \in Seq(Message), NEW i \in Nat \ {0}, NEW m \in Message
  PROVE  Put(ms, i, m) \in Seq(Message) /\ From(Put(ms, i, m), ms, m)
<1> DEFINE n == IF i > Len(ms) THEN i ELSE Len(ms)
<1>1. n \in Nat /\ DOMAIN Put(ms, i, m) = 1..n
  BY DEF Put
<1>2. \A j \in 1..n : Put(ms, i, m)[j] =
        IF j = i THEN m ELSE IF j \in DOMAIN ms THEN ms[j] ELSE Hole
  BY DEF Put
<1>3. \A j \in 1..n : Put(ms, i, m)[j] \in Message
  BY <1>2 DEF Message
<1>4. Put(ms, i, m) \in [1..n -> Message]
  <2>1. Put(ms, i, m) = [j \in 1..n |-> Put(ms, i, m)[j]]
    BY DEF Put
  <2> QED
    BY <1>3, <2>1
<1>5. Put(ms, i, m) \in Seq(Message)
  <2> HIDE DEF n
  <2> QED
    BY <1>1, <1>4
<1> QED
  BY <1>1, <1>2, <1>5 DEF From

LEMMA MessagesTyped ==
  ASSUME NEW a \in Asks
  PROVE  Question(a) \in Message /\ Answer(a) \in Message /\ Question(a).ask = a /\ Answer(a).ask = a
BY DEF Question, Answer, Message

\* Asks keep the chat they were made in.
HomesStay == \A a \in Asks : home[a] \in Chats => home'[a] = home[a]

LEMMA OwnAskHome ==
  ASSUME MessageTypes, NEW c \in Chats, NEW i \in DOMAIN msgs[c], msgs[c][i] # Hole
  PROVE  msgs[c][i].ask \in Asks
BY DEF MessageTypes, Message

\* One chat gets one message that was asked in it; what else changes is cut off.
LEMMA OneMessage ==
  ASSUME MessageTypes, RightChat, HomesStay,
         NEW c \in Chats, NEW ms \in Seq(Message), NEW m \in Message,
         msgs' = [msgs EXCEPT ![c] = ms],
         From(ms, msgs[c], m), m # Hole => home'[m.ask] = c
  PROVE  msgs' \in [Chats -> Seq(Message)] /\ RightChat'
<1>1. msgs' \in [Chats -> Seq(Message)]
  BY DEF MessageTypes
<1>2. ASSUME NEW d \in Chats, NEW i \in DOMAIN msgs'[d], msgs'[d][i] # Hole
      PROVE  home'[msgs'[d][i].ask] = d
  <2>1. CASE \E j \in DOMAIN msgs[d] : msgs'[d][i] = msgs[d][j]
    <3>1. PICK j \in DOMAIN msgs[d] : msgs'[d][i] = msgs[d][j]
      BY <2>1
    <3>2. msgs[d][j].ask \in Asks /\ home[msgs[d][j].ask] = d
      BY <1>2, <3>1, OwnAskHome DEF RightChat
    <3> QED
      BY <3>1, <3>2 DEF HomesStay
  <2>2. CASE d = c /\ msgs'[d][i] = m
    BY <1>2, <2>2
  <2>3. d # c => msgs'[d] = msgs[d]
    BY DEF MessageTypes
  <2>4. d = c => msgs'[d] = ms
    BY DEF MessageTypes
  <2> QED
    BY <1>2, <2>1, <2>2, <2>3, <2>4 DEF From
<1> QED
  BY <1>1, <1>2 DEF RightChat

LEMMA NoMessage ==
  ASSUME MessageTypes, RightChat, HomesStay, UNCHANGED msgs PROVE RightChat'
BY OwnAskHome DEF RightChat, HomesStay

LEMMA RequestsStay ==
  ASSUME MessageTypes, RequestsHome, HomesStay, posts' \subseteq posts, regens' \subseteq regens
  PROVE  RequestsHome'
BY DEF MessageTypes, RequestsHome, HomesStay

MessageInv == MessageTypes /\ RightChat /\ RequestsHome

LEMMA MessagesKept ==
  ASSUME ChatInv, [ChatNext]_chatVars PROVE MessageInv'
<1> USE DEF ChatInv, TypesInv
<1>1. CASE PageStep
  BY <1>1, PageStepKeeps DEF MessageInv, MessageTypes, RightChat, RequestsHome
<1>2. ASSUME NEW c \in Chats, DeleteChat(c) PROVE MessageInv'
  <2>1. msgs' = [msgs EXCEPT ![c] = <<>>] /\ UNCHANGED <<home, posts, regens>>
    BY <1>2 DEF DeleteChat
  <2>2. HomesStay
    BY <2>1 DEF HomesStay
  <2>3. From(<<>>, msgs[c], Hole) /\ Hole \in Message /\ <<>> \in Seq(Message)
    BY DEF From, Message
  <2> QED
    BY <2>1, <2>2, <2>3, OneMessage, RequestsStay DEF MessageInv, MessageTypes
<1>3. ASSUME NEW a \in Asks, SendMessage(a) PROVE MessageInv'
  <2>1. /\ msgs' = [msgs EXCEPT ![active] = Append(msgs[active], Question(a))]
        /\ home' = [home EXCEPT ![a] = active]
        /\ FreshAsk(a) /\ UNCHANGED <<posts, regens>>
    BY <1>3 DEF SendMessage, Begin
  <2>2. HomesStay /\ home'[a] = active
    BY <2>1 DEF HomesStay, FreshAsk, StreamTypes
  <2>3. active \in Chats /\ msgs[active] \in Seq(Message)
    BY DEF PageTypes, MessageTypes
  <2>4. RightChat' /\ msgs' \in [Chats -> Seq(Message)]
    <3> DEFINE ms == Append(msgs[active], Question(a))
    <3>1. ms \in Seq(Message) /\ From(ms, msgs[active], Question(a))
      BY <2>3, AppendFrom, MessagesTyped
    <3>2. msgs' = [msgs EXCEPT ![active] = ms] /\ home'[Question(a).ask] = active
      BY <2>1, <2>2, MessagesTyped
    <3> HIDE DEF ms
    <3> QED
      BY <2>2, <2>3, <3>1, <3>2, MessagesTyped, OneMessage
  <2> QED
    BY <2>1, <2>2, <2>4, RequestsStay DEF MessageInv, MessageTypes
<1>4. ASSUME NEW a \in Asks, ReadStep(a) \/ NotAnswered(a) PROVE MessageInv'
  <2>1. UNCHANGED <<msgs, home, posts, regens>>
    BY <1>4, ReadStepKeeps DEF NotAnswered, Drop
  <2> QED
    BY <2>1 DEF MessageInv, MessageTypes, RightChat, RequestsHome
<1>5. ASSUME NEW a \in Asks, StreamEnds(a) PROVE MessageInv'
  <2> DEFINE c == home[a]
  <2>1. c \in Chats /\ UNCHANGED <<home, posts, regens>>
    BY <1>5 DEF StreamEnds, EndIn, RunsHome, InFlight
  <2>2. HomesStay
    BY <2>1 DEF HomesStay
  <2>3. PICK ms : /\ msgs' = [msgs EXCEPT ![c] = ms]
                  /\ ms \in {msgs[c], Append(msgs[c], Answer(a))}
    BY <1>5 DEF StreamEnds, EndIn
  <2>4. msgs[c] \in Seq(Message) /\ From(msgs[c], msgs[c], Answer(a))
    BY <2>1 DEF MessageTypes, From
  <2>5. ms \in Seq(Message) /\ From(ms, msgs[c], Answer(a))
    BY <2>3, <2>4, AppendFrom, MessagesTyped
  <2>6. RightChat' /\ msgs' \in [Chats -> Seq(Message)]
    BY <2>1, <2>2, <2>3, <2>5, MessagesTyped, OneMessage
  <2> QED
    BY <2>1, <2>2, <2>6, RequestsStay DEF MessageInv, MessageTypes
<1>6. CASE StopGeneration
  BY <1>6 DEF StopGeneration, MessageInv, MessageTypes, RightChat, RequestsHome
<1>7. ASSUME NEW i \in DOMAIN msgs[active], NEW a \in Asks, Submit(i, a) PROVE MessageInv'
  <2> DEFINE ms == msgs[active]
             cut == Append(SubSeq(ms, 1, i - 1), Question(a))
             post == [chat |-> active, idx |-> i, ask |-> a]
  <2>1. active \in Chats /\ ms \in Seq(Message)
    BY DEF PageTypes, MessageTypes
  <2>2. /\ msgs' = [msgs EXCEPT ![active] = cut]
        /\ home' = [home EXCEPT ![a] = active]
        /\ posts' = posts \cup {post} /\ UNCHANGED regens
    BY <1>7 DEF Submit
  <2>3. FreshAsk(a) \/ (a = ms[i].ask /\ ms[i].by = "user")
    BY <1>7 DEF Submit
  <2>4. HomesStay /\ home'[a] = active
    <3>1. home'[a] = active /\ \A b \in Asks \ {a} : home'[b] = home[b]
      BY <2>2 DEF StreamTypes
    <3>2. CASE FreshAsk(a)
      BY <3>1, <3>2 DEF HomesStay, FreshAsk
    <3>3. CASE a = ms[i].ask /\ ms[i].by = "user"
      <4>1. ms[i] # Hole
        BY <3>3 DEF Hole
      <4>2. home[a] = active
        BY <2>1, <3>3, <4>1 DEF RightChat
      <4> QED
        BY <3>1, <4>2 DEF HomesStay
    <3> QED
      BY <2>3, <3>2, <3>3
  <2>5. cut \in Seq(Message) /\ From(cut, ms, Question(a))
    BY <2>1, CutFrom, MessagesTyped
  <2>6. RightChat' /\ msgs' \in [Chats -> Seq(Message)]
    <3> HIDE DEF cut
    <3> QED
      BY <2>1, <2>2, <2>4, <2>5, MessagesTyped, OneMessage
  <2>7. post \in [chat : Chats, idx : Nat, ask : Asks] /\ post.ask = a /\ post.chat = active
    BY <2>1
  <2>8. RequestsHome'
    <3> HIDE DEF post
    <3> QED
      BY <2>2, <2>4, <2>7 DEF RequestsHome, HomesStay, MessageTypes
  <2> QED
    BY <2>2, <2>6, <2>7, <2>8 DEF MessageInv, MessageTypes
<1>8. ASSUME NEW i \in DOMAIN msgs[active], Regenerate(i) PROVE MessageInv'
  <2> DEFINE ms == msgs[active]
             regen == [chat |-> active, idx |-> i, ask |-> ms[i - 1].ask]
  <2>1. active \in Chats /\ ms \in Seq(Message)
    BY DEF PageTypes, MessageTypes
  <2>2. /\ regens' = regens \cup {regen} /\ UNCHANGED <<msgs, home, posts>>
        /\ i > 1 /\ ms[i - 1].by = "user"
    BY <1>8 DEF Regenerate
  <2>3. i - 1 \in DOMAIN ms /\ i \in Nat \ {0} /\ ms[i - 1] # Hole
    BY <2>1, <2>2 DEF Hole
  <2>4. ms[i - 1].ask \in Asks /\ home[ms[i - 1].ask] = active
    BY <2>1, <2>3, OwnAskHome DEF RightChat
  <2>5. /\ regen \in [chat : Chats, idx : Nat \ {0}, ask : Asks]
        /\ regen.ask = ms[i - 1].ask /\ regen.chat = active
    BY <2>1, <2>3, <2>4
  <2> HIDE DEF regen, ms
  <2> QED
    BY <2>2, <2>4, <2>5 DEF MessageInv, MessageTypes, RightChat, RequestsHome
<1>9. ASSUME NEW p \in posts, Submitted(p) PROVE MessageInv'
  <2>1. p.chat \in Chats /\ p.ask \in Asks /\ home[p.ask] = p.chat
    BY DEF MessageTypes, RequestsHome
  <2>2. posts' = posts \ {p} /\ UNCHANGED <<home, regens>>
    BY <1>9 DEF Submitted
  <2>3. HomesStay /\ home'[p.ask] = p.chat
    BY <2>1, <2>2 DEF HomesStay
  <2>4. RightChat' /\ msgs' \in [Chats -> Seq(Message)]
    <3> DEFINE ms == Append(msgs[p.chat], Answer(p.ask))
    <3>1. CASE msgs' = [msgs EXCEPT ![p.chat] = ms]
      <4>1. msgs[p.chat] \in Seq(Message)
        BY <2>1 DEF MessageTypes
      <4>2. ms \in Seq(Message) /\ From(ms, msgs[p.chat], Answer(p.ask))
        BY <2>1, <4>1, AppendFrom, MessagesTyped
      <4>3. Answer(p.ask) \in Message /\ home'[Answer(p.ask).ask] = p.chat
        BY <2>1, <2>3, MessagesTyped
      <4> HIDE DEF ms
      <4> QED
        BY <2>1, <2>3, <3>1, <4>2, <4>3, OneMessage
    <3>2. CASE UNCHANGED msgs
      BY <2>3, <3>2, NoMessage DEF MessageTypes
    <3> QED
      BY <1>9, <3>1, <3>2 DEF Submitted
  <2> QED
    BY <2>2, <2>3, <2>4, RequestsStay DEF MessageInv, MessageTypes
<1>10. ASSUME NEW r \in regens, Regenerated(r) PROVE MessageInv'
  <2>1. r.chat \in Chats /\ r.ask \in Asks /\ r.idx \in Nat \ {0} /\ home[r.ask] = r.chat
    BY DEF MessageTypes, RequestsHome
  <2>2. regens' = regens \ {r} /\ UNCHANGED <<home, posts>>
    BY <1>10 DEF Regenerated
  <2>3. HomesStay /\ home'[r.ask] = r.chat
    BY <2>1, <2>2 DEF HomesStay
  <2>4. RightChat' /\ msgs' \in [Chats -> Seq(Message)]
    <3> DEFINE ms == Put(msgs[r.chat], r.idx, Answer(r.ask))
    <3>1. CASE msgs' = [msgs EXCEPT ![r.chat] = ms]
      <4>1. msgs[r.chat] \in Seq(Message)
        BY <2>1 DEF MessageTypes
      <4>2. ms \in Seq(Message) /\ From(ms, msgs[r.chat], Answer(r.ask))
        BY <2>1, <4>1, PutFrom, MessagesTyped
      <4>3. Answer(r.ask) \in Message /\ home'[Answer(r.ask).ask] = r.chat
        BY <2>1, <2>3, MessagesTyped
      <4> HIDE DEF ms
      <4> QED
        BY <2>1, <2>3, <3>1, <4>2, <4>3, OneMessage
    <3>2. CASE UNCHANGED msgs
      BY <2>3, <3>2, NoMessage DEF MessageTypes
    <3> QED
      BY <1>10, <3>1, <3>2 DEF Regenerated
  <2> QED
    BY <2>2, <2>3, <2>4, RequestsStay DEF MessageInv, MessageTypes
<1>11. CASE UNCHANGED chatVars
  BY <1>11 DEF chatVars, MessageInv, MessageTypes, RightChat, RequestsHome
<1> QED
  BY <1>1, <1>2, <1>3, <1>4, <1>5, <1>6, <1>7, <1>8, <1>9, <1>10, <1>11, NextCases

-----------------------------------------------------------------------------
(* The registry of running answers *)

StreamInv == StreamTypes /\ RunsHome /\ Registered /\ RunShape

\* A step of one run that goes on.
LEMMA RunGoesOn ==
  ASSUME StreamInv, NEW a \in Asks, NEW g \in Gen, gen' = [gen EXCEPT ![a] = g],
         UNCHANGED <<home, running>>, InFlight(a), g.at \in {"waiting", "reading"}, g.kept = "open"
  PROVE  StreamInv'
<1>1. /\ gen' \in [Asks -> Gen] /\ gen'[a] = g
      /\ \A b \in Asks \ {a} : gen'[b] = gen[b]
  BY DEF StreamInv, StreamTypes
<1>2. RunShape'
  BY <1>1 DEF StreamInv, RunShape, InFlight
<1>3. \A b \in Asks : /\ InFlight(b)' <=> InFlight(b)
                      /\ gen'[b].at # "none" => gen[b].at # "none"
  BY <1>1 DEF InFlight
<1>4. RunsHome'
  BY <1>3 DEF StreamInv, RunsHome
<1>5. Registered'
  BY <1>3 DEF StreamInv, StreamTypes, Registered
<1> QED
  BY <1>1, <1>2, <1>4, <1>5 DEF StreamInv, StreamTypes

\* A run that ends is taken from the registry, and no other one is.
LEMMA RunEnds ==
  ASSUME StreamInv, NoAsk \notin Asks, NEW a \in Asks,
         NEW kept \in {"nothing", "whole", "cut"}, InFlight(a),
         Over(a, kept), running' = Released(a), UNCHANGED home
  PROVE  StreamInv'
<1> DEFINE g == [NoGen EXCEPT !.at = "over", !.kept = kept]
<1>1. /\ g \in Gen /\ g.at = "over" /\ g.kept = kept /\ g.text = 0 /\ g.verdict = "none"
      /\ g.stop = FALSE
  BY DEF Gen, NoGen
<1>2. gen' = [gen EXCEPT ![a] = g]
  BY DEF Over
<1> HIDE DEF g
<1>3. /\ gen' \in [Asks -> Gen] /\ gen'[a] = g
      /\ \A b \in Asks \ {a} : gen'[b] = gen[b]
  BY <1>1, <1>2 DEF StreamInv, StreamTypes
<1>4. RunShape'
  BY <1>1, <1>3 DEF StreamInv, RunShape, InFlight
<1>5. \A b \in Asks : /\ InFlight(b)' <=> (InFlight(b) /\ b # a)
                      /\ gen'[b].at # "none" => gen[b].at # "none"
  BY <1>1, <1>3 DEF InFlight
<1>6. /\ running' \in [Chats -> Asks \cup {NoAsk}]
      /\ \A c \in Chats : running'[c] = IF running[c] = a THEN NoAsk ELSE running[c]
  BY DEF StreamInv, StreamTypes, Released
<1>7. RunsHome'
  BY <1>5, <1>6 DEF StreamInv, RunsHome, InFlight
<1>8. Registered'
  BY <1>5, <1>6 DEF StreamInv, Registered, StreamTypes
<1> QED
  BY <1>3, <1>4, <1>6, <1>7, <1>8 DEF StreamInv, StreamTypes

LEMMA ReadStepRuns ==
  ASSUME StreamTypes, RunShape, NEW a \in Asks, ReadStep(a)
  PROVE  /\ InFlight(a) /\ UNCHANGED <<home, running>>
         /\ \E g \in Gen : /\ gen' = [gen EXCEPT ![a] = g]
                           /\ g.at \in {"waiting", "reading"} /\ g.kept = "open"
<1>1. gen[a] \in Gen
  BY DEF StreamTypes
<1>2. CASE Headers(a)
  <2> DEFINE g == [gen[a] EXCEPT !.at = "reading", !.held = home[a] \in ToSet(list)]
  <2>1. (home[a] \in ToSet(list)) \in BOOLEAN
    OBVIOUS
  <2>2. g \in Gen /\ g.at = "reading" /\ g.kept = gen[a].kept
    BY <1>1, <2>1 DEF Gen
  <2>3. gen' = [gen EXCEPT ![a] = g]
    BY <1>2 DEF Headers
  <2> QED
    BY <1>2, <2>2, <2>3 DEF Headers, RunShape, InFlight
<1>3. CASE Delta(a)
  <2> DEFINE g == [gen[a] EXCEPT !.text = @ + 1]
  <2>1. g \in Gen /\ g.at = gen[a].at /\ g.kept = gen[a].kept
    BY <1>1 DEF Gen
  <2> QED
    BY <1>3, <2>1 DEF Delta, Listening, RunShape, InFlight
<1>4. CASE Retry(a)
  <2> DEFINE g == [gen[a] EXCEPT !.text = 0, !.verdict = "none"]
  <2>1. g \in Gen /\ g.at = gen[a].at /\ g.kept = gen[a].kept
    BY <1>1 DEF Gen
  <2> QED
    BY <1>4, <2>1 DEF Retry, Listening, RunShape, InFlight
<1>5. ASSUME NEW kind \in {"done", "failed"}, Terminal(a, kind)
      PROVE  /\ InFlight(a)
             /\ \E g \in Gen : /\ gen' = [gen EXCEPT ![a] = g]
                               /\ g.at \in {"waiting", "reading"} /\ g.kept = "open"
  <2> DEFINE g == [gen[a] EXCEPT !.verdict = kind]
  <2>1. g \in Gen /\ g.at = gen[a].at /\ g.kept = gen[a].kept
    BY <1>1 DEF Gen
  <2> QED
    BY <1>5, <2>1 DEF Terminal, Listening, RunShape, InFlight
<1> QED
  BY <1>2, <1>3, <1>4, <1>5, ReadStepKeeps DEF ReadStep

LEMMA StreamsKept ==
  ASSUME ChatInv, [ChatNext]_chatVars PROVE StreamInv'
<1> USE ChatAssumption DEF ChatInv, TypesInv
<1>0. StreamInv
  BY DEF StreamInv
<1>1. CASE UNCHANGED <<home, gen, running>>
  BY <1>0, <1>1 DEF StreamInv, StreamTypes, RunsHome, Registered, RunShape, InFlight
<1>2. ASSUME NEW a \in Asks, SendMessage(a) PROVE StreamInv'
  <2> DEFINE g == [gen[a] EXCEPT !.at = "waiting"]
  <2>1. /\ home' = [home EXCEPT ![a] = active] /\ gen' = [gen EXCEPT ![a] = g]
        /\ running' = [running EXCEPT ![active] = a]
        /\ FreshAsk(a) /\ running[active] = NoAsk
    BY <1>2 DEF SendMessage, Begin
  <2>2. active \in Chats
    BY DEF PageTypes
  <2>3. g \in Gen /\ g.at = "waiting" /\ g.kept = gen[a].kept
    BY DEF StreamTypes, Gen
  <2> HIDE DEF g
  <2>4. gen[a].at = "none" /\ ~InFlight(a) /\ gen[a].kept = "open"
    BY <2>1 DEF FreshAsk, RunsHome, InFlight, RunShape
  <2>5. /\ StreamTypes' /\ gen'[a] = g /\ home'[a] = active /\ running'[active] = a
        /\ \A b \in Asks \ {a} : gen'[b] = gen[b] /\ home'[b] = home[b]
        /\ \A c \in Chats \ {active} : running'[c] = running[c]
    BY <2>1, <2>2, <2>3 DEF StreamTypes
  <2>6. RunsHome'
    BY <2>1, <2>2, <2>3, <2>5 DEF RunsHome, InFlight
  <2>7. Registered'
    <3>1. \A c \in Chats : running[c] # a
      BY <2>4 DEF Registered
    <3> QED
      BY <2>2, <2>3, <2>5, <3>1 DEF Registered, InFlight, StreamTypes
  <2>8. RunShape'
    BY <2>3, <2>4, <2>5 DEF RunShape, InFlight
  <2> QED
    BY <2>5, <2>6, <2>7, <2>8 DEF StreamInv
<1>3. ASSUME NEW a \in Asks, ReadStep(a) PROVE StreamInv'
  BY <1>0, <1>3, ReadStepRuns, RunGoesOn
<1>4. ASSUME NEW a \in Asks, NotAnswered(a) PROVE StreamInv'
  BY <1>0, <1>4, RunEnds DEF NotAnswered, Drop, InFlight
<1>5. ASSUME NEW a \in Asks, StreamEnds(a) PROVE StreamInv'
  <2>1. Kept(gen[a]) \in {"nothing", "whole", "cut"}
    BY DEF Kept
  <2> QED
    BY <1>0, <1>5, <2>1, RunEnds DEF StreamEnds, EndIn, InFlight
<1>6. CASE StopGeneration
  <2> DEFINE a == running[active]
             g == [gen[a] EXCEPT !.stop = TRUE]
  <2>1. a \in Asks /\ InFlight(a)
    BY <1>6 DEF StopGeneration, StreamTypes, PageTypes, Registered
  <2>2. gen[a] \in Gen
    BY <2>1 DEF StreamTypes
  <2>3. gen' = [gen EXCEPT ![a] = g] /\ UNCHANGED <<home, running>>
    BY <1>6 DEF StopGeneration
  <2> HIDE DEF a
  <2>4. g \in Gen /\ g.at = gen[a].at /\ g.kept = gen[a].kept
    BY <2>2 DEF Gen
  <2> HIDE DEF g
  <2> QED
    BY <1>0, <2>1, <2>3, <2>4, RunGoesOn DEF InFlight, RunShape
<1>7. ASSUME NEW i \in DOMAIN msgs[active], NEW a \in Asks, Submit(i, a) PROVE StreamInv'
  <2>1. active \in Chats /\ UNCHANGED <<gen, running>> /\ home' = [home EXCEPT ![a] = active]
    BY <1>7 DEF Submit, PageTypes
  <2>2. home[a] \notin Chats \/ home[a] = active
    <3>1. CASE FreshAsk(a)
      BY <3>1 DEF FreshAsk
    <3>2. CASE a = msgs[active][i].ask /\ msgs[active][i].by = "user"
      BY <2>1, <3>2 DEF RightChat, Hole
    <3> QED
      BY <1>7, <3>1, <3>2 DEF Submit
  <2>3. home'[a] = active /\ \A b \in Asks \ {a} : home'[b] = home[b]
    BY <2>1 DEF StreamTypes
  <2>4. StreamTypes'
    BY <2>1 DEF StreamTypes
  <2>5. \A b \in Asks : home[b] \in Chats => home'[b] = home[b]
    BY <2>2, <2>3
  <2>6. \A b \in Asks : InFlight(b)' <=> InFlight(b)
    BY <2>1 DEF InFlight
  <2>7. RunsHome'
    BY <2>1, <2>5 DEF RunsHome, InFlight
  <2>8. Registered'
    BY <2>1, <2>5, <2>6 DEF Registered, StreamTypes
  <2> QED
    BY <2>1, <2>4, <2>7, <2>8 DEF StreamInv, RunShape, InFlight
<1>8. UNCHANGED <<home, gen, running>> \/
      \/ \E a \in Asks : SendMessage(a) \/ ReadStep(a) \/ NotAnswered(a) \/ StreamEnds(a)
      \/ StopGeneration
      \/ \E i \in DOMAIN msgs[active], a \in Asks : Submit(i, a)
  BY NextCases, PageStepKeeps DEF DeleteChat, Regenerate, Submitted, Regenerated, chatVars
<1> QED
  BY <1>1, <1>2, <1>3, <1>4, <1>5, <1>6, <1>7, <1>8

-----------------------------------------------------------------------------
(* The results *)

LEMMA ChatInit_Inv == ChatInit => ChatInv
<1> SUFFICES ASSUME ChatInit PROVE ChatInv
  OBVIOUS
<1>1. PageTypes
  BY DEF ChatInit, PageTypes
<1>2. MessageTypes /\ RightChat /\ RequestsHome
  BY DEF ChatInit, MessageTypes, RightChat, RequestsHome
<1>3. NoGen \in Gen /\ NoGen.at = "none" /\ NoGen.kept = "open" /\ NoGen.text = 0
      /\ NoGen.verdict = "none" /\ NoGen.stop = FALSE
  BY DEF NoGen, Gen
<1>4. StreamTypes
  BY <1>3 DEF ChatInit, StreamTypes
<1>5. RunsHome /\ Registered /\ RunShape
  BY <1>3 DEF ChatInit, RunsHome, Registered, RunShape, InFlight
<1> QED
  BY <1>1, <1>2, <1>4, <1>5 DEF ChatInv, TypesInv

LEMMA ChatStep_Inv == ChatInv /\ [ChatNext]_chatVars => ChatInv'
BY PageTypesKept, MessagesKept, StreamsKept DEF MessageInv, StreamInv, ChatInv, TypesInv

LEMMA ChatAlways == ChatSpec => []ChatInv
BY ChatInit_Inv, ChatStep_Inv, PTL DEF ChatSpec

\* sendMessage, submitUserMessageAndAppendReply and regenerateBotMessage: a reply
\* is written to the chat it was asked in, however late, whatever was opened,
\* edited or deleted meanwhile.
THEOREM AnswersLandRight == ChatSpec => []RightChat
<1>1. ChatInv => RightChat
  BY DEF ChatInv
<1> QED
  BY <1>1, ChatAlways, PTL

\* activeGenerations: an answer is registered, in its own chat, exactly while it
\* runs, so Stop reaches it and Send is free once it is over.
THEOREM RegistryCorrect == ChatSpec => []OneStreamPerChat
<1>1. ASSUME ChatInv PROVE OneStreamPerChat
  <2>1. ASSUME NEW a \in Asks, InFlight(a) PROVE \E c \in Chats : running[c] = a /\ home[a] = c
    BY <1>1, <2>1 DEF ChatInv, RunsHome, InFlight
  <2>2. ASSUME NEW a \in Asks, NEW c \in Chats, running[c] = a PROVE InFlight(a)
    BY <1>1, <2>2, ChatAssumption DEF ChatInv, Registered
  <2> QED
    BY <2>1, <2>2 DEF OneStreamPerChat, InFlight
<1> QED
  BY <1>1, ChatAlways, PTL

\* What ManualTitleKept asks of one chat in one step.
TitleKept(c) ==
  title[c] \in Typed => \/ title'[c] \in Typed \cup {"gone"}
                        \/ title[c] = "retyped" /\ Turns(msgs[c]) = 0

\* renderChatItem, sendMessage and maybeGenerateAiTitle: no step of the page
\* replaces a title of the student's, but for the first question of a chat the
\* student called "New Chat".
THEOREM TitlesCorrect == ChatSpec => ManualTitleKept
<1>1. ASSUME ChatInv, [ChatNext]_chatVars PROVE [\A c \in Chats : TitleKept(c)]_chatVars
  <2>1. ASSUME NEW d \in Chats, DeleteChat(d) \/ Rename(d) \/ Named(d), NEW c \in Chats
        PROVE  TitleKept(c)
    BY <1>1, <2>1 DEF ChatInv, TypesInv, PageTypes, DeleteChat, Rename, Named, TitleArrives,
                      TitleKept
  <2>2. ASSUME NEW a \in Asks, SendMessage(a), NEW c \in Chats PROVE TitleKept(c)
    <3>1. \/ title' = title
          \/ /\ title' = [title EXCEPT ![active] = "page"]
             /\ Turns(msgs[active]) = 0 /\ title[active] \in {"new", "retyped"}
      BY <2>2 DEF SendMessage, Begin, FirstTitle
    <3>2. title' = [title EXCEPT ![active] = "page"] => \A d \in Chats \ {active} : title'[d] = title[d]
      BY <1>1 DEF ChatInv, TypesInv, PageTypes
    <3>3. CASE c = active
      BY <3>1, <3>3 DEF TitleKept, Typed
    <3> QED
      BY <3>1, <3>2, <3>3 DEF TitleKept
  <2>3. ASSUME UNCHANGED title, NEW c \in Chats PROVE TitleKept(c)
    BY <2>3 DEF TitleKept
  <2>4. \/ UNCHANGED title
        \/ \E d \in Chats : DeleteChat(d) \/ Rename(d) \/ Named(d)
        \/ \E a \in Asks : SendMessage(a)
    BY <1>1, NextCases, ReadStepKeeps
       DEF PageStep, LoadChat, CreateNewChat, Untitled, NotAnswered, Drop,
           StreamEnds, EndIn, StopGeneration, Submit, Regenerate, Submitted, Regenerated, chatVars
  <2> QED
    BY <2>1, <2>2, <2>3, <2>4
<1> QED
  BY <1>1, ChatAlways, PTL DEF ChatSpec, ManualTitleKept, TitleKept

-----------------------------------------------------------------------------
(* The refinement *)

LEMMA SameGenSamePromise ==
  ASSUME UNCHANGED gen PROVE UNCHANGED Promise!answerVars
BY DEF Promise!answerVars

\* What the contract sees of one run that moves.
LEMMA OneRun ==
  ASSUME StreamTypes, NEW a \in Asks, NEW g, gen' = [gen EXCEPT ![a] = g]
  PROVE  /\ gen'[a] = g
         /\ \A b \in Asks : gen'[b] = IF b = a THEN g ELSE gen[b]
BY DEF StreamTypes

LEMMA OverKeeps ==
  ASSUME StreamTypes, NEW a \in Asks, NEW k \in {"nothing", "whole", "cut"},
         gen[a].kept = "open", Over(a, k),
         \/ k = "whole" /\ gen[a].verdict = "done"
         \/ k = "cut" /\ gen[a].stop /\ gen[a].verdict = "none" /\ gen[a].text > 0
         \/ k = "nothing"
  PROVE  Promise!AnswerNext
<1> DEFINE g == [NoGen EXCEPT !.at = "over", !.kept = k]
<1>1. g.kept = k /\ g.text = 0 /\ g.verdict = "none" /\ g.stop = FALSE
  BY DEF NoGen
<1>2. gen' = [gen EXCEPT ![a] = g]
  BY DEF Over
<1> HIDE DEF g
<1>3. \A b \in Asks : gen'[b] = IF b = a THEN g ELSE gen[b]
  BY <1>2 DEF StreamTypes
<1>4. Promise!Keep(a, k)
  BY <1>1, <1>3 DEF Promise!Keep
<1> QED
  BY <1>4 DEF Promise!AnswerNext

LEMMA StepImplements ==
  ASSUME ChatInv, [ChatNext]_chatVars PROVE [Promise!AnswerNext]_(Promise!answerVars)
<1> USE DEF ChatInv, TypesInv
<1>1. CASE UNCHANGED gen
  BY <1>1, SameGenSamePromise
<1>2. ASSUME NEW a \in Asks, SendMessage(a) \/ Headers(a) PROVE UNCHANGED Promise!answerVars
  <2>1. PICK g : /\ gen' = [gen EXCEPT ![a] = g]
                 /\ g.text = gen[a].text /\ g.verdict = gen[a].verdict
                 /\ g.stop = gen[a].stop /\ g.kept = gen[a].kept
    <3>1. gen[a] \in Gen
      BY DEF StreamTypes
    <3>2. CASE SendMessage(a)
      <4> DEFINE g == [gen[a] EXCEPT !.at = "waiting"]
      <4>1. /\ g.text = gen[a].text /\ g.verdict = gen[a].verdict
            /\ g.stop = gen[a].stop /\ g.kept = gen[a].kept
        BY <3>1 DEF Gen
      <4>2. gen' = [gen EXCEPT ![a] = g]
        BY <3>2 DEF SendMessage, Begin
      <4> QED
        BY <4>1, <4>2
    <3>3. CASE Headers(a)
      <4> DEFINE g == [gen[a] EXCEPT !.at = "reading", !.held = home[a] \in ToSet(list)]
      <4>1. /\ g.text = gen[a].text /\ g.verdict = gen[a].verdict
            /\ g.stop = gen[a].stop /\ g.kept = gen[a].kept
        BY <3>1 DEF Gen
      <4>2. gen' = [gen EXCEPT ![a] = g]
        BY <3>3 DEF Headers
      <4> QED
        BY <4>1, <4>2
    <3> QED
      BY <1>2, <3>2, <3>3
  <2>2. \A b \in Asks : gen'[b] = IF b = a THEN g ELSE gen[b]
    BY <2>1, OneRun
  <2> QED
    BY <2>1, <2>2 DEF Promise!answerVars
<1>3. ASSUME NEW a \in Asks, Delta(a) \/ Retry(a) \/ \E kind \in {"done", "failed"} : Terminal(a, kind)
      PROVE  Promise!AnswerNext
  <2>1. gen[a] \in Gen /\ gen[a].kept = "open" /\ ~gen[a].stop
    BY <1>3 DEF Delta, Retry, Terminal, Listening, RunShape, StreamTypes
  <2>2. CASE Delta(a)
    <3> DEFINE g == [gen[a] EXCEPT !.text = @ + 1]
    <3>1. /\ g.text = gen[a].text + 1 /\ g.verdict = gen[a].verdict
          /\ g.stop = gen[a].stop /\ g.kept = gen[a].kept
      BY <2>1 DEF Gen
    <3>2. gen' = [gen EXCEPT ![a] = g]
      BY <2>2 DEF Delta
    <3> HIDE DEF g
    <3>3. \A b \in Asks : gen'[b] = IF b = a THEN g ELSE gen[b]
      BY <3>2, OneRun
    <3>4. Promise!Hear(a)
      BY <2>1, <3>1, <3>3 DEF Promise!Hear, Promise!Open
    <3> QED
      BY <3>4 DEF Promise!AnswerNext
  <2>3. CASE Retry(a)
    <3> DEFINE g == [gen[a] EXCEPT !.text = 0, !.verdict = "none"]
    <3>1. /\ g.text = 0 /\ g.verdict = "none"
          /\ g.stop = gen[a].stop /\ g.kept = gen[a].kept
      BY <2>1 DEF Gen
    <3>2. gen' = [gen EXCEPT ![a] = g]
      BY <2>3 DEF Retry
    <3> HIDE DEF g
    <3>3. \A b \in Asks : gen'[b] = IF b = a THEN g ELSE gen[b]
      BY <3>2, OneRun
    <3>4. Promise!StartOver(a)
      BY <2>1, <3>1, <3>3 DEF Promise!StartOver, Promise!Open
    <3> QED
      BY <3>4 DEF Promise!AnswerNext
  <2>4. ASSUME NEW kind \in {"done", "failed"}, Terminal(a, kind) PROVE Promise!AnswerNext
    <3> DEFINE g == [gen[a] EXCEPT !.verdict = kind]
    <3>1. /\ g.text = gen[a].text /\ g.verdict = kind
          /\ g.stop = gen[a].stop /\ g.kept = gen[a].kept
      BY <2>1 DEF Gen
    <3>2. gen' = [gen EXCEPT ![a] = g]
      BY <2>4 DEF Terminal
    <3> HIDE DEF g
    <3>3. \A b \in Asks : gen'[b] = IF b = a THEN g ELSE gen[b]
      BY <3>2, OneRun
    <3>4. Promise!Judge(a, kind)
      BY <2>1, <3>1, <3>3 DEF Promise!Judge, Promise!Open
    <3> QED
      BY <3>4 DEF Promise!AnswerNext
  <2> QED
    BY <1>3, <2>2, <2>3, <2>4
<1>4. ASSUME NEW a \in Asks, NotAnswered(a) PROVE Promise!AnswerNext
  <2>1. gen[a].kept = "open" /\ Over(a, "nothing")
    BY <1>4 DEF NotAnswered, Drop, RunShape
  <2> QED
    BY <2>1, OverKeeps
<1>5. ASSUME NEW a \in Asks, StreamEnds(a) PROVE Promise!AnswerNext
  <2>1. gen[a].kept = "open" /\ Over(a, Kept(gen[a]))
    BY <1>5 DEF StreamEnds, EndIn, RunShape
  <2>2. \/ Kept(gen[a]) = "whole" /\ gen[a].verdict = "done"
        \/ Kept(gen[a]) = "cut" /\ gen[a].stop /\ gen[a].verdict = "none" /\ gen[a].text > 0
        \/ Kept(gen[a]) = "nothing"
    BY DEF Kept
  <2> QED
    BY <2>1, <2>2, OverKeeps
<1>6. CASE StopGeneration
  <2>0. /\ running[active] \in Asks /\ gen[running[active]].kept = "open"
        /\ ~gen[running[active]].stop
        /\ gen' = [gen EXCEPT ![running[active]].stop = TRUE]
    BY <1>6 DEF StopGeneration, StreamTypes, PageTypes, Registered, InFlight, RunShape
  <2>1. PICK a \in Asks : /\ gen' = [gen EXCEPT ![a].stop = TRUE]
                          /\ gen[a].kept = "open" /\ ~gen[a].stop
    BY <2>0
  <2> DEFINE g == [gen[a] EXCEPT !.stop = TRUE]
  <2>2. gen' = [gen EXCEPT ![a] = g] /\ gen[a] \in Gen
    BY <2>1 DEF StreamTypes
  <2>3. /\ g.text = gen[a].text /\ g.verdict = gen[a].verdict
        /\ g.stop = TRUE /\ g.kept = gen[a].kept
    BY <2>2 DEF Gen
  <2> HIDE DEF g
  <2>4. \A b \in Asks : gen'[b] = IF b = a THEN g ELSE gen[b]
    BY <2>2, OneRun
  <2>5. Promise!Stop(a)
    <3>1. Promise!Open(a)
      BY <2>1 DEF Promise!Open
    <3>2. [b \in Asks |-> gen'[b].stop] = [[b \in Asks |-> gen[b].stop] EXCEPT ![a] = TRUE]
      BY <2>3, <2>4
    <3>3. \A b \in Asks : /\ gen'[b].text = gen[b].text /\ gen'[b].verdict = gen[b].verdict
                          /\ gen'[b].kept = gen[b].kept
      BY <2>3, <2>4
    <3> QED
      BY <3>1, <3>2, <3>3 DEF Promise!Stop
  <2> QED
    BY <2>5 DEF Promise!AnswerNext
<1>7. \/ UNCHANGED gen
      \/ \E a \in Asks : SendMessage(a) \/ ReadStep(a) \/ NotAnswered(a) \/ StreamEnds(a)
      \/ StopGeneration
  BY NextCases, PageStepKeeps DEF DeleteChat, Submit, Regenerate, Submitted, Regenerated, chatVars
<1> QED
  BY <1>1, <1>2, <1>3, <1>4, <1>5, <1>6, <1>7 DEF ReadStep

\* The streamed answer as sendMessage and applyStreamEvent handle it implements
\* AnswerContract: whole only if the server said "done", cut only if the student
\* stopped it, nothing otherwise.
THEOREM AnswerImplemented == ChatSpec => ImplementsAnswer
<1>1. ChatInit => Promise!AnswerInit
  BY DEF ChatInit, NoGen, Promise!AnswerInit
<1> QED
  BY <1>1, StepImplements, ChatAlways, PTL DEF ChatSpec, ImplementsAnswer, Promise!AnswerSpec

-----------------------------------------------------------------------------
(* Notebooks and accounts.  The argument follows the work: what is in memory, *)
(* in the local copy and in each save is the work of the one student whose   *)
(* it is, and what is being loaded was asked for by the student who is signed *)
(* in.                                                                       *)


\* The notebooks of f hold no work but that of u (none, if u is a guest).
Only(f, u) == \A b \in DOMAIN f : f[b] \subseteq By(u)

MemoryIsOwn == Only(books, user)
CopyIsOwn == Only(cache, user)
SavesAreOwn == \A s \in upserts : s.owner \in Students /\ s.work \subseteq {s.owner}
RowsAreOwn == \A b \in DOMAIN table : table[b].work \subseteq {table[b].owner}
LoadsAreOwn == \A u \in Students : \A kind \in {"list", "reload", "profile"} :
                 <<u, kind>> \in loading => u = user

Own ==
  /\ MemoryIsOwn /\ CopyIsOwn /\ SavesAreOwn /\ RowsAreOwn /\ LoadsAreOwn
  /\ profile \in {user, Guest}

SomeUser == user \in Students \cup {Guest}

OwnInv == SomeUser /\ (~crossed => Own)

-----------------------------------------------------------------------------
(* The operations on notebooks *)

LEMMA WithKeepsOwn ==
  ASSUME NEW f, NEW u, NEW b, NEW w, Only(f, u), w \subseteq By(u)
  PROVE  Only(With(f, b, w), u)
BY DEF Only, With

LEMMA WithoutKeepsOwn ==
  ASSUME NEW f, NEW u, NEW b, Only(f, u)
  PROVE  Only(Without(f, b), u)
BY DEF Only, Without, Restrict

LEMMA GuestIsNoStudent == Guest \notin Students
BY ProjectAssumption

LEMMA NoneIsOwn == ASSUME NEW u PROVE Only(None, u)
BY DEF Only, None

\* What is saved is the student's own, if what is in memory is.
LEMMA SavingKeepsOwn ==
  ASSUME SomeUser, Own, UNCHANGED user, NEW bs, NEW b, Only(bs, user), SaveProjects(bs, b)
  PROVE  MemoryIsOwn' /\ CopyIsOwn' /\ SavesAreOwn'
<1>1. MemoryIsOwn' /\ CopyIsOwn'
  BY DEF Own, SaveProjects, MemoryIsOwn, CopyIsOwn
<1>2. SavesAreOwn'
  <2>1. CASE user # Guest /\ b \in DOMAIN bs
    <3> DEFINE save == [book |-> b, owner |-> user, work |-> bs[b]]
    <3>1. save.owner = user /\ save.work = bs[b] /\ bs[b] \subseteq {user} /\ user \in Students
      BY <2>1 DEF Only, By, SomeUser
    <3>2. upserts' = upserts \cup {save}
      BY <2>1 DEF SaveProjects
    <3> HIDE DEF save
    <3> QED
      BY <3>1, <3>2 DEF Own, SavesAreOwn
  <2>2. CASE ~(user # Guest /\ b \in DOMAIN bs)
    BY <2>2 DEF SaveProjects, Own, SavesAreOwn
  <2> QED
    BY <2>1, <2>2
<1> QED
  BY <1>1, <1>2

\* Nor does the page add anything else when it starts.
LEMMA StartKeepsOwn ==
  ASSUME SomeUser, Own, UNCHANGED user, NEW bs, NEW state, Only(bs, user),
         StartupChat(bs, user, state)
  PROVE  MemoryIsOwn' /\ CopyIsOwn' /\ SavesAreOwn'
<1> DEFINE all == IF Recent[user] \in DOMAIN bs THEN bs ELSE With(bs, Recent[user], By(user))
<1>1. Only(all, user)
  BY WithKeepsOwn
<1>2. CASE books' = all /\ UNCHANGED <<cache, upserts>>
  <2> HIDE DEF all
  <2> QED
    BY <1>1, <1>2 DEF Own, MemoryIsOwn, CopyIsOwn, SavesAreOwn
<1>3. CASE SaveProjects(all, Recent[user])
  <2> HIDE DEF all
  <2> QED
    BY <1>1, <1>3, SavingKeepsOwn
<1> QED
  BY <1>2, <1>3 DEF StartupChat

-----------------------------------------------------------------------------
LEMMA ProjectInit_Inv == ProjectInit => OwnInv
<1> SUFFICES ASSUME ProjectInit, ~crossed PROVE Own
  BY DEF ProjectInit, OwnInv, SomeUser
<1>1. MemoryIsOwn /\ SavesAreOwn /\ LoadsAreOwn /\ profile \in {user, Guest}
  BY NoneIsOwn DEF ProjectInit, MemoryIsOwn, SavesAreOwn, LoadsAreOwn
<1>2. CopyIsOwn
  <2>1. CASE cache = None
    BY <2>1, NoneIsOwn DEF CopyIsOwn
  <2>2. CASE user # Guest /\ cache = With(None, Recent[user], {user})
    BY <2>2, NoneIsOwn, WithKeepsOwn DEF CopyIsOwn, By
  <2> QED
    BY <2>1, <2>2 DEF ProjectInit
<1>3. RowsAreOwn
  <2>1. CASE table = None
    BY <2>1 DEF RowsAreOwn, None
  <2>2. ASSUME NEW u \in Students, table = With(None, Recent[u], [owner |-> u, work |-> {u}])
        PROVE  RowsAreOwn
    <3>1. \A b \in DOMAIN table : table[b] = [owner |-> u, work |-> {u}]
      BY <2>2 DEF With, None
    <3> QED
      BY <3>1 DEF RowsAreOwn
  <2> QED
    BY <2>1, <2>2 DEF ProjectInit
<1> QED
  BY <1>1, <1>2, <1>3 DEF Own

\* A step that leaves the rows, the requests and the profile alone, and saves
\* nothing but the student's own, keeps the whole.
LEMMA SavingStep ==
  ASSUME SomeUser, Own, UNCHANGED <<user, table, loading, profile>>,
         NEW bs, NEW b, Only(bs, user), SaveProjects(bs, b)
  PROVE  Own'
<1>1. MemoryIsOwn' /\ CopyIsOwn' /\ SavesAreOwn'
  BY SavingKeepsOwn
<1> QED
  BY <1>1 DEF Own, RowsAreOwn, LoadsAreOwn

\* A list that ends makes room for the profile of the same student.
LEMMA ListOverKeeps ==
  ASSUME Own, NEW u \in Students, NEW r \in {"list", "reload"}, ListOver(u, r)
  PROVE  u = user /\ RowsAreOwn' /\ LoadsAreOwn' /\ profile' \in {user', Guest}
<1>1. u = user
  BY DEF ListOver, Own, LoadsAreOwn
<1>2. \A v \in Students : \A kind \in {"list", "reload", "profile"} :
        <<v, kind>> \in loading' => <<v, kind>> \in loading \/ v = u
  BY DEF ListOver
<1> QED
  BY <1>1, <1>2 DEF ListOver, Own, RowsAreOwn, LoadsAreOwn

LEMMA ProjectStep_Inv == OwnInv /\ [ProjectNext]_projectVars => OwnInv'
<1> SUFFICES ASSUME OwnInv, [ProjectNext]_projectVars PROVE OwnInv'
  OBVIOUS
<1> USE DEF OwnInv
<1>1. CASE OpenApp
  <2> SUFFICES ASSUME ~crossed PROVE Own'
    BY <1>1 DEF OpenApp, SomeUser
  <2>1. CASE user = Guest
    <3>1. MemoryIsOwn' /\ CopyIsOwn' /\ SavesAreOwn'
      BY <1>1, <2>1, StartKeepsOwn DEF OpenApp, Own, CopyIsOwn
    <3> QED
      BY <1>1, <2>1, <3>1 DEF OpenApp, Own, RowsAreOwn, LoadsAreOwn
  <2>2. CASE user # Guest
    <3>1. loading' = {<<user, "list">>} /\ UNCHANGED <<books, cache, upserts, table, profile, user>>
      BY <1>1, <2>2 DEF OpenApp
    <3> QED
      BY <3>1 DEF Own, MemoryIsOwn, CopyIsOwn, SavesAreOwn, RowsAreOwn, LoadsAreOwn
  <2> QED
    BY <2>1, <2>2
<1>2. CASE Reload
  BY <1>2 DEF Reload, SomeUser, Own, MemoryIsOwn, CopyIsOwn, SavesAreOwn, RowsAreOwn, LoadsAreOwn
<1>3. ASSUME NEW u \in Students, SignIn(u) PROVE OwnInv'
  <2>1. ASSUME ~crossed PROVE Only(books, u) /\ Only(cache, u) /\ LoadsAreOwn'
    <3>1. user = Guest /\ By(user) = {}
      BY <1>3 DEF SignIn, By
    <3>2. Only(books, u) /\ Only(cache, u)
      BY <2>1, <3>1 DEF Own, MemoryIsOwn, CopyIsOwn, Only
    <3>3. \A v \in Students : \A kind \in {"list", "reload", "profile"} : <<v, kind>> \notin loading
      BY <2>1, <3>1, GuestIsNoStudent DEF Own, LoadsAreOwn
    <3> QED
      BY <1>3, <3>2, <3>3 DEF SignIn, LoadsAreOwn
  <2> QED
    BY <1>3, <2>1 DEF SignIn, SomeUser, Own, MemoryIsOwn, CopyIsOwn, SavesAreOwn, RowsAreOwn
<1>4. ASSUME NEW u \in Students, ProfileAnswers(u) PROVE OwnInv'
  <2>1. ~crossed => u = user
    BY <1>4 DEF ProfileAnswers, Own, LoadsAreOwn
  <2> QED
    BY <1>4, <2>1 DEF ProfileAnswers, SomeUser, Own, MemoryIsOwn, CopyIsOwn, SavesAreOwn,
          RowsAreOwn, LoadsAreOwn
<1>5. ASSUME NEW u \in Students, NEW r \in {"list", "reload"}, ListLoaded(u, r) PROVE OwnInv'
  <2> SUFFICES ASSUME ~crossed PROVE Own'
    BY <1>5 DEF ListLoaded, ListOver, SomeUser
  <2>1. ListOver(u, r) /\ UNCHANGED user
    BY <1>5 DEF ListLoaded, ListOver
  <2>2. u = user /\ RowsAreOwn' /\ LoadsAreOwn' /\ profile' \in {user', Guest}
    BY <2>1, ListOverKeeps
  <2>3. MemoryIsOwn' /\ CopyIsOwn' /\ SavesAreOwn'
    <3>1. CASE Rows(u) # {}
      <4> DEFINE rows == [b \in Rows(u) |-> table[b].work]
      <4>1. Only(rows, user)
        <5>1. \A b \in Rows(u) : table[b].work \subseteq {user}
          BY <2>2 DEF Rows, Own, RowsAreOwn
        <5>2. By(user) = {user}
          BY <2>2, GuestIsNoStudent DEF By
        <5> QED
          BY <5>1, <5>2 DEF Only
      <4>2. StartupChat(rows, user, "ready")
        BY <1>5, <3>1 DEF ListLoaded
      <4> HIDE DEF rows
      <4> QED
        BY <2>1, <4>1, <4>2, StartKeepsOwn
    <3>2. CASE Rows(u) = {}
      <4>1. PICK b \in Fresh : SaveProjects(With(None, b, By(user)), b)
        BY <1>5, <3>2 DEF ListLoaded
      <4>2. Only(With(None, b, By(user)), user)
        BY NoneIsOwn, WithKeepsOwn
      <4> QED
        BY <2>1, <4>1, <4>2, SavingKeepsOwn
    <3> QED
      BY <3>1, <3>2
  <2> QED
    BY <2>2, <2>3 DEF Own
<1>6. ASSUME NEW u \in Students, NEW r \in {"list", "reload"}, ListFails(u, r) PROVE OwnInv'
  <2> SUFFICES ASSUME ~crossed PROVE Own'
    BY <1>6 DEF ListFails, ListOver, SomeUser
  <2>1. ListOver(u, r) /\ UNCHANGED user /\ StartupChat(cache, user, "degraded")
    BY <1>6 DEF ListFails, ListOver
  <2>2. RowsAreOwn' /\ LoadsAreOwn' /\ profile' \in {user', Guest}
    BY <2>1, ListOverKeeps
  <2>3. MemoryIsOwn' /\ CopyIsOwn' /\ SavesAreOwn'
    BY <2>1, StartKeepsOwn DEF Own, CopyIsOwn
  <2> QED
    BY <2>2, <2>3 DEF Own
<1>7. ASSUME NEW b \in DOMAIN books, Write(b) PROVE OwnInv'
  <2> DEFINE bs == [books EXCEPT ![b] = @ \cup By(user)]
  <2>1. ~crossed => Only(bs, user)
    BY DEF Own, MemoryIsOwn, Only
  <2>2. SaveProjects(bs, current) /\ UNCHANGED <<user, table, loading, profile, crossed>>
    BY <1>7 DEF Write
  <2> HIDE DEF bs
  <2> QED
    BY <2>1, <2>2, SavingStep DEF SomeUser
<1>8. ASSUME NEW b \in DOMAIN books, OpenBook(b) PROVE OwnInv'
  BY <1>8 DEF OpenBook, SomeUser, Own, MemoryIsOwn, CopyIsOwn, SavesAreOwn, RowsAreOwn, LoadsAreOwn
<1>9. ASSUME NEW b \in DOMAIN books, RenameProject(b) PROVE OwnInv'
  <2> DEFINE save == [book |-> b, owner |-> user, work |-> books[b]]
  <2>1. save.owner = user /\ save.work = books[b] /\ user \in Students
    BY <1>9 DEF RenameProject, SomeUser
  <2>2. upserts' = upserts \cup {save}
    BY <1>9 DEF RenameProject
  <2> HIDE DEF save
  <2>3. ~crossed => SavesAreOwn'
    BY <2>1, <2>2 DEF Own, MemoryIsOwn, Only, By, SavesAreOwn
  <2> QED
    BY <1>9, <2>3 DEF RenameProject, SomeUser, Own, MemoryIsOwn, CopyIsOwn, RowsAreOwn, LoadsAreOwn
<1>10. ASSUME NEW b \in DOMAIN books, DeleteProject(b) PROVE OwnInv'
  BY <1>10 DEF DeleteProject, SomeUser, Own, MemoryIsOwn, CopyIsOwn, SavesAreOwn, RowsAreOwn, LoadsAreOwn
<1>11. ASSUME NEW b \in Books, CreateNewProject(b) PROVE OwnInv'
  <2>1. ~crossed => Only(With(books, b, By(user)), user)
    BY WithKeepsOwn DEF Own, MemoryIsOwn
  <2>2. /\ SaveProjects(With(books, b, By(user)), b)
        /\ UNCHANGED <<user, table, loading, profile, crossed>>
    BY <1>11 DEF CreateNewProject
  <2> QED
    BY <2>1, <2>2, SavingStep DEF SomeUser
<1>12. CASE ProjectDeleted
  <2> SUFFICES ASSUME ~crossed PROVE Own'
    BY <1>12 DEF ProjectDeleted, SomeUser
  <2> DEFINE left == Without(books, deletion[1])
             more == With(left, Recent[user], By(user))
  <2>1. Only(left, user)
    BY WithoutKeepsOwn DEF Own, MemoryIsOwn
  <2>2. Only(more, user)
    BY <2>1, WithKeepsOwn
  <2>3. UNCHANGED <<user, loading, profile>>
    BY <1>12 DEF ProjectDeleted
  <2>4. SaveProjects(left, current) \/ SaveProjects(more, Recent[user])
    BY <1>12 DEF ProjectDeleted
  <2> HIDE DEF left, more
  <2>5. MemoryIsOwn' /\ CopyIsOwn' /\ SavesAreOwn'
    BY <2>1, <2>2, <2>3, <2>4, SavingKeepsOwn
  <2>6. RowsAreOwn'
    <3>1. table' = table \/ table' = Without(table, deletion[1])
      BY <1>12 DEF ProjectDeleted
    <3> QED
      BY <3>1 DEF Own, RowsAreOwn, Without, Restrict
  <2> QED
    BY <2>3, <2>5, <2>6 DEF Own, LoadsAreOwn
<1>13. CASE DeletionFails
  BY <1>13 DEF DeletionFails, SomeUser, Own, MemoryIsOwn, CopyIsOwn, SavesAreOwn, RowsAreOwn, LoadsAreOwn
<1>14. ASSUME NEW s \in upserts, UpsertLands(s) PROVE OwnInv'
  <2> DEFINE row == [owner |-> s.owner, work |-> s.work]
  <2>1. table' = table \/ table' = With(table, s.book, row)
    BY <1>14 DEF UpsertLands
  <2>2. ~crossed => row.work \subseteq {row.owner}
    BY DEF Own, SavesAreOwn
  <2> HIDE DEF row
  <2>3. ~crossed => RowsAreOwn'
    BY <2>1, <2>2 DEF Own, RowsAreOwn, With
  <2> QED
    BY <1>14, <2>3 DEF UpsertLands, SomeUser, Own, MemoryIsOwn, CopyIsOwn, SavesAreOwn, LoadsAreOwn
<1>15. ASSUME NEW s \in upserts, UpsertFails(s) PROVE OwnInv'
  BY <1>15 DEF UpsertFails, SomeUser, Own, MemoryIsOwn, CopyIsOwn, SavesAreOwn, RowsAreOwn, LoadsAreOwn
<1>16. CASE HandleLogout
  <2> SUFFICES ASSUME ~crossed, loading = {} PROVE Own'
    BY <1>16 DEF HandleLogout, SomeUser
  <2> DEFINE fresh == With(Forgotten, Recent[Guest], {})
  <2>1. Only(fresh, Guest) /\ Only(Forgotten, Guest)
    BY NoneIsOwn, WithKeepsOwn DEF Forgotten
  <2>2. /\ user' = Guest /\ profile' = Guest /\ books' = fresh /\ cache' \in {Forgotten, fresh}
        /\ UNCHANGED <<table, loading, upserts>>
    BY <1>16 DEF HandleLogout
  <2> HIDE DEF fresh
  <2> QED
    BY <2>1, <2>2 DEF Own, MemoryIsOwn, CopyIsOwn, SavesAreOwn, RowsAreOwn, LoadsAreOwn
<1>17. CASE SessionEnds
  BY <1>17 DEF SessionEnds, SomeUser
<1>18. CASE UNCHANGED projectVars
  BY <1>18 DEF projectVars, SomeUser, Own, MemoryIsOwn, CopyIsOwn, SavesAreOwn, RowsAreOwn, LoadsAreOwn
<1> QED
  BY <1>1, <1>2, <1>3, <1>4, <1>5, <1>6, <1>7, <1>8, <1>9, <1>10, <1>11, <1>12, <1>13, <1>14,
     <1>15, <1>16, <1>17, <1>18 DEF ProjectNext, Loaded

\* handleLogout, loadProjectsFromDatabase, saveProjectsToStorage and the saves in
\* flight: as long as every session ends by Log out and no request is overtaken
\* by it, nobody sees, keeps or saves the work of another student.
THEOREM AccountsCorrect == ProjectSpec => []NobodyElsesWork
<1>1. OwnInv => NobodyElsesWork
  BY DEF OwnInv, Own, SomeUser, MemoryIsOwn, RowsAreOwn, Only, By, NobodyElsesWork
<1> QED
  BY <1>1, ProjectInit_Inv, ProjectStep_Inv, PTL DEF ProjectSpec
================================================================================
