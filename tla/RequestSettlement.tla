--------------------------- MODULE RequestSettlement ---------------------------
(***************************************************************************)
(* One metered AI request from its quota call to its settlement: what       *)
(* enforce_quota, the endpoints of main.py and settle_request do with the   *)
(* unit, while calls to the database are lost or late, students leave and   *)
(* the server restarts.  The database is the atomic QuotaMeter, which the    *)
(* SQL functions implement (QuotaLedger).  Endpoints:                        *)
(*   stream  /api/chat/stream          chat   /api/chat                      *)
(*   quiz    /api/quiz/generate        title  /api/chat/title                *)
(*   tags    /api/notes/{id}/suggest-tags                                    *)
(*   study   /api/notes/{id}/flashcards and /mini-quiz                       *)
(***************************************************************************)
EXTENDS QuotaPlans

CONSTANTS
  Requests,        \* server requests; a request is its own refund token
  Endpoints,       \* the endpoints in play
  Chat, Quiz, Notes, \* the three meters
  TransportBound,  \* quota_service can name its HTTP client
  Calm             \* no call is lost, nobody leaves, no restart

ASSUME SettlementAssumption ==
  /\ Requests \subseteq Tokens
  /\ Endpoints \subseteq {"stream", "chat", "quiz", "title", "tags", "study"}
  /\ {Chat, Quiz, Notes} \subseteq Kinds
  /\ TransportBound \in BOOLEAN
  /\ Calm \in BOOLEAN

VARIABLES
  ledger, subs,  \* the meter in the database
  wire,          \* quota calls the database has not run yet
  reply,         \* answer to the call each request waits for
  pc,            \* where the handler of each request is
  args,          \* user, endpoint and request id of each request
  usage,         \* the UsageCollector of each request
  outcome        \* what the student got

vars == <<ledger, subs, wire, reply, pc, args, usage, outcome>>

Meter == INSTANCE QuotaMeter

\* The meter an endpoint spends: flashcards the notes one, a mini-quiz the quiz
\* one.
MetersOf(e) ==
  CASE e \in {"stream", "chat"} -> {Chat}
    [] e = "quiz" -> {Quiz}
    [] e = "study" -> {Notes, Quiz}
    [] OTHER -> {Notes}

Args == [endpoint : Endpoints, user : Users, kind : Kinds, req : RequestIds]

NoArgs == [endpoint |-> "none"]

\* UsageCollector; records is abstracted to the set of their statuses.
Collector == [ticket : BOOLEAN, delivered : BOOLEAN, started : BOOLEAN,
              finished : BOOLEAN, force : BOOLEAN, persisted : BOOLEAN,
              records : SUBSET {"success", "error", "interrupted"},
              attempts : 0 .. 2, done : BOOLEAN]

NewCollector ==
  [ticket |-> FALSE, delivered |-> FALSE, started |-> FALSE, finished |-> FALSE,
   force |-> FALSE, persisted |-> FALSE, records |-> {}, attempts |-> 0,
   done |-> FALSE]

Places == {"idle", "consuming", "compensating", "working", "answered",
           "opening", "admission", "generating", "finishing", "closing",
           "settling", "refunding", "ended", "lost"}

Outcomes == {"none", "denied", "unavailable", "error", "not_found", "reply", "left"}

Wire == [req : Requests, op : {"consume", "refund"}, n : 0 .. 2]

Init ==
  /\ Meter!Init
  /\ wire = {}
  /\ reply = [r \in Requests |-> "none"]
  /\ pc = [r \in Requests |-> "idle"]
  /\ args = [r \in Requests |-> NoArgs]
  /\ usage = [r \in Requests |-> NewCollector]
  /\ outcome = [r \in Requests |-> "none"]

TypeOK ==
  /\ ledger \subseteq Row
  /\ subs = {}
  /\ wire \subseteq Wire
  /\ reply \in [Requests -> {"none", "allowed", "denied", "refunded", "not_refunded"}]
  /\ pc \in [Requests -> Places]
  /\ args \in [Requests -> Args \cup {NoArgs}]
  /\ \A r \in Requests : pc[r] # "idle" => args[r] \in Args
  /\ usage \in [Requests -> Collector]
  /\ outcome \in [Requests -> Outcomes]

-----------------------------------------------------------------------------
(* The database *)

CallOf(r) ==
  CASE pc[r] = "consuming" -> {[req |-> r, op |-> "consume", n |-> 0]}
    [] pc[r] = "compensating" -> {[req |-> r, op |-> "refund", n |-> 0]}
    [] pc[r] = "refunding" -> {[req |-> r, op |-> "refund", n |-> usage[r].attempts]}
    [] OTHER -> {}

\* The answer of a call reaches the request only while it waits for that call.
Answer(m, a) ==
  /\ wire' = wire \ {m}
  /\ reply' = IF m \in CallOf(m.req) THEN [reply EXCEPT ![m.req] = a] ELSE reply
  /\ UNCHANGED <<subs, pc, args, usage, outcome>>

RowsOf(r) == {x \in ledger : SameRequest(x, args[r].user, args[r].kind, args[r].req)}

RowFor(r) ==
  [user |-> args[r].user, kind |-> args[r].kind,
   key |-> KeyAt(Limits[<<"free", args[r].kind>>].period, 0),
   req |-> args[r].req, tok |-> r, created |-> 0, refunded |-> FALSE]

\* The plan has a row for the meter and room for one more unit.
HasRoom(r) ==
  LET k == <<"free", args[r].kind>>
  IN  /\ k \in DOMAIN Limits
      /\ Cardinality(Counted(ledger, args[r].user, args[r].kind, RowFor(r).key))
           < LimitAt(Limits[k], args[r].user, 0)

\* consume_quota runs, perhaps long after its caller stopped waiting.
DbConsume(m) ==
  /\ m \in wire /\ m.op = "consume"
  /\ \/ /\ RowsOf(m.req) = {} /\ HasRoom(m.req)
        /\ Meter!Count(RowFor(m.req))
        /\ Answer(m, "allowed")
     \/ /\ RowsOf(m.req) = {} /\ ~HasRoom(m.req)
        /\ Answer(m, "denied")
        /\ UNCHANGED ledger
     \/ /\ \E x \in RowsOf(m.req) : Answer(m, IF x.refunded THEN "denied" ELSE "allowed")
        /\ UNCHANGED ledger

\* refund_quota runs: it flips the standing row with the request's own token.
DbRefund(m) ==
  LET mine == {x \in RowsOf(m.req) : x.tok = m.req /\ ~x.refunded}
  IN  /\ m \in wire /\ m.op = "refund"
      /\ \/ \E x \in mine : Meter!GiveBack(x, m.req) /\ Answer(m, "refunded")
         \/ mine = {} /\ Answer(m, "not_refunded") /\ UNCHANGED ledger

\* A call that never reaches the database.
CallLost(m) ==
  /\ ~Calm
  /\ m \in wire
  /\ wire' = wire \ {m}
  /\ UNCHANGED <<ledger, subs, reply, pc, args, usage, outcome>>

-----------------------------------------------------------------------------
(* enforce_quota *)

Goto(r, place) == pc' = [pc EXCEPT ![r] = place]

\* The response carries a failure or an answer; what is left is settlement.
Respond(r, what) == outcome' = [outcome EXCEPT ![r] = what]

\* The endpoint passed its own checks; it binds the collector and asks the
\* database for one unit.  An unnamed HTTP client raises before anything is sent
\* and, not being QuotaUnavailable, leaves the endpoint as an error 500.
Accept(r, a) ==
  /\ pc[r] = "idle"
  /\ a.kind \in MetersOf(a.endpoint)
  /\ args' = [args EXCEPT ![r] = a]
  /\ \/ /\ TransportBound
        /\ wire' = wire \cup {[req |-> r, op |-> "consume", n |-> 0]}
        /\ Goto(r, "consuming")
        /\ UNCHANGED outcome
     \/ /\ ~TransportBound
        /\ Goto(r, "ended")
        /\ Respond(r, "error")
        /\ UNCHANGED wire
  /\ UNCHANGED <<ledger, subs, reply, usage>>

\* Mutant: the decision is not looked at.
AllowedUnchecked(r) ==
  /\ pc[r] = "consuming"
  /\ reply[r] # "none"
  /\ reply' = [reply EXCEPT ![r] = "none"]
  /\ usage' = [usage EXCEPT ![r].ticket = TRUE]
  /\ Goto(r, "working")
  /\ UNCHANGED <<ledger, subs, wire, args, outcome>>

\* Allowed: the refund ticket is attached to the collector.
Allowed(r) ==
  /\ pc[r] = "consuming"
  /\ reply[r] = "allowed"
  /\ reply' = [reply EXCEPT ![r] = "none"]
  /\ usage' = [usage EXCEPT ![r].ticket = TRUE]
  /\ Goto(r, "working")
  /\ UNCHANGED <<ledger, subs, wire, args, outcome>>

\* Denied: 429 or 403, nothing to settle.
Denied(r) ==
  /\ pc[r] = "consuming"
  /\ reply[r] = "denied"
  /\ reply' = [reply EXCEPT ![r] = "none"]
  /\ Goto(r, "ended")
  /\ Respond(r, "denied")
  /\ UNCHANGED <<ledger, subs, wire, args, usage>>

\* Timeout, network error or unusable answer: one compensating refund.
ConsumeFails(r) ==
  /\ ~Calm
  /\ pc[r] = "consuming"
  /\ reply' = [reply EXCEPT ![r] = "none"]
  /\ wire' = wire \cup {[req |-> r, op |-> "refund", n |-> 0]}
  /\ Goto(r, "compensating")
  /\ UNCHANGED <<ledger, subs, args, usage, outcome>>

\* Whatever became of the refund, the request is refused with 503.
Refuse(r) ==
  /\ pc[r] = "compensating"
  /\ reply[r] # "none" \/ ~Calm
  /\ reply' = [reply EXCEPT ![r] = "none"]
  /\ Goto(r, "ended")
  /\ Respond(r, "unavailable")
  /\ UNCHANGED <<ledger, subs, wire, args, usage>>

-----------------------------------------------------------------------------
(* The endpoints that answer with one JSON body *)

Streams(r) == args[r].endpoint = "stream"

Guarded(r) == args[r].endpoint \in {"quiz", "title", "tags", "study"}

\* What a provider call can leave on record: /api/chat one outcome, the others
\* no interruption, and only the quiz tries again after an error.
ProviderCall(r, status) ==
  /\ pc[r] = "working" /\ ~Streams(r)
  /\ status = "interrupted" => args[r].endpoint = "chat"
  /\ usage' = [usage EXCEPT ![r].records = @ \cup {status}]
  /\ \/ Goto(r, "answered")
     \/ status = "error" /\ args[r].endpoint = "quiz" /\ Goto(r, "working")
  /\ UNCHANGED <<ledger, subs, wire, reply, args, outcome>>

HasText(r) ==
  IF args[r].endpoint = "chat"
  THEN usage[r].records \cap {"success", "interrupted"} # {}
  ELSE "success" \in usage[r].records

\* The body carries generated text.
Deliver(r) ==
  /\ pc[r] = "answered"
  /\ HasText(r)
  /\ usage' = [usage EXCEPT ![r].delivered = TRUE]
  /\ Goto(r, "settling")
  /\ Respond(r, "reply")
  /\ UNCHANGED <<ledger, subs, wire, reply, args>>

\* The body carries none: /api/chat answers with a canned message, the quiz with
\* an empty list and the unit handed back, a title with null.  A quiz or a
\* title may be unusable although the provider answered, and a quiz call that
\* raises something other than ProviderError leaves no record.
DeliverNothing(r) ==
  /\ pc[r] = "answered" \/ (pc[r] = "working" /\ args[r].endpoint = "quiz")
  /\ args[r].endpoint \in {"chat", "quiz", "title"}
  /\ args[r].endpoint = "chat" => ~HasText(r)
  /\ usage' = [usage EXCEPT ![r].force = args[r].endpoint = "quiz"]
  /\ Goto(r, "settling")
  /\ Respond(r, "reply")
  /\ UNCHANGED <<ledger, subs, wire, reply, args>>

\* An exception in /api/chat becomes a canned answer and a forced refund.
ChatRaises(r) ==
  /\ pc[r] \in {"working", "answered"}
  /\ args[r].endpoint = "chat"
  /\ usage' = [usage EXCEPT ![r].force = TRUE]
  /\ Goto(r, "settling")
  /\ Respond(r, "reply")
  /\ UNCHANGED <<ledger, subs, wire, reply, args>>

\* settle_on_exception: the unit is settled before the error leaves.  In the
\* stream it guards the profile lookups, elsewhere the provider call too.
GuardedRaises(r) ==
  /\ pc[r] \in {"working", "answered"}
  /\ Streams(r) \/ Guarded(r)
  /\ usage' = [usage EXCEPT ![r].force = TRUE]
  /\ Goto(r, "settling")
  /\ Respond(r, "error")
  /\ UNCHANGED <<ledger, subs, wire, reply, args>>

\* Study material whose note was deleted meanwhile: 404, raised after the guard
\* and before the background task is attached to a response.
NoteGone(r) ==
  /\ pc[r] = "answered"
  /\ args[r].endpoint = "study"
  /\ HasText(r)
  /\ Goto(r, "ended")
  /\ Respond(r, "not_found")
  /\ UNCHANGED <<ledger, subs, wire, reply, args, usage>>

-----------------------------------------------------------------------------
(* The stream *)

\* The profile is read and the StreamingResponse handed to the server.
StreamReady(r) ==
  /\ pc[r] = "working" /\ Streams(r)
  /\ Goto(r, "opening")
  /\ UNCHANGED <<ledger, subs, wire, reply, args, usage, outcome>>

\* The server starts the generator.
StreamBegins(r) ==
  /\ pc[r] = "opening"
  /\ usage' = [usage EXCEPT ![r].started = TRUE]
  /\ Goto(r, "admission")
  /\ UNCHANGED <<ledger, subs, wire, reply, args, outcome>>

Admitted(r) ==
  /\ pc[r] = "admission"
  /\ Goto(r, "generating")
  /\ UNCHANGED <<ledger, subs, wire, reply, args, usage, outcome>>

\* The collector as the generator leaves it just before a terminal event.
Finished(r, forced) ==
  [usage[r] EXCEPT !.finished = TRUE, !.force = @ \/ forced]

\* Mutant: the endpoint forgets to give the unit of a refused generation back.
NotAdmittedUnforced(r) ==
  /\ pc[r] = "admission"
  /\ usage' = [usage EXCEPT ![r] = Finished(r, FALSE)]
  /\ Goto(r, "closing")
  /\ UNCHANGED <<ledger, subs, wire, reply, args, outcome>>

\* Overloaded: a terminal error, and the unit is given back.
NotAdmitted(r) ==
  /\ pc[r] = "admission"
  /\ usage' = [usage EXCEPT ![r] = Finished(r, TRUE)]
  /\ Goto(r, "closing")
  /\ UNCHANGED <<ledger, subs, wire, reply, args, outcome>>

\* A piece of text: marked before it is handed to the response.
TextChunk(r) ==
  /\ pc[r] = "generating"
  /\ usage' = [usage EXCEPT ![r].delivered = TRUE]
  /\ UNCHANGED <<ledger, subs, wire, reply, pc, args, outcome>>

\* The engine discards a partial answer and starts over.
Recovery(r) ==
  /\ pc[r] = "generating"
  /\ usage[r].delivered
  /\ usage' = [usage EXCEPT ![r].records = @ \cup {"interrupted"}]
  /\ UNCHANGED <<ledger, subs, wire, reply, pc, args, outcome>>

\* The engine, in its thread, ends with an answer, a partial answer or an error
\* and records it; the first two follow text of their own generation.
EngineEnds(r, status) ==
  /\ pc[r] = "generating"
  /\ status # "error" => usage[r].delivered
  /\ usage' = [usage EXCEPT ![r].records = @ \cup {status}]
  /\ Goto(r, "finishing")
  /\ UNCHANGED <<ledger, subs, wire, reply, args, outcome>>

\* The endpoint takes the engine's last chunk.
StreamFinished(r) ==
  /\ pc[r] = "finishing"
  /\ usage' = [usage EXCEPT ![r] = Finished(r, FALSE)]
  /\ Goto(r, "closing")
  /\ UNCHANGED <<ledger, subs, wire, reply, args, outcome>>

\* The generator fails without a terminal event, or yields none.
EngineRaises(r) ==
  /\ pc[r] = "generating"
  /\ usage' = [usage EXCEPT ![r] = Finished(r, TRUE)]
  /\ Goto(r, "closing")
  /\ UNCHANGED <<ledger, subs, wire, reply, args, outcome>>

\* The terminal event is sent and the response ends; its background task runs.
StreamEnds(r) ==
  /\ pc[r] = "closing"
  /\ Respond(r, "reply")
  /\ Goto(r, "settling")
  /\ UNCHANGED <<ledger, subs, wire, reply, args, usage>>

\* The student closes the tab or presses Stop.  Whether the server still runs
\* the background task of an aborted response depends on its version.
StudentLeaves(r) ==
  /\ ~Calm
  /\ pc[r] \in {"opening", "admission", "generating", "finishing", "closing"}
  /\ Respond(r, "left")
  /\ Goto(r, "settling") \/ Goto(r, "ended")
  /\ UNCHANGED <<ledger, subs, wire, reply, args, usage>>

-----------------------------------------------------------------------------
(* settle_request *)

\* Mutant: a failure after the first words is refunded.
RefundDueAfterText(c) ==
  /\ c.ticket
  /\ ~(c.started /\ ~c.finished)
  /\ \/ c.force
     \/ "success" \notin c.records /\ c.records # {}

\* Mutant: an abandoned stream is judged by its records.
RefundDueAbandoned(c) ==
  /\ c.ticket
  /\ ~c.delivered
  /\ \/ c.force
     \/ "success" \notin c.records /\ c.records # {}

\* UsageCollector.refund_due, in its order.
RefundDue(c) ==
  /\ c.ticket
  /\ ~c.delivered
  /\ ~(c.started /\ ~c.finished)
  /\ \/ c.force
     \/ "success" \notin c.records /\ c.records # {}

\* The usage rows are written once and the refund, if due, is asked for.
Settle(r) ==
  LET due == ~usage[r].done /\ usage[r].attempts < 2 /\ RefundDue(usage[r])
      attempt == usage[r].attempts + 1
  IN  /\ pc[r] = "settling"
      /\ usage' = [usage EXCEPT ![r].persisted = TRUE,
                                ![r].attempts = IF due THEN attempt ELSE @]
      /\ wire' = IF due THEN wire \cup {[req |-> r, op |-> "refund", n |-> attempt]}
                        ELSE wire
      /\ Goto(r, IF due THEN "refunding" ELSE "ended")
      /\ UNCHANGED <<ledger, subs, reply, args, outcome>>

\* refund_quota answers, or fails and answers False.
Settled(r) ==
  /\ pc[r] = "refunding"
  /\ reply[r] # "none" \/ ~Calm
  /\ usage' = [usage EXCEPT ![r].done = reply[r] = "refunded"]
  /\ reply' = [reply EXCEPT ![r] = "none"]
  /\ Goto(r, "ended")
  /\ UNCHANGED <<ledger, subs, wire, args, outcome>>

\* The server stops: collectors and tickets live only in its memory.
Restart ==
  /\ ~Calm
  /\ \E r \in Requests : pc[r] \notin {"idle", "ended", "lost"}
  /\ pc' = [r \in Requests |-> IF pc[r] \in {"idle", "ended"} THEN pc[r] ELSE "lost"]
  /\ reply' = [r \in Requests |-> "none"]
  /\ UNCHANGED <<ledger, subs, wire, args, usage, outcome>>

Work(r) ==
  \/ Allowed(r) \/ Denied(r) \/ ConsumeFails(r) \/ Refuse(r)
  \/ \E status \in {"success", "error", "interrupted"} :
       ProviderCall(r, status) \/ EngineEnds(r, status)
  \/ Deliver(r) \/ DeliverNothing(r) \/ ChatRaises(r) \/ GuardedRaises(r) \/ NoteGone(r)
  \/ StreamReady(r) \/ StreamBegins(r) \/ Admitted(r) \/ NotAdmitted(r)
  \/ EngineRaises(r) \/ StreamFinished(r) \/ StreamEnds(r)
  \/ Settle(r) \/ Settled(r)

Database == \E m \in wire : DbConsume(m) \/ DbRefund(m)

Next ==
  \/ \E r \in Requests :
       \/ \E a \in Args : Accept(r, a)
       \/ Work(r)
       \/ TextChunk(r) \/ Recovery(r)
       \/ StudentLeaves(r)
  \/ Database
  \/ \E m \in wire : CallLost(m)
  \/ Restart

SafeSpec == Init /\ [][Next]_vars

-----------------------------------------------------------------------------
(* Properties *)

Own(r) == {x \in ledger : x.tok = r}

\* Decision A: a request that delivered text is never refunded, before or after,
\* by settlement, by a compensating refund or by a call that runs late.
DeliveredIsFinal ==
  \A r \in Requests : usage[r].delivered => \A x \in Own(r) : ~x.refunded

\* A student who leaves before a terminal event keeps the charge, even before
\* the first word: nobody cancels for free credits.
AbandonedIsKept ==
  \A r \in Requests :
    (usage[r].started /\ ~usage[r].finished) => \A x \in Own(r) : ~x.refunded

\* The provider works only for a request id the ledger has counted.
NeverUnmetered ==
  \A r \in Requests :
    (usage[r].records # {} \/ usage[r].delivered) => RowsOf(r) # {}

\* While request ids do not collide, the requests that delivered text in a period
\* are within the student's limit, whatever was lost, late or given back.
TextWithinLimit ==
  (\A r, q \in Requests : (args[r] # NoArgs /\ args[q] # NoArgs /\ r # q) =>
                            args[r].req # args[q].req) =>
    \A u \in Users, k \in DOMAIN Limits :
      LET fed == {r \in Requests : /\ usage[r].delivered
                                   /\ args[r].user = u
                                   /\ args[r].kind = k[2]}
      IN  k[1] = "free" => Cardinality(fed) <= LimitAt(Limits[k], u, 0)

\* An answer without text that nothing disturbed costs nothing: the unit was
\* given back when the request is over.
NothingUsableIsRefunded ==
  \A r \in Requests :
    (Calm /\ pc[r] = "ended" /\ ~usage[r].delivered) => \A x \in Own(r) : x.refunded

\* A request refused because the quota could not be checked gets the safe 503:
\* an error 500 comes only from work that was already metered.
FailsClosed ==
  \A r \in Requests : outcome[r] = "error" => usage[r].ticket
=============================================================================
