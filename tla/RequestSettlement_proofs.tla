------------------------ MODULE RequestSettlement_proofs ------------------------
(***************************************************************************)
(* The settlement of metered requests, for any number of them, any endpoints  *)
(* and any plans: a refund call is sent only for a request that is closed, so  *)
(* no delivered or abandoned work is given back, however late a call runs.    *)
(***************************************************************************)
EXTENDS RequestSettlement, FiniteSetTheorems, TLAPS

\* Past its quota call, with the ticket in the collector.
AtWork == {"working", "answered", "opening", "admission", "generating",
           "finishing", "closing", "settling", "refunding"}

\* Nothing was delivered or abandoned, and nothing more will be.
Closed(r) ==
  /\ pc[r] \in {"compensating", "refunding", "ended", "lost"}
  /\ ~usage[r].delivered
  /\ ~(usage[r].started /\ ~usage[r].finished)

\* The collector is new until the quota call is answered.
Early(r) ==
  pc[r] \in {"idle", "consuming", "compensating"} => usage[r] = NewCollector

\* A ticket, and everything done with it, follows a row of the ledger.
Ticketed(r) ==
  /\ usage[r].ticket => RowsOf(r) # {}
  /\ reply[r] = "allowed" => pc[r] = "consuming" /\ RowsOf(r) # {}
  /\ pc[r] \in AtWork => usage[r].ticket
  /\ (usage[r].records # {} \/ usage[r].delivered) => usage[r].ticket

RequestsInv == \A r \in Requests : Early(r) /\ Ticketed(r)

\* Refunds, on their way or done, belong to closed requests.
RefundsInv ==
  /\ \A m \in wire : m.op = "refund" => Closed(m.req)
  /\ \A x \in ledger : x.refunded => x.tok \in Requests /\ Closed(x.tok)

SettlementInv == TypeOK /\ RequestsInv /\ RefundsInv

-----------------------------------------------------------------------------
(* Types *)

LEMMA NewCollectorType == NewCollector \in Collector
BY DEF NewCollector, Collector

\* A handler's step that changes only its own place, answer and collector.
LEMMA HandlerTypes ==
  ASSUME TypeOK, NEW r \in Requests, NEW place \in Places \ {"idle"}, Goto(r, place),
         pc[r] # "idle",
         usage' \in [Requests -> Collector],
         reply' \in [Requests -> {"none", "allowed", "denied", "refunded", "not_refunded"}],
         outcome' \in [Requests -> Outcomes],
         wire' \subseteq Wire, UNCHANGED <<ledger, subs, args>>
  PROVE  TypeOK'
<1>1. pc' \in [Requests -> Places]
  BY DEF TypeOK, Goto
<1>2. \A q \in Requests : pc'[q] # "idle" => args'[q] \in Args
  BY DEF TypeOK, Goto
<1> QED
  BY <1>1, <1>2 DEF TypeOK

LEMMA UsageTypes ==
  ASSUME TypeOK, NEW r \in Requests
  PROVE  /\ usage[r] \in Collector
         /\ [usage EXCEPT ![r].ticket = TRUE] \in [Requests -> Collector]
         /\ [usage EXCEPT ![r].delivered = TRUE] \in [Requests -> Collector]
         /\ [usage EXCEPT ![r].started = TRUE] \in [Requests -> Collector]
         /\ \A b \in BOOLEAN : /\ [usage EXCEPT ![r].force = b] \in [Requests -> Collector]
                               /\ [usage EXCEPT ![r].done = b] \in [Requests -> Collector]
                               /\ [usage EXCEPT ![r] = Finished(r, b)] \in [Requests -> Collector]
         /\ \A s \in {"success", "error", "interrupted"} :
              [usage EXCEPT ![r].records = @ \cup {s}] \in [Requests -> Collector]
<1>1. usage[r] \in Collector
  BY DEF TypeOK
<1>2. ASSUME NEW c \in Collector PROVE [usage EXCEPT ![r] = c] \in [Requests -> Collector]
  BY DEF TypeOK
<1>3. /\ [usage[r] EXCEPT !.ticket = TRUE] \in Collector
      /\ [usage[r] EXCEPT !.delivered = TRUE] \in Collector
      /\ [usage[r] EXCEPT !.started = TRUE] \in Collector
  BY <1>1 DEF Collector
<1>4. ASSUME NEW b \in BOOLEAN
      PROVE  /\ [usage[r] EXCEPT !.force = b] \in Collector
             /\ [usage[r] EXCEPT !.done = b] \in Collector
             /\ Finished(r, b) \in Collector
  BY <1>1 DEF Collector, Finished
<1>5. ASSUME NEW s \in {"success", "error", "interrupted"}
      PROVE  [usage[r] EXCEPT !.records = @ \cup {s}] \in Collector
  BY <1>1 DEF Collector
<1> QED
  BY <1>1, <1>2, <1>3, <1>4, <1>5

LEMMA SilentTypes ==
  ASSUME TypeOK, NEW r \in Requests
  PROVE  [reply EXCEPT ![r] = "none"] \in
           [Requests -> {"none", "allowed", "denied", "refunded", "not_refunded"}]
BY DEF TypeOK

LEMMA SettleTypes == \A r \in Requests : TypeOK /\ Settle(r) => TypeOK'
<1> SUFFICES ASSUME TypeOK, NEW r \in Requests, Settle(r) PROVE TypeOK'
  OBVIOUS
<1> DEFINE due == ~usage[r].done /\ usage[r].attempts < 2 /\ RefundDue(usage[r])
<1>1. usage[r] \in Collector
  BY DEF TypeOK
<1>2. CASE due
  <2>1. usage[r].attempts + 1 \in 0 .. 2
    BY <1>1, <1>2 DEF Collector
  <2>2. usage' = [usage EXCEPT ![r].persisted = TRUE, ![r].attempts = usage[r].attempts + 1]
    BY <1>2 DEF Settle, TypeOK
  <2>3. usage' \in [Requests -> Collector]
    BY <1>1, <2>1, <2>2 DEF TypeOK, Collector
  <2>4. wire' = wire \cup {[req |-> r, op |-> "refund", n |-> usage[r].attempts + 1]}
    BY <1>2 DEF Settle
  <2>5. wire' \subseteq Wire
    BY <2>1, <2>4 DEF TypeOK, Wire
  <2> QED
    BY <1>2, <2>3, <2>5, HandlerTypes DEF TypeOK, Settle, Places
<1>3. CASE ~due
  <2>1. usage' = [usage EXCEPT ![r].persisted = TRUE, ![r].attempts = usage[r].attempts]
    BY <1>3 DEF Settle, TypeOK
  <2>2. usage' \in [Requests -> Collector]
    BY <1>1, <2>1 DEF TypeOK, Collector
  <2> QED
    BY <1>3, <2>2, HandlerTypes DEF TypeOK, Settle, Places
<1> QED
  BY <1>2, <1>3

LEMMA WorkTypes ==
  ASSUME TypeOK, NEW r \in Requests, Work(r) \/ TextChunk(r) \/ Recovery(r) \/ StudentLeaves(r)
  PROVE  TypeOK'
<1>1. ASSUME Allowed(r) PROVE TypeOK'
  <2>1. usage' = [usage EXCEPT ![r].ticket = TRUE]
    BY <1>1 DEF Allowed
  <2>2. usage' \in [Requests -> Collector]
    BY <2>1, UsageTypes
  <2> QED
    BY <1>1, <2>2, SilentTypes, HandlerTypes DEF TypeOK, Allowed, Places
<1>2. ASSUME Denied(r) PROVE TypeOK'
  <2>1. outcome' \in [Requests -> Outcomes]
    BY <1>2 DEF TypeOK, Denied, Respond, Outcomes
  <2> QED
    BY <1>2, <2>1, SilentTypes, HandlerTypes DEF TypeOK, Denied, Places
<1>3. ASSUME ConsumeFails(r) PROVE TypeOK'
  <2>1. wire' \subseteq Wire
    BY <1>3 DEF TypeOK, ConsumeFails, Wire
  <2> QED
    BY <1>3, <2>1, SilentTypes, HandlerTypes DEF TypeOK, ConsumeFails, Places
<1>4. ASSUME Refuse(r) PROVE TypeOK'
  <2>1. outcome' \in [Requests -> Outcomes]
    BY <1>4 DEF TypeOK, Refuse, Respond, Outcomes
  <2> QED
    BY <1>4, <2>1, SilentTypes, HandlerTypes DEF TypeOK, Refuse, Places
<1>5. ASSUME NEW status \in {"success", "error", "interrupted"}, ProviderCall(r, status)
      PROVE  TypeOK'
  <2>1. usage' = [usage EXCEPT ![r].records = @ \cup {status}]
    BY <1>5 DEF ProviderCall
  <2>2. usage' \in [Requests -> Collector]
    BY <2>1, UsageTypes
  <2> QED
    BY <1>5, <2>2, HandlerTypes DEF TypeOK, ProviderCall, Places
<1>6. ASSUME NEW status \in {"success", "error", "interrupted"}, EngineEnds(r, status)
      PROVE  TypeOK'
  <2>1. usage' = [usage EXCEPT ![r].records = @ \cup {status}]
    BY <1>6 DEF EngineEnds
  <2>2. usage' \in [Requests -> Collector]
    BY <2>1, UsageTypes
  <2> QED
    BY <1>6, <2>2, HandlerTypes DEF TypeOK, EngineEnds, Places
<1>7. ASSUME Deliver(r) PROVE TypeOK'
  <2>1. usage' = [usage EXCEPT ![r].delivered = TRUE]
    BY <1>7 DEF Deliver
  <2>2. usage' \in [Requests -> Collector]
    BY <2>1, UsageTypes
  <2>3. outcome' \in [Requests -> Outcomes]
    BY <1>7 DEF TypeOK, Deliver, Respond, Outcomes
  <2> QED
    BY <1>7, <2>2, <2>3, HandlerTypes DEF TypeOK, Deliver, Places
<1>8. ASSUME DeliverNothing(r) PROVE TypeOK'
  <2>1. PICK b \in BOOLEAN : usage' = [usage EXCEPT ![r].force = b]
    BY <1>8 DEF DeliverNothing
  <2>2. usage' \in [Requests -> Collector]
    BY <2>1, UsageTypes
  <2>3. outcome' \in [Requests -> Outcomes]
    BY <1>8 DEF TypeOK, DeliverNothing, Respond, Outcomes
  <2> QED
    BY <1>8, <2>2, <2>3, HandlerTypes DEF TypeOK, DeliverNothing, Places
<1>9. ASSUME ChatRaises(r) PROVE TypeOK'
  <2>1. PICK b \in BOOLEAN : usage' = [usage EXCEPT ![r].force = b]
    BY <1>9 DEF ChatRaises
  <2>2. usage' \in [Requests -> Collector]
    BY <2>1, UsageTypes
  <2>3. outcome' \in [Requests -> Outcomes]
    BY <1>9 DEF TypeOK, ChatRaises, Respond, Outcomes
  <2> QED
    BY <1>9, <2>2, <2>3, HandlerTypes DEF TypeOK, ChatRaises, Places
<1>10. ASSUME GuardedRaises(r) PROVE TypeOK'
  <2>1. PICK b \in BOOLEAN : usage' = [usage EXCEPT ![r].force = b]
    BY <1>10 DEF GuardedRaises
  <2>2. usage' \in [Requests -> Collector]
    BY <2>1, UsageTypes
  <2>3. outcome' \in [Requests -> Outcomes]
    BY <1>10 DEF TypeOK, GuardedRaises, Respond, Outcomes
  <2> QED
    BY <1>10, <2>2, <2>3, HandlerTypes DEF TypeOK, GuardedRaises, Places
<1>11. ASSUME NoteGone(r) PROVE TypeOK'
  <2>1. outcome' \in [Requests -> Outcomes]
    BY <1>11 DEF TypeOK, NoteGone, Respond, Outcomes
  <2> QED
    BY <1>11, <2>1, HandlerTypes DEF TypeOK, NoteGone, Places
<1>12. ASSUME StreamReady(r) PROVE TypeOK'
  <2> QED
    BY <1>12, HandlerTypes DEF TypeOK, StreamReady, Places
<1>13. ASSUME StreamBegins(r) PROVE TypeOK'
  <2>1. usage' = [usage EXCEPT ![r].started = TRUE]
    BY <1>13 DEF StreamBegins
  <2>2. usage' \in [Requests -> Collector]
    BY <2>1, UsageTypes
  <2> QED
    BY <1>13, <2>2, HandlerTypes DEF TypeOK, StreamBegins, Places
<1>14. ASSUME NotAdmitted(r) PROVE TypeOK'
  <2>1. PICK b \in BOOLEAN : usage' = [usage EXCEPT ![r] = Finished(r, b)]
    BY <1>14 DEF NotAdmitted
  <2>2. usage' \in [Requests -> Collector]
    BY <2>1, UsageTypes
  <2> QED
    BY <1>14, <2>2, HandlerTypes DEF TypeOK, NotAdmitted, Places
<1>15. ASSUME EngineRaises(r) PROVE TypeOK'
  <2>1. PICK b \in BOOLEAN : usage' = [usage EXCEPT ![r] = Finished(r, b)]
    BY <1>15 DEF EngineRaises
  <2>2. usage' \in [Requests -> Collector]
    BY <2>1, UsageTypes
  <2> QED
    BY <1>15, <2>2, HandlerTypes DEF TypeOK, EngineRaises, Places
<1>16. ASSUME StreamFinished(r) PROVE TypeOK'
  <2>1. PICK b \in BOOLEAN : usage' = [usage EXCEPT ![r] = Finished(r, b)]
    BY <1>16 DEF StreamFinished
  <2>2. usage' \in [Requests -> Collector]
    BY <2>1, UsageTypes
  <2> QED
    BY <1>16, <2>2, HandlerTypes DEF TypeOK, StreamFinished, Places
<1>17. ASSUME StreamEnds(r) PROVE TypeOK'
  <2>1. outcome' \in [Requests -> Outcomes]
    BY <1>17 DEF TypeOK, StreamEnds, Respond, Outcomes
  <2> QED
    BY <1>17, <2>1, HandlerTypes DEF TypeOK, StreamEnds, Places
<1>18. ASSUME Settled(r) PROVE TypeOK'
  <2>1. PICK b \in BOOLEAN : usage' = [usage EXCEPT ![r].done = b]
    BY <1>18 DEF Settled
  <2>2. usage' \in [Requests -> Collector]
    BY <2>1, UsageTypes
  <2> QED
    BY <1>18, <2>2, SilentTypes, HandlerTypes DEF TypeOK, Settled, Places
<1>19. ASSUME Admitted(r) PROVE TypeOK'
  <2> QED
    BY <1>19, HandlerTypes DEF TypeOK, Admitted, Places
<1>20. ASSUME StudentLeaves(r) PROVE TypeOK'
  <2>1. outcome' \in [Requests -> Outcomes]
    BY <1>20 DEF TypeOK, StudentLeaves, Respond, Outcomes
  <2> QED
    BY <1>20, <2>1, HandlerTypes DEF TypeOK, StudentLeaves, Places
<1>21. ASSUME TextChunk(r) PROVE TypeOK'
  BY <1>21, UsageTypes DEF TypeOK, TextChunk
<1>22. ASSUME Recovery(r) PROVE TypeOK'
  <2>1. usage' \in [Requests -> Collector]
    BY <1>22, UsageTypes DEF Recovery
  <2> QED
    BY <1>22, <2>1 DEF TypeOK, Recovery
<1> QED
  BY <1>1, <1>2, <1>3, <1>4, <1>5, <1>6, <1>7, <1>8, <1>9, <1>10, <1>11,
     <1>12, <1>13, <1>14, <1>15, <1>16, <1>17, <1>18, <1>19, <1>20, <1>21, <1>22, SettleTypes DEF Work

LEMMA AcceptTypes ==
  ASSUME TypeOK, NEW r \in Requests, NEW a \in Args, Accept(r, a)
  PROVE  TypeOK'
<1>1. wire' \subseteq Wire
  BY DEF TypeOK, Accept, Wire
<1>2. pc' \in [Requests -> Places] /\ outcome' \in [Requests -> Outcomes]
  BY DEF TypeOK, Accept, Goto, Respond, Places, Outcomes
<1>3. args' \in [Requests -> Args \cup {NoArgs}] /\ args'[r] = a
  BY DEF TypeOK, Accept
<1>4. \A q \in Requests : pc'[q] # "idle" => args'[q] \in Args
  BY <1>3 DEF TypeOK, Accept, Goto
<1> QED
  BY <1>1, <1>2, <1>3, <1>4 DEF TypeOK, Accept

LEMMA AnswerTypes ==
  ASSUME TypeOK, NEW m \in wire, NEW a \in {"allowed", "denied", "refunded", "not_refunded"},
         Answer(m, a), ledger' \subseteq Row
  PROVE  TypeOK'
BY DEF TypeOK, Answer, Wire

LEMMA DatabaseTypes ==
  ASSUME TypeOK, NEW m \in wire, DbConsume(m) \/ DbRefund(m)
  PROVE  TypeOK'
<1>0. Meter!Row = Row
  BY DEF Meter!Row, Row, Meter!Keys, Keys, Meter!Periods, Periods
<1>1. ASSUME NEW r, Meter!Count(RowFor(r)) PROVE ledger' \subseteq Row
  BY <1>0, <1>1 DEF TypeOK, Meter!Count
<1>2. ASSUME NEW x, NEW r, Meter!GiveBack(x, r) PROVE ledger' \subseteq Row
  <2>1. x \in Row /\ [x EXCEPT !.refunded = TRUE] \in Row
    BY <1>2 DEF TypeOK, Meter!GiveBack, Row
  <2> QED
    BY <1>2, <2>1 DEF TypeOK, Meter!GiveBack
<1>3. CASE DbConsume(m)
  BY <1>1, <1>3, AnswerTypes DEF TypeOK, DbConsume
<1>4. CASE DbRefund(m)
  BY <1>2, <1>4, AnswerTypes DEF TypeOK, DbRefund
<1> QED
  BY <1>3, <1>4

LEMMA StepKeepsTypes == TypeOK /\ [Next]_vars => TypeOK'
<1> SUFFICES ASSUME TypeOK, [Next]_vars PROVE TypeOK'
  OBVIOUS
<1>1. ASSUME NEW m \in wire, CallLost(m) PROVE TypeOK'
  BY <1>1 DEF TypeOK, CallLost
<1>2. ASSUME Restart PROVE TypeOK'
  BY <1>2 DEF TypeOK, Restart, Places
<1>3. CASE UNCHANGED vars
  BY <1>3 DEF TypeOK, vars
<1> QED
  BY <1>1, <1>2, <1>3, WorkTypes, AcceptTypes, DatabaseTypes DEF Next, Database

-----------------------------------------------------------------------------
(* Tickets and refunds *)

\* What a step of request r leaves of the others.
Others(r) ==
  \A q \in Requests \ {r} : pc'[q] = pc[q] /\ usage'[q] = usage[q] /\ reply'[q] = reply[q]

LEMMA RequestStep ==
  ASSUME TypeOK, RequestsInv, RefundsInv, NEW r \in Requests, Others(r),
         UNCHANGED <<ledger, args>>,
         \A m \in wire' \ wire : m.op = "refund" => m.req = r /\ Closed(r)',
         Closed(r) => Closed(r)',
         Early(r)', Ticketed(r)'
  PROVE  RequestsInv' /\ RefundsInv'
<1>1. ASSUME NEW q \in Requests PROVE Closed(q) => Closed(q)'
  BY DEF Others, Closed
<1>2. ASSUME NEW q \in Requests PROVE Early(q)' /\ Ticketed(q)'
  BY DEF RequestsInv, Others, Early, Ticketed, RowsOf
<1>3. \A m \in wire : m.req \in Requests
  BY DEF TypeOK, Wire
<1>4. RefundsInv'
  BY <1>1, <1>3 DEF RefundsInv
<1> QED
  BY <1>2, <1>4 DEF RequestsInv

\* The step of a handler at work: the ticket stays, no call is sent.
LEMMA WorkingStep ==
  ASSUME TypeOK, RequestsInv, RefundsInv, NEW r \in Requests,
         pc[r] \in AtWork \ {"refunding"}, NEW place \in AtWork \cup {"ended"},
         Goto(r, place),
         \A q \in Requests \ {r} : usage'[q] = usage[q],
         usage'[r].ticket = usage[r].ticket,
         UNCHANGED <<ledger, wire, reply, args>>
  PROVE  RequestsInv' /\ RefundsInv'
<1>1. pc'[r] = place /\ \A q \in Requests \ {r} : pc'[q] = pc[q]
  BY DEF TypeOK, Goto
<1>2. Others(r)
  BY <1>1 DEF Others
<1>3. ~Closed(r)
  BY DEF Closed, AtWork
<1>4. Early(r)'
  BY <1>1 DEF Early, AtWork
<1>5. usage[r].ticket /\ reply[r] # "allowed" /\ RowsOf(r) # {}
  BY DEF RequestsInv, Ticketed, AtWork
<1>6. Ticketed(r)'
  BY <1>5 DEF Ticketed, RowsOf
<1> QED
  BY <1>2, <1>3, <1>4, <1>6, RequestStep

LEMMA AllowedStep ==
  ASSUME TypeOK, RequestsInv, RefundsInv, NEW r \in Requests, Allowed(r)
  PROVE  RequestsInv' /\ RefundsInv'
<1>1. /\ pc'[r] = "working" /\ reply'[r] = "none" /\ Others(r)
      /\ usage'[r].ticket
  <2>1. usage[r] \in Collector
    BY DEF TypeOK
  <2>2. usage'[r] = [usage[r] EXCEPT !.ticket = TRUE]
    BY DEF TypeOK, Allowed
  <2>3. usage'[r].ticket
    BY <2>1, <2>2 DEF Collector
  <2> QED
    BY <2>3 DEF TypeOK, Allowed, Goto, Others
<1>2. RowsOf(r) # {} /\ ~Closed(r)
  BY DEF RequestsInv, Ticketed, Allowed, Closed
<1>3. Early(r)' /\ Ticketed(r)'
  BY <1>1, <1>2 DEF Allowed, Early, Ticketed, RowsOf
<1> QED
  BY <1>1, <1>2, <1>3, RequestStep DEF Allowed

LEMMA DeniedStep ==
  ASSUME TypeOK, RequestsInv, RefundsInv, NEW r \in Requests, Denied(r)
  PROVE  RequestsInv' /\ RefundsInv'
<1>1. pc'[r] = "ended" /\ reply'[r] = "none" /\ Others(r) /\ usage' = usage
  BY DEF TypeOK, Denied, Goto, Others
<1>2. ~Closed(r) /\ Early(r)' /\ Ticketed(r)'
  BY <1>1 DEF RequestsInv, Denied, Closed, Early, Ticketed, RowsOf, AtWork
<1> QED
  BY <1>1, <1>2, RequestStep DEF Denied

\* The compensating refund belongs to a request that did nothing and will not.
LEMMA ConsumeFailsStep ==
  ASSUME TypeOK, RequestsInv, RefundsInv, NEW r \in Requests, ConsumeFails(r)
  PROVE  RequestsInv' /\ RefundsInv'
<1>1. /\ pc'[r] = "compensating" /\ reply'[r] = "none" /\ Others(r)
      /\ usage' = usage /\ usage[r] = NewCollector
  BY DEF TypeOK, RequestsInv, Early, ConsumeFails, Goto, Others
<1>2. Closed(r)' /\ Early(r)' /\ Ticketed(r)'
  BY <1>1 DEF NewCollector, ConsumeFails, Closed, Early, Ticketed, AtWork
<1>3. \A m \in wire' \ wire : m.req = r
  BY DEF ConsumeFails
<1> QED
  BY <1>1, <1>2, <1>3, RequestStep DEF ConsumeFails

LEMMA RefuseStep ==
  ASSUME TypeOK, RequestsInv, RefundsInv, NEW r \in Requests, Refuse(r)
  PROVE  RequestsInv' /\ RefundsInv'
<1>1. /\ pc'[r] = "ended" /\ reply'[r] = "none" /\ Others(r)
      /\ usage' = usage
  BY DEF TypeOK, Refuse, Goto, Others
<1>2. (Closed(r) => Closed(r)') /\ Early(r)' /\ Ticketed(r)'
  BY <1>1 DEF RequestsInv, Refuse, Closed, Early, Ticketed, RowsOf, AtWork
<1> QED
  BY <1>1, <1>2, RequestStep DEF Refuse

\* A refund is due only where nothing was delivered and nothing abandoned.
LEMMA SettleStep ==
  ASSUME TypeOK, RequestsInv, RefundsInv, NEW r \in Requests, Settle(r)
  PROVE  RequestsInv' /\ RefundsInv'
<1> DEFINE due == ~usage[r].done /\ usage[r].attempts < 2 /\ RefundDue(usage[r])
<1>0. usage[r] \in Collector
  BY DEF TypeOK
<1>1. /\ pc'[r] = IF due THEN "refunding" ELSE "ended"
      /\ \A q \in Requests \ {r} : pc'[q] = pc[q] /\ usage'[q] = usage[q]
  BY DEF TypeOK, Settle, Goto
<1>2. PICK n : usage' = [usage EXCEPT ![r].persisted = TRUE, ![r].attempts = n]
  <2>1. CASE due
    BY <2>1 DEF Settle
  <2>2. CASE ~due
    <3>1. usage' = [usage EXCEPT ![r].persisted = TRUE, ![r].attempts = usage[r].attempts]
      BY <1>0, <2>2 DEF TypeOK, Settle, Collector
    <3> QED
      BY <3>1
  <2> QED
    BY <2>1, <2>2
<1>3. /\ usage'[r].ticket = usage[r].ticket
      /\ usage'[r].delivered = usage[r].delivered
      /\ usage'[r].started = usage[r].started
      /\ usage'[r].finished = usage[r].finished
  BY <1>0, <1>2 DEF TypeOK, Collector
<1>4. usage[r].ticket /\ reply[r] # "allowed" /\ RowsOf(r) # {} /\ ~Closed(r)
  BY DEF RequestsInv, Settle, Ticketed, Closed, AtWork
<1>5. Early(r)' /\ Ticketed(r)'
  BY <1>1, <1>3, <1>4 DEF Settle, Early, Ticketed, RowsOf, AtWork
<1>6. \A m \in wire' \ wire : m.req = r /\ due
  BY DEF Settle
<1>7. due => Closed(r)'
  BY <1>1, <1>3 DEF RefundDue, Closed
<1> QED
  BY <1>1, <1>4, <1>5, <1>6, <1>7, RequestStep DEF Settle, Others

LEMMA SettledStep ==
  ASSUME TypeOK, RequestsInv, RefundsInv, NEW r \in Requests, Settled(r)
  PROVE  RequestsInv' /\ RefundsInv'
<1>0. usage[r] \in Collector
  BY DEF TypeOK
<1>1. pc'[r] = "ended" /\ reply'[r] = "none" /\ Others(r)
  BY DEF TypeOK, Settled, Goto, Others
<1>2. PICK b : usage' = [usage EXCEPT ![r].done = b]
  BY DEF Settled
<1>3. /\ usage'[r].ticket = usage[r].ticket
      /\ usage'[r].delivered = usage[r].delivered
      /\ usage'[r].started = usage[r].started
      /\ usage'[r].finished = usage[r].finished
  BY <1>0, <1>2 DEF TypeOK, Collector
<1>4. usage[r].ticket /\ RowsOf(r) # {}
  BY DEF RequestsInv, Settled, Ticketed, AtWork
<1>5. (Closed(r) => Closed(r)') /\ Early(r)' /\ Ticketed(r)'
  BY <1>1, <1>3, <1>4 DEF Settled, Closed, Early, Ticketed, RowsOf, AtWork
<1> QED
  BY <1>1, <1>5, RequestStep DEF Settled

\* What handlers write to a collector leaves its ticket.
LEMMA TicketKept ==
  ASSUME TypeOK, NEW r \in Requests,
         \/ \E v : usage' = [usage EXCEPT ![r].records = v]
         \/ \E v : usage' = [usage EXCEPT ![r].delivered = v]
         \/ \E v : usage' = [usage EXCEPT ![r].started = v]
         \/ \E v : usage' = [usage EXCEPT ![r].force = v]
         \/ \E v : usage' = [usage EXCEPT ![r] = Finished(r, v)]
         \/ usage' = usage
  PROVE  /\ usage'[r].ticket = usage[r].ticket
         /\ \A q \in Requests \ {r} : usage'[q] = usage[q]
<1>0. usage[r] \in Collector
  BY DEF TypeOK
<1>1. CASE \E v : usage' = [usage EXCEPT ![r].records = v]
  BY <1>0, <1>1 DEF TypeOK, Collector
<1>2. CASE \E v : usage' = [usage EXCEPT ![r].delivered = v]
  BY <1>0, <1>2 DEF TypeOK, Collector
<1>3. CASE \E v : usage' = [usage EXCEPT ![r].started = v]
  BY <1>0, <1>3 DEF TypeOK, Collector
<1>4. CASE \E v : usage' = [usage EXCEPT ![r].force = v]
  BY <1>0, <1>4 DEF TypeOK, Collector
<1>5. CASE \E v : usage' = [usage EXCEPT ![r] = Finished(r, v)]
  <2>1. PICK v : usage' = [usage EXCEPT ![r] = Finished(r, v)]
    BY <1>5
  <2>2. Finished(r, v).ticket = usage[r].ticket
    BY <1>0 DEF Collector, Finished
  <2> QED
    BY <2>1, <2>2 DEF TypeOK
<1>6. CASE usage' = usage
  BY <1>6
<1> QED
  BY <1>1, <1>2, <1>3, <1>4, <1>5, <1>6

LEMMA WorkStep ==
  ASSUME TypeOK, RequestsInv, RefundsInv, NEW r \in Requests,
         Work(r) \/ TextChunk(r) \/ Recovery(r) \/ StudentLeaves(r)
  PROVE  RequestsInv' /\ RefundsInv'
<1>1. ASSUME NEW status \in {"success", "error", "interrupted"}, ProviderCall(r, status)
      PROVE  RequestsInv' /\ RefundsInv'
  <2>1. \E v : usage' = [usage EXCEPT ![r].records = v]
    BY <1>1 DEF ProviderCall
  <2>2. PICK place \in AtWork \cup {"ended"} : Goto(r, place)
    BY <1>1 DEF TypeOK, ProviderCall, Goto, AtWork
  <2> QED
    BY <1>1, <2>1, <2>2, TicketKept, WorkingStep DEF ProviderCall, AtWork
<1>2. ASSUME NEW status \in {"success", "error", "interrupted"}, EngineEnds(r, status)
      PROVE  RequestsInv' /\ RefundsInv'
  <2>1. \E v : usage' = [usage EXCEPT ![r].records = v]
    BY <1>2 DEF EngineEnds
  <2>2. PICK place \in AtWork \cup {"ended"} : Goto(r, place)
    BY <1>2 DEF TypeOK, EngineEnds, Goto, AtWork
  <2> QED
    BY <1>2, <2>1, <2>2, TicketKept, WorkingStep DEF EngineEnds, AtWork
<1>3. ASSUME Deliver(r)
      PROVE  RequestsInv' /\ RefundsInv'
  <2>1. \E v : usage' = [usage EXCEPT ![r].delivered = v]
    BY <1>3 DEF Deliver
  <2>2. PICK place \in AtWork \cup {"ended"} : Goto(r, place)
    BY <1>3 DEF TypeOK, Deliver, Goto, AtWork
  <2> QED
    BY <1>3, <2>1, <2>2, TicketKept, WorkingStep DEF Deliver, AtWork
<1>4. ASSUME DeliverNothing(r)
      PROVE  RequestsInv' /\ RefundsInv'
  <2>1. \E v : usage' = [usage EXCEPT ![r].force = v]
    BY <1>4 DEF DeliverNothing
  <2>2. PICK place \in AtWork \cup {"ended"} : Goto(r, place)
    BY <1>4 DEF TypeOK, DeliverNothing, Goto, AtWork
  <2> QED
    BY <1>4, <2>1, <2>2, TicketKept, WorkingStep DEF DeliverNothing, AtWork
<1>5. ASSUME ChatRaises(r)
      PROVE  RequestsInv' /\ RefundsInv'
  <2>1. \E v : usage' = [usage EXCEPT ![r].force = v]
    BY <1>5 DEF ChatRaises
  <2>2. PICK place \in AtWork \cup {"ended"} : Goto(r, place)
    BY <1>5 DEF TypeOK, ChatRaises, Goto, AtWork
  <2> QED
    BY <1>5, <2>1, <2>2, TicketKept, WorkingStep DEF ChatRaises, AtWork
<1>6. ASSUME GuardedRaises(r)
      PROVE  RequestsInv' /\ RefundsInv'
  <2>1. \E v : usage' = [usage EXCEPT ![r].force = v]
    BY <1>6 DEF GuardedRaises
  <2>2. PICK place \in AtWork \cup {"ended"} : Goto(r, place)
    BY <1>6 DEF TypeOK, GuardedRaises, Goto, AtWork
  <2> QED
    BY <1>6, <2>1, <2>2, TicketKept, WorkingStep DEF GuardedRaises, AtWork
<1>7. ASSUME NoteGone(r)
      PROVE  RequestsInv' /\ RefundsInv'
  <2>1. usage' = usage
    BY <1>7 DEF NoteGone
  <2>2. PICK place \in AtWork \cup {"ended"} : Goto(r, place)
    BY <1>7 DEF TypeOK, NoteGone, Goto, AtWork
  <2> QED
    BY <1>7, <2>1, <2>2, TicketKept, WorkingStep DEF NoteGone, AtWork
<1>8. ASSUME StreamReady(r)
      PROVE  RequestsInv' /\ RefundsInv'
  <2>1. usage' = usage
    BY <1>8 DEF StreamReady
  <2>2. PICK place \in AtWork \cup {"ended"} : Goto(r, place)
    BY <1>8 DEF TypeOK, StreamReady, Goto, AtWork
  <2> QED
    BY <1>8, <2>1, <2>2, TicketKept, WorkingStep DEF StreamReady, AtWork
<1>9. ASSUME StreamBegins(r)
      PROVE  RequestsInv' /\ RefundsInv'
  <2>1. \E v : usage' = [usage EXCEPT ![r].started = v]
    BY <1>9 DEF StreamBegins
  <2>2. PICK place \in AtWork \cup {"ended"} : Goto(r, place)
    BY <1>9 DEF TypeOK, StreamBegins, Goto, AtWork
  <2> QED
    BY <1>9, <2>1, <2>2, TicketKept, WorkingStep DEF StreamBegins, AtWork
<1>10. ASSUME Admitted(r)
      PROVE  RequestsInv' /\ RefundsInv'
  <2>1. usage' = usage
    BY <1>10 DEF Admitted
  <2>2. PICK place \in AtWork \cup {"ended"} : Goto(r, place)
    BY <1>10 DEF TypeOK, Admitted, Goto, AtWork
  <2> QED
    BY <1>10, <2>1, <2>2, TicketKept, WorkingStep DEF Admitted, AtWork
<1>11. ASSUME NotAdmitted(r)
      PROVE  RequestsInv' /\ RefundsInv'
  <2>1. \E v : usage' = [usage EXCEPT ![r] = Finished(r, v)]
    BY <1>11 DEF NotAdmitted
  <2>2. PICK place \in AtWork \cup {"ended"} : Goto(r, place)
    BY <1>11 DEF TypeOK, NotAdmitted, Goto, AtWork
  <2> QED
    BY <1>11, <2>1, <2>2, TicketKept, WorkingStep DEF NotAdmitted, AtWork
<1>12. ASSUME EngineRaises(r)
      PROVE  RequestsInv' /\ RefundsInv'
  <2>1. \E v : usage' = [usage EXCEPT ![r] = Finished(r, v)]
    BY <1>12 DEF EngineRaises
  <2>2. PICK place \in AtWork \cup {"ended"} : Goto(r, place)
    BY <1>12 DEF TypeOK, EngineRaises, Goto, AtWork
  <2> QED
    BY <1>12, <2>1, <2>2, TicketKept, WorkingStep DEF EngineRaises, AtWork
<1>13. ASSUME StreamFinished(r)
      PROVE  RequestsInv' /\ RefundsInv'
  <2>1. \E v : usage' = [usage EXCEPT ![r] = Finished(r, v)]
    BY <1>13 DEF StreamFinished
  <2>2. PICK place \in AtWork \cup {"ended"} : Goto(r, place)
    BY <1>13 DEF TypeOK, StreamFinished, Goto, AtWork
  <2> QED
    BY <1>13, <2>1, <2>2, TicketKept, WorkingStep DEF StreamFinished, AtWork
<1>14. ASSUME StreamEnds(r)
      PROVE  RequestsInv' /\ RefundsInv'
  <2>1. usage' = usage
    BY <1>14 DEF StreamEnds
  <2>2. PICK place \in AtWork \cup {"ended"} : Goto(r, place)
    BY <1>14 DEF TypeOK, StreamEnds, Goto, AtWork
  <2> QED
    BY <1>14, <2>1, <2>2, TicketKept, WorkingStep DEF StreamEnds, AtWork
<1>15. ASSUME StudentLeaves(r)
      PROVE  RequestsInv' /\ RefundsInv'
  <2>1. usage' = usage
    BY <1>15 DEF StudentLeaves
  <2>2. PICK place \in AtWork \cup {"ended"} : Goto(r, place)
    BY <1>15 DEF TypeOK, StudentLeaves, Goto, AtWork
  <2> QED
    BY <1>15, <2>1, <2>2, TicketKept, WorkingStep DEF StudentLeaves, AtWork
<1>16. ASSUME TextChunk(r)
      PROVE  RequestsInv' /\ RefundsInv'
  <2>1. \E v : usage' = [usage EXCEPT ![r].delivered = v]
    BY <1>16 DEF TextChunk
  <2>2. PICK place \in AtWork \cup {"ended"} : Goto(r, place)
    BY <1>16 DEF TypeOK, TextChunk, Goto, AtWork
  <2> QED
    BY <1>16, <2>1, <2>2, TicketKept, WorkingStep DEF TextChunk, AtWork
<1>17. ASSUME Recovery(r)
      PROVE  RequestsInv' /\ RefundsInv'
  <2>1. \E v : usage' = [usage EXCEPT ![r].records = v]
    BY <1>17 DEF Recovery
  <2>2. PICK place \in AtWork \cup {"ended"} : Goto(r, place)
    BY <1>17 DEF TypeOK, Recovery, Goto, AtWork
  <2> QED
    BY <1>17, <2>1, <2>2, TicketKept, WorkingStep DEF Recovery, AtWork
<1> QED
  BY <1>1, <1>2, <1>3, <1>4, <1>5, <1>6, <1>7, <1>8, <1>9, <1>10, <1>11,
     <1>12, <1>13, <1>14, <1>15, <1>16, <1>17,
     AllowedStep, DeniedStep, ConsumeFailsStep, RefuseStep, SettleStep, SettledStep DEF Work

LEMMA AcceptStep ==
  ASSUME TypeOK, RequestsInv, RefundsInv, NEW r \in Requests, NEW a \in Args, Accept(r, a)
  PROVE  RequestsInv' /\ RefundsInv'
<1>1. /\ pc'[r] \in {"consuming", "ended"}
      /\ \A q \in Requests \ {r} : pc'[q] = pc[q] /\ args'[q] = args[q]
      /\ UNCHANGED <<ledger, usage, reply>>
      /\ \A m \in wire' \ wire : m.op = "consume"
  BY DEF TypeOK, Accept, Goto
<1>2. usage[r] = NewCollector /\ reply[r] # "allowed" /\ ~Closed(r)
  BY DEF RequestsInv, Early, Ticketed, Accept, Closed
<1>3. ASSUME NEW q \in Requests PROVE Early(q)' /\ Ticketed(q)'
  <2>1. CASE q = r
    BY <1>1, <1>2, <2>1 DEF Early, Ticketed, NewCollector, AtWork
  <2>2. CASE q # r
    BY <1>1, <2>2 DEF RequestsInv, Early, Ticketed, RowsOf
  <2> QED
    BY <2>1, <2>2
<1>4. \A q \in Requests : Closed(q) => Closed(q)'
  BY <1>1, <1>2 DEF Closed
<1>5. \A m \in wire : m.req \in Requests
  BY DEF TypeOK, Wire
<1>6. RefundsInv'
  BY <1>1, <1>4, <1>5 DEF RefundsInv
<1> QED
  BY <1>3, <1>6 DEF RequestsInv

\* An answer changes nothing but what its caller waits for.
LEMMA AnswerStep ==
  ASSUME TypeOK, RequestsInv, RefundsInv, NEW m \in wire, NEW a, Answer(m, a),
         \A q : RowsOf(q) # {} => RowsOf(q)' # {},
         a = "allowed" => m.op = "consume" /\ RowsOf(m.req)' # {},
         \A x \in ledger' : x.refunded =>
            x \in ledger \/ (x.tok = m.req /\ m.op = "refund")
  PROVE  RequestsInv' /\ RefundsInv'
<1>1. UNCHANGED <<pc, args, usage>> /\ m.req \in Requests /\ wire' \subseteq wire
  BY DEF Answer, TypeOK, Wire
<1>2. ASSUME NEW q \in Requests PROVE Early(q)'
  BY <1>1 DEF RequestsInv, Early
<1>3. ASSUME NEW q \in Requests PROVE Ticketed(q)'
  <2>1. reply'[q] = "allowed" => pc'[q] = "consuming" /\ RowsOf(q)' # {}
    <3>1. CASE reply'[q] = reply[q]
      BY <1>1, <3>1 DEF RequestsInv, Ticketed
    <3>2. CASE reply'[q] # reply[q]
      <4>1. q = m.req /\ m \in CallOf(q) /\ reply'[q] = a
        BY <3>2 DEF Answer, TypeOK
      <4>2. m.op = "consume" => pc[q] = "consuming"
        BY <4>1 DEF CallOf
      <4> QED
        BY <1>1, <4>1, <4>2
    <3> QED
      BY <3>1, <3>2
  <2> QED
    BY <1>1, <2>1 DEF RequestsInv, Ticketed
<1>4. RefundsInv'
  BY <1>1 DEF RefundsInv, Closed
<1> QED
  BY <1>2, <1>3, <1>4 DEF RequestsInv

LEMMA DatabaseStep ==
  ASSUME TypeOK, RequestsInv, RefundsInv, NEW m \in wire, DbConsume(m) \/ DbRefund(m)
  PROVE  RequestsInv' /\ RefundsInv'
<1>0. args' = args
  BY DEF DbConsume, DbRefund, Answer
<1>1. CASE RowsOf(m.req) = {} /\ Meter!Count(RowFor(m.req)) /\ Answer(m, "allowed") /\ m.op = "consume"
  <2>1. ledger' = ledger \cup {RowFor(m.req)} /\ ~RowFor(m.req).refunded
    BY <1>1 DEF Meter!Count
  <2>2. RowFor(m.req) \in RowsOf(m.req)'
    BY <1>0, <2>1 DEF RowsOf, RowFor, SameRequest
  <2>3. \A q : RowsOf(q) \subseteq RowsOf(q)'
    BY <1>0, <2>1 DEF RowsOf
  <2>4. \A x \in ledger' : x.refunded => x \in ledger
    BY <2>1
  <2> QED
    BY <1>1, <2>2, <2>3, <2>4, AnswerStep
<1>2. CASE Answer(m, "denied") /\ UNCHANGED ledger
  BY <1>0, <1>2, AnswerStep DEF RowsOf
<1>3. CASE Answer(m, "not_refunded") /\ UNCHANGED ledger
  BY <1>0, <1>3, AnswerStep DEF RowsOf
<1>4. CASE Answer(m, "allowed") /\ UNCHANGED ledger /\ RowsOf(m.req) # {} /\ m.op = "consume"
  BY <1>0, <1>4, AnswerStep DEF RowsOf
<1>5. ASSUME NEW x \in ledger, Meter!GiveBack(x, m.req), Answer(m, "refunded"), m.op = "refund"
      PROVE  RequestsInv' /\ RefundsInv'
  <2>0. x \in Row
    BY <1>5 DEF TypeOK
  <2> DEFINE y == [x EXCEPT !.refunded = TRUE]
  <2>1. ledger' = (ledger \ {x}) \cup {y} /\ x.tok = m.req
    BY <1>5 DEF Meter!GiveBack
  <2>2. y.user = x.user /\ y.kind = x.kind /\ y.req = x.req /\ y.tok = x.tok
    BY <2>0 DEF Row
  <2>3. ASSUME NEW q, RowsOf(q) # {} PROVE RowsOf(q)' # {}
    <3> HIDE DEF y
    <3>0. RowsOf(q)' = {z \in ledger' : SameRequest(z, args[q].user, args[q].kind, args[q].req)}
      BY <1>0 DEF RowsOf
    <3>1. PICK z \in ledger : SameRequest(z, args[q].user, args[q].kind, args[q].req)
      BY <2>3 DEF RowsOf
    <3>2. CASE z = x
      BY <2>1, <2>2, <3>0, <3>1, <3>2 DEF SameRequest
    <3>3. CASE z # x
      BY <2>1, <3>0, <3>1, <3>3
    <3> QED
      BY <3>2, <3>3
  <2>4. \A z \in ledger' : z.refunded => z \in ledger \/ (z.tok = m.req /\ m.op = "refund")
    <3> HIDE DEF y
    <3> QED
      BY <1>5, <2>1, <2>2
  <2> QED
    BY <1>5, <2>3, <2>4, AnswerStep
<1> QED
  BY <1>1, <1>2, <1>3, <1>4, <1>5 DEF DbConsume, DbRefund, RowsOf

LEMMA StepKeepsInv == SettlementInv /\ [Next]_vars => SettlementInv'
<1> SUFFICES ASSUME SettlementInv, [Next]_vars PROVE SettlementInv'
  OBVIOUS
<1>0. TypeOK /\ RequestsInv /\ RefundsInv /\ TypeOK'
  BY StepKeepsTypes DEF SettlementInv
<1>1. ASSUME NEW m \in wire, CallLost(m) PROVE RequestsInv' /\ RefundsInv'
  BY <1>0, <1>1 DEF CallLost, RequestsInv, RefundsInv, Early, Ticketed, Closed, RowsOf
<1>2. ASSUME Restart PROVE RequestsInv' /\ RefundsInv'
  <2>0. UNCHANGED <<ledger, wire, args, usage>>
    BY <1>2 DEF Restart
  <2>1. ASSUME NEW r \in Requests
        PROVE  /\ pc'[r] \in {"idle", "ended", "lost"}
               /\ pc[r] \in {"idle", "ended"} => pc'[r] = pc[r]
               /\ pc'[r] = "idle" => pc[r] = "idle"
               /\ reply'[r] = "none"
    BY <1>2 DEF Restart
  <2>2. ASSUME NEW r \in Requests, Closed(r) PROVE Closed(r)'
    BY <2>0, <2>1, <2>2 DEF Closed
  <2>3. ASSUME NEW r \in Requests PROVE Early(r)' /\ Ticketed(r)'
    BY <1>0, <2>0, <2>1 DEF RequestsInv, Early, Ticketed, RowsOf, AtWork
  <2>4. \A m \in wire : m.req \in Requests
    BY <1>0 DEF TypeOK, Wire
  <2> QED
    BY <1>0, <2>0, <2>2, <2>3, <2>4 DEF RequestsInv, RefundsInv
<1>3. CASE UNCHANGED vars
  BY <1>0, <1>3 DEF vars, SettlementInv, RequestsInv, RefundsInv, Early, Ticketed, Closed, RowsOf
<1> QED
  BY <1>0, <1>1, <1>2, <1>3, WorkStep, AcceptStep, DatabaseStep DEF Next, Database, SettlementInv

-----------------------------------------------------------------------------
(* Theorems *)

\* Tickets follow rows of the ledger, and refunds belong to closed requests.
THEOREM SettlementCorrect == SafeSpec => []SettlementInv
<1>1. Init => SettlementInv
  <2> SUFFICES ASSUME Init PROVE SettlementInv
    OBVIOUS
  <2>1. TypeOK
    BY NewCollectorType DEF Init, TypeOK, Meter!Init, Places, Outcomes
  <2>2. RequestsInv /\ RefundsInv
    BY DEF Init, Meter!Init, RequestsInv, RefundsInv, Early, Ticketed, NewCollector, AtWork
  <2> QED
    BY <2>1, <2>2 DEF SettlementInv
<1> QED
  BY <1>1, StepKeepsInv, PTL DEF SafeSpec

\* Every variable of requests, calls and the meter keeps its type.
THEOREM TypesCorrect == SafeSpec => []TypeOK
BY SettlementCorrect, PTL DEF SettlementInv

\* No delivered answer is ever given back, whichever call runs late.
THEOREM DeliveredCorrect == SafeSpec => []DeliveredIsFinal
<1>1. SettlementInv => DeliveredIsFinal
  BY DEF SettlementInv, RefundsInv, Closed, DeliveredIsFinal, Own
<1> QED
  BY SettlementCorrect, <1>1, PTL

\* Nor is a stream the student left before its terminal event.
THEOREM AbandonedCorrect == SafeSpec => []AbandonedIsKept
<1>1. SettlementInv => AbandonedIsKept
  BY DEF SettlementInv, RefundsInv, Closed, AbandonedIsKept, Own
<1> QED
  BY SettlementCorrect, <1>1, PTL

\* The provider works only for request ids the ledger has counted.
THEOREM MeteredCorrect == SafeSpec => []NeverUnmetered
<1>1. SettlementInv => NeverUnmetered
  BY DEF SettlementInv, RequestsInv, Ticketed, NeverUnmetered
<1> QED
  BY SettlementCorrect, <1>1, PTL

-----------------------------------------------------------------------------
(* Units and requests.  A row of the ledger belongs to the request whose token  *)
(* it has, and the units of a student stay within the free plan.              *)

RowsFit ==
  /\ IsFiniteSet(ledger)
  /\ \A x \in ledger : /\ x.tok \in Requests /\ pc[x.tok] # "idle"
                       /\ x \in RowsOf(x.tok) /\ x.key = RowFor(x.tok).key

UnitsBounded ==
  \A u \in Users, k \in DOMAIN Limits : k[1] = "free" =>
    Cardinality(Counted(ledger, u, k[2], KeyAt(Limits[k].period, 0)))
      <= LimitAt(Limits[k], u, 0)

\* Only the database writes the ledger; a request under way keeps its arguments.
LEMMA HandlersLeaveLedger ==
  ASSUME TypeOK, [Next]_vars, ~Database
  PROVE  /\ ledger' = ledger
         /\ \A r \in Requests : pc[r] # "idle" => pc'[r] # "idle" /\ args'[r] = args[r]
<1>1. ASSUME NEW r \in Requests, NEW a \in Args, Accept(r, a)
      PROVE  /\ ledger' = ledger
             /\ \A q \in Requests : pc[q] # "idle" => pc'[q] # "idle" /\ args'[q] = args[q]
  BY <1>1 DEF TypeOK, Accept, Goto
<1>2. ASSUME NEW r \in Requests, NEW place \in Places \ {"idle"}, Goto(r, place),
             UNCHANGED <<ledger, args>>
      PROVE  /\ ledger' = ledger
             /\ \A q \in Requests : pc[q] # "idle" => pc'[q] # "idle" /\ args'[q] = args[q]
  BY <1>2 DEF TypeOK, Goto
<1>3. ASSUME NEW r \in Requests, Work(r)
      PROVE  UNCHANGED <<ledger, args>> /\ \E place \in Places \ {"idle"} : Goto(r, place)
  BY <1>3 DEF Work, Allowed, Denied, ConsumeFails, Refuse, ProviderCall, EngineEnds, Deliver,
              DeliverNothing, ChatRaises, GuardedRaises, NoteGone, StreamReady, StreamBegins,
              Admitted, NotAdmitted, EngineRaises, StreamFinished, StreamEnds, Settle, Settled,
              Places
<1>4. ASSUME NEW r \in Requests, TextChunk(r) \/ Recovery(r)
      PROVE  UNCHANGED <<ledger, args, pc>>
  BY <1>4 DEF TextChunk, Recovery
<1>5. ASSUME NEW r \in Requests, StudentLeaves(r)
      PROVE  UNCHANGED <<ledger, args>> /\ \E place \in Places \ {"idle"} : Goto(r, place)
  BY <1>5 DEF StudentLeaves, Places
<1>6. ASSUME Restart
      PROVE  /\ UNCHANGED <<ledger, args>>
             /\ \A q \in Requests : pc[q] # "idle" => pc'[q] # "idle"
  BY <1>6 DEF TypeOK, Restart
<1>7. ASSUME NEW m \in wire, CallLost(m) PROVE UNCHANGED <<ledger, args, pc>>
  BY <1>7 DEF CallLost
<1>8. CASE UNCHANGED vars
  BY <1>8 DEF vars
<1> QED
  BY <1>1, <1>2, <1>3, <1>4, <1>5, <1>6, <1>7, <1>8 DEF Next

\* A row that enters the ledger is of the request that asked; one that is flipped
\* keeps all else.
LEMMA CountStep ==
  ASSUME TypeOK, RowsFit, UnitsBounded, NEW r \in Requests, pc[r] # "idle", HasRoom(r),
         UNCHANGED <<pc, args>>, ledger' = ledger \cup {RowFor(r)}
  PROVE  RowsFit' /\ UnitsBounded'
<1>1. args[r] \in Args
  BY DEF TypeOK
<1>2. /\ RowFor(r).tok = r /\ RowFor(r).user = args[r].user /\ RowFor(r).kind = args[r].kind
      /\ RowFor(r).req = args[r].req
      /\ RowFor(r).key = KeyAt(Limits[<<"free", args[r].kind>>].period, 0)
  BY DEF RowFor
<1>3. RowsFit'
  <2>1. IsFiniteSet(ledger')
    BY FS_AddElement DEF RowsFit
  <2>2. \A q : RowsOf(q) \subseteq RowsOf(q)' /\ RowFor(q)' = RowFor(q)
    BY DEF RowsOf, RowFor
  <2>3. RowFor(r) \in RowsOf(r)'
    BY <1>2 DEF RowsOf, SameRequest
  <2> QED
    BY <1>2, <2>1, <2>2, <2>3 DEF RowsFit
<1>4. ASSUME NEW u \in Users, NEW k \in DOMAIN Limits, k[1] = "free"
      PROVE  Cardinality(Counted(ledger', u, k[2], KeyAt(Limits[k].period, 0)))
               <= LimitAt(Limits[k], u, 0)
  <2> DEFINE key == KeyAt(Limits[k].period, 0)
             old == Counted(ledger, u, k[2], key)
             new == Counted(ledger', u, k[2], key)
  <2>0. k = <<"free", k[2]>>
    BY <1>4, PlanAssumption
  <2>1. IsFiniteSet(old)
    BY FS_Subset DEF RowsFit, Counted
  <2>2. Cardinality(old) \in Nat
    BY <2>1, FS_CardinalityType
  <2>3. CASE RowFor(r) \in new
    <3>1. args[r].user = u /\ args[r].kind = k[2]
      BY <1>2, <2>3 DEF Counted
    <3>2. Cardinality(old) < LimitAt(Limits[k], u, 0)
      BY <1>2, <2>0, <3>1 DEF HasRoom
    <3>3. new = old \cup {RowFor(r)}
      BY <2>3 DEF Counted
    <3>4. Cardinality(new) <= Cardinality(old) + 1
      <4> HIDE DEF old, new
      <4>1. Cardinality(new) = IF RowFor(r) \in old THEN Cardinality(old)
                               ELSE Cardinality(old) + 1
        BY <2>1, <3>3, FS_AddElement
      <4> QED
        BY <2>2, <4>1
    <3>5. LimitAt(Limits[k], u, 0) \in Nat
      BY PlanAssumption DEF LimitAt, LimitRow
    <3>6. Cardinality(new) \in Nat
      BY <2>1, <3>3, FS_AddElement, FS_CardinalityType
    <3> HIDE DEF old, new
    <3> QED
      BY <2>2, <3>2, <3>4, <3>5, <3>6 DEF new, key
  <2>4. CASE RowFor(r) \notin new
    <3>1. new = old
      BY <2>4 DEF Counted
    <3> QED
      BY <1>4, <3>1 DEF UnitsBounded
  <2> QED
    BY <2>3, <2>4
<1> QED
  BY <1>3, <1>4 DEF UnitsBounded

LEMMA GiveBackStep ==
  ASSUME TypeOK, RowsFit, UnitsBounded, NEW x \in ledger, UNCHANGED <<pc, args>>,
         ledger' = (ledger \ {x}) \cup {[x EXCEPT !.refunded = TRUE]}
  PROVE  RowsFit' /\ UnitsBounded'
<1> DEFINE y == [x EXCEPT !.refunded = TRUE]
<1>1. /\ y.user = x.user /\ y.kind = x.kind /\ y.req = x.req /\ y.tok = x.tok
      /\ y.key = x.key /\ y.refunded
  BY DEF TypeOK, Row
<1> HIDE DEF y
<1>2. ledger' = (ledger \ {x}) \cup {y}
  BY DEF y
<1>3. RowsFit'
  <2>1. IsFiniteSet(ledger')
    <3>1. IsFiniteSet(ledger \ {x})
      BY FS_RemoveElement DEF RowsFit
    <3> QED
      BY <1>2, <3>1, FS_AddElement
  <2>2. \A q : RowFor(q)' = RowFor(q)
    BY DEF RowFor
  <2>3. \A z \in ledger' :
          \E w \in ledger : /\ z.tok = w.tok /\ z.key = w.key /\ z.user = w.user
                            /\ z.kind = w.kind /\ z.req = w.req
    BY <1>1, <1>2
  <2>4. ASSUME NEW z \in ledger'
        PROVE  /\ z.tok \in Requests /\ pc'[z.tok] # "idle"
               /\ z \in RowsOf(z.tok)' /\ z.key = RowFor(z.tok)'.key
    <3>1. PICK w \in ledger : /\ z.tok = w.tok /\ z.key = w.key /\ z.user = w.user
                              /\ z.kind = w.kind /\ z.req = w.req
      BY <2>3
    <3> QED
      BY <2>2, <3>1 DEF RowsFit, RowsOf, SameRequest
  <2> QED
    BY <2>1, <2>4 DEF RowsFit
<1>4. ASSUME NEW u \in Users, NEW k \in DOMAIN Limits, k[1] = "free"
      PROVE  Cardinality(Counted(ledger', u, k[2], KeyAt(Limits[k].period, 0)))
               <= LimitAt(Limits[k], u, 0)
  <2> DEFINE old == Counted(ledger, u, k[2], KeyAt(Limits[k].period, 0))
             new == Counted(ledger', u, k[2], KeyAt(Limits[k].period, 0))
  <2>1. new \subseteq old
    BY <1>1, <1>2 DEF Counted
  <2>2. IsFiniteSet(old)
    BY FS_Subset DEF RowsFit, Counted
  <2>3. Cardinality(new) <= Cardinality(old) /\ IsFiniteSet(new)
    BY <2>1, <2>2, FS_Subset
  <2>4. Cardinality(old) \in Nat /\ Cardinality(new) \in Nat
    BY <2>2, <2>3, FS_CardinalityType
  <2>5. Cardinality(old) <= LimitAt(Limits[k], u, 0)
    BY <1>4 DEF UnitsBounded
  <2>6. LimitAt(Limits[k], u, 0) \in Nat
    BY PlanAssumption DEF LimitAt, LimitRow
  <2> HIDE DEF old, new
  <2> QED
    BY <2>3, <2>4, <2>5, <2>6 DEF new
<1> QED
  BY <1>3, <1>4 DEF UnitsBounded

\* A consume call on its way is of a request that has made it.
CallsAsked == \A m \in wire : pc[m.req] # "idle"

LEMMA StepKeepsUnits ==
  ASSUME TypeOK, CallsAsked, RowsFit, UnitsBounded, [Next]_vars
  PROVE  CallsAsked' /\ RowsFit' /\ UnitsBounded'
<1>1. CASE Database
  <2>1. PICK m \in wire : DbConsume(m) \/ DbRefund(m)
    BY <1>1 DEF Database
  <2>2. /\ UNCHANGED <<pc, args>> /\ wire' \subseteq wire
        /\ m.req \in Requests /\ pc[m.req] # "idle"
    BY <2>1 DEF TypeOK, CallsAsked, DbConsume, DbRefund, Answer, Wire
  <2>3. CASE ledger' = ledger
    BY <2>2, <2>3 DEF CallsAsked, RowsFit, UnitsBounded, RowsOf, RowFor
  <2>4. CASE HasRoom(m.req) /\ ledger' = ledger \cup {RowFor(m.req)}
    BY <2>2, <2>4, CountStep DEF CallsAsked
  <2>5. CASE \E x \in ledger : ledger' = (ledger \ {x}) \cup {[x EXCEPT !.refunded = TRUE]}
    BY <2>2, <2>5, GiveBackStep DEF CallsAsked
  <2> QED
    BY <2>1, <2>3, <2>4, <2>5 DEF DbConsume, DbRefund, Meter!Count, Meter!GiveBack, RowsOf
<1>2. CASE ~Database
  <2>1. /\ ledger' = ledger
        /\ \A r \in Requests : pc[r] # "idle" => pc'[r] # "idle" /\ args'[r] = args[r]
    BY <1>2, HandlersLeaveLedger
  <2>2. \A r \in Requests : args'[r] = args[r] => RowFor(r)' = RowFor(r) /\ RowsOf(r)' = RowsOf(r)
    BY <2>1 DEF RowFor, RowsOf
  <2>3. RowsFit'
    BY <2>1, <2>2 DEF RowsFit
  <2>4. UnitsBounded'
    BY <2>1 DEF UnitsBounded
  <2>5. \A m \in wire' : m \in wire \/ (m.req \in Requests /\ pc'[m.req] # "idle")
    <3>1. ASSUME NEW r \in Requests, NEW a \in Args, Accept(r, a)
          PROVE  \A m \in wire' : m \in wire \/ (m.req \in Requests /\ pc'[m.req] # "idle")
      BY <3>1 DEF TypeOK, Accept, Goto
    <3>2. ASSUME NEW r \in Requests, ConsumeFails(r) \/ Settle(r)
          PROVE  \A m \in wire' : m \in wire \/ (m.req = r /\ pc[r] # "idle")
      BY <3>2 DEF ConsumeFails, Settle
    <3>3. ASSUME NEW r \in Requests, Work(r), ~ConsumeFails(r), ~Settle(r)
          PROVE  wire' = wire
      BY <3>3 DEF Work, Allowed, Denied, Refuse, ProviderCall, EngineEnds, Deliver,
              DeliverNothing, ChatRaises, GuardedRaises, NoteGone, StreamReady, StreamBegins,
              Admitted, NotAdmitted, EngineRaises, StreamFinished, StreamEnds, Settled
    <3>4. ASSUME NEW r \in Requests, TextChunk(r) \/ Recovery(r) \/ StudentLeaves(r)
          PROVE  wire' = wire
      BY <3>4 DEF TextChunk, Recovery, StudentLeaves
    <3>5. ASSUME NEW m \in wire, CallLost(m) PROVE wire' \subseteq wire
      BY <3>5 DEF CallLost
    <3>6. CASE Restart \/ UNCHANGED vars
      BY <3>6 DEF Restart, vars
    <3> QED
      BY <1>2, <2>1, <3>1, <3>2, <3>3, <3>4, <3>5, <3>6 DEF Next
  <2>6. CallsAsked'
    BY <2>1, <2>5 DEF CallsAsked, TypeOK, Wire
  <2> QED
    BY <2>3, <2>4, <2>6
<1> QED
  BY <1>1, <1>2

LEMMA UnitsCorrect == SafeSpec => [](RowsFit /\ UnitsBounded)
<1>1. Init => CallsAsked /\ RowsFit /\ UnitsBounded
  <2> SUFFICES ASSUME Init PROVE CallsAsked /\ RowsFit /\ UnitsBounded
    OBVIOUS
  <2>1. ledger = {} /\ wire = {}
    BY DEF Init, Meter!Init
  <2>2. \A u, k, key : Counted(ledger, u, k, key) = {}
    BY <2>1 DEF Counted
  <2>3. \A u \in Users, k \in DOMAIN Limits : 0 <= LimitAt(Limits[k], u, 0)
    BY PlanAssumption DEF LimitAt, LimitRow
  <2>4. UnitsBounded
    BY <2>2, <2>3, FS_EmptySet DEF UnitsBounded
  <2> QED
    BY <2>1, <2>4, FS_EmptySet DEF CallsAsked, RowsFit
<1>2. SafeSpec => [](CallsAsked /\ RowsFit /\ UnitsBounded)
  <2>1. TypeOK /\ (CallsAsked /\ RowsFit /\ UnitsBounded) /\ [Next]_vars =>
          (CallsAsked /\ RowsFit /\ UnitsBounded)'
    BY StepKeepsUnits
  <2> QED
    BY <1>1, <2>1, TypesCorrect, PTL DEF SafeSpec
<1> QED
  BY <1>2, PTL

\* While request ids do not collide, a request that delivered text has a standing
\* row of its own.
LEMMA FedHasUnit ==
  ASSUME SettlementInv, RowsFit,
         \A r, q \in Requests : (args[r] # NoArgs /\ args[q] # NoArgs /\ r # q) =>
                                   args[r].req # args[q].req,
         NEW r \in Requests, usage[r].delivered
  PROVE  \E x \in ledger : /\ x.tok = r /\ ~x.refunded
                           /\ x.user = args[r].user /\ x.kind = args[r].kind
                           /\ x.key = RowFor(r).key
<1>1. RowsOf(r) # {}
  BY DEF SettlementInv, RequestsInv, Ticketed
<1>2. PICK x \in ledger : SameRequest(x, args[r].user, args[r].kind, args[r].req)
  BY <1>1 DEF RowsOf
<1>3. pc[r] # "idle"
  BY DEF SettlementInv, RequestsInv, Early, NewCollector
<1>4. \A q \in Requests : pc[q] # "idle" => args[q] # NoArgs
  <2>1. "none" \notin Endpoints
    BY SettlementAssumption
  <2> QED
    BY <2>1 DEF SettlementInv, TypeOK, Args, NoArgs
<1>5. x.tok \in Requests /\ pc[x.tok] # "idle" /\ x \in RowsOf(x.tok)
      /\ x.key = RowFor(x.tok).key
  BY DEF RowsFit
<1>6. args[x.tok].req = args[r].req
  BY <1>2, <1>5 DEF RowsOf, SameRequest
<1>7. x.tok = r
  BY <1>3, <1>4, <1>5, <1>6
<1>8. ~x.refunded
  BY <1>7 DEF SettlementInv, RefundsInv, Closed
<1> QED
  BY <1>2, <1>5, <1>7, <1>8 DEF SameRequest

\* While request ids do not collide, no student is delivered more answers of a
\* meter than the free plan has units, whatever is lost, late, given back or
\* restarted: each has a standing row, and the rows are counted.
THEOREM TextWithinPlan == SafeSpec => []TextWithinLimit
<1>1. SettlementInv /\ RowsFit /\ UnitsBounded => TextWithinLimit
  <2> SUFFICES ASSUME SettlementInv, RowsFit, UnitsBounded,
                      \A r, q \in Requests :
                        (args[r] # NoArgs /\ args[q] # NoArgs /\ r # q) =>
                           args[r].req # args[q].req,
                      NEW u \in Users, NEW k \in DOMAIN Limits, k[1] = "free"
               PROVE  LET fed == {r \in Requests : /\ usage[r].delivered
                                                   /\ args[r].user = u
                                                   /\ args[r].kind = k[2]}
                      IN  Cardinality(fed) <= LimitAt(Limits[k], u, 0)
    BY DEF TextWithinLimit
  <2> DEFINE fed == {r \in Requests : /\ usage[r].delivered
                                      /\ args[r].user = u
                                      /\ args[r].kind = k[2]}
             units == Counted(ledger, u, k[2], KeyAt(Limits[k].period, 0))
             unit == [r \in fed |-> CHOOSE x \in units : x.tok = r]
  <2>0. k = <<"free", k[2]>>
    BY PlanAssumption
  <2>1. ASSUME NEW r \in fed PROVE \E x \in units : x.tok = r
    <3>1. PICK x \in ledger : /\ x.tok = r /\ ~x.refunded
                              /\ x.user = args[r].user /\ x.kind = args[r].kind
                              /\ x.key = RowFor(r).key
      BY FedHasUnit
    <3>2. RowFor(r).key = KeyAt(Limits[k].period, 0)
      BY <2>0 DEF RowFor
    <3>3. x \in units
      BY <3>1, <3>2 DEF Counted
    <3> QED
      BY <3>1, <3>3
  <2>2. unit \in Injection(fed, units)
    <3> HIDE DEF fed, units
    <3>1. ASSUME NEW r \in fed PROVE unit[r] \in units /\ unit[r].tok = r
      <4>1. unit[r] = CHOOSE x \in units : x.tok = r
        OBVIOUS
      <4> HIDE DEF unit
      <4> QED
        BY <2>1, <4>1, Zenon
    <3>2. unit = [r \in fed |-> unit[r]]
      <4> DEFINE choice(r) == CHOOSE x \in units : x.tok = r
      <4>1. unit = [r \in fed |-> choice(r)]
        OBVIOUS
      <4> HIDE DEF choice, unit
      <4> QED
        BY <4>1
    <3> HIDE DEF unit
    <3>3. unit \in [fed -> units]
      BY <3>1, <3>2
    <3> QED
      BY <3>1, <3>3 DEF Injection, IsInjective
  <2>3. IsFiniteSet(units)
    BY FS_Subset DEF RowsFit, Counted
  <2>4. IsFiniteSet(fed) /\ Cardinality(fed) <= Cardinality(units)
    <3> HIDE DEF fed, units, unit
    <3> QED
      BY <2>2, <2>3, FS_Injection
  <2>5. Cardinality(units) <= LimitAt(Limits[k], u, 0)
    BY DEF UnitsBounded
  <2>6. /\ Cardinality(units) \in Nat /\ Cardinality(fed) \in Nat
        /\ LimitAt(Limits[k], u, 0) \in Nat
    <3>1. LimitAt(Limits[k], u, 0) \in Nat
      BY PlanAssumption DEF LimitAt, LimitRow
    <3> HIDE DEF fed, units
    <3> QED
      BY <2>3, <2>4, <3>1, FS_CardinalityType
  <2> HIDE DEF fed, units
  <2> QED
    BY <2>4, <2>5, <2>6 DEF fed
<1> QED
  BY <1>1, SettlementCorrect, UnitsCorrect, PTL

-----------------------------------------------------------------------------
(* The safe refusal *)

\* Were the HTTP client named, no request would end in an error 500 before it is
\* metered: the missing import is the only way around the 503.
THEOREM BoundFailsClosed ==
  ASSUME TransportBound
  PROVE  SafeSpec => []FailsClosed
<1>1. Init => FailsClosed
  BY DEF Init, FailsClosed
<1>2. TypeOK /\ RequestsInv /\ FailsClosed /\ [Next]_vars => FailsClosed'
  <2> SUFFICES ASSUME TypeOK, RequestsInv, FailsClosed, [Next]_vars PROVE FailsClosed'
    OBVIOUS
  <2>1. \A r \in Requests : outcome'[r] = "error" =>
          outcome[r] = "error" \/ pc[r] \in AtWork
    BY DEF TypeOK, Next, Accept, Work, TextChunk, Recovery, StudentLeaves, Database, DbConsume,
           DbRefund, Answer, CallLost, Restart, vars, Respond, AtWork,
           Allowed, Denied, ConsumeFails, Refuse, ProviderCall, EngineEnds, Deliver,
           DeliverNothing, ChatRaises, GuardedRaises, NoteGone, StreamReady, StreamBegins,
           Admitted, NotAdmitted, EngineRaises, StreamFinished, StreamEnds, Settle, Settled
  <2>2. \A r \in Requests : usage[r].ticket => usage'[r].ticket
    <3>1. ASSUME NEW r \in Requests, Work(r) \/ TextChunk(r) \/ Recovery(r) \/ StudentLeaves(r)
          PROVE  \A q \in Requests : usage[q].ticket => usage'[q].ticket
      <4>0. usage[r] \in Collector
        BY DEF TypeOK
      <4>1. CASE Allowed(r)
        BY <4>0, <4>1 DEF TypeOK, Collector, Allowed
      <4>2. CASE Settle(r)
        BY <4>0, <4>2 DEF TypeOK, Collector, Settle
      <4>3. CASE Settled(r)
        BY <4>0, <4>3 DEF TypeOK, Collector, Settled
      <4>4. CASE Denied(r) \/ ConsumeFails(r) \/ Refuse(r) \/ NoteGone(r) \/ StreamReady(r)
                 \/ Admitted(r) \/ StreamEnds(r) \/ StudentLeaves(r)
        BY <4>4 DEF Denied, ConsumeFails, Refuse, NoteGone, StreamReady, Admitted, StreamEnds,
                    StudentLeaves
      <4>5. CASE Deliver(r) \/ DeliverNothing(r) \/ ChatRaises(r) \/ GuardedRaises(r)
                 \/ StreamBegins(r) \/ NotAdmitted(r) \/ EngineRaises(r) \/ StreamFinished(r)
                 \/ TextChunk(r) \/ Recovery(r)
                 \/ \E status \in {"success", "error", "interrupted"} :
                      ProviderCall(r, status) \/ EngineEnds(r, status)
        <5>1. \/ \E v : usage' = [usage EXCEPT ![r].records = v]
              \/ \E v : usage' = [usage EXCEPT ![r].delivered = v]
              \/ \E v : usage' = [usage EXCEPT ![r].started = v]
              \/ \E v : usage' = [usage EXCEPT ![r].force = v]
              \/ \E v : usage' = [usage EXCEPT ![r] = Finished(r, v)]
          BY <4>5 DEF Deliver, DeliverNothing, ChatRaises, GuardedRaises, StreamBegins,
                      NotAdmitted, EngineRaises, StreamFinished, TextChunk, Recovery,
                      ProviderCall, EngineEnds
        <5> QED
          BY <5>1, TicketKept
      <4> QED
        BY <3>1, <4>1, <4>2, <4>3, <4>4, <4>5 DEF Work
    <3>2. CASE \/ \E r \in Requests, a \in Args : Accept(r, a)
               \/ Database \/ Restart \/ UNCHANGED vars \/ \E m \in wire : CallLost(m)
      BY <3>2 DEF Accept, Database, DbConsume, DbRefund, Answer, Restart, vars, CallLost
    <3> QED
      BY <3>1, <3>2 DEF Next
  <2> QED
    BY <2>1, <2>2 DEF RequestsInv, Ticketed, FailsClosed
<1> QED
  BY <1>1, <1>2, SettlementCorrect, PTL DEF SafeSpec, SettlementInv

-----------------------------------------------------------------------------
(* Undisturbed requests.  Without a loss, a departure or a restart each call is  *)
(* answered while its request waits for it, and a collector without text has a  *)
(* reason for a refund by the time it is settled.                             *)

GivenBack(r) == \A x \in Own(r) : x.refunded

Hopeless(c) == c.force \/ (c.records # {} /\ "success" \notin c.records)

\* Where the own row of a request stands.
RowInPlace(r) ==
  /\ pc[r] \notin {"compensating", "lost"}
  /\ pc[r] = "idle" => Own(r) = {} /\ \A m \in wire : m.req # r
  /\ pc[r] \notin {"consuming", "refunding"} => reply[r] = "none"
  /\ reply[r] = "denied" => pc[r] # "refunding" /\ Own(r) = {}
  /\ (pc[r] = "refunding" /\ reply[r] # "none") => GivenBack(r)
  /\ (pc[r] = "ended" /\ ~usage[r].delivered) => GivenBack(r)

\* What the collector says at each place.
CollectorInPlace(r) ==
  /\ pc[r] \notin {"refunding", "ended"} => usage[r].attempts = 0 /\ ~usage[r].done
  /\ pc[r] \in {"working", "answered", "opening"} => ~usage[r].started
  /\ pc[r] = "closing" => usage[r].finished
  /\ (pc[r] = "settling" /\ usage[r].started) => usage[r].finished
  /\ (pc[r] = "working" /\ Streams(r)) => usage[r].records = {}
  /\ pc[r] = "answered" => usage[r].records # {}
  /\ (pc[r] \in {"opening", "admission", "generating"} /\ ~usage[r].delivered)
       => usage[r].records = {}
  /\ (pc[r] \in {"finishing", "closing", "settling"} /\ ~usage[r].delivered)
       => Hopeless(usage[r])

\* A call on its way is the one its request waits for.
CallAwaited(m) ==
  /\ reply[m.req] = "none"
  /\ m.op = "consume" => pc[m.req] = "consuming" /\ m.n = 0 /\ Own(m.req) = {}
  /\ m.op = "refund" => pc[m.req] = "refunding" /\ m.n = usage[m.req].attempts

CalmInv ==
  /\ \A r \in Requests : RowInPlace(r) /\ CollectorInPlace(r)
  /\ \A m \in wire : CallAwaited(m)
  /\ \A x, y \in ledger : x.tok = y.tok => x = y

\* A step of one handler that sends nothing but its own next call.
LEMMA CalmHandlerStep ==
  ASSUME TypeOK, CalmInv, NEW r \in Requests, Others(r),
         \A q \in Requests \ {r} : args'[q] = args[q],
         ledger' = ledger,
         \A m \in wire' : m \in wire \/ m.req = r,
         RowInPlace(r)', CollectorInPlace(r)',
         \A m \in wire' : m.req = r => CallAwaited(m)'
  PROVE  CalmInv'
<1>1. ASSUME NEW q \in Requests, q # r PROVE RowInPlace(q)' /\ CollectorInPlace(q)'
  BY <1>1 DEF CalmInv, Others, RowInPlace, CollectorInPlace, GivenBack, Own, Streams
<1>2. ASSUME NEW m \in wire', m.req # r PROVE CallAwaited(m)'
  <2>1. m \in wire /\ m.req \in Requests
    BY <1>2 DEF TypeOK, Wire
  <2> QED
    BY <1>2, <2>1 DEF CalmInv, Others, CallAwaited, Own
<1> QED
  BY <1>1, <1>2 DEF CalmInv

\* The step of a handler at work.
LEMMA CalmWorkingStep ==
  ASSUME TypeOK, CalmInv, NEW r \in Requests, pc[r] \in AtWork \ {"refunding"},
         NEW place \in (AtWork \ {"refunding"}) \cup {"ended"}, Goto(r, place),
         \A q \in Requests \ {r} : usage'[q] = usage[q],
         UNCHANGED <<ledger, wire, reply, args>>,
         place = "ended" => usage'[r].delivered,
         CollectorInPlace(r)'
  PROVE  CalmInv'
<1>1. pc'[r] = place /\ \A q \in Requests \ {r} : pc'[q] = pc[q]
  BY DEF TypeOK, Goto
<1>2. Others(r)
  BY <1>1 DEF Others
<1>3. reply[r] = "none"
  BY DEF CalmInv, RowInPlace, AtWork
<1>4. RowInPlace(r)'
  BY <1>1, <1>3 DEF RowInPlace, AtWork
<1>5. \A m \in wire : m.req # r
  <2>1. \A m \in wire : m.op \in {"consume", "refund"}
    BY DEF TypeOK, Wire
  <2> QED
    BY <2>1 DEF CalmInv, CallAwaited, AtWork
<1> QED
  BY <1>2, <1>4, <1>5, CalmHandlerStep

LEMMA CalmAcceptStep ==
  ASSUME TypeOK, RequestsInv, CalmInv, NEW r \in Requests, NEW a \in Args, Accept(r, a)
  PROVE  CalmInv'
<1>1. /\ pc'[r] \in {"consuming", "ended"}
      /\ UNCHANGED <<ledger, usage, reply>>
      /\ \A m \in wire' \ wire : /\ m = [req |-> r, op |-> "consume", n |-> 0]
                                 /\ pc'[r] = "consuming"
      /\ wire \subseteq wire'
  BY DEF TypeOK, Accept, Goto
<1>2. /\ \A q \in Requests \ {r} : pc'[q] = pc[q]
      /\ \A q \in Requests \ {r} : args'[q] = args[q]
  BY DEF TypeOK, Accept, Goto
<1>3. pc[r] = "idle" /\ usage[r] = NewCollector
  BY DEF RequestsInv, Early, Accept
<1>4. reply[r] = "none" /\ Own(r) = {} /\ \A m \in wire : m.req # r
  BY <1>3 DEF CalmInv, RowInPlace
<1>5. Others(r)
  BY <1>1, <1>2 DEF Others
<1>6. RowInPlace(r)'
  BY <1>1, <1>4 DEF RowInPlace, GivenBack, Own
<1>7. CollectorInPlace(r)'
  BY <1>1, <1>3 DEF CollectorInPlace, NewCollector
<1>8. \A m \in wire' : m.req = r => CallAwaited(m)'
  BY <1>1, <1>4 DEF CallAwaited, Own
<1>9. \A m \in wire' : m \in wire \/ m.req = r
  BY <1>1
<1> QED
  BY <1>1, <1>2, <1>5, <1>6, <1>7, <1>8, <1>9, CalmHandlerStep

LEMMA CalmAllowedStep ==
  ASSUME TypeOK, RequestsInv, CalmInv, NEW r \in Requests, Allowed(r) \/ Denied(r)
  PROVE  CalmInv'
<1>0. usage[r] = NewCollector /\ pc[r] = "consuming"
  BY DEF RequestsInv, Early, Allowed, Denied
<1>1. /\ reply'[r] = "none" /\ pc'[r] \in {"working", "ended"}
      /\ pc'[r] = "ended" => reply[r] = "denied"
      /\ UNCHANGED <<ledger, wire, args>>
  BY DEF TypeOK, Allowed, Denied, Goto
<1>2. Others(r)
  BY DEF TypeOK, Allowed, Denied, Goto, Others
<1>3. usage'[r] = [usage[r] EXCEPT !.ticket = TRUE] \/ usage' = usage
  BY DEF TypeOK, Allowed, Denied
<1>4. CollectorInPlace(r)'
  BY <1>0, <1>1, <1>3 DEF CollectorInPlace, NewCollector
<1>5. \A m \in wire : m.req # r
  BY DEF CalmInv, CallAwaited, Allowed, Denied
<1>6. RowInPlace(r)'
  BY <1>1 DEF CalmInv, RowInPlace, GivenBack, Own
<1> QED
  BY <1>1, <1>2, <1>4, <1>5, <1>6, CalmHandlerStep

\* A settlement without text is due: the first attempt at the refund is sent.
LEMMA CalmSettleStep ==
  ASSUME TypeOK, RequestsInv, CalmInv, NEW r \in Requests, Settle(r)
  PROVE  CalmInv'
<1>0. /\ usage[r] \in Collector /\ pc[r] = "settling" /\ usage[r].ticket
      /\ reply[r] = "none" /\ \A m \in wire : m.req # r
  <2>1. \A m \in wire : m.op \in {"consume", "refund"}
    BY DEF TypeOK, Wire
  <2> QED
    BY <2>1 DEF TypeOK, RequestsInv, Ticketed, CalmInv, RowInPlace, CallAwaited, Settle, AtWork
<1>1. usage[r].attempts = 0 /\ ~usage[r].done
  BY <1>0 DEF CalmInv, CollectorInPlace
<1>2. CASE usage[r].delivered
  <2>1. ~RefundDue(usage[r])
    BY <1>2 DEF RefundDue
  <2>2. /\ pc'[r] = "ended" /\ wire' = wire /\ UNCHANGED <<ledger, args, reply>>
        /\ usage'[r].delivered /\ Others(r)
    BY <1>0, <1>2, <2>1 DEF TypeOK, Settle, Goto, Others, Collector
  <2>3. RowInPlace(r)' /\ CollectorInPlace(r)'
    BY <1>0, <2>2 DEF RowInPlace, CollectorInPlace
  <2> QED
    BY <1>0, <2>2, <2>3, CalmHandlerStep
<1>3. CASE ~usage[r].delivered
  <2>1. RefundDue(usage[r])
    BY <1>0, <1>3 DEF CalmInv, CollectorInPlace, Hopeless, RefundDue
  <2>2. /\ pc'[r] = "refunding"
        /\ wire' = wire \cup {[req |-> r, op |-> "refund", n |-> 1]}
        /\ UNCHANGED <<ledger, args, reply>>
        /\ usage'[r].attempts = 1 /\ Others(r)
    BY <1>0, <1>1, <2>1 DEF TypeOK, Settle, Goto, Others, Collector
  <2>3. RowInPlace(r)' /\ CollectorInPlace(r)'
    BY <1>0, <2>2 DEF RowInPlace, CollectorInPlace
  <2>4. \A m \in wire' : m.req = r => CallAwaited(m)'
    BY <1>0, <2>2 DEF CallAwaited
  <2>5. \A m \in wire' : m \in wire \/ m.req = r
    BY <2>2
  <2> QED
    BY <2>2, <2>3, <2>4, <2>5, CalmHandlerStep
<1> QED
  BY <1>2, <1>3

LEMMA CalmSettledStep ==
  ASSUME Calm, TypeOK, CalmInv, NEW r \in Requests, Settled(r)
  PROVE  CalmInv'
<1>0. /\ pc[r] = "refunding" /\ reply[r] # "none" /\ GivenBack(r)
      /\ \A m \in wire : m.req # r
  BY DEF CalmInv, RowInPlace, CallAwaited, Settled
<1>1. /\ pc'[r] = "ended" /\ reply'[r] = "none" /\ UNCHANGED <<ledger, wire, args>>
      /\ Others(r)
  BY DEF TypeOK, Settled, Goto, Others
<1>2. RowInPlace(r)' /\ CollectorInPlace(r)'
  BY <1>0, <1>1 DEF RowInPlace, CollectorInPlace, GivenBack, Own
<1> QED
  BY <1>0, <1>1, <1>2, CalmHandlerStep

\* The places a handler goes through between its ticket and its settlement.
LEMMA CalmWorkStep ==
  ASSUME Calm, "title" \notin Endpoints, "study" \notin Endpoints,
         TypeOK, RequestsInv, CalmInv, NEW r \in Requests,
         Work(r) \/ TextChunk(r) \/ Recovery(r) \/ StudentLeaves(r)
  PROVE  CalmInv'
<1>0. usage[r] \in Collector /\ CollectorInPlace(r) /\ RowInPlace(r)
  BY DEF TypeOK, CalmInv
<1>e. pc[r] # "idle" => args[r].endpoint \in Endpoints
  BY DEF TypeOK, Args
<1>1. ASSUME NEW status \in {"success", "error", "interrupted"}, ProviderCall(r, status)
      PROVE  CalmInv'
  <2>1. PICK place \in {"answered", "working"} : Goto(r, place)
    BY <1>1 DEF TypeOK, ProviderCall, Goto
  <2>2. /\ usage'[r] = [usage[r] EXCEPT !.records = @ \cup {status}]
        /\ \A q \in Requests \ {r} : usage'[q] = usage[q]
        /\ pc'[r] = place
    BY <1>1, <2>1 DEF TypeOK, ProviderCall, Goto
  <2>3. CollectorInPlace(r)'
    BY <1>0, <1>1, <2>2 DEF CollectorInPlace, Collector, ProviderCall, Streams
  <2> QED
    BY <1>1, <2>1, <2>2, <2>3, CalmWorkingStep DEF ProviderCall, AtWork
<1>2. ASSUME NEW status \in {"success", "error", "interrupted"}, EngineEnds(r, status)
      PROVE  CalmInv'
  <2>1. /\ usage'[r] = [usage[r] EXCEPT !.records = @ \cup {status}]
        /\ \A q \in Requests \ {r} : usage'[q] = usage[q]
        /\ pc'[r] = "finishing"
    BY <1>2 DEF TypeOK, EngineEnds, Goto
  <2>2. CollectorInPlace(r)'
    BY <1>0, <1>2, <2>1 DEF CollectorInPlace, Collector, EngineEnds, Hopeless
  <2> QED
    BY <1>2, <2>1, <2>2, CalmWorkingStep DEF EngineEnds, AtWork
<1>3. ASSUME Deliver(r) PROVE CalmInv'
  <2>1. /\ usage'[r] = [usage[r] EXCEPT !.delivered = TRUE]
        /\ \A q \in Requests \ {r} : usage'[q] = usage[q]
        /\ pc'[r] = "settling"
    BY <1>3 DEF TypeOK, Deliver, Goto
  <2>2. CollectorInPlace(r)'
    BY <1>0, <1>3, <2>1 DEF CollectorInPlace, Collector, Deliver
  <2> QED
    BY <1>3, <2>1, <2>2, CalmWorkingStep DEF Deliver, AtWork
<1>4. ASSUME DeliverNothing(r) PROVE CalmInv'
  <2>1. /\ usage'[r] = [usage[r] EXCEPT !.force = (args[r].endpoint = "quiz")]
        /\ \A q \in Requests \ {r} : usage'[q] = usage[q]
        /\ pc'[r] = "settling"
    BY <1>4 DEF TypeOK, DeliverNothing, Goto
  <2>2. args[r].endpoint = "quiz" \/ (args[r].endpoint = "chat" /\ pc[r] = "answered" /\ ~HasText(r))
    BY <1>e, <1>4 DEF DeliverNothing
  <2>3. args[r].endpoint # "quiz" => usage[r].records # {} /\ "success" \notin usage[r].records
    BY <1>0, <2>2 DEF CollectorInPlace, HasText
  <2>4. /\ usage'[r].force = (args[r].endpoint = "quiz")
        /\ usage'[r].records = usage[r].records
        /\ usage'[r].attempts = usage[r].attempts /\ usage'[r].done = usage[r].done
        /\ usage'[r].started = usage[r].started
    BY <1>0, <2>1 DEF Collector
  <2>5. Hopeless(usage'[r])
    BY <2>3, <2>4 DEF Hopeless
  <2>6. ~usage[r].started /\ usage[r].attempts = 0 /\ ~usage[r].done
    BY <1>0, <1>4 DEF CollectorInPlace, DeliverNothing
  <2>7. CollectorInPlace(r)'
    BY <2>1, <2>4, <2>5, <2>6 DEF CollectorInPlace
  <2> QED
    BY <1>4, <2>1, <2>7, CalmWorkingStep DEF DeliverNothing, AtWork
<1>5. ASSUME ChatRaises(r) \/ GuardedRaises(r) PROVE CalmInv'
  <2>1. /\ usage'[r] = [usage[r] EXCEPT !.force = TRUE]
        /\ \A q \in Requests \ {r} : usage'[q] = usage[q]
        /\ pc'[r] = "settling" /\ Goto(r, "settling")
        /\ pc[r] \in {"working", "answered"} /\ UNCHANGED <<ledger, wire, reply, args>>
    BY <1>5 DEF TypeOK, ChatRaises, GuardedRaises, Goto
  <2>2. CollectorInPlace(r)'
    BY <1>0, <2>1 DEF CollectorInPlace, Collector, Hopeless
  <2> QED
    BY <2>1, <2>2, CalmWorkingStep DEF AtWork
<1>6. ASSUME NoteGone(r) PROVE CalmInv'
  BY <1>e, <1>6 DEF NoteGone
<1>7. ASSUME StreamReady(r) PROVE CalmInv'
  <2>1. usage' = usage /\ pc'[r] = "opening"
    BY <1>7 DEF TypeOK, StreamReady, Goto
  <2>2. CollectorInPlace(r)'
    BY <1>0, <1>7, <2>1 DEF CollectorInPlace, StreamReady
  <2> QED
    BY <1>7, <2>1, <2>2, CalmWorkingStep DEF StreamReady, AtWork
<1>8. ASSUME StreamBegins(r) PROVE CalmInv'
  <2>1. /\ usage'[r] = [usage[r] EXCEPT !.started = TRUE]
        /\ \A q \in Requests \ {r} : usage'[q] = usage[q]
        /\ pc'[r] = "admission"
    BY <1>8 DEF TypeOK, StreamBegins, Goto
  <2>2. CollectorInPlace(r)'
    BY <1>0, <1>8, <2>1 DEF CollectorInPlace, Collector, StreamBegins
  <2> QED
    BY <1>8, <2>1, <2>2, CalmWorkingStep DEF StreamBegins, AtWork
<1>9. ASSUME Admitted(r) PROVE CalmInv'
  <2>1. usage' = usage /\ pc'[r] = "generating"
    BY <1>9 DEF TypeOK, Admitted, Goto
  <2>2. CollectorInPlace(r)'
    BY <1>0, <1>9, <2>1 DEF CollectorInPlace, Admitted
  <2> QED
    BY <1>9, <2>1, <2>2, CalmWorkingStep DEF Admitted, AtWork
<1>10. ASSUME NotAdmitted(r) \/ EngineRaises(r) PROVE CalmInv'
  <2>1. /\ usage'[r] = Finished(r, TRUE)
        /\ \A q \in Requests \ {r} : usage'[q] = usage[q]
        /\ pc'[r] = "closing" /\ Goto(r, "closing")
        /\ pc[r] \in {"admission", "generating"} /\ UNCHANGED <<ledger, wire, reply, args>>
    BY <1>10 DEF TypeOK, NotAdmitted, EngineRaises, Goto
  <2>2. CollectorInPlace(r)'
    BY <1>0, <2>1 DEF CollectorInPlace, Collector, Finished, Hopeless
  <2> QED
    BY <2>1, <2>2, CalmWorkingStep DEF AtWork
<1>11. ASSUME StreamFinished(r) PROVE CalmInv'
  <2>1. /\ usage'[r] = Finished(r, FALSE)
        /\ \A q \in Requests \ {r} : usage'[q] = usage[q]
        /\ pc'[r] = "closing"
    BY <1>11 DEF TypeOK, StreamFinished, Goto
  <2>2. /\ usage'[r].records = usage[r].records /\ usage'[r].delivered = usage[r].delivered
        /\ usage'[r].attempts = usage[r].attempts /\ usage'[r].done = usage[r].done
        /\ usage'[r].finished = TRUE
        /\ usage'[r].force = (usage[r].force \/ FALSE)
    BY <1>0, <2>1 DEF Collector, Finished
  <2>3. Hopeless(usage[r]) => Hopeless(usage'[r])
    BY <2>2 DEF Hopeless
  <2>4. pc[r] = "finishing"
    BY <1>11 DEF StreamFinished
  <2>5. CollectorInPlace(r)'
    BY <1>0, <2>1, <2>2, <2>3, <2>4 DEF CollectorInPlace
  <2> QED
    BY <1>11, <2>1, <2>5, CalmWorkingStep DEF StreamFinished, AtWork
<1>12. ASSUME StreamEnds(r) PROVE CalmInv'
  <2>1. usage' = usage /\ pc'[r] = "settling"
    BY <1>12 DEF TypeOK, StreamEnds, Goto
  <2>2. CollectorInPlace(r)'
    BY <1>0, <1>12, <2>1 DEF CollectorInPlace, StreamEnds
  <2> QED
    BY <1>12, <2>1, <2>2, CalmWorkingStep DEF StreamEnds, AtWork
<1>13. ASSUME TextChunk(r) \/ Recovery(r) PROVE CalmInv'
  <2>1. /\ \/ usage'[r] = [usage[r] EXCEPT !.delivered = TRUE]
           \/ /\ usage[r].delivered
              /\ usage'[r] = [usage[r] EXCEPT !.records = @ \cup {"interrupted"}]
        /\ \A q \in Requests \ {r} : usage'[q] = usage[q]
        /\ pc[r] = "generating" /\ Goto(r, "generating") /\ pc' = pc
        /\ UNCHANGED <<ledger, wire, reply, args>>
    BY <1>13 DEF TypeOK, TextChunk, Recovery, Goto
  <2>2. CollectorInPlace(r)'
    BY <1>0, <2>1 DEF CollectorInPlace, Collector
  <2> QED
    BY <2>1, <2>2, CalmWorkingStep DEF AtWork
<1>14. ~ConsumeFails(r) /\ ~StudentLeaves(r) /\ ~Refuse(r)
  BY <1>0 DEF ConsumeFails, StudentLeaves, Refuse, RowInPlace
<1> QED
  BY <1>1, <1>2, <1>3, <1>4, <1>5, <1>6, <1>7, <1>8, <1>9, <1>10, <1>11, <1>12, <1>13, <1>14,
     CalmAllowedStep, CalmSettleStep, CalmSettledStep DEF Work

\* The answer of a call reaches its request, and nothing else of it is on its way.
LEMMA CalmAnswer ==
  ASSUME TypeOK, CalmInv, NEW m \in wire, NEW a, a # "none", Answer(m, a)
  PROVE  /\ m.req \in Requests
         /\ reply'[m.req] = a /\ \A q \in Requests \ {m.req} : reply'[q] = reply[q]
         /\ m.op = "consume" => pc[m.req] = "consuming" /\ Own(m.req) = {}
         /\ m.op = "refund" => pc[m.req] = "refunding"
         /\ \A w \in wire' : w \in wire /\ w.req # m.req
         /\ UNCHANGED <<pc, args, usage>>
<1>1. m \in Wire /\ m.req \in Requests /\ CallAwaited(m)
  BY DEF TypeOK, Wire, CalmInv
<1>2. m = [req |-> m.req, op |-> m.op, n |-> m.n] /\ m.op \in {"consume", "refund"}
  BY <1>1 DEF Wire
<1>3. m \in CallOf(m.req)
  BY <1>1, <1>2 DEF CallOf, CallAwaited
<1>4. reply'[m.req] = a /\ \A q \in Requests \ {m.req} : reply'[q] = reply[q]
  BY <1>1, <1>3 DEF TypeOK, Answer
<1>5. ASSUME NEW w \in wire, w.req = m.req PROVE w = m
  <2>1. w \in Wire /\ CallAwaited(w)
    BY DEF TypeOK, CalmInv
  <2>2. w = [req |-> w.req, op |-> w.op, n |-> w.n] /\ w.op \in {"consume", "refund"}
    BY <2>1 DEF Wire
  <2>3. w.op = m.op /\ w.n = m.n
    BY <1>1, <1>2, <1>5, <2>1, <2>2 DEF CallAwaited
  <2> QED
    BY <1>2, <1>5, <2>2, <2>3
<1> QED
  BY <1>1, <1>4, <1>5 DEF Answer, CallAwaited

LEMMA CalmDatabaseStep ==
  ASSUME TypeOK, RowsFit, CalmInv, NEW m \in wire, DbConsume(m) \/ DbRefund(m)
  PROVE  CalmInv'
<1> DEFINE r == m.req
<1>1. ASSUME NEW a, a # "none", Answer(m, a),
             \A q \in Requests \ {r} : Own(q)' = Own(q),
             \A x, y \in ledger' : x.tok = y.tok => x = y,
             m.op = "consume" => a # "denied" \/ Own(r)' = {},
             m.op = "refund" => a # "denied" /\ GivenBack(r)',
             m.op \in {"consume", "refund"}
      PROVE  CalmInv'
  <2>1. /\ r \in Requests /\ reply'[r] = a
        /\ \A q \in Requests \ {r} : reply'[q] = reply[q]
        /\ m.op = "consume" => pc[r] = "consuming"
        /\ m.op = "refund" => pc[r] = "refunding"
        /\ \A w \in wire' : w \in wire /\ w.req # r
        /\ UNCHANGED <<pc, args, usage>>
    BY <1>1, CalmAnswer
  <2>2. ASSUME NEW q \in Requests, q # r PROVE RowInPlace(q)'
    BY <1>1, <2>1, <2>2 DEF CalmInv, RowInPlace, GivenBack
  <2>3. RowInPlace(r)'
    BY <1>1, <2>1 DEF RowInPlace
  <2>4. \A q \in Requests : CollectorInPlace(q)'
    BY <2>1 DEF CalmInv, CollectorInPlace, Streams
  <2>5. ASSUME NEW w \in wire' PROVE CallAwaited(w)'
    <3>1. w \in wire /\ w.req # r /\ w.req \in Requests
      BY <2>1 DEF TypeOK, Wire
    <3> QED
      BY <1>1, <2>1, <3>1 DEF CalmInv, CallAwaited
  <2> QED
    BY <1>1, <2>2, <2>3, <2>4, <2>5 DEF CalmInv
<1>0. /\ r \in Requests /\ CallAwaited(m) /\ m.op \in {"consume", "refund"}
      /\ \A x, y \in ledger : x.tok = y.tok => x = y
      /\ m.op = "consume" => Own(r) = {}
  BY DEF TypeOK, Wire, CalmInv, CallAwaited
<1>2. CASE Answer(m, "allowed") /\ m.op = "consume" /\ ledger' = ledger \cup {RowFor(r)}
  <2>1. RowFor(r).tok = r
    BY DEF RowFor
  <2>2. \A q \in Requests \ {r} : Own(q)' = Own(q)
    BY <1>2, <2>1 DEF Own
  <2>3. \A x \in ledger : x.tok # r
    BY <1>0, <1>2 DEF Own
  <2>4. \A x, y \in ledger' : x.tok = y.tok => x = y
    BY <1>0, <1>2, <2>1, <2>3
  <2> QED
    BY <1>0, <1>1, <1>2, <2>2, <2>4
<1>3. ASSUME NEW a \in {"allowed", "denied"}, Answer(m, a), m.op = "consume", ledger' = ledger
      PROVE  CalmInv'
  <2>1. \A q : Own(q)' = Own(q)
    BY <1>3 DEF Own
  <2> QED
    BY <1>0, <1>1, <1>3, <2>1
<1>4. ASSUME Answer(m, "not_refunded"), m.op = "refund", ledger' = ledger,
             \A x \in RowsOf(r) : x.tok = r => x.refunded
      PROVE  CalmInv'
  <2>1. \A q : Own(q)' = Own(q)
    BY <1>4 DEF Own
  <2>2. GivenBack(r)'
    BY <1>4, <2>1 DEF GivenBack, Own, RowsFit
  <2> QED
    BY <1>0, <1>1, <1>4, <2>1, <2>2
<1>5. ASSUME NEW x \in ledger, x.tok = r, Answer(m, "refunded"), m.op = "refund",
             ledger' = (ledger \ {x}) \cup {[x EXCEPT !.refunded = TRUE]}
      PROVE  CalmInv'
  <2> DEFINE y == [x EXCEPT !.refunded = TRUE]
  <2>1. y.tok = r /\ y.refunded
    BY <1>5 DEF TypeOK, Row
  <2> HIDE DEF y
  <2>2. ledger' = (ledger \ {x}) \cup {y}
    BY <1>5 DEF y
  <2>3. \A q \in Requests \ {r} : Own(q)' = Own(q)
    BY <1>5, <2>1, <2>2 DEF Own
  <2>4. \A z \in ledger : z.tok = r => z = x
    BY <1>0, <1>5
  <2>5. Own(r)' = {y}
    BY <2>1, <2>2, <2>4 DEF Own
  <2>6. \A v, w \in ledger' : v.tok = w.tok => v = w
    BY <1>0, <2>1, <2>2, <2>4
  <2>7. GivenBack(r)'
    BY <2>1, <2>5 DEF GivenBack
  <2> QED
    BY <1>0, <1>1, <1>5, <2>3, <2>6, <2>7
<1>6. CASE DbConsume(m)
  BY <1>2, <1>3, <1>6 DEF DbConsume, Meter!Count
<1>7. CASE DbRefund(m)
  <2>1. CASE \E x \in {z \in RowsOf(r) : z.tok = r /\ ~z.refunded} :
               Meter!GiveBack(x, r) /\ Answer(m, "refunded")
    BY <1>5, <1>7, <2>1 DEF DbRefund, Meter!GiveBack, RowsOf
  <2>2. CASE {z \in RowsOf(r) : z.tok = r /\ ~z.refunded} = {}
             /\ Answer(m, "not_refunded") /\ ledger' = ledger
    BY <1>4, <1>7, <2>2 DEF DbRefund
  <2> QED
    BY <1>7, <2>1, <2>2 DEF DbRefund
<1> QED
  BY <1>6, <1>7

LEMMA StepKeepsCalm ==
  ASSUME Calm, "title" \notin Endpoints, "study" \notin Endpoints,
         TypeOK, RequestsInv, RowsFit, CalmInv, [Next]_vars
  PROVE  CalmInv'
<1>1. ~Restart /\ \A m \in wire : ~CallLost(m)
  BY DEF Restart, CallLost
<1>2. CASE UNCHANGED vars
  BY <1>2 DEF vars, CalmInv, RowInPlace, CollectorInPlace, CallAwaited, GivenBack, Own, Streams
<1> QED
  BY <1>1, <1>2, CalmAcceptStep, CalmWorkStep, CalmDatabaseStep DEF Next, Database

\* Where no call is lost, nobody leaves and nothing restarts, an answer without text
\* costs nothing once the request is over, for every endpoint but the two that
\* deliver "null" or a 404 without asking for the unit back.
THEOREM UnusableCorrect ==
  ASSUME "title" \notin Endpoints, "study" \notin Endpoints
  PROVE  SafeSpec => []NothingUsableIsRefunded
<1>1. CASE Calm
  <2>1. Init => CalmInv
    BY DEF Init, Meter!Init, CalmInv, RowInPlace, CollectorInPlace, Own, NewCollector
  <2>2. TypeOK /\ RequestsInv /\ RowsFit /\ CalmInv /\ [Next]_vars => CalmInv'
    BY <1>1, StepKeepsCalm
  <2>3. CalmInv => NothingUsableIsRefunded
    BY DEF CalmInv, RowInPlace, GivenBack, NothingUsableIsRefunded
  <2> QED
    BY <2>1, <2>2, <2>3, SettlementCorrect, UnitsCorrect, PTL DEF SafeSpec, SettlementInv
<1>2. CASE ~Calm
  <2>1. NothingUsableIsRefunded
    BY <1>2 DEF NothingUsableIsRefunded
  <2> QED
    BY <2>1, PTL
<1> QED
  BY <1>1, <1>2, SettlementAssumption
=============================================================================
