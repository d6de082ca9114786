------------------------------ MODULE QuotaMeter ------------------------------
(***************************************************************************)
(* What the quota tables promise to the application, free of locks and      *)
(* transactions: a unit is counted in one step, only for a request id that  *)
(* was never counted before and only below a limit the student's plans set, *)
(* and only the holder of its token gives it back, once.                    *)
(***************************************************************************)
EXTENDS QuotaPlans

VARIABLES
  ledger,  \* rows of quota_ledger
  subs     \* rows of subscriptions

meterVars == <<ledger, subs>>

Init ==
  /\ ledger = {}
  /\ subs = {}

\* A request is counted.
Count(row) ==
  /\ row \in Row
  /\ ~row.refunded
  /\ \A r \in ledger : ~SameRequest(r, row.user, row.kind, row.req)
  /\ WithinLimit(subs, row.user, row.kind, row.key,
                 Cardinality(Counted(ledger, row.user, row.kind, row.key)) + 1)
  /\ ledger' = ledger \cup {row}
  /\ UNCHANGED subs

\* A counted request is given back to the caller that knows its token.
GiveBack(row, tok) ==
  /\ row \in ledger
  /\ ~row.refunded
  /\ tok \in Tokens
  /\ row.tok = tok
  /\ ledger' = (ledger \ {row}) \cup {[row EXCEPT !.refunded = TRUE]}
  /\ UNCHANGED subs

\* A payment extends the plan of a student.
Subscribe(s) ==
  /\ s \in Subscription
  /\ subs' = subs \cup {s}
  /\ UNCHANGED ledger

Next ==
  \/ \E row \in ledger' \ ledger : Count(row)
  \/ \E row \in ledger, tok \in Tokens : GiveBack(row, tok)
  \/ \E s \in subs' \ subs : Subscribe(s)

Spec == Init /\ [][Next]_meterVars
=============================================================================
