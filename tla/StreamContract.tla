----------------------------- MODULE StreamContract -----------------------------
(***************************************************************************)
(* What a streamed answer promises the student's page, whatever the provider *)
(* does: pieces of text, at most one "retry" that starts the answer over, and  *)
(* one terminal event.  "done" and "interrupted" carry exactly the text on     *)
(* display; an "error" never replaces text the student can see.               *)
(***************************************************************************)
EXTENDS Naturals, Sequences

CONSTANTS
  Requests,  \* the streams
  Pieces     \* pieces of generated text

VARIABLES
  shown,    \* the text on display
  retried,  \* the answer was started over
  ended     \* the terminal event and its text

contractVars == <<shown, retried, ended>>

Open == [kind |-> "none", text |-> <<>>]

Init ==
  /\ shown = [r \in Requests |-> <<>>]
  /\ retried = [r \in Requests |-> FALSE]
  /\ ended = [r \in Requests |-> Open]

Show(r, piece) ==
  /\ ended[r] = Open
  /\ shown' = [shown EXCEPT ![r] = Append(@, piece)]
  /\ UNCHANGED <<retried, ended>>

StartOver(r) ==
  /\ ended[r] = Open
  /\ ~retried[r]
  /\ shown[r] # <<>>
  /\ shown' = [shown EXCEPT ![r] = <<>>]
  /\ retried' = [retried EXCEPT ![r] = TRUE]
  /\ UNCHANGED ended

End(r, kind) ==
  /\ ended[r] = Open
  /\ kind = "error" <=> shown[r] = <<>>
  /\ ended' = [ended EXCEPT ![r] = [kind |-> kind, text |-> shown[r]]]
  /\ UNCHANGED <<shown, retried>>

Next ==
  \E r \in Requests :
    \/ \E piece \in Pieces : Show(r, piece)
    \/ StartOver(r)
    \/ \E kind \in {"done", "interrupted", "error"} : End(r, kind)

Spec == Init /\ [][Next]_contractVars
=============================================================================
