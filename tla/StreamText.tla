------------------------------ MODULE StreamText ------------------------------
(***************************************************************************)
(* findSafeBoundary: how much of an answer that is still being streamed may   *)
(* be rendered, the rest is shown as plain text until its construct is       *)
(* closed.  The text is a sequence of characters, by name, and grows one by one.  *)
(***************************************************************************)
EXTENDS Integers, Sequences, FiniteSets

CONSTANTS
  Alphabet,    \* characters a text is made of
  MaxLength    \* bound: characters of a text

VARIABLE text

\* Opening and closing delimiters, in the order in which they are tried.
Delimiters ==
  << [open |-> <<"lt", "bang", "dash", "dash">>, close |-> <<"dash", "dash", "gt">>],
     [open |-> <<"tick", "tick", "tick">>, close |-> <<"tick", "tick", "tick">>],
     [open |-> <<"dollar", "dollar">>, close |-> <<"dollar", "dollar">>],
     [open |-> <<"back", "lbrk">>, close |-> <<"back", "rbrk">>],
     [open |-> <<"back", "lpar">>, close |-> <<"back", "rpar">>],
     [open |-> <<"dollar">>, close |-> <<"dollar">>],
     [open |-> <<"tick">>, close |-> <<"tick">>],
     [open |-> <<"star", "star">>, close |-> <<"star", "star">>] >>

\* AMBIGUOUS_TRAILING
Ambiguous == {"tick", "star", "dollar", "back", "under", "tilde", "lt", "bang", "dash"}

StartsWith(t, i, d) == i + Len(d) - 1 <= Len(t) /\ SubSeq(t, i, i + Len(d) - 1) = d

Tried(t, i) == {k \in DOMAIN Delimiters : StartsWith(t, i, Delimiters[k].open)}

\* The positions after a closing delimiter that is found from position i on.
Closed(t, i, d) == {j + Len(d) : j \in {n \in i..Len(t) : StartsWith(t, n, d)}}

Least(S) == CHOOSE n \in S : \A m \in S : n <= m

\* Where the scan goes on after the construct or the plain character at i: 0 if
\* the construct is open.
Advance(t, i) ==
  IF Tried(t, i) = {} THEN i + 1
  ELSE LET d == Delimiters[Least(Tried(t, i))]
           after == Closed(t, i + Len(d.open), d.close)
       IN  IF after = {} THEN 0 ELSE Least(after)

\* From position i on, with everything before it complete: the scan ends at a
\* construct that is open, and then at the end of the text.
SafeLength(t, i) ==
  LET safe[n \in 1..Len(t) + 1] ==
        IF n > Len(t) THEN Len(t)
        ELSE IF Advance(t, n) = 0 THEN n - 1 ELSE safe[Advance(t, n)]
  IN  safe[i]

\* _clampTrailingDelimiters: not into a run of delimiters at the very end.
Unambiguous(t) ==
  LET plain == {n \in DOMAIN t : t[n] \notin Ambiguous} IN
  IF plain = {} THEN 0 ELSE CHOOSE n \in plain : \A m \in plain : m <= n

\* Mutant: a complete span at the end is taken for what it looks like so far.
Unclamped(t, n) == n

ClampTrailingDelimiters(t, n) == IF n < Unambiguous(t) THEN n ELSE Unambiguous(t)

FindSafeBoundary(t) == ClampTrailingDelimiters(t, SafeLength(t, 1))

-----------------------------------------------------------------------------
TextInit == text = <<>>

TextArrives == Len(text) < MaxLength /\ \E ch \in Alphabet : text' = Append(text, ch)

TextSpec == TextInit /\ [][TextArrives]_text

-----------------------------------------------------------------------------
\* "Guarantees the boundary only ever grows": what was rendered once is never
\* taken back, into whatever chunks the text is cut and whatever they turn an
\* open construct into.
BoundaryGrows ==
  \A n \in 0..Len(text) : FindSafeBoundary(SubSeq(text, 1, n)) <= FindSafeBoundary(text)
=============================================================================
