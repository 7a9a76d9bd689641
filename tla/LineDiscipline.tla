--------------------------- MODULE LineDiscipline ---------------------------
(***************************************************************************)
(* What console.c promises of the keyboard: characters are edited in a     *)
(* line, the line is handed over as a whole by newline, ^D or when the     *)
(* room N is used up, and what was handed over can only be read, in order. *)
(***************************************************************************)
EXTENDS Naturals, Sequences
CONSTANTS N, Char, LineEnd
VARIABLES committed, line

Init == committed = <<>> /\ line = <<>>

Type(c) ==
  /\ Len(committed) + Len(line) < N
  /\ IF c \in LineEnd \/ Len(committed) + Len(line) = N - 1
       THEN committed' = committed \o Append(line, c) /\ line' = <<>>
       ELSE line' = Append(line, c) /\ UNCHANGED committed

Erase(k) ==
  /\ k \in 1 .. Len(line)
  /\ line' = SubSeq(line, 1, Len(line) - k)
  /\ UNCHANGED committed

Get ==
  /\ committed # <<>>
  /\ committed' = Tail(committed)
  /\ UNCHANGED line

\* One character, or the whole line, is taken back.
Next == (\E c \in Char : Type(c)) \/ Erase(1) \/ Erase(Len(line)) \/ Get

Spec == Init /\ [][Next]_<<committed, line>>
=============================================================================
