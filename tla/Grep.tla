-------------------------------- MODULE Grep --------------------------------
(***************************************************************************)
(* user/grep.c: the matcher of Kernighan and Pike, and the loop that reads *)
(* the input in pieces and matches it line by line.  Characters are        *)
(* strings of length one, "n" is the newline.  read() hands over as much   *)
(* or as little as it likes (a pipe does), up to the room in the buffer.   *)
(***************************************************************************)
EXTENDS Integers, SequencesExt, FiniteSetsExt

CONSTANTS ReChar,    \* the characters of patterns
          TextChar,  \* the characters of the input, "n" among them
          MaxRe,     \* bound: the longest pattern
          MaxText,   \* bound: the longest input
          BUFSIZE    \* sizeof(buf)

VARIABLES gr,   \* re, and the input that is still to be read
          buf,  \* the m characters in the buffer; "n" ends a line
          out   \* the lines written to descriptor 1

vars == <<gr, buf, out>>

RECURSIVE Matchhere(_, _), Matchstar(_, _, _)

Matchstar(c, re, text) ==
  \/ Matchhere(re, text)
  \/ text # <<>> /\ (Head(text) = c \/ c = ".") /\ Matchstar(c, re, Tail(text))

Matchhere(re, text) ==
  IF re = <<>> THEN TRUE
  ELSE IF Len(re) > 1 /\ re[2] = "*" THEN Matchstar(re[1], SubSeq(re, 3, Len(re)), text)
  ELSE IF re = <<"$">> THEN text = <<>>
  ELSE text # <<>> /\ re[1] \in {".", Head(text)} /\ Matchhere(Tail(re), Tail(text))

Match(re, text) ==
  IF re # <<>> /\ re[1] = "^" THEN Matchhere(Tail(re), text)
  ELSE \E i \in 1 .. Len(text) + 1 : Matchhere(re, SubSeq(text, i, Len(text)))

-----------------------------------------------------------------------------
Strings(chars, max) == UNION {[1 .. n -> chars] : n \in 0 .. max}

\* The lines of a text that a newline ends, and what follows the last newline.
RECURSIVE Lines(_)
Lines(s) ==
  LET ends == {i \in DOMAIN s : s[i] = "n"} IN
  IF ends = {} THEN <<>> ELSE <<SubSeq(s, 1, Min(ends) - 1)>> \o Lines(SubSeq(s, Min(ends) + 1, Len(s)))
Unended(s) == SubSeq(s, 1 + Max({0} \cup {i \in DOMAIN s : s[i] = "n"}), Len(s))

\* Mutant: what follows the last newline is not moved to the front of the buffer.
KeepNothing(s) == <<>>

\* What the loop leaves in the buffer for the next read.
Keep(s) == Unended(s)

Init == gr = [state |-> "idle", re |-> <<>>, input |-> <<>>, all |-> <<>>] /\ buf = <<>> /\ out = <<>>

\* grep(pattern, fd) is called.
Start ==
  /\ gr.state = "idle"
  /\ \E re \in Strings(ReChar, MaxRe), s \in Strings(TextChar, MaxText) :
       gr' = [state |-> "read", re |-> re, input |-> s, all |-> s]
  /\ UNCHANGED <<buf, out>>

\* One turn of the while loop: read n characters, write the lines that match.
Read ==
  /\ gr.state = "read"
  /\ \E n \in 1 .. Min({Len(gr.input), BUFSIZE - Len(buf) - 1}) :
       LET s == buf \o SubSeq(gr.input, 1, n) IN
       /\ gr' = [gr EXCEPT !.input = SubSeq(gr.input, n + 1, Len(gr.input))]
       /\ out' = out \o SelectSeq(Lines(s), LAMBDA l : Match(gr.re, l))
       /\ buf' = Keep(s)

\* read returned 0: no input left, or no room in the buffer.
Return ==
  /\ gr.state = "read" /\ Min({Len(gr.input), BUFSIZE - Len(buf) - 1}) = 0
  /\ gr' = [gr EXCEPT !.state = "done"] /\ UNCHANGED <<buf, out>>

Again == gr.state = "done" /\ gr' = [state |-> "idle", re |-> <<>>, input |-> <<>>, all |-> <<>>] /\ buf' = <<>> /\ out' = <<>>

Next == Start \/ Read \/ Return \/ Again

Spec == Init /\ [][Next]_vars

-----------------------------------------------------------------------------
\* The reference for a pattern: a sequence of atoms, each one character or any
\* number of them, found somewhere in the text, at its start with ^, at its end
\* with $.
RECURSIVE Atoms(_)
Atoms(re) ==
  IF re = <<>> THEN <<>>
  ELSE IF Len(re) > 1 /\ re[2] = "*" THEN <<[c |-> re[1], many |-> TRUE]>> \o Atoms(SubSeq(re, 3, Len(re)))
  ELSE <<[c |-> re[1], many |-> FALSE]>> \o Atoms(Tail(re))

\* cut[i] .. cut[i + 1] - 1 is the part of the text that atom i matches.
Fits(a, text, from, to) ==
  (a.many \/ to = from + 1) /\ \A i \in from .. to - 1 : a.c \in {".", text[i]}
Found(re, text) ==
  LET start == re # <<>> /\ re[1] = "^"
      all == Atoms(IF start THEN Tail(re) ELSE re)
      end == all # <<>> /\ Last(all) = [c |-> "$", many |-> FALSE]
      atoms == IF end THEN Front(all) ELSE all IN
  \E cut \in [1 .. Len(atoms) + 1 -> 1 .. Len(text) + 1] :
    /\ \A i \in 1 .. Len(atoms) : cut[i] <= cut[i + 1] /\ Fits(atoms[i], text, cut[i], cut[i + 1])
    /\ start => cut[1] = 1
    /\ end => cut[Len(atoms) + 1] = Len(text) + 1

\* The lines before the first one that does not fit into the buffer.
Fitting(lines) ==
  LET long == {i \in DOMAIN lines : Len(lines[i]) + 1 > BUFSIZE - 1} IN
  IF long = {} THEN lines ELSE SubSeq(lines, 1, Min(long) - 1)

\* However read() cuts the input up, grep writes exactly the lines that match, in
\* order; it stops without a word at a line longer than its buffer, and never looks
\* at a last line that has no newline (grep.c:17).
GrepWritesMatches ==
  gr.state = "done" => out = SelectSeq(Fitting(Lines(gr.all)), LAMBDA l : Found(gr.re, l))
=============================================================================
