------------------------------- MODULE Shell -------------------------------
(***************************************************************************)
(* The shell, user/sh.c: the recursive-descent parser, and runcmd with the *)
(* processes and descriptors a command line becomes.                       *)
(*                                                                         *)
(* A line is a sequence of tokens: "a" is a word, "+" is >>.  Words are    *)
(* told apart by their place in the line.  A command is a tuple headed by  *)
(* its type.  runcmd is a function from a command and a descriptor table   *)
(* to the processes it starts, each with the table it ends up with.        *)
(***************************************************************************)
EXTENDS Integers, SequencesExt, FiniteSets

CONSTANTS Token,    \* the tokens lines are made of
          MaxLine,  \* bound: the longest line
          MAXARGS,
          NOFILE

VARIABLE sh   \* the line that was typed, what parsecmd made of it, and the words
              \* that open() fails for

Gettoken(s, i) == IF i <= Len(s) THEN s[i] ELSE "end"
Peek(s, i, toks) == Gettoken(s, i) \in toks

Execcmd == <<"exec", <<>>>>
Redircmd(c, mode, file) == <<"redir", c, mode, file>>
Pipecmd(left, right) == <<"pipe", left, right>>
Listcmd(left, right) == <<"list", left, right>>
Backcmd(c) == <<"back", c>>

\* A parser returns the command and the place of the next token; Bad is panic().
Bad == [cmd |-> <<"bad">>, at |-> 0]
IsBad(r) == r.cmd[1] = "bad"

RECURSIVE Parseline(_, _), Parsepipe(_, _), Parseredirs(_, _, _), Args(_, _, _, _), Backs(_, _), AddArg(_, _)

\* Each redirection wraps the command parsed so far.
Parseredirs(s, i, c) ==
  IF ~ Peek(s, i, {"<", ">", "+"}) THEN [cmd |-> c, at |-> i]
  ELSE IF Gettoken(s, i + 1) # "a" THEN Bad
  ELSE Parseredirs(s, i + 2, Redircmd(c, Gettoken(s, i), i + 1))

\* cmd->argv[argc] = q, with cmd inside the redirections that wrap it.
AddArg(c, q) == IF c[1] = "redir" THEN [c EXCEPT ![2] = AddArg(c[2], q)] ELSE [c EXCEPT ![2] = Append(c[2], q)]

\* The loop of parseexec.
Args(s, i, c, argc) ==
  IF Peek(s, i, {"|", ")", "&", ";", "end"}) THEN [cmd |-> c, at |-> i]
  ELSE IF Gettoken(s, i) # "a" \/ argc + 1 >= MAXARGS THEN Bad
  ELSE LET r == Parseredirs(s, i + 1, AddArg(c, i)) IN
       IF IsBad(r) THEN Bad ELSE Args(s, r.at, r.cmd, argc + 1)

Parseblock(s, i) ==
  LET r == Parseline(s, i + 1) IN
  IF IsBad(r) \/ ~ Peek(s, r.at, {")"}) THEN Bad ELSE Parseredirs(s, r.at + 1, r.cmd)

Parseexec(s, i) ==
  IF Peek(s, i, {"("}) THEN Parseblock(s, i)
  ELSE LET r == Parseredirs(s, i, Execcmd) IN IF IsBad(r) THEN Bad ELSE Args(s, r.at, r.cmd, 0)

Parsepipe(s, i) ==
  LET left == Parseexec(s, i) IN
  IF IsBad(left) \/ ~ Peek(s, left.at, {"|"}) THEN left
  ELSE LET right == Parsepipe(s, left.at + 1) IN
       IF IsBad(right) THEN Bad ELSE [cmd |-> Pipecmd(left.cmd, right.cmd), at |-> right.at]

\* The loop of parseline: every & puts what was parsed so far in the background.
Backs(s, r) == IF Peek(s, r.at, {"&"}) THEN Backs(s, [cmd |-> Backcmd(r.cmd), at |-> r.at + 1]) ELSE r

Parseline(s, i) ==
  LET first == Parsepipe(s, i)
      r == IF IsBad(first) THEN Bad ELSE Backs(s, first) IN
  IF IsBad(r) \/ ~ Peek(s, r.at, {";"}) THEN r
  ELSE LET right == Parseline(s, r.at + 1) IN
       IF IsBad(right) THEN Bad ELSE [cmd |-> Listcmd(r.cmd, right.cmd), at |-> right.at]

\* Leftovers are a syntax error.
Parsecmd(s) == LET r == Parseline(s, 1) IN IF r.at # Len(s) + 1 THEN <<"bad">> ELSE r.cmd

-----------------------------------------------------------------------------
Nothing == <<"closed">>
Fd == 0 .. NOFILE - 1

\* open, dup, pipe take the lowest descriptor that is closed (fdalloc).
Lowest(fds) == CHOOSE fd \in Fd : fds[fd] = Nothing /\ \A d \in 0 .. fd - 1 : fds[d] # Nothing
Open(fds, f) == [fds EXCEPT ![Lowest(fds)] = f]
Close(fds, fd) == [fds EXCEPT ![fd] = Nothing]
Dup(fds, fd) == Open(fds, fds[fd])

\* The descriptors main leaves open.
Console == [fd \in Fd |-> IF fd < 3 THEN <<"console">> ELSE Nothing]

\* Mutant: a child of a pipeline does not close p[1].
ChildKeepsWriteEnd(fds, std, mine, p) == Close(Dup(Close(fds, std), p[mine]), p[0])

\* A child of a pipeline: its end p[mine] becomes descriptor std, both others go.
PipeChild(fds, std, mine, p) == Close(Close(Dup(Close(fds, std), p[mine]), p[0]), p[1])

\* runcmd: the processes c becomes, run by the process at `place` of the command
\* with descriptors fds.  A process that exits at once is not among them.
RECURSIVE Runcmd(_, _, _, _)
Runcmd(c, fds, place, absent) ==
  LET sub(i) == Append(place, i)
      waits(d) == [argv |-> <<>>, fds |-> d, place |-> place] IN
  CASE c[1] = "exec" -> IF c[2] = <<>> THEN {} ELSE {[argv |-> c[2], fds |-> fds, place |-> place]}
    [] c[1] = "redir" ->
         IF c[4] \in absent THEN {}
         ELSE Runcmd(c[2], Open(Close(fds, IF c[3] = "<" THEN 0 ELSE 1), <<"file", c[4]>>), place, absent)
    [] c[1] = "list" -> {waits(fds)} \cup Runcmd(c[2], fds, sub(1), absent) \cup Runcmd(c[3], fds, sub(2), absent)
    [] c[1] = "back" -> Runcmd(c[2], fds, sub(1), absent)
    [] c[1] = "pipe" ->
         LET read == Open(fds, <<"read", place>>)
             both == Open(read, <<"write", place>>)
             p == [i \in {0, 1} |-> IF i = 0 THEN Lowest(fds) ELSE Lowest(read)] IN
         {waits(Close(Close(both, p[0]), p[1]))}
           \cup Runcmd(c[2], PipeChild(both, 1, 1, p), sub(1), absent)
           \cup Runcmd(c[3], PipeChild(both, 0, 0, p), sub(2), absent)

-----------------------------------------------------------------------------
Prompt == [line |-> <<>>, cmd |-> <<"unread">>, absent |-> {}]

Init == sh = Prompt

\* getcmd, and the child that runs what parsecmd returns.
Getcmd ==
  /\ sh = Prompt
  /\ \E n \in 0 .. MaxLine : \E line \in [1 .. n -> Token] :
     \E absent \in {{}} \cup {{i} : i \in {j \in 1 .. n : line[j] = "a"}} :
       sh' = [line |-> line, cmd |-> Parsecmd(line), absent |-> absent]

\* wait(0) returns: the next prompt.
Wait == sh # Prompt /\ sh' = Prompt

Next == Getcmd \/ Wait

Spec == Init /\ [][Next]_sh

-----------------------------------------------------------------------------
\* The reference: the language of command lines, by cases on how a line splits.
Redirs(s) ==
  Len(s) % 2 = 0 /\ \A k \in DOMAIN s : IF k % 2 = 1 THEN s[k] \in {"<", ">", "+"} ELSE s[k] = "a"
IsExec(s) ==
  /\ \A i \in DOMAIN s : s[i] \in {"a", "<", ">", "+"} /\ (s[i] # "a" => Gettoken(s, i + 1) = "a")
  /\ Cardinality({i \in DOMAIN s : s[i] = "a"}) - Cardinality({i \in DOMAIN s : s[i] # "a"}) < MAXARGS

RECURSIVE IsLine(_), IsPipe(_)
IsBlock(s) ==
  \E i \in 2 .. Len(s) :
    s[1] = "(" /\ s[i] = ")" /\ IsLine(SubSeq(s, 2, i - 1)) /\ Redirs(SubSeq(s, i + 1, Len(s)))
IsPipe(s) ==
  \/ IsExec(s) \/ IsBlock(s)
  \/ \E i \in DOMAIN s :
       LET left == SubSeq(s, 1, i - 1) IN
       s[i] = "|" /\ (IsExec(left) \/ IsBlock(left)) /\ IsPipe(SubSeq(s, i + 1, Len(s)))
IsLine(s) ==
  \E n \in 0 .. Len(s) : \E m \in n .. Len(s) :
    /\ IsPipe(SubSeq(s, 1, n)) /\ \A k \in n + 1 .. m : s[k] = "&"
    /\ m = Len(s) \/ (s[m + 1] = ";" /\ IsLine(SubSeq(s, m + 2, Len(s))))

\* The words of a command: arguments and files.
RECURSIVE Words(_)
Words(c) ==
  CASE c[1] = "exec" -> c[2]
    [] c[1] = "redir" -> Append(Words(c[2]), c[4])
    [] c[1] = "back" -> Words(c[2])
    [] OTHER -> Words(c[2]) \o Words(c[3])

\* parsecmd takes a line exactly when the grammar has it, and every word of the
\* line is in the command, once (sh.c:327).
ParsesGrammar ==
  LET cmd == sh.cmd  line == sh.line IN
  cmd # <<"unread">> =>
    /\ (cmd # <<"bad">>) = IsLine(line)
    /\ cmd # <<"bad">> =>
         LET w == Words(cmd) IN
         ToSet(w) = {i \in DOMAIN line : line[i] = "a"} /\ Len(w) = Cardinality(ToSet(w))

\* A pipeline ends: the only processes with the write end of a pipe belong to its
\* left side, and the only ones with the read end to its right side, so that the
\* reader sees the end of the data once the left side is done.  And whatever the
\* nesting, a process of runcmd has descriptors 0, 1, 2 open and no other (sh.c:100).
PipesEnd ==
  sh.cmd \notin {<<"unread">>, <<"bad">>} =>
    \A r \in Runcmd(sh.cmd, Console, <<>>, sh.absent) : \A fd \in Fd :
      /\ (r.fds[fd] # Nothing) = (fd < 3)
      /\ r.fds[fd][1] = "write" => fd = 1 /\ IsPrefix(Append(r.fds[fd][2], 1), r.place)
      /\ r.fds[fd][1] = "read" => fd = 0 /\ IsPrefix(Append(r.fds[fd][2], 2), r.place)
=============================================================================
