----------------------------- MODULE ShellParser -----------------------------
(* The recursive descent parser of os/5/sh.c.  The scanner is abstracted: a   *)
(* line is a sequence of tokens ("a" is a word, "+" is >>), spaces are gone   *)
(* and a word is named by its position.                                       *)
EXTENDS Integers, Sequences, FiniteSets, FiniteSetsExt

CONSTANTS MAXARGS, MaxTokens

VARIABLE line

Tokens == {"a", "<", ">", "+", "|", "&", ";", "(", ")"}

execcmd(argv) == [type |-> "EXEC", argv |-> argv]
redircmd(c, file, mode, fd) == [type |-> "REDIR", cmd |-> c, file |-> file, mode |-> mode, fd |-> fd]
pipecmd(l, r) == [type |-> "PIPE", left |-> l, right |-> r]
listcmd(l, r) == [type |-> "LIST", left |-> l, right |-> r]
backcmd(c) == [type |-> "BACK", cmd |-> c]

\* What gettoken() returns at position i: 0 at the end.
gettoken(i) == IF i <= Len(line) THEN line[i] ELSE "0"
peek(i, toks) == gettoken(i) \in toks

\* A parse function returns the command and the position after it; panic()
\* leaves no command.
panic == [ok |-> FALSE, i |-> 0, cmd |-> execcmd(<<>>)]
result(c, i) == [ok |-> TRUE, i |-> i, cmd |-> c]

redir(c, tok, file) == IF tok = "<" THEN redircmd(c, file, "O_RDONLY", 0)
                       ELSE redircmd(c, file, "O_WRONLY|O_CREATE", 1)

RECURSIVE parseredirs(_, _)
parseredirs(c, i) ==
    IF ~peek(i, {"<", ">", "+"}) THEN result(c, i)
    ELSE IF gettoken(i + 1) # "a" THEN panic
    ELSE parseredirs(redir(c, gettoken(i), i + 1), i + 2)

\* The arguments are stored in the EXEC inside whatever redirections there are.
RECURSIVE with_arg(_, _)
with_arg(c, w) == IF c.type = "EXEC" THEN execcmd(Append(c.argv, w)) ELSE [c EXCEPT !.cmd = with_arg(@, w)]

\* Mutant: a closing parenthesis does not end the arguments.
StopsFew == {"|", "&", ";"}

\* What ends the arguments of a command.
Stops == {"|", ")", "&", ";"}

\* The loop of parseexec(), with argc arguments in c so far.
RECURSIVE parseargs(_, _, _)
parseargs(c, argc, i) ==
    LET next == parseredirs(with_arg(c, i), i + 1) IN
    IF peek(i, Stops \cup {"0"}) THEN result(c, i)
    ELSE IF gettoken(i) # "a" \/ argc + 1 >= MAXARGS \/ ~next.ok THEN panic
    ELSE parseargs(next.cmd, argc + 1, next.i)

RECURSIVE parseline(_), parsepipe(_), parsebacks(_, _)

parseblock(i) ==
    LET l == parseline(i + 1) IN
    IF ~l.ok \/ gettoken(l.i) # ")" THEN panic ELSE parseredirs(l.cmd, l.i + 1)

parseexec(i) ==
    LET first == parseredirs(execcmd(<<>>), i) IN
    IF peek(i, {"("}) THEN parseblock(i)
    ELSE IF first.ok THEN parseargs(first.cmd, 0, first.i) ELSE panic

parsepipe(i) ==
    LET l == parseexec(i)
        r == parsepipe(l.i + 1)
    IN  IF ~l.ok THEN panic
        ELSE IF ~peek(l.i, {"|"}) THEN l
        ELSE IF r.ok THEN result(pipecmd(l.cmd, r.cmd), r.i) ELSE panic

\* The & of parseline().
parsebacks(c, i) == IF peek(i, {"&"}) THEN parsebacks(backcmd(c), i + 1) ELSE result(c, i)

parseline(i) ==
    LET p == parsepipe(i)
        l == parsebacks(p.cmd, p.i)
        r == parseline(l.i + 1)
    IN  IF ~p.ok THEN panic
        ELSE IF ~peek(l.i, {";"}) THEN l
        ELSE IF r.ok THEN result(listcmd(l.cmd, r.cmd), r.i) ELSE panic

parsecmd == LET l == parseline(1) IN IF l.ok /\ l.i <= Len(line) THEN panic ELSE l

\* The words nulterminate() ends.
RECURSIVE nulterminate(_)
nulterminate(c) ==
    CASE c.type = "EXEC" -> {c.argv[k] : k \in DOMAIN c.argv}
      [] c.type = "REDIR" -> nulterminate(c.cmd) \cup {c.file}
      [] c.type = "BACK" -> nulterminate(c.cmd)
      [] OTHER -> nulterminate(c.left) \cup nulterminate(c.right)

\* getcmd(): one more token on the line.
getcmd == /\ Len(line) < MaxTokens
          /\ \E t \in Tokens : line' = Append(line, t)

ShInit == line = <<>>
------------------------------------------------------------------------------
\* The grammar, by cutting a line at its outermost ; and | and at its trailing &.
\* Each operator gives the set of the commands that tokens lo to hi - 1 stand
\* for, which has at most one member.
Depth(lo, k) == Cardinality({j \in lo .. k - 1 : line[j] = "("}) - Cardinality({j \in lo .. k - 1 : line[j] = ")"})
Outer(lo, hi, t) == {k \in lo .. hi - 1 : line[k] = t /\ Depth(lo, k) = 0}
Closing(lo, hi) == {k \in lo .. hi - 1 : line[k] = ")" /\ Depth(lo, k) = 1}

\* Words that are files of redirections, among tokens lo to hi - 1.
FilesOf(lo, hi) == {k \in lo + 1 .. hi - 1 : line[k] = "a" /\ line[k - 1] \in {"<", ">", "+"}}

Redirected(c, lo, hi) ==
    LET files == FilesOf(lo, hi)
        put[S \in SUBSET files] == IF S = {} THEN c ELSE redir(put[S \ {Max(S)}], line[Max(S) - 1], Max(S))
    IN  put[files]

Arguments(lo, hi) ==
    LET words == {k \in lo .. hi - 1 : line[k] = "a"} \ FilesOf(lo, hi) IN
    [n \in 1 .. Cardinality(words) |-> CHOOSE k \in words : Cardinality({j \in words : j < k}) = n - 1]

\* Every redirection has its file and there is nothing but T besides.
Simple(lo, hi, T) ==
    \A k \in lo .. hi - 1 : \/ line[k] \in T \/ k \in FilesOf(lo, hi)
                            \/ line[k] \in {"<", ">", "+"} /\ k + 1 \in FilesOf(lo, hi)

RECURSIVE Line(_, _), Backs(_, _), Piped(_, _)

Command(lo, hi) ==
    IF lo < hi /\ line[lo] = "("
    THEN IF Closing(lo, hi) = {} \/ ~Simple(Min(Closing(lo, hi)) + 1, hi, {}) THEN {}
         ELSE {Redirected(c, Min(Closing(lo, hi)) + 1, hi) : c \in Line(lo + 1, Min(Closing(lo, hi)))}
    ELSE IF Simple(lo, hi, {"a"}) /\ Len(Arguments(lo, hi)) < MAXARGS
         THEN {Redirected(execcmd(Arguments(lo, hi)), lo, hi)} ELSE {}

Piped(lo, hi) ==
    LET k == Min(Outer(lo, hi, "|")) IN
    IF Outer(lo, hi, "|") = {} THEN Command(lo, hi)
    ELSE {pipecmd(l, r) : l \in Command(lo, k), r \in Piped(k + 1, hi)}

Backs(lo, hi) == IF lo < hi /\ line[hi - 1] = "&" THEN {backcmd(c) : c \in Backs(lo, hi - 1)} ELSE Piped(lo, hi)

Line(lo, hi) ==
    LET k == Min(Outer(lo, hi, ";")) IN
    IF Outer(lo, hi, ";") = {} THEN Backs(lo, hi)
    ELSE {listcmd(l, r) : l \in Backs(lo, k), r \in Line(k + 1, hi)}

\* parsecmd() accepts the lines of the grammar and no others, gives the command
\* the grammar gives, and nulterminate() ends every word of the line.
ParsesLine ==
    LET c == parsecmd IN
    /\ Line(1, Len(line) + 1) = IF c.ok THEN {c.cmd} ELSE {}
    /\ c.ok => nulterminate(c.cmd) = {k \in 1 .. Len(line) : line[k] = "a"}
=============================================================================
