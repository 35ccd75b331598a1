------------------------------- MODULE Console -------------------------------
(* The console of os/5/console.c: keyboard interrupts fill and edit the ring  *)
(* buffer input, processes read lines from it and write to the screen.        *)
(*                                                                            *)
(* cons.lock is held from the start of a handler to its end, or to sleep(),   *)
(* so a step is a whole consoleintr() for one key, a whole consolewrite() of  *)
(* one character, or consoleread() up to where it sleeps or returns.  The     *)
(* indices are unsigned and wrap at WORD, a multiple of INPUT_BUF.            *)
EXTENDS Integers, Sequences

CONSTANTS INPUT_BUF, WORD,   \* 128 and 2^32 in the code
          COLS, ROWS,        \* the CGA screen, 80 by 25
          Readers,           \* processes that read the console
          Keys,              \* plain characters
          Counts             \* the sizes read() is called with

ASSUME ConsoleSizes == INPUT_BUF \in Nat \ {0} /\ WORD \in Nat \ {0} /\ WORD % INPUT_BUF = 0 /\ WORD > INPUT_BUF

VARIABLES buf, r, w, e,   \* input
          pos,            \* the cursor
          rd,             \* the readers
          answer          \* the characters handed to a reader last

convars == <<buf, r, w, e, pos, rd, answer>>

NEWLINE == "nl"
EOF == "^D"

\* Mutant: sleep() gives the lock up before it sleeps.
NeverLocked == TRUE

\* cons.lock is free: a reader about to sleep still holds it.
Unlocked == \A p \in Readers : rd[p].st # "tired"

NoRead == [st |-> "idle", n |-> 0, target |-> 0, killed |-> FALSE]

\* The cursor after one character; "bs" is BACKSPACE.
cgaputc(p, c) ==
    LET q == CASE c = NEWLINE -> p + (COLS - (p % COLS))
               [] c = "bs" -> IF p > 0 THEN p - 1 ELSE p
               [] OTHER -> p + 1
    IN  IF q \div COLS >= ROWS - 1 THEN q - COLS ELSE q

\* The cursor after n backspaces.
RECURSIVE backspaces(_, _)
backspaces(p, n) == IF n = 0 THEN p ELSE backspaces(cgaputc(p, "bs"), n - 1)

\* The characters ^U takes back: to the last line end before e, or to w.
RECURSIVE killed_line(_)
killed_line(x) == IF x = w \/ buf[((x - 1) % WORD) % INPUT_BUF] = NEWLINE THEN x
                  ELSE killed_line((x - 1) % WORD)

wakeup(R) == [p \in Readers |-> IF R[p].st = "asleep" THEN [R[p] EXCEPT !.st = "reading"] ELSE R[p]]

\* consoleintr(), one case of the switch each.
intr_kill_line ==
    /\ Unlocked
    /\ e' = killed_line(e)
    /\ pos' = backspaces(pos, (e - killed_line(e)) % WORD)
    /\ UNCHANGED <<buf, r, w, rd, answer>>

intr_backspace ==
    /\ Unlocked
    /\ IF e # w THEN e' = (e - 1) % WORD /\ pos' = cgaputc(pos, "bs") ELSE UNCHANGED <<e, pos>>
    /\ UNCHANGED <<buf, r, w, rd, answer>>

\* Mutant: the line is ended one character early.
fullEarly(x) == x = (r + INPUT_BUF - 1) % WORD

full(x) == x = (r + INPUT_BUF) % WORD

\* '\r' arrives as a newline; ^P and a zero change nothing here.
intr_default(c) ==
    /\ Unlocked
    /\ (e - r) % WORD < INPUT_BUF
    /\ buf' = [buf EXCEPT ![e % INPUT_BUF] = c]
    /\ e' = (e + 1) % WORD
    /\ pos' = cgaputc(pos, c)
    /\ IF c \in {NEWLINE, EOF} \/ full((e + 1) % WORD)
       THEN w' = (e + 1) % WORD /\ rd' = wakeup(rd)
       ELSE UNCHANGED <<w, rd>>
    /\ UNCHANGED <<r, answer>>

\* The loop of consoleread() from index x with n to go: where it stops, how many
\* are to go, what was copied, and whether it returns.
RECURSIVE read_loop(_, _, _, _)
read_loop(x, n, target, out) ==
    LET c == buf[x % INPUT_BUF] IN
    IF n = 0 THEN [r |-> x, n |-> n, out |-> out, done |-> TRUE]
    ELSE IF x = w THEN [r |-> x, n |-> n, out |-> out, done |-> FALSE]
    ELSE IF c = EOF THEN [r |-> IF n < target THEN x ELSE (x + 1) % WORD, n |-> n, out |-> out, done |-> TRUE]
    ELSE IF c = NEWLINE THEN [r |-> (x + 1) % WORD, n |-> n - 1, out |-> Append(out, c), done |-> TRUE]
    ELSE read_loop((x + 1) % WORD, n - 1, target, Append(out, c))

consoleread(p, n) ==
    /\ rd[p].st = "idle" /\ ~rd[p].killed
    /\ rd' = [rd EXCEPT ![p] = [NoRead EXCEPT !.st = "reading", !.n = n, !.target = n]]
    /\ UNCHANGED <<buf, r, w, e, pos, answer>>

\* Up to where it returns, or has found nothing to read and itself not killed.
read_on(p) ==
    LET l == read_loop(r, rd[p].n, rd[p].target, <<>>) IN
    /\ Unlocked /\ rd[p].st = "reading"
    /\ r' = l.r /\ answer' = IF l.r = r THEN answer ELSE l.out
    /\ rd' = [rd EXCEPT ![p] = IF l.done \/ @.killed THEN [NoRead EXCEPT !.killed = rd[p].killed]
                               ELSE [@ EXCEPT !.st = "tired", !.n = l.n]]
    /\ UNCHANGED <<buf, w, e, pos>>

\* sleep(&input.r, &cons.lock), the lock still held since read_on().
sleep(p) ==
    /\ rd[p].st = "tired"
    /\ rd' = [rd EXCEPT ![p].st = "asleep"]
    /\ UNCHANGED <<buf, r, w, e, pos, answer>>

\* kill(), which takes no console lock: a sleeper is made runnable, and one that
\* has just tested killed goes to sleep all the same.
kill(p) ==
    /\ ~rd[p].killed
    /\ rd' = [rd EXCEPT ![p].killed = TRUE, ![p].st = IF @ = "asleep" THEN "reading" ELSE @]
    /\ UNCHANGED <<buf, r, w, e, pos, answer>>

consolewrite(c) ==
    /\ Unlocked
    /\ pos' = cgaputc(pos, c)
    /\ UNCHANGED <<buf, r, w, e, rd, answer>>
------------------------------------------------------------------------------
ConInit ==
    /\ buf = [i \in 0 .. INPUT_BUF - 1 |-> 0]
    /\ r = 0 /\ w = 0 /\ e = 0 /\ pos = 0 /\ answer = <<>>
    /\ rd = [p \in Readers |-> NoRead]

ConNext ==
    \/ \E c \in Keys \cup {NEWLINE, EOF} : intr_default(c)
    \/ intr_kill_line \/ intr_backspace
    \/ \E c \in Keys \cup {NEWLINE} : consolewrite(c)
    \/ \E p \in Readers : \/ \E n \in Counts : consoleread(p, n)
                          \/ read_on(p) \/ sleep(p) \/ kill(p)
------------------------------------------------------------------------------
\* The characters from index a up to index b.
Between(a, b) == [i \in 1 .. (b - a) % WORD |-> buf[((a + i - 1) % WORD) % INPUT_BUF]]

T == INSTANCE Terminal WITH Room <- INPUT_BUF, Chars <- Keys \cup {NEWLINE, EOF},
        committed <- Between(r, w), editing <- Between(w, e), answer <- answer

\* The ring buffer with its three wrapping indices is a line discipline: r to w
\* are the ended lines, w to e the line being edited, and interrupts and reads in
\* any order neither lose, repeat nor reorder a character.
IsTerminal == T!TSpec

\* A reader sleeps only while there is nothing to read: the wakeup() of a line's
\* end reaches every reader, none between its test and its sleep.
ReaderSleepsOnEmpty == \A p \in Readers : rd[p].st = "asleep" => r = w

\* The cursor stays above the last row, so that "pos under/overflow" is not
\* reached and the blank written at the cursor is on the screen.
CursorOnScreen == pos \in 0 .. COLS * (ROWS - 1) - 1

\* The console's part in sleep() and wakeup(), and its screen, whatever is
\* typed, read, written and killed at the same time.
ConsoleInv == ReaderSleepsOnEmpty /\ CursorOnScreen
=============================================================================
