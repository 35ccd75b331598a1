------------------------------ MODULE Terminal ------------------------------
(* What the console promises its readers: a line discipline.  Characters can  *)
(* be erased until their line is ended by a newline, by ^D or by the buffer   *)
(* being full; a reader gets the ended lines in the order they were typed,    *)
(* nothing lost or twice, at most one line at a time, and ^D as an empty      *)
(* answer.                                                                    *)
EXTENDS Integers, Sequences

CONSTANTS Room,    \* characters the terminal holds
          Chars, NEWLINE, EOF

VARIABLES committed, editing,
          answer   \* what a reader got last

tvars == <<committed, editing, answer>>

Ends(c) == c \in {NEWLINE, EOF}

Type(c) ==
    /\ Len(committed) + Len(editing) < Room
    /\ IF Ends(c) \/ Len(committed) + Len(editing) + 1 = Room
       THEN committed' = committed \o Append(editing, c) /\ editing' = <<>>
       ELSE editing' = Append(editing, c) /\ UNCHANGED committed
    /\ UNCHANGED answer

\* One character, or the whole line.
Erase ==
    /\ editing # <<>>
    /\ \E k \in {0, Len(editing) - 1} : editing' = SubSeq(editing, 1, k)
    /\ UNCHANGED <<committed, answer>>

\* The first k characters, of one line, go to a reader; the ^D
\* that ends an empty answer goes as well.
Take ==
    /\ \E k \in 1 .. Len(committed) :
         /\ \A i \in 1 .. k : Ends(committed[i]) => i = k
         /\ answer' = SelectSeq(SubSeq(committed, 1, k), LAMBDA c : c # EOF)
         /\ committed' = IF committed[k] = EOF /\ k > 1 THEN SubSeq(committed, k, Len(committed))
                         ELSE SubSeq(committed, k + 1, Len(committed))
    /\ UNCHANGED editing

TInit == committed = <<>> /\ editing = <<>> /\ answer = <<>>
TNext == (\E c \in Chars : Type(c)) \/ Erase \/ Take
TSpec == TInit /\ [][TNext]_tvars
=============================================================================
