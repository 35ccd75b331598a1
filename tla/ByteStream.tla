----------------------------- MODULE ByteStream ------------------------------
(***************************************************************************)
(* What a pipe promises: bytes come out once each, in the order they went  *)
(* in, at most Capacity of them are under way, and nothing goes in after   *)
(* the last writer closed its end.                                         *)
(***************************************************************************)
EXTENDS Naturals, Sequences

CONSTANTS Bytes, Capacity

VARIABLES
  queue,   \* bytes written and not yet read
  got,     \* the byte read last
  open     \* the write end is open

vars == <<queue, got, open>>

Init == queue = <<>> /\ got \in Bytes /\ open = TRUE

Put(b) ==
  /\ open
  /\ Len(queue) < Capacity
  /\ queue' = Append(queue, b)
  /\ UNCHANGED <<got, open>>

Get ==
  /\ queue # <<>>
  /\ got' = Head(queue)
  /\ queue' = Tail(queue)
  /\ UNCHANGED open

Close == open' = FALSE /\ UNCHANGED <<queue, got>>

Next == (\E b \in Bytes : Put(b)) \/ Get \/ Close

Spec == Init /\ [][Next]_vars
=============================================================================
