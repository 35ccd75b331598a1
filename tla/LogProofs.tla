------------------------------ MODULE LogProofs ------------------------------
(***************************************************************************)
(* Proofs about Log: under RoomEnough the write-ahead log of os/5/log.c    *)
(* never panics and never outgrows its header or the disk, for any number  *)
(* of processes, blocks and crashes, and implements TransDisk: whatever    *)
(* the interleaving of calls and commits and wherever crashes fall, it     *)
(* makes updates durable in whole groups of whole system calls.            *)
(***************************************************************************)
EXTENDS Log, TLAPS, FiniteSetTheorems

-----------------------------------------------------------------------------
(* Arithmetic of the credit that begin_op() hands out. *)

\* A call's blocks are finitely many.
LEMMA OwnFinite ==
  ASSUME NEW m \in [Procs -> SUBSET Blocks], NEW p \in Procs
  PROVE  IsFiniteSet(m[p]) /\ Cardinality(m[p]) \in Nat
<1>1. m[p] \in SUBSET Blocks
  OBVIOUS
<1>2. IsFiniteSet(m[p])
  BY <1>1, FS_Subset, DataAssumption DEF DataAssumption
<1> QED
  BY <1>2, FS_CardinalityType

\* The credit of the admitted calls is at most MAXOPBLOCKS each.
LEMMA CreditBound ==
  ASSUME NEW A \in SUBSET Procs, NEW m
  PROVE  /\ IsFiniteSet(A) /\ Cardinality(A) \in Nat
         /\ IsFiniteSet(CreditOf(A, m)) /\ Cardinality(CreditOf(A, m)) \in Nat
         /\ Cardinality(CreditOf(A, m)) <= Cardinality(A) * MAXOPBLOCKS
<1>1. IsFiniteSet(A) /\ Cardinality(A) \in Nat
  BY FS_Subset, FS_CardinalityType, DataAssumption DEF DataAssumption
<1>2. IsFiniteSet(1..MAXOPBLOCKS) /\ Cardinality(1..MAXOPBLOCKS) = MAXOPBLOCKS
  <2>1. 1 \in Int /\ MAXOPBLOCKS \in Int /\ ~(1 > MAXOPBLOCKS)
    BY SizeAssumption DEF SizeAssumption
  <2>2. IsFiniteSet(1..MAXOPBLOCKS)
        /\ Cardinality(1..MAXOPBLOCKS) = IF 1 > MAXOPBLOCKS THEN 0 ELSE MAXOPBLOCKS - 1 + 1
    BY <2>1, FS_Interval
  <2> QED
    BY <2>1, <2>2
<1>3. IsFiniteSet(A \X (1..MAXOPBLOCKS))
      /\ Cardinality(A \X (1..MAXOPBLOCKS)) = Cardinality(A) * MAXOPBLOCKS
  BY <1>1, <1>2, FS_Product
<1>4. CreditOf(A, m) \in SUBSET (A \X (1..MAXOPBLOCKS))
  BY DEF CreditOf
<1>5. IsFiniteSet(CreditOf(A, m))
      /\ Cardinality(CreditOf(A, m)) <= Cardinality(A \X (1..MAXOPBLOCKS))
  BY <1>3, <1>4, FS_Subset
<1> QED
  BY <1>1, <1>3, <1>5, FS_CardinalityType

\* Ending calls and logging blocks only lowers the credit.
LEMMA CreditShrinks ==
  ASSUME NEW A \in SUBSET Procs, NEW B \in SUBSET A, NEW m, NEW n,
         \A p \in B : /\ Cardinality(m[p]) \in Nat /\ Cardinality(n[p]) \in Nat
                      /\ Cardinality(m[p]) <= Cardinality(n[p])
  PROVE  Cardinality(CreditOf(B, n)) <= Cardinality(CreditOf(A, m))
<1>1. ASSUME NEW c \in CreditOf(B, n)
      PROVE  c \in CreditOf(A, m)
  <2>1. c \in B \X (1..MAXOPBLOCKS) /\ c[2] > Cardinality(n[c[1]])
    BY DEF CreditOf
  <2>2. c[1] \in B /\ c[2] \in 1..MAXOPBLOCKS /\ c \in A \X (1..MAXOPBLOCKS)
    BY <2>1
  <2>3. c[2] > Cardinality(m[c[1]])
    BY <2>1, <2>2, SizeAssumption DEF SizeAssumption
  <2> QED
    BY <2>2, <2>3 DEF CreditOf
<1>2. CreditOf(B, n) \in SUBSET CreditOf(A, m)
  BY <1>1
<1> QED
  BY <1>2, CreditBound, FS_Subset

\* An admitted call holds credit for everything it has not used.
LEMMA CreditOfOne ==
  ASSUME NEW A \in SUBSET Procs, NEW m, NEW p \in A,
         Cardinality(m[p]) \in Nat
  PROVE  MAXOPBLOCKS - Cardinality(m[p]) <= Cardinality(CreditOf(A, m))
<1> DEFINE k == Cardinality(m[p])
           T == {p} \X ((k + 1) .. MAXOPBLOCKS)
<1>1. k \in Nat /\ MAXOPBLOCKS \in Nat /\ k + 1 \in Int /\ MAXOPBLOCKS \in Int
  BY SizeAssumption DEF SizeAssumption
<1>2. T \in SUBSET CreditOf(A, m)
  <2>1. ASSUME NEW c \in T PROVE c \in CreditOf(A, m)
    <3>1. c[1] = p /\ c[2] \in (k + 1) .. MAXOPBLOCKS /\ c = <<c[1], c[2]>>
      OBVIOUS
    <3>2. c[2] > Cardinality(m[c[1]]) /\ c[2] \in 1..MAXOPBLOCKS
      BY <3>1, <1>1
    <3> QED
      BY <3>1, <3>2 DEF CreditOf
  <2> QED
    BY <2>1
<1>3. IsFiniteSet((k + 1) .. MAXOPBLOCKS)
      /\ Cardinality((k + 1) .. MAXOPBLOCKS)
           = IF k + 1 > MAXOPBLOCKS THEN 0 ELSE MAXOPBLOCKS - (k + 1) + 1
  BY <1>1, FS_Interval
<1>4. IsFiniteSet({p}) /\ Cardinality({p}) = 1
  BY FS_Singleton
<1>5. IsFiniteSet(T) /\ Cardinality(T) = Cardinality({p}) * Cardinality((k + 1) .. MAXOPBLOCKS)
  BY <1>3, <1>4, FS_Product
<1>6. Cardinality(T) <= Cardinality(CreditOf(A, m))
  BY <1>2, CreditBound, FS_Subset
<1>7. Cardinality(CreditOf(A, m)) \in Nat
  BY CreditBound
<1> HIDE DEF T
<1>8. Cardinality(T) = IF k + 1 > MAXOPBLOCKS THEN 0 ELSE MAXOPBLOCKS - k
  BY <1>1, <1>3, <1>4, <1>5
<1> QED
  BY <1>1, <1>6, <1>7, <1>8

\* Logging a block the call had not logged uses up one credit.
LEMMA CreditUsed ==
  ASSUME NEW A \in SUBSET Procs, NEW m \in [Procs -> SUBSET Blocks],
         NEW p \in A, NEW b \in Blocks,
         b \notin m[p], Cardinality(m[p]) < MAXOPBLOCKS
  PROVE  Cardinality(CreditOf(A, [m EXCEPT ![p] = @ \union {b}])) + 1
           <= Cardinality(CreditOf(A, m))
<1> DEFINE n == [m EXCEPT ![p] = @ \union {b}]
           k == Cardinality(m[p])
           e == <<p, k + 1>>
<1>0. p \in Procs /\ MAXOPBLOCKS \in Nat
  BY SizeAssumption DEF SizeAssumption
<1>1. IsFiniteSet(m[p]) /\ k \in Nat
  BY <1>0, OwnFinite
<1>2. Cardinality(n[p]) = k + 1
  <2>1. n[p] = m[p] \union {b}
    BY <1>0
  <2> QED
    BY <2>1, <1>1, FS_AddElement
<1>3. \A q \in A \ {p} : n[q] = m[q]
  OBVIOUS
<1>4. \A q \in A : Cardinality(m[q]) \in Nat
  BY OwnFinite
<1>5. e \in CreditOf(A, m)
  <2>1. e \in A \X (1..MAXOPBLOCKS)
    BY <1>0, <1>1
  <2>2. e[2] > Cardinality(m[e[1]])
    BY <1>1
  <2> QED
    BY <2>1, <2>2 DEF CreditOf
<1>6. CreditOf(A, n) \in SUBSET (CreditOf(A, m) \ {e})
  <2>1. ASSUME NEW c \in CreditOf(A, n) PROVE c \in CreditOf(A, m) /\ c # e
    <3>1. c \in A \X (1..MAXOPBLOCKS) /\ c[2] > Cardinality(n[c[1]])
      BY DEF CreditOf
    <3>2. c[1] \in A /\ c[2] \in 1..MAXOPBLOCKS
      BY <3>1
    <3>3. CASE c[1] = p
      <4>1. c[2] > k + 1
        BY <3>1, <3>3, <1>2
      <4>2. c[2] > Cardinality(m[c[1]]) /\ c # e
        BY <4>1, <3>2, <3>3, <1>1, <1>0
      <4> QED
        BY <3>1, <4>2 DEF CreditOf
    <3>4. CASE c[1] # p
      <4>1. c[2] > Cardinality(m[c[1]])
        BY <3>1, <3>2, <3>4, <1>3
      <4> QED
        BY <3>1, <3>4, <4>1 DEF CreditOf
    <3> QED
      BY <3>3, <3>4
  <2> QED
    BY <2>1
<1>7. IsFiniteSet(CreditOf(A, m)) /\ Cardinality(CreditOf(A, m)) \in Nat
      /\ Cardinality(CreditOf(A, n)) \in Nat
  BY CreditBound
<1>8. IsFiniteSet(CreditOf(A, m) \ {e})
      /\ Cardinality(CreditOf(A, m) \ {e}) = Cardinality(CreditOf(A, m)) - 1
  <2> DEFINE C == CreditOf(A, m)
  <2> HIDE DEF e, C
  <2>1. IsFiniteSet(C) /\ e \in C
    BY <1>5, <1>7 DEF C
  <2>2. IsFiniteSet(C \ {e})
        /\ Cardinality(C \ {e}) = IF e \in C THEN Cardinality(C) - 1 ELSE Cardinality(C)
    BY <2>1, FS_RemoveElement
  <2> QED
    BY <2>1, <2>2 DEF C
<1>9. Cardinality(CreditOf(A, n)) <= Cardinality(CreditOf(A, m) \ {e})
  BY <1>6, <1>8, FS_Subset
<1> QED
  BY <1>7, <1>8, <1>9
-----------------------------------------------------------------------------
(* The inductive invariant. *)

USE SizeAssumption DEF SizeAssumption

\* What an admitted call may rely on, and what the committing process may.
LEMMA ActiveFacts ==
  ASSUME LogInv, RoomEnough, NEW p \in Active
  PROVE  /\ p \in Procs
         /\ IsFiniteSet(mine[p]) /\ Cardinality(mine[p]) \in 0..OpBlocks
         /\ Len(lh) <= LOGSIZE - MAXOPBLOCKS + Cardinality(mine[p])
         /\ Len(lh) < nlog - 1
         /\ outstanding >= 1
         /\ ~committing
         /\ boot = "up"
<1>1. p \in Procs /\ Active \in SUBSET Procs /\ mine \in [Procs -> SUBSET Blocks]
      /\ lh \in Seq(Blocks) /\ Len(lh) \in Nat
  BY DEF Active, LogInv, TypeOK
<1>2. IsFiniteSet(mine[p]) /\ Cardinality(mine[p]) \in Nat /\ Cardinality(mine[p]) <= OpBlocks
  BY <1>1, OwnFinite DEF LogInv, Reservation
<1>3. MAXOPBLOCKS - Cardinality(mine[p]) <= Cardinality(Credit)
  BY <1>1, <1>2, CreditOfOne DEF Credit
<1>4. Cardinality(Credit) \in Nat /\ IsFiniteSet(Active) /\ Cardinality(Active) \in Nat
  BY <1>1, CreditBound DEF Credit
<1>5. Len(lh) <= LOGSIZE - MAXOPBLOCKS + Cardinality(mine[p])
  BY <1>1, <1>2, <1>3, <1>4 DEF LogInv, Reservation
<1>6. Len(lh) < nlog - 1
  BY <1>1, <1>2, <1>5 DEF RoomEnough
<1>7. outstanding >= 1
  <2>1. Cardinality(Active) # 0
    BY <1>4, FS_EmptySet
  <2> QED
    BY <2>1, <1>4 DEF LogInv, Reservation
<1>8. ~committing
  BY DEF LogInv, CommitAlone
<1>9. boot = "up"
  BY <1>1 DEF LogInv, BootAlone, Active
<1> QED
  BY <1>1, <1>2, <1>5, <1>6, <1>7, <1>8, <1>9

\* A step that touches neither the admitted calls nor their log keeps the
\* reservation; buffers may be released.
LEMMA ReservationFrame ==
  ASSUME Reservation, UNCHANGED <<outstanding, mine, lh, holder>>, Active' = Active
  PROVE  Reservation'
BY DEF Reservation, Credit, CreditOf, Logged

\* The invariant holds of the disk mkfs makes and a machine that boots.
LEMMA InitInv == ASSUME RoomEnough, Init PROVE LogInv
<1>1. Active = {} /\ Committers = {}
  BY DEF Init, Active, Committers
<1>2. TypeOK
  <2>1. <<>> \in Seq(Blocks)
    OBVIOUS
  <2>2. \A b \in Blocks : NotCached \in Vals \union {NotCached} /\ Nobody \in Procs \union {Nobody}
    OBVIOUS
  <2>3. logdata \in [LogSlots -> Vals]
    BY DataAssumption DEF Init, DataAssumption
  <2> QED
    BY <2>1, <2>2, <2>3 DEF Init, TypeOK, PCs
<1>3. Cardinality({}) = 0
  BY FS_EmptySet
<1>4. Credit = {}
  BY <1>1 DEF Credit, CreditOf
<1>5. Reservation
  BY <1>1, <1>3, <1>4 DEF Init, Reservation
<1>6. CommitAlone
  BY <1>1 DEF Init, CommitAlone
<1>7. NoPanic /\ LogFits /\ OneBuffer /\ LoopsInRange /\ BootAlone
  BY DEF Init, NoPanic, LogFits, OneBuffer, LoopsInRange, BootAlone
<1> QED
  BY <1>2, <1>5, <1>6, <1>7 DEF LogInv

\* A process that starts a call only gets to begin_op().
LEMMA SyscallInv ==
  ASSUME LogInv, NEW p \in Procs, Syscall(p)
  PROVE  LogInv'
<1> USE DEF LogInv, Syscall, Running, Goto, durables, buffers, loglocked
<1>1. TypeOK'
  BY DEF TypeOK, PCs
<1>2. Active' = Active /\ Committers' = Committers
  BY DEF TypeOK, Active, Committers
<1>3. Reservation'
  BY <1>2, ReservationFrame
<1>4. CommitAlone'
  BY <1>2 DEF CommitAlone
<1>5. (NoPanic /\ LogFits /\ OneBuffer /\ LoopsInRange /\ BootAlone)'
  BY DEF TypeOK, NoPanic, LogFits, OneBuffer, LoopsInRange, BootAlone, LogSlots
<1> QED
  BY <1>1, <1>3, <1>4, <1>5

\* An admitted call takes its MAXOPBLOCKS credits from what is left.
LEMMA begin_opInv ==
  ASSUME LogInv, NEW p \in Procs, begin_op(p)
  PROVE  LogInv'
<1> USE DEF LogInv, begin_op, Running, Goto, durables, buffers, loglocked
<1>1. TypeOK'
  BY DEF TypeOK, PCs
<1>2. Committers' = Committers /\ p \notin Active
  BY DEF TypeOK, Active, Committers
<1>3. (NoPanic /\ LogFits /\ OneBuffer /\ LoopsInRange /\ BootAlone)'
  BY DataAssumption DEF TypeOK, NoPanic, LogFits, OneBuffer, LoopsInRange, BootAlone
<1>4. CASE pc' = [pc EXCEPT ![p] = "sleeping"] /\ UNCHANGED <<outstanding, mine>>
  <2>1. Active' = Active
    BY <1>4 DEF TypeOK, Active
  <2>2. Reservation'
    BY <1>4, <2>1, ReservationFrame
  <2>3. CommitAlone'
    BY <1>2, <2>1 DEF CommitAlone
  <2> QED
    BY <1>1, <1>3, <2>2, <2>3
<1>5. CASE /\ ~MustWait
           /\ outstanding' = outstanding + 1
           /\ mine' = [mine EXCEPT ![p] = {}]
           /\ pc' = [pc EXCEPT ![p] = "op"]
  <2>1. Active' = Active \union {p}
    BY <1>5 DEF TypeOK, Active
  <2>2. CommitAlone'
    BY <1>2, <1>5 DEF CommitAlone, MustWait
  <2>3. Active \in SUBSET Procs /\ Active' \in SUBSET Procs
    BY DEF Active
  <2>4. IsFiniteSet(Active) /\ Cardinality(Active) \in Nat
    BY <2>3, CreditBound
  <2>5. Cardinality(Active') = Cardinality(Active) + 1
    BY <1>2, <2>1, <2>4, FS_AddElement
  <2>6. Cardinality(CreditOf(Active', mine')) <= Cardinality(Active') * MAXOPBLOCKS
        /\ Cardinality(CreditOf(Active', mine')) \in Nat
    BY <2>3, CreditBound
  <2>7. outstanding' = Cardinality(Active')
    BY <1>5, <2>5 DEF Reservation
  <2>8. Len(lh) + (outstanding + 1) * MAXOPBLOCKS <= LOGSIZE
    BY <1>5 DEF MustWait, TypeOK
  <2>9. Len(lh') + Cardinality(Credit') <= LOGSIZE
    <3>1. Cardinality(Active') = outstanding + 1
      BY <2>7, <1>5
    <3>2. Cardinality(CreditOf(Active', mine')) <= (outstanding + 1) * MAXOPBLOCKS
      BY <2>6, <3>1
    <3>3. (outstanding + 1) * MAXOPBLOCKS \in Nat /\ Len(lh) \in Nat
      BY DEF TypeOK
    <3>4. Len(lh) + Cardinality(CreditOf(Active', mine')) <= LOGSIZE
      BY <3>2, <3>3, <2>8, <2>6
    <3> QED
      BY <3>4 DEF Credit
  <2>10. mine'[p] = {} /\ \A q \in Procs \ {p} : mine'[q] = mine[q]
    BY <1>5 DEF TypeOK
  <2>11. Cardinality({}) = 0
    BY FS_EmptySet
  <2>12. \A q \in Active' : /\ mine'[q] \subseteq Logged'
                            /\ Cardinality(mine'[q]) <= OpBlocks
                            /\ \A b \in Blocks : holder'[b] = q
                                 => b \in mine'[q] \/ Cardinality(mine'[q]) < OpBlocks
    <3>1. OpBlocks \in Nat /\ 0 < OpBlocks /\ Logged' = Logged /\ holder' = holder
      BY DEF Logged
    <3>2. TAKE q \in Active'
    <3>3. CASE q = p
      BY <3>1, <3>3, <2>10, <2>11
    <3>4. CASE q # p
      <4>1. q \in Active /\ mine'[q] = mine[q]
        BY <3>4, <2>1, <2>3, <2>10
      <4> QED
        BY <3>1, <4>1 DEF Reservation
    <3> QED
      BY <3>3, <3>4
  <2>13. Reservation'
    BY <2>7, <2>9, <2>12 DEF Reservation
  <2> QED
    BY <1>1, <1>3, <2>2, <2>13
<1> QED
  BY <1>4, <1>5

\* log_write()'s unlocked checks never find the log full.
LEMMA ModifyInv ==
  ASSUME LogInv, RoomEnough, NEW p \in Procs, NEW b \in Blocks, NEW v \in Vals,
         Modify(p, b, v)
  PROVE  LogInv'
<1> USE DEF LogInv, Modify, Running, Goto, durables, buffers, loglocked
<1>1. TypeOK'
  BY DEF TypeOK, PCs
<1>2. Active' = Active /\ Committers' = Committers /\ p \in Active
  BY DEF TypeOK, Active, Committers
<1>3. /\ Cardinality(mine[p]) \in 0..OpBlocks
      /\ Len(lh) < nlog - 1 /\ outstanding >= 1
  BY <1>2, ActiveFacts
<1>4. NoPanic'
  BY <1>3 DEF NoPanic, TypeOK
<1>5. (LogFits /\ LoopsInRange /\ BootAlone)'
  BY DEF TypeOK, LogFits, LoopsInRange, BootAlone
<1>6. CommitAlone'
  BY <1>2 DEF CommitAlone
<1>10. \A c \in Blocks : holder[c] # p
  BY DataAssumption DEF OneBuffer, TypeOK, DataAssumption
<1>11. OneBuffer'
  BY <1>10, DataAssumption DEF OneBuffer, TypeOK, DataAssumption
<1>7. Credit' = Credit /\ Logged' = Logged
  BY <1>2 DEF Credit, Logged, CreditOf
<1>8. \A q \in Active, c \in Blocks :
        holder'[c] = q => c \in mine[q] \/ Cardinality(mine[q]) < OpBlocks
  BY <1>2, <1>10 DEF Reservation, TypeOK
<1>9. Reservation'
  BY <1>2, <1>7, <1>8 DEF Reservation
<1> QED
  BY <1>1, <1>4, <1>5, <1>6, <1>9, <1>11

\* Appending a block uses one of the call's credits; absorbing one is free.
LEMMA log_writeInv ==
  ASSUME LogInv, RoomEnough, NEW p \in Procs, NEW b \in Blocks, log_write(p, b)
  PROVE  LogInv'
<1> USE DEF LogInv, log_write, with_block, pinned, Running, Goto, durables, buffers, loglocked
<1>1. TypeOK'
  BY DEF TypeOK, PCs
<1>2. Active' = Active /\ Committers' = Committers /\ p \in Active
  BY DEF TypeOK, Active, Committers
<1>3. /\ IsFiniteSet(mine[p]) /\ Cardinality(mine[p]) \in 0..OpBlocks
      /\ Len(lh) <= LOGSIZE - MAXOPBLOCKS + Cardinality(mine[p])
      /\ Len(lh) < nlog - 1
  BY <1>2, ActiveFacts
<1>4. (NoPanic /\ BootAlone)' /\ CommitAlone'
  BY <1>2 DEF TypeOK, NoPanic, BootAlone, CommitAlone
<1>5. lh \in Seq(Blocks) /\ Len(lh) \in Nat /\ mine \in [Procs -> SUBSET Blocks]
      /\ Active \in SUBSET Procs
  BY DEF TypeOK, Active
<1>6. Len(lh') \in Nat /\ Len(lh') \in {Len(lh), Len(lh) + 1}
  BY <1>5
<1>7. LogFits'
  BY <1>3, <1>5, <1>6 DEF LogFits
<1>8. LoopsInRange'
  <2>1. boot # "install_trans" /\ Committers = {}
    BY <1>2 DEF CommitAlone
  <2>2. \A q \in Procs : pc'[q] \notin {"write_log", "write_head", "install_trans"}
    BY <2>1, <1>2 DEF Committers
  <2> QED
    BY <2>1, <2>2 DEF LoopsInRange
<1>9. mine'[p] = mine[p] \union {b} /\ \A q \in Procs \ {p} : mine'[q] = mine[q]
  BY <1>5
<1>10. Cardinality(mine'[p]) = IF b \in mine[p] THEN Cardinality(mine[p])
                                              ELSE Cardinality(mine[p]) + 1
  <2>1. Cardinality(mine[p] \union {b})
          = IF b \in mine[p] THEN Cardinality(mine[p]) ELSE Cardinality(mine[p]) + 1
    BY <1>3, FS_AddElement
  <2> QED
    BY <2>1, <1>9
<1>11. b \in mine[p] \/ Cardinality(mine[p]) < OpBlocks
  BY <1>2 DEF Reservation
<1>12. Logged' = Logged \union {b}
  <2>1. CASE b \in Logged
    BY <2>1 DEF Logged
  <2>2. CASE b \notin Logged
    <3>1. lh' = Append(lh, b) /\ Len(lh') = Len(lh) + 1 /\ lh'[Len(lh) + 1] = b
      BY <2>2, <1>5
    <3>2. \A i \in 1..Len(lh) : lh'[i] = lh[i]
      BY <3>1, <1>5
    <3>3. 1..Len(lh') = 1..Len(lh) \union {Len(lh) + 1}
      BY <3>1, <1>5
    <3> QED
      BY <3>1, <3>2, <3>3, <1>5 DEF Logged
  <2> QED
    BY <2>1, <2>2
<1>13. Len(lh') + Cardinality(Credit') <= LOGSIZE
  <2>0. Cardinality(Credit) \in Nat /\ Cardinality(Credit') \in Nat
        /\ Len(lh) + Cardinality(Credit) <= LOGSIZE
    BY <1>2, <1>5, CreditBound DEF Credit, Reservation
  <2>1. CASE b \in Logged
    <3>1. \A q \in Active : /\ Cardinality(mine[q]) \in Nat /\ Cardinality(mine'[q]) \in Nat
                            /\ Cardinality(mine[q]) <= Cardinality(mine'[q])
      <4>1. TAKE q \in Active
      <4>2. q \in Procs /\ Cardinality(mine[q]) \in Nat
        BY <1>5, OwnFinite
      <4>3. CASE q = p
        BY <4>2, <4>3, <1>3, <1>10
      <4>4. CASE q # p
        BY <4>2, <4>4, <1>9
      <4> QED
        BY <4>3, <4>4
    <3>2. Cardinality(CreditOf(Active, mine')) <= Cardinality(CreditOf(Active, mine))
      BY <3>1, <1>5, CreditShrinks
    <3> QED
      BY <3>2, <2>0, <2>1, <1>2, <1>5 DEF Credit
  <2>2. CASE b \notin Logged
    <3>1. b \notin mine[p]
      BY <2>2, <1>2 DEF Reservation
    <3>2. Cardinality(mine[p]) < MAXOPBLOCKS
      BY <3>1, <1>3, <1>11
    <3>3. Cardinality(CreditOf(Active, [mine EXCEPT ![p] = @ \union {b}])) + 1
            <= Cardinality(CreditOf(Active, mine))
      BY <3>1, <3>2, <1>2, <1>5, CreditUsed
    <3>4. Cardinality(Credit') + 1 <= Cardinality(Credit)
      BY <3>3, <1>2 DEF Credit
    <3>5. Len(lh') = Len(lh) + 1
      BY <2>2, <1>5
    <3> QED
      BY <3>4, <3>5, <2>0, <1>5
  <2> QED
    BY <2>1, <2>2
<1>14. \A q \in Active' : /\ mine'[q] \subseteq Logged'
                          /\ Cardinality(mine'[q]) <= OpBlocks
                          /\ \A c \in Blocks : holder'[c] = q
                               => c \in mine'[q] \/ Cardinality(mine'[q]) < OpBlocks
  <2>1. TAKE q \in Active'
  <2>2. holder' = [holder EXCEPT ![b] = Nobody] /\ holder \in [Blocks -> Procs \union {Nobody}]
        /\ Nobody \notin Procs /\ q \in Procs
    BY <1>2, <1>5, DataAssumption DEF TypeOK, DataAssumption
  <2>3. \A c \in Blocks : holder'[c] = q => holder[c] = q
    BY <2>2
  <2>4. CASE q # p
    BY <2>2, <2>3, <2>4, <1>2, <1>9, <1>12 DEF Reservation
  <2>5. CASE q = p
    <3>1. mine'[p] \subseteq Logged'
      BY <1>2, <1>9, <1>12 DEF Reservation
    <3>2. Cardinality(mine'[p]) <= OpBlocks
      BY <1>3, <1>10, <1>11
    <3>3. ASSUME NEW c \in Blocks, holder'[c] = p
          PROVE  c \in mine'[p] \/ Cardinality(mine'[p]) < OpBlocks
      BY <3>3, <2>2, <2>3, <2>5 DEF OneBuffer
    <3> QED
      BY <2>5, <3>1, <3>2, <3>3
  <2> QED
    BY <2>4, <2>5
<1>15. Reservation'
  BY <1>2, <1>13, <1>14 DEF Reservation
<1>16. OneBuffer'
  BY DataAssumption DEF OneBuffer, TypeOK, DataAssumption
<1> QED
  BY <1>1, <1>4, <1>7, <1>8, <1>15, <1>16

\* Ending a call returns its credit; the last one starts the only commit.
LEMMA end_opInv ==
  ASSUME LogInv, RoomEnough, NEW p \in Procs, end_op(p)
  PROVE  LogInv'
<1> USE DEF LogInv, end_op, Running, Goto, WakeupLog, durables, buffers, loglocked
<1>1. p \in Active /\ Active \in SUBSET Procs
  BY DEF Active
<1>2. outstanding >= 1 /\ ~committing /\ boot = "up"
  BY <1>1, ActiveFacts
<1>3. TypeOK'
  <2>1. pc' \in [Procs -> PCs]
    BY DEF TypeOK, PCs
  <2>2. outstanding' \in Nat /\ tail' \in Nat
    BY <1>2 DEF TypeOK
  <2>3. panicked' \in BOOLEAN
    BY <1>2 DEF TypeOK
  <2>4. committing' \in BOOLEAN
    BY <1>2 DEF TypeOK
  <2> QED
    BY <2>1, <2>2, <2>3, <2>4 DEF TypeOK
<1>4. Active' = Active \ {p}
  BY DEF TypeOK, Active
<1>5. Committers = {}
  BY <1>2 DEF CommitAlone
<1>6. NoPanic' /\ LogFits' /\ BootAlone'
  BY <1>2 DEF NoPanic, LogFits, BootAlone
<1>7. /\ IsFiniteSet(Active) /\ Cardinality(Active) \in Nat
      /\ IsFiniteSet(Active') /\ Cardinality(Active') = Cardinality(Active) - 1
      /\ Cardinality(Credit) \in Nat /\ Cardinality(Credit') \in Nat
  BY <1>1, <1>4, CreditBound, FS_RemoveElement DEF Credit
<1>8. Reservation'
  <2>1. outstanding' = Cardinality(Active')
    BY <1>7 DEF Reservation
  <2>2. \A q \in Active' : /\ Cardinality(mine[q]) \in Nat /\ Cardinality(mine'[q]) \in Nat
                           /\ Cardinality(mine[q]) <= Cardinality(mine'[q])
    <3>1. TAKE q \in Active'
    <3>2. Cardinality(mine[q]) \in Nat
      BY <1>1, <1>4, OwnFinite DEF TypeOK
    <3> QED
      BY <3>2
  <2>3. Cardinality(CreditOf(Active', mine')) <= Cardinality(CreditOf(Active, mine))
    BY <1>1, <1>4, <2>2, CreditShrinks
  <2>4. Len(lh') + Cardinality(Credit') <= LOGSIZE
    BY <2>3, <1>7 DEF Credit, Reservation, TypeOK
  <2>5. Logged' = Logged
    BY DEF Logged
  <2> QED
    BY <1>4, <2>1, <2>4, <2>5 DEF Reservation
<1>9. OneBuffer'
  <2>1. \A q \in Procs : pc[q] = "log_write" => pc'[q] = "log_write"
    BY DEF TypeOK
  <2>2. holder' = holder /\ holder \in [Blocks -> Procs \union {Nobody}]
    BY DEF TypeOK
  <2> QED
    BY <2>1, <2>2 DEF OneBuffer
<1>10. CASE outstanding' = 0 /\ committing' = TRUE
            /\ pc' = [pc EXCEPT ![p] = IF lh = <<>> THEN "end_op" ELSE "write_log"]
  <2>1. Active' = {}
    BY <1>7, <1>10, <1>8, FS_EmptySet DEF Reservation
  <2>2. Committers' = {p}
    <3>1. pc'[p] \in {"end_op", "write_log"} /\ \A q \in Procs \ {p} : pc'[q] = pc[q]
      BY <1>10 DEF TypeOK
    <3> QED
      BY <3>1, <1>5 DEF Committers
  <2>3. CommitAlone'
    BY <1>10, <2>1, <2>2 DEF CommitAlone
  <2>4. LoopsInRange'
    <3>1. pc'[p] = "write_log" => 0 < Len(lh)
      BY <1>10 DEF TypeOK
    <3>2. \A q \in Procs : pc'[q] \in {"write_log", "write_head", "install_trans"} => q = p /\ pc'[q] = "write_log"
      BY <1>10, <2>2 DEF Committers, TypeOK
    <3> QED
      BY <3>1, <3>2, <1>2 DEF LoopsInRange
  <2> QED
    BY <1>3, <1>6, <1>8, <1>9, <2>3, <2>4
<1>11. CASE outstanding' # 0 /\ UNCHANGED committing /\ WakeupLog(p, "idle")
  <2>1. Committers' = {}
    BY <1>5, <1>11 DEF Committers, TypeOK
  <2>2. CommitAlone'
    BY <1>2, <1>11, <2>1 DEF CommitAlone
  <2>3. LoopsInRange'
    BY <2>1, <1>2 DEF LoopsInRange, Committers
  <2> QED
    BY <1>3, <1>6, <1>8, <1>9, <2>2, <2>3
<1> QED
  BY <1>10, <1>11

\* While a process commits there is no admitted call, hence no credit.
LEMMA CommitFacts ==
  ASSUME LogInv, NEW p \in Committers
  PROVE  /\ p \in Procs
         /\ committing /\ Active = {} /\ outstanding = 0 /\ Committers = {p}
         /\ boot = "up"
         /\ \A b \in Blocks : holder[b] = Nobody
<1>1. p \in Procs /\ committing /\ Active = {} /\ Committers = {p}
  BY DEF LogInv, CommitAlone, Committers
<1>2. outstanding = 0
  BY <1>1, FS_EmptySet DEF LogInv, Reservation
<1>3. boot = "up"
  BY <1>1 DEF LogInv, BootAlone, Committers
<1>4. \A b \in Blocks : holder[b] = Nobody
  <2>1. SUFFICES ASSUME NEW b \in Blocks, holder[b] # Nobody PROVE FALSE
    OBVIOUS
  <2>2. holder[b] \in Procs /\ pc[holder[b]] = "log_write"
    BY <2>1 DEF LogInv, OneBuffer, TypeOK
  <2> QED
    BY <1>1, <2>2 DEF Active
<1> QED
  BY <1>1, <1>2, <1>3, <1>4

\* Without admitted calls the reservation asks for nothing but a log that fits.
LEMMA IdleReservation ==
  ASSUME Active' = {}, outstanding' = 0, Len(lh') \in Nat, Len(lh') <= LOGSIZE
  PROVE  Reservation'
<1>1. Credit' = {} /\ Cardinality({}) = 0
  BY FS_EmptySet DEF Credit, CreditOf
<1> QED
  BY <1>1 DEF Reservation

\* The steps of commit(): the header stays, the loops stay inside it.
LEMMA CommitInv ==
  ASSUME LogInv, NEW p \in Procs, Commit(p)
  PROVE  LogInv'
<1> USE DEF LogInv, Commit, write_log, write_head, header_image, LoopAgain, install_trans, Install, clear_log, end_commit,
        Running, Goto, WakeupLog, durables, buffers, loglocked
<1>1. p \in Committers
  BY DEF Committers
<1>2. /\ committing /\ Active = {} /\ outstanding = 0 /\ Committers = {p}
      /\ boot = "up" /\ \A b \in Blocks : holder[b] = Nobody
  BY <1>1, CommitFacts
<1>3. /\ Active' = {} /\ outstanding' = 0 /\ boot' = "up" /\ holder' = holder
      /\ panicked' = panicked
  BY <1>2 DEF Active, TypeOK
<1>4. NoPanic' /\ BootAlone' /\ OneBuffer'
  BY <1>2, <1>3 DEF NoPanic, BootAlone, OneBuffer
<1>5. lh' \in {lh, <<>>} /\ Len(lh') \in Nat /\ Len(lh') <= Len(lh) /\ lh \in Seq(Blocks)
  BY DEF TypeOK
<1>6. LogFits' /\ Reservation'
  BY <1>3, <1>5, IdleReservation DEF LogFits, TypeOK
<1>7. CommitAlone'
  <2>1. \A q \in Procs \ {p} : q \notin Committers'
    BY <1>2 DEF Committers, TypeOK
  <2>2. CASE end_commit(p)
    <3>1. pc'[p] = "idle" /\ committing' = FALSE
      BY <2>2 DEF TypeOK
    <3> QED
      BY <2>1, <3>1, <1>3 DEF CommitAlone, Committers
  <2>3. CASE write_log(p) \/ write_head(p) \/ install_trans(p) \/ clear_log(p)
    <3>1. p \in Committers' /\ committing' = committing
      BY <2>3 DEF Committers, TypeOK
    <3>2. Committers' = {p}
      BY <2>1, <3>1 DEF Committers
    <3> QED
      BY <3>1, <3>2, <1>2, <1>3 DEF CommitAlone
  <2> QED
    BY <2>2, <2>3
<1>8. pc[p] \in {"write_log", "install_trans"} => tail \in Nat /\ tail < Len(lh)
  BY DEF LoopsInRange, TypeOK
<1>9. pc[p] \in {"write_log", "install_trans"} =>
        /\ tail + 1 \in 1..Len(lh) /\ tail + 1 \in LogSlots
        /\ lh[tail + 1] \in Blocks /\ logdata[tail + 1] \in Vals
        /\ Data(lh[tail + 1]) \in Vals
  BY <1>8, <1>5 DEF LogFits, LogSlots, TypeOK, Data
<1>10. TypeOK'
  <2>1. pc' \in [Procs -> PCs]
    BY DEF TypeOK, PCs
  <2>2. CASE write_log(p)
    BY <2>1, <2>2, <1>9 DEF TypeOK
  <2>3. CASE install_trans(p)
    BY <2>1, <2>3, <1>9 DEF TypeOK
  <2>4. CASE write_head(p)
    BY <2>1, <2>4 DEF TypeOK
  <2>5. CASE clear_log(p)
    BY <2>1, <2>5 DEF TypeOK
  <2>6. CASE end_commit(p)
    BY <2>1, <2>6 DEF TypeOK
  <2> QED
    BY <2>2, <2>3, <2>4, <2>5, <2>6
<1>11. LoopsInRange'
  <2>1. \A q \in Procs : pc'[q] \in {"write_log", "write_head", "install_trans"} => q = p
    BY <1>2 DEF Committers, TypeOK
  <2>2. Len(head') <= LOGSIZE /\ Len(head') <= nlog - 1
    BY <1>5 DEF LogFits, LoopsInRange
  <2>3. pc'[p] \in {"write_log", "install_trans"} => tail' < Len(lh')
    <3>1. CASE write_log(p) \/ install_trans(p)
      BY <3>1 DEF TypeOK
    <3>2. CASE write_head(p)
      BY <3>2 DEF TypeOK, LoopsInRange
    <3>3. CASE clear_log(p) \/ end_commit(p)
      BY <3>3 DEF TypeOK
    <3> QED
      BY <3>1, <3>2, <3>3
  <2>4. pc'[p] = "write_head" => 0 < Len(lh')
    BY <1>8 DEF TypeOK
  <2> QED
    BY <1>3, <2>1, <2>2, <2>3, <2>4 DEF LoopsInRange
<1> QED
  BY <1>4, <1>6, <1>7, <1>10, <1>11

\* Recycling a buffer touches nothing the invariant speaks of but its type.
LEMMA RecycleInv ==
  ASSUME LogInv, NEW b \in Blocks, Recycle(b)
  PROVE  LogInv'
<1> USE DEF LogInv, Recycle, durables, buffers, loglocked
<1>1. TypeOK'
  BY DEF TypeOK
<1>2. Active' = Active /\ Committers' = Committers
  BY DEF Active, Committers
<1>3. Reservation' /\ CommitAlone'
  BY <1>2, ReservationFrame DEF CommitAlone
<1>4. (NoPanic /\ LogFits /\ OneBuffer /\ LoopsInRange /\ BootAlone)'
  BY DEF NoPanic, LogFits, OneBuffer, LoopsInRange, BootAlone
<1> QED
  BY <1>1, <1>3, <1>4

\* A crash forgets every call and every buffer.
LEMMA CrashInv ==
  ASSUME LogInv, Crash
  PROVE  LogInv'
<1> USE DEF LogInv, Crash, durables
<1>1. TypeOK'
  <2>1. pc' \in [Procs -> PCs] /\ mine' \in [Procs -> SUBSET Blocks] /\ lh' \in Seq(Blocks)
    BY DEF PCs
  <2>2. cache' \in [Blocks -> Vals \union {NotCached}] /\ dirty' \in [Blocks -> BOOLEAN]
        /\ holder' \in [Blocks -> Procs \union {Nobody}]
    OBVIOUS
  <2>3. outstanding' \in Nat /\ tail' \in Nat /\ crashes' \in Nat
    BY DEF TypeOK
  <2> QED
    BY <2>1, <2>2, <2>3 DEF TypeOK
<1>2. Active' = {} /\ Committers' = {}
  BY DEF Active, Committers
<1>3. Reservation'
  BY <1>2, IdleReservation
<1>4. CommitAlone'
  BY <1>2 DEF CommitAlone
<1>5. (NoPanic /\ LogFits /\ OneBuffer /\ LoopsInRange /\ BootAlone)'
  BY DEF NoPanic, LogFits, OneBuffer, LoopsInRange, BootAlone
<1> QED
  BY <1>1, <1>3, <1>4, <1>5

\* Recovery reads a header that fits and stays inside it.
LEMMA RecoverInv ==
  ASSUME LogInv, Recover
  PROVE  LogInv'
<1> USE DEF LogInv, Recover, read_head, recover_install, LoopAgain, Install, recover_clear,
        durables, buffers, loglocked
<1>1. /\ boot \in {"read_head", "install_trans", "clear"}
      /\ outstanding = 0 /\ \A p \in Procs : pc[p] = "idle"
  BY DEF BootAlone
<1>2. outstanding' = 0 /\ holder' = holder /\ panicked' = panicked /\ pc' = pc /\ committing' = committing
  BY <1>1
<1>3. Active' = {} /\ Committers' = {} /\ Active = {} /\ Committers = {}
  BY <1>1, <1>2 DEF Active, Committers
<1>4. NoPanic' /\ BootAlone' /\ OneBuffer'
  BY <1>1, <1>2 DEF NoPanic, BootAlone, OneBuffer
<1>5. lh' \in {lh, head, <<>>} /\ lh' \in Seq(Blocks) /\ Len(lh') \in Nat
      /\ head \in Seq(Blocks) /\ lh \in Seq(Blocks)
  <2>1. head \in Seq(Blocks) /\ lh \in Seq(Blocks) /\ <<>> \in Seq(Blocks)
    BY DEF TypeOK
  <2>2. lh' = lh \/ lh' = head \/ lh' = <<>>
    OBVIOUS
  <2>3. lh' \in Seq(Blocks)
    BY <2>1, <2>2
  <2> QED
    BY <2>1, <2>2, <2>3
<1>6. LogFits'
  BY <1>5 DEF LogFits, LoopsInRange
<1>11. Reservation'
  BY <1>2, <1>3, <1>5, <1>6, IdleReservation DEF LogFits
<1>7. CommitAlone'
  BY <1>2, <1>3 DEF CommitAlone
<1>8. boot = "install_trans" =>
        /\ tail \in Nat /\ tail + 1 \in 1..Len(lh) /\ tail + 1 \in LogSlots
        /\ lh[tail + 1] \in Blocks /\ logdata[tail + 1] \in Vals
  BY <1>5 DEF LogFits, LogSlots, TypeOK, LoopsInRange
<1>9. TypeOK'
  <2>1. CASE read_head
    BY <2>1 DEF TypeOK
  <2>2. CASE recover_install
    BY <2>2, <1>8 DEF TypeOK
  <2>3. CASE recover_clear
    BY <2>3 DEF TypeOK
  <2> QED
    BY <2>1, <2>2, <2>3
<1>10. LoopsInRange'
  <2>1. \A p \in Procs : pc'[p] = "idle"
    BY <1>1, <1>2
  <2>2. Len(head') <= LOGSIZE /\ Len(head') <= nlog - 1
    BY DEF LoopsInRange
  <2>3. boot' = "install_trans" => tail' < Len(lh')
    <3>1. CASE read_head
      BY <3>1, <1>5
    <3>2. CASE recover_install
      BY <3>2, <1>5, <1>8
    <3>3. CASE recover_clear
      BY <3>3
    <3> QED
      BY <3>1, <3>2, <3>3
  <2> QED
    BY <2>1, <2>2, <2>3 DEF LoopsInRange
<1> QED
  BY <1>4, <1>6, <1>7, <1>9, <1>10, <1>11

\* A step that changes nothing keeps the invariant.
LEMMA StutterInv ==
  ASSUME LogInv, UNCHANGED vars
  PROVE  LogInv'
BY DEF vars, LogInv, TypeOK, NoPanic, LogFits, CommitAlone, Reservation, OneBuffer,
       LoopsInRange, BootAlone, Active, Committers, Credit, CreditOf, Logged

\* Every reachable state satisfies LogInv: what begin_op() reserves covers what
\* log_write() appends, one process commits at a time and alone, and the loops
\* of commit() and recover_from_log() stay inside the header.
THEOREM LogInvariant ==
  ASSUME RoomEnough
  PROVE  Spec => []LogInv
<1>1. Init => LogInv
  BY InitInv
<1>2. LogInv /\ [Next]_vars => LogInv'
  <2> SUFFICES ASSUME LogInv, [Next]_vars PROVE LogInv'
    OBVIOUS
  <2>1. ASSUME NEW p \in Procs, Syscall(p) PROVE LogInv'
    BY <2>1, SyscallInv
  <2>2. ASSUME NEW p \in Procs, begin_op(p) PROVE LogInv'
    BY <2>2, begin_opInv
  <2>3. ASSUME NEW p \in Procs, end_op(p) PROVE LogInv'
    BY <2>3, end_opInv
  <2>4. ASSUME NEW p \in Procs, Commit(p) PROVE LogInv'
    BY <2>4, CommitInv
  <2>5. ASSUME NEW p \in Procs, NEW b \in Blocks, log_write(p, b) PROVE LogInv'
    BY <2>5, log_writeInv
  <2>6. ASSUME NEW p \in Procs, NEW b \in Blocks, NEW v \in Vals, Modify(p, b, v) PROVE LogInv'
    BY <2>6, ModifyInv
  <2>7. ASSUME NEW b \in Blocks, Recycle(b) PROVE LogInv'
    BY <2>7, RecycleInv
  <2>8. CASE Crash
    BY <2>8, CrashInv
  <2>9. CASE Recover
    BY <2>9, RecoverInv
  <2>10. CASE UNCHANGED vars
    BY <2>10, StutterInv
  <2> QED
    BY <2>1, <2>2, <2>3, <2>4, <2>5, <2>6, <2>7, <2>8, <2>9, <2>10 DEF Next
<1> QED
  BY <1>1, <1>2, PTL DEF Spec

\* The variables of log.c keep their types.
THEOREM TypeCorrect == ASSUME RoomEnough PROVE Spec => []TypeOK
<1>1. LogInv => TypeOK
  BY DEF LogInv
<1> QED
  BY <1>1, LogInvariant, PTL

\* No interleaving of calls, commits, crashes and recoveries reaches one of the
\* panics of log_write() and end_op().
THEOREM NeverPanics == ASSUME RoomEnough PROVE Spec => []NoPanic
<1>1. LogInv => NoPanic
  BY DEF LogInv
<1> QED
  BY <1>1, LogInvariant, PTL

\* log.lh.n stays within log.lh.block[] and the on-disk log, although
\* log_write() checks the room before it takes log.lock.
THEOREM AlwaysFits == ASSUME RoomEnough PROVE Spec => []LogFits
<1>1. LogInv => LogFits
  BY DEF LogInv
<1> QED
  BY <1>1, LogInvariant, PTL

\* A group commits alone: one committer, and no call half done.
THEOREM CommitsAlone == ASSUME RoomEnough PROVE Spec => []CommitAlone
<1>1. LogInv => CommitAlone
  BY DEF LogInv
<1> QED
  BY <1>1, LogInvariant, PTL

-----------------------------------------------------------------------------
(* Log implements TransDisk. *)

\* No block number occurs twice: log_write() absorbs.
Injective(s) == \A i, j \in 1..Len(s) : s[i] = s[j] => i = j

\* The block of slot i is not home yet.
Pending(i) ==
  \A p \in Procs : pc[p] # "clear" /\ (pc[p] = "install_trans" => tail < i)

\* The header on disk is empty but between the commit and its erasure, when it
\* is the one in memory, and the log is empty when nobody uses it.
HeaderInv ==
  /\ Injective(lh) /\ Injective(head)
  /\ boot \in {"install_trans", "clear"} => lh = head
  /\ boot = "up" => head = IF \E p \in Procs : pc[p] \in {"install_trans", "clear"}
                           THEN lh ELSE <<>>
  /\ \A p \in Procs : pc[p] = "end_op" => lh = <<>>
  /\ boot = "up" /\ Active = {} /\ ~committing => lh = <<>>

\* B_DIRTY marks the logged blocks that are not home, and keeps them cached.
PinInv ==
  /\ \A b \in Blocks : dirty[b] => boot = "up" /\ b \in Logged
  /\ boot = "up" => \A i \in 1..Len(lh) : /\ dirty[lh[i]] <=> Pending(i)
                                          /\ Pending(i) => cache[lh[i]] # NotCached
  /\ \A b \in Blocks : holder[b] # Nobody => cache[b] # NotCached

\* What the log blocks hold, as far as the loops have come.
CopyInv ==
  \A i \in 1..Len(lh) :
    /\ \A p \in Procs :
         /\ pc[p] = "write_log" /\ i <= tail => logdata[i] = cache[lh[i]]
         /\ pc[p] = "write_head" => logdata[i] = cache[lh[i]]
         /\ pc[p] = "install_trans" /\ tail < i => logdata[i] = cache[lh[i]]
         /\ pc[p] = "install_trans" /\ i <= tail => logdata[i] = disk[lh[i]]
         /\ pc[p] = "clear" => logdata[i] = disk[lh[i]]
    /\ boot = "install_trans" /\ i <= tail => logdata[i] = disk[lh[i]]
    /\ boot = "clear" => logdata[i] = disk[lh[i]]

\* The inductive invariant, on top of LogInv.
DataInv == LogInv /\ RecycleSafe /\ HeaderInv /\ PinInv /\ CopyInv

\* The abstract state.
Seen == [b \in Blocks |-> View(b)]
Kept == [b \in Blocks |-> Recovered(b)]

\* Recovered(b) of a header h, log blocks ld and home blocks d.
RecoverOf(h, ld, d, b) ==
  LET slots == {i \in 1..Len(h) : h[i] = b}
  IN  IF slots = {} THEN d[b]
      ELSE ld[CHOOSE i \in slots : \A j \in slots : j <= i]
-----------------------------------------------------------------------------
\* install_trans() copies the one slot that names a block, if there is one.
LEMMA RecoverSlot ==
  ASSUME NEW h \in Seq(Blocks), NEW ld, NEW d, Injective(h), NEW i \in 1..Len(h)
  PROVE  RecoverOf(h, ld, d, h[i]) = ld[i]
<1> DEFINE slots == {j \in 1..Len(h) : h[j] = h[i]}
<1>1. slots = {i}
  BY DEF Injective
<1>2. Len(h) \in Nat /\ i \in Int
  OBVIOUS
<1>3. (CHOOSE k \in {i} : \A j \in {i} : j <= k) = i
  BY <1>2
<1> QED
  BY <1>1, <1>3 DEF RecoverOf

\* A block the header does not name stays as it is.
LEMMA RecoverOther ==
  ASSUME NEW h \in Seq(Blocks), NEW ld, NEW d, NEW b, \A i \in 1..Len(h) : h[i] # b
  PROVE  RecoverOf(h, ld, d, b) = d[b]
BY DEF RecoverOf

\* Recovered() now and in the next state.
LEMMA KeptIs ==
  /\ Kept = [b \in Blocks |-> RecoverOf(head, logdata, disk, b)]
  /\ Kept' = [b \in Blocks |-> RecoverOf(head', logdata', disk', b)]
BY DEF Kept, Recovered, RecoverOf

\* The empty header: nothing to recover.
LEMMA KeptEmpty ==
  /\ head = <<>> => Kept = [b \in Blocks |-> disk[b]]
  /\ head' = <<>> => Kept' = [b \in Blocks |-> disk'[b]]
<1>1. ASSUME NEW ld, NEW d, NEW b PROVE RecoverOf(<<>>, ld, d, b) = d[b]
  BY DEF RecoverOf
<1> QED
  BY <1>1, KeptIs

\* The running system sees the cache.
LEMMA SeenIs ==
  /\ boot = "up" => Seen = [b \in Blocks |-> Data(b)]
  /\ boot # "up" => Seen = Kept
  /\ boot' = "up" => Seen' = [b \in Blocks |-> Data(b)']
  /\ boot' # "up" => Seen' = Kept'
BY DEF Seen, Kept, View

\* Places in commit() where the header or the loop counter matters.
Places == {"write_log", "write_head", "install_trans", "clear"}

\* Steps of begin_op() and end_op(): buffers, disk and header stay, and the
\* commit does too, but that it may start.
Frame ==
  /\ UNCHANGED <<disk, logdata, head, cache, dirty, holder, lh, boot>>
  /\ \A q \in Procs : pc[q] \in Places => pc'[q] = pc[q] /\ tail' = tail
  /\ \A q \in Procs : pc'[q] \in Places =>
       pc'[q] = pc[q] \/ (pc'[q] = "write_log" /\ tail' = 0)
  /\ \A q \in Procs : pc'[q] = "end_op" => lh = <<>>
  /\ boot # "up" => tail' = tail
  /\ boot = "up" /\ Active' = {} /\ ~committing' => lh = <<>>

\* Such a step changes nothing the invariant or the abstract disk speaks of.
LEMMA FrameInv ==
  ASSUME DataInv, LogInv', Frame
  PROVE  DataInv' /\ Seen' = Seen /\ Kept' = Kept
<1>0. /\ LogInv /\ RecycleSafe /\ HeaderInv /\ PinInv /\ CopyInv
      /\ TypeOK /\ TypeOK' /\ lh \in Seq(Blocks) /\ Len(lh) \in Nat /\ tail \in Nat
  BY DEF DataInv, LogInv, TypeOK
<1>1. UNCHANGED <<disk, logdata, head, cache, dirty, holder, lh, boot>>
  BY DEF Frame
<1>2. \A q \in Procs : pc'[q] \in {"install_trans", "clear"} <=> pc[q] \in {"install_trans", "clear"}
  BY DEF Frame, Places
<1>3. \A i \in 1..Len(lh) : Pending(i)' <=> Pending(i)
  <2> SUFFICES ASSUME NEW i \in 1..Len(lh), NEW q \in Procs
               PROVE  (pc'[q] # "clear" /\ (pc'[q] = "install_trans" => tail' < i))
                        <=> (pc[q] # "clear" /\ (pc[q] = "install_trans" => tail < i))
    BY DEF Pending
  <2> QED
    BY DEF Frame, Places
<1>4. RecycleSafe'
  BY <1>0, <1>1 DEF RecycleSafe
<1>5. HeaderInv'
  <2>1. (Injective(lh) /\ Injective(head))'
    BY <1>0, <1>1 DEF HeaderInv, Injective
  <2>2. (boot \in {"install_trans", "clear"} => lh = head)'
    BY <1>0, <1>1 DEF HeaderInv
  <2>3. (boot = "up" => head = IF \E p \in Procs : pc[p] \in {"install_trans", "clear"}
                               THEN lh ELSE <<>>)'
    BY <1>0, <1>1, <1>2 DEF HeaderInv
  <2>4. (\A p \in Procs : pc[p] = "end_op" => lh = <<>>)'
    BY <1>1 DEF Frame
  <2>5. (boot = "up" /\ Active = {} /\ ~committing => lh = <<>>)'
    BY <1>1 DEF Frame
  <2> QED
    BY <2>1, <2>2, <2>3, <2>4, <2>5 DEF HeaderInv
<1>6. PinInv'
  <2>1. (\A b \in Blocks : dirty[b] => boot = "up" /\ b \in Logged)'
    BY <1>0, <1>1 DEF PinInv, Logged
  <2>2. (boot = "up" => \A i \in 1..Len(lh) : /\ dirty[lh[i]] <=> Pending(i)
                                              /\ Pending(i) => cache[lh[i]] # NotCached)'
    BY <1>0, <1>1, <1>3 DEF PinInv
  <2>3. (\A b \in Blocks : holder[b] # Nobody => cache[b] # NotCached)'
    BY <1>0, <1>1 DEF PinInv
  <2> QED
    BY <2>1, <2>2, <2>3 DEF PinInv
<1>7. CopyInv'
  <2>1. ASSUME NEW i \in 1..Len(lh), NEW p \in Procs
        PROVE  /\ pc'[p] = "write_log" /\ i <= tail' => logdata[i] = cache[lh[i]]
               /\ pc'[p] = "write_head" => logdata[i] = cache[lh[i]]
               /\ pc'[p] = "install_trans" /\ tail' < i => logdata[i] = cache[lh[i]]
               /\ pc'[p] = "install_trans" /\ i <= tail' => logdata[i] = disk[lh[i]]
               /\ pc'[p] = "clear" => logdata[i] = disk[lh[i]]
    <3>1. CASE pc'[p] \in Places /\ pc'[p] = pc[p]
      <4>1. tail' = tail
        BY <3>1 DEF Frame
      <4> QED
        BY <1>0, <3>1, <4>1 DEF CopyInv
    <3>2. CASE pc'[p] = "write_log" /\ tail' = 0
      BY <1>0, <3>2
    <3>3. CASE pc'[p] \notin Places
      BY <3>3 DEF Places
    <3> QED
      BY <3>1, <3>2, <3>3 DEF Frame
  <2>2. ASSUME NEW i \in 1..Len(lh)
        PROVE  /\ boot = "install_trans" /\ i <= tail' => logdata[i] = disk[lh[i]]
               /\ boot = "clear" => logdata[i] = disk[lh[i]]
    BY <1>0 DEF CopyInv, Frame
  <2> QED
    BY <1>1, <2>1, <2>2 DEF CopyInv
<1>8. Kept' = Kept
  BY <1>1, KeptIs
<1>9. Seen' = Seen
  <2>1. \A b \in Blocks : Data(b)' = Data(b)
    BY <1>1 DEF Data
  <2>2. CASE boot = "up"
    BY <1>1, <2>1, <2>2, SeenIs
  <2>3. CASE boot # "up"
    BY <1>1, <1>8, <2>3, SeenIs
  <2> QED
    BY <2>2, <2>3
<1> QED
  BY <1>4, <1>5, <1>6, <1>7, <1>8, <1>9 DEF DataInv

-----------------------------------------------------------------------------
(* Calls. *)

\* begin_op() admits p: the abstract call begins.
LEMMA begin_opStep ==
  ASSUME DataInv, LogInv', NEW p \in Procs, Syscall(p) \/ begin_op(p)
  PROVE  /\ DataInv' /\ Seen' = Seen /\ Kept' = Kept
         /\ Active' = Active \/ (p \notin Active /\ Active' = Active \union {p})
<1>0. LogInv /\ HeaderInv /\ TypeOK
  BY DEF DataInv, LogInv
<1>1. /\ UNCHANGED <<disk, logdata, head, cache, dirty, holder, lh, boot, tail, committing>>
      /\ pc[p] \in {"idle", "begin_op"} /\ \A q \in Procs : q # p => pc'[q] = pc[q]
      /\ pc'[p] \in {"begin_op", "sleeping", "op"}
  BY <1>0 DEF Syscall, begin_op, Running, Goto, durables, buffers, loglocked, TypeOK
<1>2. Active' = Active \/ (p \notin Active /\ Active' = Active \union {p})
  BY <1>1 DEF Active
<1>3. Frame
  <2>1. \A q \in Procs : pc[q] \in Places \/ pc'[q] \in Places => pc'[q] = pc[q]
    BY <1>1 DEF Places
  <2>2. \A q \in Procs : pc'[q] = "end_op" => lh = <<>>
    BY <1>0, <1>1 DEF HeaderInv
  <2>3. boot = "up" /\ Active' = {} /\ ~committing' => lh = <<>>
    BY <1>0, <1>1, <1>2 DEF HeaderInv
  <2> QED
    BY <1>1, <2>1, <2>2, <2>3 DEF Frame
<1> QED
  BY <1>2, <1>3, FrameInv

\* end_op(): the abstract call ends; the last one starts the commit.
LEMMA end_opStep ==
  ASSUME DataInv, LogInv', RoomEnough, NEW p \in Procs, end_op(p)
  PROVE  /\ DataInv' /\ Seen' = Seen /\ Kept' = Kept
         /\ p \in Active /\ Active' = Active \ {p}
<1>0. LogInv /\ HeaderInv /\ TypeOK
  BY DEF DataInv, LogInv
<1>1. p \in Active /\ Active \in SUBSET Procs
  BY DEF end_op, Running, Active
<1>2. boot = "up" /\ ~committing /\ Committers = {}
  BY <1>0, <1>1, ActiveFacts DEF LogInv, CommitAlone
<1>3. UNCHANGED <<disk, logdata, head, cache, dirty, holder, lh, boot>> /\ tail' = 0
  BY DEF end_op, durables, buffers
<1>4. Active' = Active \ {p}
  BY <1>0 DEF end_op, Running, Goto, WakeupLog, TypeOK, Active
<1>5. \A q \in Procs : pc[q] \notin Places /\ pc[q] # "end_op"
  BY <1>2 DEF Committers, Places
<1>6. CASE outstanding' = 0 /\ committing' = TRUE
           /\ pc' = [pc EXCEPT ![p] = IF lh = <<>> THEN "end_op" ELSE "write_log"]
  <2>1. \A q \in Procs : pc'[q] = IF q = p THEN (IF lh = <<>> THEN "end_op" ELSE "write_log")
                                  ELSE pc[q]
    BY <1>0, <1>6 DEF TypeOK
  <2>2. \A q \in Procs : /\ pc'[q] \in Places => pc'[q] = "write_log"
                         /\ pc'[q] = "end_op" => lh = <<>>
    BY <1>5, <2>1 DEF Places
  <2>3. Frame
    BY <1>2, <1>3, <1>5, <1>6, <2>2 DEF Frame
  <2> QED
    BY <1>1, <1>4, <2>3, FrameInv
<1>7. CASE outstanding' # 0 /\ WakeupLog(p, "idle")
  <2>1. \A q \in Procs : pc'[q] \notin Places /\ pc'[q] # "end_op"
    BY <1>5, <1>7 DEF WakeupLog, Places
  <2>2. Active' # {}
    BY <1>7, FS_EmptySet DEF LogInv, Reservation
  <2>3. Frame
    BY <1>2, <1>3, <1>5, <2>1, <2>2 DEF Frame
  <2> QED
    BY <1>1, <1>4, <2>3, FrameInv
<1> QED
  BY <1>6, <1>7 DEF end_op, Goto

\* While a call is admitted nothing commits and every logged block is pinned.
LEMMA CallFacts ==
  ASSUME DataInv, RoomEnough, NEW p \in Active
  PROVE  /\ boot = "up" /\ ~committing /\ head = <<>>
         /\ \A q \in Procs : pc[q] \notin Places /\ pc[q] # "end_op"
         /\ \A i : Pending(i)
<1>1. LogInv /\ HeaderInv
  BY DEF DataInv
<1>2. boot = "up" /\ ~committing /\ Committers = {}
  BY <1>1, ActiveFacts DEF LogInv, CommitAlone
<1>3. \A q \in Procs : pc[q] \notin Places /\ pc[q] # "end_op"
  BY <1>2 DEF Committers, Places
<1> QED
  BY <1>1, <1>2, <1>3 DEF HeaderInv, Pending, Places

\* A call's change of a cached block is the abstract write.
LEMMA ModifyStep ==
  ASSUME DataInv, LogInv', RoomEnough, NEW p \in Procs, NEW b \in Blocks, NEW v \in Vals,
         Modify(p, b, v)
  PROVE  /\ DataInv' /\ Seen' = [Seen EXCEPT ![b] = v] /\ Kept' = Kept
         /\ p \in Active /\ Active' = Active
<1>0. /\ LogInv /\ RecycleSafe /\ HeaderInv /\ PinInv /\ TypeOK
      /\ v # NotCached /\ p # Nobody
  BY DataAssumption DEF DataInv, LogInv, DataAssumption
<1>1. p \in Active /\ Active' = Active
  BY <1>0 DEF Modify, Running, Goto, Active, TypeOK
<1>2. /\ boot = "up" /\ ~committing /\ head = <<>>
      /\ \A q \in Procs : pc[q] \notin Places /\ pc[q] # "end_op"
      /\ \A i : Pending(i)
  BY <1>1, CallFacts
<1>3. /\ UNCHANGED <<disk, logdata, head, dirty, lh, boot, committing, tail>>
      /\ \A c \in Blocks : cache'[c] = IF c = b THEN v ELSE cache[c]
      /\ \A c \in Blocks : holder'[c] = IF c = b THEN p ELSE holder[c]
      /\ \A q \in Procs : pc'[q] = IF q = p THEN "log_write" ELSE pc[q]
  BY <1>0 DEF Modify, Goto, TypeOK, durables, loglocked
<1>4. /\ \A q \in Procs : pc'[q] \notin Places /\ pc'[q] # "end_op"
      /\ \A i : Pending(i)'
  BY <1>2, <1>3 DEF Places, Pending
<1>5. RecycleSafe'
  BY <1>0, <1>3 DEF RecycleSafe
<1>6. HeaderInv'
  BY <1>0, <1>1, <1>2, <1>3, <1>4 DEF HeaderInv, Injective, Places
<1>7. PinInv'
  <2>1. (\A c \in Blocks : dirty[c] => boot = "up" /\ c \in Logged)'
    BY <1>0, <1>3 DEF PinInv, Logged
  <2>2. ASSUME NEW i \in 1..Len(lh)
        PROVE  dirty[lh[i]] /\ cache'[lh[i]] # NotCached
    <3>1. lh[i] \in Blocks
      BY <1>0 DEF TypeOK
    <3> QED
      BY <1>0, <1>2, <1>3, <3>1 DEF PinInv
  <2>3. (\A c \in Blocks : holder[c] # Nobody => cache[c] # NotCached)'
    BY <1>0, <1>3 DEF PinInv
  <2> QED
    BY <1>3, <1>4, <2>1, <2>2, <2>3 DEF PinInv
<1>8. CopyInv'
  BY <1>2, <1>3, <1>4 DEF CopyInv, Places
<1>9. Kept' = Kept
  BY <1>3, KeptIs
<1>10. Seen' = [Seen EXCEPT ![b] = v]
  <2>1. \A c \in Blocks : Data(c)' = IF c = b THEN v ELSE Data(c)
    BY <1>0, <1>3 DEF Data
  <2>2. Seen = [c \in Blocks |-> Data(c)] /\ Seen' = [c \in Blocks |-> Data(c)']
    BY <1>2, <1>3, SeenIs
  <2> QED
    BY <2>1, <2>2
<1> QED
  BY <1>1, <1>5, <1>6, <1>7, <1>8, <1>9, <1>10 DEF DataInv

\* log_write() pins the block and absorbs a repetition.
LEMMA log_writeStep ==
  ASSUME DataInv, LogInv', RoomEnough, NEW p \in Procs, NEW b \in Blocks, log_write(p, b)
  PROVE  DataInv' /\ Seen' = Seen /\ Kept' = Kept /\ Active' = Active
<1>0. /\ LogInv /\ RecycleSafe /\ HeaderInv /\ PinInv /\ TypeOK /\ p # Nobody
      /\ lh \in Seq(Blocks) /\ Len(lh) \in Nat
  BY DataAssumption DEF DataInv, LogInv, DataAssumption, TypeOK
<1>1. p \in Active /\ Active' = Active
  BY <1>0 DEF log_write, Running, Goto, Active, TypeOK
<1>2. /\ boot = "up" /\ ~committing /\ head = <<>>
      /\ \A q \in Procs : pc[q] \notin Places /\ pc[q] # "end_op"
      /\ \A i : Pending(i)
  BY <1>1, CallFacts
<1>3. /\ UNCHANGED <<disk, logdata, head, cache, boot, committing, tail>>
      /\ \A c \in Blocks : dirty'[c] = IF c = b THEN TRUE ELSE dirty[c]
      /\ \A c \in Blocks : holder'[c] = IF c = b THEN Nobody ELSE holder[c]
      /\ \A q \in Procs : pc'[q] = IF q = p THEN "op" ELSE pc[q]
      /\ lh' = IF b \in Logged THEN lh ELSE Append(lh, b)
  BY <1>0 DEF log_write, pinned, with_block, Goto, TypeOK, durables
<1>4. /\ \A q \in Procs : pc'[q] \notin Places /\ pc'[q] # "end_op"
      /\ \A i : Pending(i)'
  BY <1>2, <1>3 DEF Places, Pending
<1>5. RecycleSafe'
  BY <1>0, <1>3 DEF RecycleSafe
<1>6. cache[b] # NotCached
  BY <1>0 DEF PinInv, log_write
<1>7. /\ Injective(lh') /\ b \in Logged'
      /\ \A i \in 1..Len(lh') : lh'[i] = b \/ (i \in 1..Len(lh) /\ lh'[i] = lh[i])
      /\ \A c \in Logged : c \in Logged'
  <2>1. CASE b \in Logged
    BY <1>0, <1>3, <2>1 DEF HeaderInv, Injective, Logged
  <2>2. CASE b \notin Logged
    <3>1. /\ lh' = Append(lh, b) /\ Len(lh') = Len(lh) + 1 /\ lh'[Len(lh) + 1] = b
          /\ \A i \in 1..Len(lh) : lh'[i] = lh[i] /\ lh[i] # b
      BY <1>0, <1>3, <2>2 DEF Logged
    <3>2. \A i \in 1..Len(lh') : i \in 1..Len(lh) \/ i = Len(lh) + 1
      BY <1>0, <3>1
    <3>3. Injective(lh')
      BY <1>0, <3>1, <3>2 DEF HeaderInv, Injective
    <3>4. b \in Logged' /\ \A c \in Logged : c \in Logged'
      <4>1. 1..Len(lh) \subseteq 1..Len(lh') /\ Len(lh) + 1 \in 1..Len(lh')
        BY <1>0, <3>1
      <4> QED
        BY <3>1, <4>1 DEF Logged
    <3> QED
      BY <3>1, <3>2, <3>3, <3>4
  <2> QED
    BY <2>1, <2>2
<1>8. HeaderInv'
  BY <1>0, <1>1, <1>2, <1>3, <1>4, <1>7 DEF HeaderInv, Injective, Places
<1>9. PinInv'
  <2>1. (\A c \in Blocks : dirty[c] => boot = "up" /\ c \in Logged)'
    BY <1>0, <1>2, <1>3, <1>7 DEF PinInv
  <2>2. ASSUME NEW i \in 1..Len(lh')
        PROVE  dirty'[lh'[i]] /\ cache'[lh'[i]] # NotCached
    <3>1. CASE lh'[i] = b
      BY <1>3, <1>6, <3>1
    <3>2. CASE i \in 1..Len(lh) /\ lh'[i] = lh[i]
      <4>1. lh[i] \in Blocks
        BY <1>0, <3>2
      <4> QED
        BY <1>0, <1>2, <1>3, <3>2, <4>1 DEF PinInv
    <3> QED
      BY <1>7, <3>1, <3>2
  <2>3. (\A c \in Blocks : holder[c] # Nobody => cache[c] # NotCached)'
    BY <1>0, <1>3 DEF PinInv
  <2> QED
    BY <1>4, <2>1, <2>2, <2>3 DEF PinInv
<1>10. CopyInv'
  BY <1>2, <1>3, <1>4 DEF CopyInv, Places
<1>11. Kept' = Kept
  BY <1>3, KeptIs
<1>12. Seen' = Seen
  <2>1. \A c \in Blocks : Data(c)' = Data(c)
    BY <1>3 DEF Data
  <2> QED
    BY <1>2, <1>3, <2>1, SeenIs
<1> QED
  BY <1>1, <1>5, <1>8, <1>9, <1>10, <1>11, <1>12 DEF DataInv

-----------------------------------------------------------------------------
(* commit(). *)

\* What the committing process finds.
LEMMA AtCommit ==
  ASSUME DataInv, NEW p \in Procs, pc[p] \in Places \union {"end_op"}
  PROVE  /\ committing /\ Active = {} /\ boot = "up"
         /\ \A b \in Blocks : holder[b] = Nobody
         /\ \A q \in Procs : q # p => pc[q] \notin Places /\ pc[q] # "end_op"
         /\ \A i : Pending(i) <=> pc[p] # "clear" /\ (pc[p] = "install_trans" => tail < i)
<1>1. LogInv /\ p \in Committers
  BY DEF DataInv, Committers, Places
<1>2. /\ committing /\ Active = {} /\ boot = "up" /\ Committers = {p}
      /\ \A b \in Blocks : holder[b] = Nobody
  BY <1>1, CommitFacts
<1>3. \A q \in Procs : q # p => pc[q] \notin Places /\ pc[q] # "end_op"
  BY <1>2 DEF Committers, Places
<1>4. \A i : Pending(i) <=> pc[p] # "clear" /\ (pc[p] = "install_trans" => tail < i)
  BY <1>3 DEF Pending, Places
<1> QED
  BY <1>2, <1>3, <1>4

\* Slots of the header are slots of the log.
LEMMA SlotIn ==
  ASSUME DataInv, NEW i \in 1..Len(lh)
  PROVE  i \in LogSlots /\ lh[i] \in Blocks /\ i \in Nat /\ Len(lh) \in Nat
<1>1. lh \in Seq(Blocks) /\ Len(lh) \in Nat /\ Len(lh) <= nlog - 1 /\ nlog \in Nat
  BY SizeAssumption DEF DataInv, LogInv, TypeOK, LogFits, SizeAssumption
<1>2. i \in Nat /\ 1 <= i /\ i <= Len(lh) /\ lh[i] \in Blocks
  BY <1>1
<1> QED
  BY <1>1, <1>2 DEF LogSlots

\* write_log(): a pinned block is copied, and nobody notices.
LEMMA write_logStep ==
  ASSUME DataInv, LogInv', NEW p \in Procs, write_log(p)
  PROVE  DataInv' /\ Seen' = Seen /\ Kept' = Kept /\ Active' = Active
<1>0. /\ LogInv /\ RecycleSafe /\ HeaderInv /\ PinInv /\ CopyInv /\ TypeOK
      /\ lh \in Seq(Blocks) /\ Len(lh) \in Nat /\ tail \in Nat
  BY DEF DataInv, LogInv, TypeOK
<1>1. pc[p] = "write_log"
  BY DEF write_log, Running
<1>2. /\ committing /\ Active = {} /\ boot = "up"
      /\ \A b \in Blocks : holder[b] = Nobody
      /\ \A q \in Procs : q # p => pc[q] \notin Places /\ pc[q] # "end_op"
      /\ \A i : Pending(i)
  BY <1>1, AtCommit DEF Places
<1> DEFINE n == tail + 1
           b == lh[n]
<1>3. n \in 1..Len(lh) /\ n \in LogSlots /\ b \in Blocks
  <2>1. n \in 1..Len(lh)
    BY <1>0, <1>1 DEF LogInv, LoopsInRange
  <2> QED
    BY <2>1, SlotIn
<1>4. Data(b) = cache[b] /\ cache' = cache
  <2>1. cache[b] # NotCached
    BY <1>0, <1>2, <1>3 DEF PinInv
  <2>2. Data(b) = cache[b]
    BY <2>1 DEF Data
  <2> QED
    BY <1>0, <1>3, <2>2 DEF write_log, TypeOK
<1>5. /\ UNCHANGED <<disk, head, cache, dirty, holder, lh, boot, committing>>
      /\ tail' = n
      /\ \A i \in LogSlots : logdata'[i] = IF i = n THEN cache[b] ELSE logdata[i]
      /\ \A q \in Procs : pc'[q] = IF q = p THEN (IF n < Len(lh) THEN "write_log" ELSE "write_head")
                                   ELSE pc[q]
  BY <1>0, <1>3, <1>4 DEF write_log, LoopAgain, Goto, loglocked, TypeOK
<1> HIDE DEF n
<1>6. /\ \A q \in Procs : q # p => pc'[q] \notin Places
      /\ \A q \in Procs : pc'[q] \notin {"install_trans", "clear", "end_op"}
      /\ \A i : Pending(i)' /\ Active' = {}
  BY <1>1, <1>2, <1>5 DEF Places, Pending, Active
<1>7. RecycleSafe'
  BY <1>0, <1>5 DEF RecycleSafe
<1>8. HeaderInv'
  <2>1. \A q \in Procs : pc[q] \notin {"install_trans", "clear", "end_op"}
    BY <1>1, <1>2 DEF Places
  <2>2. head = <<>>
    BY <1>0, <1>2, <2>1 DEF HeaderInv
  <2> QED
    BY <1>0, <1>2, <1>5, <1>6, <2>2 DEF HeaderInv, Injective
<1>9. PinInv'
  BY <1>0, <1>2, <1>5, <1>6 DEF PinInv, Logged
<1>10. CopyInv'
  <2>1. ASSUME NEW i \in 1..Len(lh), i <= n
        PROVE  logdata'[i] = cache[lh[i]]
    <3>1. i \in LogSlots /\ i \in Nat
      BY SlotIn
    <3>2. CASE i = n
      BY <1>5, <3>1, <3>2
    <3>3. CASE i # n
      <4>1. i <= tail
        BY <1>0, <2>1, <3>1, <3>3 DEF n
      <4> QED
        BY <1>0, <1>1, <1>5, <3>1, <3>3, <4>1 DEF CopyInv
    <3> QED
      BY <3>2, <3>3
  <2>2. ~(n < Len(lh)) => n = Len(lh)
    BY <1>0, <1>3
  <2>3. pc'[p] = "write_head" => \A i \in 1..Len(lh) : i <= n
    BY <1>5, <2>2
  <2> QED
    BY <1>2, <1>5, <1>6, <2>1, <2>3 DEF CopyInv, Places
<1>11. Kept' = Kept
  <2>1. \A q \in Procs : pc[q] \notin {"install_trans", "clear"}
    BY <1>1, <1>2 DEF Places
  <2>2. head = <<>> /\ head' = <<>>
    BY <1>0, <1>2, <1>5, <2>1 DEF HeaderInv
  <2> QED
    BY <1>5, <2>2, KeptEmpty
<1>12. Seen' = Seen
  <2>1. \A c \in Blocks : Data(c)' = Data(c)
    BY <1>5 DEF Data
  <2> QED
    BY <1>2, <1>5, <2>1, SeenIs
<1> QED
  BY <1>2, <1>6, <1>7, <1>8, <1>9, <1>10, <1>11, <1>12 DEF DataInv

\* write_head(): everything the system sees becomes durable at once.
LEMMA write_headStep ==
  ASSUME DataInv, LogInv', NEW p \in Procs, write_head(p)
  PROVE  DataInv' /\ Seen' = Seen /\ Kept' = Seen /\ Active = {} /\ Active' = Active
<1>0. /\ LogInv /\ RecycleSafe /\ HeaderInv /\ PinInv /\ CopyInv /\ TypeOK
      /\ lh \in Seq(Blocks) /\ Len(lh) \in Nat /\ tail \in Nat
  BY DEF DataInv, LogInv, TypeOK
<1>1. pc[p] = "write_head"
  BY DEF write_head, Running
<1>2. /\ committing /\ Active = {} /\ boot = "up"
      /\ \A b \in Blocks : holder[b] = Nobody
      /\ \A q \in Procs : q # p => pc[q] \notin Places /\ pc[q] # "end_op"
      /\ \A i : Pending(i)
  BY <1>1, AtCommit DEF Places
<1>3. /\ UNCHANGED <<disk, logdata, cache, dirty, holder, lh, boot, committing>>
      /\ tail' = 0 /\ head' = lh
      /\ \A q \in Procs : pc'[q] = IF q = p THEN "install_trans" ELSE pc[q]
  BY <1>0 DEF write_head, header_image, Goto, buffers, loglocked, TypeOK
<1>4. /\ \A q \in Procs : q # p => pc'[q] \notin Places /\ pc'[q] # "end_op"
      /\ \A i \in 1..Len(lh) : Pending(i)'
      /\ pc'[p] = "install_trans" /\ Active' = {}
  BY <1>0, <1>2, <1>3 DEF Places, Pending, Active
<1>5. RecycleSafe'
  BY <1>0, <1>3 DEF RecycleSafe
<1>6. HeaderInv'
  BY <1>0, <1>2, <1>3, <1>4 DEF HeaderInv, Injective
<1>7. PinInv'
  BY <1>0, <1>2, <1>3, <1>4 DEF PinInv, Logged
<1>8. CopyInv'
  <2>1. \A i \in 1..Len(lh) : logdata[i] = cache[lh[i]] /\ ~(i <= 0)
    BY <1>0, <1>1 DEF CopyInv
  <2> QED
    BY <1>2, <1>3, <1>4, <2>1 DEF CopyInv, Places
<1>9. Seen = [b \in Blocks |-> Data(b)] /\ Seen' = Seen
  <2>1. \A c \in Blocks : Data(c)' = Data(c)
    BY <1>3 DEF Data
  <2> QED
    BY <1>2, <1>3, <2>1, SeenIs
<1>10. Kept' = Seen
  <2>1. ASSUME NEW b \in Blocks
        PROVE  RecoverOf(lh, logdata, disk, b) = Data(b)
    <3>1. ASSUME NEW i \in 1..Len(lh), lh[i] = b
          PROVE  RecoverOf(lh, logdata, disk, b) = Data(b)
      <4>0. Injective(lh)
        BY <1>0 DEF HeaderInv
      <4>1. RecoverOf(lh, logdata, disk, lh[i]) = logdata[i]
        BY <1>0, <4>0, RecoverSlot
      <4>2. logdata[i] = cache[b] /\ cache[b] # NotCached
        BY <1>0, <1>1, <1>2, <3>1 DEF CopyInv, PinInv
      <4> QED
        BY <3>1, <4>1, <4>2 DEF Data
    <3>2. CASE \A i \in 1..Len(lh) : lh[i] # b
      <4>1. RecoverOf(lh, logdata, disk, b) = disk[b]
        BY <1>0, <3>2, RecoverOther
      <4>2. ~dirty[b]
        BY <1>0, <3>2 DEF PinInv, Logged
      <4> QED
        BY <1>0, <1>2, <4>1, <4>2 DEF RecycleSafe, Data
    <3> QED
      BY <3>1, <3>2
  <2>2. Kept' = [b \in Blocks |-> RecoverOf(lh, logdata, disk, b)]
    BY <1>3, KeptIs
  <2> QED
    BY <1>9, <2>1, <2>2
<1> QED
  BY <1>2, <1>4, <1>5, <1>6, <1>7, <1>8, <1>9, <1>10 DEF DataInv

\* install_trans(): what goes home is what the cache and the log already say.
LEMMA install_transStep ==
  ASSUME DataInv, LogInv', NEW p \in Procs, install_trans(p)
  PROVE  DataInv' /\ Seen' = Seen /\ Kept' = Kept /\ Active' = Active
<1>0. /\ LogInv /\ RecycleSafe /\ HeaderInv /\ PinInv /\ CopyInv /\ TypeOK
      /\ lh \in Seq(Blocks) /\ Len(lh) \in Nat /\ tail \in Nat
  BY DEF DataInv, LogInv, TypeOK
<1>1. pc[p] = "install_trans"
  BY DEF install_trans, Running
<1>2. /\ committing /\ Active = {} /\ boot = "up"
      /\ \A b \in Blocks : holder[b] = Nobody
      /\ \A q \in Procs : q # p => pc[q] \notin Places /\ pc[q] # "end_op"
      /\ \A i : Pending(i) <=> tail < i
  BY <1>1, AtCommit DEF Places
<1>3. head = lh
  BY <1>0, <1>1, <1>2 DEF HeaderInv
<1> DEFINE n == tail + 1
           h == lh[n]
<1>4. n \in 1..Len(lh) /\ n \in LogSlots /\ h \in Blocks
  <2>1. n \in 1..Len(lh)
    BY <1>0, <1>1 DEF LogInv, LoopsInRange
  <2> QED
    BY <2>1, SlotIn
<1>5. logdata[n] = cache[h] /\ cache[h] # NotCached
  <2>1. tail < n
    BY <1>0
  <2> QED
    BY <1>0, <1>1, <1>2, <1>4, <2>1 DEF CopyInv, PinInv
<1>6. /\ UNCHANGED <<logdata, head, holder, lh, boot, committing>>
      /\ tail' = n
      /\ \A c \in Blocks : /\ cache'[c] = cache[c]
                           /\ disk'[c] = IF c = h THEN logdata[n] ELSE disk[c]
                           /\ dirty'[c] = IF c = h THEN FALSE ELSE dirty[c]
      /\ \A q \in Procs : pc'[q] = IF q = p THEN (IF n < Len(lh) THEN "install_trans" ELSE "clear")
                                   ELSE pc[q]
  BY <1>0, <1>4, <1>5 DEF install_trans, Install, LoopAgain, Goto, loglocked, TypeOK
<1>7. \A i \in 1..Len(lh) : /\ lh[i] \in Blocks /\ i \in Nat /\ n \in Nat
                            /\ lh[i] = h <=> i = n
                            /\ i <= n <=> (i <= tail \/ i = n)
                            /\ n < i <=> (tail < i /\ i # n)
                            /\ ~(n < Len(lh)) => i <= n
  <2>1. \A i \in 1..Len(lh) : lh[i] \in Blocks /\ i \in Nat
    BY SlotIn
  <2>2. \A i \in 1..Len(lh) : lh[i] = h <=> i = n
    BY <1>0, <1>4 DEF HeaderInv, Injective
  <2> QED
    BY <1>0, <2>1, <2>2
<1> HIDE DEF n, h
<1>8. /\ \A q \in Procs : q # p => pc'[q] \notin Places /\ pc'[q] # "end_op"
      /\ \A i \in 1..Len(lh) : Pending(i)' <=> n < i
      /\ pc'[p] \in {"install_trans", "clear"} /\ Active' = {}
  <2>1. pc'[p] \in {"install_trans", "clear"} /\ Active' = {}
        /\ \A q \in Procs : q # p => pc'[q] \notin Places /\ pc'[q] # "end_op"
    BY <1>2, <1>6 DEF Active
  <2>2. ASSUME NEW i \in 1..Len(lh) PROVE Pending(i)' <=> n < i
    <3>1. Pending(i)' <=> pc'[p] # "clear" /\ (pc'[p] = "install_trans" => n < i)
      BY <1>6, <2>1 DEF Pending, Places
    <3>2. pc'[p] = "clear" => ~(n < Len(lh))
      BY <1>6
    <3>3. pc'[p] = "clear" => ~(n < i)
      BY <1>7, <3>2
    <3> QED
      BY <2>1, <3>1, <3>3
  <2> QED
    BY <2>1, <2>2
<1>9. RecycleSafe'
  BY <1>0, <1>5, <1>6 DEF RecycleSafe
<1>10. HeaderInv'
  BY <1>0, <1>2, <1>3, <1>6, <1>8 DEF HeaderInv, Injective
<1>11. PinInv'
  <2>0. Logged' = Logged /\ \A c \in Blocks : dirty'[c] => dirty[c]
    BY <1>6 DEF Logged
  <2>1. (\A c \in Blocks : dirty[c] => boot = "up" /\ c \in Logged)'
    BY <1>0, <1>6, <2>0 DEF PinInv
  <2>2. ASSUME NEW i \in 1..Len(lh)
        PROVE  /\ dirty'[lh[i]] <=> Pending(i)'
               /\ Pending(i)' => cache'[lh[i]] # NotCached
    <3>1. /\ dirty[lh[i]] <=> tail < i
          /\ tail < i => cache[lh[i]] # NotCached
      BY <1>0, <1>2 DEF PinInv
    <3>2. dirty'[lh[i]] <=> (dirty[lh[i]] /\ i # n)
      BY <1>6, <1>7
    <3> QED
      BY <1>6, <1>7, <1>8, <3>1, <3>2
  <2>3. (\A c \in Blocks : holder[c] # Nobody => cache[c] # NotCached)'
    BY <1>0, <1>6 DEF PinInv
  <2> QED
    BY <1>6, <2>1, <2>2, <2>3 DEF PinInv
<1>12. CopyInv'
  <2>1. ASSUME NEW i \in 1..Len(lh)
        PROVE  /\ n < i => logdata[i] = cache'[lh[i]]
               /\ i <= n => logdata[i] = disk'[lh[i]]
    <3>1. /\ tail < i => logdata[i] = cache[lh[i]]
          /\ i <= tail => logdata[i] = disk[lh[i]]
      BY <1>0, <1>1 DEF CopyInv
    <3> QED
      BY <1>6, <1>7, <3>1
  <2>2. pc'[p] = "clear" => \A i \in 1..Len(lh) : i <= n
    BY <1>6, <1>7
  <2> QED
    BY <1>2, <1>6, <1>8, <2>1, <2>2 DEF CopyInv, Places
<1>13. Kept' = Kept
  <2>1. ASSUME NEW b \in Blocks
        PROVE  RecoverOf(lh, logdata, disk', b) = RecoverOf(lh, logdata, disk, b)
    <3>1. ASSUME NEW i \in 1..Len(lh), lh[i] = b
          PROVE  RecoverOf(lh, logdata, disk', b) = RecoverOf(lh, logdata, disk, b)
      <4>0. Injective(lh)
        BY <1>0 DEF HeaderInv
      <4>1. ASSUME NEW d PROVE RecoverOf(lh, logdata, d, lh[i]) = logdata[i]
        BY <1>0, <4>0, RecoverSlot
      <4> QED
        BY <3>1, <4>1
    <3>2. CASE \A i \in 1..Len(lh) : lh[i] # b
      <4>1. b # h
        BY <1>4, <3>2 DEF h
      <4>2. ASSUME NEW d PROVE RecoverOf(lh, logdata, d, b) = d[b]
        BY <1>0, <3>2, RecoverOther
      <4> QED
        BY <1>6, <4>1, <4>2
    <3> QED
      BY <3>1, <3>2
  <2> QED
    BY <1>3, <1>6, <2>1, KeptIs
<1>14. Seen' = Seen
  <2>1. \A c \in Blocks : Data(c)' = Data(c)
    <3> SUFFICES ASSUME NEW c \in Blocks PROVE Data(c)' = Data(c)
      OBVIOUS
    <3>1. CASE c = h
      BY <1>5, <1>6, <3>1 DEF Data
    <3>2. CASE c # h
      BY <1>6, <3>2 DEF Data
    <3> QED
      BY <3>1, <3>2
  <2> QED
    BY <1>2, <1>6, <2>1, SeenIs
<1> QED
  BY <1>2, <1>8, <1>9, <1>10, <1>11, <1>12, <1>13, <1>14 DEF DataInv

\* Everything is home, so the header can go; then the waiters are let in.
LEMMA clear_logStep ==
  ASSUME DataInv, LogInv', NEW p \in Procs, clear_log(p)
  PROVE  DataInv' /\ Seen' = Seen /\ Kept' = Kept /\ Active' = Active
<1>0. /\ LogInv /\ RecycleSafe /\ HeaderInv /\ PinInv /\ CopyInv /\ TypeOK
      /\ lh \in Seq(Blocks) /\ Len(lh) \in Nat /\ tail \in Nat
  BY DEF DataInv, LogInv, TypeOK
<1>1. pc[p] = "clear"
  BY DEF clear_log, Running
<1>2. /\ committing /\ Active = {} /\ boot = "up"
      /\ \A b \in Blocks : holder[b] = Nobody
      /\ \A q \in Procs : q # p => pc[q] \notin Places /\ pc[q] # "end_op"
      /\ \A i : ~Pending(i)
  BY <1>1, AtCommit DEF Places
<1>3. head = lh
  BY <1>0, <1>1, <1>2 DEF HeaderInv
<1>4. /\ UNCHANGED <<disk, logdata, cache, dirty, holder, boot, committing, tail>>
      /\ lh' = <<>> /\ head' = <<>> /\ Len(lh') = 0
      /\ \A q \in Procs : pc'[q] = IF q = p THEN "end_op" ELSE pc[q]
  BY <1>0 DEF clear_log, Goto, buffers, TypeOK
<1>5. \A q \in Procs : pc'[q] \notin Places
  BY <1>2, <1>4 DEF Places
<1>6. \A b \in Blocks : ~dirty[b]
  BY <1>0, <1>2 DEF PinInv, Logged
<1>7. Active' = {}
  BY <1>2, <1>4 DEF Active
<1>8. RecycleSafe'
  BY <1>0, <1>4 DEF RecycleSafe
<1>9. HeaderInv'
  BY <1>2, <1>4, <1>5 DEF HeaderInv, Injective, Places
<1>10. PinInv'
  BY <1>0, <1>4, <1>6 DEF PinInv
<1>11. CopyInv'
  BY <1>4 DEF CopyInv
<1>12. Kept' = Kept
  <2>1. ASSUME NEW b \in Blocks
        PROVE  RecoverOf(lh, logdata, disk, b) = disk[b]
    <3>1. ASSUME NEW i \in 1..Len(lh), lh[i] = b
          PROVE  RecoverOf(lh, logdata, disk, b) = disk[b]
      <4>0. Injective(lh)
        BY <1>0 DEF HeaderInv
      <4>1. RecoverOf(lh, logdata, disk, lh[i]) = logdata[i]
        BY <1>0, <4>0, RecoverSlot
      <4> QED
        BY <1>0, <1>1, <3>1, <4>1 DEF CopyInv
    <3>2. CASE \A i \in 1..Len(lh) : lh[i] # b
      BY <1>0, <3>2, RecoverOther
    <3> QED
      BY <3>1, <3>2
  <2> QED
    BY <1>3, <1>4, <2>1, KeptIs, KeptEmpty
<1>13. Seen' = Seen
  <2>1. \A c \in Blocks : Data(c)' = Data(c)
    BY <1>4 DEF Data
  <2> QED
    BY <1>2, <1>4, <2>1, SeenIs
<1> QED
  BY <1>2, <1>7, <1>8, <1>9, <1>10, <1>11, <1>12, <1>13 DEF DataInv

\* The second critical section of end_op().
LEMMA end_commitStep ==
  ASSUME DataInv, LogInv', NEW p \in Procs, end_commit(p)
  PROVE  DataInv' /\ Seen' = Seen /\ Kept' = Kept /\ Active' = Active
<1>0. LogInv /\ HeaderInv /\ TypeOK
  BY DEF DataInv, LogInv
<1>1. pc[p] = "end_op"
  BY DEF end_commit, Running
<1>2. lh = <<>> /\ \A q \in Procs : q # p => pc[q] \notin Places /\ pc[q] # "end_op"
  BY <1>0, <1>1, AtCommit DEF HeaderInv
<1>3. /\ UNCHANGED <<disk, logdata, head, cache, dirty, holder, lh, boot, tail>>
      /\ \A q \in Procs : pc'[q] \notin Places /\ pc[q] \notin Places
      /\ Active' = Active
  BY <1>1, <1>2 DEF end_commit, WakeupLog, durables, buffers, Places, Active
<1>4. Frame
  BY <1>2, <1>3 DEF Frame
<1> QED
  BY <1>3, <1>4, FrameInv

-----------------------------------------------------------------------------
(* The buffer cache, crashes and recovery. *)

\* bget() only throws away what the disk has too.
LEMMA RecycleStep ==
  ASSUME DataInv, LogInv', NEW b \in Blocks, Recycle(b)
  PROVE  DataInv' /\ Seen' = Seen /\ Kept' = Kept /\ Active' = Active
<1>0. /\ LogInv /\ RecycleSafe /\ HeaderInv /\ PinInv /\ CopyInv /\ TypeOK
      /\ lh \in Seq(Blocks)
  BY DEF DataInv, LogInv, TypeOK
<1>1. /\ UNCHANGED <<disk, logdata, head, dirty, holder, lh, boot, committing, tail, pc>>
      /\ \A c \in Blocks : cache'[c] = IF c = b THEN NotCached ELSE cache[c]
      /\ cache[b] # NotCached /\ holder[b] = Nobody /\ ~dirty[b]
  BY <1>0 DEF Recycle, durables, loglocked, TypeOK
<1>2. Active' = Active /\ Logged' = Logged /\ \A i : Pending(i)' <=> Pending(i)
  BY <1>1 DEF Active, Logged, Pending
<1>3. cache[b] = disk[b]
  BY <1>0, <1>1 DEF RecycleSafe
<1>4. RecycleSafe'
  BY <1>0, <1>1 DEF RecycleSafe
<1>5. HeaderInv'
  BY <1>0, <1>1, <1>2 DEF HeaderInv, Injective
<1>6. \A i \in 1..Len(lh) : lh[i] \in Blocks /\ (boot = "up" /\ Pending(i) => cache'[lh[i]] = cache[lh[i]])
  <2> SUFFICES ASSUME NEW i \in 1..Len(lh)
               PROVE  lh[i] \in Blocks /\ (boot = "up" /\ Pending(i) => cache'[lh[i]] = cache[lh[i]])
    OBVIOUS
  <2>1. lh[i] \in Blocks
    BY <1>0
  <2>2. boot = "up" /\ Pending(i) => dirty[lh[i]]
    BY <1>0 DEF PinInv
  <2> QED
    BY <1>1, <2>1, <2>2
<1>7. PinInv'
  <2>1. (\A c \in Blocks : dirty[c] => boot = "up" /\ c \in Logged)'
    BY <1>0, <1>1, <1>2 DEF PinInv
  <2>2. (boot = "up" => \A i \in 1..Len(lh) : /\ dirty[lh[i]] <=> Pending(i)
                                              /\ Pending(i) => cache[lh[i]] # NotCached)'
    BY <1>0, <1>1, <1>2, <1>6 DEF PinInv
  <2>3. (\A c \in Blocks : holder[c] # Nobody => cache[c] # NotCached)'
    BY <1>0, <1>1 DEF PinInv
  <2> QED
    BY <2>1, <2>2, <2>3 DEF PinInv
<1>8. CopyInv'
  <2>1. ASSUME NEW i \in 1..Len(lh), NEW p \in Procs,
               pc[p] \in {"write_log", "write_head"} \/ (pc[p] = "install_trans" /\ tail < i)
        PROVE  cache'[lh[i]] = cache[lh[i]]
    <3>1. boot = "up" /\ Pending(i)
      BY <2>1, AtCommit DEF Places
    <3> QED
      BY <1>6, <3>1
  <2>2. ASSUME NEW i \in 1..Len(lh), NEW p \in Procs
        PROVE  /\ pc[p] = "write_log" /\ i <= tail => logdata[i] = cache'[lh[i]]
               /\ pc[p] = "write_head" => logdata[i] = cache'[lh[i]]
               /\ pc[p] = "install_trans" /\ tail < i => logdata[i] = cache'[lh[i]]
               /\ pc[p] = "install_trans" /\ i <= tail => logdata[i] = disk[lh[i]]
               /\ pc[p] = "clear" => logdata[i] = disk[lh[i]]
    BY <1>0, <2>1 DEF CopyInv
  <2>3. ASSUME NEW i \in 1..Len(lh)
        PROVE  /\ boot = "install_trans" /\ i <= tail => logdata[i] = disk[lh[i]]
               /\ boot = "clear" => logdata[i] = disk[lh[i]]
    BY <1>0 DEF CopyInv
  <2> QED
    BY <1>1, <2>2, <2>3 DEF CopyInv
<1>9. Kept' = Kept
  BY <1>1, KeptIs
<1>10. Seen' = Seen
  <2>1. \A c \in Blocks : Data(c)' = Data(c)
    BY <1>1, <1>3 DEF Data
  <2>2. CASE boot = "up"
    BY <1>1, <2>1, <2>2, SeenIs
  <2>3. CASE boot # "up"
    BY <1>1, <1>9, <2>3, SeenIs
  <2> QED
    BY <2>2, <2>3
<1> QED
  BY <1>2, <1>4, <1>5, <1>7, <1>8, <1>9, <1>10 DEF DataInv

\* A crash throws away what is not durable, and only that.
LEMMA CrashStep ==
  ASSUME DataInv, LogInv', Crash
  PROVE  DataInv' /\ Seen' = Kept /\ Kept' = Kept /\ Active' = {}
<1>0. HeaderInv
  BY DEF DataInv
<1>1. /\ UNCHANGED <<disk, logdata, head>> /\ boot' = "read_head" /\ lh' = <<>>
      /\ \A b \in Blocks : cache'[b] = NotCached /\ dirty'[b] = FALSE /\ holder'[b] = Nobody
      /\ \A p \in Procs : pc'[p] = "idle"
  BY DEF Crash, durables
<1>2. Active' = {}
  BY <1>1 DEF Active
<1>3. RecycleSafe' /\ PinInv' /\ CopyInv'
  BY <1>1 DEF RecycleSafe, PinInv, CopyInv
<1>4. HeaderInv'
  BY <1>0, <1>1 DEF HeaderInv, Injective
<1>5. Kept' = Kept
  BY <1>1, KeptIs
<1>6. Seen' = Kept
  BY <1>1, <1>5, SeenIs
<1> QED
  BY <1>2, <1>3, <1>4, <1>5, <1>6 DEF DataInv

\* What recover_from_log() finds.
LEMMA AtBoot ==
  ASSUME DataInv, boot # "up"
  PROVE  /\ Active = {} /\ \A p \in Procs : pc[p] = "idle"
         /\ \A b \in Blocks : holder[b] = Nobody /\ ~dirty[b]
<1>1. \A p \in Procs : pc[p] = "idle"
  BY DEF DataInv, LogInv, BootAlone
<1>2. \A b \in Blocks : holder[b] = Nobody
  <2> SUFFICES ASSUME NEW b \in Blocks, holder[b] # Nobody PROVE FALSE
    OBVIOUS
  <2>1. holder[b] \in Procs /\ pc[holder[b]] = "log_write"
    BY DEF DataInv, LogInv, OneBuffer, TypeOK
  <2> QED
    BY <1>1, <2>1
<1> QED
  BY <1>1, <1>2 DEF Active, DataInv, PinInv

\* Recovery changes neither what is durable nor what will be seen.
LEMMA RecoverStep ==
  ASSUME DataInv, LogInv', Recover
  PROVE  DataInv' /\ Seen' = Seen /\ Kept' = Kept /\ Active' = Active
<1>0. /\ LogInv /\ RecycleSafe /\ HeaderInv /\ PinInv /\ CopyInv /\ TypeOK
      /\ lh \in Seq(Blocks) /\ Len(lh) \in Nat /\ tail \in Nat
  BY DEF DataInv, LogInv, TypeOK
<1>1. boot \in {"read_head", "install_trans", "clear"} /\ pc' = pc
  BY DEF Recover, read_head, recover_install, recover_clear
<1>2. /\ Active = {} /\ \A p \in Procs : pc[p] = "idle"
      /\ \A b \in Blocks : holder[b] = Nobody /\ ~dirty[b]
  BY <1>1, AtBoot
<1>3. Active' = {} /\ \A p \in Procs : pc'[p] = "idle"
  BY <1>1, <1>2 DEF Active
<1>4. CASE read_head
  <2>1. /\ UNCHANGED <<disk, logdata, head, cache, dirty, holder>>
        /\ lh' = head /\ tail' = 0
        /\ boot' = IF head = <<>> THEN "clear" ELSE "install_trans"
    BY <1>4 DEF read_head, durables, buffers
  <2>2. RecycleSafe' /\ PinInv'
    BY <1>0, <1>2, <2>1 DEF RecycleSafe, PinInv
  <2>3. HeaderInv'
    BY <1>0, <1>3, <2>1 DEF HeaderInv, Injective
  <2>4. CopyInv'
    <3>1. boot' = "clear" => Len(lh') = 0
      BY <2>1
    <3> QED
      BY <1>3, <2>1, <3>1 DEF CopyInv
  <2>5. Kept' = Kept
    BY <2>1, KeptIs
  <2>6. Seen' = Seen
    BY <1>1, <2>1, <2>5, SeenIs
  <2> QED
    BY <1>2, <1>3, <2>2, <2>3, <2>4, <2>5, <2>6 DEF DataInv
<1>5. CASE recover_install
  <2> DEFINE n == tail + 1
             h == lh[n]
  <2>1. boot = "install_trans" /\ lh = head /\ Injective(lh)
    BY <1>0, <1>5 DEF recover_install, HeaderInv
  <2>2. n \in 1..Len(lh) /\ h \in Blocks
    BY <1>0, <2>1 DEF LogInv, LoopsInRange
  <2>3. /\ UNCHANGED <<logdata, head, holder, lh>>
        /\ tail' = n
        /\ \A c \in Blocks : /\ cache'[c] = IF c = h THEN logdata[n] ELSE cache[c]
                             /\ disk'[c] = IF c = h THEN logdata[n] ELSE disk[c]
                             /\ dirty'[c] = IF c = h THEN FALSE ELSE dirty[c]
        /\ boot' = IF n < Len(lh) THEN "install_trans" ELSE "clear"
    BY <1>0, <1>5, <2>2 DEF recover_install, Install, LoopAgain, loglocked, TypeOK
  <2>4. \A i \in 1..Len(lh) : /\ lh[i] \in Blocks
                              /\ lh[i] = h <=> i = n
                              /\ i <= n => (i <= tail \/ i = n)
                              /\ ~(n < Len(lh)) => i <= n
    <3>1. \A i \in 1..Len(lh) : lh[i] = h <=> i = n
      BY <2>1, <2>2 DEF Injective
    <3> QED
      BY <1>0, <3>1
  <2> HIDE DEF n, h
  <2>5. RecycleSafe'
    BY <1>0, <2>3 DEF RecycleSafe
  <2>6. PinInv'
    <3>1. \A c \in Blocks : ~dirty'[c] /\ holder'[c] = Nobody
      BY <1>2, <2>3
    <3> QED
      BY <2>3, <3>1 DEF PinInv
  <2>7. HeaderInv'
    BY <1>0, <1>3, <2>1, <2>3 DEF HeaderInv, Injective
  <2>8. CopyInv'
    <3>1. ASSUME NEW i \in 1..Len(lh), i <= n PROVE logdata[i] = disk'[lh[i]]
      <4>1. CASE i = n
        BY <2>3, <2>4, <4>1
      <4>2. CASE i # n
        <5>1. logdata[i] = disk[lh[i]]
          BY <1>0, <2>1, <2>4, <3>1, <4>2 DEF CopyInv
        <5> QED
          BY <2>3, <2>4, <4>2, <5>1
      <4> QED
        BY <4>1, <4>2
    <3>2. boot' = "clear" => \A i \in 1..Len(lh) : i <= n
      BY <2>3, <2>4
    <3> QED
      BY <1>3, <2>3, <3>1, <3>2 DEF CopyInv
  <2>9. Kept' = Kept
    <3>1. ASSUME NEW b \in Blocks
          PROVE  RecoverOf(lh, logdata, disk', b) = RecoverOf(lh, logdata, disk, b)
      <4>1. ASSUME NEW i \in 1..Len(lh), lh[i] = b
            PROVE  RecoverOf(lh, logdata, disk', b) = RecoverOf(lh, logdata, disk, b)
        <5>0. lh \in Seq(Blocks) /\ Injective(lh)
          BY <1>0, <2>1
        <5>1. ASSUME NEW d PROVE RecoverOf(lh, logdata, d, lh[i]) = logdata[i]
          BY <5>0, RecoverSlot
        <5> QED
          BY <4>1, <5>1
      <4>2. CASE \A i \in 1..Len(lh) : lh[i] # b
        <5>1. b # h
          BY <2>2, <4>2 DEF h
        <5>2. ASSUME NEW d PROVE RecoverOf(lh, logdata, d, b) = d[b]
          BY <1>0, <4>2, RecoverOther
        <5> QED
          BY <2>3, <5>1, <5>2
      <4> QED
        BY <4>1, <4>2
    <3> QED
      BY <2>1, <2>3, <3>1, KeptIs
  <2>10. Seen' = Seen
    BY <2>1, <2>3, <2>9, SeenIs
  <2> QED
    BY <1>2, <1>3, <2>5, <2>6, <2>7, <2>8, <2>9, <2>10 DEF DataInv
<1>6. CASE recover_clear
  <2>1. /\ UNCHANGED <<disk, logdata, cache, dirty, holder>>
        /\ lh' = <<>> /\ head' = <<>> /\ boot' = "up" /\ Len(lh') = 0
        /\ boot = "clear" /\ lh = head /\ Injective(lh)
    BY <1>0, <1>6 DEF recover_clear, buffers, HeaderInv
  <2>2. RecycleSafe' /\ PinInv'
    BY <1>0, <1>2, <2>1 DEF RecycleSafe, PinInv
  <2>3. HeaderInv'
    BY <1>3, <2>1 DEF HeaderInv, Injective
  <2>4. CopyInv'
    BY <2>1 DEF CopyInv
  <2>5. Kept = [b \in Blocks |-> disk[b]] /\ Kept' = Kept
    <3>1. ASSUME NEW b \in Blocks
          PROVE  RecoverOf(lh, logdata, disk, b) = disk[b]
      <4>1. ASSUME NEW i \in 1..Len(lh), lh[i] = b
            PROVE  RecoverOf(lh, logdata, disk, b) = disk[b]
        <5>0. lh \in Seq(Blocks) /\ Injective(lh)
          BY <1>0, <2>1
        <5>1. RecoverOf(lh, logdata, disk, lh[i]) = logdata[i]
          BY <5>0, RecoverSlot
        <5> QED
          BY <1>0, <2>1, <4>1, <5>1 DEF CopyInv
      <4>2. CASE \A i \in 1..Len(lh) : lh[i] # b
        BY <1>0, <4>2, RecoverOther
      <4> QED
        BY <4>1, <4>2
    <3> QED
      BY <2>1, <3>1, KeptIs, KeptEmpty
  <2>6. Seen' = Seen
    <3>1. \A b \in Blocks : Data(b)' = disk[b]
      BY <1>0, <1>2, <2>1 DEF Data, RecycleSafe
    <3> QED
      BY <2>1, <2>5, <3>1, SeenIs
  <2> QED
    BY <1>2, <1>3, <2>2, <2>3, <2>4, <2>5, <2>6 DEF DataInv
<1> QED
  BY <1>4, <1>5, <1>6 DEF Recover
-----------------------------------------------------------------------------
(* The refinement. *)

\* What a step of the log is on the abstract disk.
AbstractStep ==
  \/ Seen' = Seen /\ Kept' = Kept /\ Active' = Active
  \/ \E p \in Procs : /\ Seen' = Seen /\ Kept' = Kept
                      /\ \/ p \notin Active /\ Active' = Active \union {p}
                         \/ p \in Active /\ Active' = Active \ {p}
  \/ \E p \in Procs, b \in Blocks, v \in Vals :
       p \in Active /\ Active' = Active /\ Kept' = Kept /\ Seen' = [Seen EXCEPT ![b] = v]
  \/ Seen' = Seen /\ Kept' = Seen /\ Active = {} /\ Active' = Active
  \/ Seen' = Kept /\ Kept' = Kept /\ Active' = {}

\* Every step keeps the invariant and is an abstract step.
LEMMA StepRefines ==
  ASSUME RoomEnough, DataInv, LogInv', [Next]_vars
  PROVE  DataInv' /\ AbstractStep
<1>1. ASSUME NEW p \in Procs, Syscall(p) \/ begin_op(p) PROVE DataInv' /\ AbstractStep
  BY <1>1, begin_opStep DEF AbstractStep
<1>2. ASSUME NEW p \in Procs, end_op(p) PROVE DataInv' /\ AbstractStep
  BY <1>2, end_opStep DEF AbstractStep
<1>3. ASSUME NEW p \in Procs, Commit(p) PROVE DataInv' /\ AbstractStep
  <2>1. CASE write_log(p)
    BY <2>1, write_logStep DEF AbstractStep
  <2>2. CASE write_head(p)
    BY <2>2, write_headStep DEF AbstractStep
  <2>3. CASE install_trans(p)
    BY <2>3, install_transStep DEF AbstractStep
  <2>4. CASE clear_log(p)
    BY <2>4, clear_logStep DEF AbstractStep
  <2>5. CASE end_commit(p)
    BY <2>5, end_commitStep DEF AbstractStep
  <2> QED
    BY <1>3, <2>1, <2>2, <2>3, <2>4, <2>5 DEF Commit
<1>4. ASSUME NEW p \in Procs, NEW b \in Blocks, log_write(p, b) PROVE DataInv' /\ AbstractStep
  BY <1>4, log_writeStep DEF AbstractStep
<1>5. ASSUME NEW p \in Procs, NEW b \in Blocks, NEW v \in Vals, Modify(p, b, v)
      PROVE  DataInv' /\ AbstractStep
  BY <1>5, ModifyStep DEF AbstractStep
<1>6. ASSUME NEW b \in Blocks, Recycle(b) PROVE DataInv' /\ AbstractStep
  BY <1>6, RecycleStep DEF AbstractStep
<1>7. CASE Crash
  BY <1>7, CrashStep DEF AbstractStep
<1>8. CASE Recover
  BY <1>8, RecoverStep DEF AbstractStep
<1>9. CASE UNCHANGED vars
  <2>1. Frame /\ Active' = Active
    BY <1>9 DEF vars, Frame, Active, DataInv, HeaderInv
  <2> QED
    BY <2>1, FrameInv DEF AbstractStep
<1> QED
  BY <1>1, <1>2, <1>3, <1>4, <1>5, <1>6, <1>7, <1>8, <1>9 DEF Next

\* mkfs leaves an empty log, and nothing is cached.
LEMMA InitData ==
  ASSUME RoomEnough, Init
  PROVE  DataInv
<1>1. LogInv
  BY InitInv
<1>2. /\ lh = <<>> /\ head = <<>> /\ boot = "read_head"
      /\ \A b \in Blocks : cache[b] = NotCached /\ dirty[b] = FALSE /\ holder[b] = Nobody
      /\ \A p \in Procs : pc[p] = "idle"
  BY DEF Init
<1>3. RecycleSafe /\ PinInv /\ CopyInv
  BY <1>2 DEF RecycleSafe, PinInv, CopyInv
<1>4. HeaderInv
  BY <1>2 DEF HeaderInv, Injective
<1> QED
  BY <1>1, <1>3, <1>4 DEF DataInv

\* Every reachable state satisfies DataInv.
LEMMA DataInvariant ==
  ASSUME RoomEnough
  PROVE  Spec => []DataInv
<1>1. Init => DataInv
  BY InitData
<1>2. DataInv /\ LogInv' /\ [Next]_vars => DataInv'
  BY StepRefines
<1> QED
  BY <1>1, <1>2, LogInvariant, PTL DEF Spec

\* bget() never recycles a buffer whose contents are nowhere else.
THEOREM RecyclingIsSafe == ASSUME RoomEnough PROVE Spec => []RecycleSafe
<1>1. DataInv => RecycleSafe
  BY DEF DataInv
<1> QED
  BY <1>1, DataInvariant, PTL

\* When end_op() of the last call has returned, what the calls wrote is durable.
THEOREM QuiescentIsDurable == ASSUME RoomEnough PROVE Spec => []QuiescentDurable
<1>1. DataInv => QuiescentDurable
  <2> SUFFICES ASSUME DataInv, boot = "up", Active = {}, ~committing, NEW b \in Blocks
               PROVE  View(b) = Recovered(b)
    BY DEF QuiescentDurable
  <2>1. /\ LogInv /\ RecycleSafe /\ HeaderInv /\ PinInv /\ TypeOK
    BY DEF DataInv, LogInv
  <2>2. lh = <<>> /\ Committers = {}
    BY <2>1 DEF HeaderInv, LogInv, CommitAlone
  <2>3. \A p \in Procs : pc[p] \notin {"install_trans", "clear", "log_write"}
    BY <2>2 DEF Committers, Active
  <2>4. head = <<>>
    BY <2>1, <2>3 DEF HeaderInv
  <2>5. ~dirty[b]
    BY <2>1, <2>2 DEF PinInv, Logged
  <2>6. holder[b] = Nobody
    BY <2>1, <2>3 DEF LogInv, OneBuffer, TypeOK
  <2>7. View(b) = disk[b]
    BY <2>1, <2>5, <2>6 DEF View, Data, RecycleSafe
  <2>8. Recovered(b) = disk[b]
    BY <2>4 DEF Recovered
  <2> QED
    BY <2>7, <2>8
<1> QED
  BY <1>1, DataInvariant, PTL

\* The log implements TransDisk: each of its steps begins or ends a call,
\* writes a block, commits everything at once, crashes, or is not visible.
THEOREM LogImplements == ASSUME RoomEnough PROVE Spec => Refinement
<1>1. Init => Abstract!Init
  <2> SUFFICES ASSUME Init PROVE Abstract!Init
    OBVIOUS
  <2>1. Active = {} /\ boot # "up" /\ head = <<>> /\ disk \in [Blocks -> Vals]
    BY DEF Init, Active
  <2>2. Kept = [b \in Blocks |-> disk[b]] /\ Seen = Kept
    BY <2>1, KeptEmpty, SeenIs
  <2>3. Kept \in [Blocks -> Vals]
    BY <2>1, <2>2
  <2> QED
    BY <2>1, <2>2, <2>3 DEF Abstract!Init, Seen, Kept
<1>2. AbstractStep => [Abstract!Next]_(Abstract!vars)
  BY DEF AbstractStep, Seen, Kept, Abstract!Next, Abstract!vars, Abstract!Begin, Abstract!End,
         Abstract!Write, Abstract!Commit, Abstract!Crash
<1>3. DataInv /\ LogInv' /\ [Next]_vars => [Abstract!Next]_(Abstract!vars)
  BY <1>2, StepRefines
<1> QED
  BY <1>1, <1>3, DataInvariant, LogInvariant, PTL DEF Spec, Refinement, Abstract!Spec
=============================================================================
