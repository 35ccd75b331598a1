------------------------------ MODULE FtlProofs ------------------------------
(***************************************************************************)
(* Proofs about Ftl, for any size of the device: a page always carries a   *)
(* sector number that belongs at its offset, and a caller who fills the    *)
(* device in order reads back what was written and keeps a reserve block.  *)
(***************************************************************************)
EXTENDS Ftl, TLAPS, FiniteSetTheorems, WellFoundedInduction

\* The sector whose place is offset o of block b when sectors are placed in order.
Sector(b, o) == b * SECTORS_PER_BLOCK + o

filled == Cardinality(Written)

\* What a caller who writes 0, 1, 2 ... has made of the device: logical block l
\* in block l, every sector at its place, everything behind the last one erased.
FilledInOrder ==
  /\ Written = 0 .. filled - 1
  /\ reserved = DATABLKS_PER_DEVICE
  /\ \A l \in Lbns : pbn[l] = IF Sector(l, 0) < filled THEN l ELSE -1
  /\ \A b \in Pbns, o \in Offsets :
       flash[b][o] = IF Sector(b, o) < filled
                     THEN [lsn |-> Sector(b, o), data |-> last[Sector(b, o)]]
                     ELSE erased

\* The inductive invariant.
FtlInv == TypeOK /\ SpareMatchesOffset /\ (inorder => FilledInOrder)

-----------------------------------------------------------------------------
(* Sectors, blocks and offsets. *)

\* Division with remainder by a positive number.
LEMMA DivMod ==
  ASSUME NEW x \in Int, NEW P \in Nat \ {0}
  PROVE  /\ x \div P \in Int /\ x % P \in 0 .. P - 1
         /\ x = P * (x \div P) + (x % P)
OBVIOUS

\* A block that holds P pages: a page number below P * D lies in a block below D.
LEMMA DivBelow ==
  ASSUME NEW P \in Nat \ {0}, NEW D \in Nat, NEW x \in Nat, x < D * P
  PROVE  x \div P \in 0 .. D - 1
<1> DEFINE q == x \div P
           r == x % P
<1>1. q \in Int /\ r \in 0 .. P - 1 /\ x = P * q + r
  BY DivMod
<1> HIDE DEF q, r
<1>2. q >= 0
  <2>1. ASSUME q <= -1 PROVE FALSE
    BY <1>1, <2>1
  <2> QED
    BY <1>1, <2>1
<1>3. q < D
  <2>1. ASSUME q >= D PROVE FALSE
    <3>1. P * (q - D) >= 0
      BY <1>1, <2>1
    <3> QED
      BY <1>1, <3>1
  <2> QED
    BY <1>1, <2>1
<1> QED
  BY <1>1, <1>2, <1>3 DEF q

\* A set of naturals has a least element.
LEMMA LeastNatural ==
  ASSUME NEW S \in SUBSET Nat, S # {}
  PROVE  \E s \in S : \A t \in S : s <= t
<1> DEFINE R == OpToRel(<, Nat)
<1>1. IsWellFoundedOn(R, Nat)
  BY NatLessThanWellFounded, Zenon
<1>2. R = {ss \in Nat \X Nat : ss[1] < ss[2]}
  BY Zenon DEF OpToRel
<1> HIDE DEF R
<1>3. \A s, t \in Nat : t < s => <<t, s>> \in R
  BY <1>2
<1>4. PICK s \in S : \A t \in S : ~(<<t, s>> \in R)
  BY <1>1, WFMin
<1>5. \A t \in S : ~(t < s)
  BY <1>3, <1>4
<1> QED
  BY <1>5

\* The sizes of the device as numbers.
LEMMA Sizes ==
  /\ SECTORS_PER_BLOCK \in Nat \ {0} /\ SECTORS_PER_BLOCK = PAGES_PER_BLOCK
  /\ DATABLKS_PER_DEVICE \in Nat \ {0}
  /\ Pbns = 0 .. DATABLKS_PER_DEVICE /\ Offsets = 0 .. SECTORS_PER_BLOCK - 1
BY FlashAssumption DEF FlashAssumption, SECTORS_PER_BLOCK, SECTORS_PER_PAGE,
   DATABLKS_PER_DEVICE, Pbns, Offsets

\* cal_lbn() and cal_sector_offset() find a place on the device for a sector.
LEMMA Place ==
  ASSUME NEW lsn \in Lsns
  PROVE  /\ cal_lbn(lsn) \in Lbns /\ cal_lbn(lsn) \in Nat
         /\ cal_sector_offset(lsn) \in Offsets
         /\ Sector(cal_lbn(lsn), cal_sector_offset(lsn)) = lsn
<1> DEFINE P == SECTORS_PER_BLOCK
           D == DATABLKS_PER_DEVICE
<1>1. P \in Nat \ {0} /\ D \in Nat /\ Offsets = 0 .. P - 1
  BY Sizes
<1>2. lsn \in Nat /\ lsn < D * P
  BY <1>1 DEF Lsns
<1> HIDE DEF P, D
<1>3. lsn \div P \in 0 .. D - 1
  BY <1>1, <1>2, DivBelow
<1>4. lsn % P \in 0 .. P - 1 /\ lsn = P * (lsn \div P) + (lsn % P)
  BY <1>1, <1>2, DivMod
<1>5. P * (lsn \div P) = (lsn \div P) * P
  BY <1>1, <1>3
<1> QED
  BY <1>1, <1>3, <1>4, <1>5 DEF cal_lbn, cal_sector_offset, Sector, Lbns, P, D

\* Different places are for different sectors.
LEMMA SectorInjective ==
  ASSUME NEW b \in Nat, NEW c \in Nat, NEW o \in Offsets, NEW u \in Offsets,
         Sector(b, o) = Sector(c, u)
  PROVE  b = c /\ o = u
<1> DEFINE P == SECTORS_PER_BLOCK
<1>1. P \in Nat \ {0} /\ Offsets = 0 .. P - 1 /\ b * P + o = c * P + u
  BY Sizes DEF Sector
<1> HIDE DEF P
<1>2. (b - c) * P = u - o
  BY <1>1
<1>3. ASSUME b - c >= 1 PROVE FALSE
  BY <1>1, <1>2, <1>3
<1>4. ASSUME c - b >= 1 PROVE FALSE
  BY <1>1, <1>2, <1>4
<1> QED
  BY <1>1, <1>3, <1>4

\* Places are in the order of their sectors, and the last block's are beyond all.
LEMMA SectorOrder ==
  /\ \A b \in Nat, o \in Offsets : Sector(b, o) \in Nat /\ Sector(b, 0) <= Sector(b, o)
  /\ \A b, c \in Nat : b < c => Sector(b, 0) < Sector(c, 0)
  /\ \A o \in Offsets, s \in Lsns : s < Sector(DATABLKS_PER_DEVICE, o)
<1> DEFINE P == SECTORS_PER_BLOCK
           D == DATABLKS_PER_DEVICE
<1>1. P \in Nat \ {0} /\ Offsets = 0 .. P - 1 /\ D \in Nat \ {0}
  BY Sizes
<1>2. Lsns = 0 .. D * P - 1 /\ \A b, o : Sector(b, o) = b * P + o
  BY DEF Lsns, Sector
<1> HIDE DEF P, D
<1>3. ASSUME NEW b \in Nat, NEW o \in Offsets
      PROVE  Sector(b, o) \in Nat /\ Sector(b, 0) <= Sector(b, o)
  BY <1>1, <1>2
<1>4. ASSUME NEW b \in Nat, NEW c \in Nat, b < c
      PROVE  Sector(b, 0) < Sector(c, 0)
  <2>1. (c - b) * P >= P
    BY <1>1, <1>4
  <2> QED
    BY <1>1, <1>2, <2>1
<1>5. ASSUME NEW o \in Offsets, NEW s \in Lsns
      PROVE  s < Sector(D, o)
  BY <1>1, <1>2
<1> QED
  BY <1>3, <1>4, <1>5 DEF D

\* ftl_write()'s search ends at the first block of those it looks for.
LEMMA SmallestIs ==
  ASSUME NEW S \in SUBSET Nat, S # {}
  PROVE  Smallest(S) \in S /\ \A t \in S : Smallest(S) <= t
BY LeastNatural DEF Smallest

-----------------------------------------------------------------------------
(* Every operation preserves FtlInv. *)

PageType == [lsn : Lsns \union {-1}, data : Data \union {Blank}]

\* The number of sectors written is at most the number of sectors.
LEMMA FilledType ==
  ASSUME NEW S \in SUBSET Lsns
  PROVE  IsFiniteSet(S) /\ Cardinality(S) \in Nat
<1>1. IsFiniteSet(Lsns)
  <2>1. DATABLKS_PER_DEVICE * SECTORS_PER_BLOCK - 1 \in Int
    BY Sizes
  <2> QED
    BY <2>1, FS_Interval DEF Lsns
<1> QED
  BY <1>1, FS_Subset, FS_CardinalityType

\* The caller's history: writing in order fills one sector more.
LEMMA RememberStep ==
  ASSUME FtlInv, NEW lsn \in Lsns, NEW v \in Data, Remember(lsn, v)
  PROVE  /\ last' \in [Lsns -> Data \union {Blank}] /\ inorder' \in BOOLEAN
         /\ \A s \in Lsns : last'[s] = IF s = lsn THEN v ELSE last[s]
         /\ inorder' => /\ FilledInOrder /\ lsn = filled /\ filled \in Nat
                        /\ Written' = 0 .. filled /\ filled' = filled + 1
<1>1. TypeOK /\ (inorder => FilledInOrder)
  BY DEF FtlInv
<1>2. last' = [last EXCEPT ![lsn] = v] /\ inorder' = (inorder /\ lsn = filled)
  BY DEF Remember, filled
<1>3. /\ last' \in [Lsns -> Data \union {Blank}]
      /\ \A s \in Lsns : last'[s] = IF s = lsn THEN v ELSE last[s]
  BY <1>1, <1>2 DEF TypeOK
<1>4. inorder' \in BOOLEAN /\ (inorder' => FilledInOrder /\ lsn = filled)
  BY <1>1, <1>2
<1>5. Written' = Written \union {lsn}
  BY <1>3, FlashAssumption DEF Written, FlashAssumption
<1>6. IsFiniteSet(Written) /\ filled \in Nat
  <2>1. Written \in SUBSET Lsns
    BY DEF Written
  <2> QED
    BY <2>1, FilledType DEF filled
<1>7. inorder' => Written' = 0 .. filled /\ filled' = filled + 1
  <2> SUFFICES ASSUME inorder' PROVE Written' = 0 .. filled /\ filled' = filled + 1
    OBVIOUS
  <2>1. lsn = filled /\ Written = 0 .. filled - 1
    BY <1>4 DEF FilledInOrder
  <2>2. lsn \notin Written /\ Written' = 0 .. filled
    BY <1>5, <1>6, <2>1
  <2>3. Cardinality(Written \union {lsn}) = Cardinality(Written) + 1
    BY <1>6, <2>2, FS_AddElement
  <2> QED
    BY <1>5, <2>2, <2>3 DEF filled
<1> QED
  BY <1>3, <1>4, <1>6, <1>7

\* Writing one page: types and spare areas.
LEMMA WriteOnePage ==
  ASSUME NEW f \in [Pbns -> [Offsets -> PageType]], NEW lsn \in Lsns, NEW v \in Data,
         NEW b \in Pbns, NEW o \in Offsets
  PROVE  /\ dd_write(f, b, o, newpage(lsn, v)) \in [Pbns -> [Offsets -> PageType]]
         /\ \A c \in Pbns, u \in Offsets :
              dd_write(f, b, o, newpage(lsn, v))[c][u]
                = IF c = b /\ u = o THEN [lsn |-> lsn, data |-> v] ELSE f[c][u]
<1>1. o \in Offsets /\ newpage(lsn, v) \in PageType
  BY DEF newpage, PageType
<1>2. newpage(lsn, v) = [lsn |-> lsn, data |-> v]
  BY DEF newpage
<1> HIDE DEF PageType
<1> QED
  BY <1>1, <1>2 DEF dd_write

\* What an ordered device holds at a place.
LEMMA AtPlace ==
  ASSUME FilledInOrder, NEW b \in Pbns, NEW o \in Offsets
  PROVE  /\ Sector(b, o) < filled => flash[b][o].lsn = Sector(b, o)
                                     /\ flash[b][o].data = last[Sector(b, o)]
         /\ ~(Sector(b, o) < filled) => flash[b][o] = erased
<1> DEFINE s == Sector(b, o)
<1>1. flash[b][o] = IF s < filled THEN [lsn |-> s, data |-> last[s]] ELSE erased
  BY DEF FilledInOrder
<1> HIDE DEF s
<1>2. [lsn |-> s, data |-> last[s]].lsn = s /\ [lsn |-> s, data |-> last[s]].data = last[s]
  OBVIOUS
<1>3. /\ s < filled => flash[b][o].lsn = s /\ flash[b][o].data = last[s]
      /\ ~(s < filled) => flash[b][o] = erased
  BY <1>1, <1>2
<1> QED
  BY <1>3 DEF s

\* A write in order of a page that is where it belongs keeps the order.
LEMMA FillOneMore ==
  ASSUME FilledInOrder, filled \in Nat, filled' = filled + 1, Written' = 0 .. filled,
         NEW lsn \in Lsns, NEW v \in Data, lsn = filled,
         UNCHANGED reserved,
         \A s \in Lsns : last'[s] = IF s = lsn THEN v ELSE last[s],
         \A l \in Lbns : pbn'[l] = IF l = cal_lbn(lsn) THEN cal_lbn(lsn) ELSE pbn[l],
         \A c \in Pbns, u \in Offsets :
           flash'[c][u] = IF c = cal_lbn(lsn) /\ u = cal_sector_offset(lsn)
                          THEN [lsn |-> lsn, data |-> v] ELSE flash[c][u]
  PROVE  FilledInOrder'
<1> DEFINE b == cal_lbn(lsn)
           o == cal_sector_offset(lsn)
<1>1. b \in Lbns /\ b \in Nat /\ o \in Offsets /\ Sector(b, o) = lsn
  BY Place
<1>2. Lbns \subseteq Nat /\ Pbns \subseteq Nat /\ Lbns \subseteq Pbns /\ 0 \in Offsets /\ Lsns \subseteq Nat
  BY Sizes DEF Lbns, Lsns
<1> HIDE DEF b, o
<1>3. ASSUME NEW l \in Lbns
      PROVE  pbn'[l] = IF Sector(l, 0) < filled' THEN l ELSE -1
  <2>1. Sector(l, 0) \in Nat /\ Sector(b, 0) \in Nat /\ Sector(b, 0) <= filled
    BY <1>1, <1>2, SectorOrder
  <2>2. l # b => Sector(l, 0) # filled
    BY <1>1, <1>2, SectorInjective
  <2> QED
    BY <2>1, <2>2 DEF FilledInOrder, b
<1>4. ASSUME NEW c \in Pbns, NEW u \in Offsets
      PROVE  flash'[c][u] = IF Sector(c, u) < filled'
                            THEN [lsn |-> Sector(c, u), data |-> last'[Sector(c, u)]]
                            ELSE erased
  <2>1. Sector(c, u) \in Nat
    BY <1>2, SectorOrder
  <2>2. Sector(c, u) = filled <=> c = b /\ u = o
    BY <1>1, <1>2, SectorInjective
  <2>3. CASE c = b /\ u = o
    BY <2>2, <2>3 DEF b, o
  <2>4. CASE ~(c = b /\ u = o)
    <3>1. flash'[c][u] = flash[c][u]
      BY <2>4 DEF b, o
    <3>2. Sector(c, u) < filled' <=> Sector(c, u) < filled
      BY <2>1, <2>2, <2>4
    <3>3. Sector(c, u) < filled => Sector(c, u) \in Lsns /\ last'[Sector(c, u)] = last[Sector(c, u)]
      <4>1. Sector(c, u) < filled => Sector(c, u) \in Lsns
        BY <2>1, <1>2, Sizes DEF Lsns
      <4> QED
        BY <2>1, <4>1
    <3> QED
      BY <3>1, <3>2, <3>3 DEF FilledInOrder
  <2> QED
    BY <2>3, <2>4
<1> QED
  BY <1>3, <1>4 DEF FilledInOrder

\* A write into a free page of a mapped block.
LEMMA write_pageInv ==
  ASSUME FtlInv, NEW lsn \in Lsns, NEW v \in Data, write_page(lsn, v)
  PROVE  FtlInv'
<1> DEFINE b == pbn[cal_lbn(lsn)]
           o == cal_sector_offset(lsn)
<1>1. TypeOK /\ SpareMatchesOffset
  BY DEF FtlInv
<1>2. b \in Pbns /\ o \in Offsets /\ ~is_used(b, o)
  BY <1>1, Place DEF write_page, TypeOK
<1>3. Remember(lsn, v) /\ UNCHANGED <<pbn, reserved, aborted, sectorbuf>>
      /\ flash' = dd_write(flash, b, o, newpage(lsn, v))
  BY DEF write_page
<1>4. /\ flash' \in [Pbns -> [Offsets -> PageType]]
      /\ \A c \in Pbns, u \in Offsets :
           flash'[c][u] = IF c = b /\ u = o THEN [lsn |-> lsn, data |-> v] ELSE flash[c][u]
  <2>1. flash \in [Pbns -> [Offsets -> PageType]]
    BY <1>1 DEF TypeOK, PageType
  <2> HIDE DEF b, o
  <2> QED
    BY <1>2, <1>3, <2>1, WriteOnePage
<1>5. TypeOK'
  BY <1>1, <1>3, <1>4, RememberStep DEF TypeOK, PageType
<1>6. SpareMatchesOffset'
  <2> SUFFICES ASSUME NEW c \in Pbns, NEW u \in Offsets, flash'[c][u].lsn # -1
               PROVE  flash'[c][u].lsn % SECTORS_PER_BLOCK = u
    BY DEF SpareMatchesOffset, is_used
  <2>1. CASE c = b /\ u = o
    <3>1. flash'[c][u].lsn = lsn
      BY <1>4, <2>1
    <3> QED
      BY <2>1, <3>1 DEF cal_sector_offset
  <2>2. CASE ~(c = b /\ u = o)
    <3>1. flash'[c][u] = flash[c][u]
      BY <1>4, <2>2
    <3> QED
      BY <1>1, <3>1 DEF SpareMatchesOffset, is_used
  <2> QED
    BY <2>1, <2>2
<1>7. ASSUME inorder' PROVE FilledInOrder'
  <2>1. FilledInOrder /\ lsn = filled /\ filled \in Nat /\ Written' = 0 .. filled
        /\ filled' = filled + 1 /\ \A s \in Lsns : last'[s] = IF s = lsn THEN v ELSE last[s]
    BY <1>3, <1>7, RememberStep
  <2>2. b = cal_lbn(lsn)
    BY <1>2, <2>1, Place, Sizes DEF FilledInOrder
  <2>3. \A l \in Lbns : pbn'[l] = IF l = cal_lbn(lsn) THEN cal_lbn(lsn) ELSE pbn[l]
    BY <1>3, <2>2
  <2> HIDE DEF b
  <2> QED
    BY <1>3, <1>4, <2>1, <2>2, <2>3, FillOneMore
<1> QED
  BY <1>5, <1>6, <1>7 DEF FtlInv

\* The first write to a logical block.
LEMMA new_lbnInv ==
  ASSUME FtlInv, NEW lsn \in Lsns, NEW v \in Data, new_lbn(lsn, v)
  PROVE  FtlInv'
<1> DEFINE o == cal_sector_offset(lsn)
           b == Smallest(free(o))
<1>1. TypeOK /\ SpareMatchesOffset
  BY DEF FtlInv
<1>2. /\ Remember(lsn, v) /\ UNCHANGED <<reserved, aborted, sectorbuf>>
      /\ pbn[cal_lbn(lsn)] = -1 /\ free(o) # {}
      /\ pbn' = [pbn EXCEPT ![cal_lbn(lsn)] = b]
      /\ flash' = dd_write(flash, b, o, newpage(lsn, v))
  BY DEF new_lbn
<1>3. /\ b \in free(o) /\ b \in Pbns /\ o \in Offsets
      /\ \A c \in free(o) : b <= c
  <2>1. free(o) \in SUBSET Nat /\ free(o) \in SUBSET Pbns
    BY Sizes DEF free
  <2> QED
    BY <1>2, <2>1, SmallestIs, Place
<1> HIDE DEF b
<1>4. /\ flash' \in [Pbns -> [Offsets -> PageType]]
      /\ \A c \in Pbns, u \in Offsets :
           flash'[c][u] = IF c = b /\ u = o THEN [lsn |-> lsn, data |-> v] ELSE flash[c][u]
  <2>1. flash \in [Pbns -> [Offsets -> PageType]]
    BY <1>1 DEF TypeOK, PageType
  <2> HIDE DEF b, o
  <2> QED
    BY <1>2, <1>3, <2>1, WriteOnePage
<1>5. TypeOK'
  <2>1. pbn' \in [Lbns -> Pbns \union {-1}]
    BY <1>1, <1>2, <1>3 DEF TypeOK
  <2> QED
    BY <1>1, <1>2, <1>4, <2>1, RememberStep DEF TypeOK, PageType
<1>6. SpareMatchesOffset'
  <2> SUFFICES ASSUME NEW c \in Pbns, NEW u \in Offsets, flash'[c][u].lsn # -1
               PROVE  flash'[c][u].lsn % SECTORS_PER_BLOCK = u
    BY DEF SpareMatchesOffset, is_used
  <2>1. CASE c = b /\ u = o
    <3>1. flash'[c][u].lsn = lsn
      BY <1>4, <2>1
    <3> QED
      BY <2>1, <3>1 DEF cal_sector_offset
  <2>2. CASE ~(c = b /\ u = o)
    <3>1. flash'[c][u] = flash[c][u]
      BY <1>4, <2>2
    <3> QED
      BY <1>1, <3>1 DEF SpareMatchesOffset, is_used
  <2> QED
    BY <2>1, <2>2
<1>7. ASSUME inorder' PROVE FilledInOrder'
  <2>1. FilledInOrder /\ lsn = filled /\ filled \in Nat /\ Written' = 0 .. filled
        /\ filled' = filled + 1 /\ \A s \in Lsns : last'[s] = IF s = lsn THEN v ELSE last[s]
    BY <1>2, <1>7, RememberStep
  <2> DEFINE l == cal_lbn(lsn)
  <2>2. l \in Lbns /\ l \in Nat /\ Sector(l, o) = filled
    BY <2>1, Place
  <2>3. Sector(l, 0) = filled /\ o = 0 /\ 0 \in Offsets
    <3>1. 0 \in Offsets /\ Sector(l, 0) \in Nat /\ Sector(l, 0) <= filled
      BY <1>3, <2>2, SectorOrder, Sizes
    <3>2. ~(Sector(l, 0) < filled)
      BY <1>2, <2>1, <2>2, Sizes DEF FilledInOrder
    <3>3. Sector(l, 0) = Sector(l, o)
      BY <2>1, <2>2, <3>1, <3>2
    <3> QED
      BY <1>3, <2>2, <3>1, <3>3, SectorInjective
  <2> HIDE DEF l, o
  <2>4. l \in free(o)
    <3>1. l \in Pbns /\ l # reserved
      BY <2>1, <2>2, Sizes DEF FilledInOrder, Lbns
    <3>2. flash[l][o] = erased
      BY <1>3, <2>1, <2>2, <3>1, AtPlace
    <3> QED
      BY <3>1, <3>2 DEF free, is_used, erased
  <2>5. b = l
    <3>1. b \in Nat /\ b <= l
      BY <1>3, <2>4, Sizes
    <3>2. ~(b < l)
      <4>1. ASSUME b < l PROVE FALSE
        <5>1. Sector(b, 0) < filled
          BY <2>2, <2>3, <3>1, <4>1, SectorOrder
        <5>2. flash[b][0].lsn = Sector(b, 0) /\ Sector(b, 0) \in Nat
          BY <1>3, <2>1, <2>3, <3>1, <5>1, SectorOrder, AtPlace
        <5> QED
          BY <1>3, <2>3, <5>2 DEF free, is_used
      <4> QED
        BY <4>1
    <3> QED
      BY <2>2, <3>1, <3>2
  <2>6. \A k \in Lbns : pbn'[k] = IF k = cal_lbn(lsn) THEN cal_lbn(lsn) ELSE pbn[k]
    BY <1>1, <1>2, <2>5 DEF TypeOK, l
  <2> QED
    BY <1>2, <1>4, <2>1, <2>5, <2>6, FillOneMore DEF l, o
<1> QED
  BY <1>5, <1>6, <1>7 DEF FtlInv

\* An overwrite moves the block; a caller who writes in order never needs one.
LEMMA overwriteInv ==
  ASSUME FtlInv, NEW lsn \in Lsns, NEW v \in Data, overwrite(lsn, v)
  PROVE  FtlInv'
<1> DEFINE b == pbn[cal_lbn(lsn)]
           o == cal_sector_offset(lsn)
           f == move_block(b, o)
<1>1. TypeOK /\ SpareMatchesOffset
  BY DEF FtlInv
<1>2. /\ Remember(lsn, v) /\ UNCHANGED sectorbuf
      /\ reserved' = b /\ pbn' = remapped(b) /\ aborted' \in BOOLEAN
      /\ flash' = dd_write(f, reserved, o, newpage(lsn, v))
  BY DEF overwrite
<1>3. b \in Pbns /\ o \in Offsets /\ is_used(b, o) /\ reserved \in Pbns
  BY <1>1, Place DEF overwrite, TypeOK
<1>4. /\ f \in [Pbns -> [Offsets -> PageType]]
      /\ \A c \in Pbns, u \in Offsets : f[c][u] = IF c = reserved THEN erased ELSE flash[c][u]
  <2>1. erased \in PageType
    BY DEF erased, PageType
  <2>2. f = [flash EXCEPT ![reserved] = [u \in Offsets |-> erased]]
    BY <1>1, <1>3 DEF move_block, dd_erase, TypeOK
  <2>3. flash \in [Pbns -> [Offsets -> PageType]]
    BY <1>1 DEF TypeOK, PageType
  <2> HIDE DEF f, PageType
  <2> QED
    BY <1>3, <2>1, <2>2, <2>3
<1> HIDE DEF f
<1>5. /\ flash' \in [Pbns -> [Offsets -> PageType]]
      /\ \A c \in Pbns, u \in Offsets :
           flash'[c][u] = IF c = reserved /\ u = o THEN [lsn |-> lsn, data |-> v] ELSE f[c][u]
  BY <1>2, <1>3, <1>4, WriteOnePage
<1>6. TypeOK'
  <2>1. pbn' \in [Lbns -> Pbns \union {-1}]
    BY <1>1, <1>2, <1>3 DEF TypeOK, remapped
  <2> QED
    BY <1>2, <1>3, <1>5, <2>1, RememberStep, <1>1 DEF TypeOK, PageType
<1>7. SpareMatchesOffset'
  <2> SUFFICES ASSUME NEW c \in Pbns, NEW u \in Offsets, flash'[c][u].lsn # -1
               PROVE  flash'[c][u].lsn % SECTORS_PER_BLOCK = u
    BY DEF SpareMatchesOffset, is_used
  <2>1. CASE c = reserved /\ u = o
    <3>1. flash'[c][u].lsn = lsn
      BY <1>5, <2>1
    <3> QED
      BY <2>1, <3>1 DEF cal_sector_offset
  <2>2. CASE ~(c = reserved /\ u = o)
    <3>1. flash'[c][u] = flash[c][u]
      BY <1>4, <1>5, <2>2 DEF erased
    <3> QED
      BY <1>1, <3>1 DEF SpareMatchesOffset, is_used
  <2> QED
    BY <2>1, <2>2
<1>8. ~inorder'
  <2> SUFFICES ASSUME inorder' PROVE FALSE
    OBVIOUS
  <2>1. FilledInOrder /\ lsn = filled /\ filled \in Nat
    BY <1>2, RememberStep
  <2>2. b = cal_lbn(lsn) /\ Sector(cal_lbn(lsn), o) = lsn
    BY <1>3, <2>1, Place, Sizes DEF FilledInOrder
  <2> HIDE DEF b
  <2>3. flash[b][o] = erased
    BY <1>3, <2>1, <2>2, AtPlace
  <2> QED
    BY <1>3, <2>3 DEF is_used, erased
<1> QED
  BY <1>6, <1>7, <1>8 DEF FtlInv

\* A read changes only the caller's buffer.
LEMMA ftl_readInv ==
  ASSUME FtlInv, NEW lsn \in Lsns, ftl_read(lsn)
  PROVE  FtlInv'
<1>1. TypeOK /\ SpareMatchesOffset /\ (inorder => FilledInOrder)
  BY DEF FtlInv
<1>2. UNCHANGED <<flash, pbn, reserved, aborted, last, inorder>>
  BY DEF ftl_read
<1>3. sectorbuf' \in Data \union {Blank}
  <2>1. CASE pbn[cal_lbn(lsn)] # -1
    <3>1. pbn[cal_lbn(lsn)] \in Pbns /\ cal_sector_offset(lsn) \in Offsets
      BY <1>1, <2>1, Place DEF TypeOK
    <3> QED
      BY <1>1, <2>1, <3>1 DEF ftl_read, ReadOf, TypeOK
  <2>2. CASE pbn[cal_lbn(lsn)] = -1
    BY <2>2 DEF ftl_read
  <2> QED
    BY <2>1, <2>2
<1>4. TypeOK'
  BY <1>1, <1>2, <1>3 DEF TypeOK
<1>5. SpareMatchesOffset' /\ (inorder' => FilledInOrder')
  BY <1>1, <1>2 DEF SpareMatchesOffset, is_used, FilledInOrder, filled, Written
<1> QED
  BY <1>4, <1>5 DEF FtlInv

\* Every behaviour of the translation layer keeps the invariant.
LEMMA Invariant == Spec => []FtlInv
<1>1. Init => FtlInv
  <2> SUFFICES ASSUME Init PROVE FtlInv
    OBVIOUS
  <2>1. TypeOK
    <3>1. erased \in [lsn : Lsns \union {-1}, data : Data \union {Blank}]
      BY DEF erased
    <3>2. flash \in [Pbns -> [Offsets -> [lsn : Lsns \union {-1}, data : Data \union {Blank}]]]
      BY <3>1 DEF Init
    <3>3. reserved \in Pbns
      BY Sizes DEF Init
    <3> QED
      BY <3>2, <3>3 DEF Init, TypeOK
  <2>2. SpareMatchesOffset
    BY DEF Init, SpareMatchesOffset, is_used, erased
  <2>3. FilledInOrder
    <3>1. Written = {}
      BY DEF Init, Written
    <3>2. filled = 0
      BY <3>1, FS_EmptySet DEF filled
    <3>3. Lbns \subseteq Nat /\ Pbns \subseteq Nat /\ 0 \in Offsets
      BY Sizes DEF Lbns
    <3>4. \A b \in Nat, o \in Offsets : ~(Sector(b, o) < filled)
      BY <3>2, SectorOrder
    <3> QED
      BY <3>1, <3>2, <3>3, <3>4 DEF FilledInOrder, Init
  <2> QED
    BY <2>1, <2>2, <2>3 DEF FtlInv
<1>2. FtlInv /\ [Next]_vars => FtlInv'
  <2> SUFFICES ASSUME FtlInv, [Next]_vars PROVE FtlInv'
    OBVIOUS
  <2>1. ASSUME NEW lsn \in Lsns, NEW v \in Data, ftl_write(lsn, v) PROVE FtlInv'
    BY <2>1, write_pageInv, overwriteInv, new_lbnInv DEF ftl_write
  <2>2. ASSUME NEW lsn \in Lsns, ftl_read(lsn) PROVE FtlInv'
    BY <2>2, ftl_readInv
  <2>3. CASE UNCHANGED vars
    BY <2>3 DEF vars, FtlInv, TypeOK, SpareMatchesOffset, is_used, FilledInOrder, filled, Written
  <2> QED
    BY <2>1, <2>2, <2>3 DEF Next
<1> QED
  BY <1>1, <1>2, PTL DEF Spec

\* A page in use carries the number of a sector that belongs at its offset,
\* through any number of writes, moves and erases in any order.
THEOREM SpareAreas == Spec => []SpareMatchesOffset
<1>1. FtlInv => SpareMatchesOffset
  BY DEF FtlInv
<1> QED
  BY <1>1, Invariant, PTL

\* A device of any size that is filled in order reads back what was written,
\* keeps an empty block in reserve and maps every logical block to its own.
THEOREM InOrderServed == Spec => []InOrder
<1>1. FtlInv => InOrder
  <2> SUFFICES ASSUME FtlInv PROVE InOrder
    OBVIOUS
  <2>1. TypeOK
    BY DEF FtlInv
  <2>2. ASSUME inorder
        PROVE  /\ ReadBack
               /\ \A o \in Offsets : ~is_used(reserved, o)
               /\ \A l \in Lbns : pbn[l] # reserved
               /\ \A k, l \in Lbns : k # l /\ pbn[k] # -1 => pbn[k] # pbn[l]
    <3>1. FilledInOrder
      BY <2>2 DEF FtlInv
    <3>2. filled \in Nat /\ Written = 0 .. filled - 1 /\ Written \subseteq Lsns
      <4>1. Written \in SUBSET Lsns
        BY DEF Written
      <4> QED
        BY <3>1, <4>1, FilledType DEF filled, FilledInOrder
    <3>3. ReadBack
      <4> SUFFICES ASSUME NEW lsn \in Lsns, last[lsn] # Blank
                   PROVE  pbn[cal_lbn(lsn)] # -1 /\ ReadOf(lsn) = last[lsn]
        BY DEF ReadBack
      <4> DEFINE b == cal_lbn(lsn)
                 o == cal_sector_offset(lsn)
      <4>1. lsn < filled
        <5>1. lsn \in Written
          BY DEF Written
        <5> QED
          BY <3>2, <5>1
      <4>2. b \in Lbns /\ b \in Nat /\ b \in Pbns /\ o \in Offsets /\ Sector(b, o) = lsn
        BY Place, Sizes DEF Lbns
      <4> HIDE DEF b, o
      <4>3. Sector(b, 0) \in Nat /\ Sector(b, 0) < filled
        <5>1. Sector(b, 0) \in Nat /\ Sector(b, 0) <= lsn
          BY <4>2, SectorOrder, Sizes
        <5> QED
          BY <3>2, <4>1, <5>1 DEF Lsns
      <4>4. pbn[b] = b
        BY <3>1, <4>2, <4>3 DEF FilledInOrder
      <4>5. flash[b][o].data = last[lsn]
        BY <3>1, <4>1, <4>2, AtPlace
      <4> QED
        BY <4>2, <4>4, <4>5 DEF ReadOf, b, o
    <3>4. reserved = DATABLKS_PER_DEVICE /\ \A l \in Lbns : pbn[l] = l \/ pbn[l] = -1
      BY <3>1 DEF FilledInOrder
    <3>5. \A o \in Offsets : ~is_used(reserved, o)
      <4> SUFFICES ASSUME NEW o \in Offsets PROVE ~is_used(reserved, o)
        OBVIOUS
      <4>1. reserved \in Pbns /\ reserved \in Nat /\ Sector(reserved, o) \in Nat
        BY <2>1, <3>4, Sizes, SectorOrder DEF TypeOK
      <4>2. ~(Sector(reserved, o) < filled)
        <5>1. ASSUME Sector(reserved, o) < filled PROVE FALSE
          <6>1. Sector(reserved, o) \in Lsns
            BY <3>2, <4>1, <5>1
          <6> QED
            BY <3>4, <4>1, <6>1, SectorOrder
        <5> QED
          BY <5>1
      <4>3. flash[reserved][o] = erased
        BY <3>1, <4>1, <4>2, AtPlace
      <4> QED
        BY <4>3 DEF is_used, erased
    <3> QED
      BY <3>3, <3>4, <3>5, Sizes DEF Lbns
  <2> QED
    BY <2>1, <2>2 DEF InOrder, InOrderReadBack, InOrderReserved, InOrderOneOwner
<1> QED
  BY <1>1, Invariant, PTL

=============================================================================
