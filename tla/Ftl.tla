--------------------------------- MODULE Ftl ---------------------------------
(***************************************************************************)
(* The block mapping flash translation layer of FileStructure/Project3     *)
(* (ftl.c over devicedriver.h, with the constants of blkmap.h).            *)
(*                                                                         *)
(* A page is its sector's contents and the lsn of its spare area, -1 after *)
(* an erase.  The program is sequential: one action is one whole call.     *)
(* Pages with an lsn below -1 ("deleted", is_used() = -2) are never        *)
(* written, so ftl_write()'s branch for them is dead and left out.  The    *)
(* sector numbers are those main.c's user may give: negative ones are not  *)
(* considered.                                                             *)
(***************************************************************************)
EXTENDS Integers, FiniteSets

CONSTANTS
  PAGES_PER_BLOCK, BLOCKS_PER_DEVICE,
  Data,      \* contents of a sector
  Blank      \* contents of an erased sector

ASSUME FlashAssumption ==
  /\ PAGES_PER_BLOCK \in Nat \ {0}
  /\ BLOCKS_PER_DEVICE \in Nat /\ BLOCKS_PER_DEVICE > 1
  /\ Blank \notin Data

SECTORS_PER_PAGE == 1
SECTORS_PER_BLOCK == SECTORS_PER_PAGE * PAGES_PER_BLOCK
DATABLKS_PER_DEVICE == BLOCKS_PER_DEVICE - 1

Lsns == 0 .. DATABLKS_PER_DEVICE * SECTORS_PER_BLOCK - 1
Lbns == 0 .. DATABLKS_PER_DEVICE - 1
Pbns == 0 .. BLOCKS_PER_DEVICE - 1
Offsets == 0 .. PAGES_PER_BLOCK - 1

VARIABLES
  flash,      \* pages of every block
  pbn,        \* addrmaptbl.pbn
  reserved,   \* reserved_empty_blk
  aborted,    \* an overrun of saved_page[] ended the program
  sectorbuf,  \* what the last ftl_read() delivered
  last,       \* what the caller last wrote to each sector, Blank if nothing
  inorder     \* the caller wrote sectors 0, 1, 2 ... so far, each once

vars == <<flash, pbn, reserved, aborted, sectorbuf, last, inorder>>

Smallest(S) == CHOOSE s \in S : \A t \in S : s <= t

cal_sector_offset(lsn) == lsn % SECTORS_PER_BLOCK
cal_lbn(lsn) == lsn \div SECTORS_PER_BLOCK

erased == [lsn |-> -1, data |-> Blank]

\* Mutant: sector 0 counts as unused.
is_usedPositive(b, o) == flash[b][o].lsn > 0

\* is_used() of the page at offset o of block b.
is_used(b, o) == flash[b][o].lsn # -1

\* dd_write() of one page and dd_erase() of one block of device f.
dd_write(f, b, o, page) == [f EXCEPT ![b][o] = page]
dd_erase(f, b) == [f EXCEPT ![b] = [o \in Offsets |-> erased]]
-----------------------------------------------------------------------------
\* main() fills the device with 0xFF; ftl_open() clears the table.
Init ==
  /\ flash = [b \in Pbns |-> [o \in Offsets |-> erased]]
  /\ pbn = [l \in Lbns |-> -1]
  /\ reserved = DATABLKS_PER_DEVICE
  /\ aborted = FALSE
  /\ sectorbuf = Blank
  /\ last = [s \in Lsns |-> Blank]
  /\ inorder = TRUE

\* Offsets of the pages move_block() saves: used, and not sector 0.
saved_element(old, except) ==
  {o \in Offsets \ {except} : flash[old][o].lsn > 0}

\* saved_page[] has SECTORS_PER_PAGE entries and is indexed by the offset.
Overrun(old, except) ==
  \E o \in saved_element(old, except) : o >= SECTORS_PER_PAGE

\* Device after move_block(): the saved pages are written to the reserved
\* block, and then the reserved block is erased.
move_block(old, except) ==
  LET copied == [flash EXCEPT ![reserved] =
                  [o \in Offsets |-> IF o \in saved_element(old, except)
                                     THEN flash[old][o] ELSE @[o]]]
  IN  dd_erase(copied, reserved)

\* Table after move_block(): the first entry that names the old block.
remapped(old) == [pbn EXCEPT ![Smallest({l \in Lbns : pbn[l] = old})] = reserved]

\* Blocks in which a new lbn may put a sector with offset o.
free(o) == {b \in Pbns \ {reserved} : ~is_used(b, o)}

\* Mutant: the spare area gets the lbn.
newpageLbn(lsn, v) == [lsn |-> cal_lbn(lsn), data |-> v]

\* The page create_page() makes.
newpage(lsn, v) == [lsn |-> lsn, data |-> v]

\* The caller writes v to sector lsn: history for the properties.
Written == {s \in Lsns : last[s] # Blank}
Remember(lsn, v) ==
  /\ last' = [last EXCEPT ![lsn] = v]
  /\ inorder' = (inorder /\ lsn = Cardinality(Written))

\* ftl_write(), sector already mapped and its page free.
write_page(lsn, v) ==
  LET b == pbn[cal_lbn(lsn)]
      o == cal_sector_offset(lsn)
  IN
  /\ ~aborted /\ b # -1 /\ ~is_used(b, o)
  /\ flash' = dd_write(flash, b, o, newpage(lsn, v))
  /\ Remember(lsn, v)
  /\ UNCHANGED <<pbn, reserved, aborted, sectorbuf>>

\* ftl_write(), page in use: move the block.  Writing outside saved_page[] is
\* undefined: the program goes on or the stack protector ends it.
overwrite(lsn, v) ==
  LET b == pbn[cal_lbn(lsn)]
      o == cal_sector_offset(lsn)
  IN
  /\ ~aborted /\ b # -1 /\ is_used(b, o)
  /\ flash' = dd_write(move_block(b, o), reserved, o, newpage(lsn, v))
  /\ pbn' = remapped(b)
  /\ reserved' = b
  /\ Remember(lsn, v)
  /\ aborted' \in IF Overrun(b, o) THEN BOOLEAN ELSE {FALSE}
  /\ UNCHANGED sectorbuf

\* ftl_write(), first sector of its logical block.  If no page with its offset
\* is free the write is refused ("Memory is fulled!!"), as is one out of range.
new_lbn(lsn, v) ==
  LET o == cal_sector_offset(lsn)
      b == Smallest(free(o))
  IN
  /\ ~aborted /\ pbn[cal_lbn(lsn)] = -1 /\ free(o) # {}
  /\ pbn' = [pbn EXCEPT ![cal_lbn(lsn)] = b]
  /\ flash' = dd_write(flash, b, o, newpage(lsn, v))
  /\ Remember(lsn, v)
  /\ UNCHANGED <<reserved, aborted, sectorbuf>>

ftl_write(lsn, v) == write_page(lsn, v) \/ overwrite(lsn, v) \/ new_lbn(lsn, v)

\* Contents ftl_read() finds for a mapped sector.
ReadOf(lsn) == flash[pbn[cal_lbn(lsn)]][cal_sector_offset(lsn)].data

\* ftl_read().  For an unmapped sector the fseek() to a negative offset fails
\* and whatever page the file position is at is read, or none.
ftl_read(lsn) ==
  /\ ~aborted
  /\ IF pbn[cal_lbn(lsn)] # -1
     THEN sectorbuf' = ReadOf(lsn)
     ELSE sectorbuf' \in Data \union {Blank}
  /\ UNCHANGED <<flash, pbn, reserved, aborted, last, inorder>>

Next ==
  \/ \E lsn \in Lsns, v \in Data : ftl_write(lsn, v)
  \/ \E lsn \in Lsns : ftl_read(lsn)

Spec == Init /\ [][Next]_vars

-----------------------------------------------------------------------------
(* Properties. *)

\* Every page, table entry and buffer of the FTL has a value the code knows: in
\* particular an lsn in a spare area is a sector of the device.
TypeOK ==
  /\ flash \in [Pbns -> [Offsets -> [lsn : Lsns \union {-1}, data : Data \union {Blank}]]]
  /\ pbn \in [Lbns -> Pbns \union {-1}]
  /\ reserved \in Pbns
  /\ aborted \in BOOLEAN
  /\ sectorbuf \in Data \union {Blank}
  /\ last \in [Lsns -> Data \union {Blank}]
  /\ inorder \in BOOLEAN

\* What was written is read back, whatever else was written in between
\* (main.c: reads and writes of the flash memory must work correctly).
ReadBack ==
  \A lsn \in Lsns : last[lsn] # Blank =>
    pbn[cal_lbn(lsn)] # -1 /\ ReadOf(lsn) = last[lsn]

\* The workload the FTL does serve: filled in order, each sector once, the
\* device reads back what was written.
InOrderReadBack == inorder => ReadBack

\* ... and keeps what an overwrite will need: reserved_empty_blk is an empty
\* block and belongs to no logical block.
InOrderReserved ==
  inorder => /\ \A o \in Offsets : ~is_used(reserved, o)
             /\ \A l \in Lbns : pbn[l] # reserved

\* ... and the table maps blocks to blocks: no two logical blocks share one,
\* although ftl_write() looks for a block by one page only.
InOrderOneOwner ==
  inorder => \A k, l \in Lbns : k # l /\ pbn[k] # -1 => pbn[k] # pbn[l]

\* A device filled in order serves its caller and stays ready for it.
InOrder == TypeOK /\ InOrderReadBack /\ InOrderReserved /\ InOrderOneOwner

\* A page in use carries, in its spare area, a sector number that belongs at
\* its offset, through any number of moves and erases.
SpareMatchesOffset ==
  \A b \in Pbns, o \in Offsets :
    is_used(b, o) => flash[b][o].lsn % SECTORS_PER_BLOCK = o
=============================================================================
