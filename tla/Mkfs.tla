-------------------------------- MODULE Mkfs --------------------------------
(***************************************************************************)
(* mkfs (mkfs/mkfs.c): the file system that the kernel first finds on its  *)
(* disk, checked against how the kernel reads it (FileData).               *)
(*                                                                         *)
(* The image is [d, freeblock, inodes]: data blocks are numbered from 1,   *)
(* and an inode is in the sequence at its number.  A directory entry takes *)
(* one unit, which is the number of its inode.                             *)
(***************************************************************************)
EXTENDS FileData

ROOTINO == 1

\* The layout, in blocks: where the log, the inodes and the bit map start,
\* and the number of meta blocks.
Layout(nlog, ninodes, ipb, fssize, bpb) ==
  LET ninodeblocks == ninodes \div ipb + 1
      nbitmap == fssize \div bpb + 1
  IN [logstart |-> 2, inodestart |-> 2 + nlog, bmapstart |-> 2 + nlog + ninodeblocks,
      nmeta |-> 2 + nlog + ninodeblocks + nbitmap]

IBLOCK(i, ipb, sb) == i \div ipb + sb.inodestart
BBLOCK(b, bpb, sb) == b \div bpb + sb.bmapstart

-----------------------------------------------------------------------------
ialloc(img) == [img EXCEPT !.inodes = Append(@, NewInode)]

\* iappend(): p is what is still to be appended to inode inum.
TakeAddr(img, inum, i) ==
  IF img.inodes[inum].addrs[i] # 0 THEN img
  ELSE [img EXCEPT !.inodes[inum].addrs[i] = img.freeblock, !.freeblock = @ + 1]
TakeEntry(img, at, i) ==
  IF img.d.block[at][i] # 0 THEN img
  ELSE [img EXCEPT !.d.block[at][i] = img.freeblock, !.freeblock = @ + 1]

WithIndirect(img, inum, fbn) == TakeEntry(img, img.inodes[inum].addrs[NDIRECT], fbn - NDIRECT)
WithBlock(img, inum, fbn) ==
  IF fbn < NDIRECT THEN TakeAddr(img, inum, fbn)
  ELSE WithIndirect(TakeAddr(img, inum, NDIRECT), inum, fbn)

BlockAt(img, inum, fbn) ==
  IF fbn < NDIRECT THEN img.inodes[inum].addrs[fbn]
  ELSE img.d.block[img.inodes[inum].addrs[NDIRECT]][fbn - NDIRECT]

\* The first n1 units of p into the block of fbn.
Fill(img, inum, p, n1, fbn, off) ==
  [img EXCEPT !.inodes[inum].size = off + n1,
     !.d.block[BlockAt(img, inum, fbn)] =
       [i \in 0..BSIZE-1 |-> LET j == fbn * BSIZE + i - off + 1
                             IN IF j \in 1..n1 THEN p[j] ELSE @[i]]]

RECURSIVE iappend(_, _, _), AppendPiece(_, _, _, _, _, _)
AppendPiece(img, inum, p, n1, fbn, off) ==
  iappend(Fill(WithBlock(img, inum, fbn), inum, p, n1, fbn, off), inum, SubSeq(p, n1 + 1, Len(p)))

iappend(img, inum, p) ==
  IF p = <<>> THEN img
  ELSE AppendPiece(img, inum, p,
         Lesser(Len(p), (img.inodes[inum].size \div BSIZE + 1) * BSIZE - img.inodes[inum].size),
         img.inodes[inum].size \div BSIZE, img.inodes[inum].size)

\* The contents of a host file, a buffer at a time.
RECURSIVE AppendFile(_, _, _)
AppendFile(img, inum, p) ==
  IF p = <<>> THEN img
  ELSE AppendFile(iappend(img, inum, SubSeq(p, 1, Lesser(BSIZE, Len(p)))), inum,
                  SubSeq(p, Lesser(BSIZE, Len(p)) + 1, Len(p)))

\* One turn of main()'s loop: its inode, its entry in the root directory,
\* its contents.
AddFile(img, p) ==
  AppendFile(iappend(ialloc(img), ROOTINO, <<Len(img.inodes) + 1>>), Len(img.inodes) + 1, p)

RECURSIVE AddFiles(_, _)
AddFiles(img, ps) == IF ps = <<>> THEN img ELSE AddFiles(AddFile(img, Head(ps)), Tail(ps))

\* main(): the root with "." and "..", the files, the size of the root up to
\* a block, and balloc(), which marks what was taken.
Empty == [d |-> FreeDisk, freeblock |-> 1, inodes |-> <<>>]
Finish(img) ==
  [img EXCEPT !.inodes[ROOTINO].size = (@ \div BSIZE + 1) * BSIZE,
              !.d.used = 1..img.freeblock - 1]
main(ps) == Finish(AddFiles(iappend(iappend(ialloc(Empty), ROOTINO, <<ROOTINO>>),
                                    ROOTINO, <<ROOTINO>>), ps))

-----------------------------------------------------------------------------
\* The entries of the root: ".", "..", the files, and empty ones; if the last
\* block is full there is a whole block of empty ones, which is not there.
RootEntries(n) == <<ROOTINO, ROOTINO>> \o [i \in 1..n |-> i + 1]
Padding(n) == [i \in 1..BSIZE - ((n + 2) % BSIZE) |-> 0]

\* For files ps: the kernel finds in the image exactly the files that were
\* put there and a root directory with their inodes; no block belongs to two
\* files; and the blocks marked as used are those that belong to one.
GoodImage(img, ps) ==
  /\ \A i \in DOMAIN ps : HoldsExactly(img.d, img.inodes[i + 1], ps[i])
  /\ readi(img.d, img.inodes[ROOTINO], 0, MAXFILE * BSIZE).out
       = RootEntries(Len(ps)) \o Padding(Len(ps))
  /\ (Len(ps) + 2) % BSIZE # 0 =>
       HoldsExactly(img.d, img.inodes[ROOTINO], RootEntries(Len(ps)) \o Padding(Len(ps)))
  /\ img.d.used = UNION {BlocksOf(img.d, img.inodes[i]) : i \in DOMAIN img.inodes}
  /\ \A i, j \in DOMAIN img.inodes :
       i # j => BlocksOf(img.d, img.inodes[i]) \cap BlocksOf(img.d, img.inodes[j]) = {}

\* For sizes of the parts: the block of every inode and of every bit of the
\* map lies in its part, and the parts are in the order of fs.h.
GoodLayout(nlog, ninodes, ipb, fssize, bpb) ==
  LET sb == Layout(nlog, ninodes, ipb, fssize, bpb)
  IN /\ sb.logstart + nlog = sb.inodestart
     /\ \A i \in 0..ninodes - 1 : IBLOCK(i, ipb, sb) \in sb.inodestart..sb.bmapstart - 1
     /\ \A b \in 0..fssize - 1 : BBLOCK(b, bpb, sb) \in sb.bmapstart..sb.nmeta - 1
=============================================================================
