------------------------------ MODULE FileData ------------------------------
(***************************************************************************)
(* The contents of files (kernel/fs.c): bmap, readi, writei and itrunc,    *)
(* with the offsets of fileread and filewrite (kernel/file.c), as          *)
(* operators on a disk and inodes.  The callers hold the inode's lock, so  *)
(* each call is one step; what the disk does below is in Log and Bcache.   *)
(*                                                                         *)
(* The unit of data is sizeof(uint), so that a block holds BSIZE units of  *)
(* data or BSIZE block numbers.  A number above UMAX wraps, as a uint does.*)
(***************************************************************************)
EXTENDS Integers, Sequences, FiniteSets

CONSTANTS BSIZE, NDIRECT, NBLOCKS, UMAX, MAXWRITE

NINDIRECT == BSIZE
MAXFILE == NDIRECT + NINDIRECT
Blocks == 1..NBLOCKS
Zeroes == [i \in 0..BSIZE-1 |-> 0]
Uint(x) == x % (UMAX + 1)

FreeDisk == [used |-> {}, block |-> [b \in Blocks |-> Zeroes]]
NewInode == [size |-> 0, addrs |-> [i \in 0..NDIRECT |-> 0]]

Smallest(S) == CHOOSE x \in S : \A y \in S : x <= y
Lesser(x, y) == IF x < y THEN x ELSE y

-----------------------------------------------------------------------------
\* A disk, an inode of it and a block number, as balloc() and bmap() leave
\* them.
Mapped(d, node, addr) == [d |-> d, node |-> node, addr |-> addr]

\* balloc() with its bzero().
Allocated(d, node, b) ==
  Mapped([used |-> d.used \union {b}, block |-> [d.block EXCEPT ![b] = Zeroes]], node, b)
balloc(d, node) == Allocated(d, node, Smallest(Blocks \ d.used))

\* ip->addrs[i], allocated if necessary; and entry i of the indirect block
\* m.addr.
InAddrs(m, i) == [m EXCEPT !.node.addrs[i] = m.addr]
Addr(d, node, i) ==
  IF node.addrs[i] # 0 THEN Mapped(d, node, node.addrs[i]) ELSE InAddrs(balloc(d, node), i)

InBlock(m, at, i) == [m EXCEPT !.d.block[at][i] = m.addr]
Entry(m, i) ==
  IF m.d.block[m.addr][i] # 0 THEN Mapped(m.d, m.node, m.d.block[m.addr][i])
  ELSE InBlock(balloc(m.d, m.node), m.addr, i)

bmap(d, node, bn) ==
  IF bn < NDIRECT THEN Addr(d, node, bn) ELSE Entry(Addr(d, node, NDIRECT), bn - NDIRECT)

bfree(d, bs) == [d EXCEPT !.used = @ \ bs]


itrunc(d, node) ==
  LET direct == {node.addrs[i] : i \in 0..NDIRECT}
      indirect == IF node.addrs[NDIRECT] = 0 THEN {}
                  ELSE {d.block[node.addrs[NDIRECT]][j] : j \in 0..NINDIRECT-1}
  IN Mapped(bfree(d, direct \union indirect), NewInode, 0)

-----------------------------------------------------------------------------
Chunk(s, n) == Lesser(n - s.tot, BSIZE - (s.off % BSIZE))

\* The loop of readi(): s is [d, node, off, tot, out].
RECURSIVE ReadLoop(_, _)
ReadBlock(s, b, m) ==
  [d |-> b.d, node |-> b.node, off |-> s.off + m, tot |-> s.tot + m,
   out |-> s.out \o [i \in 1..m |-> b.d.block[b.addr][(s.off % BSIZE) + i - 1]]]
ReadLoop(s, n) ==
  IF s.tot >= n THEN s
  ELSE ReadLoop(ReadBlock(s, bmap(s.d, s.node, s.off \div BSIZE), Chunk(s, n)), n)

Cursor(d, node, off) == [d |-> d, node |-> node, off |-> off, tot |-> 0, out |-> <<>>]

readi(d, node, off, n) ==
  IF off > node.size \/ Uint(off + n) < off THEN Cursor(d, node, off)
  ELSE ReadLoop(Cursor(d, node, off), IF Uint(off + n) > node.size THEN node.size - off ELSE n)

\* The loop of writei(), which writes units v, of which only the first good
\* ones can be copied in: either_copyin() then leaves the others of the
\* block in the buffer alone and the loop ends.
RECURSIVE WriteLoop(_, _, _, _), WriteBlock(_, _, _, _, _, _)
Written(b, at, m, v) ==
  [b.d EXCEPT !.block[b.addr] =
     [i \in 0..BSIZE-1 |-> IF i \in at..at+m-1 THEN v ELSE @[i]]]
WriteBlock(s, b, n, v, good, m) ==
  IF s.tot + m > good
  THEN [s EXCEPT !.node = b.node, !.d = Written(b, s.off % BSIZE, good - s.tot, v)]
  ELSE WriteLoop([s EXCEPT !.node = b.node, !.d = Written(b, s.off % BSIZE, m, v),
                           !.off = @ + m, !.tot = @ + m], n, v, good)
WriteLoop(s, n, v, good) ==
  IF s.tot >= n THEN s
  ELSE WriteBlock(s, bmap(s.d, s.node, s.off \div BSIZE), n, v, good, Chunk(s, n))

Grown(s) == [s EXCEPT !.node.size = IF s.off > @ THEN s.off ELSE @]

writei(d, node, off, n, v, good) ==
  IF off > node.size \/ Uint(off + n) < off \/ off + n > MAXFILE * BSIZE
  THEN [Cursor(d, node, off) EXCEPT !.tot = -1]
  ELSE Grown(WriteLoop(Cursor(d, node, off), n, v, good))

\* filewrite() at offset off: pieces of at most MAXWRITE units; -1 if one of
\* them is not written completely.
RECURSIVE filewrite(_, _, _, _, _), NextPiece(_, _, _, _, _)
NextPiece(s, i, n, v, good) ==
  IF s.tot # Lesser(n - i, MAXWRITE) THEN [s EXCEPT !.tot = -1]
  ELSE filewrite(s, i + s.tot, n, v, good - s.tot)
filewrite(s, i, n, v, good) ==
  IF i >= n THEN [s EXCEPT !.tot = n]
  ELSE NextPiece(writei(s.d, s.node, s.off, Lesser(n - i, MAXWRITE), v, good), i, n, v, good)

-----------------------------------------------------------------------------
\* The blocks of an inode, the indirect one included.
BlocksOf(d, node) ==
  ({node.addrs[i] : i \in 0..NDIRECT} \union
     IF node.addrs[NDIRECT] = 0 THEN {}
     ELSE {d.block[node.addrs[NDIRECT]][j] : j \in 0..NINDIRECT-1}) \ {0}

Readings == (0..MAXFILE * BSIZE) \X {1, BSIZE + 1, UMAX}

\* What readi() gives, at any offset, is the part of contents there; and it
\* allocates nothing.
ReadsAs(d, node, contents, at) ==
  LET r == readi(d, node, at[1], at[2])
      end == IF Uint(at[1] + at[2]) < at[1] THEN at[1] ELSE at[1] + at[2]
  IN /\ r.out = SubSeq(contents, at[1] + 1, Lesser(end, Len(contents)))
     /\ r.d = d /\ r.node = node

HoldsExactly(d, node, contents) ==
  node.size = Len(contents) /\ \A at \in Readings : ReadsAs(d, node, contents, at)

-----------------------------------------------------------------------------
\* A volume: a disk and two files, with what they should contain.
NewVolume == [d |-> FreeDisk, node |-> <<NewInode, NewInode>>, contents |-> <<<<>>, <<>>>>]

\* The calls on it: n units of v to file f at off, good of which can be
\* copied; or open() with O_TRUNC (n = 0).
VolumeCalls == [f : {1, 2}, off : 0..MAXFILE * BSIZE, n : {0, 1, BSIZE, 2 * BSIZE + 1},
                good : {0, 1, UMAX}, v : {1}]

Result(vol, c) ==
  IF c.n = 0 THEN itrunc(vol.d, vol.node[c.f])
  ELSE filewrite(Cursor(vol.d, vol.node[c.f], c.off), 0, c.n, c.v, c.good)
Contents(r) == readi(r.d, r.node, 0, MAXFILE * BSIZE).out
After(vol, c, r) ==
  [d |-> r.d, node |-> [vol.node EXCEPT ![c.f] = r.node],
   contents |-> [vol.contents EXCEPT ![c.f] = Contents(r)]]

\* The contents are those of before with the units written, and if the call
\* failed, perhaps some of the others that could be copied.
WriteRight(old, c, r, now) ==
  /\ r.tot \in {c.n, -1} /\ r.off \in c.off..c.off + c.n
  /\ (r.tot = c.n) <=> (c.good >= c.n /\ c.off <= Len(old) /\ c.off + c.n <= MAXFILE * BSIZE)
  /\ Len(now) = IF r.off > Len(old) /\ r.off # c.off THEN r.off ELSE Len(old)
  /\ \A i \in 1..Len(now) :
       IF i \in c.off+1..r.off THEN now[i] = c.v
       ELSE now[i] = old[i] \/ (now[i] = c.v /\ i \in r.off+1..c.off+Lesser(c.good, c.n))

CallRight(vol, c, r, vol2) ==
  /\ IF c.n = 0 THEN vol2.contents[c.f] = <<>>
     ELSE WriteRight(vol.contents[c.f], c, r, vol2.contents[c.f])
  /\ vol2.d.used = UNION {BlocksOf(vol2.d, vol2.node[f]) : f \in {1, 2}}
  /\ BlocksOf(vol2.d, vol2.node[1]) \cap BlocksOf(vol2.d, vol2.node[2]) = {}
  /\ \A f \in {1, 2} : HoldsExactly(vol2.d, vol2.node[f], vol2.contents[f])

Right(vol, c, r) == CallRight(vol, c, r, After(vol, c, r))

\* Every call of every sequence of up to k calls on a volume of vols.
RECURSIVE AllRight(_, _)
AllRight(vols, k) ==
  k = 0 \/ (/\ \A vol \in vols, c \in VolumeCalls : Right(vol, c, Result(vol, c))
            /\ AllRight({After(vol, c, Result(vol, c)) : vol \in vols, c \in VolumeCalls}, k - 1))
=============================================================================
