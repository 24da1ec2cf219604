-------------------------------- MODULE MCInode --------------------------------
(* Two processes, three inodes, one name, one data block.                  *)
EXTENDS Inode, TLC

x == <<"x">>
up == <<"..">>
root == <<"/">>
rx == <<"/", "x">>

MCProcs == 1..2
MCInums == 1..3
MCPaths == {x, up, root, rx}
MCCalls == <<
  {<<"open", up, up>>, <<"open_trunc", x, x>>, <<"open_create", x, x>>, <<"link", x, rx>>,
   <<"unlink", x, x>>, <<"chdir", x, x>>},
  {<<"mkdir", x, x>>, <<"mknod", x, x>>, <<"unlink", x, x>>, <<"chdir", x, x>>,
   <<"chdir", root, root>>} >>

\* Files of up to 3 blocks of 2 units, the last 2 of them indirect; disks
\* made by mkfs for up to 3 files of all sizes; layouts of all small sizes.
V == INSTANCE Mkfs WITH BSIZE <- 2, NDIRECT <- 1, NBLOCKS <- 16, UMAX <- 15, MAXWRITE <- 3
HostFiles == {[i \in 1..n |-> 10 + i] : n \in 0..6}
HostLists == UNION {[1..n -> HostFiles] : n \in 0..3}
AllFilesRight == V!AllRight({V!NewVolume}, 3)
AllImagesRight ==
  /\ \A ps \in HostLists : V!GoodImage(V!main(ps), ps)
  /\ \A nlog \in 0..2, ninodes \in 1..7, ipb \in 1..3, fssize \in 1..7, bpb \in 1..3 :
       V!GoodLayout(nlog, ninodes, ipb, fssize, bpb)


\* Names of up to 3 characters where an entry holds 2.  In the root a is
\* directory 2 and abb file 3; in 2, behind a free entry, ba is 4 and b is 5.
N == INSTANCE Names WITH DIRSIZ <- 2
LinkAll(entries, name1, inum1, name2, inum2) ==
  N!dirlink(N!dirlink(entries, N!Str(name1), inum1), N!Str(name2), inum2)
Dirs == [i \in {1, 2, 4} |->
  CASE i = 1 -> LinkAll(<<>>, <<"a">>, 2, <<"a", "b", "b">>, 3)
    [] i = 2 -> LinkAll(<<[inum |-> 0, name |-> N!NoName]>>, <<"b", "a">>, 4, <<"b">>, 5)
    [] i = 4 -> <<>>]
Tree == (<<1, <<"a">>>> :> 2) @@ (<<1, <<"a", "b">>>> :> 3)
          @@ (<<2, <<"b", "a">>>> :> 4) @@ (<<2, <<"b">>>> :> 5)
Strings(S, n) == UNION {[1..k -> S] : k \in 0..n}
AllPathsRight ==
  \A path \in Strings({"/", "a", "b"}, 6), start \in {1, 2} :
    N!ResolvesRight(Dirs, Tree, start, Strings({"a", "b"}, 3) \ {<<>>}, path)

\* namei() and nameiparent() find what the path names, whatever slashes are
\* in it, with names cut to the length of a directory entry; an entry that
\* is full and has no NUL compares right (see ResolvesRight).
PathsRight == (\E p \in Procs : pc[p] # "user") => AllPathsRight
=============================================================================
