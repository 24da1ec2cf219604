-------------------------------- MODULE Names -------------------------------
(***************************************************************************)
(* Path names (kernel/fs.c): skipelem, namex, dirlookup and dirlink, with  *)
(* strncmp and strncpy (kernel/string.c), on directories that do not       *)
(* change meanwhile; the locks and counts of namex are in Inode.           *)
(*                                                                         *)
(* A C string is a sequence of characters that ends with NUL, and a name   *)
(* is an array of DIRSIZ characters, which may be full and without a NUL.  *)
(* No access is out of bounds: it would be an error in evaluation.         *)
(***************************************************************************)
EXTENDS Naturals, Sequences

CONSTANT DIRSIZ

NUL == "NUL"
Str(s) == Append(s, NUL)

\* From position i of both: do the strings differ within n characters?
RECURSIVE strncmp(_, _, _, _)
strncmp(p, q, i, n) ==
  IF n > 0 /\ p[i] # NUL /\ p[i] = q[i] THEN strncmp(p, q, i + 1, n - 1)
  ELSE n # 0 /\ p[i] # q[i]

namecmp(s, t) == strncmp(s, t, 1, DIRSIZ)

\* strncpy(s, t, n) from position i on: the characters up to a NUL, then NULs.
RECURSIVE Pad(_, _, _)
Pad(s, i, n) == IF n > 0 THEN Pad([s EXCEPT ![i] = NUL], i + 1, n - 1) ELSE s

RECURSIVE strncpy(_, _, _, _)
strncpy(s, t, i, n) ==
  IF n <= 0 THEN s
  ELSE IF t[i] # NUL THEN strncpy([s EXCEPT ![i] = t[i]], t, i + 1, n - 1)
  ELSE Pad([s EXCEPT ![i] = NUL], i + 1, n - 1)

-----------------------------------------------------------------------------
\* A directory is a sequence of entries [inum, name].
Matches(dir, name) == {i \in DOMAIN dir : dir[i].inum # 0 /\ ~namecmp(name, dir[i].name)}
First(S) == CHOOSE i \in S : \A j \in S : i <= j
dirlookup(dir, name) == IF Matches(dir, name) = {} THEN 0 ELSE dir[First(Matches(dir, name))].inum

NoName == [i \in 1..DIRSIZ |-> "?"]    \* not initialised
Entry(name, inum) == [inum |-> inum, name |-> strncpy(NoName, name, 1, DIRSIZ)]
Link(dir, empty, e) == IF empty = {} THEN Append(dir, e) ELSE [dir EXCEPT ![First(empty)] = e]
dirlink(dir, name, inum) ==
  IF dirlookup(dir, name) # 0 THEN dir
  ELSE Link(dir, {i \in DOMAIN dir : dir[i].inum = 0}, Entry(name, inum))

\* The first position from i on that is a slash (or not one).
ToSlash(path, i) == First({j \in i..Len(path) : path[j] \in {"/", NUL}})
PastSlash(path, i) == First({j \in i..Len(path) : path[j] # "/"})

\* What is in name once len characters at s are moved into it.
Moved(path, s, len, name) ==
  [k \in 1..DIRSIZ |-> IF k <= len THEN path[s + k - 1]
                       ELSE IF k = len + 1 THEN NUL ELSE name[k]]

\* Mutation: a name is copied as if it always fitted.
Taken_fits(path, s, e, name) ==
  [pos |-> PastSlash(path, e),
   name |-> [Moved(path, s, e - s, name) EXCEPT ![DIRSIZ] = IF e - s >= DIRSIZ THEN NUL ELSE @]]

Taken(path, s, e, name) == [pos |-> PastSlash(path, e), name |-> Moved(path, s, e - s, name)]

\* skipelem(): the position after the element, 0 for the null pointer.
Element(path, s, name) ==
  IF path[s] = NUL THEN [pos |-> 0, name |-> name]
  ELSE Taken(path, s, ToSlash(path, s), name)
skipelem(path, i, name) == Element(path, PastSlash(path, i), name)

\* namex() from inode inum on; dirs gives the directories.  The inode found (0:
\* none) and the last element.
RECURSIVE Walk(_, _, _, _, _), Visit(_, _, _, _, _)
Visit(dirs, inum, nameiparent, path, e) ==
  IF e.pos = 0 THEN [inum |-> IF nameiparent THEN 0 ELSE inum, name |-> e.name]
  ELSE IF inum \notin DOMAIN dirs THEN [inum |-> 0, name |-> e.name]
  ELSE IF nameiparent /\ path[e.pos] = NUL THEN [inum |-> inum, name |-> e.name]
  ELSE IF dirlookup(dirs[inum], e.name) = 0 THEN [inum |-> 0, name |-> e.name]
  ELSE Walk(dirs, dirlookup(dirs[inum], e.name), nameiparent, path, e)
Walk(dirs, inum, nameiparent, path, e) ==
  Visit(dirs, inum, nameiparent, path, skipelem(path, e.pos, e.name))

namex(dirs, start, path, nameiparent) ==
  Walk(dirs, IF path[1] = "/" THEN 1 ELSE start, nameiparent, path, [pos |-> 1, name |-> NoName])

-----------------------------------------------------------------------------
\* Reference: the elements of a path, cut to DIRSIZ characters, and the walk
\* along them through a tree that maps a directory and an element to an inode.
Cut(s) == SubSeq(s, 1, IF Len(s) < DIRSIZ THEN Len(s) ELSE DIRSIZ)
Starts(path) == {i \in DOMAIN path : path[i] # "/" /\ (i = 1 \/ path[i - 1] = "/")}
ElementAt(path, i) ==
  Cut(SubSeq(path, i, First({j \in i..Len(path) + 1 : j = Len(path) + 1 \/ path[j] = "/"}) - 1))

Follow(tree, inum, e) == IF <<inum, e>> \in DOMAIN tree THEN tree[<<inum, e>>] ELSE 0
RECURSIVE Resolve(_, _, _, _)
Resolve(tree, inum, path, starts) ==
  IF inum = 0 \/ starts = {} THEN inum
  ELSE Resolve(tree, Follow(tree, inum, ElementAt(path, First(starts))), path, starts \ {First(starts)})

\* For one path (without its NUL): namei() finds the inode that the tree has
\* for it; nameiparent() finds the directory of the last element, and the
\* array it fills compares equal to that element and to no other.
ResolvesRight(dirs, tree, start, names, path) ==
  LET inum == IF path # <<>> /\ path[1] = "/" THEN 1 ELSE start
      starts == Starts(path)
      last == CHOOSE i \in starts : \A j \in starts : i >= j
      parent == Resolve(tree, inum, path, starts \ {last})
      r == namex(dirs, start, Str(path), TRUE)
  IN /\ namex(dirs, start, Str(path), FALSE).inum = Resolve(tree, inum, path, starts)
     /\ starts = {} => r.inum = 0
     /\ starts # {} =>
          /\ r.inum = IF parent \in DOMAIN dirs THEN parent ELSE 0
          /\ r.inum # 0 => \A n \in names :
               ~namecmp(r.name, strncpy(NoName, Str(n), 1, DIRSIZ)) <=> Cut(n) = ElementAt(path, last)
=============================================================================
