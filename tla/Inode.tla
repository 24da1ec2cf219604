-------------------------------- MODULE Inode --------------------------------
(***************************************************************************)
(* Inodes and directories (kernel/fs.c) and the system calls on them       *)
(* (kernel/sysfile.c): open, with and without O_CREATE and O_TRUNC, close, *)
(* write, link, unlink, mkdir, mknod and chdir by concurrent processes.    *)
(*                                                                         *)
(* The inode table is indexed by inode number: iget() keeps one entry for  *)
(* a number under itable.lock, and an entry with ref = 0 is forgotten.     *)
(* ip->lock is held from action to action only where the code sleeps or    *)
(* takes another lock while it has it; ilock(), what is done with the      *)
(* inode, and iunlock() are one action otherwise.  iput() is a call that   *)
(* every action may leave behind (puts), because freeing an inode takes    *)
(* several steps.  Every call is one transaction of the log, which module  *)
(* Log takes care of.  A file has at most one block; directories' blocks   *)
(* and "." are left out.                                                   *)
(***************************************************************************)
EXTENDS Naturals, Sequences, FiniteSets

CONSTANTS
  Procs,
  Inums,      \* inode numbers: 1, which is ROOTINO, and up
  Names,      \* names of directory entries, other than "." and ".."
  Paths,      \* the paths processes use: sequences of names, ".." and, in front, "/"
  Calls,      \* the calls each process makes: <<op, path, path2>>
  DataBlocks  \* the data blocks of the disk

ROOTINO == 1
None == 0       \* no inode, no block, no process

ASSUME ProcsAssumption == IsFiniteSet(Procs) /\ None \notin Procs
ASSUME InumsAssumption == IsFiniteSet(Inums) /\ Inums \subseteq Nat \ {None} /\ ROOTINO \in Inums
ASSUME NamesAssumption == {"..", "/"} \intersect Names = {}
ASSUME PathsAssumption == Paths \subseteq Seq(Names \union {"..", "/"})
ASSUME DataBlocksAssumption == DataBlocks \subseteq Nat \ {None}

VARIABLES
  dinode,     \* on disk: [type, nlink, addr] of every inode
  ent,        \* on disk: the directory entries of every inode, None where there is none
  bitmap,     \* on disk: the data blocks in use
  mem, valid, ref,   \* the inode table: the copy of the dinode, ip->valid, ip->ref
  lock,       \* ip->lock: the process that has it, or None
  cwd,        \* p->cwd
  file,       \* the inode of the process's open file, or None
  writable,   \* f->writable
  pc,         \* where each process is
  op,         \* the system call it is in
  rest,       \* the part of the path that namex() has not looked at
  new,        \* sys_link's second path
  dp, ip,     \* locals: the inode namex() has reached or the directory, and the inode
  puts,       \* the iput() calls to be made before anything else
  freeing,    \* how far the first of them has got
  panicked

disk == <<dinode, ent, bitmap>>
itable == <<mem, valid, ref, lock>>
fds == <<cwd, file, writable>>
args == <<op, rest, new>>
vars == <<disk, itable, fds, pc, args, dp, ip, puts, freeing, panicked>>

Free == [type |-> "none", nlink |-> 0, addr |-> None]
Ops == {"open", "open_trunc", "open_create", "link", "unlink", "mkdir", "mknod", "chdir"}
ASSUME CallsAssumption == Calls \in [Procs -> SUBSET (Ops \X Paths \X Paths)]
NoEntries == [n \in Names \union {".."} |-> None]

\* mkfs makes the root directory; its ".." is itself.
Init ==
  /\ dinode = [i \in Inums |->
       IF i = ROOTINO THEN [type |-> "T_DIR", nlink |-> 1, addr |-> None] ELSE Free]
  /\ ent = [i \in Inums |->
       IF i = ROOTINO THEN [NoEntries EXCEPT ![".."] = ROOTINO] ELSE NoEntries]
  /\ bitmap = {}
  /\ mem = [i \in Inums |-> Free]
  /\ valid = [i \in Inums |-> FALSE]
  /\ ref = [i \in Inums |-> IF i = ROOTINO THEN Cardinality(Procs) ELSE 0]
  /\ lock = [i \in Inums |-> None]
  /\ cwd = [p \in Procs |-> ROOTINO]
  /\ file = [p \in Procs |-> None]
  /\ writable = [p \in Procs |-> FALSE]
  /\ pc = [p \in Procs |-> "user"]
  /\ op = [p \in Procs |-> "open"]
  /\ rest = [p \in Procs |-> <<>>]
  /\ new = [p \in Procs |-> <<>>]
  /\ dp = [p \in Procs |-> None]
  /\ ip = [p \in Procs |-> None]
  /\ puts = [p \in Procs |-> <<>>]
  /\ freeing = [p \in Procs |-> "no"]
  /\ panicked = FALSE

-----------------------------------------------------------------------------
At(p, l) == ~panicked /\ pc[p] = l /\ puts[p] = <<>>
Goto(p, l) == pc' = [pc EXCEPT ![p] = l]

\* The copy of inode i that a process sees once it has ilock()ed it.
Copy(i) == IF valid[i] THEN mem[i] ELSE dinode[i]

\* ilock(i) gets the lock and finds an inode with a type.
Lockable(i) == lock[i] = None /\ (valid[i] \/ dinode[i].type # "none")

\* What ilock(), assignments to ip->xxx followed by iupdate(), and iunlock()
\* make of inode i, if m is its copy then and h has the lock afterwards.
Update(i, m, h) ==
  /\ dinode' = [dinode EXCEPT ![i] = m]
  /\ mem' = [mem EXCEPT ![i] = m]
  /\ valid' = [valid EXCEPT ![i] = TRUE]
  /\ lock' = [lock EXCEPT ![i] = h]

\* The same for two inodes, i not yet locked, d locked before.
Update2(i, m, h, d, md, hd) ==
  /\ dinode' = [dinode EXCEPT ![i] = m, ![d] = md]
  /\ mem' = [mem EXCEPT ![i] = m, ![d] = md]
  /\ valid' = [valid EXCEPT ![i] = TRUE]
  /\ lock' = [lock EXCEPT ![i] = h, ![d] = hd]

\* ilock(i) for reading only.
Look(i, h) ==
  /\ mem' = [mem EXCEPT ![i] = Copy(i)]
  /\ valid' = [valid EXCEPT ![i] = TRUE]
  /\ lock' = [lock EXCEPT ![i] = h]

\* The system call returns after the iput()s in s.
Return(p, s) ==
  /\ Goto(p, "user")
  /\ op' = [op EXCEPT ![p] = "open"]
  /\ rest' = [rest EXCEPT ![p] = <<>>]
  /\ new' = [new EXCEPT ![p] = <<>>]
  /\ dp' = [dp EXCEPT ![p] = None]
  /\ ip' = [ip EXCEPT ![p] = None]
  /\ puts' = [puts EXCEPT ![p] = s]

Put(p, s) == puts' = [puts EXCEPT ![p] = s]

\* iget(i) or idup(i)
Iget(i) == ref' = [ref EXCEPT ![i] = @ + 1]

-----------------------------------------------------------------------------
\* namex() starts at the root or at the current directory.
Start(p, path) ==
  IF Head(path) = "/" THEN ROOTINO ELSE cwd[p]
Names0(path) == IF Head(path) = "/" THEN Tail(path) ELSE path

\* A system call that has a path, or two (sys_link).
syscall(p, o, path, path2) ==
  /\ At(p, "user")
  /\ op' = [op EXCEPT ![p] = o]
  /\ rest' = [rest EXCEPT ![p] = Names0(path)]
  /\ new' = [new EXCEPT ![p] = IF o = "link" THEN path2 ELSE <<>>]
  /\ dp' = [dp EXCEPT ![p] = Start(p, path)]
  /\ Iget(Start(p, path))
  /\ Goto(p, "walk")
  /\ UNCHANGED <<disk, mem, valid, lock, fds, ip, puts, freeing, panicked>>

\* nameiparent() rather than namei(); for sys_link, the second path.
nameiparent(p) ==
  \/ op[p] \in {"open_create", "mkdir", "mknod", "unlink"}
  \/ op[p] = "link" /\ new[p] = <<>>

\* Where a call goes on with what namex() has found.
Found(p) ==
  CASE op[p] \in {"open", "open_trunc"} -> "open"
    [] op[p] \in {"open_create", "mkdir", "mknod"} -> "create"
    [] op[p] = "unlink" -> "unlink"
    [] op[p] = "chdir" -> "chdir"
    [] op[p] = "link" -> IF new[p] = <<>> THEN "link_dir" ELSE "link_inc"

\* namex() returns 0 after iput(i).
namex_fails(p, i) ==
  IF op[p] = "link" /\ new[p] = <<>>
  THEN Goto(p, "link_bad") /\ Put(p, <<i>>)
       /\ dp' = [dp EXCEPT ![p] = None] /\ rest' = [rest EXCEPT ![p] = <<>>]
       /\ UNCHANGED <<op, new, ip>>
  ELSE Return(p, <<i>>)

\* The path is used up.
namex_end(p) ==
  /\ At(p, "walk")
  /\ rest[p] = <<>>
  /\ IF nameiparent(p)
     THEN namex_fails(p, dp[p])
     ELSE /\ Goto(p, Found(p))
          /\ ip' = [ip EXCEPT ![p] = dp[p]]
          /\ dp' = [dp EXCEPT ![p] = None]
          /\ UNCHANGED <<args, puts>>
  /\ UNCHANGED <<disk, itable, fds, freeing, panicked>>

\* One level: ilock(), dirlookup() and iget(), iunlockput().
namex_step(p) ==
  LET i == dp[p] IN
  /\ At(p, "walk")
  /\ rest[p] # <<>>
  /\ Lockable(i)
  /\ Look(i, None)
  /\ \/ /\ Copy(i).type # "T_DIR"
        /\ namex_fails(p, i)
        /\ UNCHANGED ref
     \/ /\ Copy(i).type = "T_DIR"
        /\ nameiparent(p) /\ Len(rest[p]) = 1      \* "Stop one level early."
        /\ Goto(p, Found(p))
        /\ UNCHANGED <<args, dp, ip, puts, ref>>
     \/ /\ Copy(i).type = "T_DIR"
        /\ ~(nameiparent(p) /\ Len(rest[p]) = 1)
        /\ ent[i][Head(rest[p])] = None
        /\ namex_fails(p, i)
        /\ UNCHANGED ref
     \/ /\ Copy(i).type = "T_DIR"
        /\ ~(nameiparent(p) /\ Len(rest[p]) = 1)
        /\ ent[i][Head(rest[p])] # None
        /\ Iget(ent[i][Head(rest[p])])
        /\ dp' = [dp EXCEPT ![p] = ent[i][Head(rest[p])]]
        /\ rest' = [rest EXCEPT ![p] = Tail(@)]
        /\ Put(p, <<i>>)
        /\ UNCHANGED <<pc, op, new, ip>>
  /\ UNCHANGED <<disk, fds, freeing, panicked>>

-----------------------------------------------------------------------------
\* iput(i): is this the last reference to an inode without links?
Last(i) == ref[i] = 1 /\ valid[i] /\ mem[i].nlink = 0

\* acquiresleep(&ip->lock), with itable.lock held.
iput_last(p) ==
  LET i == Head(puts[p]) IN
  /\ ~panicked /\ puts[p] # <<>> /\ freeing[p] = "no"
  /\ Last(i)
  /\ lock[i] = None
  /\ lock' = [lock EXCEPT ![i] = p]
  /\ freeing' = [freeing EXCEPT ![p] = "trunc"]
  /\ UNCHANGED <<disk, mem, valid, ref, fds, pc, args, dp, ip, puts, panicked>>

\* itrunc(ip); ip->type = 0; iupdate(ip).
iput_trunc(p) ==
  LET i == Head(puts[p]) IN
  /\ ~panicked /\ puts[p] # <<>> /\ freeing[p] = "trunc"
  /\ dinode' = [dinode EXCEPT ![i] = Free]
  /\ mem' = [mem EXCEPT ![i] = Free]
  /\ ent' = [ent EXCEPT ![i] = NoEntries]
  /\ bitmap' = bitmap \ {mem[i].addr}
  /\ freeing' = [freeing EXCEPT ![p] = "unlock"]
  /\ UNCHANGED <<valid, ref, lock, fds, pc, args, dp, ip, puts, panicked>>

\* Mutation: ip->valid stays set.
iput_unlock_valid(p) ==
  LET i == Head(puts[p]) IN
  /\ ~panicked /\ puts[p] # <<>> /\ freeing[p] = "unlock"
  /\ lock' = [lock EXCEPT ![i] = None]
  /\ freeing' = [freeing EXCEPT ![p] = "drop"]
  /\ UNCHANGED <<disk, mem, valid, ref, fds, pc, args, dp, ip, puts, panicked>>

\* ip->valid = 0; releasesleep(&ip->lock).
iput_unlock(p) ==
  LET i == Head(puts[p]) IN
  /\ ~panicked /\ puts[p] # <<>> /\ freeing[p] = "unlock"
  /\ valid' = [valid EXCEPT ![i] = FALSE]
  /\ lock' = [lock EXCEPT ![i] = None]
  /\ freeing' = [freeing EXCEPT ![p] = "drop"]
  /\ UNCHANGED <<disk, mem, ref, fds, pc, args, dp, ip, puts, panicked>>

\* ip->ref--; an entry without references is free.
iput(p) ==
  LET i == Head(puts[p]) IN
  /\ ~panicked /\ puts[p] # <<>>
  /\ freeing[p] = "drop" \/ (freeing[p] = "no" /\ ~Last(i))
  /\ ref' = [ref EXCEPT ![i] = @ - 1]
  /\ valid' = [valid EXCEPT ![i] = @ /\ ref[i] > 1]
  /\ mem' = [mem EXCEPT ![i] = IF ref[i] > 1 THEN @ ELSE Free]
  /\ puts' = [puts EXCEPT ![p] = Tail(@)]
  /\ freeing' = [freeing EXCEPT ![p] = "no"]
  /\ UNCHANGED <<disk, lock, fds, pc, args, dp, ip, panicked>>

-----------------------------------------------------------------------------
\* sys_open() without O_CREATE: a directory can only be read.
open(p) ==
  /\ At(p, "open")
  /\ Lockable(ip[p])
  /\ Look(ip[p], p)
  /\ ~(Copy(ip[p]).type = "T_DIR" /\ op[p] = "open_trunc")
  /\ Goto(p, "open_fd")
  /\ UNCHANGED <<disk, ref, fds, args, dp, ip, puts, freeing, panicked>>

open_refused(p) ==
  /\ At(p, "open")
  /\ Lockable(ip[p])
  /\ Look(ip[p], None)
  /\ Copy(ip[p]).type = "T_DIR" /\ op[p] = "open_trunc"
  /\ Return(p, <<ip[p]>>)
  /\ UNCHANGED <<disk, ref, fds, freeing, panicked>>

\* filealloc(), fdalloc(), O_TRUNC, iunlock(): ip is locked since open() or
\* create().  A process has room for one open file.
open_fd(p) ==
  LET i == ip[p]
      trunc == op[p] = "open_trunc" /\ mem[i].type = "T_FILE"
  IN
  /\ At(p, "open_fd")
  /\ file[p] = None
  /\ file' = [file EXCEPT ![p] = i]
  /\ writable' = [writable EXCEPT ![p] = op[p] # "open"]
  /\ IF trunc
     THEN /\ Update(i, [mem[i] EXCEPT !.addr = None], None)
          /\ bitmap' = bitmap \ {mem[i].addr}
     ELSE /\ lock' = [lock EXCEPT ![i] = None]
          /\ UNCHANGED <<dinode, bitmap, mem, valid>>
  /\ Return(p, <<>>)
  /\ UNCHANGED <<ent, ref, cwd, freeing, panicked>>

\* There is none, or a device's number is not one: iunlockput(ip).
open_fd_fails(p) ==
  /\ At(p, "open_fd")
  /\ file[p] # None \/ mem[ip[p]].type = "T_DEVICE"
  /\ lock' = [lock EXCEPT ![ip[p]] = None]
  /\ Return(p, <<ip[p]>>)
  /\ UNCHANGED <<disk, mem, valid, ref, fds, freeing, panicked>>

\* fileclose() of the last reference to the file.
fileclose(p) ==
  /\ At(p, "user")
  /\ file[p] # None
  /\ Put(p, <<file[p]>>)
  /\ file' = [file EXCEPT ![p] = None]
  /\ writable' = [writable EXCEPT ![p] = FALSE]
  /\ UNCHANGED <<disk, itable, cwd, pc, args, dp, ip, freeing, panicked>>

\* filewrite() to a file: bmap() allocates its block if it has none.
filewrite(p) ==
  LET i == file[p] IN
  /\ At(p, "user")
  /\ i # None /\ writable[p]
  /\ Lockable(i)
  /\ Copy(i).type = "T_FILE"
  /\ \/ /\ Copy(i).addr # None
        /\ Update(i, Copy(i), None)
        /\ UNCHANGED bitmap
     \/ /\ Copy(i).addr = None
        /\ \E b \in DataBlocks \ bitmap :
             /\ \A c \in DataBlocks \ bitmap : b <= c
             /\ Update(i, [Copy(i) EXCEPT !.addr = b], None)
             /\ bitmap' = bitmap \union {b}
  /\ UNCHANGED <<ent, ref, fds, pc, args, dp, ip, puts, freeing, panicked>>

-----------------------------------------------------------------------------
\* create(): the name is there already, ...
create(p) ==
  LET d == dp[p]
      i == ent[d][Head(rest[p])]
  IN
  /\ At(p, "create")
  /\ Lockable(d)
  /\ i # None
  /\ Look(d, None)
  /\ Iget(i)
  /\ ip' = [ip EXCEPT ![p] = i]
  /\ dp' = [dp EXCEPT ![p] = None]
  /\ rest' = [rest EXCEPT ![p] = <<>>]
  /\ Put(p, <<d>>)
  /\ Goto(p, "create_found")
  /\ UNCHANGED <<disk, fds, op, new, freeing, panicked>>

create_found(p) ==
  LET i == ip[p]
      ok == op[p] = "open_create" /\ Copy(i).type \in {"T_FILE", "T_DEVICE"}
  IN
  /\ At(p, "create_found")
  /\ Lockable(i)
  /\ Look(i, IF ok THEN p ELSE None)
  /\ IF ok THEN Goto(p, "open_fd") /\ UNCHANGED <<args, dp, ip, puts>>
           ELSE Return(p, <<i>>)
  /\ UNCHANGED <<disk, ref, fds, freeing, panicked>>

\* ... or it is not: ialloc() takes the first free inode.  dp stays locked.
TypeOf(o) ==
  CASE o = "open_create" -> "T_FILE" [] o = "mkdir" -> "T_DIR" [] o = "mknod" -> "T_DEVICE"

FreeInums == {i \in Inums : dinode[i].type = "none"}

ialloc(p) ==
  /\ At(p, "create")
  /\ Lockable(dp[p])
  /\ ent[dp[p]][Head(rest[p])] = None
  /\ Look(dp[p], p)
  /\ \E i \in FreeInums :
       /\ \A j \in FreeInums : i <= j
       /\ dinode' = [dinode EXCEPT ![i] = [Free EXCEPT !.type = TypeOf(op[p])]]
       /\ Iget(i)
       /\ ip' = [ip EXCEPT ![p] = i]
  /\ Goto(p, "create_new")
  /\ UNCHANGED <<ent, bitmap, fds, args, dp, puts, freeing, panicked>>

\* The new inode is locked, gets its link, and its name in dp; for a
\* directory dp's link count is raised for "..".
create_new(p) ==
  LET d == dp[p]
      i == ip[p]
      dir == op[p] = "mkdir"
  IN
  /\ At(p, "create_new")
  /\ Lockable(i)
  /\ Update2(i, [Copy(i) EXCEPT !.nlink = 1], p,
             d, IF dir THEN [mem[d] EXCEPT !.nlink = @ + 1] ELSE mem[d], None)
  /\ ent' = [ent EXCEPT ![d][Head(rest[p])] = i,
                        ![i][".."] = IF dir THEN d ELSE None]
  /\ Put(p, <<d>>)
  /\ dp' = [dp EXCEPT ![p] = None]
  /\ rest' = [rest EXCEPT ![p] = <<>>]
  /\ Goto(p, IF op[p] = "open_create" THEN "open_fd" ELSE "mk_done")
  /\ UNCHANGED <<bitmap, ref, fds, op, new, ip, freeing, panicked>>

\* sys_mkdir() and sys_mknod(): iunlockput(ip).
mk_done(p) ==
  /\ At(p, "mk_done")
  /\ lock' = [lock EXCEPT ![ip[p]] = None]
  /\ Return(p, <<ip[p]>>)
  /\ UNCHANGED <<disk, mem, valid, ref, fds, freeing, panicked>>

-----------------------------------------------------------------------------
\* sys_unlink(): ".." is refused, and so is a name that is not there.
unlink_refused(p) ==
  LET d == dp[p] IN
  /\ At(p, "unlink")
  /\ Lockable(d)
  /\ Head(rest[p]) = ".." \/ ent[d][Head(rest[p])] = None
  /\ Look(d, None)
  /\ Return(p, <<d>>)
  /\ UNCHANGED <<disk, ref, fds, freeing, panicked>>

unlink(p) ==
  LET d == dp[p]
      i == ent[d][Head(rest[p])]
  IN
  /\ At(p, "unlink")
  /\ Lockable(d)
  /\ Head(rest[p]) # ".." /\ i # None
  /\ Look(d, p)
  /\ Iget(i)
  /\ ip' = [ip EXCEPT ![p] = i]
  /\ Goto(p, "unlink_ip")
  /\ UNCHANGED <<disk, fds, args, dp, puts, freeing, panicked>>

isdirempty(i) == \A n \in Names : ent[i][n] = None

\* The inode is locked as well.  A directory that is not empty stays.
unlink_nonempty(p) ==
  LET i == ip[p] IN
  /\ At(p, "unlink_ip")
  /\ Lockable(i)
  /\ Copy(i).nlink > 0
  /\ Copy(i).type = "T_DIR" /\ ~isdirempty(i)
  /\ Look(i, None)
  /\ Put(p, <<i>>)
  /\ ip' = [ip EXCEPT ![p] = None]
  /\ Goto(p, "unlink_bad")
  /\ UNCHANGED <<disk, ref, fds, args, dp, freeing, panicked>>

unlink_bad(p) ==
  /\ At(p, "unlink_bad")
  /\ lock' = [lock EXCEPT ![dp[p]] = None]
  /\ Return(p, <<dp[p]>>)
  /\ UNCHANGED <<disk, mem, valid, ref, fds, freeing, panicked>>


\* The entry is erased, dp loses the link of "..", and is unlocked and put.
unlink_ip(p) ==
  LET i == ip[p]
      d == dp[p]
      dir == Copy(i).type = "T_DIR"
  IN
  /\ At(p, "unlink_ip")
  /\ Lockable(i)
  /\ Copy(i).nlink > 0
  /\ dir => isdirempty(i)
  /\ Update2(i, Copy(i), p,
             d, IF dir THEN [mem[d] EXCEPT !.nlink = @ - 1] ELSE mem[d], None)
  /\ ent' = [ent EXCEPT ![d][Head(rest[p])] = None]
  /\ Put(p, <<d>>)
  /\ dp' = [dp EXCEPT ![p] = None]
  /\ rest' = [rest EXCEPT ![p] = <<>>]
  /\ Goto(p, "unlink_dec")
  /\ UNCHANGED <<bitmap, ref, fds, op, new, ip, freeing, panicked>>

\* Mutation: iput() without iunlock().
unlink_dec_locked(p) ==
  LET i == ip[p] IN
  /\ At(p, "unlink_dec")
  /\ Update(i, [mem[i] EXCEPT !.nlink = @ - 1], p)
  /\ Return(p, <<i>>)
  /\ UNCHANGED <<ent, bitmap, ref, fds, freeing, panicked>>

\* ip loses its link.
unlink_dec(p) ==
  LET i == ip[p] IN
  /\ At(p, "unlink_dec")
  /\ Update(i, [mem[i] EXCEPT !.nlink = @ - 1], None)
  /\ Return(p, <<i>>)
  /\ UNCHANGED <<ent, bitmap, ref, fds, freeing, panicked>>

-----------------------------------------------------------------------------
\* sys_link(): a directory gets no second name; ...
link_refused(p) ==
  LET i == ip[p] IN
  /\ At(p, "link_inc")
  /\ Lockable(i)
  /\ Copy(i).type = "T_DIR"
  /\ Look(i, None)
  /\ Return(p, <<i>>)
  /\ UNCHANGED <<disk, ref, fds, freeing, panicked>>

\* ... the link is counted first, and then the other path is looked up.
link_inc(p) ==
  LET i == ip[p] IN
  /\ At(p, "link_inc")
  /\ Lockable(i)
  /\ Copy(i).type # "T_DIR"
  /\ Update(i, [Copy(i) EXCEPT !.nlink = @ + 1], None)
  /\ dp' = [dp EXCEPT ![p] = Start(p, new[p])]
  /\ Iget(Start(p, new[p]))
  /\ rest' = [rest EXCEPT ![p] = Names0(new[p])]
  /\ new' = [new EXCEPT ![p] = <<>>]
  /\ Goto(p, "walk")
  /\ UNCHANGED <<ent, bitmap, fds, op, ip, puts, freeing, panicked>>

link_dir(p) ==
  LET d == dp[p] IN
  /\ At(p, "link_dir")
  /\ Lockable(d)
  /\ ent[d][Head(rest[p])] = None
  /\ Update(d, Copy(d), None)
  /\ ent' = [ent EXCEPT ![d][Head(rest[p])] = ip[p]]
  /\ Return(p, <<d, ip[p]>>)
  /\ UNCHANGED <<bitmap, ref, fds, freeing, panicked>>

\* dirlink() finds the name, and puts the inode it got with it.
link_exists(p) ==
  LET d == dp[p]
      i == ent[d][Head(rest[p])]
  IN
  /\ At(p, "link_dir")
  /\ Lockable(d)
  /\ i # None
  /\ Look(d, p)
  /\ Iget(i)
  /\ Put(p, <<i>>)
  /\ Goto(p, "link_exists")
  /\ UNCHANGED <<disk, fds, args, dp, ip, freeing, panicked>>

link_unlock(p) ==
  /\ At(p, "link_exists")
  /\ lock' = [lock EXCEPT ![dp[p]] = None]
  /\ Put(p, <<dp[p]>>)
  /\ dp' = [dp EXCEPT ![p] = None]
  /\ rest' = [rest EXCEPT ![p] = <<>>]
  /\ Goto(p, "link_bad")
  /\ UNCHANGED <<disk, mem, valid, ref, fds, op, new, ip, freeing, panicked>>

\* The link is taken back.
link_bad(p) ==
  LET i == ip[p] IN
  /\ At(p, "link_bad")
  /\ Lockable(i)
  /\ Update(i, [Copy(i) EXCEPT !.nlink = @ - 1], None)
  /\ Return(p, <<i>>)
  /\ UNCHANGED <<ent, bitmap, ref, fds, freeing, panicked>>

-----------------------------------------------------------------------------
chdir_refused(p) ==
  /\ At(p, "chdir")
  /\ Lockable(ip[p])
  /\ Copy(ip[p]).type # "T_DIR"
  /\ Look(ip[p], None)
  /\ Return(p, <<ip[p]>>)
  /\ UNCHANGED <<disk, ref, fds, freeing, panicked>>

\* sys_chdir(): the old directory is put, and then p->cwd is assigned.
chdir(p) ==
  /\ At(p, "chdir")
  /\ Lockable(ip[p])
  /\ Copy(ip[p]).type = "T_DIR"
  /\ Look(ip[p], None)
  /\ Put(p, <<cwd[p]>>)
  /\ Goto(p, "chdir_set")
  /\ UNCHANGED <<disk, ref, fds, args, dp, ip, freeing, panicked>>

chdir_set(p) ==
  /\ At(p, "chdir_set")
  /\ cwd' = [cwd EXCEPT ![p] = ip[p]]
  /\ Return(p, <<>>)
  /\ UNCHANGED <<disk, itable, file, writable, freeing, panicked>>

-----------------------------------------------------------------------------
\* panic("ilock: no type"): the inode that the process is about to lock is
\* free on disk.
Locks(p) ==
  CASE pc[p] \in {"walk", "create", "unlink", "link_dir"} -> dp[p]
    [] pc[p] \in {"open", "create_found", "create_new", "unlink_ip", "link_inc",
                  "link_bad", "chdir"} -> ip[p]
    [] OTHER -> None

ilock_panics(p) ==
  /\ ~panicked /\ puts[p] = <<>>
  /\ pc[p] = "walk" => rest[p] # <<>>
  /\ Locks(p) # None
  /\ lock[Locks(p)] = None
  /\ ~valid[Locks(p)] /\ dinode[Locks(p)].type = "none"
  /\ panicked' = TRUE
  /\ UNCHANGED <<disk, itable, fds, pc, args, dp, ip, puts, freeing>>

\* panic("ialloc: no inodes") and panic("balloc: out of blocks")
alloc_panics(p) ==
  /\ \/ /\ At(p, "create")
        /\ Lockable(dp[p])
        /\ ent[dp[p]][Head(rest[p])] = None
        /\ FreeInums = {}
     \/ /\ At(p, "user")
        /\ file[p] # None /\ writable[p]
        /\ Lockable(file[p])
        /\ Copy(file[p]).type = "T_FILE" /\ Copy(file[p]).addr = None
        /\ bitmap = DataBlocks
  /\ panicked' = TRUE
  /\ UNCHANGED <<disk, itable, fds, pc, args, dp, ip, puts, freeing>>

panic == panicked /\ UNCHANGED vars

Next ==
  \/ \E p \in Procs :
       \/ \E c \in Calls[p] : syscall(p, c[1], c[2], c[3])
       \/ namex_end(p) \/ namex_step(p)
       \/ iput_last(p) \/ iput_trunc(p) \/ iput_unlock(p) \/ iput(p)
       \/ open(p) \/ open_refused(p) \/ open_fd(p) \/ open_fd_fails(p)
       \/ fileclose(p) \/ filewrite(p)
       \/ create(p) \/ create_found(p) \/ ialloc(p) \/ create_new(p) \/ mk_done(p)
       \/ unlink_refused(p) \/ unlink(p) \/ unlink_nonempty(p) \/ unlink_bad(p)
       \/ unlink_ip(p) \/ unlink_dec(p)
       \/ link_refused(p) \/ link_inc(p) \/ link_dir(p) \/ link_exists(p)
       \/ link_unlock(p) \/ link_bad(p)
       \/ chdir_refused(p) \/ chdir(p) \/ chdir_set(p)
       \/ ilock_panics(p) \/ alloc_panics(p)
  \/ panic

Spec == Init /\ [][Next]_vars
-----------------------------------------------------------------------------
\* A valid copy of an inode is what is on disk, whenever its lock is free: a
\* number that iput() frees while ialloc() gives it away again is read anew
\* (iput clears ip->valid before it lets go of the lock).
ValidIsCurrent ==
  \A i \in Inums : valid[i] /\ lock[i] = None => mem[i] = dinode[i]

\* ip->ref counts the pointers to the entry: current directories, open files,
\* variables of system calls and iput()s to come.  No error path of a call
\* leaks one or drops one twice.
Count(f, i) == Cardinality({p \in Procs : f[p] = i})

RefExact ==
  \A i \in Inums :
    ref[i] = Cardinality({p \in Procs : cwd[p] = i /\ pc[p] # "chdir_set"})
             + Count(file, i) + Count(dp, i) + Count(ip, i)
             + Cardinality({<<p, k>> \in Procs \X (1..2) :
                              k <= Len(puts[p]) /\ puts[p][k] = i})

\* An inode on disk has at least as many links as directory entries name it,
\* the ".." of its subdirectories included (the root has one more), at every
\* point of link, unlink and create, whoever else runs: sys_unlink's panic
\* "nlink < 1" is not reached and no named inode is freed.
Links(i) ==
  Cardinality({<<d, n>> \in Inums \X Names : ent[d][n] = i})
  + Cardinality({n \in Names : /\ ent[i][n] # None
                               /\ dinode[ent[i][n]].type = "T_DIR"})
  + (IF i = ROOTINO THEN 1 ELSE 0)

LinksCounted ==
  \A i \in Inums : Links(i) <= dinode[i].nlink

\* "iput() frees if the reference and link counts have fallen to zero"
\* (fs.c:127): an allocated inode without links is referenced.  It does not
\* hold: iput() lets go of the lock of the inode it has freed before it drops
\* its reference, and ialloc() may give the number to somebody who unlinks it
\* again in between, whose own iput() finds ref = 2.
OrphansAreHeld ==
  \A i \in Inums : dinode[i].type # "none" /\ dinode[i].nlink = 0 => ref[i] > 0

\* When iput() is about to free an inode nobody has its lock: "ip->ref == 1
\* means no other process can have ip locked, so this acquiresleep() won't
\* block (or deadlock)", which it must not, since it holds itable.lock.
PutNeverBlocks ==
  \A p \in Procs :
    puts[p] # <<>> /\ freeing[p] = "no" /\ Last(Head(puts[p]))
      => lock[Head(puts[p])] = None

\* The bitmap has exactly the blocks of the files, and no block has two
\* owners, through truncation, freeing and allocation.
BlocksOwnedOnce ==
  /\ bitmap = {dinode[i].addr : i \in Inums} \ {None}
  /\ \A i, j \in Inums : dinode[i].addr = dinode[j].addr /\ i # j => dinode[i].addr = None

=============================================================================
