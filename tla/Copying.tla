------------------------------ MODULE Copying -------------------------------
(***************************************************************************)
(* Copying bytes: copyout, copyin and copyinstr (kernel/vm.c) between the  *)
(* kernel and user addresses, page by page, and memmove and safestrcpy     *)
(* (kernel/string.c, user/ulib.c).                                         *)
(*                                                                         *)
(* A page table gives each virtual page [v, u, pa]: whether it is valid,   *)
(* whether the user may use it, and the physical page.  mem gives the      *)
(* bytes of each physical page.                                            *)
(***************************************************************************)
EXTENDS Integers, Sequences

CONSTANTS PGSIZE, MAXVA

LOCAL Min2(x, y) == IF x < y THEN x ELSE y
Byte0 == 0    \* '\0'

\* Mutation: pages of the kernel are given out, too.
walkaddr_any(pt, va) ==
  IF va >= MAXVA \/ ~pt[va \div PGSIZE].v THEN 0 ELSE pt[va \div PGSIZE].pa

walkaddr(pt, va) ==
  IF va >= MAXVA \/ ~pt[va \div PGSIZE].v \/ ~pt[va \div PGSIZE].u THEN 0
  ELSE pt[va \div PGSIZE].pa

PGROUNDDOWN(va) == va - (va % PGSIZE)

\* How much of len bytes at va is on va's page.
Piece(va, len) == Min2(len, PGSIZE - (va % PGSIZE))

\* The loops: src is what is left to copy out, dst what has been copied in;
\* ret is 0 or -1.
RECURSIVE copyout(_, _, _, _)
OutPiece(pt, mem, va, src, pa0, n) ==
  IF pa0 = 0 THEN [mem |-> mem, ret |-> -1]
  ELSE copyout(pt, [mem EXCEPT ![pa0] = [i \in 0..PGSIZE-1 |->
                      IF i - (va % PGSIZE) \in 0..n-1 THEN src[i - (va % PGSIZE) + 1] ELSE @[i]]],
               PGROUNDDOWN(va) + PGSIZE, SubSeq(src, n + 1, Len(src)))
copyout(pt, mem, va, src) ==
  IF src = <<>> THEN [mem |-> mem, ret |-> 0]
  ELSE OutPiece(pt, mem, va, src, walkaddr(pt, PGROUNDDOWN(va)), Piece(va, Len(src)))

RECURSIVE copyin(_, _, _, _, _)
InPiece(pt, mem, dst, va, len, pa0, n) ==
  IF pa0 = 0 THEN [dst |-> dst, ret |-> -1]
  ELSE copyin(pt, mem, dst \o [i \in 1..n |-> mem[pa0][(va % PGSIZE) + i - 1]],
              PGROUNDDOWN(va) + PGSIZE, len - n)
copyin(pt, mem, dst, va, len) ==
  IF len <= 0 THEN [dst |-> dst, ret |-> 0]
  ELSE InPiece(pt, mem, dst, va, len, walkaddr(pt, PGROUNDDOWN(va)), Piece(va, len))

\* copyinstr(); its inner loop takes bytes until n are taken or one is '\0'.
RECURSIVE copyinstr(_, _, _, _, _)
StrPiece(pt, mem, dst, va, max, bytes) ==
  IF \E i \in DOMAIN bytes : bytes[i] = Byte0
  THEN [dst |-> dst \o SubSeq(bytes, 1, CHOOSE i \in DOMAIN bytes :
                   bytes[i] = Byte0 /\ \A j \in 1..i-1 : bytes[j] # Byte0), ret |-> 0]
  ELSE copyinstr(pt, mem, dst \o bytes, PGROUNDDOWN(va) + PGSIZE, max - Len(bytes))
StrPage(pt, mem, dst, va, max, pa0) ==
  IF pa0 = 0 THEN [dst |-> dst, ret |-> -1]
  ELSE StrPiece(pt, mem, dst, va, max,
                [i \in 1..Piece(va, max) |-> mem[pa0][(va % PGSIZE) + i - 1]])
copyinstr(pt, mem, dst, va, max) ==
  IF max <= 0 THEN [dst |-> dst, ret |-> -1]
  ELSE StrPage(pt, mem, dst, va, max, walkaddr(pt, PGROUNDDOWN(va)))

-----------------------------------------------------------------------------
\* The two directions of memmove() in a memory m, a byte at a time.
RECURSIVE Upward(_, _, _, _)
Upward(m, d, s, n) == IF n = 0 THEN m ELSE Upward([m EXCEPT ![d] = m[s]], d + 1, s + 1, n - 1)
RECURSIVE Downward(_, _, _, _)
Downward(m, d, s, n) ==
  IF n = 0 THEN m ELSE Downward([m EXCEPT ![d + n - 1] = m[s + n - 1]], d, s, n - 1)

memmove(m, d, s, n) == IF s < d /\ s + n > d THEN Downward(m, d, s, n) ELSE Upward(m, d, s, n)
ulib_memmove(m, d, s, n) == IF s > d THEN Upward(m, d, s, n) ELSE Downward(m, d, s, n)

\* safestrcpy(s, t, n) in arrays, from position i on.
RECURSIVE safestrcpy(_, _, _, _)
safestrcpy(s, t, i, n) ==
  IF n <= 0 THEN s
  ELSE IF n = 1 THEN [s EXCEPT ![i] = Byte0]
  ELSE IF t[i] # Byte0 THEN safestrcpy([s EXCEPT ![i] = t[i]], t, i + 1, n - 1)
  ELSE [s EXCEPT ![i] = Byte0, ![i + 1] = Byte0]

-----------------------------------------------------------------------------
\* For one page table, one memory and len bytes at va: a copy fails exactly
\* if one of its bytes is not the user's; it copies the right bytes, all
\* that there are before the first such page, and no others change.
\* copyinstr() looks at no byte behind the '\0', and fails without one.
UserByte(pt, va) == va < MAXVA /\ pt[va \div PGSIZE].v /\ pt[va \div PGSIZE].u
CopyRight(pt, mem, va, len) ==
  LET bytes == [i \in 1..len |-> IF UserByte(pt, va + i - 1)
                                 THEN mem[pt[(va + i - 1) \div PGSIZE].pa][(va + i - 1) % PGSIZE] ELSE -1]
      good == IF -1 \in {bytes[i] : i \in 1..len}
              THEN (CHOOSE i \in 1..len : bytes[i] = -1 /\ \A j \in 1..i-1 : bytes[j] # -1) - 1
              ELSE len
      nul == {i \in 1..good : bytes[i] = Byte0}
      src == [i \in 1..len |-> 10 + i]
      in == copyin(pt, mem, <<>>, va, len)
      out == copyout(pt, mem, va, src)
      str == copyinstr(pt, mem, <<>>, va, len)
      at(i) == <<pt[(va + i - 1) \div PGSIZE].pa, (va + i - 1) % PGSIZE>>
  IN /\ in = [dst |-> SubSeq(bytes, 1, good), ret |-> IF good = len THEN 0 ELSE -1]
     /\ out.ret = in.ret
     /\ \A p \in DOMAIN mem, b \in 0..PGSIZE-1 :
          out.mem[p][b] = IF \E i \in 1..good : at(i) = <<p, b>>
                          THEN src[CHOOSE i \in 1..good : at(i) = <<p, b>>] ELSE mem[p][b]
     /\ str.ret = IF nul = {} THEN -1 ELSE 0
     /\ str.dst = SubSeq(bytes, 1, IF nul = {} THEN good
                                   ELSE CHOOSE i \in nul : \A j \in nul : i <= j)

\* Both memmove()s give the destination what the source held, also when they
\* overlap, and change nothing else.
MoveRight(m, d, s, n) ==
  LET moved == [a \in DOMAIN m |-> IF a - d \in 0..n-1 THEN m[s + a - d] ELSE m[a]]
  IN memmove(m, d, s, n) = moved /\ ulib_memmove(m, d, s, n) = moved

\* safestrcpy() leaves a string that ends within n bytes, a prefix of t, as
\* long as fits, and writes nothing behind the n bytes.
StrcpyRight(t, n) ==
  LET s == [i \in 1..n + 1 |-> 7]
      r == safestrcpy(s, t, 1, n)
      len == Min2(n - 1, (CHOOSE i \in DOMAIN t : t[i] = Byte0 /\ \A j \in 1..i-1 : t[j] # Byte0) - 1)
  IN n >= 1 => SubSeq(r, 1, len + 1) = Append(SubSeq(t, 1, len), Byte0) /\ r[n + 1] = 7
=============================================================================
