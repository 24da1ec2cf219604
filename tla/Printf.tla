------------------------------- MODULE Printf -------------------------------
(***************************************************************************)
(* Formatted output: printf of the kernel (kernel/printf.c) and vprintf of *)
(* the user library (user/printf.c).  Output and formats are sequences of  *)
(* characters, a digit being a number; an argument is a number, or a       *)
(* sequence of characters (Null is the null pointer).                      *)
(*                                                                         *)
(* An int has BITS bits, and so has a pointer, for which the code has 64.  *)
(***************************************************************************)
EXTENDS Integers, Sequences

CONSTANT BITS

Null == <<"null pointer">>
NullText == <<"(", "n", "u", "l", "l", ")">>
Uint(x) == x % 2^BITS

\* The do-while loop, least digit first, and the loop that reverses it.
RECURSIVE Digits(_, _)
Digits(x, base) == (IF x \div base = 0 THEN <<>> ELSE Digits(x \div base, base)) \o <<x % base>>

Signed(xx, base) == IF xx < 0 THEN <<"-">> \o Digits(Uint(-xx), base) ELSE Digits(Uint(xx), base)

printint(xx, base, sign) == IF sign THEN Signed(xx, base) ELSE Digits(Uint(xx), base)

printptr(x) ==
  <<0, "x">> \o [i \in 1..BITS \div 4 |-> Uint(x * 16^(i - 1)) \div 2^(BITS - 4)]

String(s) == IF s = Null THEN NullText ELSE s

\* One directive %c: what it prints of the next argument, if it takes one.
KernelTakes == {"d", "x", "p", "s"}
KernelPrints(c, args) ==
  CASE c = "d" -> printint(Head(args), 10, TRUE)
    [] c = "x" -> printint(Head(args), 16, TRUE)
    [] c = "p" -> printptr(Head(args))
    [] c = "s" -> String(Head(args))
    [] c = "%" -> <<"%">>
    [] OTHER -> <<"%", c>>

UserTakes == {"d", "l", "x", "p", "s", "c"}
UserPrints(c, args) ==
  CASE c = "d" -> printint(Head(args), 10, TRUE)
    [] c = "l" -> printint(Head(args), 10, FALSE)
    [] c = "x" -> printint(Head(args), 16, FALSE)
    [] c = "p" -> printptr(Head(args))
    [] c = "s" -> String(Head(args))
    [] c = "c" -> <<Head(args)>>
    [] c = "%" -> <<"%">>
    [] OTHER -> <<"%", c>>

Left(takes, c, args) == IF c \in takes THEN Tail(args) ELSE args

\* The kernel's loop looks at the character behind a % at once; a format
\* that ends there is done.
RECURSIVE printf(_, _, _)
printf(fmt, i, args) ==
  IF i > Len(fmt) THEN <<>>
  ELSE IF fmt[i] # "%" THEN <<fmt[i]>> \o printf(fmt, i + 1, args)
  ELSE IF i + 1 > Len(fmt) THEN <<>>
  ELSE KernelPrints(fmt[i + 1], args) \o printf(fmt, i + 2, Left(KernelTakes, fmt[i + 1], args))

\* The user's loop goes on with a state.
RECURSIVE vprintf(_, _, _, _)
vprintf(fmt, i, args, state) ==
  IF i > Len(fmt) THEN <<>>
  ELSE IF state = "0" /\ fmt[i] = "%" THEN vprintf(fmt, i + 1, args, "%")
  ELSE IF state = "0" THEN <<fmt[i]>> \o vprintf(fmt, i + 1, args, "0")
  ELSE UserPrints(fmt[i], args) \o vprintf(fmt, i + 1, Left(UserTakes, fmt[i], args), "0")

-----------------------------------------------------------------------------
\* What the digits of a base stand for.
RECURSIVE Value(_, _)
Value(ds, base) ==
  IF ds = <<>> THEN 0 ELSE base * Value(SubSeq(ds, 1, Len(ds) - 1), base) + ds[Len(ds)]

\* The shortest digits that stand for the number, behind a sign if it is
\* printed as signed and negative: the most negative one, too.
IntRight(xx, base, sign) ==
  LET out == printint(xx, base, sign)
      neg == sign /\ xx < 0
      ds == IF neg THEN Tail(out) ELSE out
  IN /\ neg => out[1] = "-"
     /\ \A i \in DOMAIN ds : ds[i] \in 0..base - 1
     /\ Value(ds, base) = IF neg THEN -xx ELSE Uint(xx)
     /\ Len(ds) > 1 => ds[1] # 0

PtrRight(x) == Len(printptr(x)) = 2 + BITS \div 4 /\ Value(SubSeq(printptr(x), 3, Len(printptr(x))), 16) = x

\* Reference: a format cut into pieces, a % and the character behind it, or
\* one other character.
RECURSIVE Pieces(_)
Pieces(fmt) ==
  IF fmt = <<>> THEN <<>>
  ELSE LET n == IF fmt[1] = "%" /\ Len(fmt) > 1 THEN 2 ELSE 1
       IN <<SubSeq(fmt, 1, n)>> \o Pieces(SubSeq(fmt, n + 1, Len(fmt)))

\* The arguments for a format: arg[c] for each %c, in order.
RECURSIVE ArgsFor(_, _)
ArgsFor(pieces, arg) ==
  IF pieces = <<>> THEN <<>>
  ELSE (IF Len(Head(pieces)) = 2 /\ Head(pieces)[2] \in DOMAIN arg
        THEN <<arg[Head(pieces)[2]]>> ELSE <<>>) \o ArgsFor(Tail(pieces), arg)

RECURSIVE Rendered(_, _)
Rendered(pieces, text) ==
  IF pieces = <<>> THEN <<>>
  ELSE (IF Len(Head(pieces)) = 1 THEN IF Head(pieces) = <<"%">> THEN <<>> ELSE Head(pieces)
        ELSE IF Head(pieces)[2] \in DOMAIN text THEN text[Head(pieces)[2]] ELSE Head(pieces))
       \o Rendered(Tail(pieces), text)

\* For a format and one value per kind of directive: both print every
\* argument once, where its directive is, and the rest as it stands.
FormatRight(fmt, n, s, x) ==
  LET pieces == Pieces(fmt)
      arg == [c \in KernelTakes |-> CASE c = "p" -> x [] c = "s" -> s [] OTHER -> n]
      text(hexsigned) == [c \in KernelTakes \union {"%"} |->
                            CASE c = "d" -> printint(n, 10, TRUE) [] c = "x" -> printint(n, 16, hexsigned)
                              [] c = "p" -> printptr(x) [] c = "s" -> String(s) [] c = "%" -> <<"%">>]
  IN /\ printf(fmt, 1, ArgsFor(pieces, arg)) = Rendered(pieces, text(TRUE))
     /\ vprintf(fmt, 1, ArgsFor(pieces, arg), "0") = Rendered(pieces, text(FALSE))
=============================================================================
