------------------------------ MODULE ShParse -------------------------------
(***************************************************************************)
(* The parser of the shell (user/sh.c): gettoken, peek, the recursive      *)
(* descent of parseline, parsepipe, parseexec, parseblock and parseredirs, *)
(* and nulterminate, as operators on a line, which is a sequence of        *)
(* characters.                                                             *)
(*                                                                         *)
(* A position i stands for the pointer to line[i]; Len(line) + 1 is es,    *)
(* where the terminating NUL is.  A parse is a record of the command and   *)
(* the position reached; position 0 is a panic(), which ends the process.  *)
(***************************************************************************)
EXTENDS Naturals, Sequences, FiniteSets

CONSTANT MAXARGS

Whitespace == {" "}
Symbols == {"<", "|", ">", "&", ";", "(", ")"}
NUL == "NUL"

Char(line, s) == IF s <= Len(line) THEN line[s] ELSE NUL

\* The first position from s on whose character is not in cs.
Past(line, s, cs) ==
  CHOOSE q \in s..Len(line) + 1 :
    Char(line, q) \notin cs /\ \A r \in s..q - 1 : Char(line, r) \in cs

Skip(line, s) == Past(line, s, Whitespace)
WordEnd(line, s) == Past(line, s, {line[i] : i \in DOMAIN line} \ (Whitespace \union Symbols))

\* The token at s: its kind ("a" is a word, "+" is >>), where it starts and
\* ends, and the position after the whitespace behind it.
Kind(line, q) ==
  IF Char(line, q) \notin Symbols \union {NUL} THEN "a"
  ELSE IF Char(line, q) = ">" /\ Char(line, q + 1) = ">" THEN "+" ELSE Char(line, q)

Width == [t \in Symbols \union {"+", NUL} |-> IF t = "+" THEN 2 ELSE IF t = NUL THEN 0 ELSE 1]

Token(line, tok, q, eq) == [tok |-> tok, q |-> q, eq |-> eq, s |-> Skip(line, eq)]
TokenAt(line, tok, q) ==
  Token(line, tok, q, IF tok = "a" THEN WordEnd(line, q) ELSE q + Width[tok])
gettoken(line, s) == TokenAt(line, Kind(line, Skip(line, s)), Skip(line, s))

peek(line, s, toks) == Char(line, Skip(line, s)) \in toks

-----------------------------------------------------------------------------
\* The constructors; a word is the pair of pointers to its ends.
execcmd(argv) == [type |-> "EXEC", argv |-> argv]
redircmd(cmd, file, mode, fd) ==
  [type |-> "REDIR", cmd |-> cmd, file |-> file, mode |-> mode, fd |-> fd]
pipecmd(left, right) == [type |-> "PIPE", left |-> left, right |-> right]
listcmd(left, right) == [type |-> "LIST", left |-> left, right |-> right]
backcmd(cmd) == [type |-> "BACK", cmd |-> cmd]

At(cmd, s) == [cmd |-> cmd, s |-> s]
Panic == At(execcmd(<<>>), 0)

Redirection == [t \in {"<", ">", "+"} |->
  CASE t = "<" -> [mode |-> "r", fd |-> 0]
    [] t = ">" -> [mode |-> "trunc", fd |-> 1]
    [] t = "+" -> [mode |-> "w", fd |-> 1]]

RedirOf(r, cmd, f) == redircmd(cmd, <<f.q, f.eq>>, r.mode, r.fd)

RECURSIVE parseredirs(_, _, _), Redirected(_, _, _, _)
Redirected(line, cmd, tok, f) ==
  IF f.tok # "a" THEN Panic
  ELSE parseredirs(line, RedirOf(Redirection[tok], cmd, f), f.s)

parseredirs(line, cmd, s) ==
  IF ~peek(line, s, {"<", ">"}) THEN At(cmd, Skip(line, s))
  ELSE Redirected(line, cmd, gettoken(line, s).tok, gettoken(line, gettoken(line, s).s))

\* parseexec() links its execcmd into the tree first and fills argv[] while
\* it goes; here argv is put into the innermost command at the end.
RECURSIVE Fill(_, _)
Fill(cmd, argv) ==
  IF cmd.type = "REDIR" THEN [cmd EXCEPT !.cmd = Fill(@, argv)] ELSE execcmd(argv)

\* Its loop: ret is the command so far and the position after it, t the next
\* token.
RECURSIVE parseargs(_, _, _, _)
parseargs(line, ret, argv, t) ==
  IF ret.s = 0 THEN Panic
  ELSE IF peek(line, ret.s, {"|", ")", "&", ";", NUL}) THEN At(Fill(ret.cmd, argv), t.q)
  ELSE IF t.tok # "a" \/ Len(argv) + 1 >= MAXARGS THEN Panic
  ELSE LET more == parseredirs(line, ret.cmd, t.s)
       IN parseargs(line, more, Append(argv, <<t.q, t.eq>>), gettoken(line, more.s))

\* The functions that call one another find each other in P: P["line", s] is
\* parseline() called at s; l, r and b are what such a call has returned.
Args(line, ret) == parseargs(line, ret, <<>>, gettoken(line, ret.s))
parseexec(P, line, s) ==
  IF peek(line, s, {"("}) THEN P["block", s]
  ELSE Args(line, parseredirs(line, execcmd(<<>>), s))

Join(type, l, r) ==
  IF r.s = 0 THEN Panic
  ELSE At(IF type = "PIPE" THEN pipecmd(l.cmd, r.cmd) ELSE listcmd(l.cmd, r.cmd), r.s)

Piped(P, line, l) ==
  IF l.s = 0 \/ ~peek(line, l.s, {"|"}) THEN l
  ELSE Join("PIPE", l, P["pipe", gettoken(line, l.s).s])
parsepipe(P, line, s) == Piped(P, line, P["exec", s])

RECURSIVE parseback(_, _)
parseback(line, l) ==
  IF l.s = 0 \/ ~peek(line, l.s, {"&"}) THEN l
  ELSE parseback(line, At(backcmd(l.cmd), gettoken(line, l.s).s))

Listed(P, line, l) ==
  IF l.s = 0 \/ ~peek(line, l.s, {";"}) THEN l
  ELSE Join("LIST", l, P["line", gettoken(line, l.s).s])
parseline(P, line, s) == Listed(P, line, parseback(line, P["pipe", s]))

Blocked(line, b) ==
  IF b.s = 0 \/ ~peek(line, b.s, {")"}) THEN Panic
  ELSE parseredirs(line, b.cmd, gettoken(line, b.s).s)
parseblock(P, line, s) == Blocked(line, P["line", gettoken(line, s).s])

Parse(line) ==
  LET P[f \in {"line", "pipe", "exec", "block"}, s \in 1..Len(line) + 1] ==
        CASE f = "line" -> parseline(P, line, s)
          [] f = "pipe" -> parsepipe(P, line, s)
          [] f = "exec" -> parseexec(P, line, s)
          [] f = "block" -> parseblock(P, line, s)
  IN P["line", 1]

-----------------------------------------------------------------------------
\* nulterminate(): the positions at which it stores a NUL.
RECURSIVE nulterminate(_)
nulterminate_words(cmd) ==
  CASE cmd.type = "EXEC" -> {cmd.argv[i][2] : i \in DOMAIN cmd.argv}
    [] cmd.type \in {"REDIR", "BACK"} -> nulterminate(cmd.cmd)
    [] cmd.type \in {"PIPE", "LIST"} -> nulterminate(cmd.left) \union nulterminate(cmd.right)

nulterminate(cmd) ==
  CASE cmd.type = "EXEC" -> {cmd.argv[i][2] : i \in DOMAIN cmd.argv}
    [] cmd.type = "REDIR" -> nulterminate(cmd.cmd) \union {cmd.file[2]}
    [] cmd.type \in {"PIPE", "LIST"} -> nulterminate(cmd.left) \union nulterminate(cmd.right)
    [] cmd.type = "BACK" -> nulterminate(cmd.cmd)

\* The C string that starts at s once those NULs are there.
RECURSIVE CString(_, _, _)
CString(line, nuls, s) ==
  IF s > Len(line) \/ s \in nuls THEN <<>>
  ELSE <<line[s]>> \o CString(line, nuls, s + 1)

\* parsecmd(): the command with its words as strings, or a panic (s = 0).
RECURSIVE Strings(_, _, _)
Strings(line, nuls, cmd) ==
  CASE cmd.type = "EXEC" ->
         [cmd EXCEPT !.argv = [i \in DOMAIN @ |-> CString(line, nuls, @[i][1])]]
    [] cmd.type = "REDIR" ->
         [cmd EXCEPT !.file = CString(line, nuls, @[1]), !.cmd = Strings(line, nuls, @)]
    [] cmd.type \in {"PIPE", "LIST"} ->
         [cmd EXCEPT !.left = Strings(line, nuls, @), !.right = Strings(line, nuls, @)]
    [] cmd.type = "BACK" -> [cmd EXCEPT !.cmd = Strings(line, nuls, @)]

Terminated(line, c) ==
  IF c.s # Len(line) + 1 THEN Panic
  ELSE At(Strings(line, nulterminate(c.cmd), c.cmd), c.s)
parsecmd(line) == Terminated(line, Parse(line))

-----------------------------------------------------------------------------
\* The language, without recursive descent: the tokens of a line, found
\* character by character, and an automaton with a depth that accepts them.
\* A word is a token <<"a", c1, ..., cn>>.
RECURSIVE Tokens(_)
Tokens(line) ==
  IF line = <<>> THEN <<>>
  ELSE LET n == Len(line)
           c == line[n]
           ts == Tokens(SubSeq(line, 1, n - 1))
           last == Len(ts)
           joins == IF n = 1 THEN {} ELSE {line[n - 1]}
       IN CASE c \in Whitespace -> ts
            [] c = ">" /\ joins = {">"} /\ ts[last] = <<">">> -> [ts EXCEPT ![last] = <<"+">>]
            [] c \in Symbols /\ ~(c = ">" /\ joins = {">"} /\ ts[last] = <<">">>) ->
                 Append(ts, <<c>>)
            [] c \notin Symbols \union Whitespace ->
                 IF joins # {} /\ joins \cap (Symbols \union Whitespace) = {}
                 THEN [ts EXCEPT ![last] = Append(@, c)] ELSE Append(ts, <<"a", c>>)

Redirs == {"<", ">", "+"}

\* States: at the start of a command; in one, with some words; after the
\* parenthesis that ends one; after an &; or waiting for a file name.
Consume(st, t) ==
  LET to(q) == [q |-> q, depth |-> st.depth, args |-> 0]
      reject == [q |-> "no", depth |-> 0, args |-> 0]
      closes == IF st.depth = 0 THEN reject ELSE [to("block") EXCEPT !.depth = @ - 1]
  IN CASE st.q \in {"start", "words"} /\ t = "a" ->
            IF st.args + 1 < MAXARGS THEN [to("words") EXCEPT !.args = st.args + 1] ELSE reject
       [] st.q = "start" /\ t = "(" -> [to("start") EXCEPT !.depth = @ + 1]
       [] st.q \in {"start", "words"} /\ t \in Redirs -> [st EXCEPT !.q = "file"]
       [] st.q = "block" /\ t \in Redirs -> to("blockfile")
       [] st.q = "file" /\ t = "a" -> [st EXCEPT !.q = "words"]
       [] st.q = "blockfile" /\ t = "a" -> to("block")
       [] st.q \in {"start", "words", "block"} /\ t = "|" -> to("start")
       [] st.q \in {"start", "words", "block", "back"} /\ t = "&" -> to("back")
       [] st.q \in {"start", "words", "block", "back"} /\ t = ";" -> to("start")
       [] st.q \in {"start", "words", "block", "back"} /\ t = ")" -> closes
       [] OTHER -> reject

RECURSIVE RunOn(_, _)
RunOn(st, ts) == IF ts = <<>> THEN st ELSE RunOn(Consume(st, Head(ts)[1]), Tail(ts))

Accepted(ts) ==
  LET st == RunOn([q |-> "start", depth |-> 0, args |-> 0], ts)
  IN st.q \in {"start", "words", "block", "back"} /\ st.depth = 0

\* A command read back from left to right: its words and operators, and its
\* redirections; and the same of a line, its parentheses left out.
RECURSIVE Flat(_)
Flat(cmd) ==
  CASE cmd.type = "EXEC" -> [i \in DOMAIN cmd.argv |-> <<"a">> \o cmd.argv[i]]
    [] cmd.type = "REDIR" -> Flat(cmd.cmd)
    [] cmd.type = "PIPE" -> Flat(cmd.left) \o <<<<"|">>>> \o Flat(cmd.right)
    [] cmd.type = "LIST" -> Flat(cmd.left) \o <<<<";">>>> \o Flat(cmd.right)
    [] cmd.type = "BACK" -> Append(Flat(cmd.cmd), <<"&">>)

RECURSIVE FlatRedirs(_)
FlatRedirs(cmd) ==
  CASE cmd.type = "EXEC" -> <<>>
    [] cmd.type = "REDIR" -> Append(FlatRedirs(cmd.cmd), <<cmd.mode, <<"a">> \o cmd.file>>)
    [] cmd.type \in {"PIPE", "LIST"} -> FlatRedirs(cmd.left) \o FlatRedirs(cmd.right)
    [] cmd.type = "BACK" -> FlatRedirs(cmd.cmd)

TextRedirs(ts) ==
  LET at == SelectSeq([i \in DOMAIN ts |-> i], LAMBDA i : ts[i][1] \in Redirs)
  IN [k \in DOMAIN at |-> <<Redirection[ts[at[k]][1]].mode, ts[at[k] + 1]>>]

TextFlat(ts) ==
  LET kept(i) == /\ ts[i][1] \notin Redirs \union {"(", ")"}
                 /\ i = 1 \/ ts[i - 1][1] \notin Redirs
      at == SelectSeq([i \in DOMAIN ts |-> i], kept)
  IN [k \in DOMAIN at |-> ts[at[k]]]

\* | binds tighter than &, and & tighter than ;.
RECURSIVE Types(_)
Types(cmd) ==
  {cmd.type} \union
    CASE cmd.type = "EXEC" -> {}
      [] cmd.type \in {"REDIR", "BACK"} -> Types(cmd.cmd)
      [] cmd.type \in {"PIPE", "LIST"} -> Types(cmd.left) \union Types(cmd.right)

RECURSIVE Binds(_)
Binds(cmd) ==
  CASE cmd.type = "EXEC" -> TRUE
    [] cmd.type = "REDIR" -> Types(cmd.cmd) \subseteq {"REDIR", "EXEC"}
    [] cmd.type = "PIPE" -> Types(cmd) \cap {"LIST", "BACK"} = {}
    [] cmd.type = "BACK" -> "LIST" \notin Types(cmd)
    [] cmd.type = "LIST" -> "LIST" \notin Types(cmd.left) /\ Binds(cmd.left) /\ Binds(cmd.right)

\* For one line: parsecmd() panics exactly if the line is not in the
\* language; otherwise the command, its strings terminated by NULs stored
\* into the line itself, has the words, operators and redirections of the
\* line, all of them, in order, with the operators' precedence.
Agrees(ts, c) ==
  /\ Accepted(ts) <=> c.s # 0
  /\ c.s # 0 =>
       /\ Flat(c.cmd) = TextFlat(ts)
       /\ FlatRedirs(c.cmd) = TextRedirs(ts)
       /\ "(" \notin {ts[i][1] : i \in DOMAIN ts} => Binds(c.cmd)
ParsesRight(line) == Agrees(Tokens(line), parsecmd(line))
=============================================================================
