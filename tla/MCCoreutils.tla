----------------------------- MODULE MCCoreutils ----------------------------
(* An instance of the coreutils programs for TLC. *)
EXTENDS Coreutils

File(kind, ents, to, up, own, rd, wr) ==
  [kind |-> kind, ents |-> ents, to |-> to, up |-> up, own |-> own, rd |-> rd, wr |-> wr]
Own(u, g) == [u |-> u, g |-> g]
Dir(up, ents) == File("dir", ents, NONE, up, Own(0, 0), TRUE, TRUE)
Reg(own) == File("reg", <<>>, NONE, NONE, own, TRUE, TRUE)
Locked == File("reg", <<>>, NONE, NONE, Own(0, 0), FALSE, FALSE)
Lnk(to) == File("lnk", <<>>, to, NONE, Own(0, 0), TRUE, TRUE)
Dev == File("chr", <<>>, NONE, NONE, Own(0, 0), TRUE, TRUE)
E(name, ino) == [name |-> name, ino |-> ino]

\* 0 is "/", 1 the working directory, 2 the directory a, 8 and 9 are spare.
Fs(files) == [i \in 0..(Len(files) - 1) |-> files[i + 1]]
Outer == Dir(0, <<E("w", 1), E("b", 7)>>)
Nested ==
  Fs(<<Outer, Dir(0, <<E("a", 2), E("b", 3), E("c", 4)>>), Dir(1, <<E("c", 5), E("b", 6)>>), Reg(Own(1, 1)),
       Dir(1, <<E("b", 3)>>), Dir(2, <<E("b", 6)>>), Reg(Own(0, 0)), Reg(Own(0, 0)), Lnk(7), Reg(Own(1, 1))>>)
Cyclic ==
  Fs(<<Outer, Dir(0, <<E("a", 2), E("b", 3), E("c", 4)>>), Dir(1, <<E("a", 5), E("b", 6)>>), Locked,
       Dir(1, <<>>), Dir(2, <<>>), Reg(Own(0, 0)), Reg(Own(0, 0)), Dir(1, <<E("b", 3)>>), Dev>>)
Linked ==   \* the operand c is "/"
  Fs(<<Outer, Dir(0, <<E("a", 2), E("b", 3), E("c", 0)>>), Lnk(5), Lnk(NONE), Dev, Dir(1, <<E("b", 6)>>),
       Reg(Own(0, 0)), Reg(Own(0, 0)), Dev, Dir(1, <<>>)>>)
Crossing ==
  [Cyclic EXCEPT ![2].ents = <<E("c", 5)>>, ![4].ents = <<E("a", 3), E("c", 3)>>]
MCFileSystems == {Nested, Cyclic, Linked, Crossing}
\* Those in which every directory is found in one place, where ".." leads.
MCHierarchies == {Nested, Cyclic, Crossing}
MCOperands ==
  [rm |-> {<<>>, <<"b", "z", "a">>}, chown |-> {<<>>, <<"a", "b">>, <<"c">>}, chgrp |-> {<<"z", "a">>}]

Spec(user, sep, group, whole) == [user |-> user, sep |-> sep, group |-> group, whole |-> whole]
MCSpecs ==
  {Spec("name", "none", "none", FALSE), Spec("name", "dot", "name", TRUE), Spec("number", "dot", "number", FALSE),
   Spec("none", "colon", "minus", FALSE),
   Spec("unknown", "none", "unknown", FALSE)}

-----------------------------------------------------------------------------
OwnDir(mode) == [kind |-> "dir", mode |-> mode, by |-> "before"]
OwnReg == [kind |-> "reg", mode |-> S_IRWXUGO, by |-> "before"]
Tree(s, home, rest) == [x \in {Slash, Home} \cup DOMAIN rest |-> IF x = Slash THEN OwnDir(s) ELSE IF x = Home THEN OwnDir(home) ELSE rest[x]]
HomeD == <<"w", "d">>
MCTrees ==
  {Tree(S_IRWXUGO, S_IRWXUGO, [x \in {HomeD} |-> OwnDir(S_IRWXUGO)]),
   Tree(S_IRWXUGO, S_IRWXUGO \ {"ur"}, [x \in {HomeD} |-> OwnDir(S_IRWXUGO)]),
   Tree(S_IRUGO \cup S_IXUGO, S_IRWXUGO, [x \in {HomeD, <<"w", "f">>} |-> IF x = HomeD THEN OwnDir(S_IRUGO \cup S_IXUGO) ELSE OwnReg])}
R(names) == [abs |-> FALSE, names |-> names]
A(names) == [abs |-> TRUE, names |-> names]
Octal(bits) == [kind |-> "octal", bits |-> bits]
Text(text, before) == [kind |-> "text", text |-> text, before |-> before]
Apart == <<"m", "nul">>
Modes == {Octal(S_IRWXUGO \cup {"t"}), Octal({"ur", "uw", "ux", "gr", "gw", "us"}), Octal({"ur", "uw", "ux"}), Octal({"t", "uw"}),
          Text(<<"=", "r">>, Apart), Text(<<"+", "x">>, Apart), Text(<<"-", "w">>, Apart), Text(<<"u", "+", "x">>, Apart),
          Text(<<"=", "r">>, <<"-", "m">>), Text(<<"+", "x">>, <<"e", "=">>), [kind |-> "bad"]}
Umasks == {{"gw", "ow"}, {"ur", "gr", "gw", "gx", "or", "ow", "ox"}}
Command(prog, parents, ignore, mode, umask, ops, type, numbers, valid) ==
  [prog |-> prog, parents |-> parents, ignore |-> ignore, mode |-> mode, umask |-> umask, ops |-> ops, type |-> type,
   numbers |-> numbers, valid |-> valid, set |-> Unset]
MkdirOps == {<<R(<<"a", "b">>), R(<<"a", "c">>)>>, <<R(<<"d", "x">>), A(<<"w", "a", "y">>), R(<<"e">>)>>,
             <<R(<<"a", "..", "b">>), R(<<".", "d">>), A(<<"z">>), R(<<"c">>)>>, <<R(<<"a">>)>>, <<A(<<"w", "f", "x">>)>>}
RmdirOps == {<<>>, <<A(<<"w">>), R(<<"d">>)>>, <<R(<<"d">>), R(<<"a", "b">>)>>, <<R(<<"d">>), A(<<"w">>)>>, <<R(<<"f">>)>>}
MCLines ==
  {Command("mkdir", parents, FALSE, m, u, ops, "none", 0, TRUE) :
      parents \in BOOLEAN, m \in Modes \cup {NoMode}, u \in Umasks, ops \in MkdirOps}
  \cup {Command("rmdir", parents, ignore, NoMode, {}, ops, "none", 0, TRUE) : parents \in BOOLEAN, ignore \in BOOLEAN, ops \in RmdirOps}
  \cup {Command("mkfifo", FALSE, FALSE, m, u, <<R(<<"a">>), R(<<"d">>)>>, "none", 0, TRUE) : m \in Modes \cup {NoMode}, u \in Umasks}
  \cup {Command("mknod", FALSE, FALSE, m, {"gw"}, <<R(<<"a">>)>>, type, numbers, v) :
          m \in {NoMode, Octal({"ur"})}, type \in {"none", "p", "b", "q"}, numbers \in {0, 2}, v \in BOOLEAN}
MCOtherPaths == {<<"w", "a">>, <<"w", "a", "b">>}
=============================================================================
