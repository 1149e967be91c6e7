------------------------------ MODULE MCMagic -------------------------------
(* Magic files and buffers for SoftMagic. Lines have numbers of their own.  *)
EXTENDS SoftMagic

Test(no, level, word) ==
  [kind |-> "entry", lineno |-> no, level |-> level, amp |-> FALSE, paren |-> FALSE,
   inneramp |-> FALSE, offset |-> 0, in_type |-> "long",
   in_op |-> [op |-> "+", inverse |-> FALSE, indirect |-> FALSE], in_offset |-> 0,
   cond |-> "none", unsigned |-> FALSE, word |-> word, suffix |-> "none", inverse |-> FALSE,
   op |-> "", mask |-> 0, mods |-> {}, range |-> 0, reln |-> "=", text |-> <<>>, num |-> 0,
   nospace |-> FALSE, desc |-> "d", fmt |-> "none"]
Bang(key, arg, op, factor) == [kind |-> "bang", key |-> key, arg |-> arg, op |-> op, factor |-> factor]
Raw(s) == [i \in DOMAIN s |-> [c |-> s[i], esc |-> FALSE]]
Str(no, level, word, s) == [Test(no, level, word) EXCEPT !.text = Raw(s)]
Num(no, level, word, n) == [Test(no, level, word) EXCEPT !.num = n]
Rel(t) == [t EXCEPT !.amp = TRUE]
At(t, o) == [t EXCEPT !.offset = o]
NoDesc(t) == [t EXCEPT !.desc = ""]
If(t, c) == [t EXCEPT !.cond = c]
File(lines) == <<[readable |-> TRUE, missing |-> FALSE, lines |-> lines]>>

MCMagicFiles == [
  levels |-> File(<<
    Str(1, 0, "string", <<4>>), Rel(Num(2, 1, "byte", 5)), Rel([Num(3, 2, "byte", 0) EXCEPT !.reln = "x"]),
    Rel(Num(4, 1, "byte", 6)), Test(5, 1, "default"), Test(6, 1, "default"), [kind |-> "blank"],
    [Str(7, 0, "search", <<5>>) EXCEPT !.op = "/", !.range = 2, !.mods = {"t"}],
    Bang("mime", TRUE, "", 0), If(Num(8, 1, "byte", 4), "if"), If(Num(9, 1, "byte", 5), "elif"),
    [If(Num(10, 1, "byte", 4), "else") EXCEPT !.reln = "!"]>>),
  used |-> File(<<
    Str(21, 0, "name", <<5>>), Num(22, 1, "beshort", 37), [Str(23, 1, "search", <<5>>) EXCEPT !.op = "/", !.range = 4],
    NoDesc(Num(24, 0, "byte", 4)), Rel(Num(25, 1, "byte", 5)), At(Str(26, 1, "use", <<5>>), 1),
    Str(27, 1, "use", <<6, 5>>), Test(28, 1, "default"),
    NoDesc(At(Num(29, 0, "byte", 5), 1)), Rel(Str(30, 1, "use", <<7>>))>>),
  again |-> File(<<
    Num(41, 0, "byte", 4), At(Num(42, 1, "indirect", 0), 1), Num(43, 0, "byte", 5),
    Bang("strength", TRUE, "+", 40), Bang("apple", TRUE, "", 0)>>),
  little |-> File(<<Num(51, 0, "lelong", 4), Rel([Num(52, 1, "short", 4) EXCEPT !.op = "/", !.mask = 64])>>),
  values |-> File(<<
    [Str(61, 0, "regex", <<5>>) EXCEPT !.op = "/", !.mods = {"c"}],
    Rel(Num(62, 1, "float", 5)), Rel([Num(63, 1, "double", 5) EXCEPT !.reln = ">"]),
    [Str(64, 1, "pstring", <<5>>) EXCEPT !.reln = ">"], Rel(Num(65, 2, "byte", 5)),
    [At(Str(66, 1, "search", <<5>>), 6) EXCEPT !.op = "/", !.range = 2], [Num(67, 1, "byte", 5) EXCEPT !.paren = TRUE, !.in_type = "byte", !.in_offset = 1],
    [Str(68, 1, "lestring16", <<4>>) EXCEPT !.offset = 1], [Num(69, 1, "quad", 4) EXCEPT !.op = "&", !.mask = 7]>>),
  wrong |-> File(<<Num(71, 0, "byte", 4), If(Num(72, 1, "byte", 4), "else"), Bang("other", TRUE, "", 0)>>),
  sorted |-> File(<<Test(81, 0, "default"), [Str(82, 0, "string", <<4, 5>>) EXCEPT !.op = "/", !.mods = {"b"}],
    NoDesc([Num(83, 0, "byte", 4) EXCEPT !.reln = ">"]), Num(84, 0, "byte", 5), Num(85, 0, "byte", 6)>>),
  aborts |-> File(<<Num(91, 0, "byte", 4), Test(92, 0, "default"), Bang("strength", TRUE, "+", 1)>>),
  unread |-> <<[readable |-> FALSE, missing |-> FALSE, lines |-> <<>>]>>]

MCPaths == {<<"levels">>, <<"used">>, <<"again">>, <<"little">>, <<"values">>, <<"wrong">>,
            <<"sorted">>, <<"aborts">>, <<"unread">>, <<"wrong", "sorted">>, <<"levels", "again">>}
MCBuffers == {<<>>, <<4, 5, 4>>, <<4, 4, 5, 6>>, <<4, 6, 5, 4, 5, 4, 0, 0, 5>>, <<5, 4, 5, 1, 5>>}
MCFlagSets == {{}, {"CONTINUE"}, {"MIME_TYPE"}, {"APPLE"}}
MCMallocs == {0, 1, 2, 3, 4, 6, 8, 9, 10, 11, 13, 15, 99}
=============================================================================
