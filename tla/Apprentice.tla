----------------------------- MODULE Apprentice -----------------------------
(***************************************************************************)
(* file/apprentice.c: magic_load() reads a list of magic files, parses     *)
(* them line by line into entries, sorts the entries by strength and hangs *)
(* them into the two lists of a magic_set: tests, and named entries that   *)
(* other entries "use".                                                    *)
(*                                                                         *)
(* A line is a record of the tokens parse() meets, in their order.  Bytes  *)
(* are numbers below Base (256 in C), so that a short, a long and a quad   *)
(* wrap at Base^2, Base^4 and Base^8.  Warnings to stderr are left out.    *)
(***************************************************************************)
EXTENDS Integers, Sequences, FiniteSets, SequencesExt

CONSTANTS
  Base,          \* values of a byte
  MAXstring,     \* size of the string member of union VALUETYPE
  ALLOC_CHUNK,   \* entries allocated at once for a test and its continuations
  ALLOC_INCR,    \* tests allocated at once
  LEVELS,        \* level_info records allocated at once: 20
  MagicFiles,    \* the magic files: a file name to a sequence of lines
  Paths,         \* what the user passes to magic_load(): sequences of names
  Mallocs,       \* how often malloc() succeeds before it fails
  FlagSets,      \* what the user passes to magic_open()
  MaxLoads       \* bound: calls of magic_load()

ASSUME MagicAssumption ==
  /\ Base \in Nat /\ Base > 3 /\ Base % 2 = 0 /\ MAXstring \in Nat /\ MAXstring >= 8
  /\ {ALLOC_CHUNK, ALLOC_INCR, LEVELS} \subseteq Nat \ {0}
  /\ Mallocs \subseteq Nat /\ MaxLoads \in Nat

VARIABLES
  ms,         \* struct magic_set
  ld,         \* the locals of file_apprentice() and of what it calls
  maxmagic,   \* static: allocated tests of the two sets
  last_cont_level, \* static in parse()
  status      \* "ok", or how the process died or hangs

-----------------------------------------------------------------------------
(* Types.                                                                   *)

Shorts == {"short", "beshort", "leshort"}
Longs  == {"long", "belong", "lelong", "melong"}
Dates  == {"date", "bedate", "ledate", "medate", "ldate", "beldate", "leldate", "meldate"}
Floats == {"float", "befloat", "lefloat"}
Quads  == {"quad", "bequad", "lequad"}
QDates == {"qdate", "leqdate", "beqdate", "qldate", "leqldate", "beqldate",
           "qwdate", "leqwdate", "beqwdate"}
Doubles == {"double", "bedouble", "ledouble"}
Strings == {"string", "pstring", "bestring16", "lestring16"}
Searches == {"search", "regex"}

type_tbl == {"byte", "leid3", "beid3", "indirect", "default", "name", "use"} \cup Shorts
            \cup Longs \cup Dates \cup Floats \cup Quads \cup QDates \cup Doubles
            \cup Strings \cup Searches

special_tbl == {"name", "use"}

IS_STRING(t) == t \in Strings \cup Searches \cup {"name", "use", "default"}

\* The class of printf conversions that a type's description may have.
init_file_tables ==
  [t \in type_tbl |->
     IF t \in {"byte", "leid3", "beid3", "indirect"} \cup Shorts \cup Longs THEN "num"
     ELSE IF t \in Quads THEN "quad"
     ELSE IF t \in Floats \cup Doubles THEN "float"
     ELSE IF t \in {"name", "use"} THEN "none" ELSE "str"]

get_type(tbl, word) == IF word \in tbl THEN word ELSE "invalid"

\* Single UNIX types: d or u, then a letter, a digit or nothing.
get_standard_integer_type(suffix) ==
  CASE suffix \in {"C", "1"} -> "byte"  [] suffix \in {"S", "2"} -> "short"
    [] suffix \in {"I", "L", "4", ""} -> "long" [] suffix \in {"Q", "8"} -> "quad"
    [] OTHER -> "invalid"

W16 == Base * Base
W32 == W16 * W16
W64 == W32 * W32

\* An unsigned 64-bit value after a cast to a signed type of w values.
Signed(v, w) == LET u == v % w IN IF 2 * u >= w THEN W64 - w + u ELSE u

\* For other types it always returns ~0U: the return is not part of the "if".
file_signextend(m, v) ==
  IF "UNSIGNED" \in m.flag \/ IS_STRING(m.type) THEN v
  ELSE IF m.type = "byte" THEN Signed(v, Base)
  ELSE IF m.type \in Shorts THEN Signed(v, W16)
  ELSE IF m.type \in Dates \cup Longs \cup Floats THEN Signed(v, W32)
  ELSE IF m.type \in Quads \cup QDates \cup Doubles THEN v
  ELSE W32 - 1

PSTRING_LEN == {"1", "2BE", "2LE", "4BE", "4LE"}

file_pstring_length_size(m) ==
  IF "1" \in m.str_flags THEN 1
  ELSE IF m.str_flags \cap {"2BE", "2LE"} # {} THEN 2 ELSE 4

-----------------------------------------------------------------------------
(* The magic_set: errors, memory and levels.                                *)

\* Only the first error counts; file_magerror() drops what was printed.
file_error(s) == IF s.had_err THEN s ELSE [s EXCEPT !.had_err = TRUE]
file_magerror(s) == IF s.had_err THEN s ELSE [s EXCEPT !.had_err = TRUE, !.out = <<>>]
file_oomem(s) == file_error(s)

CanAlloc(s) == s.mem > 0
Allocated(s) == [s EXCEPT !.mem = @ - 1]

NoLevel == [off |-> 0, got_match |-> FALSE, last_match |-> FALSE, last_cond |-> "none"]

\* When realloc() fails, li is a null pointer of the new length.
file_check_mem(s, level) ==
  LET Cleared(t) == [t EXCEPT !.li = [i \in 0..(t.len - 1) |->
          IF i = level THEN [NoLevel EXCEPT !.off = IF i \in DOMAIN t.li THEN t.li[i].off ELSE 0]
          ELSE IF i \in DOMAIN t.li THEN t.li[i] ELSE NoLevel]]
      grown == [s EXCEPT !.len = @ + LEVELS]
  IN IF level < s.len
     THEN [ms |-> IF s.linull THEN s ELSE Cleared(s), ok |-> TRUE, segv |-> s.linull]
     ELSE IF CanAlloc(s)
     THEN [ms |-> Cleared([Allocated(grown) EXCEPT !.linull = FALSE]), ok |-> TRUE, segv |-> FALSE]
     ELSE [ms |-> file_oomem([grown EXCEPT !.linull = TRUE]), ok |-> FALSE, segv |-> FALSE]

file_ms_alloc(flags, mem) ==
  [flags |-> flags, mem |-> mem, len |-> 0, linull |-> FALSE, li |-> <<>>,
   out |-> <<>>, had_err |-> FALSE, offset |-> 0, value |-> <<>>,
   search |-> [s |-> 0, s_len |-> 0, offset |-> 0, rm_len |-> 0],
   mlist |-> [i \in 0..1 |-> [null |-> TRUE, freed |-> FALSE, lists |-> <<>>]]]

-----------------------------------------------------------------------------
(* parse(): each part is [ms, me, rv], where rv is "go" until it returns.   *)

\* The condition to remember for the level, or "error".
check_cond(last, cond) ==
  CASE cond = "if"   -> IF last \in {"none", "elif"} THEN "if" ELSE "error"
    [] cond = "elif" -> IF last \in {"if", "elif"} THEN "elif" ELSE "error"
    [] cond = "else" -> IF last \in {"if", "elif"} THEN "none" ELSE "error"
    [] OTHER -> "none"

NewMagic(level, lineno) ==
  [cont_level |-> level, lineno |-> lineno, flag |-> {}, reln |-> "=", vallen |-> 0,
   type |-> "invalid", in_type |-> "invalid", in_op |-> [op |-> "&", inverse |-> FALSE, indirect |-> FALSE],
   mask_op |-> [op |-> "&", inverse |-> FALSE], num_mask |-> 0, cond |-> "none",
   factor_op |-> "", factor |-> 0, offset |-> 0, in_offset |-> 0, str_range |-> 0,
   str_flags |-> {}, q |-> 0, s |-> <<>>, desc |-> "", mimetype |-> FALSE, apple |-> FALSE]

Part(s, me, rv) == [ms |-> s, me |-> me, rv |-> rv]
WithLast(me, m) == [me EXCEPT !.mp = [@ EXCEPT ![Len(@)] = m]]
NoEntry == [mp |-> <<>>, max |-> 0]

\* Levels, and room for one more entry. 1 asks the caller to save the test.
parse_level(s, me, line, last) ==
  LET cm == IF line.level = 0 \/ line.level > last THEN file_check_mem(s, line.level)
            ELSE [ms |-> s, ok |-> TRUE, segv |-> FALSE]
      t == cm.ms
      new == NewMagic(line.level, line.lineno)
  IN IF cm.segv THEN Part(t, me, "segv")
     ELSE IF ~cm.ok THEN Part(t, me, "-1")
     ELSE IF line.level # 0
     THEN IF me.mp = <<>> THEN Part(file_magerror(t), me, "-1")
          ELSE IF Len(me.mp) < me.max
          THEN Part(t, [me EXCEPT !.mp = Append(@, new)], "go")
          ELSE IF CanAlloc(t)
          THEN Part(Allocated(t), [mp |-> Append(me.mp, new), max |-> me.max + ALLOC_CHUNK], "go")
          ELSE Part(file_oomem(t), me, "-1")
     ELSE IF me.mp # <<>> THEN Part(t, me, "1")
     ELSE IF CanAlloc(t) THEN Part(Allocated(t), [mp |-> <<new>>, max |-> ALLOC_CHUNK], "go")
     ELSE Part(file_oomem(t), me, "-1")

\* [&][(][&]offset[.type][~][op][(]number[)][)]
parse_offset(m, line) ==
  LET flag == IF line.paren
              THEN {"INDIR"} \cup (IF line.amp THEN {"INDIROFFADD"} ELSE {})
                             \cup (IF line.inneramp THEN {"OFFADD"} ELSE {})
              ELSE IF line.amp THEN {"OFFADD"} ELSE {}
      o == [m EXCEPT !.flag = flag, !.offset = line.offset % W32]
  IN IF ~line.paren THEN o
     ELSE [o EXCEPT !.in_type = line.in_type, !.in_op = line.in_op,
                    !.in_offset = line.in_offset % W32]

\* "use" begins like an unsigned type but is none: it is found as special.
parse_type(m, line) ==
  LET word == get_type(type_tbl, line.word)
      found == IF word # "invalid" THEN word ELSE get_standard_integer_type(line.suffix)
      t == IF found # "invalid" THEN found ELSE get_type(special_tbl, line.word)
  IN [m EXCEPT !.type = t,
               !.flag = IF line.unsigned /\ found # "invalid" THEN @ \cup {"UNSIGNED"} ELSE @]

\* MAGIC_CHECK is set while files are parsed.
string_modifier_check(m) ==
  /\ m.type = "pstring" \/ m.str_flags \cap PSTRING_LEN = {}
  /\ \/ m.type \in {"bestring16", "lestring16"} /\ m.str_flags = {}
     \/ m.type \in {"string", "pstring"} /\ "s" \notin m.str_flags
     \/ m.type = "search" /\ m.str_range # 0 /\ m.str_flags \cap {"W", "w"} = {}
     \/ m.type = "regex" /\ m.str_flags \cap {"W", "w"} = {}

\* A mask for numbers; a range and flags after "/" for strings.
parse_mask(m, line) ==
  LET base == [m EXCEPT !.str_flags = IF m.type = "pstring" THEN {"1"} ELSE {},
                        !.mask_op.inverse = line.inverse /\ ~IS_STRING(m.type)]
      lens == line.mods \cap PSTRING_LEN
      str  == [base EXCEPT !.str_range = line.range,
                 !.str_flags = (IF lens = {} THEN @ ELSE @ \ PSTRING_LEN) \cup line.mods]
      Bad  == m.type # "pstring" /\ (lens # {} \/ "J" \in line.mods)
  IN IF line.op = "" THEN [m |-> base, ok |-> TRUE]
     ELSE IF ~IS_STRING(m.type)
     THEN [m |-> [base EXCEPT !.mask_op.op = line.op, !.num_mask = file_signextend(base, line.mask)],
           ok |-> TRUE]
     ELSE [m |-> str, ok |-> line.op = "/" /\ ~Bad /\ string_modifier_check(str)]

\* Escapes: a pair of a backslash and c, or the byte itself.
Unescaped(x) ==
  IF ~x.esc THEN x.c
  ELSE CASE x.c = "n" -> 1 [] x.c = "r" -> 2 [] x.c = "0" -> 0 [] OTHER -> 3

\* Text ends at the first unescaped space (byte 3).
getstr(m, text) ==
  LET spaces == {i \in DOMAIN text : ~text[i].esc /\ text[i].c = 3}
      n == IF spaces = {} THEN Len(text) ELSE (CHOOSE i \in spaces : \A j \in spaces : i <= j) - 1
      size == IF m.type = "pstring" THEN file_pstring_length_size(m) ELSE 0
  IN [m |-> [m EXCEPT !.s = [i \in 1..n |-> Unescaped(text[i])], !.vallen = (n + size) % W16],
      ok |-> n < MAXstring]

getvalue(m, line) ==
  IF IS_STRING(m.type) /\ m.type # "default" THEN getstr(m, line.text)
  ELSE IF m.type \in Floats \cup Doubles THEN [m |-> [m EXCEPT !.q = line.num], ok |-> TRUE]
  ELSE [m |-> [m EXCEPT !.q = file_signextend(m, line.num)], ok |-> TRUE]

\* ">=" and "<=" are not supported.
parse_value(m, line) ==
  LET r == [m EXCEPT !.reln = line.reln]
  IN IF line.reln \in {">=", "<="} THEN [m |-> m, ok |-> FALSE]
     ELSE IF line.reln = "x" THEN [m |-> r, ok |-> TRUE]
     ELSE getvalue(r, line)

\* The description has at most one conversion, of the class of the type.
check_format(m, line) ==
  line.fmt = "none" \/ (line.fmt # "two" /\ line.fmt = init_file_tables[m.type])

parse_desc(m, line) ==
  [m EXCEPT !.desc = line.desc, !.flag = IF line.nospace THEN @ \cup {"NOSPACE"} ELSE @]

\* The parts in their order; the entry stays in me as far as it was parsed.
parse_line(s, me, line) ==
  LET Fail(t, m) == Part(t, WithLast(me, m), "-1")
      Desc(t, m) == IF check_format(m, line) THEN Part(t, WithLast(me, m), "0") ELSE Fail(t, m)
      Value(t, v) == IF v.ok THEN Desc(t, parse_desc(v.m, line)) ELSE Fail(file_error(t), v.m)
      Mask(t, k) == IF k.ok THEN Value(t, parse_value(k.m, line)) ELSE Fail(t, k.m)
      Type(t, m) == IF m.type = "invalid" THEN Fail(t, m) ELSE Mask(t, parse_mask(m, line))
      Cond(m, c) == IF c = "error" THEN Fail(s, m)
                    ELSE Type([s EXCEPT !.li[line.level].last_cond = c],
                              parse_type([m EXCEPT !.cond = line.cond], line))
  IN Cond(parse_offset(Last(me.mp), line), check_cond(s.li[line.level].last_cond, line.cond))

parse(s, me, line, last) ==
  LET Levelled(a) == IF a.rv # "go" THEN a
                     ELSE IF a.ms.linull THEN Part(a.ms, a.me, "segv")
                     ELSE parse_line(a.ms, a.me, line)
  IN Levelled(parse_level(s, me, line, last))

\* !:mime, !:apple and !:strength lines, for the entry or the test read last.
parse_mime(me, arg) ==
  [me |-> IF Last(me.mp).mimetype THEN me ELSE WithLast(me, [Last(me.mp) EXCEPT !.mimetype = arg]),
   ok |-> ~Last(me.mp).mimetype /\ arg]

parse_apple(me, arg) ==
  [me |-> IF Last(me.mp).apple THEN me ELSE WithLast(me, [Last(me.mp) EXCEPT !.apple = arg]),
   ok |-> ~Last(me.mp).apple /\ arg]

parse_strength(me, op, factor) ==
  LET first == me.mp[1]
      bad == factor > 255 \/ (factor = 0 /\ op = "/")
  IN IF first.factor_op # "" THEN [me |-> me, ok |-> FALSE]
     ELSE [me |-> [me EXCEPT !.mp[1].factor_op = IF bad THEN "" ELSE op,
                             !.mp[1].factor = IF bad THEN 0 ELSE factor],
           ok |-> ~bad]

-----------------------------------------------------------------------------
(* One magic file.                                                          *)

Loading(at) == ld.at = at /\ status = "ok"

\* [entry, max, null, ms, segv]: maxmagic is static, but the arrays are new in
\* every load; max is increased before the allocation that may fail.
addentry(s, me, entry, max, null) ==
  LET i == IF me.mp[1].type = "name" THEN 1 ELSE 0
      Result(e, x, n, t, segv) == [entry |-> e, max |-> x, null |-> n, ms |-> t, segv |-> segv]
      more == [max EXCEPT ![i] = @ + ALLOC_INCR]
      added == [entry EXCEPT ![i] = Append(@, me.mp)]
  IN IF Len(entry[i]) # max[i] THEN Result(added, max, null, s, null[i])
     ELSE IF CanAlloc(s)
     THEN Result(added, more, [null EXCEPT ![i] = FALSE], Allocated(s), FALSE)
     ELSE Result(entry, more, null, file_oomem(s), FALSE)

\* A line that is no entry.
BangLine(line) ==
  LET me == ld.me
      r == CASE me.mp = <<>> -> [me |-> me, ok |-> FALSE]
             [] line.key = "mime" -> parse_mime(me, line.arg)
             [] line.key = "apple" -> parse_apple(me, line.arg)
             [] line.key = "strength" -> parse_strength(me, line.op, line.factor)
             [] OTHER -> [me |-> me, ok |-> FALSE]
  IN /\ ld' = [ld EXCEPT !.lines = Tail(@), !.me = r.me, !.errs = IF r.ok THEN @ ELSE @ + 1]
     /\ ms' = IF me.mp = <<>> \/ line.key = "other" THEN file_error(ms) ELSE ms
     /\ UNCHANGED <<maxmagic, last_cont_level, status>>

\* What parse() returned for the line.
Parsed(r) ==
  /\ ms' = r.ms /\ status' = IF r.rv = "segv" THEN "segv" ELSE "ok"
  /\ ld' = [ld EXCEPT !.lines = Tail(@), !.me = r.me, !.errs = IF r.rv = "-1" THEN @ + 1 ELSE @]

\* parse() is called again after the test before was saved. If that failed,
\* the second attempt to save it writes beyond the array.
Saved(a, line) ==
  /\ maxmagic' = a.max
  /\ IF a.segv \/ a.entry = ld.entry THEN status' = "segv" /\ ms' = a.ms /\ UNCHANGED ld
     ELSE \E r \in {parse(a.ms, NoEntry, line, line.level)} :
            /\ ms' = r.ms /\ status' = IF r.rv = "segv" THEN "segv" ELSE "ok"
            /\ ld' = [ld EXCEPT !.lines = Tail(@), !.me = r.me, !.entry = a.entry, !.null = a.null,
                                !.errs = IF r.rv = "-1" THEN @ + 1 ELSE @]

EntryLine(line) ==
  /\ last_cont_level' = line.level
  /\ \E p \in {parse(ms, ld.me, line, last_cont_level)} :
       IF p.rv = "1" THEN \E a \in {addentry(p.ms, ld.me, ld.entry, maxmagic, ld.null)} : Saved(a, line)
       ELSE Parsed(p) /\ UNCHANGED maxmagic

\* One pass of the loop of load_1().
load_line ==
  /\ Loading("lines") /\ ld.lines # <<>>
  /\ LET line == Head(ld.lines)
     IN \/ line.kind = "blank" /\ ld' = [ld EXCEPT !.lines = Tail(@)]
                               /\ UNCHANGED <<ms, maxmagic, last_cont_level, status>>
        \/ line.kind = "bang" /\ BangLine(line)
        \/ line.kind = "entry" /\ EntryLine(line)

\* Mutant: the last test of a file is forgotten.
load_end_forget ==
  /\ Loading("lines") /\ ld.lines = <<>>
  /\ ld' = [ld EXCEPT !.at = "files", !.me = NoEntry]
  /\ UNCHANGED <<ms, maxmagic, status, last_cont_level>>

\* The end of load_1(): the last test is saved, and lost if memory is short.
load_end ==
  /\ Loading("lines") /\ ld.lines = <<>>
  /\ LET a == addentry(ms, ld.me, ld.entry, maxmagic, ld.null)
     IN IF ld.me.mp = <<>>
        THEN ld' = [ld EXCEPT !.at = "files"] /\ UNCHANGED <<ms, maxmagic, status>>
        ELSE /\ ld' = [ld EXCEPT !.at = "files", !.me = NoEntry, !.entry = a.entry, !.null = a.null]
             /\ ms' = a.ms /\ maxmagic' = a.max
             /\ status' = IF a.segv THEN "segv" ELSE "ok"
  /\ UNCHANGED last_cont_level

\* The next file of a directory, or the only file.
load_1 ==
  /\ Loading("files") /\ ld.files # <<>>
  /\ LET f == Head(ld.files)
     IN /\ ld' = [ld EXCEPT !.files = Tail(@), !.me = NoEntry,
                            !.at = IF f.readable THEN "lines" ELSE "files",
                            !.lines = IF f.readable THEN f.lines ELSE <<>>,
                            !.errs = IF f.readable THEN @ ELSE @ + 1]
        /\ ms' = IF f.readable \/ f.missing THEN ms ELSE file_error(ms)
  /\ UNCHANGED <<maxmagic, last_cont_level, status>>

-----------------------------------------------------------------------------
(* Sorting the tests.                                                       *)

\* Whether the pattern of a search looks like text; utf8 is for encoding.c.
LooksText(s) == \A i \in DOMAIN s : s[i] # 0

set_test_type(m) ==
  LET text == "t" \in m.str_flags
      bin  == "b" \in m.str_flags
  IN IF ~IS_STRING(m.type) /\ m.type \notin {"indirect", "leid3", "beid3"} THEN {"BINTEST"}
     ELSE IF m.type \in Strings THEN IF text THEN {"TEXTTEST"} ELSE {"BINTEST"}
     ELSE IF m.type \notin Searches THEN {}
     ELSE IF text \/ bin
     THEN (IF bin THEN {"BINTEST"} ELSE {}) \cup (IF text THEN {"TEXTTEST"} ELSE {})
     ELSE IF LooksText(m.s) THEN {"TEXTTEST"} ELSE {"BINTEST"}

set_text_binary(test) == [test EXCEPT ![1].flag = @ \cup set_test_type(test[1])]

MULT == 10

TypeStrength(m) ==
  CASE m.type = "byte" -> MULT
    [] m.type \in Shorts -> 2 * MULT
    [] m.type \in Longs \cup Dates \cup Floats -> 4 * MULT
    [] m.type \in {"string", "pstring"} -> m.vallen * MULT
    [] m.type \in {"bestring16", "lestring16"} -> (m.vallen * MULT) \div 2
    [] m.type \in Searches -> m.vallen * (IF MULT \div m.vallen > 1 THEN MULT \div m.vallen ELSE 1)
    [] m.type \in Quads \cup QDates \cup Doubles -> 8 * MULT
    [] OTHER -> 0

FactorStrength(m, val) ==
  CASE m.factor_op = "+" -> val + m.factor
    [] m.factor_op = "-" -> val - m.factor
    [] m.factor_op = "*" -> val * m.factor
    [] m.factor_op = "/" -> val \div m.factor
    [] OTHER -> val

\* size_t: a difference below zero is a large number.
apprentice_magic_strength(m) ==
  LET val == 2 * MULT + TypeStrength(m)
      rel == CASE m.reln \in {"x", "!"} -> 0
               [] m.reln = "=" -> val + MULT
               [] m.reln \in {">", "<"} -> val - 2 * MULT
               [] OTHER -> val - MULT
      fac == FactorStrength(m, IF rel = 0 THEN 1 ELSE rel)
  IN IF m.type = "default" THEN 0
     ELSE (IF m.desc = "" THEN fac + 1 ELSE fac) % W64

\* What the comparison function does to the process.
SortAborts(m) == m.type = "default" /\ m.factor_op # ""
SortDividesByZero(m) == m.type \in Searches /\ m.vallen = 0
SortDies(m) == SortAborts(m) \/ SortDividesByZero(m) \/ m.type \in {"leid3", "beid3"}

apprentice_sort(a, b) == apprentice_magic_strength(a[1]) >= apprentice_magic_strength(b[1])

\* qsort() may leave equal tests in any order.
Sorted(tests) ==
  LET n == Len(tests)
      Orders == {p \in [1..n -> 1..n] : \A i, j \in 1..n : i # j => p[i] # p[j]}
  IN {[i \in 1..n |-> tests[p[i]]] : p \in
        {p \in Orders : \A i \in 1..(n - 1) : apprentice_sort(tests[p[i]], tests[p[i + 1]])}}

coalesce_entries(tests) == FlattenSeq(tests)

-----------------------------------------------------------------------------
(* The lists.                                                               *)

NoList == [null |-> TRUE, freed |-> FALSE, lists |-> <<>>]
EmptyList == [NoList EXCEPT !.null = FALSE]
Idle == [at |-> "idle", action |-> "load", paths |-> <<>>, files |-> <<>>, lines |-> <<>>,
         me |-> NoEntry, entry |-> [i \in 0..1 |-> <<>>], null |-> [i \in 0..1 |-> TRUE],
         errs |-> 0, rv |-> "none", bad |-> {}, fn |-> ""]

\* The compiled file is never used: apprentice_map() returns NULL also when
\* fstat() succeeded.  Its mkdbname() drops all other flags for a .mime file.
apprentice_map(s, mime) ==
  IF mime /\ s.flags \cap {"MIME_TYPE", "MIME_ENCODING"} # {}
  THEN [s EXCEPT !.flags = @ \cap {"MIME_TYPE"}] ELSE s

add_mlist(s, i, magic) == [Allocated(s) EXCEPT !.mlist[i].lists = Append(@, magic)]

\* file_apprentice() before its loop: strdup(), then two new list heads. When
\* the second fails, the first is freed but still pointed to.
file_apprentice(fns, action) ==
  /\ Loading("idle")
  /\ LET s1 == [ms EXCEPT !.mem = @ - 1, !.mlist[0] = EmptyList]
         s2 == [s1 EXCEPT !.mem = @ - 2, !.mlist[1] = EmptyList]
         Started(t, at, rv) == /\ ms' = t /\ status' = "ok"
                               /\ ld' = [Idle EXCEPT !.at = at, !.rv = rv, !.paths = fns, !.action = action]
     IN IF ms.mem = 0 THEN Started(file_oomem(ms), "idle", "-1")
        ELSE IF ms.mlist[0].freed
        THEN status' = "segv" /\ UNCHANGED <<ms, ld>>
        ELSE IF ms.mem = 1 THEN Started(file_oomem([s1 EXCEPT !.mem = 0, !.mlist[0] = NoList]), "idle", "-1")
        ELSE IF ms.mem = 2
        THEN Started(file_oomem([s1 EXCEPT !.mem = 0, !.mlist[0].freed = TRUE, !.mlist[1] = NoList]), "idle", "-1")
        ELSE Started(s2, "path", "none")
  /\ UNCHANGED <<maxmagic, last_cont_level>>

\* apprentice_1() and apprentice_load() up to the first file.
apprentice_1(mime) ==
  /\ Loading("path") /\ ld.paths # <<>>
  /\ LET t == IF ld.action = "compile" THEN ms ELSE apprentice_map(ms, mime)
         fn == Head(ld.paths)
         enough == IF ld.action = "compile" THEN 1 ELSE 2
         Begin(s, at, bad) ==
           /\ ms' = s
           /\ ld' = [ld EXCEPT !.paths = Tail(@), !.at = at, !.fn = fn, !.bad = @ \cup bad,
                        !.files = MagicFiles[fn], !.errs = 0,
                        !.entry = Idle.entry, !.null = Idle.null]
     IN IF t.mem < enough THEN Begin(file_oomem([t EXCEPT !.flags = @ \cup {"CHECK"}, !.mem = 0]), "path", {fn})
        ELSE Begin([t EXCEPT !.flags = @ \cup {"CHECK"}, !.mem = @ - enough], "files", {})
  /\ UNCHANGED <<maxmagic, last_cont_level, status>>

\* The rest of apprentice_load(): nothing of a file with an error is kept.
\* Then the lists, or apprentice_compile(), whose writes may fail.
apprentice_build ==
  /\ Loading("files") /\ ld.files = <<>>
  /\ LET Typed(i) == [k \in DOMAIN ld.entry[i] |-> set_text_binary(ld.entry[i][k])]
         dies == \E i \in 0..1 : Len(ld.entry[i]) > 1 /\ \E k \in DOMAIN ld.entry[i] : SortDies(ld.entry[i][k][1])
         Failed(s) == ms' = s /\ ld' = [ld EXCEPT !.at = "path", !.bad = @ \cup {ld.fn}] /\ status' = "ok"
     IN IF ld.errs > 0 THEN Failed(ms)
        ELSE IF dies THEN status' = "died" /\ UNCHANGED <<ms, ld>>
        ELSE \E a \in Sorted(Typed(0)), b \in Sorted(Typed(1)) :
               LET s1 == add_mlist([ms EXCEPT !.mem = @ - 2], 0, coalesce_entries(a))
                   s2 == add_mlist(s1, 1, coalesce_entries(b))
               IN IF ms.mem < 2 THEN Failed(file_oomem([ms EXCEPT !.mem = 0]))
                  ELSE IF ld.action = "compile"
                  THEN \/ Failed(file_error([ms EXCEPT !.mem = @ - 2]))
                       \/ /\ ms' = [ms EXCEPT !.mem = @ - 2] /\ status' = "ok"
                          /\ ld' = [ld EXCEPT !.at = "path", !.rv = "0"]
                  ELSE IF ms.mem = 2 THEN Failed(file_oomem([ms EXCEPT !.mem = 0]))
                  ELSE IF ms.mem = 3 THEN Failed(file_oomem(s1))
                  ELSE ms' = s2 /\ ld' = [ld EXCEPT !.at = "path", !.rv = "0"] /\ status' = "ok"
  /\ UNCHANGED <<maxmagic, last_cont_level>>

\* Mutant: only the tests are dropped.
DropLists_first(s) == [s EXCEPT !.mlist[0] = NoList]

DropLists(s) == [s EXCEPT !.mlist = [i \in 0..1 |-> NoList]]

\* After the loop: without one good file, and for other actions, no lists.
apprentice_end ==
  /\ Loading("path") /\ ld.paths = <<>>
  /\ LET good == ld.rv = "0"
     IN /\ ms' = IF ~good THEN file_error(DropLists(ms))
                 ELSE IF ld.action = "load" THEN ms ELSE DropLists(ms)
        /\ ld' = [Idle EXCEPT !.rv = IF good THEN "0" ELSE "-1", !.bad = ld.bad]
  /\ UNCHANGED <<maxmagic, last_cont_level, status>>

\* The array is searched from the front; an entry reaches to the next test.
file_magicfind(s, name) ==
  LET lists == s.mlist[1].lists
      At == {<<k, i>> \in (1..Len(lists)) \X (1..MAXstring) :
               /\ i \in DOMAIN lists[k] /\ lists[k][i].type = "name" /\ lists[k][i].s = name}
      First == CHOOSE x \in At : \A y \in At : x[1] < y[1] \/ (x[1] = y[1] /\ x[2] <= y[2])
      l == lists[First[1]]
      Ends == {j \in (First[2] + 1)..Len(l) : l[j].cont_level = 0}
      end == IF Ends = {} THEN Len(l) ELSE (CHOOSE j \in Ends : \A k \in Ends : j <= k) - 1
  IN IF At = {} THEN <<>> ELSE SubSeq(l, First[2], end)
=============================================================================
