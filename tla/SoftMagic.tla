------------------------------ MODULE SoftMagic ------------------------------
(***************************************************************************)
(* file/softmagic.c: the tests that apprentice.c has loaded are tried on a *)
(* buffer, a test that succeeds is followed by its continuations, and an   *)
(* entry may "use" a named one or start over at another place of the       *)
(* buffer ("indirect").  match() calls itself through mget(): the calls    *)
(* are frames of a stack, and one step is one entry.  All calls share the  *)
(* level_info array and the offset of the magic_set.                       *)
(***************************************************************************)
EXTENDS Apprentice, Bitwise

CONSTANTS
  Buffers,     \* contents of files
  MaxDepth     \* bound: nested calls of match()

VARIABLES
  buf,         \* the buffer under test
  stack,       \* calls of match(), the innermost last
  result,      \* of file_softmagic(): "none", "-1", "0", "1"
  hist         \* history: which entry set the offset of a level, and more

NL == 1
CR == 2
SPACE == 3

CurFrame == stack[Len(stack)]
Entry(f) == f.magic[f.i]
Byte(f, k) == IF k >= 0 /\ k < f.n THEN buf[f.s + k + 1] ELSE 0

-----------------------------------------------------------------------------
(* Values: union VALUETYPE on a little-endian machine.                      *)

Pow(n) == Base ^ n
RECURSIVE LE(_, _)
LE(p, n) == IF n = 0 THEN 0 ELSE LE(p, n - 1) + p[n] * Pow(n - 1)
BE(p, n) == LE([i \in 1..n |-> p[n + 1 - i]], n)
ME(p) == LE(<<p[3], p[4], p[1], p[2]>>, 4)

\* p with its first n bytes set to the number v.
Put(p, n, v) == [i \in DOMAIN p |-> IF i <= n THEN (v \div Pow(i - 1)) % Base ELSE p[i]]

\* A signed view of an unsigned number, and division as in C.
AsInt(v, w) == IF 2 * v >= w THEN v - w ELSE v
Div(a, b) == LET q == (IF a < 0 THEN -a ELSE a) \div (IF b < 0 THEN -b ELSE b)
             IN IF (a < 0) = (b < 0) THEN q ELSE -q

\* The eight operators of masks and of indirect offsets, on w values.
Operate(op, a, b, w) ==
  CASE op = "&" -> (a % w) & (b % w)
    [] op = "|" -> (a % w) | (b % w)
    [] op = "^" -> (a % w) ^^ (b % w)
    [] op = "+" -> (a + b) % w
    [] op = "-" -> (a - b) % w
    [] op = "*" -> (a * b) % w
    [] op = "/" -> Div(a, b) % w
    [] OTHER    -> (a - b * Div(a, b)) % w

Flip(a, b, t) == IF t = a THEN b ELSE IF t = b THEN a ELSE t

cvt_flip(t, flip) ==
  IF ~flip THEN t
  ELSE LET pairs == {<<"beshort", "leshort">>, <<"belong", "lelong">>, <<"bedate", "ledate">>,
                     <<"beldate", "leldate">>, <<"bequad", "lequad">>, <<"beqdate", "leqdate">>,
                     <<"beqldate", "leqldate">>, <<"beqwdate", "leqwdate">>,
                     <<"befloat", "lefloat">>, <<"bedouble", "ledouble">>}
           mine == {x \in pairs : t \in {x[1], x[2]}}
       IN IF mine = {} THEN t ELSE LET x == CHOOSE x \in mine : TRUE IN Flip(x[1], x[2], t)

\* Whether the mask divides by a number whose low bits are zero.
DividesByZero(m, w) == m.num_mask # 0 /\ m.num_mask % w = 0 /\ m.mask_op.op \in {"/", "%"}

DO_CVT(m, v, w) ==
  LET u == IF m.num_mask = 0 THEN v ELSE Operate(m.mask_op.op, v, m.num_mask % w, w)
  IN IF m.mask_op.inverse THEN w - 1 - u ELSE u

cvt_8(p, m)  == Put(p, 1, DO_CVT(m, LE(p, 1), Base))
cvt_16(p, m) == Put(p, 2, DO_CVT(m, LE(p, 2), W16))
cvt_32(p, m) == Put(p, 4, DO_CVT(m, LE(p, 4), W32))
cvt_64(p, m) == Put(p, 8, DO_CVT(m, LE(p, 8), W64))

\* char is signed: a length byte of the upper half is taken for a huge length.
file_pstring_get_length(m, p) ==
  LET n == file_pstring_length_size(m)
      raw == IF m.str_flags \cap {"2BE", "4BE"} # {} THEN BE(p, n) ELSE LE(p, n)
      len == IF n < 8 THEN AsInt(raw, Pow(n)) - (IF "J" \in m.str_flags THEN n ELSE 0) ELSE 0
  IN IF len < 0 \/ len >= MAXstring THEN MAXstring - 1 ELSE len

ConvertPstring(p, m) ==
  LET len == file_pstring_get_length(m, p)
      n == file_pstring_length_size(m)
      At(i) == IF i <= MAXstring THEN p[i] ELSE 0
  IN [i \in DOMAIN p |-> IF i <= len THEN At(i + n) ELSE IF i = len + 1 THEN 0 ELSE p[i]]

\* [p, ok, fpe]. A "short" is also converted as a long, a "leshort" only as a
\* long, and the other little-endian longs and dates have no case at all.
mconvert(p, m, flip) ==
  LET t == cvt_flip(m.type, flip)
      Done(q, w) == [p |-> q, ok |-> TRUE, fpe |-> w > 1 /\ DividesByZero(m, w)]
  IN CASE t = "byte"  -> Done(cvt_8(p, m), Base)
       [] t = "short" -> Done(cvt_32(cvt_16(p, m), m), W16)
       [] t \in {"long", "date", "ldate", "leshort"} -> Done(cvt_32(p, m), W32)
       [] t \in {"quad", "qdate", "qldate", "qwdate", "lequad", "leqdate", "leqldate", "leqwdate"} ->
            Done(cvt_64(p, m), W64)
       [] t \in {"string", "bestring16", "lestring16"} -> Done([p EXCEPT ![MAXstring] = 0], 1)
       [] t = "pstring" -> Done(ConvertPstring(p, m), 1)
       [] t = "beshort" -> Done(cvt_16(Put(p, 2, BE(p, 2)), m), W16)
       [] t \in {"belong", "bedate", "beldate"} -> Done(cvt_32(Put(p, 4, BE(p, 4)), m), W32)
       [] t \in {"bequad", "beqdate", "beqldate", "beqwdate"} ->
            Done(cvt_64(Put(p, 8, BE(p, 8)), m), W64)
       [] t \in {"melong", "medate", "meldate"} -> Done(cvt_32(Put(p, 4, ME(p)), m), W32)
       [] t \in {"float", "lefloat", "double", "ledouble"} -> Done(p, 1)
       [] t = "befloat"  -> Done(Put(p, 4, BE(p, 4)), 1)
       [] t = "bedouble" -> Done(Put(p, 8, BE(p, 8)), 1)
       [] t \in {"regex", "search", "default", "name", "use"} -> Done(p, 1)
       [] OTHER -> [p |-> p, ok |-> FALSE, fpe |-> FALSE]

-----------------------------------------------------------------------------
(* Fetching.                                                                *)

\* The end of a region of at most lines lines from b on.
RECURSIVE RegionEnd(_, _, _)
RegionEnd(f, b, lines) ==
  LET Ends(c) == {k \in b..(f.n - 1) : Byte(f, k) = c}
      ends == IF Ends(NL) # {} THEN Ends(NL) ELSE Ends(CR)
      k == CHOOSE k \in ends : \A j \in ends : k <= j
  IN IF b >= f.n \/ ends = {} THEN f.n
     ELSE IF lines = 1 THEN k ELSE RegionEnd(f, k + 1, lines - 1)

\* Every second byte; a null byte beside another one becomes a space.
String16(f, offset, be, old) ==
  LET At(i) == offset + 2 * (i - 1) + (IF be THEN 1 ELSE 0)
      Other(i) == IF be THEN At(i) - 1 ELSE At(i) + 1
  IN [i \in 1..MAXstring |->
        IF i = MAXstring THEN 0
        ELSE IF At(i) >= f.n THEN old[i]
        ELSE IF Byte(f, At(i)) = 0 /\ Byte(f, Other(i)) # 0 THEN SPACE
        ELSE Byte(f, At(i))]

Fetched(f, offset) ==
  [i \in 1..MAXstring |-> IF offset >= f.n THEN 0 ELSE Byte(f, offset + i - 1)]

\* [ms, ok]. Lengths are a size_t.
mcopy(s, f, type, indir, offset, linecnt) ==
  LET end == IF linecnt = 0 THEN f.n ELSE RegionEnd(f, offset, linecnt)
      Region(len) == [s |-> f.s + offset, s_len |-> len % W64, offset |-> offset,
                      rm_len |-> IF type = "regex" THEN 0 ELSE s.search.rm_len]
  IN IF ~indir /\ type = "search" THEN [ms |-> [s EXCEPT !.search = Region(f.n - offset)], ok |-> TRUE]
     ELSE IF ~indir /\ type = "regex" THEN [ms |-> [s EXCEPT !.search = Region(end - offset)], ok |-> TRUE]
     ELSE IF ~indir /\ type \in {"bestring16", "lestring16"}
     THEN IF offset >= f.n THEN [ms |-> file_magerror(s), ok |-> FALSE]
          ELSE [ms |-> [s EXCEPT !.value = String16(f, offset, type = "bestring16", s.value)], ok |-> TRUE]
     ELSE [ms |-> [s EXCEPT !.value = Fetched(f, offset)], ok |-> TRUE]

\* The number that an indirect offset is read as: [size, value].
IndirByte(p)    == [size |-> 1, value |-> LE(p, 1)]
IndirBeshort(p) == [size |-> 2, value |-> AsInt(BE(p, 2), W16)]
IndirLeshort(p) == [size |-> 2, value |-> AsInt(LE(p, 2), W16)]
IndirShort(p)   == [size |-> 2, value |-> LE(p, 2)]
IndirBelong(p)  == [size |-> 4, value |-> AsInt(BE(p, 4), W32)]
IndirMelong(p)  == [size |-> 4, value |-> AsInt(ME(p), W32)]
IndirLong(p)    == [size |-> 4, value |-> LE(p, 4)]

\* Without an operand the lowest byte is taken from the wrong place.
IndirLelong(p, off) ==
  [size |-> 4, value |-> AsInt(LE(IF off = 0 THEN <<p[3], p[2], p[3], p[4]>> ELSE p, 4), W32)]

Indir(t, p, off) ==
  CASE t = "byte" -> IndirByte(p) [] t = "beshort" -> IndirBeshort(p)
    [] t = "leshort" -> IndirLeshort(p) [] t = "short" -> IndirShort(p)
    [] t \in {"belong", "beid3"} -> IndirBelong(p)
    [] t \in {"lelong", "leid3"} -> IndirLelong(p, off)
    [] t = "melong" -> IndirMelong(p) [] OTHER -> IndirLong(p)

\* The operand of the offset may itself be read from the buffer; nothing
\* checks that it lies inside.
IndirOperand(m, f, offset, flip) ==
  LET off == AsInt(m.in_offset, W32)
      t == cvt_flip(m.in_type, flip)
      q == [i \in 1..8 |-> Byte(f, offset + off + i - 1)]
  IN IF m.in_op.indirect THEN Indir(t, q, 1).value ELSE off

\* Seven bits of each byte, and the length of the header.
Id3(v) ==
  LET h == Base \div 2
      D(i) == ((v \div Pow(i)) % Base) % h
  IN D(0) + D(1) * h + D(2) * h * h + D(3) * h * h * h + 10

IndirOffset(m, f, p, offset, flip) ==
  LET t == cvt_flip(m.in_type, flip)
      off == IndirOperand(m, f, offset, flip)
      v == Indir(t, p, off).value
      w == IF off = 0 THEN v % W32 ELSE Operate(m.in_op.op, v, off, W32)
      inv == IF m.in_op.inverse THEN W32 - 1 - w ELSE w
  IN IF t \in {"leid3", "beid3"} THEN Id3(inv) % W32 ELSE inv

\* Bytes that must be there; nothing is required for quads and 16-bit strings.
Needed(m) ==
  CASE m.type = "byte" -> 1 [] m.type \in Shorts -> 2
    [] m.type \in Longs \cup Dates \cup Floats -> 4 [] m.type \in Doubles -> 8
    [] m.type \in {"string", "pstring", "search"} -> m.vallen
    [] OTHER -> 0

NeedsData(m) == m.type \notin Quads \cup QDates \cup {"bestring16", "lestring16", "default", "name"}

\* The end of mget(), up to its nested call: rv is "0", "1", "-1", "use",
\* "indirect", or how the process dies.
Got(s, rv, offset) == [ms |-> s, rv |-> rv, offset |-> offset]

Converted(s, cv, offset) ==
  IF ~cv.ok THEN Got(file_magerror(s), "0", offset)
  ELSE IF cv.fpe THEN Got(s, "died", offset)
  ELSE Got([s EXCEPT !.value = cv.p], "1", offset)

mget_type(s, f, m, offset) ==
  IF NeedsData(m) /\ f.n < offset + Needed(m) THEN Got(s, "0", offset)
  ELSE IF m.type \in {"use", "indirect"} THEN Got(s, m.type, offset)
  ELSE IF m.type = "name" THEN
    IF CanAlloc(s) THEN Got([Allocated(s) EXCEPT !.out = Append(@, m.lineno)], "1", offset)
    ELSE Got(file_error(s), "-1", offset)
  ELSE Converted(s, mconvert(s.value, m, f.flip), offset)

\* The second fetch, at the offset that the first one has yielded.
mget_indir(s, f, m, t) ==
  LET Again(offset) ==
        LET Fetch(c) == IF c.ok THEN mget_type([c.ms EXCEPT !.offset = offset], f, m, offset)
                        ELSE Got(c.ms, "-1", offset)
        IN Fetch(mcopy(s, f, m.type, FALSE, offset, m.str_range))
      read == IF t \in {"ledouble", "bedouble"} THEN s.offset
              ELSE IndirOffset(m, f, s.value, s.offset, f.flip)
  IN IF t \notin {"ledouble", "bedouble"} /\ f.n < s.offset + Indir(t, s.value, 1).size
     THEN Got(s, "0", s.offset)
     ELSE IF "INDIROFFADD" \in m.flag /\ f.level = 0 THEN Got(s, "segv", s.offset)
     ELSE Again((read + (IF "INDIROFFADD" \in m.flag THEN s.li[f.level - 1].off ELSE 0)) % W32)

mget(s, f, m) ==
  LET indir == "INDIR" \in m.flag
      Fetch(c) == IF ~c.ok THEN Got(c.ms, "-1", s.offset)
                  ELSE IF indir THEN mget_indir(c.ms, f, m, cvt_flip(m.in_type, f.flip))
                  ELSE mget_type(c.ms, f, m, s.offset)
  IN Fetch(mcopy(s, f, m.type, indir, (s.offset + f.o) % W32, m.str_range))

-----------------------------------------------------------------------------
(* Comparing.                                                               *)

IsLower(c) == c \in {4, 5}
IsUpper(c) == c \in {6, 7}
ToLower(c) == IF IsUpper(c) THEN c - 2 ELSE c
ToUpper(c) == IF IsLower(c) THEN c + 2 ELSE c
IsSpace(c) == c \in {NL, CR, SPACE}

Pad(s, i) == IF i \in DOMAIN s THEN s[i] ELSE 0

RECURSIVE SkipSpaces(_, _)
SkipSpaces(b, j) == IF j \in DOMAIN b /\ IsSpace(b[j]) THEN SkipSpaces(b, j + 1) ELSE j

\* The difference of the first characters that differ, or 0; len counts the
\* characters of the pattern a.
RECURSIVE Compare(_, _, _, _, _, _)
Compare(a, b, i, j, len, flags) ==
  LET x == Pad(a, i)
      y == Pad(b, j)
      Step(d, jj) == IF d # 0 THEN d ELSE Compare(a, b, i + 1, jj, len - 1, flags)
  IN IF len = 0 THEN 0
     ELSE IF "c" \in flags /\ IsLower(x) THEN Step(ToLower(y) - x, j + 1)
     ELSE IF "C" \in flags /\ IsUpper(x) THEN Step(ToUpper(y) - x, j + 1)
     ELSE IF "W" \in flags /\ IsSpace(x)
     THEN IF ~IsSpace(y) THEN 1
          ELSE Step(0, IF IsSpace(Pad(a, i + 1)) THEN j + 1 ELSE SkipSpaces(b, j + 1))
     ELSE IF "w" \in flags /\ IsSpace(x) THEN Step(0, SkipSpaces(b, j))
     ELSE Step(y - x, j + 1)

file_strncmp(a, b, len, flags) == Compare(a, b, 1, 1, len, flags) % W64
file_strncmp16(a, b, len) == file_strncmp(a, b, len, {})

\* The search region as a sequence; it may reach beyond the buffer.
Region(s) == [i \in 1..MAXstring |-> IF i <= s.search.s_len /\ s.search.s + i <= Len(buf)
                                     THEN buf[s.search.s + i] ELSE 0]

\* [v, idx] of the search loop: without room for the pattern nothing differs.
SearchLoop(s, m) ==
  LET slen == IF m.vallen < MAXstring THEN m.vallen ELSE MAXstring
      limit == IF s.search.s_len < slen THEN 0
               ELSE LET room == s.search.s_len - slen + 1
                    IN IF room > Len(buf) + 1 THEN Len(buf) + 1 ELSE room
      tries == {i \in 0..(limit - 1) : m.str_range = 0 \/ i < m.str_range}
      V(i) == file_strncmp(m.s, SubSeq(Region(s), i + 1, MAXstring), slen, m.str_flags)
      hits == {i \in tries : V(i) = 0}
  IN IF tries = {} THEN [v |-> 0, idx |-> 0]
     ELSE IF hits = {} THEN [v |-> V(CHOOSE i \in tries : \A j \in tries : j <= i), idx |-> 0]
     ELSE [v |-> 0, idx |-> CHOOSE i \in hits : \A j \in hits : i <= j]

\* regcomp() and regexec(), for patterns without operators; a pattern with the
\* byte Base - 1 does not compile.
RegexLoop(s, m) ==
  LET fold == m.str_flags \cap {"c", "C"} # {}
      n == Len(m.s)
      r == Region(s)
      Same(x, y) == x = y \/ (fold /\ ToLower(x) = ToLower(y))
      hits == {i \in 0..(MAXstring - n) : i + n <= s.search.s_len
                                          /\ \A k \in 1..n : Same(m.s[k], r[i + k])}
  IN IF hits = {} THEN [v |-> 1, idx |-> 0]
     ELSE [v |-> 0, idx |-> CHOOSE i \in hits : \A j \in hits : i <= j]

Truth(b) == IF b THEN "1" ELSE "0"

\* Bits of a float in the order of the numbers, without those that are none.
FloatOrder(v) == IF 2 * v >= W32 THEN (W32 \div 2) - v ELSE v

Relates(reln, unsigned, v, l) ==
  LET a == IF unsigned THEN v ELSE AsInt(v, W64)
      b == IF unsigned THEN l ELSE AsInt(l, W64)
  IN CASE reln = "x" -> TRUE [] reln = "!" -> v # l [] reln = "=" -> v = l
       [] reln = ">" -> a > b [] reln = "<" -> a < b
       [] reln = "&" -> (v & l) = l [] OTHER -> (v & l) # l

RelatesFloat(m, v, l) ==
  CASE m.reln = "x" -> {"1"} [] m.reln = "!" -> {Truth(v # l)} [] m.reln = "=" -> {Truth(v = l)}
    [] m.reln = ">" -> {Truth(v > l)} [] m.reln = "<" -> {Truth(v < l)} [] OTHER -> {"-1"}

\* Doubles are compared by two variables that were never assigned.
RelatesDouble(m) ==
  IF m.reln = "x" THEN {"1"} ELSE IF m.reln \in {"!", "=", ">", "<"} THEN {"0", "1"} ELSE {"-1"}

CheckedNumber(s, m) ==
  CASE m.type = "byte" -> LE(s.value, 1) [] m.type \in Shorts -> LE(s.value, 2)
    [] m.type \in Longs \cup Dates -> LE(s.value, 4)
    [] m.type \in Quads \cup QDates -> LE(s.value, 8)
    [] m.type \in {"string", "pstring"} -> file_strncmp(m.s, s.value, m.vallen, m.str_flags)
    [] m.type \in {"bestring16", "lestring16"} -> file_strncmp16(m.s, s.value, m.vallen)
    [] OTHER -> 0

\* The set of outcomes [ms, rv].
magiccheck(s, m) ==
  LET l == IF IS_STRING(m.type) THEN 0 ELSE m.q
      look == IF m.type = "search" THEN SearchLoop(s, m) ELSE RegexLoop(s, m)
      Verdict(v) == Truth(Relates(m.reln, "UNSIGNED" \in m.flag, file_signextend(m, v), l))
      moved == [s EXCEPT !.search.s = IF m.type = "regex" THEN @ + look.idx ELSE @,
                         !.search.offset = @ + look.idx]
  IN IF m.type \in {"indirect", "use", "name"} THEN {[ms |-> s, rv |-> "1"]}
     ELSE IF m.type \in Floats
     THEN {[ms |-> s, rv |-> x] : x \in RelatesFloat(m, FloatOrder(LE(s.value, 4)), FloatOrder(m.q % W32))}
     ELSE IF m.type \in Doubles THEN {[ms |-> s, rv |-> x] : x \in RelatesDouble(m)}
     ELSE IF m.type = "regex" /\ \E i \in DOMAIN m.s : m.s[i] = Base - 1
     THEN {[ms |-> file_magerror(s), rv |-> "-1"]}
     ELSE IF m.type \in Searches THEN {[ms |-> moved, rv |-> Verdict(look.v)]}
     ELSE {[ms |-> s, rv |-> Verdict(CheckedNumber(s, m))]}

-----------------------------------------------------------------------------
(* Printing and the offset after an entry.                                  *)

StrLen(p) == LET z == {i \in DOMAIN p : p[i] = 0}
             IN IF z = {} THEN Len(p) ELSE (CHOOSE i \in z : \A j \in z : i <= j) - 1

\* A line of an "any string" test ends at the newline.
FirstLine(p) == LET z == {i \in DOMAIN p : p[i] = NL}
                IN IF z = {} THEN p ELSE [p EXCEPT ![CHOOSE i \in z : \A j \in z : i <= j] = 0]

TrimmedLen(p) == LET k == {i \in 1..StrLen(p) : ~IsSpace(p[i])}
                 IN IF k = {} THEN 0 ELSE CHOOSE i \in k : \A j \in k : j <= i

PrintsValue(m) == m.type \in Strings /\ m.reln \notin {"=", "!"}

Cut(p, m) == IF m.s = <<>> THEN FirstLine(p) ELSE p

\* Trailing spaces are cut off in place.
Trimmed(p, m) ==
  LET q == Cut(p, m) IN IF "T" \in m.str_flags THEN [q EXCEPT ![TrimmedLen(q) + 1] = 0] ELSE q

\* [ms, ok]; a regex needs memory for the text that matched.
mprint(s, m) ==
  LET need == IF m.type = "regex" THEN 2 ELSE 1
      t == IF PrintsValue(m) THEN [s EXCEPT !.value = Trimmed(@, m)] ELSE s
  IN IF m.type \in {"indirect", "use", "name"} THEN [ms |-> s, ok |-> TRUE]
     ELSE IF s.mem < need THEN [ms |-> file_error([s EXCEPT !.mem = 0]), ok |-> FALSE]
     ELSE [ms |-> [t EXCEPT !.mem = @ - need, !.out = Append(@, m.lineno)], ok |-> TRUE]

moffset(s, m) ==
  CASE m.type = "byte" -> s.offset + 1
    [] m.type \in Shorts -> s.offset + 2
    [] m.type \in Longs \cup Dates \cup Floats -> s.offset + 4
    [] m.type \in Quads \cup (QDates \ {"qwdate", "leqwdate", "beqwdate"}) \cup Doubles -> s.offset + 8
    [] m.type \in Strings /\ ~PrintsValue(m) -> s.offset + m.vallen
    [] PrintsValue(m) -> s.offset + StrLen(Cut(s.value, m))
                         + (IF m.type = "pstring" THEN file_pstring_length_size(m) ELSE 0)
    [] m.type \in Searches ->
         s.search.offset + (IF "s" \in m.str_flags THEN 0
                            ELSE IF m.type = "regex" THEN s.search.rm_len ELSE m.vallen)
    [] m.type \in {"default", "indirect"} -> s.offset
    [] OTHER -> 0

-----------------------------------------------------------------------------
(* match(), a step per entry.  A frame holds the locals of a call; ret is  *)
(* *returnval, which a "use" copies in and out.  done is the value of the  *)
(* return statement, got that of a nested call.  The history of the group: *)
(* the entries tested and taken, the end of the last taken entry of every  *)
(* level, and whether the shared levels were disturbed.                    *)

Frame(kind, magic, s, n, o, mode, text, flip, ret) ==
  [kind |-> kind, magic |-> magic, i |-> 1, cont |-> FALSE, level |-> 0, sep |-> FALSE,
   printed |-> FALSE, first |-> TRUE, s |-> s, n |-> n, o |-> o, mode |-> mode, text |-> text,
   flip |-> flip, ret |-> ret, list |-> 1, saved |-> <<>>, done |-> "none", got |-> "none",
   group |-> 1, seen |-> {}, taken |-> {}, ends |-> <<>>, disturbed |-> FALSE]

Step(s, f, st) == [ms |-> s, f |-> f, st |-> st]
Return(s, f, v) == Step(s, [f EXCEPT !.done = v], "ok")

NextTop(f) ==
  LET t == {j \in (f.i + 1)..Len(f.magic) : f.magic[j].cont_level = 0}
  IN IF t = {} THEN Len(f.magic) + 1 ELSE CHOOSE j \in t : \A k \in t : j <= k

\* Tests of the other kind: by the flags of the string, by the mode.
Skipped(f, m) ==
  /\ m.type # "name"
  /\ \/ IS_STRING(m.type) /\ f.text /\ "b" \in m.str_flags /\ "t" \notin m.str_flags
     \/ IS_STRING(m.type) /\ ~f.text /\ "t" \in m.str_flags /\ "b" \notin m.str_flags
     \/ f.mode \notin m.flag

Prints(s) == s.flags \cap {"MIME_TYPE", "MIME_ENCODING", "APPLE"} = {}

\* [ms, rv]: "1" ends the search.
handle_annotation(s, m) ==
  IF "APPLE" \in s.flags \/ ("MIME_TYPE" \in s.flags /\ m.mimetype)
  THEN IF CanAlloc(s) THEN [ms |-> [Allocated(s) EXCEPT !.out = Append(@, m.lineno)], rv |-> "1"]
       ELSE [ms |-> file_error(s), rv |-> "-1"]
  ELSE [ms |-> s, rv |-> "0"]

\* [ms, ok]
print_sep(s, first) ==
  IF s.flags \cap {"MIME_TYPE", "MIME_ENCODING"} # {} \/ first THEN [ms |-> s, ok |-> TRUE]
  ELSE IF CanAlloc(s) THEN [ms |-> [Allocated(s) EXCEPT !.out = Append(@, 0)], ok |-> TRUE]
  ELSE [ms |-> file_error(s), ok |-> FALSE]

Deeper(s, level) == file_check_mem(s, level)

\* An entry that matched: annotation, separator, space, description, then
\* the offset after it and the next level.
TakenLevel(g, f) ==
  IF g.segv THEN Step(g.ms, f, "segv")
  ELSE IF ~g.ok THEN Return(g.ms, f, "-1") ELSE Step(g.ms, f, "ok")

TakenOffset(s, f, m, off) ==
  LET levels == {l \in DOMAIN f.ends : l < m.cont_level} \cup {m.cont_level}
      f2 == [f EXCEPT !.printed = @ \/ m.desc # "", !.sep = @ \/ m.desc # "",
                      !.level = @ + 1, !.cont = TRUE, !.i = @ + 1,
                      !.ends = [l \in levels |-> IF l = m.cont_level THEN off ELSE f.ends[l]]]
  IN TakenLevel(Deeper([s EXCEPT !.li[f.level].off = off], f.level + 1), f2)

TakenPrint(d, f, m) ==
  IF ~d.ok THEN Return(d.ms, f, "-1")
  ELSE IF d.ms.linull THEN Step(d.ms, f, "segv")
  ELSE TakenOffset(d.ms, f, m, moffset(d.ms, m) % W32)

TakenSpace(c, f, m) ==
  IF ~c.ok THEN Return(c.ms, f, "-1")
  ELSE TakenPrint(IF Prints(c.ms) THEN mprint(c.ms, m) ELSE c, f, m)

TakenSep(b, f, m) ==
  IF ~b.ok THEN Return(b.ms, f, "-1")
  ELSE IF f.cont /\ f.sep /\ "NOSPACE" \notin m.flag /\ m.desc # "" /\ Prints(b.ms)
  THEN IF CanAlloc(b.ms) THEN TakenSpace([b EXCEPT !.ms = Allocated(@)], f, m)
       ELSE Return(file_error(b.ms), f, "-1")
  ELSE TakenSpace(b, f, m)

TakenAnnotation(a, f, m) ==
  IF a.rv # "0" THEN Return(a.ms, [f EXCEPT !.ret = 1], a.rv)
  ELSE TakenSep(IF m.desc # "" /\ ~(f.cont /\ f.printed) THEN print_sep(a.ms, f.first)
                ELSE [ms |-> a.ms, ok |-> TRUE], f, m)

Taken(s, f, m) == TakenAnnotation(handle_annotation(s, m), [f EXCEPT !.taken = @ \cup {f.i}], m)

\* A main entry that did not match takes its continuations along.
Flushed(s, f) == Step(s, [f EXCEPT !.i = NextTop(f)], "ok")

\* A continuation that was not taken.
Passed(s, f) == Step(s, [f EXCEPT !.i = @ + 1], "ok")

\* The flags of the level are for continuations only.
TakenContinuation(s, f, m) ==
  LET default == m.type = "default"
      t == [s EXCEPT !.li[f.level].last_match = TRUE, !.li[f.level].got_match = ~default]
  IN IF f.cont /\ default /\ s.li[f.level].got_match THEN Passed(t, f)
     ELSE Taken(IF f.cont THEN t ELSE s, f, m)

Fails(s, f) == Return(s, f, "-1")

\* What follows mget() with its result rv, as a set of outcomes.
Tested(s, f, m, rv) ==
  LET f1 == [f EXCEPT !.seen = @ \cup {f.i}, !.got = "none",
                      !.ret = IF rv = "1" /\ m.type = "indirect" THEN 1 ELSE @]
      After(c) ==
        CASE c.rv = "-1" -> Return(c.ms, f1, "-1")
          [] c.rv = "0" -> IF ~f.cont THEN Flushed(c.ms, f1)
                           ELSE Passed([c.ms EXCEPT !.li[f.level].last_match = FALSE], f1)
          [] OTHER -> TakenContinuation(c.ms, f1, m)
  IN IF rv \in {"segv", "died"} THEN {Step(s, f1, rv)}
     ELSE IF rv = "-1" THEN {Fails(s, f1)}
     ELSE IF rv = "0" /\ m.reln # "!" THEN {IF f.cont THEN Passed(s, f1) ELSE Flushed(s, f1)}
     ELSE {After(c) : c \in IF rv = "0" THEN {[ms |-> s, rv |-> "1"]} ELSE magiccheck(s, m)}

\* The call of match() for a frame, up to its loop.
Called(s, f) ==
  LET c == file_check_mem(s, 0)
  IN IF c.segv THEN Step(s, f, "segv") ELSE IF ~c.ok THEN Return(c.ms, f, "-1") ELSE Step(c.ms, f, "ok")

\* file_softmagic() from its first list on; without one it is 0.
file_softmagic(s, kind, start, n, mode, text) ==
  LET l == s.mlist[0].lists
      f == Frame(kind, IF l = <<>> THEN <<>> ELSE l[1], start, n, 0, mode, text, FALSE, 0)
  IN IF l = <<>> THEN Return(s, f, "0") ELSE Called(s, f)

Pop == SubSeq(stack, 1, Len(stack) - 1)
Running == status = "ok" /\ stack # <<>> /\ CurFrame.done = "none"
Apply(x) == ms' = x.ms /\ stack' = Append(Pop, x.f) /\ status' = x.st

\* The search region that magiccheck() goes through, and whether it is moved
\* by the offset of a "use".
Looked(s, f, m, rv) ==
  IF rv = "1" /\ m.type \in Searches
  THEN [hist EXCEPT !.s = s.search.s, !.s_len = s.search.s_len, !.moved = f.o > 0]
  ELSE [hist EXCEPT !.s_len = 0]

\* An entry is fetched and checked, unless it calls match() again.
Try(f, s) ==
  \E m \in {Entry(f)} : \E g \in {mget(s, f, m)} :
    LET caller == [f EXCEPT !.seen = @ \cup {f.i}, !.disturbed = TRUE, !.saved = g.ms.out]
        flipped == m.s # <<>> /\ m.s[1] = Base - 2
        Push(x) == ms' = x.ms /\ status' = x.st /\ stack' = Pop \o <<caller, x.f>>
        Use(named) ==
          IF named = <<>> THEN Apply(Fails(file_error(g.ms), [f EXCEPT !.seen = @ \cup {f.i}]))
          ELSE /\ Len(stack) < MaxDepth
               /\ Push(Called(g.ms, Frame("use", named, f.s, f.n, g.offset, f.mode, f.text, flipped, f.ret)))
    IN /\ hist' = Looked(g.ms, f, m, g.rv)
       /\ \/ g.rv \notin {"use", "indirect"} /\ \E x \in Tested(g.ms, f, m, g.rv) : Apply(x)
          \/ g.rv = "use" /\ Use(file_magicfind(g.ms, IF flipped THEN Tail(m.s) ELSE m.s))
          \/ /\ g.rv = "indirect" /\ Len(stack) < MaxDepth
             /\ Push(file_softmagic([g.ms EXCEPT !.out = <<>>, !.offset = 0], "indirect",
                                    f.s + g.offset, f.n - g.offset, "BINTEST", f.text))

\* The loop over the main entries.
match_entry ==
  /\ Running /\ ~CurFrame.cont /\ CurFrame.got = "none"
  /\ LET f == CurFrame
     IN \/ /\ f.i > Len(f.magic) /\ Apply(Return(ms, f, ToString(f.ret))) /\ UNCHANGED hist
        \/ /\ f.i <= Len(f.magic) /\ Skipped(f, Entry(f)) /\ Apply(Flushed(ms, f)) /\ UNCHANGED hist
        \/ /\ f.i <= Len(f.magic) /\ ~Skipped(f, Entry(f))
           /\ Try([f EXCEPT !.group = f.i, !.seen = {}, !.taken = {}, !.ends = <<>>,
                            !.disturbed = f.level > 0],
                  [ms EXCEPT !.offset = Entry(f).offset])
  /\ UNCHANGED <<buf, result, ld, maxmagic, last_cont_level>>

\* Mutant: an entry above the level is tried too.
TooDeep_never(f, m) == FALSE

TooDeep(f, m) == f.level < m.cont_level

\* Mutant: the level does not revert to that of the entry.
AtLevel_keep(f, m) == f

\* The level that an entry is tried at.
AtLevel(f, m) == [f EXCEPT !.level = IF @ > m.cont_level THEN m.cont_level ELSE @]

GroupEnds(f) == IF f.i > Len(f.magic) THEN TRUE ELSE Entry(f).cont_level = 0

\* The loop over the continuations.
match_continuation ==
  /\ Running /\ CurFrame.cont /\ CurFrame.got = "none"
  /\ ~GroupEnds(CurFrame)
  /\ LET m == Entry(CurFrame)
         f == AtLevel(CurFrame, m)
         s == [ms EXCEPT !.offset = (m.offset + (IF "OFFADD" \in m.flag THEN ms.li[f.level - 1].off ELSE 0)) % W32]
     IN \/ TooDeep(CurFrame, m) /\ Apply(Passed(ms, CurFrame)) /\ UNCHANGED hist
        \/ /\ ~TooDeep(CurFrame, m) /\ m.cond \in {"else", "elif"} /\ ms.li[f.level].last_match
           /\ Apply(Passed(s, f)) /\ UNCHANGED hist
        \/ /\ ~TooDeep(CurFrame, m) /\ ~(m.cond \in {"else", "elif"} /\ ms.li[f.level].last_match)
           /\ Try(f, s)
  /\ UNCHANGED <<buf, result, ld, maxmagic, last_cont_level>>

\* The entry after a nested call of match().
match_resume ==
  /\ Running /\ CurFrame.got # "none"
  /\ \E x \in Tested(ms, CurFrame, Entry(CurFrame), CurFrame.got) : Apply(x)
  /\ UNCHANGED <<buf, result, hist, ld, maxmagic, last_cont_level>>

\* After the continuations: the search goes on only with -k, or when nothing
\* has been printed. The level stays where it is.
match_end ==
  /\ Running /\ CurFrame.cont /\ CurFrame.got = "none"
  /\ GroupEnds(CurFrame)
  /\ LET f == CurFrame
         g == [f EXCEPT !.cont = FALSE, !.first = @ /\ ~f.printed,
                        !.ret = IF f.printed /\ Prints(ms) THEN 1 ELSE @]
     IN Apply(IF f.printed /\ "CONTINUE" \notin ms.flags THEN Return(ms, g, ToString(g.ret))
              ELSE Step(ms, g, "ok"))
  /\ UNCHANGED <<buf, result, hist, ld, maxmagic, last_cont_level>>

\* A call of match() returns: to the next list, to the entry that called it,
\* or to the user.
match_return ==
  /\ status = "ok" /\ stack # <<>> /\ CurFrame.done # "none"
  /\ LET f == CurFrame
         lists == ms.mlist[0].lists
         next == Frame(f.kind, lists[f.list + 1], f.s, f.n, 0, f.mode, f.text, FALSE, 0)
         c == Called(ms, [next EXCEPT !.list = f.list + 1])
         caller == stack[Len(stack) - 1]
         back == [caller EXCEPT !.got = f.done, !.ret = IF f.kind = "use" THEN f.ret ELSE @]
         need == (IF Prints(ms) THEN 1 ELSE 0) + 1
     IN \/ /\ f.kind # "use" /\ f.done = "0" /\ f.list < Len(lists)
           /\ Apply(c) /\ UNCHANGED result
        \/ /\ f.kind = "soft" /\ ~(f.done = "0" /\ f.list < Len(lists))
           /\ result' = f.done /\ stack' = <<>> /\ UNCHANGED <<ms, status>>
        \/ /\ f.kind = "use" /\ stack' = [Pop EXCEPT ![Len(Pop)] = back]
           /\ UNCHANGED <<ms, status, result>>
        \/ /\ f.kind = "indirect" /\ ~(f.done = "0" /\ f.list < Len(lists))
           /\ IF f.done = "1" /\ ms.mem < need
              THEN /\ stack' = [Pop EXCEPT ![Len(Pop)] = [back EXCEPT !.got = "-1"]]
                   /\ ms' = file_error([ms EXCEPT !.mem = 0, !.out = caller.saved])
              ELSE /\ stack' = [Pop EXCEPT ![Len(Pop)] = back]
                   /\ ms' = IF f.done # "1" THEN [ms EXCEPT !.out = caller.saved]
                            ELSE [ms EXCEPT !.mem = @ - need, !.out = caller.saved \o ms.out]
           /\ UNCHANGED <<status, result>>
  /\ UNCHANGED <<buf, hist, ld, maxmagic, last_cont_level>>

-----------------------------------------------------------------------------
(* The user of the library: file.c and magic.c.                             *)

soft == <<buf, stack, result>>

magic_load ==
  /\ stack = <<>> /\ hist.loads < MaxLoads
  /\ \E p \in Paths, a \in {"load", "compile", "check"} :
       /\ file_apprentice(p, a)
       /\ hist' = [hist EXCEPT !.loads = @ + 1, !.files = @ + Len(p), !.fns = p]
  /\ result' = "none" /\ UNCHANGED <<buf, stack>>

file_reset(s) == [s EXCEPT !.out = <<>>, !.had_err = FALSE]

\* magic_buffer(), for the part that looks at the magic: binary tests, then
\* text tests on what looks like text.
magic_buffer ==
  /\ Loading("idle") /\ stack = <<>> /\ result = "none" /\ hist.loads > 0
  /\ \E b \in Buffers, k \in {<<"BINTEST", TRUE>>, <<"BINTEST", FALSE>>, <<"TEXTTEST", TRUE>>} :
       LET x == file_softmagic(file_reset(ms), "soft", 0, Len(b), k[1], k[2])
       IN IF ms.mlist[0].null
          THEN ms' = file_error(ms) /\ result' = "-1" /\ UNCHANGED <<buf, stack, status>>
          ELSE IF ms.mlist[0].freed
          THEN status' = "segv" /\ UNCHANGED <<ms, buf, stack, result>>
          ELSE ms' = x.ms /\ stack' = <<x.f>> /\ status' = x.st /\ buf' = b /\ UNCHANGED result
  /\ UNCHANGED <<hist, ld, maxmagic, last_cont_level>>

magicvars == <<ms, ld, maxmagic, last_cont_level, status, buf, stack, result, hist>>

Init ==
  /\ \E fl \in FlagSets, n \in Mallocs : ms = file_ms_alloc(fl, n)
  /\ ld = Idle /\ maxmagic = [i \in 0..1 |-> 0] /\ last_cont_level = 0 /\ status = "ok"
  /\ buf = <<>> /\ stack = <<>> /\ result = "none"
  /\ hist = [loads |-> 0, files |-> 0, fns |-> <<>>, s |-> 0, s_len |-> 0, moved |-> FALSE]

Load == (\/ \E mime \in BOOLEAN : apprentice_1(mime)
         \/ load_1 \/ load_line \/ load_end \/ apprentice_build \/ apprentice_end)
        /\ UNCHANGED <<buf, stack, result, hist>>

Next ==
  \/ magic_load \/ magic_buffer \/ Load
  \/ match_entry \/ match_continuation \/ match_resume \/ match_end \/ match_return

Spec == Init /\ [][Next]_magicvars

-----------------------------------------------------------------------------
(* Properties.                                                              *)

\* The locals of the loader and of match() are as declared, and match() runs
\* only while nothing is being loaded.
MagicTypeOK ==
  /\ status \in {"ok", "segv", "died"} /\ result \in {"none", "-1", "0", "1"}
  /\ ld.at \in {"idle", "path", "files", "lines"} /\ ld.rv \in {"none", "0", "-1"}
  /\ ms.mem \in Nat /\ ms.offset \in 0..(W32 - 1)
  /\ stack # <<>> => ld.at = "idle" /\ ~ms.mlist[0].null
  /\ \A d \in DOMAIN stack :
       /\ stack[d].ret \in 0..1 /\ stack[d].i \in 1..(Len(stack[d].magic) + 1)
       /\ (d = 1) = (stack[d].kind = "soft")

\* Main entries of a list, with their continuations.
Tops(l) == {j \in DOMAIN l : l[j].cont_level = 0}

\* apprentice_sort() and set_last_default() try stronger tests first, and a
\* test without a strength of its own before every "default"; a test keeps
\* its continuations, in the order of their lines.
StrongestFirst ==
  \A k \in DOMAIN ms.mlist[0].lists :
    LET l == ms.mlist[0].lists[k]
    IN /\ \A i, j \in Tops(l) :
            i < j => /\ apprentice_magic_strength(l[i]) >= apprentice_magic_strength(l[j])
                     /\ l[i].type = "default" => l[j].type = "default" \/ l[j].factor_op # ""
       /\ \A j \in DOMAIN l \ Tops(l) : j > 1 /\ l[j - 1].lineno < l[j].lineno

\* A load that fails leaves no list to search, except that the first one may
\* be left freed when memory for the second is short (file_apprentice()).
FailedLoadNoLists ==
  ld.at = "idle" /\ ld.rv = "-1" =>
    \/ \A i \in 0..1 : ms.mlist[i].null
    \/ ms.mem = 0 /\ (hist.loads > 1 \/ ms.mlist[0].freed)

\* Every line of a file that loaded without an error is in exactly one list:
\* load_1() also saves the last test, coalesce_entries() leaves none out.
NothingDropped ==
  ld.at = "idle" /\ ld.rv = "0" /\ ~ms.had_err /\ ~ms.mlist[0].null /\ status = "ok" =>
    \A n \in DOMAIN hist.fns : hist.fns[n] \notin ld.bad =>
      \A f \in DOMAIN MagicFiles[hist.fns[n]] :
        LET lines == MagicFiles[hist.fns[n]][f].lines
            Places(no) == {<<i, k, j>> \in (0..1) \X (1..Len(ms.mlist[0].lists)) \X (1..Len(lines)) :
                             /\ k \in DOMAIN ms.mlist[i].lists /\ j \in DOMAIN ms.mlist[i].lists[k]
                             /\ ms.mlist[i].lists[k][j].lineno = no}
        IN \A x \in DOMAIN lines :
             lines[x].kind = "entry" => \E p \in Places(lines[x].lineno) : Places(lines[x].lineno) = {p}

\* The process is only killed when memory was short, by a second file (the
\* static maxmagic), or by the tests that the code does not expect.
CrashesAreKnown ==
  LET all == UNION {{ld.entry[i][k][1] : k \in DOMAIN ld.entry[i]} : i \in 0..1}
  IN /\ status = "segv" => \/ ms.mem = 0 \/ hist.files > 1
                           \/ stack # <<>> /\ "INDIROFFADD" \in Entry(CurFrame).flag
     /\ status = "died" => \/ \E m \in all : SortDies(m)
                           \/ stack # <<>> /\ Entry(CurFrame).num_mask # 0

\* The entry that controls entry j of a group, if the levels have no jump.
Controls(f, k, j) ==
  /\ k < j /\ f.magic[k].cont_level = f.magic[j].cont_level - 1
  /\ \A x \in (k + 1)..(j - 1) : f.magic[x].cont_level > f.magic[k].cont_level

\* match() tries a continuation exactly if the entry that controls it was
\* taken; an "else" may be passed over (comment above match()).
TestsExactlyTheChildren ==
  \A d \in DOMAIN stack : LET f == stack[d] IN f.cont =>
    \A j \in (f.group + 1)..(f.i - 1), k \in f.group..(f.i - 2) : Controls(f, k, j) =>
      /\ j \in f.seen => k \in f.taken
      /\ k \in f.taken /\ f.magic[j].cond \notin {"else", "elif"} => j \in f.seen

\* Every level below the current one holds the end of the entry that was
\* taken there, which relative offsets start from, although all calls of
\* match() share the levels: unless a nested call of this group overwrote
\* them, or the group began above level 0 because another one was taken.
RelativeToParent ==
  \A d \in DOMAIN stack : LET f == stack[d] IN
    Running /\ d = Len(stack) /\ f.cont /\ ~f.disturbed =>
      \A l \in 0..(f.level - 1) : l \in DOMAIN f.ends /\ ms.li[l].off = f.ends[l]

\* The level that match() is at has been allocated by file_check_mem().
LevelAllocated == Running => ~ms.linull /\ CurFrame.level \in DOMAIN ms.li

\* A "default" continuation is taken only if no sibling since the last
\* "default" was (level_info.got_match).
DefaultMeansNoSibling ==
  \A d \in DOMAIN stack : LET f == stack[d] IN
    f.cont /\ ~f.disturbed =>
      \A j, k \in f.taken :
        ~ /\ k < j /\ f.magic[j].type = "default" /\ f.magic[k].type # "default"
          /\ f.magic[k].cont_level = f.magic[j].cont_level
          /\ \A x \in (k + 1)..(j - 1) : /\ f.magic[x].cont_level >= f.magic[j].cont_level
                                         /\ f.magic[x].type # "default"
          /\ f.magic[j].cont_level > 0

\* What search and regex look through is inside the buffer: mget() compares
\* the offset with its size first, but without the offset of a "use".
SearchInside == hist.s_len > 0 /\ ~hist.moved => hist.s + hist.s_len <= Len(buf)

\* An error is reported as one, except by the types that mconvert() forgot.
ErrorMeansFailure ==
  result \in {"0", "1"} /\ ms.had_err =>
    \E i \in 0..1 : \E k \in DOMAIN ms.mlist[i].lists : \E j \in DOMAIN ms.mlist[i].lists[k] :
      ms.mlist[i].lists[k][j].type \in {"lelong", "ledate", "leldate", "leid3", "beid3",
                                        "belong", "bedate", "beldate"}

\* What a successful load leaves is all of the files, in the order of strength
\* (load_1, coalesce_entries, apprentice_sort, set_last_default).
LoadedInOrder == NothingDropped /\ StrongestFirst

\* match() visits the tree of continuations that the levels stand for.
ContinuationsInOrder == TestsExactlyTheChildren /\ DefaultMeansNoSibling

\* The levels that nested calls of match() share: allocated, and pointing to
\* where the entry one level up ended.
LevelsRight == MagicTypeOK /\ LevelAllocated /\ RelativeToParent

\* A failure, of memory, of a file or in a nested call, is reported and leaves
\* nothing half done; the process is killed only where that is listed.
FailuresKnown == FailedLoadNoLists /\ CrashesAreKnown /\ ErrorMeansFailure /\ SearchInside
=============================================================================
