------------------------------ MODULE Encoding ------------------------------
(***************************************************************************)
(* file/encoding.c, ascmagic.c and is_tar.c: which character encoding a    *)
(* buffer has, what is said about a text, and whether it is a tar archive. *)
(* Buffers are sequences of bytes.  A magic_set is reduced to its flags,   *)
(* its output, a sequence of words, the error flag, and the calls of       *)
(* malloc() that still succeed.                                            *)
(***************************************************************************)
EXTENDS Integers, Sequences, FiniteSets, SequencesExt

CONSTANTS
  HOWMANY,      \* bytes read of a file
  MAXLINELEN    \* longest sane line: 300

ASSUME EncodingAssumption == {HOWMANY, MAXLINELEN} \subseteq Nat \ {0}

-----------------------------------------------------------------------------
(* The magic_set: funcs.c.                                                  *)

MIME == {"MIME_TYPE", "MIME_ENCODING"}
Mime(s) == s.flags \cap MIME # {}
MimeType(s) == "MIME_TYPE" \in s.flags

file_error(s) == [s EXCEPT !.had_err = TRUE]

\* file_printf() for several words in a row: [ms, ok].
Printed(s, words) ==
  IF s.mem >= Len(words) THEN [ms |-> [s EXCEPT !.mem = @ - Len(words), !.out = @ \o words], ok |-> TRUE]
  ELSE [ms |-> file_error([s EXCEPT !.mem = 0, !.out = @ \o SubSeq(words, 1, s.mem)]), ok |-> FALSE]

file_printedlen(s) == Len(s.out)

\* A result [ms, rv] after words have been printed.
PrintedRv(p, rv) == [ms |-> p.ms, rv |-> IF p.ok THEN rv ELSE "-1"]

\* file_replace(): a last word is replaced; the number of replacements.
file_replace(s, word) ==
  IF s.out # <<>> /\ Last(s.out) = word
  THEN [ms |-> [s EXCEPT !.out = Append(Front(@), ",")], n |-> 1] ELSE [ms |-> s, n |-> 0]

-----------------------------------------------------------------------------
(* Encodings.                                                               *)

T == {7, 8, 9, 10, 12, 13, 27, 133} \cup 32..126
I == 160..255
X == 128..159 \ {133}

looks_ascii(b) == \A i \in DOMAIN b : b[i] \in T
looks_latin1(b) == \A i \in DOMAIN b : b[i] \in T \cup I
looks_extended(b) == \A i \in DOMAIN b : b[i] \in T \cup I \cup X

\* How many bytes follow the first one of a sequence, -1 if it is none.
Following(c) ==
  CASE c < 128 -> 0 [] c < 192 -> -1 [] c < 224 -> 1 [] c < 240 -> 2
    [] c < 248 -> 3 [] c < 252 -> 4 [] c < 254 -> 5 [] OTHER -> -1

\* What the first byte contributes to the character.
Lead(c) == LET n == Following(c) IN IF n = 0 THEN c ELSE c % (2 ^ (6 - n))

\* Mutant: the bytes that follow are not looked at.
BadFollower_none(c) == FALSE

BadFollower(c) == c < 128 \/ c >= 192

\* Decodes from byte i on: [valid, chars, ctrl, got]. A sequence cut off at the
\* end of the buffer is left out.
RECURSIVE Utf8(_, _, _)
Utf8(b, i, r) ==
  LET n == Following(b[i])
      tail == {k \in 1..n : i + k <= Len(b)}
      Join[k \in 0..n] == IF k = 0 THEN Lead(b[i]) ELSE Join[k - 1] * 64 + (b[i + k] % 64)
  IN IF i > Len(b) THEN r
     ELSE IF n = -1 \/ \E k \in tail : BadFollower(b[i + k]) THEN [r EXCEPT !.valid = FALSE]
     ELSE IF Cardinality(tail) < n THEN r
     ELSE Utf8(b, i + n + 1,
               [r EXCEPT !.chars = Append(@, Join[n]), !.got = @ \/ n > 0,
                         !.ctrl = @ \/ (n = 0 /\ b[i] \notin T)])

Decoded(b) == Utf8(b, 1, [valid |-> TRUE, chars |-> <<>>, ctrl |-> FALSE, got |-> FALSE])

file_looks_utf8(d) == IF ~d.valid THEN -1 ELSE IF d.ctrl THEN 0 ELSE IF d.got THEN 2 ELSE 1

BOM == <<239, 187, 191>>
HasBom(b) == Len(b) > 3 /\ SubSeq(b, 1, 3) = BOM

Ucs16(b) ==
  [i \in 1..((Len(b) - 2) \div 2) |->
     IF b[1] = 254 THEN b[2 * i + 2] + 256 * b[2 * i + 1] ELSE b[2 * i + 1] + 256 * b[2 * i + 2]]

looks_ucs16(b) ==
  /\ Len(b) >= 2 /\ SubSeq(b, 1, 2) \in {<<255, 254>>, <<254, 255>>}
  /\ \A i \in DOMAIN Ucs16(b) : Ucs16(b)[i] # 65534 /\ (Ucs16(b)[i] < 128 => Ucs16(b)[i] \in T)

ebcdic_to_ascii == <<
  0, 1, 2, 3, 156, 9, 134, 127, 151, 141, 142, 11, 12, 13, 14, 15,
  16, 17, 18, 19, 157, 133, 8, 135, 24, 25, 146, 143, 28, 29, 30, 31,
  128, 129, 130, 131, 132, 10, 23, 27, 136, 137, 138, 139, 140, 5, 6, 7,
  144, 145, 22, 147, 148, 149, 150, 4, 152, 153, 154, 155, 20, 21, 158, 26,
  32, 160, 161, 162, 163, 164, 165, 166, 167, 168, 213, 46, 60, 40, 43, 124,
  38, 169, 170, 171, 172, 173, 174, 175, 176, 177, 33, 36, 42, 41, 59, 126,
  45, 47, 178, 179, 180, 181, 182, 183, 184, 185, 203, 44, 37, 95, 62, 63,
  186, 187, 188, 189, 190, 191, 192, 193, 194, 96, 58, 35, 64, 39, 61, 34,
  195, 97, 98, 99, 100, 101, 102, 103, 104, 105, 196, 197, 198, 199, 200, 201,
  202, 106, 107, 108, 109, 110, 111, 112, 113, 114, 94, 204, 205, 206, 207, 208,
  209, 229, 115, 116, 117, 118, 119, 120, 121, 122, 210, 211, 212, 91, 214, 215,
  216, 217, 218, 219, 220, 221, 222, 223, 224, 225, 226, 227, 228, 93, 230, 231,
  123, 65, 66, 67, 68, 69, 70, 71, 72, 73, 232, 233, 234, 235, 236, 237,
  125, 74, 75, 76, 77, 78, 79, 80, 81, 82, 238, 239, 240, 241, 242, 243,
  92, 159, 83, 84, 85, 86, 87, 88, 89, 90, 244, 245, 246, 247, 248, 249,
  48, 49, 50, 51, 52, 53, 54, 55, 56, 57, 250, 251, 252, 253, 254, 255>>

from_ebcdic(b) == [i \in DOMAIN b |-> ebcdic_to_ascii[b[i] + 1]]

\* The characters before the first one that is not of the set, which a failed
\* test leaves behind.
Prefix(b, ok) ==
  LET bad == {i \in DOMAIN b : b[i] \notin ok}
  IN IF bad = {} THEN b ELSE SubSeq(b, 1, (CHOOSE i \in bad : \A j \in bad : i <= j) - 1)

\* [text, code, mime, ubuf]: the first test that succeeds.
encoding_of(b) ==
  LET Code(code, mime, u) == [text |-> TRUE, code |-> code, mime |-> mime, ubuf |-> u]
      bom == Decoded(SubSeq(b, 4, Len(b)))
      e == from_ebcdic(b)
  IN IF looks_ascii(b) THEN Code("ASCII", "us-ascii", b)
     ELSE IF HasBom(b) /\ file_looks_utf8(bom) > 0 THEN Code("UTF-8 with BOM", "utf-8", bom.chars)
     ELSE IF file_looks_utf8(Decoded(b)) > 1 THEN Code("UTF-8", "utf-8", Decoded(b).chars)
     ELSE IF looks_ucs16(b)
     THEN IF b[1] = 255 THEN Code("UTF-16 LE", "utf-16le", Ucs16(b)) ELSE Code("UTF-16 BE", "utf-16be", Ucs16(b))
     ELSE IF looks_latin1(b) THEN Code("ISO-8859", "iso-8859-1", b)
     ELSE IF looks_extended(b) THEN Code("Non-ISO", "unknown-8bit", b)
     ELSE IF looks_ascii(e) THEN Code("EBCDIC", "ebcdic", e)
     ELSE IF looks_latin1(e) THEN Code("International EBCDIC", "ebcdic", e)
     ELSE [text |-> FALSE, code |-> "none", mime |-> "binary", ubuf |-> Prefix(e, T \cup I)]

\* The two buffers that are worked in: [ms, ok].
Buffers(s) == IF s.mem < 2 THEN [ms |-> file_error([s EXCEPT !.mem = 0]), ok |-> FALSE]
              ELSE [ms |-> [s EXCEPT !.mem = @ - 2], ok |-> TRUE]

\* Without them it is called a text: there are no characters and no code.
NoBuffers == [text |-> TRUE, code |-> "NULL", mime |-> "binary", ubuf |-> <<>>]

file_encoding(s, b) ==
  LET f == Buffers(s) IN [ms |-> f.ms, e |-> IF f.ok THEN encoding_of(b) ELSE NoBuffers]

-----------------------------------------------------------------------------
(* ascmagic.c                                                               *)

\* The NULs at the end, but one byte stays.
trim_nuls(b) ==
  LET k == {i \in 2..Len(b) : b[i] # 0}
  IN IF b = <<>> THEN b
     ELSE SubSeq(b, 1, IF k = {} THEN 1 ELSE CHOOSE i \in k : \A j \in k : j <= i)

\* The bytes of one character.
Encode(c) ==
  LET n == CASE c < 128 -> 0 [] c < 2048 -> 1 [] c < 65536 -> 2 [] c < 2097152 -> 3
             [] c < 67108864 -> 4 [] OTHER -> 5
      mark == <<0, 192, 224, 240, 248, 252>>
  IN [i \in 1..(n + 1) |-> IF i = 1 THEN (c \div (64 ^ n)) + mark[n + 1]
                           ELSE ((c \div (64 ^ (n + 1 - i))) % 64) + 128]

encode_utf8(ubuf) == FlattenSeq([i \in DOMAIN ubuf |-> Encode(ubuf[i])])

\* The letter r (114) is taken for a carriage return, which is not.
Ret == 114

EndsLine(c) == c \in {10, Ret, 133}

\* Line ends of the text [crlf, lf, cr, nel], and whether a line is too long.
LineEnds(u, n) ==
  LET seen(i) == i > 1 /\ u[i - 1] = Ret
      Count(P(_)) == Cardinality({i \in DOMAIN u : P(i)})
      last == u # <<>> /\ Last(u) = Ret /\ n < HOWMANY
  IN [crlf |-> Count(LAMBDA i : u[i] = 10 /\ seen(i)), lf |-> Count(LAMBDA i : u[i] = 10 /\ ~seen(i)),
      cr |-> Count(LAMBDA i : u[i] # 10 /\ seen(i)) + (IF last THEN 1 ELSE 0),
      nel |-> Count(LAMBDA i : u[i] = 133),
      long |-> \E i \in DOMAIN u : i > MAXLINELEN /\ \A k \in (i - MAXLINELEN)..i : ~EndsLine(u[k])]

\* What is said about the text after its encoding.
AscWords(e, l, u) ==
  LET word(b, w) == IF b THEN <<w>> ELSE <<>>
      none == l.crlf = 0 /\ l.cr = 0 /\ l.nel = 0 /\ l.lf = 0
      odd == l.crlf # 0 \/ l.cr # 0 \/ l.nel # 0
  IN <<e.code, "text">> \o word(l.long, "long lines") \o word(none, "no line terminators")
     \o word(odd /\ l.crlf # 0, "CRLF") \o word(odd /\ l.cr # 0, "CR")
     \o word(odd /\ l.lf # 0, "LF") \o word(odd /\ l.nel # 0, "NEL")
     \o word(\E i \in DOMAIN u : u[i] = 27, "escapes") \o word(\E i \in DOMAIN u : u[i] = 8, "overstriking")

\* What softmagic has printed is kept, unless it ends in "text": the cases of
\* the switch fall through to the end of the function.
AscText(s, e, b, rv) ==
  LET Plain(t) == PrintedRv(Printed(t, AscWords(e, LineEnds(e.ubuf, Len(b)), e.ubuf)), "1")
      Kept(t) == [ms |-> t, rv |-> rv]
      Second(r) == IF r.n = 0 THEN Kept(Printed(r.ms, <<",">>).ms) ELSE Kept(r.ms)
      First(r) == IF r.n > 0 THEN Plain(r.ms) ELSE Second(file_replace(r.ms, "text executables"))
  IN IF file_printedlen(s) > 0 THEN First(file_replace(s, "text")) ELSE Plain(s)

\* soft is the result of file_softmagic() on the text as UTF-8, which also
\* printed word.
file_ascmagic_with_encoding(s, b, e, soft, word) ==
  LET asked == e.ubuf # <<>> /\ "NO_CHECK_SOFT" \notin s.flags
      rv == IF asked /\ soft = "1" THEN "1" ELSE "-1"
      Asc(p) ==
        IF ~e.text THEN [ms |-> p.ms, rv |-> "0"]
        ELSE IF ~p.ok THEN [ms |-> p.ms, rv |-> "-1"]
        ELSE IF Mime(p.ms)
        THEN IF file_printedlen(p.ms) = 0 /\ MimeType(p.ms)
             THEN PrintedRv(Printed(p.ms, <<"text/plain">>), "1") ELSE [ms |-> p.ms, rv |-> "1"]
        ELSE AscText(p.ms, e, b, rv)
  IN IF "APPLE" \in s.flags \/ Len(trim_nuls(b)) <= 1 THEN [ms |-> s, rv |-> "0"]
     ELSE IF asked /\ s.mem = 0 THEN [ms |-> file_error(s), rv |-> "-1"]
     ELSE IF asked /\ soft = "1" THEN Asc(Printed(s, <<word>>))
     ELSE IF asked /\ soft = "-1" THEN Asc([ms |-> file_error(s), ok |-> TRUE])
     ELSE Asc([ms |-> s, ok |-> TRUE])

\* Without the buffers the number of characters, ulen, is what memory held.
file_ascmagic(s, b, soft, word, ulen) ==
  LET t == trim_nuls(b)
      Unset(r) == CASE Len(t) <= 1 -> [ms |-> r.ms, rv |-> "0"]
                    [] Len(t) > 1 /\ "NO_CHECK_SOFT" \in s.flags -> [ms |-> r.ms, rv |-> "segv"]
                    [] OTHER -> [ms |-> file_error(r.ms), rv |-> "-1"]
      With(r) == IF ~r.e.text THEN [ms |-> r.ms, rv |-> "0"]
                 ELSE IF r.e.code = "NULL" /\ ulen > 0 THEN Unset(r)
                 ELSE file_ascmagic_with_encoding(r.ms, t, r.e, soft, word)
  IN IF "APPLE" \in s.flags THEN [ms |-> s, rv |-> "0"] ELSE With(file_encoding(s, t))

-----------------------------------------------------------------------------
(* is_tar.c: a header is [field, sum, magic]: the characters of the        *)
(* checksum field, the sum of all its bytes, and what magic says.          *)

SPACES == 32
Digit(c) == c \in 48..55

\* The value of the digits, -1 if the field is no number.
from_oct(f) ==
  LET skip == {i \in DOMAIN f : \A j \in 1..i : f[j] = SPACES}
      d == SubSeq(f, Cardinality(skip) + 1, Len(f))
      n == Cardinality({i \in DOMAIN d : \A j \in 1..i : Digit(d[j])})
      value == FoldLeft(LAMBDA a, c : a * 8 + c - 48, 0, SubSeq(d, 1, n))
  IN IF d = <<>> \/ (n < Len(d) /\ d[n + 1] \notin {0, SPACES}) THEN -1 ELSE value

\* The loop that takes the checksum field out of the sum starts from the
\* address of the field, cast to an int: a negative address leaves the sum as
\* it is, a positive one reads far beyond the buffer.
is_tar(h, address) ==
  CASE address = "positive" -> "segv"
    [] h.sum + SPACES * 8 # from_oct(h.field) -> "0"
    [] h.magic = "ustar  " -> "3" [] h.magic = "ustar" -> "2" [] OTHER -> "1"

file_is_tar(s, h, full, address) ==
  LET Named(tar) == IF tar \in {"0", "segv"} THEN [ms |-> s, rv |-> tar]
                    ELSE PrintedRv(Printed(s, IF Mime(s) THEN <<"application/x-tar">> ELSE <<"tar">>), "1")
  IN IF "APPLE" \in s.flags \/ ~full THEN [ms |-> s, rv |-> "0"] ELSE Named(is_tar(h, address))
=============================================================================
