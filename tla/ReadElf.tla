------------------------------ MODULE ReadElf -------------------------------
(***************************************************************************)
(* file/readelf.c, readelf.h and elfclass.h: what is said about an ELF     *)
(* file after soft magic has recognised it.  A file is                     *)
(*   magic, class, big   the first bytes, and whether a whole header is    *)
(*                       there;                                            *)
(*   hdr                 its ELF header;                                   *)
(*   body                the header fields that are found 48 bytes further *)
(*                       on, in what follows the header;                   *)
(*   ph, sh              its program and section headers.                  *)
(* A header past the end of the file is not there: pread() then changes    *)
(* nothing, and the header read before is used again.                      *)
(* io is how many reads of the file still succeed.                         *)
(***************************************************************************)
EXTENDS Cdf

CONSTANTS
  SIZE_MOD,      \* size_t is arithmetic modulo this: 2^64
  NOTE_SIGN,     \* the bit no size may have: 0x80000000
  BUFSIZ         \* bytes of a note segment that are read

ASSUME ElfAssumption ==
  /\ {SIZE_MOD, NOTE_SIGN, BUFSIZ} \subseteq Nat \ {0}
  /\ BUFSIZ < NOTE_SIGN /\ 2 * NOTE_SIGN < SIZE_MOD

HasSign(x) == (x \div NOTE_SIGN) % 2 = 1

file_badread(s) == file_error(s)

-----------------------------------------------------------------------------
(* The structures of readelf.h. Elf32_Char has 4 bytes, so that a 32-bit    *)
(* header is read as if e_ident were 64 bytes long; Elf64_Word has 2, so    *)
(* that the fields after e_flags are the ones before them.                  *)

Elf64_Ehdr(h) ==
  [type |-> h.type, machine |-> h.machine, phentsize |-> h.ehsize, phnum |-> h.phentsize,
   shentsize |-> h.phnum, shnum |-> h.shentsize, shstrndx |-> h.shnum]

Ehdr(f) == IF f.class = 64 THEN Elf64_Ehdr(f.hdr) ELSE f.body

xph_sizeof(class) == IF class = 32 THEN 32 ELSE 56
xsh_sizeof(class) == IF class = 32 THEN 40 ELSE 64
xnh_sizeof(class) == IF class = 32 THEN 12 ELSE 6

\* A 64-bit note header is read from its first 6 bytes: the size of the name
\* fills two fields, and high is its upper half.
Nhdr(class, n) ==
  IF class = 32 THEN n ELSE [n EXCEPT !.descsz = n.high, !.type = n.descsz, !.name = ""]

\* The upper half of the name is taken for the type of a 64-bit section.
Shdr(class, h) == IF class = 32 THEN h ELSE [h EXCEPT !.type = "NULL"]

prpsoffsets(class) == IF class = 32 THEN <<100, 84, 44, 28, 8>> ELSE <<136, 120, 56, 40, 16>>

-----------------------------------------------------------------------------
(* Notes: [namesz, high, descsz, name, type, good, join].                   *)

ELF_ALIGN(a, align) == ((((a + align - 1) % SIZE_MOD) \div align) * align) % SIZE_MOD

\* Versions are formatted by a scheme of their own per system.
Version(n) ==
  CASE n.name = "GNU" /\ n.namesz = 4 /\ n.type = 1 /\ n.descsz = 16 -> <<"for GNU", "os", "version">>
    [] n.name = "NetBSD" /\ n.namesz = 7 /\ n.type = 1 /\ n.descsz = 4 -> <<"for NetBSD", "version">>
    [] n.name = "FreeBSD" /\ n.namesz = 8 /\ n.type = 1 /\ n.descsz = 4 -> <<"for FreeBSD", "version">>
    [] n.name = "OpenBSD" /\ n.namesz = 8 /\ n.type = 1 /\ n.descsz = 4 -> <<"for OpenBSD">>
    [] n.name = "DragonFly" /\ n.namesz = 10 /\ n.type = 1 /\ n.descsz = 4 -> <<"for DragonFly", "version">>
    [] OTHER -> <<>>

BuildId(n) == n.name = "GNU" /\ n.namesz = 4 /\ n.type = 3 /\ n.descsz \in {16, 20}
Suse(n) == n.name = "SuSE" /\ n.namesz = 5 /\ n.type = 1 /\ n.descsz = 2

os_style(n) ==
  CASE n.name = "CORE" /\ n.namesz \in {4, 5} -> "SVR4" [] n.name = "FreeBSD" /\ n.namesz = 8 -> "FreeBSD"
    [] n.name = "NetBSD-CORE" /\ n.namesz >= 11 -> "NetBSD" [] OTHER -> "none"

Named(r) == [r EXCEPT !.flags = @ \cup {"CORE"}]

\* [s, flags, to]: a word is printed, and flag set, before size is returned.
Say(s, words, flags, new, size) ==
  LET Said(p) == [s |-> p.ms, flags |-> IF p.ok THEN flags \cup new ELSE flags, to |-> size]
  IN Said(Printed(s, words))

\* The name of the program: the first place where the contents n has one, or
\* one before it when everything in between can be printed as well.
ProgramAt(class, n, size, doff) ==
  LET off == prpsoffsets(class)
      ok == {i \in 1..5 : off[i] \in n.good /\ off[i] < n.descsz /\ doff + off[i] < size}
      i == CHOOSE x \in ok : \A y \in ok : x <= y
      back == {k \in i..5 : \A j \in (i + 1)..k : j \in n.join}
  IN IF ok = {} THEN 0 ELSE CHOOSE k \in back : \A j \in back : j <= k

\* From the label core on.
NoteCore(s, flags, n, class, doff, offset, size) ==
  LET style == os_style(n)
      Program(r) == IF r.ok THEN Named([s |-> r.ms, flags |-> flags \cup {"STYLE"}, to |-> size])
                       ELSE [s |-> r.ms, flags |-> flags \cup {"STYLE"}, to |-> size]
      Plain(r) ==
        IF ~r.ok THEN [s |-> r.ms, flags |-> flags, to |-> size]
        ELSE IF style = "NetBSD" /\ n.type = 1 THEN Program(Printed(r.ms, <<"from", "signal">>))
        ELSE IF style # "NetBSD" /\ n.type = 3 /\ "IS_CORE" \in flags /\ ProgramAt(class, n, size, doff) # 0
        THEN IF style = "none" /\ "STYLE" \notin flags
             THEN [Program(Printed(r.ms, <<"from">>)) EXCEPT !.flags = @ \ {"STYLE"}]
             ELSE Program(Printed(r.ms, <<"from">>))
        ELSE [s |-> r.ms, flags |-> IF style = "none" THEN flags ELSE flags \cup {"STYLE"}, to |-> offset]
  IN IF "CORE" \in flags THEN [s |-> s, flags |-> flags, to |-> size]
     ELSE Plain(IF style # "none" /\ "STYLE" \notin flags THEN Printed(s, <<style>>) ELSE [ms |-> s, ok |-> TRUE])

\* The checks for build id and versions, unless both have been seen.
NoteKinds(s, flags, n, class, doff, offset, size) ==
  LET Core(t, fl) == NoteCore(t, fl, n, class, doff, offset, size)
      Versioned(t, fl) == IF Version(n) # <<>> THEN Say(t, Version(n), fl, {"NOTE"}, size) ELSE Core(t, fl)
      Build(p) == IF p.ok THEN Core(p.ms, flags \cup {"BUILD_ID"}) ELSE [s |-> p.ms, flags |-> flags, to |-> size]
  IN IF {"NOTE", "BUILD_ID"} \subseteq flags THEN Core(s, flags)
     ELSE IF BuildId(n) THEN Build(Printed(s, <<"BuildID", "hex">>))
     ELSE Versioned(IF Suse(n) THEN Printed(s, <<"for SuSE">>).ms ELSE s, flags)

\* at is the place of the contents that are looked at: [doff, descsz, size].
donote(s, flags, note, class, from, size, align) ==
  LET n == Nhdr(class, note)
      offset == from + xnh_sizeof(class)
      doff == ELF_ALIGN(offset + n.namesz, align)
      next == ELF_ALIGN(doff + n.descsz, align)
      To(t, x) == [s |-> t, flags |-> flags, to |-> x, at |-> {}]
      Looked(k) == [s |-> k.s, flags |-> k.flags, to |-> k.to,
                    at |-> {[doff |-> doff, descsz |-> n.descsz, size |-> size]}]
      Greater(x) == IF x >= size THEN x ELSE size
  IN IF n.namesz = 0 /\ n.descsz = 0 THEN To(s, Greater(offset))
     ELSE IF HasSign(n.namesz) \/ HasSign(n.descsz) THEN To(Printed(s, <<"bad note">>).ms, offset)
     ELSE IF offset + n.namesz > size THEN To(s, doff)
     ELSE IF (doff + n.descsz) % SIZE_MOD > size THEN To(s, Greater(next))
     ELSE Looked(NoteKinds(s, flags, n, class, doff, next, size))

NoNote == [namesz |-> 0, high |-> 0, descsz |-> 0, name |-> "", type |-> 0, good |-> {}, join |-> {}]

\* The loop over the notes of one segment or section: offs are the offsets
\* donote() was called with, and the last one it returned, desc the contents
\* looked at.
RECURSIVE Notes(_, _, _, _, _)
Notes(r, notes, class, size, align) ==
  LET offset == Last(r.offs)
      Step(d) == Notes([s |-> d.s, flags |-> d.flags, offs |-> Append(r.offs, d.to), desc |-> r.desc \cup d.at],
                       IF notes = <<>> THEN notes ELSE Tail(notes), class, size, align)
  IN IF offset >= size \/ (offset = 0 /\ Len(r.offs) > 1) THEN r
     ELSE Step(donote(r.s, r.flags, IF notes = <<>> THEN NoNote ELSE Head(notes), class, offset, size, align))

-----------------------------------------------------------------------------
(* Program and section headers. Results are [s, flags, rv, offs, desc]: the *)
(* offsets of the notes looked at last, and the contents of all of them.    *)

End(r, rv) == [s |-> r.s, flags |-> r.flags, rv |-> rv, offs |-> r.offs, desc |-> r.desc]

\* pread(): another read succeeds.
Pread(s) == [s |-> IF s.io = 0 THEN file_badread(s) ELSE [s EXCEPT !.io = @ - 1], ok |-> s.io > 0]

Segment(r, h, class, align) ==
  LET size == IF h.filesz < BUFSIZ THEN h.filesz ELSE BUFSIZ
      Got(p) ==
        IF ~p.ok THEN End([r EXCEPT !.s = p.s], "-1")
        ELSE End(Notes([s |-> p.s, flags |-> r.flags, offs |-> <<0>>, desc |-> r.desc], h.notes, class, size, align), "0")
  IN Got(Pread(r.s))

\* The header that is used: the one before, if this one is past the end.
Header(h, last) == IF h = <<>> THEN last ELSE h[1]

RECURSIVE dophn_core(_, _, _, _)
dophn_core(r, ph, last, class) ==
  LET h == Header(Head(ph), last)
      Went(g) == IF g.rv = "-1" THEN g ELSE dophn_core(g, Tail(ph), h, class)
      Got(p) ==
        IF ~p.ok THEN End([r EXCEPT !.s = p.s], "-1")
        ELSE IF h.past \/ h.type # "NOTE" THEN dophn_core([r EXCEPT !.s = p.s], Tail(ph), h, class)
        ELSE Went(Segment([r EXCEPT !.s = p.s], h, class, 4))
  IN IF ph = <<>> THEN End(r, "0") ELSE Got(Pread(r.s))


\* The alignment of the notes of a segment: one that has the bit no size may
\* have is not used, which leaves room for such a size above it.
NoteAlign(h) == IF h.align = 0 \/ HasSign(h.align) THEN 4 ELSE h.align

\* link is [style, libs].
RECURSIVE dophn_exec(_, _, _, _, _, _)
dophn_exec(r, ph, last, class, shnum, link) ==
  LET h == Header(Head(ph), last)
      linked == [style |-> IF h.type = "DYNAMIC" THEN "dynamically" ELSE link.style,
                 libs |-> link.libs \/ h.type = "INTERP"]
      Next0(g) == IF g.rv = "-1" THEN g ELSE dophn_exec(g, Tail(ph), h, class, shnum, linked)
      Aligned(p) ==
        IF ~p.ok THEN End([r EXCEPT !.s = p.ms], "-1")
        ELSE IF shnum # 0 THEN Next0(End([r EXCEPT !.s = p.ms], "0"))
        ELSE Next0(Segment([r EXCEPT !.s = p.ms], h, class, NoteAlign(h)))
      Got(p) ==
        IF ~p.ok THEN End([r EXCEPT !.s = p.s], "-1")
        ELSE IF h.type # "NOTE" \/ h.past THEN Next0(End([r EXCEPT !.s = p.s], "0"))
        ELSE Aligned(IF HasSign(h.align) THEN Printed(p.s, <<"invalid note alignment">>) ELSE [ms |-> p.s, ok |-> TRUE])
      Linked(p) == End([r EXCEPT !.s = p.ms], IF p.ok THEN "0" ELSE "-1")
  IN IF ph = <<>> THEN Linked(Printed(r.s, <<link.style>>)) ELSE Got(Pread(r.s))

\* The capabilities of one section: each is [tag, val]. c is [s, ok, hw, sf].
RECURSIVE Caps(_, _)
Caps(c, caps) ==
  LET cap == Head(caps)
      Unknown(p) == IF p.ok THEN Caps([c EXCEPT !.s = p.ms], Tail(caps)) ELSE [c EXCEPT !.s = p.ms, !.ok = FALSE]
      Got(p) ==
        IF ~p.ok THEN [c EXCEPT !.s = p.s, !.ok = FALSE]
        ELSE CASE cap.tag = "NULL" -> Caps([c EXCEPT !.s = p.s], Tail(caps))
               [] cap.tag = "HW_1" -> Caps([c EXCEPT !.s = p.s, !.hw = @ \cup cap.val], Tail(caps))
               [] cap.tag = "SF_1" -> Caps([c EXCEPT !.s = p.s, !.sf = @ \cup cap.val], Tail(caps))
               [] OTHER -> Unknown(Printed(p.s, <<"unknown capability">>))
  IN IF caps = <<>> THEN c ELSE Got(Pread(c.s))

CapMachines == {"SPARC", "SPARCV9", "IA_64", "386", "AMD64"}

\* What is said about the capabilities: known ones by name, the rest together.
CapWords(mach, hw, sf) ==
  LET table == CASE mach \in {"SPARC", "SPARC32PLUS", "SPARCV9"} -> {"MUL32", "VIS"}
                 [] mach \in {"386", "IA_64", "AMD64"} -> {"FPU", "SSE"} [] OTHER -> {}
      If(b, w) == IF b THEN <<w>> ELSE <<>>
  IN If(hw # {}, "uses") \o SetToSeq(hw \cap table) \o If(hw \ table # {}, "hardware capability")
     \o If("FPUSED" \in sf, "frame pointer") \o If(sf \ {"FPKNWN", "FPUSED"} # {}, "software capability")

\* Every section is read after the name of the one before it: last is that
\* section, at first the one of the names. c is [hw, sf, stripped].
RECURSIVE doshn(_, _, _, _, _, _)
doshn(r, sh, last, class, mach, c) ==
  LET h == Shdr(class, Header(Head(sh), last))
      cc == [c EXCEPT !.stripped = @ /\ last.name # ".debug_info" /\ h.type # "SYMTAB"]
      Next0(g, d) == IF g.rv = "-1" THEN g ELSE doshn(g, Tail(sh), h, class, mach, d)
      Note(p) ==
        IF ~p.ok THEN End([r EXCEPT !.s = p.s], "-1")
        ELSE Next0(End(Notes([s |-> p.s, flags |-> r.flags, offs |-> <<0>>, desc |-> r.desc], h.notes, class, h.size, 4), "0"), cc)
      Section(a) ==
        IF ~a.ok THEN End([r EXCEPT !.s = file_error(a.s)], "-1")
        ELSE Note(Pread(a.s))
      Capable(d) == IF ~d.ok THEN End([r EXCEPT !.s = d.s], "-1")
                    ELSE Next0(End([r EXCEPT !.s = d.s], "0"), [cc EXCEPT !.hw = d.hw, !.sf = d.sf])
      Got(p) ==
        IF ~p.ok THEN End([r EXCEPT !.s = p.s], "-1")
        ELSE IF h.type # "SYMTAB" /\ h.past THEN Next0(End([r EXCEPT !.s = p.s], "0"), cc)
        ELSE IF h.type = "NOTE" THEN Section([s |-> [p.s EXCEPT !.mem = IF @ = 0 THEN 0 ELSE @ - 1], ok |-> p.s.mem > 0])
        ELSE IF h.type = "SUNW_cap" /\ mach \in CapMachines
        THEN Capable(Caps([s |-> p.s, ok |-> TRUE, hw |-> c.hw, sf |-> c.sf], h.caps))
        ELSE Next0(End([r EXCEPT !.s = p.s], "0"), cc)
      Name(p) == IF ~p.ok THEN End([r EXCEPT !.s = p.s], "-1") ELSE Got(Pread(p.s))
      Done(p) == End([r EXCEPT !.s = p.ms], IF p.ok THEN "0" ELSE "-1")
  IN IF sh = <<>> THEN Done(Printed(r.s, <<IF c.stripped THEN "stripped" ELSE "not stripped">> \o CapWords(mach, c.hw, c.sf)))
     ELSE Name(Pread(r.s))

-----------------------------------------------------------------------------
(* file_tryelf(): [s, flags, rv, offs, desc].                               *)

\* The headers that are there, and nothing for the rest of the announced ones.
Announced(hs, n) == [i \in 1..n |-> IF i <= Len(hs) THEN <<hs[i]>> ELSE <<>>]

Corrupt(r, words) == LET Said(p) == End([r EXCEPT !.s = p.ms], IF p.ok THEN "0" ELSE "-1")
                     IN Said(Printed(r.s, words))

\* elfclass.h
ElfClass(r, f, e, junk) ==
  LET Rv1(g) == IF g.rv = "-1" THEN g ELSE [g EXCEPT !.rv = "1"]
      strtab == IF e.shstrndx < Len(f.sh) THEN f.sh[e.shstrndx + 1] ELSE junk.sh
      Names(g, p) == IF ~p.ok THEN End([g EXCEPT !.s = p.s], "-1")
                     ELSE doshn([g EXCEPT !.s = p.s], Announced(f.sh, e.shnum), Shdr(f.class, strtab), f.class,
                                e.machine, [hw |-> {}, sf |-> {}, stripped |-> TRUE])
      Sections0(g) == IF g.rv = "-1" THEN g
                      ELSE IF e.shentsize # xsh_sizeof(f.class) THEN Corrupt(g, <<"corrupted section header size">>)
                      ELSE Names(g, Pread(g.s))
      bad == e.phentsize # xph_sizeof(f.class)
      core == [r EXCEPT !.flags = {"IS_CORE"}]
  IN Rv1(CASE e.type = "CORE" ->
                IF bad THEN Corrupt(core, <<"corrupted program header size">>)
                ELSE dophn_core(core, Announced(f.ph, e.phnum), junk.ph, f.class)
           [] e.type \in {"EXEC", "DYN"} ->
                Sections0(IF bad THEN Corrupt(r, <<"corrupted program header size">>)
                          ELSE dophn_exec(r, Announced(f.ph, e.phnum), junk.ph, f.class, e.shnum,
                                          [style |-> "statically", libs |-> FALSE]))
           [] e.type = "REL" -> Sections0(End(r, "0"))
           [] OTHER -> End(r, "0"))

\* The descriptor has been made one that can be seeked, see FileProgram.
file_tryelf(s, f, junk) ==
  LET r == [s |-> s, flags |-> {}, rv |-> "0", offs |-> <<0>>, desc |-> {}]
  IN IF Mime(s) \/ "APPLE" \in s.flags \/ ~f.magic THEN r
     ELSE IF s.io = 0 THEN [r EXCEPT !.s = file_badread(s), !.rv = "-1"]
     ELSE IF f.class \notin {32, 64} THEN Corrupt(r, <<"unknown class">>)
     ELSE IF ~f.big THEN r
     ELSE ElfClass([r EXCEPT !.s.io = @ - 1], f, Ehdr(f), junk)
=============================================================================
