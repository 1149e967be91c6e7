------------------------------- MODULE MCFile -------------------------------
(* An instance of FileProgram for TLC. *)
EXTENDS FileProgram

Dir(type, name, first, size) == [type |-> type, name |-> name, first |-> first, size |-> size]
Words(a, b, c, d) == [words |-> <<a, b, c, d>>, dirs |-> <<>>]
Dirs(d, e) == [words |-> <<0, 0, 0, 0>>, dirs |-> <<d, e>>]
Plain == Words(0, 0, 0, 0)

Prop(id, type, n, len, text) ==
  [id |-> id, type |-> type, vector |-> n # 1, n |-> n, past |-> FALSE, long |-> FALSE, len |-> len, text |-> text]
Sum(props) ==
  [need |-> 8, sd_offset |-> 8, sh_len |-> 8, si_count |-> 1, sh_properties |-> Len(props), big |-> FALSE, props |-> props]
App == Prop("NAME_OF_APPLICATION", "STRING", 1, 5, "msword")
Num == Prop("PAGES", "SIGNED32", 1, 0, "none")

Head0 == [magic |-> TRUE, sec_size_p2 |-> 4, short_sec_size_p2 |-> 2, master |-> <<0, 1, -1>>, num_master |-> 0,
          first_master |-> -2, first_dir |-> 2, first_short |-> 5, min_size |-> 10]

\* Sectors 0 and 1 hold the table, 2 and 8 the directory, 3, 4 and 9 a stream,
\* 5 the short table, 6 the short stream, 7 more of the master table.
Sector(chain, short, summary) ==
  <<Words(-3, -3, -2, chain), Words(-2, -2, -2, -2), Dirs(Dir("root", "Root", 6, 16), summary),
    Plain, Plain, short, Plain, Words(1, 1, 1, -2), Dirs(Dir("stream", "WordDocument", 3, 20), Dir("empty", "", 0, 0)), Plain>>

Long == Dir("stream", "SummaryInformation", 3, 20)
Short == Dir("stream", "SummaryInformation", 0, 8)
Doc(chain, short, summary, sum) ==
  [h |-> Head0, sector |-> Sector(chain, short, summary), buffered |-> 1, sum |-> sum]

Ends == Words(1, -2, -2, -2)
Good == Doc(4, Ends, Long, Sum(<<App, Num>>))
Docs ==
  [good |-> Good,
   title |-> Doc(4, Ends, Long, Sum(<<Num>>)),
   cycle |-> Doc(3, Ends, Long, Sum(<<App>>)),
   far |-> Doc(30, Ends, Long, Sum(<<App>>)),
   beyond |-> Doc(99, Ends, Long, Sum(<<App>>)),
   unread |-> Doc(11, Ends, Long, Sum(<<App>>)),
   short |-> Doc(4, Ends, Short, Sum(<<Num>>)),
   shortend |-> Doc(4, Words(4, -2, -2, -2), Short, Sum(<<Num>>)),
   shortpast |-> Doc(4, Words(2, -2, 3, 9), Short, Sum(<<Num>>)),
   vector |-> Doc(4, Ends, Long, Sum(<<Prop("TITLE", "STRING", 2, 3, "t"), Num, Num>>)),
   empty |-> Doc(4, Ends, Long, Sum(<<Prop("TITLE", "STRING", 0, 3, "t")>>)),
   wide |-> Doc(4, Ends, Long, Sum(<<Prop("TITLE", "WSTRING", 1, 0, "t")>>)),
   past |-> Doc(4, Ends, Long, Sum(<<Num, [Num EXCEPT !.past = TRUE]>>)),
   long |-> Doc(4, Ends, Long, Sum(<<[App EXCEPT !.long = TRUE]>>)),
   bool |-> Doc(4, Ends, Long, Sum(<<[Num EXCEPT !.type = "BOOL"]>>)),
   two |-> Doc(4, Ends, Long, [Sum(<<Num>>) EXCEPT !.si_count = 2]),
   many |-> Doc(4, Ends, Long, [Sum(<<Num>>) EXCEPT !.si_count = 9]),
   none |-> Doc(4, Ends, Long, [Sum(<<>>) EXCEPT !.si_count = 2]),
   large |-> Doc(4, Ends, Long, [Sum(<<Num>>) EXCEPT !.big = TRUE]),
   outside |-> Doc(4, Ends, Long, [Sum(<<Num>>) EXCEPT !.sh_len = 90]),
   needy |-> Doc(4, Ends, Long, [Sum(<<Num>>) EXCEPT !.need = 90]),
   nosum |-> Doc(4, Ends, Dir("stream", "PowerPoint", 3, 20), Sum(<<Num>>)),
   master |-> [Good EXCEPT !.h.num_master = 7, !.h.master = <<0, 1, -2, -1>>],
   more |-> [Good EXCEPT !.h.num_master = 7, !.h.master = <<0, -1>>, !.sector[8] = Words(1, -1, -1, -2)],
   noroot |-> [Good EXCEPT !.sector[3].dirs[1].type = "empty"],
   badmaster |-> [Good EXCEPT !.h.master = <<0, 12, -1>>],
   badshort |-> [Good EXCEPT !.h.first_short = 77],
   baddir |-> [Good EXCEPT !.h.first_dir = 77],
   badsst |-> [Good EXCEPT !.sector[3].dirs[1].first = 77],
   sizes |-> [Good EXCEPT !.h.sec_size_p2 = 21]]

NoDoc == [Good EXCEPT !.h.magic = FALSE]

Hdr(type, n, k) ==
  [type |-> type, machine |-> "386", phentsize |-> 32, phnum |-> n, shentsize |-> 40, shnum |-> k, shstrndx |-> 0]
Ph(type, align, notes) == [type |-> type, past |-> FALSE, filesz |-> 40, align |-> align, notes |-> notes]
Sh(name, type, notes, caps) ==
  [name |-> name, type |-> type, past |-> FALSE, size |-> 40, notes |-> notes, caps |-> caps]
Nt(name, namesz, type, descsz) ==
  [namesz |-> namesz, high |-> 0, descsz |-> descsz, name |-> name, type |-> type, good |-> {8, 28}, join |-> {}]
Elf(body, ph, sh) ==
  [magic |-> TRUE, class |-> 32, big |-> TRUE, body |-> body, ph |-> ph, sh |-> sh,
   hdr |-> [type |-> body.type, machine |-> body.machine, ehsize |-> 64, phentsize |-> 56, phnum |-> Len(ph),
            shentsize |-> 64, shnum |-> Len(sh)]]

\* A 64-bit file whose fields lie where they are looked for. A note has the two
\* halves of the size of its name, which are read as two sizes.
Wide(ph) ==
  [Elf(Hdr("EXEC", 0, 0), ph, <<>>) EXCEPT !.class = 64, !.hdr =
     [type |-> "EXEC", machine |-> "386", ehsize |-> 56, phentsize |-> Len(ph), phnum |-> 64, shentsize |-> 0, shnum |-> 0]]
Nt64(low, high) == [Nt("x", low, 1, 4) EXCEPT !.high = high]

Named0 == <<Nt("CORE", 4, 3, 12), Nt("NetBSD-CORE", 11, 1, 4)>>
Tags == <<[tag |-> "HW_1", val |-> {"FPU", "odd"}], [tag |-> "SF_1", val |-> {"FPUSED"}],
          [tag |-> "NULL", val |-> {}], [tag |-> "odd", val |-> {}]>>
Elves ==
  [core |-> Elf(Hdr("CORE", 3, 0), <<Ph("LOAD", 4, <<>>), Ph("NOTE", 4, Named0), Ph("NOTE", 4, Named0)>>, <<>>),
   plaincore |-> Elf(Hdr("CORE", 2, 0), <<Ph("NOTE", 4, <<Nt("LINUX", 4, 3, 12)>>), Ph("NOTE", 4, <<Nt("FreeBSD", 8, 2, 4)>>)>>, <<>>),
   badcore |-> Elf([Hdr("CORE", 1, 0) EXCEPT !.phentsize = 7], <<>>, <<>>),
   exec |-> Elf(Hdr("EXEC", 4, 0), <<Ph("DYNAMIC", 4, <<>>), Ph("INTERP", 4, <<>>), Ph("NOTE", 4, <<Nt("GNU", 4, 1, 16)>>),
                Ph("NOTE", 64, <<Nt("OpenBSD", 8, 1, 4)>>)>>, <<>>),
   short |-> Elf(Hdr("EXEC", 3, 0), <<Ph("NOTE", 4, <<Nt("GNU", 4, 3, 16)>>)>>, <<>>),
   padded |-> Elf(Hdr("EXEC", 1, 0), <<[Ph("NOTE", 32, <<Nt("SuSE", 5, 1, 2), Nt("x", 4, 1, 60)>>) EXCEPT !.filesz = 60]>>, <<>>),
   signs |-> Elf(Hdr("EXEC", 1, 0), <<Ph("NOTE", 4, <<Nt("x", 4, 1, 4), Nt("x", 64, 1, 4), Nt("x", 4, 1, 70)>>)>>, <<>>),
   rel |-> Elf(Hdr("REL", 0, 3), <<>>, <<Sh(".text", "PROGBITS", <<>>, <<>>), Sh(".debug_info", "NOTE", <<Nt("GNU", 4, 3, 20)>>, <<>>),
               Sh(".cap", "SUNW_cap", <<>>, Tags)>>),
   syms |-> Elf(Hdr("DYN", 0, 4), <<>>, <<Sh(".a", "SYMTAB", <<>>, <<>>), Sh(".debug_info", "PROGBITS", <<>>, <<>>),
                [Sh(".b", "NOTE", <<>>, <<>>) EXCEPT !.past = TRUE]>>),
   badsh |-> Elf([Hdr("REL", 0, 1) EXCEPT !.shentsize = 9], <<>>, <<>>),
   other |-> Elf(Hdr("none", 0, 0), <<>>, <<>>),
   wide |-> [Elf(Hdr("EXEC", 1, 1), <<Ph("NOTE", 4, Named0)>>, <<Sh(".text", "NOTE", <<>>, <<>>)>>) EXCEPT !.class = 64],
   round |-> Wide(<<Ph("NOTE", 8, <<Nt64(4, 4), Nt64(2, 12), Nt64(1, 40)>>), Ph("NOTE", 160, <<Nt64(4, 20), Nt64(4, 4)>>)>>),
   zero |-> Wide(<<Ph("NOTE", 0, <<Nt64(6, 22), Nt64(4, 4)>>), Ph("NOTE", 191, <<Nt64(62, 0)>>)>>),
   sign |-> Wide(<<Ph("NOTE", 240, <<Nt64(4, 20), Nt64(4, 8)>>), Ph("NOTE", 64, <<Nt64(4, 60)>>)>>),
   odd |-> [Elf(Hdr("EXEC", 0, 0), <<>>, <<>>) EXCEPT !.class = 1],
   cut |-> [Elf(Hdr("EXEC", 0, 0), <<>>, <<>>) EXCEPT !.big = FALSE]]

NoElf == [Elf(Hdr("none", 0, 0), <<>>, <<>>) EXCEPT !.magic = FALSE]
NoTar == [field |-> <<32>>, sum |-> 7, magic |-> ""]

Thing(bytes) ==
  [size |-> Len(bytes), bytes |-> bytes, methods |-> <<>>, inner |-> <<>>, tar |-> NoTar, cdf |-> NoDoc, elf |-> NoElf]
Big(x) == [x EXCEPT !.size = 512]
Bin == <<0, 1, 200, 255>>

Texts ==
  [empty |-> <<>>, one |-> <<65>>, ascii |-> <<65, 66, 10>>, lines |-> <<65, 114, 10, 114, 65, 133, 66>>,
   longline |-> <<65, 66, 67, 68, 27, 8>>, utf8 |-> <<195, 169, 65, 226, 130, 172>>, cut8 |-> <<195, 169, 226, 130>>,
   over8 |-> <<192, 175>>, follow8 |-> <<195, 65, 195, 169>>, four8 |-> <<240, 159, 152, 128>>, five8 |-> <<248, 136, 128, 128, 128>>, ctrl8 |-> <<195, 169, 1>>,
   bom |-> <<239, 187, 191, 65>>, utf16 |-> <<255, 254, 65, 0>>, utf16be |-> <<254, 255, 0, 65>>,
   latin |-> <<65, 233>>, extended |-> <<65, 129>>, ebcdic |-> <<193, 21, 37>>, ebcdic8 |-> <<4, 193, 65>>, binary |-> Bin, nuls |-> <<65, 0, 0>>]

Others ==
  [gz |-> [Thing(Bin) EXCEPT !.methods = <<"gzipped">>, !.inner = <<65, 10>>],
   z |-> [Thing(Bin) EXCEPT !.methods = <<"z">>, !.inner = <<65, 66, 67, 68, 69, 70, 71>>],
   zempty |-> [Thing(Bin) EXCEPT !.methods = <<"z">>, !.inner = <<>>],
   bz |-> [Thing(Bin) EXCEPT !.methods = <<"bz", "z">>, !.inner = <<65, 66>>],
   tar |-> [Big(Thing(Bin)) EXCEPT !.tar = [field |-> <<32, 52, 48, 55, 0>>, sum |-> 7, magic |-> "ustar"]],
   gnutar |-> [Big(Thing(Bin)) EXCEPT !.tar = [field |-> <<52, 48, 55, 32>>, sum |-> 7, magic |-> "ustar  "]],
   oldtar |-> [Big(Thing(Bin)) EXCEPT !.tar = [field |-> <<52, 48, 55>>, sum |-> 7, magic |-> ""]],
   nottar |-> [Big(Thing(Bin)) EXCEPT !.tar = [field |-> <<52, 57>>, sum |-> 7, magic |-> ""]]]

MCContents ==
  [c \in ({"text"} \X DOMAIN Texts) \cup ({"other"} \X DOMAIN Others) \cup ({"cdf"} \X DOMAIN Docs)
         \cup ({"elf"} \X DOMAIN Elves) |->
     CASE c[1] = "text" -> Thing(Texts[c[2]])
       [] c[1] = "other" -> Others[c[2]]
       [] c[1] = "cdf" -> [Big(Thing(Bin)) EXCEPT !.cdf = Docs[c[2]]]
       [] c[1] = "elf" -> [Big(Thing(Bin)) EXCEPT !.elf = Elves[c[2]]]]

File0(kinds, contents, options) == [kind : kinds, mode : {<<>>}, content : contents, options : {options}]
Special(files, mode) == {[f EXCEPT !.mode = mode] : f \in files}
Of(class) == {c \in DOMAIN MCContents : c[1] = class}
Ascii == {<<"text", "ascii">>}
MCFiles ==
  File0({"reg"}, Of("text"), {"r", "i", "encoding", "enc"}) \cup File0({"reg"}, Of("other"), {"r", "z", "type", "encoding"})
    \cup File0({"reg"}, Of("cdf"), {"r", "i"}) \cup File0({"reg"}, Of("elf"), {"r"})
    \cup File0({"reg"}, Ascii, {"r", "p", "s", "f", "c", "v", "h", "L", "bad", "text", "soft", "tar", "cdf", "apple"})
    \cup File0({"dir", "chr", "fifo", "lnk", "badlnk", "sock", "missing", "unreadable", "stdin"}, Ascii, {"r", "i", "s", "L", "apple", "p"})
    \cup Special(File0({"reg"}, Ascii, {"r", "i", "soft"}), <<"setuid", "setgid">>)
    \cup Special(File0({"dir", "chr"}, Ascii, {"r", "i", "s"}), <<"sticky">>)
    \cup File0({"fifo", "stdpipe"}, {<<"text", "empty">>, <<"other", "z">>, <<"elf", "exec">>}, {"r", "z"})

MCSoftResults ==
  {[rv |-> "0", word |-> ""], [rv |-> "1", word |-> "ELF"], [rv |-> "1", word |-> "text"], [rv |-> "-1", word |-> ""]}
MCJunk ==
  {[address |-> a, ulen |-> IF a = "positive" THEN 2 ELSE 0, type |-> "NULL", ph |-> Ph("NULL", 4, <<>>), sh |-> Sh("", "NULL", <<>>, <<>>)] : a \in {"positive", "negative"}}
=============================================================================
