-------------------------------- MODULE Cdf ---------------------------------
(***************************************************************************)
(* file/cdf.c and readcdf.c: Composite Document Files.  A document is      *)
(*   h        its header;                                                  *)
(*   sector   its sectors, numbered from 0: each one's words, as a table   *)
(*            reads them, and its directory entries, as cdf_read_dir()     *)
(*            reads them;                                                  *)
(*   sum      what the summary stream holds.                               *)
(* The host is little endian: the swaps of cdf.c change nothing.  What is  *)
(* dumped on stderr is left out, what the dumps read and allocate is not.  *)
(***************************************************************************)
EXTENDS Encoding

CONSTANTS
  CDF_LOOP_LIMIT,      \* 10000
  CDF_SEC_LIMIT,       \* UINT32_MAX / (4 * ss)
  CDF_PROP_LIMIT,      \* UINT32_MAX / (4 * sizeof(*inp))
  CDF_DIRECTORY_SIZE   \* bytes of a directory entry: 128

ASSUME CdfAssumption ==
  {CDF_LOOP_LIMIT, CDF_SEC_LIMIT, CDF_PROP_LIMIT, CDF_DIRECTORY_SIZE} \subseteq Nat \ {0}

CDF_SECID_FREE == -1

CDF_SEC_SIZE(h) == 2 ^ h.sec_size_p2
CDF_SHORT_SEC_SIZE(h) == 2 ^ h.short_sec_size_p2
WordsPerSector(h) == CDF_SEC_SIZE(h) \div 4

-----------------------------------------------------------------------------
(* The heap of one call of file_trycdf(): the live blocks, those freed      *)
(* twice, and the reads outside a block.                                    *)

NoHeap == [live |-> {}, twice |-> {}, outside |-> {}]

Freed(heap, b) ==
  IF b \in heap.live THEN [heap EXCEPT !.live = @ \ {b}] ELSE [heap EXCEPT !.twice = @ \cup {b}]

Outside(heap, what) == [heap EXCEPT !.outside = @ \cup {what}]

\* calloc(), malloc() or realloc() of block b, in the machine [ms, heap].
Alloc(m, b) ==
  IF m.ms.mem = 0 THEN [m |-> m, ok |-> FALSE]
  ELSE [m |-> [ms |-> [m.ms EXCEPT !.mem = @ - 1], heap |-> [m.heap EXCEPT !.live = @ \cup {b}]], ok |-> TRUE]

FreeIn(m, b) == [m EXCEPT !.heap = Freed(@, b)]

-----------------------------------------------------------------------------
(* Sectors. avail sectors can be read, from the buffer or the descriptor.   *)

cdf_read(avail, id) == id < avail

\* The first sector of the master table is taken from the number of its
\* sectors.
cdf_swap_header(h) == [h EXCEPT !.first_master = h.num_master]

cdf_read_header(doc, avail) ==
  [ok |-> avail >= 0 /\ doc.h.magic /\ doc.h.sec_size_p2 <= 20 /\ doc.h.short_sec_size_p2 <= 20,
   h |-> cdf_swap_header(doc.h)]

\* The leading master entries before the first one that satisfies Stop.
Leading(s, Stop(_)) ==
  LET k == {i \in DOMAIN s : Stop(s[i])}
  IN IF k = {} THEN s ELSE SubSeq(s, 1, (CHOOSE i \in k : \A j \in k : i <= j) - 1)

\* The sectors of the table that the master sectors name: entry k of master
\* sector mid, the j-th one. ids are the sectors read so far.
RECURSIVE Msa(_, _, _, _, _, _, _)
Msa(doc, avail, h, ids, mid, j, k) ==
  LET nsatpersec == WordsPerSector(h) - 1
      max == h.num_master * nsatpersec + Len(Leading(h.master, LAMBDA e : e = CDF_SECID_FREE))
      sec == doc.sector[mid + 1].words[k]
      fail == [ok |-> FALSE, ids |-> ids]
  IN IF j >= h.num_master \/ mid < 0 THEN [ok |-> TRUE, ids |-> ids]
     ELSE IF k = 1 /\ (j >= CDF_LOOP_LIMIT \/ ~cdf_read(avail, mid)) THEN fail
     ELSE IF k > nsatpersec
     THEN Msa(doc, avail, h, ids, doc.sector[mid + 1].words[nsatpersec + 1], j + 1, 1)
     ELSE IF sec < 0 THEN [ok |-> TRUE, ids |-> ids]
     ELSE IF Len(ids) >= max \/ ~cdf_read(avail, sec) THEN fail
     ELSE Msa(doc, avail, h, Append(ids, sec), mid, j, k + 1)

\* A table is its words, as many as were allocated, and its length in sectors.
Table(doc, h, ids, len, max) ==
  LET w == WordsPerSector(h)
  IN [tab |-> [i \in 1..(max * w) |->
                 LET n == ((i - 1) \div w) + 1
                 IN IF n <= Len(ids) THEN doc.sector[ids[n] + 1].words[((i - 1) % w) + 1] ELSE 0],
      len |-> len]

\* [m, ok, t]
cdf_read_sat(m, doc, avail, h) ==
  LET first == Leading(h.master, LAMBDA e : e < 0)
      free == Len(Leading(h.master, LAMBDA e : e = CDF_SECID_FREE))
      nsatpersec == WordsPerSector(h) - 1
      max == h.num_master * nsatpersec + free
      Fail(n) == [m |-> n, ok |-> FALSE, t |-> <<>>]
      Master(a, r) ==
        IF ~a.ok THEN Fail(FreeIn(a.m, "sat"))
        ELSE IF ~r.ok THEN Fail(FreeIn(FreeIn(a.m, "msa"), "sat"))
        ELSE [m |-> FreeIn(a.m, "msa"), ok |-> TRUE, t |-> Table(doc, h, r.ids, Len(r.ids), max)]
      Sat(a) ==
        IF ~a.ok THEN Fail(a.m)
        ELSE IF \E i \in DOMAIN first : ~cdf_read(avail, first[i]) THEN Fail(FreeIn(a.m, "sat"))
        ELSE Master(Alloc(a.m, "msa"), Msa(doc, avail, h, first, h.first_master, 0, 1))
  IN IF (nsatpersec > 0 /\ h.num_master > CDF_SEC_LIMIT \div nsatpersec) \/ free > CDF_SEC_LIMIT
     THEN Fail(m) ELSE Sat(Alloc(m, "sat"))

-----------------------------------------------------------------------------
(* Chains.                                                                  *)

LoopLimit(j) == j >= CDF_LOOP_LIMIT

\* Follows the chain from sid in table t, size bytes to a sector. The bound
\* counts bytes where the table has words, and is one too high.
RECURSIVE Follow(_, _, _, _)
Follow(t, sid, size, ids) ==
  IF sid < 0 THEN [rv |-> "ok", ids |-> ids]
  ELSE IF LoopLimit(Len(ids)) \/ sid > t.len * size THEN [rv |-> "-1", ids |-> ids]
  ELSE IF sid >= Len(t.tab) THEN [rv |-> "outside", ids |-> ids]
  ELSE Follow(t, t.tab[sid + 1], size, Append(ids, sid))

cdf_count_chain(t, sid, size) == Follow(t, sid, size, <<>>)

\* Mutant: the next sector is looked up after it has been read.
ChainRead_late(ids) == [i \in DOMAIN ids |-> IF i = 1 THEN ids[1] ELSE ids[i - 1]]

\* The sectors read for a chain that has been counted.
ChainRead(ids) == ids

\* Reads the sectors of a chain into block b: [m, ok, ids].
Chained(m, avail, b, c) ==
  LET Fail(n) == [m |-> n, ok |-> FALSE, ids |-> <<>>]
      Read(a) ==
        IF ~a.ok THEN Fail(a.m)
        ELSE IF \E i \in DOMAIN c.ids : ~cdf_read(avail, c.ids[i]) THEN Fail(FreeIn(a.m, b))
        ELSE [m |-> a.m, ok |-> TRUE, ids |-> ChainRead(c.ids)]
  IN CASE c.rv = "-1" -> Fail(m)
       [] c.rv = "outside" -> Fail([m EXCEPT !.heap = Outside(@, "table")])
       [] OTHER -> Read(Alloc(m, b))

NoStream == [ids |-> <<>>, short |-> FALSE, dirlen |-> 0, null |-> TRUE]

\* [m, ok, scn]
Stream(r, len, short) ==
  [m |-> r.m, ok |-> r.ok, scn |-> [ids |-> r.ids, short |-> short, dirlen |-> len, null |-> FALSE]]

cdf_read_long_sector_chain(m, avail, h, t, sid, len, b) ==
  Stream(Chained(m, avail, b, cdf_count_chain(t, sid, CDF_SEC_SIZE(h))), len, FALSE)

\* A short sector past the end of the short stream is refused, one that starts
\* at its end is read.
cdf_read_short_sector(h, sst, id) ==
  LET pos == id * CDF_SHORT_SEC_SIZE(h) size == CDF_SEC_SIZE(h) * Len(sst.ids)
  IN IF pos > size THEN "-1" ELSE IF pos + CDF_SHORT_SEC_SIZE(h) > size THEN "outside" ELSE "ok"

\* The sectors before the first one that cannot be read decide.
ShortRead(m, h, sst, b, c) ==
  LET reads == [i \in DOMAIN c.ids |-> cdf_read_short_sector(h, sst, c.ids[i])]
      good == Leading(reads, LAMBDA r : r # "ok")
      Read(a) ==
        IF ~a.ok THEN [m |-> a.m, ok |-> FALSE, ids |-> <<>>]
        ELSE IF Len(good) = Len(reads) THEN [m |-> a.m, ok |-> TRUE, ids |-> ChainRead(c.ids)]
        ELSE IF reads[Len(good) + 1] = "outside"
        THEN [m |-> [a.m EXCEPT !.heap = Outside(@, "stream")], ok |-> FALSE, ids |-> <<>>]
        ELSE [m |-> FreeIn(a.m, b), ok |-> FALSE, ids |-> <<>>]
  IN CASE c.rv = "-1" -> [m |-> m, ok |-> FALSE, ids |-> <<>>]
       [] c.rv = "outside" -> [m |-> [m EXCEPT !.heap = Outside(@, "table")], ok |-> FALSE, ids |-> <<>>]
       [] OTHER -> Read(Alloc(m, b))

cdf_read_short_sector_chain(m, h, st, sst, sid, len, b) ==
  Stream(ShortRead(m, h, sst, b, cdf_count_chain(st, sid, CDF_SEC_SIZE(h))), len, TRUE)

cdf_read_sector_chain(m, avail, h, t, st, sst, d, b) ==
  IF d.size < h.min_size /\ ~sst.null
  THEN cdf_read_short_sector_chain(m, h, st, sst, d.first, d.size, b)
  ELSE cdf_read_long_sector_chain(m, avail, h, t, d.first, d.size, b)

\* [m, ok, t]
cdf_read_ssat(m, doc, avail, h, t) ==
  LET Ssat(r) == [m |-> r.m, ok |-> r.ok, t |-> Table(doc, h, r.ids, Len(r.ids), Len(r.ids))]
  IN Ssat(Chained(m, avail, "ssat", cdf_count_chain(t, h.first_short, CDF_SEC_SIZE(h))))

\* [m, ok, dir]: the entries of every sector of the chain.
cdf_read_dir(m, doc, avail, h, t) ==
  LET nd == CDF_SEC_SIZE(h) \div CDF_DIRECTORY_SIZE
      Buffer(r, a) ==
        IF ~r.ok THEN [m |-> r.m, ok |-> FALSE, dir |-> <<>>]
        ELSE IF ~a.ok THEN [m |-> FreeIn(a.m, "dir"), ok |-> FALSE, dir |-> <<>>]
        ELSE [m |-> FreeIn(a.m, "buf"), ok |-> TRUE,
              dir |-> FlattenSeq([i \in DOMAIN r.ids |-> SubSeq(doc.sector[r.ids[i] + 1].dirs, 1, nd)])]
      Dir(r) == Buffer(r, Alloc(r.m, "buf"))
  IN Dir(Chained(m, avail, "dir", cdf_count_chain(t, h.first_dir, CDF_SEC_SIZE(h))))

First(dir, P(_)) ==
  LET k == {i \in DOMAIN dir : P(dir[i])} IN IF k = {} THEN 0 ELSE CHOOSE i \in k : \A j \in k : i <= j

cdf_read_short_stream(m, avail, h, t, dir) ==
  LET i == First(dir, LAMBDA d : d.type = "root")
  IN IF i = 0 \/ (i # 0 /\ dir[i].first < 0) THEN [m |-> m, ok |-> TRUE, scn |-> NoStream]
     ELSE cdf_read_long_sector_chain(m, avail, h, t, dir[i].first, dir[i].size, "sst")

\* The last stream of that name: [m, ok, scn], and no errno.
cdf_read_summary_info(m, avail, h, t, st, sst, dir) ==
  LET k == {i \in DOMAIN dir : dir[i].type = "stream" /\ dir[i].name = "SummaryInformation"}
  IN IF k = {} THEN [m |-> m, ok |-> FALSE, scn |-> NoStream]
     ELSE cdf_read_sector_chain(m, avail, h, t, st, sst, dir[CHOOSE i \in k : \A j \in k : j <= i], "scn")

\* cdf_dump_dir() reads every user stream and frees it again.
RECURSIVE cdf_dump_dir(_, _, _, _, _, _, _)
cdf_dump_dir(m, avail, h, t, st, sst, dir) ==
  LET Dumped(r) == cdf_dump_dir(IF r.ok THEN FreeIn(r.m, "dump") ELSE r.m, avail, h, t, st, sst, Tail(dir))
  IN IF dir = <<>> THEN m
     ELSE IF Head(dir).type # "stream" THEN cdf_dump_dir(m, avail, h, t, st, sst, Tail(dir))
     ELSE Dumped(cdf_read_sector_chain(m, avail, h, t, st, sst, Head(dir), "dump"))

-----------------------------------------------------------------------------
(* The summary: need is the size of its header in bytes, sd_offset and     *)
(* sh_len are where its section starts and how long it is, props are the   *)
(* properties [id, type, vector, n, past, len, text].                      *)

\* Offsets are checked as if every sector were a long one.
cdf_check_stream_offset(h, scn, e) == e <= CDF_SEC_SIZE(h) * Len(scn.ids)

StreamBytes(h, scn) == Len(scn.ids) * (IF scn.short THEN CDF_SHORT_SEC_SIZE(h) ELSE CDF_SEC_SIZE(h))

TYPES == {"EMPTY", "NULL", "SIGNED16", "SIGNED32", "UNSIGNED32", "SIGNED64", "UNSIGNED64", "BOOL",
          "FLOAT", "DOUBLE", "STRING", "WSTRING", "FILETIME", "CLIPBOARD", "other"}
STRINGS == {"STRING", "WSTRING"}

Unset == [id |-> "unset", type |-> "unset", len |-> 0, text |-> "none"]
Property(p) == [id |-> p.id, type |-> IF p.vector THEN "other" ELSE p.type, len |-> p.len, text |-> p.text]

Elements(p) == IF p.vector THEN p.n ELSE 1

\* Property i of a section, entry base + i of info: [m, rv, info]. A string
\* vector fills as many entries as it has elements and moves i on with them,
\* an empty one moves it back.
RECURSIVE Properties(_, _, _, _, _)
Properties(m, s, base, i, info) ==
  LET p == s.props[i]
      n == Elements(p)
      string == p.type \in STRINGS
      Fail(k) == [m |-> FreeIn(k, "info"), rv |-> "-1", info |-> <<>>]
      Fill(room) ==
        [x \in 1..Len(room) |-> IF x = base + i THEN Property(p)
                                ELSE IF string /\ x \in (base + i)..(base + i + n - 1)
                                THEN [Unset EXCEPT !.len = p.len] ELSE room[x]]
      Room(a) ==
        IF ~a.ok THEN Fail(a.m)
        ELSE IF p.long THEN Fail(a.m)
        ELSE Properties(a.m, s, base, i + n, Fill(info \o [x \in 1..n |-> Unset]))
  IN IF i > s.sh_properties THEN [m |-> m, rv |-> "0", info |-> info]
     ELSE IF p.past THEN Fail(m)
     ELSE IF ~string THEN Properties(m, s, base, i + 1, Fill(info))
     ELSE IF n = 0 THEN [m |-> m, rv |-> "hang", info |-> info]
     ELSE IF n > 1 /\ (Len(info) > CDF_PROP_LIMIT \/ n > CDF_PROP_LIMIT) THEN Fail(m)
     ELSE IF n > 1 THEN Room(Alloc(m, "info"))
     ELSE IF p.long THEN Fail(m)
     ELSE Properties(m, s, base, i + 1, Fill(info))

\* The block of a section without properties is forgotten by the next one.
AllocInfo(m, info) == Alloc(m, IF info = <<>> /\ "info" \in m.heap.live THEN "lost" ELSE "info")

\* [m, rv, info, count]: info is as long as maxcount. free(NULL) does nothing.
cdf_read_property_info(m, h, scn, s, info, count, null) ==
  LET Fail(k) == [m |-> IF null THEN k ELSE FreeIn(k, "info"), rv |-> "-1", info |-> <<>>, count |-> count]
      Counted(r) == [m |-> r.m, rv |-> r.rv, info |-> r.info, count |-> count + s.sh_properties]
      Section(a) ==
        IF ~a.ok THEN Fail(a.m)
        ELSE IF ~cdf_check_stream_offset(h, scn, s.sd_offset + s.sh_len)
        THEN Counted([m |-> FreeIn(a.m, "info"), rv |-> "-1", info |-> <<>>])
        ELSE Counted(Properties(a.m, s, count, 1, info \o [x \in 1..s.sh_properties |-> Unset]))
  IN IF s.big \/ ~cdf_check_stream_offset(h, scn, s.sd_offset + 8)
        \/ s.sh_properties > CDF_PROP_LIMIT \/ Len(info) > CDF_PROP_LIMIT
     THEN Fail(m) ELSE Section(AllocInfo(m, info))

\* The section is read once for every section announced.
RECURSIVE Sections(_, _, _, _, _)
Sections(r, h, scn, s, i) ==
  IF r.rv # "0" \/ i = s.si_count THEN r
  ELSE IF i >= CDF_LOOP_LIMIT THEN [r EXCEPT !.rv = "-1"]
  ELSE Sections(cdf_read_property_info(r.m, h, scn, s, r.info, r.count, i = 0), h, scn, s, i + 1)

cdf_unpack_summary_info(m, h, scn, s) ==
  LET Empty(k, rv) == [m |-> k, rv |-> rv, info |-> <<>>, count |-> 0]
      end == s.sd_offset + s.sh_len
      Read(k) == Sections(Empty(k, "0"), h, scn, s, 0)
  IN IF ~cdf_check_stream_offset(h, scn, s.need) THEN Empty(m, "-1")
     ELSE Read(IF (IF end > s.need THEN end ELSE s.need) > StreamBytes(h, scn)
               THEN [m EXCEPT !.heap = Outside(@, "summary")] ELSE m)

\* An entry that was never written has the type that is found in the block.
TypeOf(p, junk) == IF p.type = "unset" THEN junk ELSE p.type

\* cdf_dump_property_info() runs to 2^32 for a wide string of length 0.
DumpCrashes(info, count, junk) ==
  \E i \in 1..count : TypeOf(info[i], junk) = "WSTRING" /\ info[i].len = 0

\* [m, rv]
cdf_dump_summary_info(m, h, scn, s, junk) ==
  LET Dumped(r) ==
        CASE r.rv = "-1" -> [m |-> r.m, rv |-> "0"] [] r.rv = "hang" -> [m |-> r.m, rv |-> "hang"]
          [] DumpCrashes(r.info, r.count, junk) -> [m |-> r.m, rv |-> "segv"]
          [] OTHER -> [m |-> IF s.si_count = 0 THEN r.m ELSE FreeIn(r.m, "info"), rv |-> "0"]
  IN Dumped(cdf_unpack_summary_info(m, h, scn, s))

NumberTypes == {"SIGNED16", "SIGNED32", "UNSIGNED32", "FLOAT", "DOUBLE"}
SilentTypes == {"NULL", "CLIPBOARD"}

\* Prints the properties from i on: [ms, rv]; str is the application named.
RECURSIVE PropertyWords(_, _, _, _, _, _)
PropertyWords(s, info, count, i, str, junk) ==
  LET type == TypeOf(info[i], junk)
      shown == \/ type \in NumberTypes \/ (type = "FILETIME" /\ info[i].len # 0)
               \/ (type \in STRINGS /\ info[i].len > 1 /\ info[i].text # "none")
      named == type \in STRINGS /\ info[i].len > 1 /\ info[i].id = "NAME_OF_APPLICATION"
                 /\ info[i].text \in {"msword", "vnd.ms-excel", "vnd.ms-powerpoint", "x-rpt"}
      Go(p) == IF ~p.ok THEN [ms |-> p.ms, rv |-> "-1"]
               ELSE PropertyWords(p.ms, info, count, i + 1, IF named /\ Mime(s) THEN info[i].text ELSE str, junk)
  IN IF i > count
     THEN IF ~Mime(s) THEN [ms |-> s, rv |-> "1"]
          ELSE IF str = "none" THEN [ms |-> s, rv |-> "0"] ELSE PrintedRv(Printed(s, <<str>>), "1")
     ELSE IF type \notin NumberTypes \cup SilentTypes \cup STRINGS \cup {"FILETIME"}
     THEN [ms |-> s, rv |-> "-1"]
     ELSE Go(IF shown /\ ~Mime(s) THEN Printed(s, <<info[i].id>>) ELSE [ms |-> s, ok |-> TRUE])

cdf_file_property_info(s, info, count, junk) == PropertyWords(s, info, count, 1, "none", junk)

\* A failure after the title has been printed is -2, and loses info.
cdf_file_summary_info(m, h, scn, s, junk) ==
  LET Ms(k, t) == [k EXCEPT !.ms = t]
      Props(r, q) == [m |-> IF s.si_count = 0 THEN Ms(r.m, q.ms) ELSE FreeIn(Ms(r.m, q.ms), "info"),
                      rv |-> IF q.rv = "-1" THEN "-2" ELSE q.rv]
      Rest(r, p) == IF ~p.ok THEN [m |-> Ms(r.m, p.ms), rv |-> "-2"]
                    ELSE Props(r, cdf_file_property_info(p.ms, r.info, r.count, junk))
      Title(r, p) == IF ~p.ok THEN [m |-> Ms(r.m, p.ms), rv |-> "-1"] ELSE Rest(r, Printed(p.ms, <<"Endian", "Os">>))
      Unpacked(r) ==
        IF r.rv # "0" THEN [m |-> r.m, rv |-> r.rv]
        ELSE IF Mime(r.m.ms) THEN Props(r, cdf_file_property_info(r.m.ms, r.info, r.count, junk))
        ELSE Title(r, Printed(r.m.ms, <<"CDF V2">>))
  IN Unpacked(cdf_unpack_summary_info(m, h, scn, s))

-----------------------------------------------------------------------------
(* file_trycdf(): [ms, heap, rv, scn].                                      *)

Office(dir) ==
  LET i == First(dir, LAMBDA d : d.name \in {"WordDocument", "PowerPoint"})
  IN IF i = 0 THEN "vnd.ms-office" ELSE IF dir[i].name = "WordDocument" THEN "msword" ELSE "vnd.ms-powerpoint"

\* Mutant: the label out3 frees the short stream, which out4 frees already.
FreeAll_label(m, blocks) ==
  FoldLeft(LAMBDA k, b : FreeIn(k, b), m, IF "scn" \in ToSet(blocks) THEN Append(blocks, "scn") ELSE blocks)

\* The labels out4 .. out1: the blocks that are live at that label, in order.
FreeAll(m, blocks) == FoldLeft(LAMBDA k, b : FreeIn(k, b), m, blocks)

\* The label out0.
CdfEnd(m, scn, i, words) ==
  LET End(p) == [ms |-> p.ms, heap |-> m.heap, rv |-> IF p.ok THEN "1" ELSE "-1", scn |-> scn]
  IN IF i \in {"hang", "segv"} \/ m.heap.outside # {}
     THEN [ms |-> m.ms, heap |-> m.heap, rv |-> IF i \in {"hang", "segv"} THEN i ELSE "undefined", scn |-> scn]
     ELSE IF i # "-1" THEN End([ms |-> m.ms, ok |-> TRUE])
     ELSE End(Printed(m.ms, IF Mime(m.ms) THEN <<"CDFV2-corrupt">> ELSE <<"CDF V2", words>>))

file_trycdf(s, doc, avail, junk) ==
  LET Blocks(scn, sst) == IF sst.null THEN scn \o <<"dir", "ssat", "sat">> ELSE scn \o <<"sst", "dir", "ssat", "sat">>
      \* free(scn.sst_tab), then the labels; an application that cannot be
      \* printed returns at once.
      Office0(m, scn, sst, p) ==
        IF ~p.ok THEN [ms |-> p.ms, heap |-> m.heap, rv |-> "-1", scn |-> scn]
        ELSE CdfEnd(FreeAll([m EXCEPT !.ms = p.ms], Blocks(<<"scn">>, sst)), scn, "1", "")
      Summary(r, scn, sst, dir) ==
        IF r.rv = "0" THEN Office0(r.m, scn, sst, Printed(r.m.ms, <<Office(dir)>>))
        ELSE IF r.rv \in {"hang", "segv"} THEN CdfEnd(r.m, scn, r.rv, "")
        ELSE CdfEnd(FreeAll(r.m, Blocks(<<"scn">>, sst)), scn, r.rv, "expand")
      Dumped(d, h, scn, sst, dir) ==
        IF d.rv # "0" THEN CdfEnd(d.m, scn, d.rv, "")
        ELSE Summary(cdf_file_summary_info(d.m, h, scn, doc.sum, junk), scn, sst, dir)
      Scn(r, h, sst, dir) ==
        IF r.m.heap.outside # {} THEN CdfEnd(r.m, r.scn, "-1", "")
        ELSE IF ~r.ok THEN CdfEnd(FreeAll(r.m, Blocks(<<>>, sst)), NoStream, "-1", "summary")
        ELSE Dumped(cdf_dump_summary_info(r.m, h, r.scn, doc.sum, junk), h, r.scn, sst, dir)
      Sst(r, h, t, st, dir) ==
        IF r.m.heap.outside # {} THEN CdfEnd(r.m, NoStream, "-1", "")
        ELSE IF ~r.ok THEN CdfEnd(FreeAll(r.m, <<"dir", "ssat", "sat">>), NoStream, "-1", "short stream")
        ELSE Scn(cdf_read_summary_info(cdf_dump_dir(r.m, avail, h, t, st, r.scn, dir), avail, h, t, st, r.scn, dir),
                 h, r.scn, dir)
      Dir(r, h, t, st) ==
        IF r.m.heap.outside # {} THEN CdfEnd(r.m, NoStream, "-1", "")
        ELSE IF ~r.ok THEN CdfEnd(FreeAll(r.m, <<"ssat", "sat">>), NoStream, "-1", "directory")
        ELSE Sst(cdf_read_short_stream(r.m, avail, h, t, r.dir), h, t, st, r.dir)
      Ssat(r, h, t) ==
        IF r.m.heap.outside # {} THEN CdfEnd(r.m, NoStream, "-1", "")
        ELSE IF ~r.ok THEN CdfEnd(FreeAll(r.m, <<"sat">>), NoStream, "-1", "SSAT")
        ELSE Dir(cdf_read_dir(r.m, doc, avail, h, t), h, t, r.t)
      Sat(r, h) == IF ~r.ok THEN CdfEnd(r.m, NoStream, "-1", "SAT")
                   ELSE Ssat(cdf_read_ssat(r.m, doc, avail, h, r.t), h, r.t)
      Header(r) == IF ~r.ok THEN [ms |-> s, heap |-> NoHeap, rv |-> "0", scn |-> NoStream]
                   ELSE Sat(cdf_read_sat([ms |-> s, heap |-> NoHeap], doc, avail, r.h), r.h)
  IN IF "APPLE" \in s.flags THEN [ms |-> s, heap |-> NoHeap, rv |-> "0", scn |-> NoStream]
     ELSE Header(cdf_read_header(doc, avail))
=============================================================================
