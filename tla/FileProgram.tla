---------------------------- MODULE FileProgram -----------------------------
(***************************************************************************)
(* file/file.c, magic.c, funcs.c, fsmagic.c and compress.c: the program    *)
(* file, from its options to its exit status.  It shares the file system   *)
(* with other processes, which may write the file it looks at, or put a    *)
(* pipe in its place before it is opened, and runs a program that          *)
(* uncompresses into a pipe.                                               *)
(* The magic file is external here (see Apprentice and SoftMagic):         *)
(* file_softmagic() is a choice of its results.                            *)
(***************************************************************************)
EXTENDS ReadElf

CONSTANTS
  Contents,     \* what can be in a file: a function from names to records
  Files,        \* files there can be: kind, a member of FileKinds, content, mode,
                \* the words for its special bits, and the options that may be
                \* given for them
  MaxOptions,   \* at most so many of them
  MaxFiles,     \* names on the command line
  Budgets,      \* calls of malloc() that succeed for one file
  PipeSize,     \* bytes that fit into a pipe
  SoftResults,  \* results of file_softmagic(), with the word it prints
  Junk          \* what unset memory may hold: an address, a type of property, headers, a length

FileKinds == {"reg", "dir", "chr", "fifo", "lnk", "badlnk", "sock", "missing", "unreadable", "stdin", "stdpipe"}

ASSUME FileAssumption ==
  (\A f \in Files : f.kind \in FileKinds /\ f.content \in DOMAIN Contents) /\ {MaxOptions, MaxFiles, PipeSize} \subseteq Nat /\ Budgets \subseteq Nat

VARIABLES
  pc,       \* what the program does next
  opt,      \* flags so far, action, the list given, the flags load() was called with
  left,     \* options and names still to come
  ms,       \* the magic_set
  file,     \* the file named: kind, special bits, modification time, content
  sb,       \* what stat() said about it
  fds,      \* descriptors that are open, fdout1 only if it was lost
  child,    \* the program that uncompresses: state, bytes it still writes, bytes in the pipe
  got,      \* bytes read from it
  run,      \* the method tried, the result, what other processes and the system did
  seen,     \* what was learned: heap and stream of a CDF, offsets of notes and their contents
  said      \* kinds of lines printed so far, and the exit status

vars == <<pc, opt, left, ms, file, sb, fds, child, got, run, seen, said>>

NoSeen == [heap |-> NoHeap, scn |-> NoStream, offs |-> <<0>>, desc |-> {}]
NoRun == [method |-> 1, lost |-> FALSE, replaced |-> FALSE, written |-> FALSE, opened |-> FALSE,
          part |-> "file", nomem |-> {}, m |-> "0", rv |-> "-1"]
NoStat == [kind |-> "none", mtime |-> 0]
NoChild == [state |-> "none", writes |-> 0, inpipe |-> 0]

\* The type of the state.
FileTypeOK ==
  /\ pc \in {"options", "next", "fsmagic", "stat", "open", "read", "zmagic", "sread", "wait", "inside",
             "tar", "cdf", "softmagic", "elf", "text", "encoding", "giveup", "done", "close", "hang", "crashed", "exit"}
  /\ opt.action \in {"none", "check", "compile", "list"} /\ opt.list \in {"none", "unopened", "file", "stdin"}
  /\ left.options \in 0..MaxOptions /\ left.files \in 0..MaxFiles
  /\ ms.mem \in Nat /\ ms.io \in Nat /\ ms.had_err \in BOOLEAN /\ file.kind \in FileKinds
  /\ fds \subseteq {"fd", "fdin0", "fdin1", "fdout0", "fdout1", "tfd"}
  /\ child.state \in {"none", "runs", "ended", "reaped"} /\ child.inpipe \in 0..PipeSize
  /\ got \in 0..HOWMANY /\ said.e \in {0, 1} /\ said.lines \subseteq {"type", "ERROR"}

FileInit ==
  /\ pc = "options" /\ opt = [flags |-> {}, action |-> "none", list |-> "none", loaded |-> FALSE, with |-> {}]
  /\ left \in [options : {MaxOptions}, files : 0..MaxFiles]
  /\ ms = [flags |-> {}, out |-> <<>>, had_err |-> FALSE, mem |-> 0, io |-> 0]
  /\ \E f \in Files : file = [kind |-> f.kind, mode |-> f.mode, mtime |-> 0, content |-> f.content, options |-> f.options]
  /\ sb = NoStat /\ fds = {} /\ child = NoChild
  /\ got = 0 /\ run = NoRun /\ seen = NoSeen /\ said = [lines |-> {}, e |-> 0]

Content == Contents[file.content]

-----------------------------------------------------------------------------
(* main(): the options.                                                     *)

FlagOf ==
  [apple |-> {"APPLE"}, i |-> MIME, type |-> {"MIME_TYPE"}, encoding |-> {"MIME_ENCODING"},
   d |-> {"DEBUG", "CHECK"}, k |-> {"CONTINUE"}, p |-> {"PRESERVE_ATIME"}, r |-> {"RAW"}, s |-> {"DEVICES"},
   z |-> {"COMPRESS"}, L |-> {"SYMLINK"}, soft |-> {"NO_CHECK_SOFT"}, cdf |-> {"NO_CHECK_CDF"},
   compress |-> {"NO_CHECK_COMPRESS"}, elf |-> {"NO_CHECK_ELF"}, enc |-> {"NO_CHECK_ENCODING"},
   tar |-> {"NO_CHECK_TAR"}, text |-> {"NO_CHECK_TEXT"}]
ActionOf == [c |-> "check", C |-> "compile", l |-> "list"]

Exit(e) == pc' = "exit" /\ said' = [said EXCEPT !.e = e]

\* load(): a magic_set with the flags given so far, unless there is one.
\* Options that come later have no effect on it.
load(list) ==
  /\ ms' = IF opt.loaded THEN ms ELSE [ms EXCEPT !.flags = opt.flags]
  /\ opt' = [opt EXCEPT !.list = list, !.loaded = TRUE, !.with = IF opt.loaded THEN @ ELSE opt.flags]

\* unwrap(): the end of the list is never seen, as getline()'s -1 becomes a
\* large size_t: a file is read forever to find the longest name, and the last
\* name on stdin is processed forever.
unwrap ==
  \/ said' = [said EXCEPT !.e = 1] /\ load("unopened") /\ UNCHANGED pc
  \/ pc' = "hang" /\ load("file") /\ UNCHANGED said
  \/ pc' = "next" /\ load("stdin") /\ UNCHANGED said

\* One option. The unknown ones are counted and forgotten.
main_option ==
  /\ pc = "options" /\ left.options > 0
  /\ left' = [left EXCEPT !.options = @ - 1]
  /\ \E c \in file.options :
       \/ c \in DOMAIN FlagOf /\ opt' = [opt EXCEPT !.flags = @ \cup FlagOf[c]] /\ UNCHANGED <<pc, said, ms>>
       \/ c = "h" /\ opt' = [opt EXCEPT !.flags = @ \ {"SYMLINK"}] /\ UNCHANGED <<pc, said, ms>>
       \/ c \in DOMAIN ActionOf /\ opt' = [opt EXCEPT !.action = ActionOf[c]] /\ UNCHANGED <<pc, said, ms>>
       \/ c = "bad" /\ UNCHANGED <<pc, opt, said, ms>>
       \/ c = "v" /\ Exit(0) /\ UNCHANGED <<opt, ms>>
       \/ c = "f" /\ (opt.action # "none" \/ ~opt.loaded) /\ Exit(1) /\ UNCHANGED <<opt, ms>>
       \/ c = "f" /\ opt.action = "none" /\ unwrap
  /\ UNCHANGED <<file, sb, fds, child, got, run, seen>>

\* The end of the options: the actions of -c, -C and -l, or the names.
main_files ==
  /\ pc = "options" /\ left' = [left EXCEPT !.options = 0]
  /\ IF said.e # 0 THEN Exit(said.e) /\ UNCHANGED <<opt, ms>>
     ELSE IF opt.action # "none" THEN (\E e \in {0, 1} : Exit(e)) /\ UNCHANGED <<opt, ms>>
     ELSE IF left.files = 0 THEN Exit(1) /\ UNCHANGED <<opt, ms>>
     ELSE \/ Exit(1) /\ ~opt.loaded /\ UNCHANGED <<opt, ms>>
          \/ pc' = "next" /\ load(opt.list) /\ UNCHANGED said
  /\ UNCHANGED <<file, sb, fds, child, got, run, seen>>

\* process() for the next name, or the end of main().
main_next ==
  /\ pc = "next"
  /\ IF left.files = 0 /\ opt.list # "stdin"
     THEN pc' = "exit" /\ UNCHANGED <<left, ms, run>>
     ELSE /\ pc' = "fsmagic" /\ run' = [NoRun EXCEPT !.lost = run.lost]
          /\ left' = [left EXCEPT !.files = IF opt.list = "stdin" THEN 0 ELSE @ - 1]
          /\ \E n \in Budgets : ms' = [ms EXCEPT !.mem = n, !.io = n]
  /\ UNCHANGED <<opt, file, sb, fds, child, got, seen, said>>

-----------------------------------------------------------------------------
(* Other processes.                                                         *)

\* The file is written: before stat() or after it. Only the end of
\* file_or_fd() can tell the moments after it apart.
WriteFile ==
  /\ pc \in {"stat", "close"} /\ ~run.written /\ file.kind = "reg"
  /\ file' = [file EXCEPT !.mtime = 1] /\ run' = [run EXCEPT !.written = TRUE]
  /\ UNCHANGED <<pc, opt, left, ms, sb, fds, child, got, seen, said>>

\* A named pipe takes its place.
ReplaceFile ==
  /\ pc \in {"fsmagic", "stat", "open"} /\ file.kind = "reg"
  /\ file' = [file EXCEPT !.kind = "fifo"] /\ run' = [run EXCEPT !.replaced = TRUE]
  /\ UNCHANGED <<pc, opt, left, ms, sb, fds, child, got, seen, said>>

-----------------------------------------------------------------------------
(* file_or_fd(): fsmagic.c first.                                           *)

\* What lstat() or stat() says of a kind.
Stat(kind, follow) ==
  IF kind = "unreadable" THEN "reg"
  ELSE IF follow THEN CASE kind = "lnk" -> "reg" [] kind = "badlnk" -> "missing" [] OTHER -> kind
  ELSE kind

handle_mime(s, str) ==
  Printed(s, (IF MimeType(s) THEN <<str>> ELSE <<>>) \o (IF "MIME_ENCODING" \in s.flags THEN <<"binary">> ELSE <<>>))

\* [ms, rv]: the special bits come first, and what is printed about any file
\* but a regular one with contents ends in -1. The target of a link is not
\* followed: stat() did that.
file_fsmagic(s, f, size) ==
  LET k == Stat(f.kind, "SYMLINK" \in s.flags)
      mode == IF Mime(s) THEN <<>> ELSE f.mode
      Say0(str) == PrintedRv(IF Mime(s) THEN handle_mime(s, str) ELSE Printed(s, mode \o <<str, " ">>), "-1")
      Nothing(rv) == PrintedRv(Printed(s, IF mode = <<>> THEN <<>> ELSE Append(mode, " ")), rv)
  IN CASE "APPLE" \in s.flags \/ f.kind \in {"stdin", "stdpipe"} -> [ms |-> s, rv |-> "0"]
       [] k = "missing" -> [ms |-> file_error(Printed(s, <<"cannot open">>).ms), rv |-> "-1"]
       [] k \in {"chr", "fifo"} /\ "DEVICES" \in s.flags -> Nothing("-1")
       [] k = "badlnk" -> PrintedRv(Printed(s, IF Mime(s) /\ ~MimeType(s) THEN <<>> ELSE Append(mode, "broken link")), "1")
       [] k \in {"dir", "chr", "fifo", "lnk", "sock"} -> Say0(k)
       [] size = 0 /\ "DEVICES" \notin s.flags -> Say0("empty")
       [] OTHER -> Nothing("0")

\* file_reset() forgets the last result, unless the buffer cannot be allocated.
FsMagic ==
  /\ pc = "fsmagic"
  /\ IF ms.mem = 0 THEN pc' = "close" /\ UNCHANGED <<ms, sb, run>>
     ELSE \E r \in {file_fsmagic([ms EXCEPT !.out = <<>>, !.had_err = FALSE, !.mem = @ - 1], file, Content.size)} :
            /\ ms' = r.ms
            /\ run' = [run EXCEPT !.rv = IF r.rv = "1" THEN "0" ELSE "-1"]
            /\ pc' = IF r.rv = "0" THEN "stat" ELSE "close"
            /\ sb' = [kind |-> Stat(file.kind, "SYMLINK" \in ms.flags), mtime |-> file.mtime]
  /\ UNCHANGED <<opt, left, file, fds, child, got, seen, said>>

\* stat() again; when it fails, what lstat() said stays.
StatFile ==
  /\ pc = "stat" /\ pc' = "open"
  /\ sb' = IF Stat(file.kind, TRUE) = "missing" THEN sb ELSE [kind |-> Stat(file.kind, TRUE), mtime |-> file.mtime]
  /\ UNCHANGED <<opt, left, ms, file, fds, child, got, run, seen, said>>

IsPipe == sb.kind \in {"fifo", "stdpipe"}

\* Mutant: a pipe is opened like a file.
Nonblock_never == FALSE

\* O_NONBLOCK is given for what was a pipe when it was looked at.
Nonblock == sb.kind = "fifo"

\* open() of a pipe nobody writes does not return.
OpenBlocks == pc = "open" /\ file.kind = "fifo" /\ ~Nonblock

unreadable_info(s) ==
  Printed(s, IF sb.kind = "reg" THEN <<"regular file", "no read permission">> ELSE <<"no read permission">>)

OpenFile ==
  /\ pc = "open" /\ ~OpenBlocks
  /\ IF file.kind \in {"stdin", "stdpipe"} THEN pc' = "read" /\ UNCHANGED <<ms, fds, run>>
     ELSE IF Stat(file.kind, TRUE) \in {"missing", "sock"} \/ file.kind = "unreadable"
     THEN \E p \in {unreadable_info(ms)} :
            /\ ms' = p.ms /\ pc' = "close" /\ UNCHANGED fds
            /\ run' = [run EXCEPT !.opened = TRUE, !.rv = IF p.ok THEN "0" ELSE "-1"]
     ELSE pc' = "read" /\ fds' = fds \cup {"fd"} /\ run' = [run EXCEPT !.opened = TRUE] /\ UNCHANGED ms
  /\ UNCHANGED <<opt, left, file, sb, child, got, seen, said>>

\* file_buffer() begins with the encoding, whose buffers may not be got.
Begins(s, part, next) ==
  \E f \in {IF "NO_CHECK_ENCODING" \in s.flags THEN [ms |-> s, ok |-> TRUE] ELSE Buffers(s)} :
    /\ pc' = next /\ ms' = f.ms
    /\ run' = [run EXCEPT !.part = part, !.nomem = IF f.ok THEN @ ELSE @ \cup {part}]

\* The first bytes, from a pipe or a file. A directory cannot be read.
ReadFile ==
  /\ pc = "read"
  /\ \/ /\ IsPipe /\ Content.size = 0
        /\ \E p \in {unreadable_info(ms)} :
             ms' = p.ms /\ pc' = "close" /\ run' = [run EXCEPT !.rv = IF p.ok THEN "0" ELSE "-1"]
     \/ /\ ~IsPipe /\ (file.kind = "dir" \/ ms.io = 0)
        /\ ms' = file_error(ms) /\ pc' = "close" /\ UNCHANGED run
     \/ /\ IsPipe \/ (file.kind # "dir" /\ ms.io > 0)
        /\ Content.size > 1 /\ Begins(ms, "file", "zmagic")
     \/ /\ Content.size \in {0, 1} /\ ~(IsPipe /\ Content.size = 0) /\ (IsPipe \/ (file.kind # "dir" /\ ms.io > 0))
        \* file_buffer() returns -1 for what is empty or very short
        /\ ms' = IF Mime(ms) /\ ~MimeType(ms) THEN ms ELSE Printed(ms, <<"short">>).ms
        /\ pc' = "close" /\ UNCHANGED run
  /\ UNCHANGED <<opt, left, file, sb, fds, child, got, seen, said>>

-----------------------------------------------------------------------------
(* compress.c                                                               *)

Compressed == "COMPRESS" \in ms.flags /\ "NO_CHECK_COMPRESS" \notin ms.flags

\* file_zmagic() and uncompressbuf() up to fork(), for the next method whose
\* magic is that of the contents. gzip data is not inflated: nothing comes
\* out. What fails leaves its descriptors open and the next method is tried.
file_zmagic ==
  /\ pc = "zmagic"
  /\ IF ~Compressed \/ run.method > Len(Content.methods)
     THEN pc' = "tar" /\ UNCHANGED <<ms, fds, child, got, run>>
     ELSE IF Content.methods[run.method] = "gzipped"
     THEN pc' = "inside" /\ got' = 0 /\ UNCHANGED <<ms, fds, child, run>>
     ELSE \/ /\ pc' = "sread" /\ got' = 0 /\ fds' = fds \cup {"fdin0", "fdin1", "fdout0"}
             /\ \E w \in {Len(Content.inner), 0} : child' = [state |-> "runs", writes |-> w, inpipe |-> 0]
             /\ UNCHANGED <<ms, run>>
          \/ \E lost \in {{}, {"fdin0", "fdin1"}, {"fdin0", "fdin1", "fdout0", "fdout1"}} :
               /\ fds' = fds \cup lost /\ ms' = file_error(ms)
               /\ run' = [run EXCEPT !.method = @ + 1, !.lost = @ \/ lost # {}]
               /\ UNCHANGED <<pc, child, got>>
  /\ UNCHANGED <<opt, left, file, sb, seen, said>>

\* The child: a write into a pipe that nobody reads ends it.
ChildWrite ==
  /\ child.state = "runs" /\ child.writes > 0 /\ "fdout0" \in fds /\ child.inpipe < PipeSize
  /\ child' = [child EXCEPT !.writes = @ - 1, !.inpipe = @ + 1]
  /\ UNCHANGED <<pc, opt, left, ms, file, sb, fds, got, run, seen, said>>

ChildEnd ==
  /\ child.state = "runs" /\ (child.writes = 0 \/ "fdout0" \notin fds)
  /\ child' = [child EXCEPT !.state = "ended"]
  /\ UNCHANGED <<pc, opt, left, ms, file, sb, fds, got, run, seen, said>>

Wanted(n) == n < HOWMANY

\* sread(): until HOWMANY bytes are there or the child has ended.
sread ==
  /\ pc = "sread" /\ child.inpipe > 0 /\ Wanted(got) /\ ms.mem > 0
  /\ got' = got + 1 /\ child' = [child EXCEPT !.inpipe = @ - 1]
  /\ UNCHANGED <<pc, opt, left, ms, file, sb, fds, run, seen, said>>

\* Mutant: the pipe is closed when the child has been waited for.
ReadEnd_late == {"fdin1"}

\* The descriptors closed before the wait.
ReadEnd == {"fdin1", "fdout0"}

sread_end ==
  /\ pc = "sread" /\ (~Wanted(got) \/ (child.inpipe = 0 /\ child.state = "ended") \/ ms.mem = 0)
  /\ pc' = "wait" /\ fds' = fds \ ReadEnd
  /\ ms' = [ms EXCEPT !.mem = IF @ = 0 THEN 0 ELSE @ - 1]
  /\ UNCHANGED <<opt, left, file, sb, child, got, run, seen, said>>

\* Mutant: the other end is forgotten.
WaitEnd_none == {}

\* The descriptors closed after the wait.
WaitEnd == {"fdin0"}

\* waitpid() is asked until there is no child left.
uncompress_wait ==
  /\ pc = "wait" /\ child.state = "ended"
  /\ child' = [child EXCEPT !.state = "reaped"] /\ fds' = fds \ WaitEnd /\ pc' = "inside"
  /\ UNCHANGED <<opt, left, ms, file, sb, got, run, seen, said>>

-----------------------------------------------------------------------------
(* file_buffer(): one test after the other. run.part is the call: of the     *)
(* file, or by file_zmagic() of what was uncompressed ("inner") and of the   *)
(* compressed data ("outer"), both without a descriptor.                     *)

Data ==
  IF run.part # "inner" THEN Content
  ELSE [Content EXCEPT !.bytes = SubSeq(Content.inner, 1, got), !.size = got, !.cdf.h.magic = FALSE, !.elf.magic = FALSE]

Fd == IF run.part # "file" THEN "-1" ELSE IF IsPipe THEN "pipe" ELSE "file"

Encoded(flags) == IF "NO_CHECK_ENCODING" \in flags THEN [text |-> FALSE, code |-> "none", mime |-> "binary", ubuf |-> <<>>]
                  ELSE IF run.part \in run.nomem THEN NoBuffers ELSE encoding_of(Data.bytes)

\* A test that found something ends file_buffer().
Tried(s, rv, next) ==
  /\ ms' = s /\ run' = [run EXCEPT !.m = rv]
  /\ pc' = CASE rv = "0" -> next [] rv = "hang" -> "hang" [] rv \in {"segv", "undefined"} -> "crashed" [] OTHER -> "done"

Untried(next) == pc' = next /\ UNCHANGED <<ms, run>>

TryTar ==
  /\ pc = "tar"
  /\ IF "NO_CHECK_TAR" \in ms.flags THEN Untried("cdf")
     ELSE \E j \in Junk : \E r \in {file_is_tar(ms, Data.tar, Data.size >= 512, j.address)} : Tried(r.ms, r.rv, "cdf")
  /\ UNCHANGED <<opt, left, file, sb, fds, child, got, seen, said>>

TryCdf ==
  /\ pc = "cdf"
  /\ IF "NO_CHECK_CDF" \in ms.flags THEN Untried("softmagic") /\ UNCHANGED seen
     ELSE \E j \in Junk :
            \E r \in {file_trycdf(ms, Data.cdf, IF Fd = "-1" THEN Data.cdf.buffered ELSE Len(Data.cdf.sector), j.type)} :
              Tried(r.ms, r.rv, "softmagic") /\ seen' = [seen EXCEPT !.heap = r.heap, !.scn = r.scn]
  /\ UNCHANGED <<opt, left, file, sb, fds, child, got, said>>

\* What file_softmagic() printed: [ms, rv].
SoftPrinted(s, r) ==
  CASE r.rv = "1" -> PrintedRv(Printed(s, <<r.word>>), "1") [] r.rv = "0" -> [ms |-> s, rv |-> "0"]
    [] OTHER -> [ms |-> file_error(s), rv |-> "-1"]

TrySoft ==
  /\ pc = "softmagic"
  /\ IF "NO_CHECK_SOFT" \in ms.flags THEN Untried("text")
     ELSE \E soft \in SoftResults : \E r \in {SoftPrinted(ms, soft)} :
            IF r.rv = "1" /\ "NO_CHECK_ELF" \notin ms.flags /\ Data.size > 5 /\ Fd # "-1"
            THEN pc' = "elf" /\ ms' = r.ms /\ UNCHANGED run
            ELSE Tried(r.ms, r.rv, "text")
  /\ UNCHANGED <<opt, left, file, sb, fds, child, got, seen, said>>

\* The ELF reader copies what comes from a pipe to a temporary file first: the
\* copy that cannot be finished stays open.
TryElf ==
  /\ pc = "elf"
  /\ \/ \E j \in Junk : \E r \in {file_tryelf(ms, Data.elf, [ph |-> j.ph, sh |-> j.sh])} :
          /\ ms' = r.s /\ run' = [run EXCEPT !.m = r.rv] /\ seen' = [seen EXCEPT !.offs = r.offs, !.desc = r.desc]
          /\ pc' = "done" /\ UNCHANGED fds
     \/ /\ Fd = "pipe" /\ Data.elf.magic /\ ~Mime(ms) /\ "APPLE" \notin ms.flags
        /\ \E lost \in {{}, {"tfd"}} :
             /\ fds' = fds \cup lost /\ ms' = file_error(ms) /\ pc' = "done"
             /\ run' = [run EXCEPT !.m = "-1", !.lost = @ \/ lost # {}] /\ UNCHANGED seen
  /\ UNCHANGED <<opt, left, file, sb, child, got, said>>

\* The first of two tests of the text: what it trims is looked at again.
TryText ==
  /\ pc = "text"
  /\ IF "NO_CHECK_TEXT" \in ms.flags THEN Untried("giveup")
     ELSE \E soft \in SoftResults : \E j \in Junk :
            \E r \in {file_ascmagic(ms, Data.bytes, soft.rv, soft.word, j.ulen)} :
              Tried(r.ms, r.rv, "encoding")
  /\ UNCHANGED <<opt, left, file, sb, fds, child, got, seen, said>>

TryEncoding ==
  /\ pc = "encoding"
  /\ \E e \in {Encoded(ms.flags)} :
       IF "NO_CHECK_ENCODING" \in ms.flags \/ e.text THEN Untried("giveup")
       ELSE \E soft \in SoftResults :
              \E r \in {file_ascmagic_with_encoding(ms, Data.bytes, e, soft.rv, soft.word)} : Tried(r.ms, r.rv, "giveup")
  /\ UNCHANGED <<opt, left, file, sb, fds, child, got, seen, said>>

GiveUp ==
  /\ pc = "giveup" /\ pc' = "done"
  /\ \E p \in {Printed(ms, IF Mime(ms) /\ ~MimeType(ms) THEN <<>> ELSE <<"data">>)} :
       ms' = p.ms /\ run' = [run EXCEPT !.m = IF p.ok THEN "1" ELSE "fail"]
  /\ UNCHANGED <<opt, left, file, sb, fds, child, got, seen, said>>

\* The label error of file_zmagic().
ZEnd(s, rv) == [s EXCEPT !.flags = @ \cup {"COMPRESS"}]

\* file_zmagic() returns to the file_buffer() of the file.
ZReturn(s, rv) == pc' = "done" /\ ms' = ZEnd(s, rv) /\ run' = [run EXCEPT !.part = "file", !.m = rv]

\* What was uncompressed is looked at first; with nothing there, that fails.
Inside ==
  /\ pc = "inside" /\ child' = NoChild
  /\ \E bare \in {[ms EXCEPT !.flags = @ \ {"COMPRESS"}]} :
       IF got < 2
       THEN ZReturn(IF Mime(bare) /\ ~MimeType(bare) THEN bare ELSE Printed(bare, <<"short">>).ms, "-1")
       ELSE Begins(bare, "inner", "tar")
  /\ UNCHANGED <<opt, left, file, sb, fds, got, seen, said>>

\* The label done of file_buffer(), whose result is m, or -1 if printing failed.
EncodingWords(mime) ==
  IF "MIME_ENCODING" \notin ms.flags THEN <<>> ELSE IF MimeType(ms) THEN <<"charset", mime>> ELSE <<mime>>

BufferEnd ==
  /\ pc = "done"
  /\ \E e \in {Encoded(ms.flags)} : \E p \in {Printed(ms, EncodingWords(e.mime))} :
       \E rv \in {IF p.ok /\ run.m # "fail" THEN run.m ELSE "-1"} :
         CASE run.part = "file" ->
                pc' = "close" /\ ms' = p.ms /\ run' = [run EXCEPT !.rv = IF rv = "-1" THEN "-1" ELSE "0"]
           [] run.part # "file" /\ rv = "-1" -> ZReturn(p.ms, "-1")
           [] run.part = "inner" /\ rv # "-1" ->
                \E q \in {Printed(p.ms, IF ~Mime(ms) \/ MIME \subseteq ms.flags THEN <<"(">> ELSE <<>>)} :
                  IF ~q.ok THEN ZReturn(q.ms, "-1")
                  ELSE IF Mime(ms) /\ "MIME_ENCODING" \notin ms.flags THEN ZReturn(q.ms, "1")
                  ELSE Begins(q.ms, "outer", "tar")
           [] run.part = "outer" /\ rv # "-1" ->
                \E q \in {Printed(p.ms, IF Mime(ms) THEN <<>> ELSE <<")">>)} : ZReturn(q.ms, IF q.ok THEN "1" ELSE "-1")
  /\ UNCHANGED <<opt, left, file, sb, fds, child, got, seen, said>>

-----------------------------------------------------------------------------
(* The end of file_or_fd(), and of process().                               *)

\* close_and_restore(): the times are set to those stat() gave.
Restores(s) == run.opened /\ "PRESERVE_ATIME" \in s.flags

\* file_getbuffer(): only the raw result can be had, any other is written
\* through a pointer that was never set.
file_getbuffer(s) == IF s.had_err \/ s.out = <<>> THEN "NULL" ELSE IF "RAW" \in s.flags THEN "type" ELSE "segv"

Status(e, line) == IF line = "ERROR" THEN 1 ELSE e

close_and_restore ==
  /\ pc = "close"
  /\ fds' = fds \ {"fd"}
  /\ file' = IF Restores(ms) THEN [file EXCEPT !.mtime = sb.mtime] ELSE file
  /\ \E type \in {IF run.rv = "0" THEN file_getbuffer(ms) ELSE "NULL"} :
       \E line \in {IF type = "NULL" THEN "ERROR" ELSE type} :
         IF type = "segv" THEN pc' = "crashed" /\ UNCHANGED said
         ELSE pc' = "next" /\ said' = [lines |-> said.lines \cup {line}, e |-> Status(said.e, line)]
  /\ ms' = [ms EXCEPT !.mem = 0, !.io = 0] /\ sb' = NoStat /\ seen' = NoSeen
  /\ run' = [NoRun EXCEPT !.lost = run.lost, !.written = run.written]
  /\ UNCHANGED <<opt, left, child, got>>

Program ==
  \/ main_option \/ main_files \/ main_next \/ FsMagic \/ StatFile \/ OpenFile \/ ReadFile \/ file_zmagic
  \/ sread \/ sread_end \/ uncompress_wait \/ Inside \/ TryTar \/ TryCdf \/ TrySoft \/ TryElf \/ TryText
  \/ TryEncoding \/ GiveUp \/ BufferEnd \/ close_and_restore

Child == ChildWrite \/ ChildEnd

FileNext == Program \/ Child \/ WriteFile \/ ReplaceFile

\* The program that reads a pipe and the child that writes it are both run by
\* the scheduler.
FileSpec ==
  FileInit /\ [][FileNext]_vars /\ WF_vars(sread \/ sread_end \/ uncompress_wait) /\ WF_vars(Child)

-----------------------------------------------------------------------------
(* Properties.                                                              *)

\* Between two files no descriptor is left open, unless a pipe, a process or
\* the copy of a pipe could not be made (uncompressbuf, file_pipe2file).
NoDescriptorLeft == pc = "next" /\ ~run.lost => fds = {}

\* Looking inside compressed data clears MAGIC_COMPRESS while it runs: on
\* every way out of file_zmagic() the flags are those load() was given.
CompressRestored == pc = "next" => ms.flags = opt.with

\* uncompressbuf() reads HOWMANY bytes at most: the child that has more to
\* write is told by the closed pipe, so that the wait for it ends.
ChildReaped == (pc = "wait") ~> (pc # "wait")

\* file_or_fd() looks at a file and opens it afterwards: it can only be caught
\* in open() if a pipe was put there in between.
OpenBlocksOnlyIfReplaced == OpenBlocks => run.replaced

\* close_and_restore() sets the modification time back to the one it saw
\* before, and hides a write made since: only if -p asks for the times.
WriteHiddenOnlyWithP == run.written /\ file.mtime = 0 => "PRESERVE_ATIME" \in ms.flags

\* The exit status tells of an error of any file, not of the last one.
ExitStatusTells == pc = "exit" /\ "ERROR" \in said.lines => said.e = 1

Overlong(b) ==
  \E i \in 1..(Len(b) - 1) : \/ b[i] \in {192, 193} \/ (b[i] = 224 /\ b[i + 1] < 160)
                            \/ (b[i] = 240 /\ b[i + 1] < 144)

\* What softmagic is given of a UTF-8 text, its characters encoded again by
\* encode_utf8(), are its first bytes: nothing that is no UTF-8 gets through.
TextRoundTrip ==
  pc = "tar" => \A e \in {encoding_of(Content.bytes)} :
    e.code = "UTF-8" /\ ~Overlong(Content.bytes) => IsPrefix(encode_utf8(e.ubuf), Content.bytes)

\* file_trycdf() and the readers it calls free no block twice, whichever of
\* them fails.
NoDoubleFree == seen.heap.twice = {}

\* Nothing stays allocated after a document was read, unless printing failed,
\* too many sections were announced, or one of them had no properties.
CdfNothingLost ==
  pc = "close" /\ ~ms.had_err => seen.heap.live \subseteq
    (IF Content.cdf.sum.si_count > CDF_LOOP_LIMIT \/ Content.cdf.sum.sh_properties = 0 THEN {"info", "lost"} ELSE {})

\* Word k of the table whose sectors are ids.
WordOf(doc, ids, k) ==
  LET w == WordsPerSector(doc.h) IN doc.sector[ids[(k \div w) + 1] + 1].words[(k % w) + 1]

\* The sectors of a long stream are those of its chain in the allocation
\* table, in order, up to the end of the chain.
StreamIsChain ==
  LET doc == Content.cdf
      sat == Leading(doc.h.master, LAMBDA x : x < 0)
      ids == seen.scn.ids
      Covered(k) == k \div WordsPerSector(doc.h) < Len(sat)
  IN ids # <<>> /\ ~seen.scn.short =>
       /\ \A i \in 1..(Len(ids) - 1) : Covered(ids[i]) => WordOf(doc, sat, ids[i]) = ids[i + 1]
       /\ Covered(Last(ids)) => WordOf(doc, sat, Last(ids)) < 0
       /\ \E s \in DOMAIN doc.sector : \E d \in DOMAIN doc.sector[s].dirs :
            doc.sector[s].dirs[d].name = "SummaryInformation" /\ doc.sector[s].dirs[d].first = Head(ids)

\* donote() moves on with every note, or ends the loop with 0: an offset that
\* is rounded past the end of size_t comes back as one of these two.
NotesAdvance ==
  \A i \in 2..Len(seen.offs) : seen.offs[i] > seen.offs[i - 1] \/ (seen.offs[i] = 0 /\ i = Len(seen.offs))

\* Contents of a note are looked at only where they lie in the buffer: no size
\* and alignment that pass the checks make their end wrap around to a small one.
NotesInside == \A n \in seen.desc : n.doff + n.descsz <= n.size

\* The program that dumped core is named once, however many notes name it.
CoreNamedOnce == Cardinality({i \in DOMAIN ms.out : ms.out[i] = "from"}) <= 1

\* What one file does to the program does not last to the next one: descriptors
\* and flags are as before, but the exit status remembers a failure.
FileByFile == FileTypeOK /\ NoDescriptorLeft /\ CompressRestored /\ ExitStatusTells

\* Another process that replaces or writes the file between stat(), open() and
\* utime() does no more harm than the code admits.
RacesKnown == OpenBlocksOnlyIfReplaced /\ WriteHiddenOnlyWithP

\* The cascade of labels in file_trycdf() and the error paths of its readers
\* free every block, once.
CdfFreedOnce == NoDoubleFree /\ CdfNothingLost

=============================================================================
