------------------------------ MODULE Netascii ------------------------------
(***************************************************************************)
(* The netascii conversions of file_cli.c and file.c, and the two globals  *)
(* that carry a half-converted line end from one block to the next.        *)
(*                                                                         *)
(* The client's lastcr and nextchar live as long as the client, which      *)
(* executes many get and put commands; each child of the server has its    *)
(* own and file_open() resets them.  The blocks of a transfer arrive once  *)
(* and in order (CopyPrefix of TftpSystem), so that a step here is a block *)
(* read by file_read() at one end and written by file_write() at the other.*)
(***************************************************************************)
EXTENDS Integers, Sequences, SequencesExt

CONSTANTS
  MAXDATA,      \* bytes of a full block, 512 in defs.h
  MaxLen        \* bound: characters of a local file

ASSUME NetasciiAssumption == MAXDATA \in Nat \ {0} /\ MaxLen \in Nat

\* The characters that are converted, and one that is not.
LF  == "LF"
CR  == "CR"
NUL == "NUL"
Chars == {LF, CR, NUL, "x"}

NoChar == "-1"       \* nextchar < 0
Contents == UNION {[1..n -> Chars] : n \in 0..MaxLen}

VARIABLES
  phase,       \* prompt, get, put (in fsm_loop()), or exit
  cli, srv,    \* lastcr and nextchar of the client and of the child
  content,     \* the file to be transferred
  rest,        \* what file_read() has not read of it yet
  out,         \* what file_write() has written
  stale,       \* what the client's globals held when the transfer began
  outcome,     \* none, done, or error (file_write() met a CR it cannot convert)
  intr         \* a transfer of this client has been interrupted

navars == <<phase, cli, srv, content, rest, out, stale, outcome, intr>>

-----------------------------------------------------------------------------
(* file_read(): local file -> netascii. *)

\* One round of the loop of file_read() on r: the buffer filled so far, the
\* rest of the file, nextchar.  At the end of the file the loop returns.
ReadChar(r) ==
  IF r.next # NoChar
  THEN [r EXCEPT !.buf = Append(@, r.next), !.next = NoChar]
  ELSE IF r.rest = <<>> THEN r
  ELSE LET c == Head(r.rest)
       IN  [buf  |-> Append(r.buf, IF c = LF THEN CR ELSE c),
            rest |-> Tail(r.rest),
            next |-> CASE c = LF -> LF [] c = CR -> NUL [] OTHER -> NoChar]

\* The loop goes round at most MAXDATA times.
Rounds(start) ==
  LET round[k \in 0..MAXDATA] == IF k = 0 THEN start ELSE ReadChar(round[k - 1])
  IN  round[MAXDATA]

\* Mutants: nextchar is local to the call; the second byte of a CR is not sent.
file_read_noNul(g, s) ==
  LET r == Rounds([buf |-> <<>>, rest |-> s, next |-> g.nextchar])
  IN  [r EXCEPT !.next = IF @ = NUL THEN NoChar ELSE @]
file_read_forgets(g, s) == Rounds([buf |-> <<>>, rest |-> s, next |-> NoChar])

file_read(g, s) == Rounds([buf |-> <<>>, rest |-> s, next |-> g.nextchar])

-----------------------------------------------------------------------------
(* file_write(): netascii -> local file. *)

\* Mutant: a CR followed by NUL is written as both.
WriteChar_keepsNul(w, c) ==
  IF w.err THEN w
  ELSE IF w.lastcr
       THEN CASE c = LF  -> [w EXCEPT !.out = Append(@, LF), !.lastcr = FALSE]
              [] c = NUL -> [w EXCEPT !.out = @ \o <<CR, NUL>>, !.lastcr = FALSE]
              [] OTHER   -> [w EXCEPT !.err = TRUE]
       ELSE IF c = CR THEN [w EXCEPT !.lastcr = TRUE]
                      ELSE [w EXCEPT !.out = Append(@, c)]

\* One character of the buffer; "CR followed by" anything else ends the process.
WriteChar(w, c) ==
  IF w.err THEN w
  ELSE IF w.lastcr
       THEN CASE c = LF  -> [w EXCEPT !.out = Append(@, LF), !.lastcr = FALSE]
              [] c = NUL -> [w EXCEPT !.out = Append(@, CR), !.lastcr = FALSE]
              [] OTHER   -> [w EXCEPT !.err = TRUE]
       ELSE IF c = CR THEN [w EXCEPT !.lastcr = TRUE]
                      ELSE [w EXCEPT !.out = Append(@, c)]

\* The loop over the characters of the buffer.
Written(start, buf) ==
  LET round[k \in 0..Len(buf)] == IF k = 0 THEN start ELSE WriteChar(round[k - 1], buf[k])
  IN  round[Len(buf)]

\* Mutant: lastcr is local to the call.
file_write_forgets(g, o, buf) == Written([out |-> o, lastcr |-> FALSE, err |-> FALSE], buf)

file_write(g, o, buf) == Written([out |-> o, lastcr |-> g.lastcr, err |-> FALSE], buf)

-----------------------------------------------------------------------------
(* The two programs. *)

\* The static initialisers of the client, and file_open() of the server.
ClientGlobals == [lastcr |-> FALSE, nextchar |-> NUL]
file_open     == [lastcr |-> FALSE, nextchar |-> NoChar]

NetasciiInit ==
  /\ phase = "prompt" /\ outcome = "none" /\ intr = FALSE
  /\ cli = ClientGlobals /\ srv = file_open
  /\ content = <<>> /\ rest = <<>> /\ out = <<>> /\ stale = <<>>

\* The client's file_open() leaves its globals as they are.
Begin(dir, s) ==
  /\ phase = "prompt"
  /\ phase' = dir /\ outcome' = "none"
  /\ srv' = file_open
  /\ content' = s /\ rest' = s /\ out' = <<>>
  /\ stale' = CASE dir = "get" /\ cli.lastcr            -> <<CR>>
                [] dir = "put" /\ cli.nextchar # NoChar -> <<cli.nextchar>>
                [] OTHER                                -> <<>>
  /\ UNCHANGED <<cli, intr>>

do_get(s) == Begin("get", s)
do_put(s) == Begin("put", s)

\* file_close() of the server exits when the last character was a CR.
file_close_exits(r, w) == phase = "put" /\ Len(r.buf) < MAXDATA /\ w.lastcr

\* A block that is not full ends the transfer; so does a file_write() that
\* cannot convert, which ends the client, or leaves it to time out.
AfterBlock(r, w) ==
  IF w.err \/ file_close_exits(r, w)
  THEN /\ outcome' = "error"
       /\ phase' = IF phase = "get" THEN "exit" ELSE "prompt"
  ELSE IF Len(r.buf) < MAXDATA THEN outcome' = "done" /\ phase' = "prompt"
  ELSE UNCHANGED <<outcome, phase>>

\* A child reads a block and the client writes it.
GetBlock ==
  LET r == file_read(srv, rest)
      w == file_write(cli, out, r.buf)
  IN  /\ phase = "get"
      /\ rest' = r.rest /\ out' = w.out
      /\ srv' = [srv EXCEPT !.nextchar = r.next]
      /\ cli' = [cli EXCEPT !.lastcr = w.lastcr]
      /\ AfterBlock(r, w)
      /\ UNCHANGED <<content, stale, intr>>

\* The client reads a block and a child writes it.
PutBlock ==
  LET r == file_read(cli, rest)
      w == file_write(srv, out, r.buf)
  IN  /\ phase = "put"
      /\ rest' = r.rest /\ out' = w.out
      /\ cli' = [cli EXCEPT !.nextchar = r.next]
      /\ srv' = [srv EXCEPT !.lastcr = w.lastcr]
      /\ AfterBlock(r, w)
      /\ UNCHANGED <<content, stale, intr>>

\* fsm_loop() ends early with the client back at its prompt: interrupt,
\* timeout, or an error packet.
sig_intr ==
  /\ phase \in {"get", "put"}
  /\ phase' = "prompt" /\ intr' = TRUE
  /\ UNCHANGED <<cli, srv, content, rest, out, stale, outcome>>

\* The user starts the client again.
start_again ==
  /\ phase = "exit"
  /\ phase' = "prompt" /\ outcome' = "none" /\ intr' = FALSE
  /\ cli' = ClientGlobals
  /\ UNCHANGED <<srv, content, rest, out, stale>>

NetasciiNext ==
  \/ \E s \in Contents : do_get(s) \/ do_put(s)
  \/ GetBlock \/ PutBlock \/ sig_intr \/ start_again

NetasciiSpec == NetasciiInit /\ [][NetasciiNext]_navars

-----------------------------------------------------------------------------
(* Correctness properties. *)

Globals == [lastcr : BOOLEAN, nextchar : Chars \cup {NoChar}]

\* The values of the globals and of the files.
NetasciiTypeOK ==
  /\ phase \in {"prompt", "get", "put", "exit"}
  /\ cli \in Globals /\ srv \in Globals
  /\ content \in Contents /\ rest \in Contents
  /\ out \in Seq(Chars) /\ stale \in Seq(Chars)
  /\ outcome \in {"none", "done", "error"} /\ intr \in BOOLEAN

\* The netascii form of a file: newline is CR LF, CR is CR NUL.
Code(c) == CASE c = LF -> <<CR, LF>>
             [] c = CR -> <<CR, NUL>>
             [] OTHER  -> <<c>>
Encode(s) == FlattenSeq([i \in DOMAIN s |-> Code(s[i])])

Sender   == IF phase = "get" THEN srv ELSE cli
Receiver == IF phase = "get" THEN cli ELSE srv

\* Between two blocks nothing is lost: what has been written, the CR that
\* file_write() holds back, the second byte that file_read() holds back and what
\* is still to be read make up the netascii form of the file, wherever the
\* block boundary falls in a two-byte sequence.
InFlight ==
  NetasciiTypeOK /\ ((phase \in {"get", "put"} /\ stale = <<>>) =>
     Encode(out) \o (IF Receiver.lastcr THEN <<CR>> ELSE <<>>)
       \o (IF Sender.nextchar # NoChar THEN <<Sender.nextchar>> ELSE <<>>)
       \o Encode(rest)
     = Encode(content))

\* A transfer that ends normally copies the file, except that what the client's
\* globals held when it began comes first: always a null byte in the first put,
\* the second half of a line end after an interrupted put.  A CR left over by an
\* interrupted get takes the place of the file's first byte.
RoundTrip ==
  outcome = "done" =>
     IF stale = <<CR>> THEN content = <<>> \/ out = stale \o Tail(content)
                       ELSE out = stale \o content

\* "CR followed by 0x..": file_write() gives up only when the client carries a
\* CR over from an interrupted get.
ErrorNeedsInterrupt == outcome = "error" => intr /\ stale = <<CR>>

\* "For files that are transferred in netascii, we must perform the reverse
\* conversions that file_write() does." (file_cli.c): a put that was not preceded
\* by an interrupt copies the file.
PutsExact == (outcome = "done" /\ ~intr) => out = content
=============================================================================
