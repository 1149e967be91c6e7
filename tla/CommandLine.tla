---------------------------- MODULE CommandLine ----------------------------
(***************************************************************************)
(* The command interpreter of the client: mainloop() reads a line into a   *)
(* static buffer, gettoken() walks through it with the static lineptr,     *)
(* docmd() looks the first token up in the table of commands and calls its *)
(* function, and checkend() verifies that no token is left.                *)
(*                                                                         *)
(* A word of a line is one cell of the buffer: gettoken() only tells words *)
(* from white space and from the end of the line.  What an earlier, longer *)
(* line left in the buffer stays there behind the null byte.               *)
(***************************************************************************)
EXTENDS Integers, Sequences, SequencesExt

CONSTANTS
  MAXLINE,     \* cells of the buffer, 512 in defs_cli.h
  Verbs,       \* first words the user may type
  Args,        \* further words the user may type
  MaxArgs      \* bound: further words on a line

SP   == " "
NL   == "\n"
EOS  == "NUL"
NULL == "NULL"     \* what gettoken() returns when nothing is left

\* "host:file", which is 7 when taken for a port number; a negative number; and
\* the names of the two modes.
HostFile == "7:f"
NegativeWord == "-7"
ModeWords == {"ascii", "binary"}

\* A bound on MAXLINE: the last cells of the buffer are never written.
ASSUME CommandLineAssumption ==
  /\ MaxArgs \in Nat /\ MAXLINE \in Nat /\ MAXLINE > 2 * MaxArgs + 6
  /\ NULL \notin Verbs \cup Args /\ {SP, NL, EOS} \cap (Verbs \cup Args) = {}

VARIABLES
  pc,            \* prompt, docmd (a line has been read), done, or exit
  line, lineptr, \* the buffer and the cell gettoken() looks at next
  hostname, port, modetype, verboseflag,
  typed,         \* the line as the user typed it: its words, newline and cells
  args,          \* what the command got from gettoken()
  result,        \* none, ok, or the error err_cmd() printed
  xfer           \* the call of do_get() or do_put()

settings == <<hostname, port, modetype, verboseflag>>
vars == <<pc, line, lineptr, hostname, port, modetype, verboseflag, typed,
          args, result, xfer>>

-----------------------------------------------------------------------------
(* The table of commands. *)

\* "keep in alphabetical order for binary search"
commands == <<"?", "ascii", "binary", "connect", "exit", "get", "help", "mode",
              "put", "quit", "status", "verbose">>
ncmds == Len(commands)

\* The first character decides every comparison with a name in the table.
Ascii(w) ==
  CASE w = "?" -> 63 [] w = "ascii" -> 97 [] w = "binary" -> 98
    [] w = "connect" -> 99 [] w = "exit" -> 101 [] w = "get" -> 103
    [] w = "help" -> 104 [] w = "mode" -> 109 [] w = "put" -> 112
    [] w = "quit" -> 113 [] w = "status" -> 115 [] w = "verbose" -> 118
    [] OTHER -> 110
strcmp(v, w) == Ascii(v) - Ascii(w)

\* Mutant: the search ends when one entry is left.
binary_strict(word, n) ==
  LET search[r \in (0..n) \X (-1..(n - 1))] ==
        LET low  == r[1]
            high == r[2]
            mid  == (low + high) \div 2
            cond == strcmp(word, commands[mid + 1])
        IN  IF low >= high THEN -1
            ELSE IF cond < 0 THEN search[<<low, mid - 1>>]
            ELSE IF cond > 0 THEN search[<<mid + 1, high>>]
            ELSE mid
  IN  search[<<0, n - 1>>]

\* The index of word in the table (from 0), or -1.
binary(word, n) ==
  LET search[r \in (0..n) \X (-1..(n - 1))] ==
        LET low  == r[1]
            high == r[2]
            mid  == (low + high) \div 2
            cond == strcmp(word, commands[mid + 1])
        IN  IF low > high THEN -1
            ELSE IF cond < 0 THEN search[<<low, mid - 1>>]
            ELSE IF cond > 0 THEN search[<<mid + 1, high>>]
            ELSE mid
  IN  search[<<0, n - 1>>]

-----------------------------------------------------------------------------
(* Reading the line. *)

\* The first cell from i on with the given property.
First(i, P(_)) == CHOOSE j \in i..MAXLINE : P(line[j]) /\ \A k \in i..(j-1) : ~P(line[k])

Blank(c) == c \in {SP, NL, EOS}

\* The token from cell i on, and the value of lineptr behind it: one cell
\* behind the white space, newline or null byte that ended the token.
gettoken(i) ==
  LET start == First(i, LAMBDA c : c # SP)
  IN  IF line[start] \in {NL, EOS} THEN [tok |-> NULL, ptr |-> start + 1]
      ELSE [tok |-> line[start], ptr |-> First(start, Blank) + 1]

\* The first, second, ... token of the line.
Token(n) ==
  LET tok[k \in 1..n] == IF k = 1 THEN gettoken(lineptr) ELSE gettoken(tok[k - 1].ptr)
  IN  tok[n]

\* Before a line is read.
None == [words |-> <<>>, ended |-> FALSE, cells |-> <<>>]

\* Mutant: the line is not null terminated.
get_line_raw(t) ==
  /\ pc = "prompt"
  /\ pc' = "docmd"
  /\ line' = [i \in 1..MAXLINE |-> IF i <= Len(t.cells) THEN t.cells[i] ELSE line[i]]
  /\ lineptr' = 1
  /\ typed' = t
  /\ UNCHANGED <<settings, args, result, xfer>>

\* fgets() stores the line and a null byte; the rest of the buffer stays.
get_line(t) ==
  /\ pc = "prompt"
  /\ pc' = "docmd"
  /\ line' = [i \in 1..MAXLINE |-> IF i <= Len(t.cells) THEN t.cells[i] ELSE IF i = Len(t.cells) + 1 THEN EOS ELSE line[i]]
  /\ lineptr' = 1
  /\ typed' = t
  /\ UNCHANGED <<settings, args, result, xfer>>

-----------------------------------------------------------------------------
(* Commands.  A command is called with the first token read. *)

\* docmd() calls the function of one of the given commands.
Called(names) ==
  /\ pc = "docmd"
  /\ LET i == binary(Token(1).tok, ncmds)
     IN  i >= 0 /\ commands[i + 1] \in names

\* What the command has got when it has called gettoken() up to the n-th token.
\* It stops at the first it misses, so that only the last may be NULL.
Taken(n) == [k \in 1..(IF Token(n).tok = NULL THEN n - 2 ELSE n - 1) |-> Token(k + 1).tok]

\* err_cmd(): longjmp() to the main loop, checkend() is not reached.
err_cmd(n, why) ==
  /\ pc' = "done" /\ result' = why
  /\ lineptr' = Token(n).ptr
  /\ args' = Taken(n)
  /\ UNCHANGED <<line, typed>>

\* err_quit() in the course of a transfer.
err_quit(n) ==
  /\ pc' = "exit" /\ result' = "quit"
  /\ lineptr' = Token(n).ptr
  /\ args' = Taken(n)
  /\ UNCHANGED <<line, typed>>

\* The command has called gettoken() up to the n-th token and returned.
checkend(n) ==
  /\ pc' = "done"
  /\ result' = IF Token(n + 1).tok = NULL THEN "ok" ELSE "trailing garbage"
  /\ lineptr' = Token(n + 1).ptr
  /\ args' = Taken(n)
  /\ UNCHANGED <<line, typed>>

empty_line ==
  /\ pc = "docmd" /\ Token(1).tok = NULL
  /\ pc' = "done" /\ result' = "ok" /\ lineptr' = Token(1).ptr
  /\ UNCHANGED <<line, typed, args, xfer, settings>>

unknown_command ==
  /\ pc = "docmd" /\ Token(1).tok # NULL
  /\ binary(Token(1).tok, ncmds) = -1
  /\ err_cmd(1, "unknown")
  /\ UNCHANGED <<settings, xfer>>

\* atoi() reads the digits at the beginning; without any the number is 0.
atoi(w) == CASE w = HostFile -> 7 [] w = NegativeWord -> -7 [] OTHER -> 0

cmd_connect ==
  /\ Called({"connect"})
  /\ IF Token(2).tok = NULL
     THEN err_cmd(2, "missing hostname") /\ UNCHANGED <<hostname, port>>
     ELSE /\ hostname' = Token(2).tok
          /\ IF Token(3).tok # NULL /\ atoi(Token(3).tok) < 0
             THEN err_cmd(3, "invalid port number") /\ UNCHANGED port
             ELSE port' = (IF Token(3).tok = NULL THEN port ELSE atoi(Token(3).tok)) /\ checkend(3)
  /\ UNCHANGED <<modetype, verboseflag, xfer>>

\* striphost(): the file, and the new hostname, of a remote file name.
striphost(w) == IF w = HostFile THEN [file |-> "f", host |-> HostFile]
                                ELSE [file |-> w, host |-> hostname]

\* cmd_get() and cmd_put(), whose file names are the tokens rem and loc.  The
\* transfer ends and docmd() goes on, or it is interrupted, or it ends the client.
Transfer(op, rem, loc) ==
  LET s == striphost(rem)
  IN  IF Token(2).tok = NULL
      THEN err_cmd(2, "missing filename") /\ UNCHANGED <<hostname, xfer>>
      ELSE IF Token(3).tok = NULL
      THEN err_cmd(3, "missing filename") /\ UNCHANGED <<hostname, xfer>>
      ELSE IF loc = HostFile
      THEN err_cmd(3, "host in local filename") /\ UNCHANGED <<hostname, xfer>>
      ELSE /\ hostname' = s.host
           /\ IF s.host = NULL
              THEN err_cmd(3, "no host") /\ UNCHANGED xfer
              ELSE /\ xfer' = [op |-> op, host |-> s.host, remote |-> s.file, local |-> loc]
                   /\ checkend(3) \/ err_cmd(3, "interrupted") \/ err_quit(3)

cmd_get ==
  /\ Called({"get"})
  /\ Transfer("get", Token(2).tok, Token(3).tok)
  /\ UNCHANGED <<port, modetype, verboseflag>>

cmd_put ==
  /\ Called({"put"})
  /\ Transfer("put", Token(3).tok, Token(2).tok)
  /\ UNCHANGED <<port, modetype, verboseflag>>

cmd_mode ==
  /\ Called({"mode"})
  /\ IF Token(2).tok \in ModeWords
     THEN checkend(2) /\ modetype' = Token(2).tok
     ELSE err_cmd(2, "mode must be ascii or binary") /\ UNCHANGED modetype
  /\ UNCHANGED <<hostname, port, verboseflag, xfer>>

\* The commands "ascii" and "binary".
cmd_ascii ==
  /\ Called({"ascii", "binary"})
  /\ modetype' = Token(1).tok
  /\ checkend(1)
  /\ UNCHANGED <<hostname, port, verboseflag, xfer>>

cmd_verbose ==
  /\ Called({"verbose"})
  /\ verboseflag' = ~verboseflag
  /\ checkend(1)
  /\ UNCHANGED <<hostname, port, modetype, xfer>>

cmd_status ==
  /\ Called({"?", "help", "status"})
  /\ checkend(1)
  /\ UNCHANGED <<settings, xfer>>

cmd_exit ==
  /\ Called({"exit", "quit"})
  /\ pc' = "exit" /\ result' = "ok"
  /\ lineptr' = Token(1).ptr
  /\ UNCHANGED <<line, typed, args, xfer, settings>>

\* mainloop() prints its prompt and goes round.
prompt ==
  /\ pc = "done"
  /\ pc' = "prompt"
  /\ typed' = None /\ args' = <<>> /\ result' = "none" /\ xfer' = <<>>
  /\ UNCHANGED <<line, lineptr, settings>>

\* The user starts the client again.
main ==
  /\ pc = "exit"
  /\ pc' = "prompt" /\ lineptr' = 1
  /\ line' = [i \in 1..MAXLINE |-> EOS]
  /\ hostname' = NULL /\ port' = 0 /\ modetype' = "ascii" /\ verboseflag' = FALSE
  /\ typed' = None /\ args' = <<>> /\ result' = "none" /\ xfer' = <<>>

-----------------------------------------------------------------------------
\* The cells of a line: its words separated by single blanks, with or without a
\* newline, which the last line of a file of commands may lack.
Cells(ws, nl) ==
  LET n == Len(ws)
      size == IF n = 0 THEN 1 ELSE 2 * n - (IF nl THEN 0 ELSE 1)
  IN  [i \in 1..size |-> IF i % 2 = 1 /\ i < 2 * n THEN ws[(i + 1) \div 2] ELSE IF i = size THEN NL ELSE SP]

Typed(ws, nl) == [words |-> ws, ended |-> nl, cells |-> Cells(ws, nl)]
Commands ==
  {ws \in UNION {[1..n -> Verbs \cup Args] : n \in 1..(MaxArgs + 1)} :
     ws[1] \in Verbs /\ \A k \in 2..Len(ws) : ws[k] \in Args}
Lines == {Typed(ws, TRUE) : ws \in Commands \cup {<<>>}} \cup {Typed(ws, FALSE) : ws \in Commands}

Init ==
  /\ pc = "prompt" /\ lineptr = 1
  /\ line = [i \in 1..MAXLINE |-> EOS]
  /\ hostname = NULL /\ port = 0 /\ modetype = "ascii" /\ verboseflag = FALSE
  /\ typed = None /\ args = <<>> /\ result = "none" /\ xfer = <<>>

Next ==
  \/ \E t \in Lines : get_line(t)
  \/ empty_line \/ unknown_command
  \/ cmd_connect \/ cmd_get \/ cmd_put \/ cmd_mode \/ cmd_ascii \/ cmd_verbose
  \/ cmd_status \/ cmd_exit
  \/ prompt \/ main

Spec == Init /\ [][Next]_vars

-----------------------------------------------------------------------------
(* Correctness properties. *)

\* The values of the settings; lineptr stays in the buffer.
TypeOK ==
  /\ pc \in {"prompt", "docmd", "done", "exit"}
  /\ lineptr \in 1..MAXLINE
  /\ hostname \in {NULL} \cup Verbs \cup Args
  /\ port \in {0, 7} /\ modetype \in ModeWords /\ verboseflag \in BOOLEAN

\* The arguments of a command are words of its own line, in their order, never
\* what an earlier line left in the buffer, if the line ends in a newline.
ArgsTyped ==
  (pc = "done" /\ typed.ended /\ typed.words # <<>>) =>
     IsPrefix(args, Tail(typed.words))

\* checkend() lets a line pass only if the command has used all its words.
NothingUnread ==
  (pc = "done" /\ result = "ok" /\ typed.ended /\ typed.words # <<>>) =>
     args = Tail(typed.words)

\* binary() misses no command and finds nothing else: the table is sorted and the
\* search reaches every entry.
UnknownIsUnknown ==
  pc = "done" =>
    ((result = "unknown") <=> (typed.words # <<>> /\ Head(typed.words) \notin ToSet(commands)))

\* Whatever earlier lines left in the static buffer, a command works on the words
\* of its own line, and on all of them if it succeeds.
WordsOfItsLine == TypeOK /\ ArgsTyped /\ NothingUnread
=============================================================================
