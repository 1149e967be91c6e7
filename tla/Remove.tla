------------------------------- MODULE Remove -------------------------------
(***************************************************************************)
(* coreutils/src/rm.c and lib/remove.c: the program rm.  Every operand     *)
(* that is a directory is refused before the walk can enter it (a          *)
(* semicolon follows the test for "." and ".."), so the cases of rm_fts()  *)
(* for what lies below an operand are never reached.                       *)
(***************************************************************************)
EXTENDS Fts

CONSTANT MaxOptions  \* options on the command line

ASSUME OptionsAssumption == MaxOptions \in Nat

IsRm == args.prog = "rm"
NoLog == [out |-> <<>>, bad |-> FALSE, changed |-> {}, removed |-> {}, asked |-> {}]
NoCmd == [status |-> "OK", exit |-> NONE, wp |-> 0, kind |-> "unknown", ok |-> TRUE, stat |-> NONE,
          own |-> [u |-> NONE, g |-> NONE], fd |-> NONE]

rm_option_init ==
  [interactive |-> "SOMETIMES", ignore |-> FALSE, recursive |-> FALSE, once |-> FALSE]

RmInit ==
  /\ pc = "options" /\ fs \in FileSystems /\ faults = MaxFaults /\ build \in [ndebug : BOOLEAN, dtype : {TRUE}]
  /\ sp = NoStream /\ fds = <<>> /\ stack = <<>> /\ cmd = NoCmd /\ log = NoLog
  /\ \E ops \in Operands["rm"], tty \in BOOLEAN, root \in BOOLEAN :
       args = [prog |-> "rm", ops |-> ops, left |-> MaxOptions, tty |-> tty, root |-> root, opt |-> rm_option_init]

\* The loop of getopt_long(); --interactive=never leaves ignore_missing_files
\* as it is, -f sets it.
RmOptions == {"f", "i", "I", "r", "never", "once", "always", "xdev", "nopreserve"}
Asks(o, how, ignore, once) == [o EXCEPT !.interactive = how, !.ignore = ignore, !.once = once]
WithOption(o, c) ==
  CASE c = "f" -> Asks(o, "NEVER", TRUE, FALSE)
    [] c \in {"i", "always"} -> Asks(o, "ALWAYS", FALSE, FALSE)
    [] c = "I" -> Asks(o, "NEVER", FALSE, TRUE)
    [] c = "never" -> Asks(o, "NEVER", o.ignore, FALSE)
    [] c = "once" -> Asks(o, "SOMETIMES", FALSE, TRUE)
    [] c = "r" -> [o EXCEPT !.recursive = TRUE]
    [] c \in {"xdev", "nopreserve"} -> o   \* about what is below an operand

RmOption ==
  /\ IsRm /\ pc = "options" /\ args.left > 0
  /\ \E c \in RmOptions : args' = [args EXCEPT !.left = @ - 1, !.opt = WithOption(@, c)]
  /\ UNCHANGED <<pc, fs, faults, build, sp, fds, stack, cmd, log>>

Exit(code) == pc' = "exit" /\ cmd' = [cmd EXCEPT !.exit = code]
Still == UNCHANGED <<fs, build, args>>

\* An option that does not exist, or no operands.
RmUsage ==
  /\ IsRm /\ pc = "options"
  /\ \/ args.left > 0 /\ Exit(1)
     \/ args.ops = <<>> /\ Exit(IF args.opt.ignore THEN 0 ELSE 1)
  /\ UNCHANGED <<faults, sp, fds, stack, log>> /\ Still

\* One question for all operands, if that was asked for.
PromptsOnce == args.opt.once /\ (args.opt.recursive \/ Len(args.ops) > 3)
RmMain ==
  /\ IsRm /\ pc = "options" /\ args.ops # <<>>
  /\ \E failed \in BOOLEAN, yes \in BOOLEAN :
       /\ MayFail(failed)   \* no memory, or no attributes of "/"
       /\ IF failed THEN Exit(1) /\ UNCHANGED <<sp, stack>>
          ELSE IF PromptsOnce /\ ~yes THEN Exit(0) /\ UNCHANGED <<sp, stack>>
          ELSE /\ fts_open({"CWDFD", "NOSTAT", "PHYSICAL"})
               /\ pc' = "read" /\ UNCHANGED cmd
  /\ args' = [args EXCEPT !.left = 0]
  /\ UNCHANGED <<fs, build, fds, log>>

-----------------------------------------------------------------------------
(* rm_fts() for one entry.                                                  *)

UPDATE_STATUS(status, s) == IF s = "ERROR" \/ (s = "DECLINED" /\ status = "OK") THEN s ELSE status

\* The entry has been dealt with.
Report(s, what) ==
  /\ cmd' = [cmd EXCEPT !.status = UPDATE_STATUS(@, s), !.wp = 0, !.kind = "unknown"]
  /\ log' = [log EXCEPT !.out = Append(@, <<cur.path, what>>)]

Got == pc = "got" /\ ~sp.discard

\* A directory: an error without -r, and with it as well.
RmDirectory ==
  /\ IsRm /\ Got /\ cur.info = "D"
  /\ Report("ERROR", "refused") /\ fts_set("SKIP") /\ sp' = [sp EXCEPT !.discard = TRUE] /\ pc' = "read"
  /\ UNCHANGED <<faults, fds>> /\ Still

\* write_protected_non_symlink(): 1 if not writable, -1 if the file is gone.
write_protected(i) ==
  IF args.root THEN 0 ELSE IF i = NONE THEN -1 ELSE IF fs[i].kind = "lnk" \/ fs[i].wr THEN 0 ELSE 1

ChecksProtection == ~args.opt.ignore /\ (args.opt.interactive = "ALWAYS" \/ args.tty)
RmProtected ==
  /\ IsRm /\ Got /\ cur.info \in {"F", "NS", "SL", "DEFAULT"}
  /\ LET i == At(sp, cur)
         looks == args.opt.interactive # "NEVER" /\ ChecksProtection
     IN  cmd' = [cmd EXCEPT !.wp = IF looks THEN write_protected(i) ELSE 0,
                            !.kind = IF looks /\ ~args.root /\ i # NONE THEN fs[i].kind ELSE "unknown"]
  /\ pc' = "prompt"
  /\ UNCHANGED <<faults, sp, fds, stack, log>> /\ Still

\* prompt(), after that: the status is cached, so a file replaced by now is
\* asked about as the one it was.
Seen(i) == IF cmd.kind # "unknown" THEN cmd.kind ELSE IF i = NONE THEN "none" ELSE fs[i].kind
RmPrompt ==
  /\ IsRm /\ pc = "prompt"
  /\ LET kind == Seen(At(sp, cur))
         always == args.opt.interactive = "ALWAYS"
         asks == args.opt.interactive # "NEVER" /\ (cmd.wp # 0 \/ always)
         fails == cmd.wp < 0 \/ kind = "none" \/ (kind = "dir" /\ ~args.opt.recursive)
     IN  IF ~asks \/ (~fails /\ kind = "lnk" /\ ~always)
         THEN pc' = "excise" /\ UNCHANGED <<cmd, log>>
         ELSE IF fails THEN pc' = "read" /\ Report("ERROR", "failed")
         ELSE \/ /\ pc' = "excise" /\ UNCHANGED cmd
                 /\ log' = [log EXCEPT !.asked = @ \cup {cur.path}]
              \/ pc' = "read" /\ Report("DECLINED", "declined")
  /\ UNCHANGED <<faults, sp, fds, stack>> /\ Still

\* excise(): what the name now refers to is removed, if it is no directory.
RmExcise ==
  /\ IsRm /\ pc = "excise" /\ pc' = "read"
  /\ \E denied \in BOOLEAN :
       LET d == DirOf(sp.cwd)
           name == Last(cur.path)
           i == At(sp, cur)
       IN  /\ MayFail(denied)
           /\ IF i = NONE
              THEN UNCHANGED fs /\ Report(IF args.opt.ignore THEN "OK" ELSE "ERROR", "missing")
              ELSE IF denied \/ fs[i].kind = "dir" THEN UNCHANGED fs /\ Report("ERROR", "failed")
              ELSE /\ fs' = [fs EXCEPT ![d].ents = Without(@, name)]
                   /\ cmd' = [cmd EXCEPT !.wp = 0, !.kind = "unknown"]
                   /\ log' = [log EXCEPT !.out = Append(@, <<cur.path, "removed">>),
                                         !.removed = @ \cup {[path |-> cur.path, ino |-> i, dir |-> d]}]
  /\ UNCHANGED <<sp, fds, stack, build, args>>

\* The end of the loop in rm(), and of main().
RmEnd ==
  /\ IsRm /\ pc = "null"
  /\ \E failed \in BOOLEAN :
       /\ MayFail(failed)   \* fts_close()
       /\ fds' = fts_close(Now).fds /\ sp' = [fts_close(Now).sp EXCEPT !.cwd = AT_FDCWD]
       /\ LET status == IF sp.errno \/ failed THEN UPDATE_STATUS(cmd.status, "ERROR") ELSE cmd.status
          IN  Exit(IF status = "ERROR" THEN 1 ELSE 0)
  /\ UNCHANGED <<stack, log>> /\ Still

Rm == RmOption \/ RmUsage \/ RmMain \/ RmDirectory \/ RmProtected \/ RmPrompt \/ RmExcise \/ RmEnd
=============================================================================
