------------------------------- MODULE Chown --------------------------------
(***************************************************************************)
(* coreutils/src/chown.c, src/chgrp.c, lib/chown-core.c and userspec.c:    *)
(* the programs chown and chgrp.  A file may be replaced by another        *)
(* process between any two of the steps.                                   *)
(***************************************************************************)
EXTENDS Remove

CONSTANT Specs  \* what may stand for owner and group on the command line

\* A part of a specification is a name of the database, a number, the number
\* -1, or neither; `whole' if user, dot and group together are a login name.
Parts == {"none", "name", "number", "minus", "unknown"}
ASSUME SpecsAssumption ==
  Specs \subseteq [user : Parts, sep : {"none", "colon", "dot"}, group : Parts, whole : BOOLEAN]

-----------------------------------------------------------------------------
(* userspec.c.  The name and the number of the examples stand for id 1, the *)
(* login group of the name is 2, the owner `whole' is 3.                    *)

Invalid == [u |-> NONE, g |-> NONE, bad |-> TRUE]
Ids(u, g) == [u |-> u, g |-> g, bad |-> FALSE]

\* The group is looked up only if the user was no error.
WithGroup(u, part) ==
  CASE part = "none" -> Ids(u, NONE)
    [] part \in {"name", "number"} -> Ids(u, 1)
    [] OTHER -> Invalid

parse_with_separator(s, sep) ==
  LET user == IF sep # "none" \/ s.sep = "none" THEN s.user ELSE IF s.whole THEN "whole" ELSE "unknown"
      group == IF sep = "none" THEN "none" ELSE s.group
  IN  CASE user = "none" -> WithGroup(NONE, group)
        [] user = "whole" -> Ids(3, NONE)
        [] user = "name" -> IF sep # "none" /\ group = "none" THEN Ids(1, 2) ELSE WithGroup(1, group)
        [] user = "number" -> IF sep # "none" /\ group = "none" THEN Invalid ELSE WithGroup(1, group)
        [] OTHER -> Invalid

\* With no colon the dot is tried as a separator, after the whole has failed.
parse_user_spec(s) ==
  IF s.sep = "colon" THEN parse_with_separator(s, "colon")
  ELSE LET plain == parse_with_separator(s, "none")
       IN  IF plain.bad /\ s.sep = "dot" THEN parse_with_separator(s, "dot") ELSE plain

\* A second --from leaves what it does not name as the first one has set it.
Onto(old, new) ==
  [old EXCEPT !.u = IF new.u = NONE THEN @ ELSE new.u, !.g = IF new.g = NONE THEN @ ELSE new.g]

\* chgrp's parse_group(): there is no test for -1.
parse_group(part) == IF part \in {"name", "number"} THEN Ids(NONE, 1) ELSE IF part = "unknown" THEN Invalid ELSE Ids(NONE, NONE)

-----------------------------------------------------------------------------
(* main() of chown and chgrp.                                               *)

NoSpec == [user |-> "none", sep |-> "none", group |-> "none", whole |-> FALSE]
chopt_init ==
  [flags |-> {"PHYSICAL"}, deref |-> NONE, preserve |-> FALSE, recurse |-> FALSE, verbose |-> FALSE,
   reference |-> FALSE, from |-> Ids(NONE, NONE)]
opt == args.opt
IsChown == args.prog \in {"chown", "chgrp"}

ChownInit ==
  /\ pc = "options" /\ fs \in FileSystems /\ faults = MaxFaults /\ build \in [ndebug : BOOLEAN, dtype : BOOLEAN]
  /\ sp = NoStream /\ fds = <<>> /\ stack = <<>> /\ cmd = NoCmd /\ log = NoLog
  /\ \E prog \in {"chown", "chgrp"} : \E ops \in Operands[prog] :
       args = [prog |-> prog, ops |-> ops, left |-> MaxOptions, opt |-> chopt_init]

ChownOptions == {"H", "L", "P", "h", "deref", "preserve", "reference", "R", "v"}
WithChownOption(o, c) ==
  CASE c = "H" -> [o EXCEPT !.flags = {"COMFOLLOW", "PHYSICAL"}]
    [] c = "L" -> [o EXCEPT !.flags = {"LOGICAL"}]
    [] c = "P" -> [o EXCEPT !.flags = {"PHYSICAL"}]
    [] c = "h" -> [o EXCEPT !.deref = 0]
    [] c = "deref" -> [o EXCEPT !.deref = 1]
    [] c = "preserve" -> [o EXCEPT !.preserve = TRUE]
    [] c = "reference" -> [o EXCEPT !.reference = TRUE]
    [] c = "R" -> [o EXCEPT !.recurse = TRUE]
    [] c = "v" -> [o EXCEPT !.verbose = TRUE]

ChownOption ==
  /\ IsChown /\ pc = "options" /\ args.left > 0
  /\ \/ \E c \in ChownOptions : args' = [args EXCEPT !.left = @ - 1, !.opt = WithChownOption(@, c)]
     \/ /\ args.prog = "chown"
        /\ \E s \in Specs :
             /\ ~parse_user_spec(s).bad
             /\ args' = [args EXCEPT !.left = @ - 1, !.opt.from = Onto(@, parse_user_spec(s))]
  /\ UNCHANGED <<pc, fs, faults, build, sp, fds, stack, cmd, log>>

\* A walk that follows no links cannot be asked to affect what they point to;
\* without -R the walk is physical.
FollowsNone(o) == o.recurse /\ o.flags = {"PHYSICAL"}
Contradicts == FollowsNone(opt) /\ opt.deref = 1
Final(o, to, spec) ==
  [flags |-> IF o.recurse THEN o.flags ELSE {"PHYSICAL"}, recurse |-> o.recurse, verbose |-> o.verbose,
   referent |-> o.deref # 0 /\ ~FollowsNone(o), root |-> o.recurse /\ o.preserve, from |-> o.from, to |-> to, spec |-> spec]

\* An option that does not exist, a bad --from, a contradiction, no operands.
ChownUsage ==
  /\ IsChown /\ pc = "options"
  /\ \/ args.left > 0
     \/ Contradicts
     \/ args.ops = <<>>
  /\ Exit(1) /\ UNCHANGED <<faults, sp, fds, stack, log>> /\ Still

\* The ids to give, from the reference file (its owner is 1, its group 2) or
\* from the first argument.
ChownParse ==
  /\ IsChown /\ pc = "options" /\ ~Contradicts /\ args.ops # <<>>
  /\ \E s \in IF opt.reference THEN {NoSpec} ELSE Specs :
       LET to == IF opt.reference THEN Ids(IF args.prog = "chown" THEN 1 ELSE NONE, 2)
                 ELSE IF args.prog = "chown" THEN parse_user_spec(s) ELSE parse_group(s.group)
       IN  /\ args' = [args EXCEPT !.left = 0, !.opt = Final(@, to, s)]
           /\ IF to.bad THEN Exit(1) ELSE pc' = "open" /\ UNCHANGED cmd
  /\ UNCHANGED <<fs, faults, build, sp, fds, stack, log>>

\* chown_files(): nothing is examined that nobody needs.
Restricted == opt.from.u # NONE \/ opt.from.g # NONE
Referent == opt.referent
RootKnown == opt.root
StatFlags == IF Restricted \/ Referent \/ opt.verbose THEN {} ELSE {"NOSTAT"}
ChownOpen ==
  /\ IsChown /\ pc = "open"
  /\ \E failed \in BOOLEAN :
       /\ MayFail(failed)   \* no memory, or no attributes of "/"
       /\ IF failed THEN Exit(1) /\ UNCHANGED <<sp, stack>>
          ELSE fts_open(opt.flags \cup {"CWDFD", "DEFER_STAT"} \cup StatFlags) /\ pc' = "read" /\ UNCHANGED cmd
  /\ args' = [args EXCEPT !.opt.spec = NoSpec]
  /\ UNCHANGED <<fs, build, fds, log>>

-----------------------------------------------------------------------------
(* change_file_owner() for one entry.                                       *)

\* Returns at once, and the entry is left as it is.
Leave(ok) == cmd' = [cmd EXCEPT !.ok = @ /\ ok] /\ UNCHANGED log

\* The function's end: without -R the tree below is skipped.
EndSkip(p) == IF opt.recurse THEN p ELSE [p EXCEPT !.instr = "SKIP"]
Finish(ok) ==
  /\ cmd' = [cmd EXCEPT !.ok = @ /\ ok, !.stat = NONE, !.kind = "unknown", !.own = NoCmd.own, !.fd = NONE]
  /\ stack' = SetCur(EndSkip(cur)) /\ pc' = "read"

\* What became of an entry; of those below an operand only whether it failed.
Outcome(what) ==
  [log EXCEPT !.bad = @ \/ what = "failed", !.out = IF Level(cur) > 0 THEN @ ELSE Append(@, <<cur.path, what>>)]

OwnerVisit ==
  \/ /\ cur.info = "D" /\ opt.recurse /\ pc' = "read"
     /\ LET isroot == RootKnown /\ cur.ino = Root
        IN  /\ Leave(~isroot)
            /\ IF isroot THEN fts_set("SKIP") /\ sp' = [sp EXCEPT !.discard = TRUE] ELSE UNCHANGED <<sp, stack>>
  \/ /\ cur.info = "DP" /\ ~opt.recurse /\ pc' = "read" /\ Leave(TRUE) /\ UNCHANGED <<sp, stack>>
  \/ /\ cur.info = "NS" /\ Level(cur) = 0 /\ cur.number = 0 /\ pc' = "read" /\ Leave(TRUE)
     /\ stack' = SetCur([cur EXCEPT !.number = 1, !.instr = "AGAIN"]) /\ UNCHANGED sp
  \/ /\ cur.info = "DC" /\ pc' = "read" /\ Leave(FALSE) /\ UNCHANGED <<sp, stack>>
  \/ /\ cur.info \in {"ERR", "DNR"} \/ (cur.info = "NS" /\ (Level(cur) > 0 \/ cur.number = 1))
     /\ Finish(FALSE) /\ UNCHANGED sp
     /\ log' = Outcome("failed")

ChownVisit == IsChown /\ Got /\ OwnerVisit /\ UNCHANGED <<faults, fds>> /\ Still

Matches(own) == (opt.from.u \in {NONE, own.u}) /\ (opt.from.g \in {NONE, own.g})
Simple == ~Restricted /\ ~opt.verbose /\ ~RootKnown /\ ~Referent
Decides ==
  \/ cur.info \in {"F", "SL", "SLNONE", "DEFAULT", "NSOK"}
  \/ cur.info = "D" /\ ~opt.recurse
  \/ cur.info = "DP" /\ opt.recurse

\* do_chown: the owner is tested as the walk, or a look through the link, saw it.
\* (The second test for "/" is for logical walks, which end at the first directory.)
ChownDecide ==
  /\ IsChown /\ Got /\ Decides
  /\ LET through == ~Simple /\ Referent /\ cur.kind = "lnk"
         i == IF through THEN Follow(fs, At(sp, cur)) ELSE cur.ino
         ok == ~through \/ i # NONE
         own == IF through /\ ok THEN fs[i].own ELSE cur.own
         kind == IF through /\ ok THEN fs[i].kind ELSE cur.kind
     IN  IF ok /\ (Simple \/ Matches(own))
         THEN /\ pc' = "change" /\ UNCHANGED <<stack, log>>
              /\ cmd' = [cmd EXCEPT !.stat = i, !.kind = kind, !.own = own]
         ELSE /\ Finish(ok)
              /\ log' = Outcome(IF ok THEN "kept" ELSE "failed")
  /\ UNCHANGED <<faults, sp, fds>> /\ Still

Owned(own) == Onto(own, opt.to)

\* One of the calls that change an owner, on inode i.
Changes(i, how, done) ==
  /\ fs' = IF done THEN [fs EXCEPT ![i].own = Owned(@)] ELSE fs
  /\ log' = [Outcome(IF done THEN "changed" ELSE "failed") EXCEPT
               !.changed = IF done THEN @ \cup {[ino |-> i, how |-> how, level |-> Level(cur),
                                                 same |-> i = cmd.stat, match |-> Matches(fs[i].own)]} ELSE @]
  /\ Finish(done)

\* lchownat(); a system without it changes nothing and that is no error.
ChownLink ==
  /\ IsChown /\ pc = "change" /\ ~Referent
  /\ \/ \E failed \in BOOLEAN :
          LET i == At(sp, cur)
          IN  MayFail(failed) /\ Changes(i, "link", ~failed /\ i # NONE)
     \/ /\ MayFail(TRUE) /\ Finish(TRUE) /\ UNCHANGED fs
        /\ log' = Outcome("unsupported")
  /\ UNCHANGED <<sp, fds, build, args>>

\* restricted_chown(): opens the file only if there is something to check.
ChownOpens ==
  /\ IsChown /\ pc = "change" /\ Referent
  /\ LET i == Follow(fs, At(sp, cur))
         needs == Restricted /\ cmd.kind \in {"reg", "dir"}
         denied == i # NONE /\ ~fs[i].rd /\ ~(cmd.kind = "reg" /\ fs[i].wr)
     IN  IF ~needs \/ denied THEN pc' = "ordinary" /\ UNCHANGED <<fs, log, cmd, stack, fds>>
         ELSE IF i = NONE \/ (cmd.kind = "dir" /\ ~IsDir(fs, i))
         THEN Changes(i, "fd", FALSE) /\ UNCHANGED fds
         ELSE \E o \in {Opened(fds, i)} :
                /\ fds' = o.open /\ cmd' = [cmd EXCEPT !.fd = o.fd] /\ pc' = "opened" /\ UNCHANGED <<fs, log, stack>>
  /\ UNCHANGED <<faults, sp, build, args>>

\* Mutant: what was opened is taken for what fts_read() saw.
SAME_INODE_any(i) == TRUE

\* The rest of it, on the descriptor.  A file whose owner no longer matches is
\* left alone, and the status says it was changed.
SAME_INODE(i) == i = cmd.stat
ChownDescriptor ==
  /\ IsChown /\ pc = "opened" /\ fds' = Closed(fds, {cmd.fd})
  /\ \E failed \in BOOLEAN :
       LET i == fds[cmd.fd]
       IN  /\ MayFail(failed)
           /\ IF ~failed /\ SAME_INODE(i) /\ ~Matches(fs[i].own)
              THEN /\ Finish(TRUE) /\ UNCHANGED fs
                   /\ log' = Outcome("kept")
              ELSE Changes(i, "fd", ~failed /\ SAME_INODE(i))
  /\ UNCHANGED <<sp, build, args>>

ChownOrdinary ==
  /\ IsChown /\ pc = "ordinary"
  /\ \E failed \in BOOLEAN :
       LET i == Follow(fs, At(sp, cur))
       IN  MayFail(failed) /\ Changes(i, "ordinary", ~failed /\ i # NONE)
  /\ UNCHANGED <<sp, fds, build, args>>

ChownEnd ==
  /\ IsChown /\ pc = "null"
  /\ \E failed \in BOOLEAN :
       /\ MayFail(failed)   \* fts_close()
       /\ fds' = fts_close(Now).fds /\ sp' = [fts_close(Now).sp EXCEPT !.cwd = AT_FDCWD]
       /\ Exit(IF cmd.ok /\ ~sp.errno /\ ~failed THEN 0 ELSE 1)
  /\ UNCHANGED <<stack, log>> /\ Still

Chown ==
  \/ ChownOption \/ ChownUsage \/ ChownParse \/ ChownOpen \/ ChownVisit \/ ChownDecide
  \/ ChownLink \/ ChownOpens \/ ChownDescriptor \/ ChownOrdinary \/ ChownEnd

-----------------------------------------------------------------------------
FtsInit == RmInit \/ ChownInit
FtsNext == World \/ Walk \/ Rm \/ Chown

-----------------------------------------------------------------------------
(* Properties.                                                              *)

Infos == {"INIT", "NSOK", "NS", "D", "DP", "DC", "DNR", "ERR", "F", "SL", "SLNONE", "DEFAULT"}
Quiet == faults = MaxFaults
Ended == pc \in {"exit", "crash"}

\* The type of the state.
FtsTypeOK ==
  /\ pc \in {"options", "open", "read", "chdir", "readdir", "back", "check", "enter", "got", "null", "prompt",
             "excise", "change", "opened", "ordinary", "exit", "crash"}
  /\ faults \in 0..MaxFaults /\ sp.ring.front \in Slots /\ sp.ring.back \in Slots
  /\ \A i \in Slots : sp.ring.data[i] \in Int
  /\ \A l \in DOMAIN stack : \A k \in DOMAIN stack[l] : stack[l][k].info \in Infos /\ stack[l][k].dirs \in Nat
  /\ cmd.exit \in {NONE, 0, 1} /\ cmd.status \in {"OK", "DECLINED", "ERROR"}

\* Descriptors: the walk's working directory, the ring and the directory being
\* read are open, all different, and nothing else is; none is left at the end.
\* fts_safe_changedir() never takes a descriptor back from the ring, so all of
\* them have to be closed by being displaced, by RESTORE_INITIAL_CWD() or by
\* fts_close().
Held == {sp.cwd, sp.dirp, cmd.fd} \cup Range(sp.ring.data)
DescriptorsExact ==
  /\ {fd \in Held : fd >= 0} = DOMAIN fds
  /\ pc # "crash" => /\ Cardinality(DOMAIN fds) =
                          Cardinality({i \in Slots : sp.ring.data[i] >= 0}) + (IF sp.cwd >= 0 THEN 1 ELSE 0)
                            + (IF sp.dirp >= 0 THEN 1 ELSE 0) + (IF cmd.fd >= 0 THEN 1 ELSE 0)
                     /\ pc = "exit" => DOMAIN fds = {}

\* The walk dies only in one of three ways: in a build with assert() at the
\* first directory, in a logical walk at the first directory, and in
\* link_count_optimize_ok() if readdir() tells no types or the directory has
\* changed since.
CrashesAreWalks ==
  pc = "crash" => \/ ~build.ndebug
                  \/ Set("LOGICAL")
                  \/ Set("NOSTAT") /\ (~build.dtype \/ DirOf(sp.cwd) # parent.ino)

\* As long as nobody else changes anything, what is found in a directory is
\* looked up in that directory: "If we're going to need to stat anything or we
\* want to descend and stay in the directory, chdir" and, only "if descended
\* after called from fts_children or after called from fts_read and nothing
\* found, get back", say the comments in fts_build() (fts.c:514, 715).
VisitsWhereFound ==
  pc = "got" /\ Quiet /\ ~NoChdir(sp) /\ Len(stack) > 1 => DirOf(sp.cwd) = parent.ino

\* rm and, without -R, chown and chgrp report on every operand exactly once and
\* on nothing else, in order, whatever fails and whatever other processes do,
\* unless the walk itself stops.  The entry fts_skip_tree() drops is the
\* second visit of the directory, never another operand.
Reported == [k \in DOMAIN log.out |-> log.out[k][1]]
EachOperandOnce ==
  pc = "exit" /\ stack = <<>> /\ sp.options # {} /\ (IsChown => ~opt.recurse)
    => Reported = [k \in DOMAIN args.ops |-> <<args.ops[k]>>]

\* If rm succeeds then every operand was removed, or the user said no, or with
\* -f there was none; in particular none was a directory.
RmStatusTells ==
  IsRm /\ pc = "exit" /\ cmd.exit = 0
    => \A k \in DOMAIN log.out :
         log.out[k][2] \in {"removed", "declined"} \cup (IF args.opt.ignore THEN {"missing"} ELSE {})

\* rm asks before it removes a file that is write-protected, if it is to ask at
\* all and there is a terminal; another process may still replace the file
\* between the question and the removal.
AsksIfProtected ==
  IsRm /\ Quiet /\ ~args.root /\ ChecksProtection /\ args.opt.interactive # "NEVER"
    => \A r \in log.removed : r.path \in log.asked \/ fs[r.ino].wr \/ fs[r.ino].kind = "lnk"

\* With --from, and when the file could be opened, only the file the walk has
\* examined is changed, and only while its owner matches: the comparison of
\* inodes in restricted_chown() holds off a file put in its place.
FromRespected ==
  \A c \in log.changed : c.how = "fd" => c.same /\ c.match

\* Without -R nothing below an operand is ever visited.
NonRecursiveStays == IsChown /\ ~opt.recurse => Len(stack) <= 1

\* chown succeeds only if nothing it has reported went wrong.
ChownStatusTells ==
  IsChown /\ pc = "exit" /\ cmd.exit = 0 => ~log.bad

\* A dot separates user and group only if the whole is no login name.
DotIsLastResort ==
  args.prog = "chown" /\ pc = "open" /\ opt.spec.sep = "dot" /\ opt.spec.whole
    => opt.to = Ids(3, NONE)

\* The two ways a physical walk goes on for ever (ProgramsEnd in Coreutils): it
\* comes back to a directory without entries, which fts_build() does not turn
\* into a second visit; or two directories hold each other's names, which are
\* looked up side by side in the initial directory.
EmptyRead == pc = "back" /\ Last(stack) = <<>>
Names(d) == {e.name : e \in Range(fs[d].ents)}
Cross(e, d) == e # d /\ IsDir(fs, e.ino) /\ IsDir(fs, d.ino) /\ d.name \in Names(e.ino)
Crossed == \E e, d \in Range(fs[Cwd].ents) : Cross(e, d) /\ Cross(d, e)
Wanders == pc = "enter" /\ sp.counter = MaxEnter /\ Crossed
=============================================================================
