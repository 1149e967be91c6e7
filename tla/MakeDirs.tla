------------------------------ MODULE MakeDirs ------------------------------
(***************************************************************************)
(* coreutils mkdir, rmdir, mkfifo and mknod, with lib/mkdir-p.c,           *)
(* mkancesdirs.c, savewd.c and dirchownmod.c.  mkdir changes its working   *)
(* directory while it makes the ancestors of a directory, and has to come  *)
(* back for the next operand; if it cannot open the directory it starts    *)
(* in, a child does the work and exits instead of coming back.             *)
(* A directory is named by its path; there are no symbolic links, and all  *)
(* files belong to the user, who is not the superuser.                     *)
(***************************************************************************)
EXTENDS ModeChange

CONSTANTS
  Trees,         \* what there is at first: functions from paths to files
  Lines,         \* command lines
  OtherPaths,    \* directories another process may make
  MaxFails,      \* calls that fail, and signals
  MaxOthers      \* directories other processes make

ASSUME MakeDirsAssumption == {MaxFails, MaxOthers} \subseteq Nat

VARIABLES
  tree,     \* the files: kind, mode, who has made them
  ps,       \* the program and its child, if it has one
  line,     \* the command line, and what main() makes of it
  budget,   \* what may still fail, and what others may still do
  hist      \* how often each operand was dealt with; whether savewd has failed

mkvars == <<tree, ps, line, budget, hist>>

Home == <<"w">>       \* the directory the program is started in
Slash == <<>>
Nobody == [pc |-> "none"]
NoMode == [kind |-> "none"]
Unset == [mode |-> {}, bits |-> {}, umask |-> {"unset"}]

\* What there is at first, and what the user may type: names, a mode argument
\* that mode_compile() gets to the end of, a umask of permission bits.
FileTypes == [kind : {"dir", "reg", "nod"}, mode : SUBSET CHMOD_MODE_BITS, by : {"before", "other", "ancestor", "mkdir"}]
ASSUME TreesAssumption ==
  /\ \A t \in Trees :
       /\ DOMAIN t \subseteq Seq(STRING) /\ {Slash, Home} \subseteq DOMAIN t
       /\ \A x \in DOMAIN t : t[x] \in FileTypes /\ t[x].by = "before"
       /\ \A x \in DOMAIN t : x # Slash => Front(x) \in DOMAIN t
  /\ OtherPaths \subseteq Seq(STRING) \ {Slash}
ASSUME LinesAssumption ==
  \A l \in Lines :
    /\ DOMAIN l = {"prog", "parents", "ignore", "mode", "umask", "ops", "type", "numbers", "valid", "set"}
    /\ l.prog \in {"mkdir", "rmdir", "mkfifo", "mknod"} /\ {l.parents, l.ignore, l.valid} \subseteq BOOLEAN
    /\ l.ops \in Seq([abs : BOOLEAN, names : Seq(STRING) \ {<<>>}])
    /\ l.umask \subseteq S_IRWXUGO /\ l.set = Unset
    /\ l.mode.kind = "octal" => l.mode.bits \subseteq CHMOD_MODE_BITS
    /\ mode_compile(l.mode).ok => mode_compile(l.mode).changes \in Seq(ModeChanges)

\* The process as main() starts it: savewd_init(), the first operand.
Process ==
  [pc |-> "main", i |-> 1, status |-> 0, state |-> "INITIAL", child |-> "none", saved |-> FALSE, cwd |-> Home,
   names |-> <<>>, root |-> FALSE, made |-> FALSE, nofollow |-> FALSE, readable |-> FALSE, want |-> FALSE, fd |-> FALSE,
   inside |-> FALSE, err |-> "ok"]

MkInit ==
  /\ tree \in Trees /\ line \in Lines /\ budget = [fails |-> MaxFails, others |-> MaxOthers]
  /\ ps = [parent |-> Process, child |-> Nobody]
  /\ hist = [acted |-> [i \in DOMAIN line.ops |-> 0], lost |-> FALSE]

\* A call fails although nothing in the tree is the reason.
Trouble(failed) == failed => budget.fails > 0
Spend(failed) == budget' = IF failed THEN [budget EXCEPT !.fails = @ - 1] ELSE budget

-----------------------------------------------------------------------------
(* System calls.                                                            *)

Entry(dir, name) ==
  CASE name = "." -> dir
    [] name = ".." -> IF dir = Slash THEN dir ELSE Front(dir)
    [] OTHER -> Append(dir, name)

Search(t, dir) ==
  IF dir \notin DOMAIN t THEN "ENOENT"       \* the working directory was removed
  ELSE IF t[dir].kind # "dir" THEN "ENOTDIR"
  ELSE IF "ux" \in t[dir].mode THEN "ok" ELSE "EACCES"

\* One more component of a name.
Resolve(t, at, name) ==
  LET err == IF at.err = "ok" THEN Search(t, at.dir) ELSE at.err
      next == Entry(at.dir, name)
  IN  CASE err # "ok" -> [at EXCEPT !.err = err]
        [] err = "ok" /\ next \notin DOMAIN t -> [err |-> "ENOENT", dir |-> next]
        [] OTHER -> [err |-> "ok", dir |-> next]

Lookup(t, dir, names) ==
  LET at[k \in 0..Len(names)] == IF k = 0 THEN [err |-> "ok", dir |-> dir] ELSE Resolve(t, at[k - 1], names[k])
  IN  at[Len(names)]

\* mkdir(), mkfifo() and mknod(): the error, or the tree with the new file.
MakeError(t, dir, names) ==
  LET up == Lookup(t, dir, Front(names))
      new == Entry(up.dir, Last(names))
  IN  CASE up.err # "ok" -> up.err
        [] up.err = "ok" /\ Search(t, up.dir) # "ok" -> Search(t, up.dir)
        [] up.err = "ok" /\ Search(t, up.dir) = "ok" /\ new \in DOMAIN t -> "EEXIST"
        [] OTHER -> IF "uw" \in t[up.dir].mode THEN "ok" ELSE "EACCES"

With(t, path, file) == [x \in DOMAIN t \cup {path} |-> IF x = path THEN file ELSE t[x]]
Made(t, dir, names, kind, mode, by) ==
  With(t, Entry(Lookup(t, dir, Front(names)).dir, Last(names)), [kind |-> kind, mode |-> mode, by |-> by])

OpenError(t, dir, names) ==
  LET l == Lookup(t, dir, names)
  IN  IF l.err # "ok" THEN l.err
      ELSE IF t[l.dir].kind # "dir" THEN "ENOTDIR"
      ELSE IF "ur" \in t[l.dir].mode THEN "ok" ELSE "EACCES"

ChdirError(t, dir, names) ==
  LET l == Lookup(t, dir, names)
  IN  IF l.err # "ok" THEN l.err ELSE Search(t, l.dir)

Entries(t, dir) == {x \in DOMAIN t : x # Slash /\ Front(x) = dir}
RmdirError(t, dir, names) ==
  LET l == Lookup(t, dir, names)
  IN  CASE l.err # "ok" -> l.err
        [] l.err = "ok" /\ l.dir = Slash -> "EBUSY"
        [] l.err = "ok" /\ l.dir # Slash ->
             IF ~({"uw", "ux"} \subseteq t[Front(l.dir)].mode) THEN "EACCES"
             ELSE IF t[l.dir].kind # "dir" THEN "ENOTDIR"
             ELSE IF Entries(t, l.dir) # {} THEN "ENOTEMPTY" ELSE "ok"

\* Another process makes a directory.
Other ==
  /\ budget.others > 0 /\ budget' = [budget EXCEPT !.others = @ - 1] /\ ps.parent.pc \notin {"exit", "killed"}
  /\ \E path \in OtherPaths :
       /\ path \notin DOMAIN tree /\ Front(path) \in DOMAIN tree
       /\ tree' = With(tree, path, [kind |-> "dir", mode |-> S_IRWXUGO, by |-> "other"])
  /\ UNCHANGED <<ps, line, hist>>

-----------------------------------------------------------------------------
(* main() of the four programs.                                             *)

Goes(p, new) == ps' = [ps EXCEPT ![p] = new]
Compiled == mode_compile(line.mode)
Specified == line.mode # NoMode
Exits(status) == Goes("parent", [ps.parent EXCEPT !.pc = "exit", !.status = status])
Starts(mode, bits, umask) ==
  /\ line' = [line EXCEPT !.set = [mode |-> mode, bits |-> bits, umask |-> umask]]
  /\ Goes("parent", [ps.parent EXCEPT !.pc = "next"])

\* The old umask is cleared if there is a mode to be set exactly.
umask_cleared == IF Specified \/ (line.prog = "mkdir" /\ line.parents) THEN {} ELSE line.umask

\* setfscreatecon() for -Z may fail; no operand, or an invalid mode.
MainFails ==
  /\ ps.parent.pc = "main"
  /\ \E failed \in BOOLEAN :
       /\ Trouble(failed) /\ Spend(failed)
       /\ failed \/ line.ops = <<>> \/ (Specified /\ ~Compiled.ok)
  /\ Exits(1) /\ UNCHANGED <<tree, line, hist>>

mkdir_main ==
  /\ line.prog = "mkdir" /\ ps.parent.pc = "main" /\ line.ops # <<>>
  /\ IF ~Specified THEN Starts(IF line.parents THEN S_IRWXUGO \ line.umask ELSE S_IRWXUGO, {}, umask_cleared)
     ELSE LET a == mode_adjust(S_IRWXUGO, TRUE, line.umask, Compiled.changes)
          IN  Compiled.ok /\ Starts(a.mode, a.bits, umask_cleared)
  /\ UNCHANGED <<tree, budget, hist>>

rmdir_main ==
  /\ line.prog = "rmdir" /\ ps.parent.pc = "main" /\ line.ops # <<>>
  /\ Starts({}, {}, {}) /\ UNCHANGED <<tree, budget, hist>>

\* mkfifo and mknod allow only permission bits; mknod wants a type, and two
\* numbers unless the type is p.
Permissions(mode) == mode \subseteq S_IRWXUGO
Expected == line.numbers = (IF line.type = "p" THEN 0 ELSE 2)
Acceptable == line.prog = "mknod" => line.type \in {"p", "b", "c"} /\ Expected /\ line.valid
NodMode ==
  IF Specified THEN mode_adjust(S_IRUGO \cup S_IWUGO, FALSE, line.umask, Compiled.changes).mode
  ELSE S_IRUGO \cup S_IWUGO
nod_main ==
  /\ line.prog \in {"mkfifo", "mknod"} /\ ps.parent.pc = "main" /\ line.ops # <<>>
  /\ Specified => Compiled.ok
  /\ IF Acceptable /\ Permissions(NodMode) THEN Starts(NodMode, {}, umask_cleared)
     ELSE Exits(1) /\ UNCHANGED line
  /\ UNCHANGED <<tree, budget, hist>>

-----------------------------------------------------------------------------
(* savewd_process_files().                                                  *)

MaxOf(S) == IF S = {} THEN 0 ELSE Max(S)
LastRelative == MaxOf({k \in DOMAIN line.ops : ~line.ops[k].abs})
Running(p) == ps[p].pc \notin {"none", "main", "exit", "killed"} /\ line.prog = "mkdir"
\* Mutant: the parent does the child's operand as well.
Delegating_never(me) == FALSE

Delegating(me) == me.state = "FORKING" /\ me.child = "child"

\* savewd_finish(), before the last relative operand.
savewd_finish(p) ==
  LET me == ps[p] IN
  /\ Running(p) /\ me.pc = "next" /\ me.i >= LastRelative /\ me.state # "FINAL"
  /\ Goes(p, [me EXCEPT !.state = "FINAL", !.saved = FALSE])
  /\ UNCHANGED <<tree, line, budget, hist>>

\* What process_dir() has returned for the current operand.
Acted(p, me, ok) ==
  /\ Goes(p, [me EXCEPT !.pc = "restore", !.status = IF ok THEN @ ELSE 1])
  /\ hist' = [hist EXCEPT !.acted[me.i] = @ + 1]

\* The first steps of make_dir_parents(): a relative name is not tried if the
\* working directory is known to be lost.
ActOn(p) ==
  LET me == ps[p]
      op == line.ops[me.i]
      new == [me EXCEPT !.pc = IF line.parents THEN "ancestor" ELSE "mkdir", !.names = op.names, !.root = op.abs,
                        !.made = FALSE, !.want = FALSE, !.inside = FALSE]
  IN  /\ Running(p) /\ me.pc = "next" /\ me.i \in DOMAIN line.ops
      /\ me.i < LastRelative \/ me.state = "FINAL"
      /\ CASE Delegating(me) -> Goes(p, [me EXCEPT !.pc = "restore"]) /\ UNCHANGED hist
           [] ~Delegating(me) /\ ~op.abs /\ me.state = "ERROR" -> Acted(p, me, FALSE)
           [] OTHER -> Goes(p, new) /\ UNCHANGED hist
      /\ UNCHANGED <<tree, line, budget>>

\* exit() of the parent.
Leaves(p) ==
  LET me == ps[p] IN
  /\ Running(p) /\ me.pc = "next" /\ me.i \notin DOMAIN line.ops /\ me.state = "FINAL"
  /\ Goes(p, [me EXCEPT !.pc = "exit"]) /\ UNCHANGED <<tree, line, budget, hist>>

Onward(me) == [me EXCEPT !.pc = "next", !.i = @ + 1]
Restores(me) == me.i < LastRelative /\ ~line.ops[me.i + 1].abs

\* Mutant: what the child exits with is lost.
ChildStatus_ignored(status) == 0

\* savewd_restore(): fchdir() back, or the child exits and the parent waits for
\* it.  What it returns if fchdir() has failed, -1, does not raise the status.
ChildStatus(status) == status
savewd_restore(p) ==
  LET me == ps[p] IN
  /\ Running(p) /\ me.pc = "restore"
  /\ \/ /\ ~Restores(me) \/ me.state \in {"INITIAL", "FD", "ERROR"} \/ (me.state = "FORKING" /\ me.child = "none")
        /\ Goes(p, Onward(me)) /\ UNCHANGED <<budget, hist>>
     \/ /\ Restores(me) /\ me.state = "FDPOST"
        /\ \E failed \in BOOLEAN :
             /\ Trouble(failed) /\ Spend(failed)
             /\ hist' = [hist EXCEPT !.lost = @ \/ failed]
             /\ Goes(p, IF failed THEN [Onward(me) EXCEPT !.state = "ERROR", !.saved = FALSE]
                        ELSE [Onward(me) EXCEPT !.state = "FD", !.cwd = Home])
     \/ /\ Restores(me) /\ me.state = "FORKING" /\ me.child = "self"
        /\ Goes(p, [me EXCEPT !.pc = "exit"]) /\ UNCHANGED <<budget, hist>>
     \/ /\ Restores(me) /\ me.state = "FORKING" /\ me.child = "child" /\ ps.child.pc = "exit"
        /\ ps' = [parent |-> [Onward(me) EXCEPT !.child = "none", !.status = MaxOf({@, ChildStatus(ps.child.status)})],
                  child |-> Nobody]
        /\ UNCHANGED <<budget, hist>>
     \/ /\ Restores(me) /\ me.state = "FORKING" /\ me.child = "child" /\ ps.child.pc = "killed"
        /\ ps' = [parent |-> [me EXCEPT !.pc = "killed"], child |-> Nobody]   \* raise()
        /\ UNCHANGED <<budget, hist>>
  /\ UNCHANGED <<tree, line>>

\* A signal kills the child.
KillChild ==
  /\ Running("child") /\ Trouble(TRUE) /\ Spend(TRUE)
  /\ Goes("child", [ps.child EXCEPT !.pc = "killed"]) /\ UNCHANGED <<tree, line, hist>>

-----------------------------------------------------------------------------
(* savewd_chdir(): opens the directory, saves the working directory, and    *)
(* changes to it.                                                           *)

From(me) == IF me.root THEN Slash ELSE me.cwd
Aim(me) == IF me.want THEN me.names ELSE <<Head(me.names)>>

CloseDir(me) == [me EXCEPT !.fd = FALSE]

\* What the callers do with the result: mkancesdirs() goes on to the next
\* component, make_dir_parents() to dirchownmod().  A new directory that should
\* be readable and cannot be opened has failed in ChdirOpen.
Unexpected(me) == "ux" \in line.set.mode \/ (~me.fd /\ "ur" \in line.set.mode)
SetUp(p, me, ok) == Goes(p, [me EXCEPT !.pc = "chmod", !.inside = ok]) /\ UNCHANGED hist
NotChanged(p, me) ==
  IF ~me.want \/ Unexpected(me) THEN Acted(p, CloseDir(me), FALSE) ELSE SetUp(p, me, FALSE)
Changed(p, me) ==
  IF ~me.want
  THEN Goes(p, [CloseDir(me) EXCEPT !.pc = "ancestor", !.names = Tail(@), !.root = FALSE]) /\ UNCHANGED hist
  ELSE SetUp(p, me, TRUE)

ChdirOpen(p) ==
  LET me == ps[p]
      err == OpenError(tree, From(me), Aim(me))
  IN  /\ Running(p) /\ me.pc = "open"
      /\ \E failed \in IF me.want \/ me.nofollow THEN BOOLEAN ELSE {FALSE} :
           /\ Trouble(failed) /\ Spend(failed)
           /\ IF ~me.want /\ ~me.nofollow THEN Goes(p, [me EXCEPT !.pc = "save"]) /\ UNCHANGED hist
              ELSE IF failed \/ (err # "ok" /\ (err # "EACCES" \/ me.readable)) THEN NotChanged(p, me)
              ELSE Goes(p, [me EXCEPT !.pc = "save", !.fd = (err = "ok")]) /\ UNCHANGED hist
      /\ UNCHANGED <<tree, line>>

\* savewd_save(): open(".") fails for want of permission or otherwise; fork().
\* The parent takes it that the operand is done.
Fork(p, me) ==
  ps' = [parent |-> [me EXCEPT !.pc = "restore", !.state = "FORKING", !.child = "child", !.fd = FALSE],
         child |-> [me EXCEPT !.pc = "chdir", !.state = "FORKING", !.child = "self"]]
savewd_save(p) ==
  LET me == ps[p]
      denied == "ur" \notin tree[me.cwd].mode
      forks == (me.state = "INITIAL" /\ denied) \/ (me.state = "FORKING" /\ me.child = "none")
      go == [me EXCEPT !.pc = "chdir"]
  IN  /\ Running(p) /\ me.pc = "save"
      /\ \E failed \in IF me.state = "INITIAL" \/ forks THEN BOOLEAN ELSE {FALSE} :
           /\ Trouble(failed) /\ Spend(failed)
           /\ hist' = [hist EXCEPT !.lost = @ \/ failed]
           /\ IF failed THEN Goes(p, [go EXCEPT !.state = "ERROR", !.child = "none"])
              ELSE IF forks THEN Fork(p, me)
              ELSE IF me.state = "INITIAL" THEN Goes(p, [go EXCEPT !.state = "FD", !.saved = TRUE])
              ELSE Goes(p, go)
      /\ UNCHANGED <<tree, line>>

\* Mutant: the working directory is not known to have changed.
AfterChdir_same(state) == state

AfterChdir(state) == IF state = "FD" THEN "FDPOST" ELSE state
Chdir(p) ==
  LET me == ps[p]
      able == ChdirError(tree, From(me), Aim(me)) = "ok"
      there == [me EXCEPT !.cwd = Lookup(tree, From(me), Aim(me)).dir, !.state = AfterChdir(@)]
  IN  /\ Running(p) /\ me.pc = "chdir"
      /\ \E failed \in BOOLEAN :
           /\ Trouble(failed) /\ Spend(failed)
           /\ IF able /\ ~failed THEN Changed(p, there) ELSE NotChanged(p, me)
      /\ UNCHANGED <<tree, line>>

-----------------------------------------------------------------------------
(* mkancesdirs() and make_dir_parents().                                    *)

\* The scan over the components but the last; mkdir() is tried before chdir(),
\* and its failure is not looked at.
ancestor_mode == (S_IRWXUGO \ line.umask) \cup {"uw", "ux"}
mkancesdirs(p) ==
  LET me == ps[p]
      name == Head(me.names)
      err == MakeError(tree, From(me), <<name>>)
      made == CASE name = ".." -> FALSE [] name # ".." /\ err = "ok" -> TRUE [] OTHER -> me.made
  IN  /\ Running(p) /\ me.pc = "ancestor"
      /\ CASE Len(me.names) = 1 -> Goes(p, [me EXCEPT !.pc = "mkdir"]) /\ UNCHANGED tree
           [] Len(me.names) > 1 /\ name = "." -> Goes(p, [me EXCEPT !.names = Tail(@)]) /\ UNCHANGED tree
           [] OTHER ->
                /\ tree' = IF name # ".." /\ err = "ok"
                           THEN Made(tree, From(me), <<name>>, "dir", ancestor_mode, "ancestor") ELSE tree
                /\ Goes(p, [me EXCEPT !.pc = "open", !.made = made, !.nofollow = made,
                                      !.readable = name # ".." /\ err = "ok" /\ "ur" \in ancestor_mode])
      /\ UNCHANGED <<line, budget, hist>>

keep_special_mode_bits == (line.set.bits \cap SetIds) \cup (line.set.mode \cap {"t"}) = {}
\* Mutant: the directory gets its final mode at once.
mkdir_mode_open == line.set.mode

mkdir_mode == IF keep_special_mode_bits THEN line.set.mode ELSE line.set.mode \ {"gw", "ow"}

\* mkdir() of the directory itself, to which the kernel gives no set-id bits; it
\* is set up if there are special bits.
MakeDir(p) ==
  LET me == ps[p]
      err == MakeError(tree, From(me), me.names)
  IN  /\ Running(p) /\ me.pc = "mkdir"
      /\ IF err # "ok" THEN Goes(p, [me EXCEPT !.pc = "stat", !.err = err]) /\ UNCHANGED <<tree, hist>>
         ELSE /\ tree' = Made(tree, From(me), me.names, "dir", mkdir_mode \ (line.set.umask \cup SetIds), "mkdir")
              /\ IF keep_special_mode_bits THEN Acted(p, me, TRUE)
                 ELSE /\ Goes(p, [me EXCEPT !.pc = "open", !.want = TRUE, !.nofollow = TRUE,
                                            !.readable = "ur" \in line.set.mode])
                      /\ UNCHANGED hist
      /\ UNCHANGED <<line, budget>>

\* With -p a directory that exists is as good, whoever made it.
TakesExisting(me) ==
  LET l == Lookup(tree, From(me), me.names)
  IN  line.parents /\ me.err # "ENOENT" /\ l.err = "ok" /\ tree[l.dir].kind = "dir"
Existing(p) ==
  LET me == ps[p] IN
  /\ Running(p) /\ me.pc = "stat"
  /\ Acted(p, [me EXCEPT !.err = "ok"], TakesExisting(me))
  /\ UNCHANGED <<tree, line, budget>>

\* dirchownmod(); fchmod() is not used, and lchmod() may not be supported.
dirchownmod(p) ==
  LET me == ps[p]
      dir == IF me.inside THEN me.cwd ELSE Lookup(tree, From(me), me.names).dir
      old == tree[dir].mode
      mode == line.set.mode
      changes == ((old \ mode) \cup (mode \ old)) \cap line.set.bits # {}
  IN  /\ Running(p) /\ me.pc = "chmod"
      /\ \E failed \in IF changes THEN BOOLEAN ELSE {FALSE} :
           /\ Trouble(failed) /\ Spend(failed)
           /\ tree' = IF changes /\ ~failed THEN [tree EXCEPT ![dir].mode = mode \cup (old \ line.set.bits)] ELSE tree
           /\ Acted(p, CloseDir(me), ~failed)
      /\ UNCHANGED line

-----------------------------------------------------------------------------
(* The loops of rmdir, mkfifo and mknod.                                    *)

Parent == ps.parent
Operand == line.ops[Parent.i]
Start(op) == IF op.abs THEN Slash ELSE Home
Fails == [Parent EXCEPT !.status = 1]

make_nods ==
  /\ line.prog \in {"mkfifo", "mknod"} /\ Parent.pc = "next" /\ Parent.i \in DOMAIN line.ops
  /\ LET err == MakeError(tree, Start(Operand), Operand.names)
     IN  \E failed \in BOOLEAN :       \* ordinary users may make no devices
           /\ Trouble(failed) /\ Spend(failed)
           /\ tree' = IF err = "ok" /\ ~failed
                      THEN Made(tree, Start(Operand), Operand.names, "nod", line.set.mode \ line.set.umask, "mkdir")
                      ELSE tree
           /\ Goes("parent", Onward(IF err = "ok" /\ ~failed THEN Parent ELSE Fails))
  /\ UNCHANGED <<line, hist>>

\* rmdir() of the operand, and with -p of the parents the name has: all of them,
\* "/" included, until one cannot be removed.
Removal ==
  LET me == Parent
      names == IF me.want THEN me.names ELSE Operand.names
      err == RmdirError(tree, Start(Operand), names)
      last == ~line.parents \/ (~Operand.abs /\ Len(names) = 1)
  IN  /\ line.prog = "rmdir" /\ me.pc = "next" /\ me.i \in DOMAIN line.ops
      /\ IF err # "ok" THEN Goes("parent", [me EXCEPT !.pc = "judge", !.err = err, !.names = names]) /\ UNCHANGED tree
         ELSE /\ tree' = [x \in DOMAIN tree \ {Lookup(tree, Start(Operand), names).dir} |-> tree[x]]
              /\ Goes("parent", IF last THEN [Onward(me) EXCEPT !.want = FALSE]
                                ELSE [me EXCEPT !.want = TRUE, !.names = Front(names)])
      /\ UNCHANGED <<line, budget, hist>>

\* ignorable_failure(): also if the directory is empty and cannot be removed.
errno_may_be_empty(err) == err \in {"EACCES", "EPERM", "EROFS", "EEXIST", "EBUSY"}
is_empty_dir(dir) ==
  /\ OpenError(tree, Start(Operand), dir) = "ok"
  /\ Entries(tree, Lookup(tree, Start(Operand), dir).dir) = {}
ignorable_failure(dir, err) ==
  /\ line.ignore
  /\ \/ err \in {"ENOTEMPTY", "EEXIST"}
     \/ errno_may_be_empty(err) /\ is_empty_dir(dir)
Judge ==
  /\ line.prog = "rmdir" /\ Parent.pc = "judge"
  /\ Goes("parent", [Onward(IF ignorable_failure(Parent.names, Parent.err) THEN Parent ELSE Fails)
                       EXCEPT !.want = FALSE, !.err = "ok"])
  /\ UNCHANGED <<tree, line, budget, hist>>

LoopEnds ==
  /\ line.prog # "mkdir" /\ Parent.pc = "next" /\ Parent.i \notin DOMAIN line.ops
  /\ Exits(Parent.status) /\ UNCHANGED <<tree, line, budget, hist>>

-----------------------------------------------------------------------------
MkdirStep(p) ==
  \/ savewd_finish(p) \/ ActOn(p) \/ Leaves(p) \/ savewd_restore(p)
  \/ ChdirOpen(p) \/ savewd_save(p) \/ Chdir(p) \/ mkancesdirs(p) \/ MakeDir(p) \/ Existing(p) \/ dirchownmod(p)
MkNext ==
  \/ Other \/ KillChild \/ MainFails \/ mkdir_main \/ rmdir_main \/ nod_main
  \/ make_nods \/ Removal \/ Judge \/ LoopEnds
  \/ \E p \in {"parent", "child"} : MkdirStep(p)
-----------------------------------------------------------------------------
(* Properties.                                                              *)

MkOver == Parent.pc \in {"exit", "killed"}
Succeeds == Parent.pc = "exit" /\ Parent.status = 0
Lexical(op, k) ==
  LET path[j \in 0..k] == IF j = 0 THEN Start(op) ELSE Entry(path[j - 1], op.names[j])
  IN  path[k]
Target(op) == Lexical(op, Len(op.names))
Started == line.set # Unset
Untouched == budget = [fails |-> MaxFails, others |-> MaxOthers]

\* The type of the state.
MkTypeOK ==
  /\ budget.fails \in 0..MaxFails /\ budget.others \in 0..MaxOthers /\ hist.lost \in BOOLEAN
  /\ \A x \in DOMAIN tree : tree[x].mode \subseteq CHMOD_MODE_BITS /\ (x = Slash \/ Front(x) \in DOMAIN tree)
  /\ \A p \in {"parent", "child"} : ps[p].pc # "none" =>
       /\ ps[p].state \in {"INITIAL", "FD", "FDPOST", "FORKING", "ERROR", "FINAL"} /\ ps[p].status \in {0, 1}
       /\ ps[p].i \in 1..(Len(line.ops) + 1) /\ (line.prog = "mkdir" => ps[p].cwd \in DOMAIN tree)

\* Every operand of mkdir is dealt with once, by the parent or by one of its
\* children, and no assertion of savewd.c fails: a parent with a child leaves
\* absolute operands to it, and a child exits before the next relative one.
OperandOnce ==
  /\ Running("parent") /\ Parent.pc = "next" /\ Parent.i >= LastRelative => Parent.child = "none" /\ ps.child.pc = "none"
  /\ \A i \in DOMAIN hist.acted : hist.acted[i] <= 1
  /\ line.prog = "mkdir" /\ Parent.pc = "exit" /\ Started => \A i \in DOMAIN hist.acted : hist.acted[i] = 1

\* What mkdir makes is on the way from the directory it was started in to one of
\* its operands.  The exception is real: once saving or restoring that directory
\* has failed, the last relative operand is made wherever the process is then,
\* because savewd_finish() forgets the error.
NothingElsewhere ==
  ~hist.lost => \A x \in DOMAIN tree : tree[x].by \in {"mkdir", "ancestor"} =>
                   \E i \in DOMAIN line.ops : \E k \in 1..Len(line.ops[i].names) : x = Lexical(line.ops[i], k)

\* If mkdir succeeds every operand is a directory, also those a child has made;
\* with the same exception.
MkdirStatusTells ==
  line.prog = "mkdir" /\ Succeeds /\ ~hist.lost
    => \A i \in DOMAIN line.ops : Target(line.ops[i]) \in DOMAIN tree /\ tree[Target(line.ops[i])].kind = "dir"

\* mkdir -p succeeds where nothing stands in its way, whatever is there already
\* and whoever else makes the same directories at the same time.
Accessible(mode) == {"ur", "uw", "ux"} \subseteq mode
NothingInTheWay ==
  \A x \in DOMAIN tree : tree[x].by = "before" => tree[x].kind = "dir" /\ {"uw", "ux"} \subseteq tree[x].mode
ParentsSucceed ==
  line.prog = "mkdir" /\ line.parents /\ Parent.pc = "exit" /\ Started /\ Accessible(line.set.mode)
    /\ "ur" \notin line.umask /\ NothingInTheWay /\ budget.fails = MaxFails
    => Parent.status = 0

\* A directory that is to have special bits is not writable for others until it
\* has them.
NarrowUntilReady ==
  \A x \in DOMAIN tree : tree[x].by = "mkdir" /\ tree[x].kind = "dir" /\ tree[x].mode \cap {"gw", "ow"} # {}
    => line.set.mode \cap (SetIds \cup {"t"}) \subseteq tree[x].mode

\* What is made has the mode the user has asked for with octal digits, or by
\* saying nothing: exactly, through umask, mkdir() and lchmod() together.  Of
\* nodes, mkfifo and mknod make none with other than permission bits.
Asked ==
  IF line.mode.kind = "octal" THEN line.mode.bits
  ELSE (IF line.prog = "mkdir" THEN S_IRWXUGO ELSE S_IRUGO \cup S_IWUGO) \ line.umask
ModeAsAsked ==
  \A x \in DOMAIN tree : tree[x].by = "mkdir" =>
    /\ tree[x].kind = "nod" => tree[x].mode \subseteq S_IRWXUGO
    /\ Succeeds /\ line.mode.kind # "text" => tree[x].mode = Asked

\* Between operands a process of mkdir holds no descriptor but that of the saved
\* directory.
NoDescriptorKept ==
  \A p \in {"parent", "child"} : ps[p].pc \in {"next", "restore"} =>
    ~ps[p].fd /\ (ps[p].saved <=> ps[p].state \in {"FD", "FDPOST"})

\* If rmdir succeeds and nobody else is at work, what it was to remove is gone,
\* ancestors of a name included with -p; with --ignore-fail-on-non-empty what is
\* left has entries, or is an empty directory in one that cannot be written to,
\* or had entries until a later operand removed them.
Unremovable(x) == ~({"uw", "ux"} \subseteq tree[Front(x)].mode)
EmptiedLater(i, x) ==
  \E j \in DOMAIN line.ops : j > i /\ \E k \in DOMAIN line.ops[j].names : Front(Lexical(line.ops[j], k)) = x
RmdirTells ==
  line.prog = "rmdir" /\ Succeeds /\ Untouched =>
    \A i \in DOMAIN line.ops : \A k \in (IF line.parents THEN 1 ELSE Len(line.ops[i].names))..Len(line.ops[i].names) :
      LET x == Lexical(line.ops[i], k)
      IN  x \in DOMAIN tree => line.ignore /\ (Entries(tree, x) # {} \/ Unremovable(x) \/ EmptiedLater(i, x))

=============================================================================
