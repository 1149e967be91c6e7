-------------------------------- MODULE Fts ---------------------------------
(***************************************************************************)
(* coreutils/lib/fts.c, fts-cycle.c, cycle-check.c, i-ring.c and xfts.c:   *)
(* the walk over file trees that rm, chown and chgrp are built on.  It     *)
(* shares the file system with other processes.                            *)
(* Modelled are the walks these three programs ask for: no comparison      *)
(* function, and of the instructions of fts_set() FTS_SKIP and FTS_AGAIN.  *)
(* The programs are the modules Remove and Chown.                          *)
(***************************************************************************)
EXTENDS Integers, Sequences, FiniteSets, SequencesExt

CONSTANTS
  FileSystems,  \* what the disk may hold: functions from inodes to files
  Operands,     \* the names on the command line of each program: sequences
  Spare,        \* inodes another process may put in the place of an operand
  MaxFaults,    \* changes by other processes and calls that fail
  MaxEnter,     \* directories a walk may enter for one operand
  I_RING_SIZE   \* descriptors of parent directories that are kept

ASSUME FtsAssumption == {MaxFaults, MaxEnter} \subseteq Nat /\ I_RING_SIZE \in Nat \ {0}

VARIABLES
  pc,       \* what the program does next
  fs,       \* the files: kind, entries, target, parent, owner, permissions
  faults,   \* changes and failures that may still happen
  build,    \* how the program was built, whether readdir() tells types
  sp,       \* the stream: options, fts_cwd_fd, ring, cycle state, open directory
  fds,      \* open descriptors, and the directories they are open on
  stack,    \* a sequence of entries for each level; its first is the current one
  args,     \* program, names and options
  cmd,      \* what the client is doing with the current entry
  log       \* what was changed, asked for, refused

vars == <<pc, fs, faults, build, sp, fds, stack, args, cmd, log>>

-----------------------------------------------------------------------------
(* The file system, as the system calls see it.                             *)

NONE == -1
AT_FDCWD == -100
Root == 0
Cwd == 1

\* What there is at first: every name in a directory is that of a file, and a
\* directory knows the one it is in; only "/" may be named from elsewhere.
Kinds == {"dir", "lnk", "reg", "chr"}
Files(inodes) ==
  [kind : Kinds, ents : Seq([name : STRING, ino : inodes]), to : inodes \cup {NONE}, up : inodes \cup {NONE},
   own : [u : Int, g : Int], rd : BOOLEAN, wr : BOOLEAN]
ASSUME FilesAssumption ==
  /\ \A f \in FileSystems :
       /\ f \in [DOMAIN f -> Files(DOMAIN f)]
       /\ {Root, Cwd} \cup Spare \subseteq DOMAIN f /\ DOMAIN f \subseteq Nat
       /\ f[Cwd].kind = "dir"
       /\ \A i \in DOMAIN f : f[i].kind = "dir" => f[i].up \in DOMAIN f /\ f[f[i].up].kind = "dir"
       /\ f[Root].kind = "dir" /\ f[Root].up = Root
       /\ \A i \in DOMAIN f : \A e \in Range(f[i].ents) : f[e.ino].kind = "dir" => f[e.ino].up = i \/ e.ino = Root
  /\ \A prog \in {"rm", "chown", "chgrp"} : Operands[prog] \subseteq Seq(STRING)

Find(f, d, name) ==
  LET at == {e \in Range(f[d].ents) : e.name = name}
  IN  IF at = {} THEN NONE ELSE (CHOOSE e \in at : TRUE).ino

Follow(f, i) == IF i # NONE /\ f[i].kind = "lnk" THEN f[i].to ELSE i
IsDir(f, i) == i # NONE /\ f[i].kind = "dir"

\* The entries of a directory when a name is taken away.
Without(ents, name) ==
  IF \E k \in DOMAIN ents : ents[k].name = name
  THEN RemoveAt(ents, CHOOSE k \in DOMAIN ents : ents[k].name = name) ELSE ents
Enter(f, d, name) == IF IsDir(f, Follow(f, d)) THEN Find(f, Follow(f, d), name) ELSE NONE
DirOf(fd) == IF fd = AT_FDCWD THEN Cwd ELSE fds[fd]
Subdirs(f, d) == Cardinality({e \in Range(f[d].ents) : f[e.ino].kind = "dir"})

\* Another process puts a file in the place of a name, takes it away, or changes
\* its owner.
World ==
  /\ pc \notin {"exit", "crash"} /\ faults > 0
  /\ \E name \in Range(args.ops) :
       \/ \E j \in Spare \cup {NONE} :
            LET other == Without(fs[Cwd].ents, name)
            IN  /\ Find(fs, Cwd, name) # j
                /\ fs' = [fs EXCEPT ![Cwd].ents = IF j = NONE THEN other ELSE Append(other, [name |-> name, ino |-> j])]
       \/ /\ Find(fs, Cwd, name) # NONE
          /\ fs' = [fs EXCEPT ![Find(fs, Cwd, name)].own = [u |-> 0, g |-> 0]] /\ fs' # fs
  /\ faults' = faults - 1
  /\ UNCHANGED <<pc, build, sp, fds, stack, args, cmd, log>>

\* A system call may fail where another could have succeeded.
MayFail(failed) == (failed => faults > 0) /\ faults' = faults - (IF failed THEN 1 ELSE 0)

-----------------------------------------------------------------------------
(* i-ring.c and the virtual working directory.  A pair of the stream and    *)
(* the open descriptors goes through these operators.                       *)

Slots == 0..(I_RING_SIZE - 1)
i_ring_init == [data |-> [i \in Slots |-> NONE], front |-> 0, back |-> 0, empty |-> TRUE]

Step(r) == IF r.empty THEN 0 ELSE 1
i_ring_push(r, v) ==
  LET dest == (r.front + Step(r)) % I_RING_SIZE
  IN  [data |-> [r.data EXCEPT ![dest] = v], front |-> dest, empty |-> FALSE,
       back |-> IF dest = r.back THEN (r.back + Step(r)) % I_RING_SIZE ELSE r.back]
Displaced(r) == r.data[(r.front + Step(r)) % I_RING_SIZE]

Closed(open, S) == [fd \in DOMAIN open \ S |-> open[fd]]
Opened(open, d) ==
  LET fd == CHOOSE n \in 3..(3 + Cardinality(DOMAIN open)) : n \notin DOMAIN open
  IN  [open |-> [k \in DOMAIN open \cup {fd} |-> IF k = fd THEN d ELSE open[k]], fd |-> fd]

\* fd_ring_clear(): pops until the ring is empty and closes what it pops.
fd_ring_clear(st) ==
  [sp |-> [st.sp EXCEPT !.ring = [i_ring_init EXCEPT !.front = st.sp.ring.back, !.back = st.sp.ring.back]],
   fds |-> Closed(st.fds, Range(st.sp.ring.data))]

\* Mutant: the directory that goes into the ring is closed too.
cwd_advanced_fd_both(st, fd, down) ==
  [sp |-> [st.sp EXCEPT !.cwd = fd, !.ring = IF down THEN i_ring_push(@, st.sp.cwd) ELSE @],
   fds |-> Closed(st.fds, {st.sp.cwd})]

cwd_advanced_fd(st, fd, down) ==
  [sp |-> [st.sp EXCEPT !.cwd = fd, !.ring = IF down THEN i_ring_push(@, st.sp.cwd) ELSE @],
   fds |-> Closed(st.fds, IF down THEN {Displaced(st.sp.ring)} ELSE {st.sp.cwd})]

NoChdir(s) == "NOCHDIR" \in s.options
RESTORE_INITIAL_CWD(st) ==
  IF NoChdir(st.sp) THEN fd_ring_clear(st) ELSE cwd_advanced_fd(fd_ring_clear(st), AT_FDCWD, TRUE)

\* fts_safe_changedir(sp, p, -1, ".."): the test for ".." compares with "", so
\* the ring is never popped; the parent is opened and the old descriptor kept.
fts_safe_changedir(st) ==
  IF NoChdir(st.sp) THEN st
  ELSE LET o == Opened(st.fds, fs[DirOf(st.sp.cwd)].up)
       IN  cwd_advanced_fd([sp |-> st.sp, fds |-> o.open], o.fd, TRUE)

Now == [sp |-> sp, fds |-> fds]
Becomes(st) == sp' = st.sp /\ fds' = st.fds

-----------------------------------------------------------------------------
(* Entries.                                                                 *)

Level(p) == Len(p.path) - 1
Set(option) == option \in sp.options

fts_alloc(path, info) ==
  [path |-> path, info |-> info, required |-> TRUE, kind |-> "none", ino |-> NONE, own |-> [u |-> NONE, g |-> NONE],
   dirs |-> 0, error |-> FALSE, instr |-> "none", number |-> 0, dontchdir |-> FALSE]

\* The inode fts_accpath names: the whole path if the walk does not change
\* directories, else the last name in the virtual working directory.
At(s, p) ==
  IF NoChdir(s)
  THEN LET at[k \in 0..Len(p.path)] == IF k = 0 THEN Cwd ELSE Enter(fs, at[k - 1], p.path[k])
       IN  at[Len(p.path)]
  ELSE Find(fs, DirOf(s.cwd), Last(p.path))

InfoOf(kind) == [dir |-> "D", lnk |-> "SL", reg |-> "F", chr |-> "DEFAULT"][kind]
Known(p, i) ==
  [p EXCEPT !.kind = fs[i].kind, !.ino = i, !.own = fs[i].own,
            !.dirs = IF fs[i].kind = "dir" THEN Subdirs(fs, i) ELSE @]

\* An error stays in fts_errno when a later call succeeds.
fts_stat(s, p) ==
  LET i == At(s, p)
      follow == "LOGICAL" \in s.options \/ (Level(p) = 0 /\ "COMFOLLOW" \in s.options)
      t == IF follow THEN Follow(fs, i) ELSE i
  IN  CASE i = NONE -> [p EXCEPT !.info = "NS", !.kind = "none", !.ino = NONE, !.error = TRUE]
        [] i # NONE /\ t = NONE -> [Known(p, i) EXCEPT !.info = "SLNONE"]
        [] OTHER -> [Known(p, t) EXCEPT !.info = InfoOf(fs[t].kind)]

cur == Head(Last(stack))
SetCur(p) == [stack EXCEPT ![Len(stack)] = <<p>> \o Tail(@)]

\* fts_set(): an instruction for the next call of fts_read().
fts_set(instr) == stack' = SetCur([cur EXCEPT !.instr = instr])

\* The first operand is examined at once, the others when they are read.
fts_open(options) ==
  LET s == [options |-> IF "LOGICAL" \in options THEN (options \ {"CWDFD"}) \cup {"NOCHDIR"} ELSE options,
            cwd |-> AT_FDCWD, ring |-> i_ring_init, counter |-> 0, seen |-> NONE, dirp |-> NONE, stop |-> FALSE,
            errno |-> FALSE, discard |-> FALSE]
      root(i) == IF i = 1 THEN fts_stat(s, fts_alloc(<<args.ops[i]>>, "NSOK")) ELSE fts_alloc(<<args.ops[i]>>, "NSOK")
  IN  /\ sp' = s
      /\ stack' = << <<fts_alloc(<<"">>, "INIT")>> \o [i \in 1..Len(args.ops) |-> root(i)] >>

NoStream ==
  [options |-> {}, cwd |-> AT_FDCWD, ring |-> i_ring_init, counter |-> 0, seen |-> NONE, dirp |-> NONE,
   stop |-> FALSE, errno |-> FALSE, discard |-> FALSE]

-----------------------------------------------------------------------------
(* fts-cycle.c.  The state is set up with one value of CC_MAGIC and         *)
(* asserted to have another: a build with assert() aborts at the first      *)
(* directory.  A logical walk calls hash_insert(), which compares with the  *)
(* empty bucket and fails (module HashTable).                               *)

is_zero_or_power_of_two(n) == \E k \in 0..8 : n = 2 ^ k

\* Mutant: the cycle check never finds one.
cycle_check_never(s, i) == FALSE

cycle_check(s, i) == s.counter # 0 /\ s.seen = i
Counted(s, i) ==
  [s EXCEPT !.counter = @ + 1, !.seen = IF is_zero_or_power_of_two(s.counter + 1) THEN i ELSE @]

LeaveFails(p) == Set("LOGICAL") \/ (Level(p) > 0 /\ sp.counter = 0)
Return(p) == IF LeaveFails(p) THEN "crash" ELSE "got"

-----------------------------------------------------------------------------
(* fts_read().                                                              *)

Keep == UNCHANGED <<fs, build, args, cmd, log>>
Plain(p) == [p EXCEPT !.instr = "none"]
Reading == pc = "read"
Again == cur.instr = "AGAIN"
PreOrder == cur.info = "D" /\ ~Again

ReadAgain ==
  /\ Reading /\ Again
  /\ stack' = SetCur(fts_stat(sp, Plain(cur))) /\ pc' = "got"
  /\ UNCHANGED <<faults, sp, fds>> /\ Keep

ReadSkipped ==
  /\ Reading /\ PreOrder /\ cur.instr = "SKIP"
  /\ stack' = SetCur([Plain(cur) EXCEPT !.info = "DP"]) /\ pc' = Return(cur)
  /\ UNCHANGED <<faults, sp, fds>> /\ Keep

\* fts_build(): opendir() follows a link that has replaced the directory.
BuildOpen ==
  /\ Reading /\ PreOrder /\ cur.instr # "SKIP"
  /\ \E failed \in BOOLEAN :
       LET d == Follow(fs, At(sp, cur))
       IN  /\ MayFail(failed)
           /\ IF failed \/ ~IsDir(fs, d)
              THEN /\ stack' = SetCur([Plain(cur) EXCEPT !.info = "DNR", !.error = TRUE])
                   /\ pc' = Return(cur) /\ UNCHANGED <<sp, fds>>
              ELSE LET o == Opened(fds, d)
                   IN  /\ fds' = o.open /\ sp' = [sp EXCEPT !.dirp = o.fd]
                       /\ stack' = SetCur(Plain(cur)) /\ pc' = "chdir"
  /\ Keep

\* The directory that was opened becomes the working directory, unless dup()
\* fails: then nothing is read, and the entry is an error if it had links.
BuildChdir ==
  /\ pc = "chdir"
  /\ \E failed \in BOOLEAN :
       /\ MayFail(failed)
       /\ IF failed /\ Set("CWDFD")
          THEN \E e \in {cur.error \/ ~Set("NOSTAT") \/ cur.dirs # 0} :
                 /\ stack' = SetCur([cur EXCEPT !.dontchdir = TRUE, !.error = e, !.info = IF e THEN "ERR" ELSE "DP"])
                 /\ fds' = Closed(fds, {sp.dirp}) /\ sp' = [sp EXCEPT !.dirp = NONE] /\ pc' = Return(cur)
          ELSE /\ IF NoChdir(sp) THEN UNCHANGED <<sp, fds>>
                  ELSE LET o == Opened(fds, fds[sp.dirp]) IN Becomes(cwd_advanced_fd([sp |-> sp, fds |-> o.open], o.fd, TRUE))
               /\ pc' = "readdir" /\ UNCHANGED stack
  /\ Keep

\* Every entry is left for fts_read() to examine, unless nobody asked for its
\* status and readdir() says it is no directory.
Child(e) ==
  LET known == build.dtype
      kind == fs[e.ino].kind
  IN  [fts_alloc(cur.path \o <<e.name>>, "NSOK") EXCEPT
         !.kind = IF known THEN kind ELSE "none",
         !.required = ~(Set("PHYSICAL") /\ Set("NOSTAT") /\ known /\ kind # "dir")]

BuildRead ==
  /\ pc = "readdir"
  /\ fds' = Closed(fds, {sp.dirp})
  /\ \E failed \in BOOLEAN :
       LET ents == fs[fds[sp.dirp]].ents
       IN  /\ MayFail(failed) /\ (failed => ents # <<>>)
           /\ IF failed   \* out of memory
              THEN /\ stack' = SetCur([cur EXCEPT !.info = "ERR"]) /\ pc' = "null"
                   /\ sp' = [sp EXCEPT !.dirp = NONE, !.stop = TRUE, !.errno = TRUE]
              ELSE /\ stack' = Append(stack, [i \in 1..Len(ents) |-> Child(ents[i])]) /\ pc' = "back"
                   /\ sp' = [sp EXCEPT !.dirp = NONE]
  /\ Keep

\* `type = BCHILD || !nitems' assigns, so the walk always goes back up before
\* it looks at what it has found; and an empty directory is not made FTS_DP.
GoesBack(nitems) == TRUE

parent == Head(stack[Len(stack) - 1])
BuildBack ==
  /\ pc = "back"
  /\ \E failed \in BOOLEAN :
       LET nitems == Len(Last(stack))
           up == GoesBack(nitems) /\ Level(parent) > 0 /\ ~NoChdir(sp)
       IN  /\ MayFail(failed) /\ (failed => up)
           /\ IF failed
              THEN /\ stack' = Front(stack) /\ sp' = [sp EXCEPT !.stop = TRUE, !.errno = TRUE]
                   /\ pc' = "null" /\ UNCHANGED fds
              ELSE /\ Becomes(IF ~GoesBack(nitems) THEN Now
                              ELSE IF up THEN fts_safe_changedir(Now) ELSE RESTORE_INITIAL_CWD(Now))
                   /\ IF nitems > 0 THEN pc' = "check" /\ UNCHANGED stack
                      ELSE /\ stack' = [Front(stack) EXCEPT ![Len(stack) - 1] =
                                          <<[parent EXCEPT !.info = IF parent.error THEN "ERR" ELSE @]>> \o Tail(@)]
                           /\ pc' = Return(parent)
  /\ Keep

\* The next entry on this level; for an operand, back to where it all began
\* and with a new state to detect cycles.
ReadNext ==
  /\ Reading /\ ~Again /\ ~PreOrder /\ Len(Last(stack)) > 1
  /\ stack' = [stack EXCEPT ![Len(stack)] = Tail(@)]
  /\ IF Len(stack) > 1 THEN UNCHANGED <<sp, fds>>
     ELSE LET st == RESTORE_INITIAL_CWD(Now) IN sp' = [st.sp EXCEPT !.counter = 0, !.seen = NONE] /\ fds' = st.fds
  /\ pc' = "check" /\ UNCHANGED faults /\ Keep

\* Up to the parent, which becomes an error if one was noted earlier.
Visited(p) == [p EXCEPT !.info = IF p.error THEN "ERR" ELSE "DP"]
ReadUp ==
  /\ Reading /\ ~Again /\ ~PreOrder /\ Len(Last(stack)) = 1
  /\ IF Len(stack) = 1
     THEN /\ stack' = << >> /\ pc' = "null" /\ sp' = [sp EXCEPT !.errno = FALSE] /\ UNCHANGED <<fds, faults>>
     ELSE \E failed \in BOOLEAN :
            LET dotdot == Level(parent) > 0 /\ ~parent.dontchdir /\ ~NoChdir(sp)
                p == Visited([parent EXCEPT !.error = @ \/ failed])
            IN  /\ MayFail(failed) /\ (failed => dotdot)
                /\ stack' = [Front(stack) EXCEPT ![Len(stack) - 1] = <<p>> \o Tail(@)]
                /\ IF failed THEN sp' = [sp EXCEPT !.stop = TRUE, !.errno = TRUE] /\ UNCHANGED fds
                   ELSE Becomes(IF Level(parent) = 0 THEN RESTORE_INITIAL_CWD(Now)
                                ELSE IF dotdot THEN fts_safe_changedir(Now) ELSE Now)
                /\ pc' = IF failed THEN "null" ELSE IF p.error THEN "got" ELSE Return(parent)
  /\ Keep

\* check_for_dir: examine the entry if that was put off.  When all directories
\* of the parent seem to be found, link_count_optimize_ok() is asked, whose
\* hash_insert() fails as above, unless there is no memory to get that far.
Counts(p) == Level(p) > 0 /\ parent.dirs = 0 /\ Set("NOSTAT") /\ Set("PHYSICAL") /\ Set("CWDFD")
Fewer(p) == [p EXCEPT !.dirs = @ - 1]
Deferred == cur.info = "NSOK" /\ cur.required
CheckForDir ==
  /\ pc = "check" /\ UNCHANGED <<sp, fds>> /\ Keep
  /\ \E nomemory \in BOOLEAN :
       /\ MayFail(nomemory) /\ (nomemory => Deferred /\ Counts(cur))
       /\ IF ~Deferred THEN pc' = "enter" /\ UNCHANGED stack
          ELSE IF Counts(cur) /\ ~nomemory THEN pc' = "crash" /\ UNCHANGED stack
          ELSE \E p \in {fts_stat(sp, cur)} :
                 /\ stack' = IF p.kind = "dir" /\ Level(p) > 0 /\ parent.dirs > 0
                             THEN [SetCur(p) EXCEPT ![Len(stack) - 1] = <<Fewer(Head(@))>> \o Tail(@)]
                             ELSE SetCur(p)
                 /\ pc' = "enter"

enter_dir ==
  /\ pc = "enter" /\ UNCHANGED <<fds>> /\ Keep
  /\ IF cur.info # "D" THEN pc' = "got" /\ UNCHANGED <<faults, sp, stack>>
     ELSE \/ /\ ~Set("LOGICAL") /\ ~build.ndebug
             /\ pc' = "crash" /\ UNCHANGED <<faults, sp, stack>>
          \/ /\ ~Set("LOGICAL") /\ build.ndebug
             /\ IF cycle_check(sp, cur.ino) THEN stack' = SetCur([cur EXCEPT !.info = "DC"]) /\ UNCHANGED sp
                ELSE sp.counter < MaxEnter /\ sp' = Counted(sp, cur.ino) /\ UNCHANGED stack
             /\ pc' = "got" /\ UNCHANGED faults
          \/ /\ Set("LOGICAL")
             /\ \E nomemory \in BOOLEAN :
                  /\ MayFail(nomemory) /\ sp' = [sp EXCEPT !.errno = nomemory]
                  /\ pc' = IF nomemory THEN "null" ELSE "crash"
             /\ UNCHANGED stack

\* fts_skip_tree() and chown's --preserve-root read one entry and drop it.
Discard ==
  /\ pc = "got" /\ sp.discard
  /\ sp' = [sp EXCEPT !.discard = FALSE] /\ pc' = "read"
  /\ UNCHANGED <<faults, fds, stack>> /\ Keep

fts_close(st) ==
  LET s == IF "CWDFD" \in st.sp.options THEN Closed(st.fds, {st.sp.cwd}) ELSE st.fds
  IN  fd_ring_clear([sp |-> st.sp, fds |-> s])

Walk ==
  \/ ReadAgain \/ ReadSkipped \/ BuildOpen \/ BuildChdir \/ BuildRead \/ BuildBack
  \/ ReadNext \/ ReadUp \/ CheckForDir \/ enter_dir \/ Discard
=============================================================================
