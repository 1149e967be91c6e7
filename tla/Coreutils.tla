----------------------------- MODULE Coreutils ------------------------------
(***************************************************************************)
(* The coreutils programs on directory trees, one of them at a time: rm,   *)
(* chown and chgrp (Remove and Chown, on Fts), or mkdir, rmdir, mkfifo and *)
(* mknod (MakeDirs).                                                       *)
(***************************************************************************)
EXTENDS Chown, MakeDirs

\* The program is one of the others.
FtsIdle ==
  /\ pc = "exit" /\ fs = <<>> /\ faults = 0 /\ build = [ndebug |-> TRUE, dtype |-> TRUE]
  /\ sp = NoStream /\ fds = <<>> /\ stack = <<>> /\ cmd = NoCmd /\ log = NoLog
  /\ args = [prog |-> "other", ops |-> <<>>]
NoLine == [prog |-> "other", ops |-> <<>>, set |-> Unset]
MkIdle ==
  /\ tree = <<>> /\ line = NoLine /\ budget = [fails |-> 0, others |-> 0]
  /\ ps = [parent |-> [Process EXCEPT !.pc = "exit"], child |-> Nobody] /\ hist = [acted |-> <<>>, lost |-> FALSE]

CoreInit == (FtsInit /\ MkIdle) \/ (FtsIdle /\ MkInit)
CoreNext == (FtsNext /\ UNCHANGED mkvars) \/ (MkNext /\ UNCHANGED vars)
CoreSpec == CoreInit /\ [][CoreNext]_<<vars, mkvars>> /\ WF_<<vars, mkvars>>(CoreNext)

-----------------------------------------------------------------------------
\* The descriptors that the walk and its ring, or the saved working directory
\* and dirchownmod(), hold are open, and no others are.
DescriptorsRight == FtsTypeOK /\ MkTypeOK /\ DescriptorsExact /\ NoDescriptorKept

\* Every operand is dealt with once: by the walk, whatever it skips, and by
\* mkdir or the child that stands in for its lost working directory.
OperandsOnce == EachOperandOnce /\ OperandOnce

\* The exit status is success only if every operand succeeded, for all the
\* programs; and what is reported as done is done.
StatusTells ==
  /\ RmStatusTells /\ ChownStatusTells /\ MkdirStatusTells /\ RmdirTells
  /\ ParentsSucceed /\ CrashesAreWalks

\* The programs work where they were told to: without -R chown and chgrp do not
\* enter a directory, and mkdir makes each operand in the directory it was
\* started in, also where a child stands in for it.
InPlace == NonRecursiveStays /\ NothingElsewhere

\* A directory is not more open than asked for at any moment, and what is made
\* gets the mode that -m and umask say.
ModesRight == NarrowUntilReady /\ ModeAsAsked

\* rm removes a protected file only after the question, chown --from changes
\* only files of that owner, and a dot is a separator only as a last resort.
OwnersRight == AsksIfProtected /\ FromRespected /\ DotIsLastResort

\* Every program ends: fts_read() is not fed the same directories for ever, and
\* the mkdir that waits for its child has one that exits or is killed.  There
\* are two exceptions, both of a physical walk: it comes back for ever to a
\* directory without entries, or it wanders between two directories that hold
\* each other's names, and the cycle is seen too late.
ProgramsEnd == <>(Ended /\ MkOver) \/ []<>EmptyRead \/ <>[]Wanders
=============================================================================
