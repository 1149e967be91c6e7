----------------------------- MODULE FtsProofs ------------------------------
(***************************************************************************)
(* Proofs about rm, chown and chgrp on the walk of Fts: the type of the    *)
(* state, that the descriptors are exactly those the walk accounts for,    *)
(* that every operand is reported once, and who is asked or spared.        *)
(***************************************************************************)
EXTENDS Chown, Loops, FiniteSetTheorems, SequenceTheorems

-----------------------------------------------------------------------------
(* Descriptors.  The holders are the working directory of the walk, the     *)
(* directory being read, the client's own, and the slots of the ring.       *)

\* Each holder of a descriptor has one of its own, and these are all there are.
Exact(cwd, dirp, own, data, open) ==
  /\ \A fd \in {cwd, dirp, own} \cup {data[i] : i \in Slots} : fd >= 0 => fd \in open
  /\ \A fd \in open : fd >= 0 /\ (fd \in {cwd, dirp, own} \/ \E i \in Slots : data[i] = fd)
  /\ \A i, j \in Slots : data[i] >= 0 /\ data[i] = data[j] => i = j
  /\ cwd >= 0 => cwd # dirp /\ cwd # own /\ \A i \in Slots : data[i] # cwd
  /\ dirp >= 0 => dirp # own /\ \A i \in Slots : data[i] # dirp
  /\ own >= 0 => \A i \in Slots : data[i] # own

Rings == [data : [Slots -> Int], front : Slots, back : Slots, empty : BOOLEAN]

\* The ring has at least one slot, and finitely many.
LEMMA SlotFacts == I_RING_SIZE \in Nat \ {0} /\ Slots \subseteq Nat /\ IsFiniteSet(Slots) /\ 0 \in Slots
  <1>1. I_RING_SIZE \in Nat \ {0}
    BY FtsAssumption
  <1>2. IsFiniteSet(0..(I_RING_SIZE - 1))
    BY <1>1, FS_Interval
  <1> QED
    BY <1>1, <1>2 DEF Slots

\* A place in the ring is a place in the ring.
LEMMA RingSlot == ASSUME NEW r \in Rings PROVE (r.front + Step(r)) % I_RING_SIZE \in Slots /\ (r.back + Step(r)) % I_RING_SIZE \in Slots
  <1>1. Step(r) \in {0, 1} /\ r.front \in Nat /\ r.back \in Nat
    BY SlotFacts DEF Step, Rings
  <1> HIDE DEF Step
  <1> QED
    BY <1>1, SlotFacts DEF Slots

\* What is pushed goes to one slot, whose content is displaced.
LEMMA RingPush ==
  ASSUME NEW r \in Rings, NEW v \in Int
  PROVE  /\ i_ring_push(r, v) \in Rings
         /\ \E dest \in Slots : /\ Displaced(r) = r.data[dest]
                                /\ i_ring_push(r, v).data = [r.data EXCEPT ![dest] = v]
  <1> DEFINE dest == (r.front + Step(r)) % I_RING_SIZE
             behind == (r.back + Step(r)) % I_RING_SIZE
  <1>1. dest \in Slots /\ behind \in Slots /\ r.back \in Slots /\ r.data \in [Slots -> Int]
    BY RingSlot DEF Rings
  <1>2. Displaced(r) = r.data[dest]
    BY DEF Displaced
  <1>3. i_ring_push(r, v) = [data |-> [r.data EXCEPT ![dest] = v], front |-> dest, empty |-> FALSE,
                             back |-> IF dest = r.back THEN behind ELSE r.back]
    BY DEF i_ring_push
  <1> HIDE DEF dest, behind
  <1>4. [r.data EXCEPT ![dest] = v] \in [Slots -> Int]
    BY <1>1
  <1>5. i_ring_push(r, v) \in Rings
    BY <1>1, <1>3, <1>4 DEF Rings
  <1>6. i_ring_push(r, v).data = [r.data EXCEPT ![dest] = v]
    BY <1>3
  <1> QED
    BY <1>1, <1>2, <1>5, <1>6

\* A new descriptor is one that is not open.
LEMMA OpenedFacts ==
  ASSUME NEW open, IsFiniteSet(DOMAIN open), DOMAIN open \subseteq Nat, NEW d
  PROVE  /\ Opened(open, d).fd \in Nat /\ Opened(open, d).fd >= 3 /\ Opened(open, d).fd \notin DOMAIN open
         /\ DOMAIN Opened(open, d).open = DOMAIN open \cup {Opened(open, d).fd}
         /\ Opened(open, d).open = [k \in DOMAIN open \cup {Opened(open, d).fd} |-> IF k = Opened(open, d).fd THEN d ELSE open[k]]
  <1> DEFINE D == DOMAIN open
             c == Cardinality(D)
             fd == CHOOSE n \in 3..(3 + c) : n \notin D
  <1>1. c \in Nat
    BY FS_CardinalityType
  <1>2. \E n \in 3..(3 + c) : n \notin D
    <2> SUFFICES ASSUME 3..(3 + c) \subseteq D
                 PROVE  FALSE
      OBVIOUS
    <2>1. Cardinality(3..(3 + c)) <= c
      BY FS_Subset
    <2>2. Cardinality(3..(3 + c)) = c + 1
      <3> HIDE DEF c
      <3>1. Cardinality(3..(3 + c)) = IF 3 > 3 + c THEN 0 ELSE (3 + c) - 3 + 1
        BY <1>1, FS_Interval
      <3> QED
        BY <1>1, <3>1
    <2> HIDE DEF c
    <2> QED
      BY <1>1, <2>1, <2>2
  <1>3. fd \in 3..(3 + c) /\ fd \notin D
    BY <1>2
  <1>4. /\ Opened(open, d).fd = fd
        /\ Opened(open, d).open = [k \in D \cup {fd} |-> IF k = fd THEN d ELSE open[k]]
    BY DEF Opened
  <1> HIDE DEF fd, c
  <1> QED
    BY <1>1, <1>3, <1>4

-----------------------------------------------------------------------------
(* The stream and the descriptors together.                                 *)

Flags == {"CWDFD", "NOSTAT", "PHYSICAL", "LOGICAL", "COMFOLLOW", "NOCHDIR", "DEFER_STAT"}
Streams ==
  [options : SUBSET Flags, cwd : Int, ring : Rings, counter : Nat, seen : Int, dirp : Int, stop : BOOLEAN,
   errno : BOOLEAN, discard : BOOLEAN]

\* The directories that descriptors are open on, all but the client's own.
Dirs == {i \in DOMAIN fs : fs[i].kind = "dir"}
OpenDirs(open, own) ==
  /\ DOMAIN open \subseteq Nat /\ IsFiniteSet(DOMAIN open)
  /\ \A fd \in DOMAIN open : fd # own => open[fd] \in Dirs

Sound(s, open, own) ==
  /\ s \in Streams /\ (s.cwd < 0 => s.cwd = AT_FDCWD)
  /\ OpenDirs(open, own) /\ Exact(s.cwd, s.dirp, own, s.ring.data, DOMAIN open)

\* Closing leaves the other descriptors as they are.
LEMMA ClosedFacts ==
  ASSUME NEW open, NEW own, OpenDirs(open, own), NEW S
  PROVE  OpenDirs(Closed(open, S), own) /\ DOMAIN Closed(open, S) = DOMAIN open \ S
  <1>1. Closed(open, S) = [fd \in DOMAIN open \ S |-> open[fd]]
    BY DEF Closed
  <1>2. IsFiniteSet(DOMAIN open \ S)
    BY FS_Difference DEF OpenDirs
  <1> QED
    BY <1>1, <1>2 DEF OpenDirs

\* The ring is cleared, and all it held is closed.
LEMMA ClearSound ==
  ASSUME NEW s, NEW open, NEW own, Sound(s, open, own)
  PROVE  LET st == fd_ring_clear([sp |-> s, fds |-> open])
         IN  /\ Sound(st.sp, st.fds, own) /\ st.sp = [s EXCEPT !.ring = st.sp.ring]
             /\ \A i \in Slots : st.sp.ring.data[i] = NONE
             /\ \A fd \in DOMAIN st.fds : fd \in {s.cwd, s.dirp, own}
  <1> DEFINE ring == [i_ring_init EXCEPT !.front = s.ring.back, !.back = s.ring.back]
             t == [s EXCEPT !.ring = ring]
             left == Closed(open, Range(s.ring.data))
  <1>1. fd_ring_clear([sp |-> s, fds |-> open]) = [sp |-> t, fds |-> left]
    BY DEF fd_ring_clear
  <1>2. s \in Streams /\ (s.cwd < 0 => s.cwd = AT_FDCWD) /\ OpenDirs(open, own) /\ Exact(s.cwd, s.dirp, own, s.ring.data, DOMAIN open)
    BY DEF Sound
  <1>3. s.ring \in Rings /\ s.ring.data \in [Slots -> Int]
    BY <1>2 DEF Streams, Rings
  <1>4. ring \in Rings /\ \A i \in Slots : ring.data[i] = NONE
    <2> DEFINE none == [i \in Slots |-> NONE]
    <2>1. none \in [Slots -> Int] /\ \A i \in Slots : none[i] = NONE
      BY DEF NONE
    <2>2. i_ring_init = [data |-> none, front |-> 0, back |-> 0, empty |-> TRUE]
      BY DEF i_ring_init
    <2> HIDE DEF none
    <2>3. i_ring_init \in Rings /\ i_ring_init.data = none
      BY <2>1, <2>2, SlotFacts DEF Rings
    <2> QED
      BY <1>3, <2>1, <2>3 DEF Rings
  <1> HIDE DEF ring
  <1>5. t \in Streams /\ t.cwd = s.cwd /\ t.dirp = s.dirp /\ t.ring = ring
    BY <1>2, <1>4 DEF Streams
  <1>6. Range(s.ring.data) = {s.ring.data[i] : i \in Slots}
    BY <1>3 DEF Range
  <1>7. OpenDirs(left, own) /\ DOMAIN left = DOMAIN open \ {s.ring.data[i] : i \in Slots}
    BY <1>2, <1>6, ClosedFacts
  <1>8. t = [s EXCEPT !.ring = t.ring]
    BY <1>5
  <1> HIDE DEF t, left
  <1>9. \A fd \in DOMAIN left : fd \in {s.cwd, s.dirp, own}
    BY <1>2, <1>7 DEF Exact
  <1>10. Exact(t.cwd, t.dirp, own, t.ring.data, DOMAIN left)
    BY <1>2, <1>4, <1>5, <1>7, <1>9 DEF Exact, NONE
  <1>11. Sound(t, left, own)
    BY <1>2, <1>5, <1>7, <1>10 DEF Sound
  <1> QED
    BY <1>1, <1>4, <1>5, <1>8, <1>9, <1>11

\* The working directory of the walk goes into the ring, the new one is a
\* descriptor that nothing else holds, or the initial directory.
LEMMA AdvanceSound ==
  ASSUME NEW s \in Streams, NEW open, NEW own, OpenDirs(open, own), NEW fd \in Int,
         Exact(s.cwd, s.dirp, own, s.ring.data, DOMAIN open \ {fd}), fd >= 0 => fd \in DOMAIN open, fd < 0 => fd = AT_FDCWD
  PROVE  LET st == cwd_advanced_fd([sp |-> s, fds |-> open], fd, TRUE)
         IN  /\ Sound(st.sp, st.fds, own)
             /\ st.sp = [s EXCEPT !.cwd = fd, !.ring = st.sp.ring]
  <1> DEFINE ring == i_ring_push(s.ring, s.cwd)
             t == [s EXCEPT !.cwd = fd, !.ring = ring]
             left == Closed(open, {Displaced(s.ring)})
             st == cwd_advanced_fd([sp |-> s, fds |-> open], fd, TRUE)
  <1>1. st.sp = t /\ st.fds = left
    BY DEF cwd_advanced_fd
  <1> HIDE DEF st
  <1>2. s.ring \in Rings /\ s.cwd \in Int /\ s.dirp \in Int /\ s.ring.data \in [Slots -> Int]
    BY DEF Streams, Rings
  <1>3. PICK dest \in Slots : Displaced(s.ring) = s.ring.data[dest] /\ ring.data = [s.ring.data EXCEPT ![dest] = s.cwd]
    BY <1>2, RingPush
  <1>4. ring \in Rings
    BY <1>2, RingPush
  <1>5. OpenDirs(left, own) /\ DOMAIN left = DOMAIN open \ {s.ring.data[dest]}
    BY <1>3, ClosedFacts
  <1> HIDE DEF ring, left
  <1>6. t \in Streams /\ t.cwd = fd /\ t.dirp = s.dirp /\ t.ring = ring /\ t = [s EXCEPT !.cwd = fd, !.ring = t.ring]
    BY <1>4 DEF Streams
  <1> HIDE DEF t
  <1> DEFINE data == s.ring.data
             new == ring.data
  <1>7. /\ data \in [Slots -> Int] /\ new[dest] = s.cwd
        /\ \A i \in Slots : i # dest => new[i] = data[i]
    BY <1>2, <1>3
  <1>8. Exact(fd, s.dirp, own, new, DOMAIN left)
    <2> DEFINE D == DOMAIN open
    <2>0. DOMAIN left = D \ {data[dest]} /\ (fd >= 0 => fd \in D) /\ D \subseteq Nat
      BY <1>5 DEF OpenDirs
    <2>1. /\ \A x \in {s.cwd, s.dirp, own} \cup {data[i] : i \in Slots} : x >= 0 => x \in D \ {fd}
          /\ \A x \in D \ {fd} : x >= 0 /\ (x \in {s.cwd, s.dirp, own} \/ \E i \in Slots : data[i] = x)
          /\ \A i, j \in Slots : data[i] >= 0 /\ data[i] = data[j] => i = j
          /\ s.cwd >= 0 => s.cwd # s.dirp /\ s.cwd # own /\ \A i \in Slots : data[i] # s.cwd
          /\ s.dirp >= 0 => s.dirp # own /\ \A i \in Slots : data[i] # s.dirp
          /\ own >= 0 => \A i \in Slots : data[i] # own
      BY DEF Exact
    <2> HIDE DEF D, data, new
    <2>2. fd >= 0 => fd # data[dest] /\ fd # s.dirp /\ fd # own /\ \A i \in Slots : new[i] # fd
      BY <1>7, <2>1
    <2>3. ASSUME NEW x \in {fd, s.dirp, own} \cup {new[i] : i \in Slots}, x >= 0
          PROVE  x \in D \ {data[dest]}
      <3>1. CASE x = fd
        BY <2>0, <2>2, <2>3, <3>1
      <3>2. CASE x \in {s.dirp, own}
        BY <2>1, <2>3, <3>2
      <3>3. CASE \E i \in Slots : x = new[i]
        <4>1. PICK i \in Slots : x = new[i]
          BY <3>3
        <4>2. CASE i = dest
          BY <1>7, <2>1, <2>3, <4>1, <4>2
        <4>3. CASE i # dest
          BY <1>7, <2>1, <2>3, <4>1, <4>3
        <4> QED
          BY <4>2, <4>3
      <3> QED
        BY <3>1, <3>2, <3>3
    <2>4. ASSUME NEW x \in D \ {data[dest]}
          PROVE  x >= 0 /\ (x \in {fd, s.dirp, own} \/ \E i \in Slots : new[i] = x)
      <3>1. CASE x = fd
        BY <2>0, <3>1
      <3>2. CASE x # fd
        BY <1>7, <2>1, <3>2
      <3> QED
        BY <3>1, <3>2
    <2>5. \A i, j \in Slots : new[i] >= 0 /\ new[i] = new[j] => i = j
      BY <1>7, <2>1
    <2>6. /\ s.dirp >= 0 => s.dirp # own /\ \A i \in Slots : new[i] # s.dirp
          /\ own >= 0 => \A i \in Slots : new[i] # own
      BY <1>7, <2>1
    <2> QED
      BY <2>0, <2>2, <2>3, <2>4, <2>5, <2>6 DEF Exact
  <1>9. Sound(t, left, own)
    BY <1>5, <1>6, <1>8 DEF Sound
  <1>10. t = [s EXCEPT !.cwd = fd, !.ring = t.ring]
    BY <1>6
  <1>11. Sound(st.sp, st.fds, own) /\ st.sp = [s EXCEPT !.cwd = fd, !.ring = st.sp.ring]
    BY <1>1, <1>9, <1>10
  <1> QED
    BY <1>11 DEF st

\* The stream after it has changed directories: only where it is, and the ring.
Kin(t, s) == t = [s EXCEPT !.cwd = t.cwd, !.ring = t.ring]

\* The walk goes back to where it began.
LEMMA RestoreSound ==
  ASSUME NEW s, NEW open, NEW own, Sound(s, open, own)
  PROVE  LET st == RESTORE_INITIAL_CWD([sp |-> s, fds |-> open])
         IN  Sound(st.sp, st.fds, own) /\ Kin(st.sp, s) /\ (IF NoChdir(s) THEN st.sp.cwd = s.cwd ELSE st.sp.cwd = AT_FDCWD)
  <1> DEFINE cl == fd_ring_clear([sp |-> s, fds |-> open])
             st == RESTORE_INITIAL_CWD([sp |-> s, fds |-> open])
  <1>1. Sound(cl.sp, cl.fds, own) /\ cl.sp = [s EXCEPT !.ring = cl.sp.ring]
    BY ClearSound
  <1>2. s \in Streams
    BY DEF Sound
  <1>3. CASE NoChdir(s)
    <2>1. st = cl
      BY <1>3 DEF RESTORE_INITIAL_CWD
    <2> HIDE DEF st, cl
    <2>2. st.sp.cwd = s.cwd /\ st.sp = [s EXCEPT !.cwd = st.sp.cwd, !.ring = st.sp.ring]
      BY <1>1, <1>2, <2>1 DEF Streams
    <2>3. Sound(st.sp, st.fds, own) /\ Kin(st.sp, s)
      BY <1>1, <2>1, <2>2 DEF Kin
    <2> QED
      BY <1>3, <2>2, <2>3 DEF st
  <1>4. CASE ~NoChdir(s)
    <2> DEFINE ad == cwd_advanced_fd(cl, AT_FDCWD, TRUE)
    <2>1. st.sp = ad.sp /\ st.fds = ad.fds
      BY <1>4 DEF RESTORE_INITIAL_CWD
    <2>2. cl = [sp |-> cl.sp, fds |-> cl.fds]
      BY DEF fd_ring_clear
    <2> HIDE DEF st, cl
    <2>3. cl.sp \in Streams /\ OpenDirs(cl.fds, own) /\ Exact(cl.sp.cwd, cl.sp.dirp, own, cl.sp.ring.data, DOMAIN cl.fds)
      BY <1>1 DEF Sound
    <2>4. AT_FDCWD \notin DOMAIN cl.fds /\ AT_FDCWD \in Int /\ ~(AT_FDCWD >= 0)
      BY <2>3 DEF OpenDirs, AT_FDCWD
    <2>5. DOMAIN cl.fds \ {AT_FDCWD} = DOMAIN cl.fds
      BY <2>4
    <2>6. Exact(cl.sp.cwd, cl.sp.dirp, own, cl.sp.ring.data, DOMAIN cl.fds \ {AT_FDCWD})
      BY <2>3, <2>5
    <2> DEFINE a2 == cwd_advanced_fd([sp |-> cl.sp, fds |-> cl.fds], AT_FDCWD, TRUE)
    <2>7. Sound(a2.sp, a2.fds, own) /\ a2.sp = [cl.sp EXCEPT !.cwd = AT_FDCWD, !.ring = a2.sp.ring]
      BY <2>3, <2>4, <2>6, AdvanceSound, Zenon
    <2>8. ad = a2
      BY <2>2, Zenon
    <2> HIDE DEF ad, a2
    <2>9. Sound(st.sp, st.fds, own) /\ st.sp = [cl.sp EXCEPT !.cwd = AT_FDCWD, !.ring = st.sp.ring]
      BY <2>1, <2>7, <2>8
    <2>10. st.sp.cwd = AT_FDCWD /\ st.sp = [s EXCEPT !.cwd = st.sp.cwd, !.ring = st.sp.ring]
      BY <1>1, <1>2, <2>3, <2>9 DEF Streams
    <2> QED
      BY <1>4, <2>9, <2>10 DEF Kin, st
  <1> QED
    BY <1>3, <1>4

-----------------------------------------------------------------------------
(* The file system.                                                         *)

FsOK ==
  /\ fs \in [DOMAIN fs -> Files(DOMAIN fs)]
  /\ {Root, Cwd} \cup Spare \subseteq DOMAIN fs /\ DOMAIN fs \subseteq Nat
  /\ fs[Cwd].kind = "dir"
  /\ \A i \in DOMAIN fs : fs[i].kind = "dir" => fs[i].up \in DOMAIN fs /\ fs[fs[i].up].kind = "dir"

\* The virtual working directory is a directory.
LEMMA DirOfCwd ==
  ASSUME FsOK, NEW s, NEW own, Sound(s, fds, own)
  PROVE  DirOf(s.cwd) \in Dirs
  <1>1. s \in Streams /\ (s.cwd < 0 => s.cwd = AT_FDCWD) /\ (s.cwd >= 0 => s.cwd \in DOMAIN fds /\ fds[s.cwd] \in Dirs)
    BY DEF Sound, OpenDirs, Exact
  <1>2. Cwd \in Dirs
    BY DEF FsOK, Dirs
  <1> QED
    BY <1>1, <1>2 DEF DirOf, Streams

\* A file is opened: it has a descriptor of its own.
LEMMA OpenSound ==
  ASSUME NEW s, NEW open, NEW own, Sound(s, open, own), NEW K, NEW d \in K
  PROVE  LET o == Opened(open, d)
         IN  /\ \A k \in DOMAIN o.open : k # o.fd => o.open[k] = open[k]
             /\ d \in Dirs => OpenDirs(o.open, own)
             /\ o.fd \in Int /\ o.fd >= 0 /\ o.fd \in DOMAIN o.open /\ o.open[o.fd] = d
             /\ DOMAIN o.open \ {o.fd} = DOMAIN open /\ DOMAIN o.open = DOMAIN open \cup {o.fd} /\ o.fd \notin DOMAIN open
             /\ \A k \in DOMAIN open : o.open[k] = open[k]
  <1>1. OpenDirs(open, own)
    BY DEF Sound
  <1> DEFINE o == Opened(open, d)
  <1>2. /\ o.fd \in Nat /\ o.fd >= 3 /\ o.fd \notin DOMAIN open
        /\ DOMAIN o.open = DOMAIN open \cup {o.fd}
        /\ o.open = [k \in DOMAIN open \cup {o.fd} |-> IF k = o.fd THEN d ELSE open[k]]
    BY <1>1, OpenedFacts DEF OpenDirs
  <1> HIDE DEF o
  <1>3. IsFiniteSet(DOMAIN o.open)
    BY <1>1, <1>2, FS_AddElement DEF OpenDirs
  <1>4. d \in Dirs => OpenDirs(o.open, own)
    BY <1>1, <1>2, <1>3 DEF OpenDirs
  <1>8. \A k \in DOMAIN o.open : k # o.fd => o.open[k] = open[k]
    BY <1>2
  <1>5. o.fd \in Int /\ o.fd >= 0 /\ o.fd \in DOMAIN o.open
    BY <1>2
  <1>6. o.open[o.fd] = d /\ \A k \in DOMAIN open : o.open[k] = open[k]
    BY <1>2
  <1>7. DOMAIN o.open \ {o.fd} = DOMAIN open
    BY <1>2
  <1> QED
    BY <1>2, <1>4, <1>5, <1>6, <1>7, <1>8 DEF o

\* The parent of the working directory is opened, and the walk changes to it.
LEMMA ChangedirSound ==
  ASSUME FsOK, NEW own, Sound(sp, fds, own)
  PROVE  LET st == fts_safe_changedir(Now)
         IN  Sound(st.sp, st.fds, own) /\ Kin(st.sp, sp) /\ (NoChdir(sp) => st.sp.cwd = sp.cwd)
  <1> DEFINE st == fts_safe_changedir(Now)
  <1>1. sp \in Streams
    BY DEF Sound
  <1>2. CASE NoChdir(sp)
    <2>1. st.sp = sp /\ st.fds = fds
      BY <1>2 DEF fts_safe_changedir, Now
    <2> HIDE DEF st
    <2>2. st.sp.cwd = sp.cwd /\ st.sp = [sp EXCEPT !.cwd = st.sp.cwd, !.ring = st.sp.ring]
      BY <1>1, <2>1 DEF Streams
    <2> QED
      BY <2>1, <2>2 DEF Kin, st
  <1>3. CASE ~NoChdir(sp)
    <2> DEFINE up == fs[DirOf(sp.cwd)].up
               o == Opened(fds, up)
               a == cwd_advanced_fd([sp |-> sp, fds |-> o.open], o.fd, TRUE)
    <2>1. up \in Dirs
      BY DirOfCwd DEF FsOK, Dirs
    <2>2. st.sp = a.sp /\ st.fds = a.fds
      BY <1>3 DEF fts_safe_changedir, Now
    <2> HIDE DEF st, up
    <2>3. /\ OpenDirs(o.open, own) /\ o.fd \in Int /\ o.fd >= 0 /\ o.fd \in DOMAIN o.open
          /\ DOMAIN o.open \ {o.fd} = DOMAIN fds
      BY <2>1, OpenSound
    <2>4. Exact(sp.cwd, sp.dirp, own, sp.ring.data, DOMAIN o.open \ {o.fd})
      BY <2>3 DEF Sound
    <2> HIDE DEF o
    <2>5. o.fd < 0 => o.fd = AT_FDCWD
      BY <2>3
    <2>6. Sound(a.sp, a.fds, own) /\ a.sp = [sp EXCEPT !.cwd = o.fd, !.ring = a.sp.ring]
      BY <1>1, <2>3, <2>4, <2>5, AdvanceSound
    <2> HIDE DEF a
    <2>7. st.sp = [sp EXCEPT !.cwd = st.sp.cwd, !.ring = st.sp.ring]
      BY <1>1, <2>2, <2>6 DEF Streams
    <2> QED
      BY <1>3, <2>2, <2>6, <2>7 DEF Kin, st
  <1> QED
    BY <1>2, <1>3

-----------------------------------------------------------------------------
(* Types.                                                                   *)

OwnerSet == [u : Int, g : Int]
Words == STRING \cup {""}
EntrySet ==
  [path : Seq(Words), info : Infos, required : BOOLEAN, kind : Kinds \cup {"none"}, ino : Int, own : OwnerSet, dirs : Nat,
   error : BOOLEAN, instr : {"none", "SKIP", "AGAIN"}, number : Int, dontchdir : BOOLEAN]
CmdSet ==
  [status : {"OK", "DECLINED", "ERROR"}, exit : {NONE, 0, 1}, wp : Int, kind : Kinds \cup {"none", "unknown"}, ok : BOOLEAN, stat : Int,
   own : OwnerSet, fd : Int]

\* A name is that of a file, or of none.
LEMMA FindFacts ==
  ASSUME FsOK, NEW d \in DOMAIN fs, NEW name
  PROVE  /\ Find(fs, d, name) \in DOMAIN fs \cup {NONE}
         /\ Find(fs, d, name) # NONE => \E e \in Range(fs[d].ents) : e.name = name /\ e.ino = Find(fs, d, name)
  <1> DEFINE at == {e \in Range(fs[d].ents) : e.name = name}
  <1>1. fs[d].ents \in Seq([name : STRING, ino : DOMAIN fs])
    BY DEF FsOK, Files
  <1>2. \A e \in Range(fs[d].ents) : e.ino \in DOMAIN fs
    <2> DEFINE ents == fs[d].ents
    <2>1. Range(ents) = {ents[k] : k \in 1..Len(ents)}
      BY <1>1 DEF Range
    <2>2. \A k \in 1..Len(ents) : ents[k].ino \in DOMAIN fs
      <3>1. \A k \in 1..Len(ents) : ents[k] \in [name : STRING, ino : DOMAIN fs]
        <4> DEFINE Named == [name : STRING, ino : DOMAIN fs]
        <4>1. ents \in Seq(Named)
          BY <1>1
        <4> HIDE DEF ents, Named
        <4>2. \A k \in 1..Len(ents) : ents[k] \in Named
          BY <4>1
        <4> QED
          BY <4>2 DEF Named
      <3> QED
        BY <3>1
    <2> QED
      BY <2>1, <2>2
  <1>3. CASE at = {}
    BY <1>3 DEF Find
  <1>4. CASE at # {}
    <2>1. PICK e \in at : e = CHOOSE x \in at : TRUE
      BY <1>4
    <2>2. Find(fs, d, name) = e.ino
      BY <1>4, <2>1 DEF Find
    <2> QED
      BY <1>2, <2>1, <2>2
  <1> QED
    BY <1>3, <1>4

\* A link leads to a file, or nowhere.
LEMMA FollowFacts ==
  ASSUME FsOK, NEW i \in DOMAIN fs \cup {NONE}
  PROVE  Follow(fs, i) \in DOMAIN fs \cup {NONE}
  BY DEF FsOK, Files, Follow

\* Looking a name up gives a file, or nothing.
LEMMA EnterFacts ==
  ASSUME FsOK, NEW d \in DOMAIN fs \cup {NONE}, NEW name
  PROVE  Enter(fs, d, name) \in DOMAIN fs \cup {NONE}
  <1>1. Follow(fs, d) \in DOMAIN fs \cup {NONE}
    BY FollowFacts
  <1>2. IsDir(fs, Follow(fs, d)) => Follow(fs, d) \in DOMAIN fs
    BY <1>1 DEF IsDir
  <1> QED
    BY <1>2, FindFacts DEF Enter

\* Looking up a path ends at a file, or at none.
LEMMA PathExists ==
  ASSUME FsOK, NEW path \in Seq(Words)
  PROVE  \E at : /\ at = [k \in 0..Len(path) |-> IF k = 0 THEN Cwd ELSE Enter(fs, at[k - 1], path[k])]
                 /\ at \in [0..Len(path) -> DOMAIN fs \cup {NONE}]
  <1> DEFINE n == Len(path)
             D == DOMAIN fs \cup {NONE}
             F == [k \in 1..n |-> [d \in D |-> Enter(fs, d, path[k])]]
  <1>1. n \in Nat /\ Cwd \in D
    BY DEF FsOK
  <1>2. \A k \in 1..n : \A d \in D : Enter(fs, d, path[k]) \in D
    BY EnterFacts
  <1> HIDE DEF D, n
  <1>3. F \in [1..n -> [D -> D]]
    BY <1>2
  <1>4. PICK at : IsRun(at, n, D, Cwd, F)
    <2> HIDE DEF F
    <2> QED
      BY <1>1, <1>3, RunExists
  <1>5. at \in [0..n -> D] /\ at[0] = Cwd /\ \A k \in 1..n : at[k] = F[k][at[k - 1]]
    BY <1>4 DEF IsRun
  <1>6. \A k \in 1..n : at[k - 1] \in D
    BY <1>1, <1>5
  <1>7. \A k \in 1..n : at[k] = Enter(fs, at[k - 1], path[k])
    BY <1>5, <1>6
  <1>8. at = [k \in 0..n |-> IF k = 0 THEN Cwd ELSE Enter(fs, at[k - 1], path[k])]
    <2>1. \A k \in 0..n : at[k] = IF k = 0 THEN Cwd ELSE Enter(fs, at[k - 1], path[k])
      BY <1>1, <1>5, <1>7
    <2>2. at = [k \in 0..n |-> at[k]]
      BY <1>5
    <2> QED
      BY <2>1, <2>2
  <1> QED
    BY <1>5, <1>8 DEF n, D

\* A path is looked up from the working directory: it leads to a file, or nowhere.
LEMMA AtFacts ==
  ASSUME FsOK, NEW s, DirOf(s.cwd) \in DOMAIN fs, NEW p, p.path \in Seq(Words)
  PROVE  At(s, p) \in DOMAIN fs \cup {NONE}
  <1>1. CASE NoChdir(s)
    <2> DEFINE at == CHOOSE at : at = [k \in 0..Len(p.path) |-> IF k = 0 THEN Cwd ELSE Enter(fs, at[k - 1], p.path[k])]
    <2>1. At(s, p) = at[Len(p.path)]
      BY <1>1 DEF At
    <2>2. at = [k \in 0..Len(p.path) |-> IF k = 0 THEN Cwd ELSE Enter(fs, at[k - 1], p.path[k])]
      BY PathExists
    <2> HIDE DEF at
    <2> DEFINE D == DOMAIN fs \cup {NONE}
               n == Len(p.path)
               S == {k \in 0..n : at[k] \in D}
    <2>3. n \in Nat /\ Cwd \in D
      BY DEF FsOK
    <2>4. \A k \in 0..n : at[k] = IF k = 0 THEN Cwd ELSE Enter(fs, at[k - 1], p.path[k])
      BY <2>2
    <2> HIDE DEF n
    <2>5. 0 \in S
      BY <2>3, <2>4
    <2>6. ASSUME NEW k \in 1..n, k - 1 \in S
          PROVE  k \in S
      <3>1. at[k] = Enter(fs, at[k - 1], p.path[k]) /\ k \in 0..n
        BY <2>3, <2>4
      <3>2. at[k - 1] \in D
        BY <2>6
      <3> DEFINE before == at[k - 1]
      <3>3. Enter(fs, before, p.path[k]) \in D
        <4> HIDE DEF before
        <4> QED
          BY <3>2, EnterFacts DEF before
      <3> QED
        BY <3>1, <3>3
    <2>7. \A k \in 1..n : k - 1 \in S => k \in S
      BY <2>6
    <2>8. \A k \in 0..n : k \in S
      <3> HIDE DEF S
      <3> QED
        BY <2>3, <2>5, <2>7, Induction
    <2>9. at[n] \in D
      BY <2>3, <2>8
    <2> QED
      BY <2>1, <2>9 DEF n
  <1>2. CASE ~NoChdir(s)
    BY <1>2, FindFacts DEF At
  <1> QED
    BY <1>1, <1>2

\* A directory has a finite number of subdirectories.
LEMMA SubdirsNat ==
  ASSUME FsOK, NEW d \in DOMAIN fs
  PROVE  Subdirs(fs, d) \in Nat
  <1> DEFINE ents == fs[d].ents
             R == Range(ents)
  <1>1. ents \in Seq([name : STRING, ino : DOMAIN fs])
    BY DEF FsOK, Files
  <1>2. R = {ents[k] : k \in 1..Len(ents)} /\ Len(ents) \in Nat
    BY <1>1 DEF Range
  <1>3. IsFiniteSet(R)
    <2> DEFINE S == 1..Len(ents)
    <2>1. IsFiniteSet(S)
      BY <1>2, FS_Interval
    <2>2. ents \in Surjection(S, R)
      BY <1>1, <1>2 DEF Surjection
    <2> HIDE DEF ents, S, R
    <2> QED
      BY <2>1, <2>2, FS_Surjection
  <1> HIDE DEF R
  <1>4. IsFiniteSet({e \in R : fs[e.ino].kind = "dir"})
    BY <1>3, FS_Subset
  <1>5. Cardinality({e \in R : fs[e.ino].kind = "dir"}) \in Nat
    BY <1>4, FS_CardinalityType
  <1> QED
    BY <1>5 DEF Subdirs, R

\* What an entry becomes when its file is examined.
LEMMA KnownFacts ==
  ASSUME FsOK, NEW p \in EntrySet, NEW i \in DOMAIN fs
  PROVE  Known(p, i) \in EntrySet /\ Known(p, i).path = p.path /\ Known(p, i).instr = p.instr
         /\ Known(p, i).ino = i /\ Known(p, i).number = p.number /\ Known(p, i).kind = fs[i].kind
  <1>1. fs[i].kind \in Kinds /\ fs[i].own \in OwnerSet /\ i \in Int
    <2>1. fs[i] \in Files(DOMAIN fs) /\ i \in Nat
      BY DEF FsOK
    <2>2. fs[i].kind \in Kinds /\ fs[i].own \in OwnerSet
      BY <2>1 DEF Files, OwnerSet
    <2> QED
      BY <2>1, <2>2
  <1>2. Subdirs(fs, i) \in Nat
    BY SubdirsNat
  <1> DEFINE dirs == IF fs[i].kind = "dir" THEN Subdirs(fs, i) ELSE p.dirs
  <1>3. dirs \in Nat
    BY <1>2 DEF EntrySet
  <1>4. Known(p, i) = [p EXCEPT !.kind = fs[i].kind, !.ino = i, !.own = fs[i].own, !.dirs = dirs]
    BY DEF Known, EntrySet
  <1> HIDE DEF dirs
  <1> QED
    BY <1>1, <1>3, <1>4 DEF EntrySet

\* fts_stat() leaves the path, the instruction and the number of an entry alone, and
\* finds one of six kinds of information.
LEMMA StatFacts ==
  ASSUME FsOK, NEW s, DirOf(s.cwd) \in DOMAIN fs, NEW p \in EntrySet
  PROVE  /\ fts_stat(s, p) \in EntrySet /\ fts_stat(s, p).path = p.path /\ fts_stat(s, p).instr = p.instr
         /\ fts_stat(s, p).info \in {"NS", "SLNONE", "D", "SL", "F", "DEFAULT"}
         /\ fts_stat(s, p).number = p.number
  <1> DEFINE i == At(s, p)
             follow == "LOGICAL" \in s.options \/ (Level(p) = 0 /\ "COMFOLLOW" \in s.options)
             t == IF follow THEN Follow(fs, i) ELSE i
  <1>1. p.path \in Seq(Words)
    BY DEF EntrySet
  <1>2. i \in DOMAIN fs \cup {NONE} /\ t \in DOMAIN fs \cup {NONE}
    BY <1>1, AtFacts, FollowFacts
  <1>3. fts_stat(s, p) =
          CASE i = NONE -> [p EXCEPT !.info = "NS", !.kind = "none", !.ino = NONE, !.error = TRUE]
            [] i # NONE /\ t = NONE -> [Known(p, i) EXCEPT !.info = "SLNONE"]
            [] OTHER -> [Known(p, t) EXCEPT !.info = InfoOf(fs[t].kind)]
    BY DEF fts_stat
  <1>4. i = NONE => t = NONE
    BY DEF Follow, NONE
  <1> HIDE DEF i, t
  <1>5. CASE i = NONE
    <2>1. fts_stat(s, p) = [p EXCEPT !.info = "NS", !.kind = "none", !.ino = NONE, !.error = TRUE]
      BY <1>3, <1>5
    <2>2. NONE \in Int /\ "NS" \in Infos
      BY DEF NONE, Infos
    <2> QED
      BY <2>1, <2>2 DEF EntrySet
  <1>6. CASE i # NONE /\ t = NONE
    <2>1. fts_stat(s, p) = [Known(p, i) EXCEPT !.info = "SLNONE"]
      BY <1>3, <1>6
    <2>2. Known(p, i) \in EntrySet /\ Known(p, i).path = p.path /\ Known(p, i).instr = p.instr /\ Known(p, i).number = p.number
      BY <1>2, <1>6, KnownFacts
    <2> QED
      BY <2>1, <2>2 DEF EntrySet, Infos
  <1>7. CASE i # NONE /\ t # NONE
    <2>1. fts_stat(s, p) = [Known(p, t) EXCEPT !.info = InfoOf(fs[t].kind)]
      BY <1>3, <1>7
    <2>2. Known(p, t) \in EntrySet /\ Known(p, t).path = p.path /\ Known(p, t).instr = p.instr /\ Known(p, t).number = p.number
      BY <1>2, <1>7, KnownFacts
    <2>3. fs[t].kind \in Kinds
      BY <1>2, <1>7 DEF FsOK, Files
    <2>4. InfoOf(fs[t].kind) \in {"D", "SL", "F", "DEFAULT"}
      BY <2>3 DEF InfoOf, Kinds
    <2> HIDE DEF EntrySet
    <2>5. fts_stat(s, p).info = InfoOf(fs[t].kind)
      BY <2>1, <2>2 DEF EntrySet
    <2> QED
      BY <2>1, <2>2, <2>4, <2>5 DEF EntrySet, Infos
  <1> QED
    BY <1>4, <1>5, <1>6, <1>7

-----------------------------------------------------------------------------
(* The stack of levels.                                                     *)

\* The entries of each level have a path of that length.
Levels(st) ==
  /\ st \in Seq(Seq(EntrySet))
  /\ \A l \in 1..Len(st) : \A k \in 1..Len(st[l]) : Len(st[l][k].path) = l

\* What the stack holds at one level: entries whose paths are as long as the level is
\* deep, the current one first.
LEMMA LevelFacts ==
  ASSUME NEW st, Levels(st), NEW l \in 1..Len(st)
  PROVE  /\ Len(st) \in Nat /\ st[l] \in Seq(EntrySet) /\ \A k \in 1..Len(st[l]) : st[l][k] \in EntrySet /\ Len(st[l][k].path) = l
         /\ st[l] # <<>> => /\ Len(st[l]) \in Nat \ {0} /\ Head(st[l]) \in EntrySet /\ Len(Head(st[l]).path) = l
                            /\ Level(Head(st[l])) = l - 1
                            /\ Tail(st[l]) \in Seq(EntrySet) /\ Len(Tail(st[l])) = Len(st[l]) - 1
                            /\ \A k \in 1..Len(Tail(st[l])) : Tail(st[l])[k] = st[l][k + 1]
  <1> DEFINE E == EntrySet
             s == st[l]
  <1>1. Len(st) \in Nat /\ s \in Seq(E) /\ \A k \in 1..Len(s) : Len(s[k].path) = l
    <2> DEFINE SE == Seq(E)
    <2>1. st \in Seq(SE)
      BY DEF Levels
    <2>2. \A k \in 1..Len(st[l]) : Len(st[l][k].path) = l
      BY DEF Levels
    <2> HIDE DEF SE
    <2>3. Len(st) \in Nat /\ s \in SE
      BY <2>1
    <2> QED
      BY <2>2, <2>3 DEF SE
  <1> HIDE DEF E, s
  <1>2. \A k \in 1..Len(s) : s[k] \in E
    BY <1>1
  <1>3. ASSUME s # <<>>
        PROVE  /\ Len(s) \in Nat \ {0} /\ Head(s) = s[1] /\ Head(s) \in E /\ Tail(s) \in Seq(E) /\ Len(Tail(s)) = Len(s) - 1
               /\ \A k \in 1..Len(Tail(s)) : Tail(s)[k] = s[k + 1]
    BY <1>1, <1>3
  <1>4. ASSUME s # <<>>
        PROVE  Len(Head(s).path) = l /\ Level(Head(s)) = l - 1
    <2>1. Len(s[1].path) = l
      BY <1>1, <1>3, <1>4
    <2> QED
      BY <1>3, <1>4, <2>1 DEF Level
  <1> QED
    BY <1>1, <1>2, <1>3, <1>4 DEF E, s

\* A level is replaced by one of the same length, or another.
Replaced(new, st, l, s) == new = [st EXCEPT ![l] = s]
\* One level is replaced by entries of the same depth.
LEMMA LevelSet ==
  ASSUME NEW st, Levels(st), NEW l \in 1..Len(st), NEW s \in Seq(EntrySet), \A k \in 1..Len(s) : Len(s[k].path) = l,
         NEW new, Replaced(new, st, l, s)
  PROVE  /\ Levels(new) /\ Len(new) = Len(st) /\ new[l] = s
         /\ \A m \in 1..Len(st) : m # l => new[m] = st[m]
  <1> DEFINE SE == Seq(EntrySet)
             t == [st EXCEPT ![l] = s]
  <1>1. st \in Seq(SE) /\ s \in SE
    BY DEF Levels
  <1>2. \A m \in 1..Len(st) : \A k \in 1..Len(st[m]) : Len(st[m][k].path) = m
    BY DEF Levels
  <1> HIDE DEF SE
  <1>3. t \in Seq(SE) /\ Len(t) = Len(st) /\ t[l] = s /\ \A m \in 1..Len(st) : m # l => t[m] = st[m]
    BY <1>1
  <1> HIDE DEF t
  <1>4. \A m \in 1..Len(t) : \A k \in 1..Len(t[m]) : Len(t[m][k].path) = m
    BY <1>2, <1>3
  <1>5. Levels(t)
    BY <1>3, <1>4 DEF Levels, SE
  <1> QED
    BY <1>3, <1>5 DEF t, Replaced

\* The first entry of a level is replaced.
LEMMA HeadSet ==
  ASSUME NEW st, Levels(st), NEW l \in 1..Len(st), st[l] # <<>>, NEW p \in EntrySet, Len(p.path) = l,
         NEW new, Replaced(new, st, l, <<p>> \o Tail(st[l]))
  PROVE  /\ Levels(new) /\ Len(new) = Len(st) /\ new[l] = <<p>> \o Tail(st[l]) /\ new[l] # <<>> /\ Head(new[l]) = p
         /\ \A m \in 1..Len(st) : m # l => new[m] = st[m]
  <1> DEFINE rest == Tail(st[l])
             s == <<p>> \o rest
             E == EntrySet
  <1>1. /\ rest \in Seq(E) /\ Len(st[l]) \in Nat \ {0} /\ Len(rest) = Len(st[l]) - 1
        /\ \A k \in 1..Len(rest) : rest[k] = st[l][k + 1]
        /\ \A k \in 1..Len(st[l]) : Len(st[l][k].path) = l
    BY LevelFacts
  <1> HIDE DEF rest, E
  <1>2. p \in E
    BY DEF E
  <1>3. s \in Seq(E) /\ Len(s) = Len(rest) + 1 /\ s[1] = p /\ \A k \in 2..Len(s) : s[k] = rest[k - 1]
    BY <1>1, <1>2
  <1>4. s # <<>> /\ Head(s) = p
    BY <1>1, <1>2, <1>3
  <1> HIDE DEF s
  <1>5. \A k \in 1..Len(s) : Len(s[k].path) = l
    <2> TAKE k \in 1..Len(s)
    <2>1. CASE k = 1
      BY <1>3, <2>1
    <2>2. CASE k # 1
      <3>1. k \in 2..Len(s) /\ k - 1 \in 1..Len(rest) /\ k \in 1..Len(st[l]) /\ (k - 1) + 1 = k
        BY <1>1, <1>3, <2>2
      <3>2. s[k] = st[l][k]
        BY <1>1, <1>3, <3>1
      <3> QED
        BY <1>1, <3>1, <3>2
    <2> QED
      BY <2>1, <2>2
  <1>6. Replaced(new, st, l, s)
    BY DEF s, rest
  <1>7. s \in Seq(EntrySet)
    BY <1>3 DEF E
  <1>8. Levels(new) /\ Len(new) = Len(st) /\ new[l] = s /\ \A m \in 1..Len(st) : m # l => new[m] = st[m]
    BY <1>5, <1>6, <1>7, LevelSet
  <1>9. new[l] = <<p>> \o Tail(st[l])
    BY <1>8 DEF s, rest
  <1> QED
    BY <1>4, <1>8, <1>9

\* The first entry of a level is left for the next.
LEMMA NextOne ==
  ASSUME NEW st, Levels(st), NEW l \in 1..Len(st), Len(st[l]) > 1, NEW new, Replaced(new, st, l, Tail(st[l]))
  PROVE  /\ Levels(new) /\ Len(new) = Len(st) /\ new[l] = Tail(st[l]) /\ Tail(st[l]) # <<>>
         /\ \A m \in 1..Len(st) : m # l => new[m] = st[m]
  <1> DEFINE rest == Tail(st[l])
  <1>1. st[l] # <<>>
    BY LevelFacts
  <1>2. /\ rest \in Seq(EntrySet) /\ Len(st[l]) \in Nat \ {0} /\ Len(rest) = Len(st[l]) - 1
        /\ \A k \in 1..Len(rest) : rest[k] = st[l][k + 1]
        /\ \A k \in 1..Len(st[l]) : Len(st[l][k].path) = l
    BY <1>1, LevelFacts
  <1>3. Replaced(new, st, l, rest)
    OBVIOUS
  <1> HIDE DEF rest
  <1>4. \A k \in 1..Len(rest) : Len(rest[k].path) = l
    BY <1>2
  <1>5. Levels(new) /\ Len(new) = Len(st) /\ new[l] = rest /\ \A m \in 1..Len(st) : m # l => new[m] = st[m]
    BY <1>2, <1>3, <1>4, LevelSet
  <1>6. rest # <<>>
    BY <1>2
  <1> QED
    BY <1>5, <1>6 DEF rest

\* The last level is given up.
LEMMA FrontLevels ==
  ASSUME NEW st, Levels(st), Len(st) >= 1
  PROVE  /\ Levels(Front(st)) /\ Len(Front(st)) = Len(st) - 1
         /\ \A l \in 1..(Len(st) - 1) : Front(st)[l] = st[l]
  <1> DEFINE SE == Seq(EntrySet)
             t == Front(st)
  <1>1. st \in Seq(SE)
    BY DEF Levels
  <1>2. \A m \in 1..Len(st) : \A k \in 1..Len(st[m]) : Len(st[m][k].path) = m
    BY DEF Levels
  <1> HIDE DEF SE
  <1>3. t = SubSeq(st, 1, Len(st) - 1)
    BY DEF Front
  <1> HIDE DEF t
  <1>4. t \in Seq(SE) /\ Len(t) = Len(st) - 1 /\ \A m \in 1..(Len(st) - 1) : t[m] = st[m]
    <2> DEFINE n == Len(st) - 1
    <2>1. n \in Nat /\ Len(st) = n + 1 /\ \A i \in 1..n : st[i] \in SE
      BY <1>1
    <2> HIDE DEF n
    <2>2. /\ SubSeq(st, 1, n) \in Seq(SE) /\ Len(SubSeq(st, 1, n)) = IF 1 <= n THEN n - 1 + 1 ELSE 0
          /\ \A i \in 1..(n - 1 + 1) : SubSeq(st, 1, n)[i] = st[1 + i - 1]
      BY <2>1, SubSeqProperties
    <2>3. SubSeq(st, 1, n) \in Seq(SE) /\ Len(SubSeq(st, 1, n)) = n /\ \A i \in 1..n : SubSeq(st, 1, n)[i] = st[i]
      <3>1. n - 1 + 1 = n /\ \A i \in 1..n : 1 + i - 1 = i
        BY <2>1
      <3> QED
        BY <2>1, <2>2, <3>1
    <2> QED
      BY <1>3, <2>3 DEF n
  <1>5. \A m \in 1..Len(t) : \A k \in 1..Len(t[m]) : Len(t[m][k].path) = m
    BY <1>1, <1>2, <1>4
  <1>6. Levels(t)
    BY <1>4, <1>5 DEF Levels, SE
  <1> QED
    BY <1>4, <1>6 DEF t

\* A level is added.
LEMMA AppendLevel ==
  ASSUME NEW st, Levels(st), NEW s \in Seq(EntrySet), \A k \in 1..Len(s) : Len(s[k].path) = Len(st) + 1
  PROVE  /\ Levels(Append(st, s)) /\ Len(Append(st, s)) = Len(st) + 1
         /\ Append(st, s)[Len(st) + 1] = s /\ \A l \in 1..Len(st) : Append(st, s)[l] = st[l]
  <1> DEFINE SE == Seq(EntrySet)
             t == Append(st, s)
  <1>1. st \in Seq(SE) /\ s \in SE
    BY DEF Levels
  <1>2. \A m \in 1..Len(st) : \A k \in 1..Len(st[m]) : Len(st[m][k].path) = m
    BY DEF Levels
  <1> HIDE DEF SE
  <1>4. t \in Seq(SE) /\ Len(t) = Len(st) + 1 /\ t[Len(st) + 1] = s /\ \A m \in 1..Len(st) : t[m] = st[m]
    BY <1>1
  <1> HIDE DEF t
  <1>5. \A m \in 1..Len(t) : \A k \in 1..Len(t[m]) : Len(t[m][k].path) = m
    BY <1>1, <1>2, <1>4
  <1>6. Levels(t)
    BY <1>4, <1>5 DEF Levels, SE
  <1> QED
    BY <1>4, <1>6 DEF t

-----------------------------------------------------------------------------
(* The invariant: types, descriptors, levels, and what each step of the     *)
(* programs finds.                                                          *)

RmOptSet ==
  [interactive : {"NEVER", "SOMETIMES", "ALWAYS"}, ignore : BOOLEAN, recursive : BOOLEAN, once : BOOLEAN]
IdSet == [u : Int, g : Int, bad : BOOLEAN]
FlagSets == {{"COMFOLLOW", "PHYSICAL"}, {"LOGICAL"}, {"PHYSICAL"}}
ChoptSet ==
  [flags : FlagSets, deref : Int, preserve : BOOLEAN, recurse : BOOLEAN, verbose : BOOLEAN, reference : BOOLEAN, from : IdSet]
FinalSet ==
  [flags : FlagSets, recurse : BOOLEAN, verbose : BOOLEAN, referent : BOOLEAN, root : BOOLEAN, from : IdSet, to : IdSet,
   spec : Specs \cup {NoSpec}]
RmArgs == [prog : {"rm"}, ops : Seq(STRING), left : Int, tty : BOOLEAN, root : BOOLEAN, opt : RmOptSet]
ChownArgs(options) == [prog : {"chown", "chgrp"}, ops : Seq(STRING), left : Int, opt : options]

\* The options are read before the first file, and then are final.
ArgsOK ==
  \/ args \in RmArgs
  \/ args \in ChownArgs(ChoptSet) /\ pc \in {"options", "exit"}
  \/ args \in ChownArgs(FinalSet) /\ pc # "options"

\* An entry is current.
Current == {"read", "chdir", "readdir", "check", "enter", "got", "prompt", "excise", "change", "opened", "ordinary"}
Before == {"options", "open"}
Pcs == Before \cup Current \cup {"back", "null", "exit", "crash"}

TypedOK ==
  /\ pc \in Pcs /\ faults \in 0..MaxFaults /\ build \in [ndebug : BOOLEAN, dtype : BOOLEAN]
  /\ cmd \in CmdSet

\* Only the last level may be empty.
Based(st) == Levels(st) /\ \A l \in 1..(Len(st) - 1) : st[l] # <<>>
Full(st) == Len(st) >= 1 /\ Last(st) # <<>>
StackOK ==
  /\ Based(stack)
  /\ pc \in Current => Full(stack)
  /\ pc = "back" => Len(stack) >= 2

\* A directory is being read in two steps, a file is open in one, the working
\* directory is held with FTS_CWDFD only, and nothing is open at the end.
PcOK ==
  /\ sp.dirp >= 0 <=> pc \in {"chdir", "readdir"}
  /\ cmd.fd >= 0 <=> pc = "opened"
  /\ pc = "opened" => cmd.fd \in DOMAIN fds /\ fds[cmd.fd] \in DOMAIN fs
  /\ pc \in Before => sp = NoStream /\ fds = <<>> /\ stack = <<>> /\ cmd = NoCmd /\ log = NoLog
  /\ pc \notin Before \cup {"exit"} => NoChdir(sp) \/ "CWDFD" \in sp.options
  /\ NoChdir(sp) => sp.cwd = AT_FDCWD
  /\ pc = "exit" => DOMAIN fds = {}

FtsOK == FsOK /\ TypedOK /\ Sound(sp, fds, cmd.fd) /\ StackOK /\ PcOK /\ ArgsOK

\* What is sound stays so as long as directories stay directories.
LEMMA SoundNext ==
  ASSUME Sound(sp', fds', cmd'.fd), Dirs' = Dirs
  PROVE  Sound(sp, fds, cmd.fd)'
  BY DEF Sound, OpenDirs

\* While the files stay the same, so do the directories.
LEMMA FsKept ==
  ASSUME FsOK, fs' = fs
  PROVE  FsOK' /\ Dirs' = Dirs
  BY DEF FsOK, Dirs

\* A step that touches neither files nor stream nor descriptors keeps them sound.
LEMMA Unmoved ==
  ASSUME FsOK, Sound(sp, fds, cmd.fd), UNCHANGED <<fs, sp, fds>>, cmd'.fd = cmd.fd
  PROVE  FsOK' /\ Sound(sp, fds, cmd.fd)'
  <1>1. FsOK' /\ Dirs' = Dirs
    BY FsKept
  <1>2. Sound(sp', fds', cmd'.fd)
    OBVIOUS
  <1> QED
    BY <1>1, <1>2, SoundNext

\* The options keep their type once main() has read them.
LEMMA ArgsKept ==
  ASSUME ArgsOK, args' = args, pc \notin {"options", "exit"}, pc' # "options"
  PROVE  ArgsOK'
  BY DEF ArgsOK

\* The current entry, and what replaces it.
LEMMA CurFacts ==
  ASSUME Based(stack), Full(stack)
  PROVE  /\ Len(stack) \in Nat \ {0} /\ stack[Len(stack)] # <<>> /\ cur = Head(stack[Len(stack)])
         /\ cur \in EntrySet /\ Len(cur.path) = Len(stack) /\ Level(cur) = Len(stack) - 1
         /\ cur.path \in Seq(Words)
  <1>1. Levels(stack) /\ Len(stack) \in Nat \ {0} /\ stack[Len(stack)] # <<>>
    BY DEF Based, Full, Last, Levels
  <1>2. cur = Head(stack[Len(stack)])
    BY DEF cur, Last
  <1>3. Len(stack) \in 1..Len(stack)
    BY <1>1
  <1>4. cur \in EntrySet /\ Len(cur.path) = Len(stack) /\ Level(cur) = Len(stack) - 1
    BY <1>1, <1>2, <1>3, LevelFacts
  <1>5. cur.path \in Seq(Words)
    BY <1>4 DEF EntrySet
  <1> QED
    BY <1>1, <1>2, <1>4, <1>5

\* The current entry is replaced by another one of the same level.
LEMMA SetCurFacts ==
  ASSUME Based(stack), Full(stack), NEW p \in EntrySet, Len(p.path) = Len(stack)
  PROVE  /\ Based(SetCur(p)) /\ Full(SetCur(p)) /\ Len(SetCur(p)) = Len(stack)
         /\ SetCur(p)[Len(stack)] = <<p>> \o Tail(stack[Len(stack)])
         /\ Head(Last(SetCur(p))) = p /\ \A l \in 1..(Len(stack) - 1) : SetCur(p)[l] = stack[l]
  <1> DEFINE n == Len(stack)
             t == SetCur(p)
  <1>1. Levels(stack) /\ n \in Nat \ {0} /\ stack[n] # <<>> /\ \A l \in 1..(n - 1) : stack[l] # <<>>
    BY DEF Based, Full, Last, Levels
  <1>2. n \in 1..Len(stack)
    BY <1>1
  <1>3. Replaced(t, stack, n, <<p>> \o Tail(stack[n]))
    BY DEF SetCur, Replaced
  <1>4. /\ Levels(t) /\ Len(t) = n /\ t[n] = <<p>> \o Tail(stack[n]) /\ t[n] # <<>> /\ Head(t[n]) = p
        /\ \A m \in 1..n : m # n => t[m] = stack[m]
    <2> HIDE DEF n
    <2>1. Len(p.path) = n
      BY DEF n
    <2>2. n \in 1..Len(stack)
      BY <1>2
    <2>3. Len(stack) = n
      BY DEF n
    <2> HIDE DEF t
    <2> QED
      BY <1>1, <1>3, <2>1, <2>2, <2>3, HeadSet
  <1> HIDE DEF t
  <1>5. \A l \in 1..(n - 1) : t[l] = stack[l]
    BY <1>1, <1>4
  <1> HIDE DEF n
  <1>6. Based(t) /\ Full(t) /\ Head(Last(t)) = p
    BY <1>1, <1>4, <1>5 DEF Based, Full, Last
  <1> QED
    BY <1>4, <1>5, <1>6 DEF t, n

\* The entry of the directory above.
LEMMA ParentFacts ==
  ASSUME Based(stack), Len(stack) >= 2, NEW n, n = Len(stack) - 1
  PROVE  /\ Len(stack) = n + 1 /\ n \in Nat \ {0} /\ n \in 1..Len(stack) /\ stack[n] # <<>>
         /\ parent = Head(stack[n]) /\ parent \in EntrySet /\ Len(parent.path) = n /\ Level(parent) = n - 1
  <1>1. Levels(stack) /\ \A l \in 1..(Len(stack) - 1) : stack[l] # <<>>
    BY DEF Based
  <1>2. Len(stack) \in Nat
    <2> DEFINE SE == Seq(EntrySet)
    <2>1. stack \in Seq(SE)
      BY <1>1 DEF Levels
    <2> HIDE DEF SE
    <2> QED
      BY <2>1
  <1>3. Len(stack) = n + 1 /\ n \in Nat \ {0} /\ n \in 1..Len(stack) /\ n \in 1..(Len(stack) - 1)
    BY <1>2
  <1>4. parent = Head(stack[n]) /\ stack[n] # <<>>
    BY <1>1, <1>3 DEF parent
  <1>5. parent \in EntrySet /\ Len(parent.path) = n /\ Level(parent) = n - 1
    BY <1>1, <1>3, <1>4, LevelFacts
  <1> QED
    BY <1>3, <1>4, <1>5

\* What a step of the walk or of its client finds, and leaves.
LEMMA Found ==
  ASSUME FtsOK, pc \in Current
  PROVE  /\ Based(stack) /\ Full(stack) /\ Len(stack) \in Nat \ {0} /\ cur \in EntrySet /\ Len(cur.path) = Len(stack)
         /\ Level(cur) = Len(stack) - 1 /\ cur.path \in Seq(Words) /\ DirOf(sp.cwd) \in DOMAIN fs /\ sp \in Streams
         /\ At(sp, cur) \in DOMAIN fs \cup {NONE}
  <1>1. Based(stack) /\ Full(stack)
    BY DEF FtsOK, StackOK
  <1>2. FsOK /\ Sound(sp, fds, cmd.fd)
    BY DEF FtsOK
  <1>3. DirOf(sp.cwd) \in DOMAIN fs
    BY <1>2, DirOfCwd DEF Dirs
  <1>4. cur \in EntrySet /\ Len(cur.path) = Len(stack) /\ Level(cur) = Len(stack) - 1 /\ cur.path \in Seq(Words) /\ Len(stack) \in Nat \ {0}
    BY <1>1, CurFacts
  <1>5. At(sp, cur) \in DOMAIN fs \cup {NONE}
    BY <1>2, <1>3, <1>4, AtFacts
  <1> QED
    BY <1>1, <1>2, <1>3, <1>4, <1>5 DEF Sound

\* A program that changes its current entry keeps the stack in order.
LEMMA CurReplaced ==
  ASSUME StackOK, pc \in Current, NEW p \in EntrySet, Len(p.path) = Len(stack), stack' = SetCur(p), pc' # "back"
  PROVE  StackOK'
  <1>1. Based(stack) /\ Full(stack)
    BY DEF StackOK
  <1>2. Based(SetCur(p)) /\ Full(SetCur(p))
    BY <1>1, SetCurFacts
  <1> HIDE DEF SetCur
  <1> QED
    BY <1>2 DEF StackOK

\* So does one that leaves the stack alone.
LEMMA StackKept ==
  ASSUME StackOK, pc \in Current, stack' = stack, pc' # "back"
  PROVE  StackOK'
  BY DEF StackOK

\* In the middle of a walk, what holds of each place in the program goes on to hold if
\* the open directory is where the place says.
LEMMA PcKept ==
  ASSUME PcOK, pc \notin Before \cup {"exit"}, pc' \notin Before \cup {"exit"}, sp'.options = sp.options,
         sp'.dirp >= 0 <=> pc' \in {"chdir", "readdir"}, ~(cmd'.fd >= 0), pc' # "opened", NoChdir(sp) => sp'.cwd = sp.cwd
  PROVE  PcOK'
  BY DEF PcOK, NoChdir

\* An entry with its instruction taken away, or another kind of visit.
LEMMA EntryChanged ==
  ASSUME NEW p \in EntrySet
  PROVE  /\ Plain(p) \in EntrySet /\ Plain(p).path = p.path
         /\ \A info \in Infos : [p EXCEPT !.info = info] \in EntrySet /\ [p EXCEPT !.info = info].path = p.path
         /\ \A instr \in {"none", "SKIP", "AGAIN"} : [p EXCEPT !.instr = instr] \in EntrySet /\ [p EXCEPT !.instr = instr].path = p.path
  <1>1. Plain(p) \in EntrySet /\ Plain(p).path = p.path
    BY DEF Plain, EntrySet
  <1>2. ASSUME NEW info \in Infos
        PROVE  [p EXCEPT !.info = info] \in EntrySet /\ [p EXCEPT !.info = info].path = p.path
    BY DEF EntrySet
  <1>3. ASSUME NEW instr \in {"none", "SKIP", "AGAIN"}
        PROVE  [p EXCEPT !.instr = instr] \in EntrySet /\ [p EXCEPT !.instr = instr].path = p.path
    BY DEF EntrySet
  <1> QED
    BY <1>1, <1>2, <1>3

\* The stream keeps its descriptors and its options.
Calm ==
  sp' \in Streams /\ sp'.options = sp.options /\ sp'.cwd = sp.cwd /\ sp'.ring = sp.ring /\ sp'.dirp = sp.dirp

\* Fields of the stream that hold no descriptor do not matter to the descriptors.
LEMMA CalmSound ==
  ASSUME NEW s, NEW open, NEW own, Sound(s, open, own), NEW t \in Streams, t.cwd = s.cwd, t.ring = s.ring, t.dirp = s.dirp
  PROVE  Sound(t, open, own)
  BY DEF Sound

\* A step that opens and closes nothing.
LEMMA CalmStep ==
  ASSUME FtsOK, pc \in Current \ {"chdir", "readdir", "opened"}, FsOK', Dirs' = Dirs, StackOK', Calm,
         UNCHANGED <<fds, build, args>>, faults' \in 0..MaxFaults, cmd' \in CmdSet, cmd'.fd = cmd.fd,
         pc' \in (Current \cup {"null", "crash"}) \ {"chdir", "readdir", "opened"}
  PROVE  FtsOK'
  <1>1. FsOK /\ TypedOK /\ Sound(sp, fds, cmd.fd) /\ StackOK /\ PcOK /\ ArgsOK
    BY DEF FtsOK
  <1>2. Sound(sp', fds', cmd'.fd)
    BY <1>1, CalmSound DEF Calm
  <1>3. Sound(sp, fds, cmd.fd)'
    BY <1>2, SoundNext
  <1>4. TypedOK'
    BY <1>1 DEF TypedOK, Pcs
  <1>5. PcOK'
    <2>1. sp.dirp < 0 <=> ~(sp.dirp >= 0)
      BY <1>1 DEF Sound, Streams
    <2> QED
      BY <1>1, <2>1, PcKept DEF PcOK, Before, Calm, Current
  <1>6. ArgsOK'
    BY <1>1, ArgsKept DEF Current
  <1> QED
    BY <1>3, <1>4, <1>5, <1>6 DEF FtsOK

\* A level whose first entry changes.
LEMMA HeadSetBased ==
  ASSUME NEW st, Based(st), NEW l \in 1..Len(st), st[l] # <<>>, NEW p \in EntrySet, Len(p.path) = l,
         NEW new, Replaced(new, st, l, <<p>> \o Tail(st[l]))
  PROVE  Based(new) /\ Len(new) = Len(st) /\ (Full(st) => Full(new)) /\ (l = Len(st) => Full(new))
  <1>1. Levels(st) /\ Len(st) \in Nat /\ \A k \in 1..(Len(st) - 1) : st[k] # <<>>
    BY DEF Based, Levels
  <1>2. Levels(new) /\ Len(new) = Len(st) /\ new[l] # <<>> /\ \A m \in 1..Len(st) : m # l => new[m] = st[m]
    BY <1>1, HeadSet
  <1>3. Based(new)
    BY <1>1, <1>2 DEF Based
  <1>4. ASSUME Full(st)
        PROVE  Full(new)
    BY <1>1, <1>2, <1>4 DEF Full, Last
  <1>5. ASSUME l = Len(st)
        PROVE  Full(new)
    BY <1>1, <1>2, <1>5 DEF Full, Last
  <1> QED
    BY <1>2, <1>3, <1>4, <1>5

\* fts_read() leaves a directory: one level less.
LEMMA FrontBased ==
  ASSUME NEW st, Based(st), Len(st) >= 1
  PROVE  /\ Based(Front(st)) /\ Len(Front(st)) = Len(st) - 1 /\ \A l \in 1..(Len(st) - 1) : Front(st)[l] = st[l]
         /\ Len(st) >= 2 => Full(Front(st))
  <1>1. Levels(st) /\ Len(st) \in Nat /\ \A k \in 1..(Len(st) - 1) : st[k] # <<>>
    <2> DEFINE SE == Seq(EntrySet)
    <2>1. st \in Seq(SE)
      BY DEF Based, Levels
    <2> HIDE DEF SE
    <2> QED
      BY <2>1 DEF Based
  <1>2. Levels(Front(st)) /\ Len(Front(st)) = Len(st) - 1 /\ \A l \in 1..(Len(st) - 1) : Front(st)[l] = st[l]
    BY <1>1, FrontLevels
  <1> DEFINE t == Front(st)
  <1> HIDE DEF t
  <1>3. Levels(t) /\ Len(t) = Len(st) - 1 /\ \A l \in 1..(Len(st) - 1) : t[l] = st[l]
    BY <1>2 DEF t
  <1>4. Based(t)
    BY <1>1, <1>3 DEF Based
  <1>5. Len(st) >= 2 => Full(t)
    BY <1>1, <1>3 DEF Full, Last
  <1> QED
    BY <1>3, <1>4, <1>5 DEF t

\* The stream that has changed directories.
LEMMA KinFacts ==
  ASSUME NEW s \in Streams, NEW t, Kin(t, s)
  PROVE  /\ t.options = s.options /\ t.dirp = s.dirp /\ t.counter = s.counter /\ t.discard = s.discard
         /\ t.stop = s.stop /\ t.errno = s.errno /\ t.seen = s.seen
  <1> DEFINE c == t.cwd
             r == t.ring
  <1>1. t = [s EXCEPT !.cwd = c, !.ring = r]
    BY DEF Kin
  <1> HIDE DEF c, r
  <1> QED
    BY <1>1 DEF Streams

\* The state of the cycle check holds no descriptor.
LEMMA StreamChanged ==
  ASSUME NEW s \in Streams, NEW c \in Nat, NEW v \in Int
  PROVE  LET t == [s EXCEPT !.counter = c, !.seen = v]
         IN  t \in Streams /\ t.options = s.options /\ t.cwd = s.cwd /\ t.ring = s.ring /\ t.dirp = s.dirp
  BY DEF Streams

\* opendirat() opens a directory for the stream.
LEMMA DirpOpened ==
  ASSUME NEW s, NEW open, NEW own, Sound(s, open, own), ~(s.dirp >= 0), NEW d \in Dirs
  PROVE  Sound([s EXCEPT !.dirp = Opened(open, d).fd], Opened(open, d).open, own)
         /\ Opened(open, d).fd \in Int /\ Opened(open, d).fd >= 0
  <1> DEFINE o == Opened(open, d)
             fd == o.fd
             left == o.open
             t == [s EXCEPT !.dirp = fd]
  <1>1. OpenDirs(left, own) /\ fd \in Int /\ fd >= 0 /\ fd \in DOMAIN left /\ DOMAIN left = DOMAIN open \cup {fd} /\ fd \notin DOMAIN open
    BY OpenSound
  <1>2. s \in Streams /\ (s.cwd < 0 => s.cwd = AT_FDCWD) /\ Exact(s.cwd, s.dirp, own, s.ring.data, DOMAIN open)
    BY DEF Sound
  <1> HIDE DEF fd, left
  <1>3. t \in Streams /\ t.cwd = s.cwd /\ t.dirp = fd /\ t.ring = s.ring
    BY <1>1, <1>2 DEF Streams
  <1> HIDE DEF t
  <1> DEFINE data == s.ring.data
             D == DOMAIN open
  <1>4. Exact(s.cwd, fd, own, data, DOMAIN left)
    <2>1. /\ \A x \in {s.cwd, s.dirp, own} \cup {data[i] : i \in Slots} : x >= 0 => x \in D
          /\ \A x \in D : x >= 0 /\ (x \in {s.cwd, s.dirp, own} \/ \E i \in Slots : data[i] = x)
          /\ \A i, j \in Slots : data[i] >= 0 /\ data[i] = data[j] => i = j
          /\ s.cwd >= 0 => s.cwd # s.dirp /\ s.cwd # own /\ \A i \in Slots : data[i] # s.cwd
          /\ own >= 0 => \A i \in Slots : data[i] # own
      BY <1>2 DEF Exact
    <2> HIDE DEF data, D
    <2>2. /\ \A i \in Slots : data[i] # fd
          /\ fd # s.cwd /\ fd # own
      BY <1>1, <2>1 DEF D
    <2>3. \A x \in {s.cwd, fd, own} \cup {data[i] : i \in Slots} : x >= 0 => x \in D \cup {fd}
      BY <2>1
    <2>4. \A x \in D \cup {fd} : x >= 0 /\ (x \in {s.cwd, fd, own} \/ \E i \in Slots : data[i] = x)
      BY <1>1, <2>1
    <2>5. DOMAIN left = D \cup {fd}
      BY <1>1 DEF D
    <2> QED
      BY <2>1, <2>2, <2>3, <2>4, <2>5 DEF Exact
  <1>5. Sound(t, left, own)
    BY <1>1, <1>2, <1>3, <1>4 DEF Sound
  <1> QED
    BY <1>1, <1>5 DEF t, left, fd

\* restricted_chown() opens a file of its own.
LEMMA OwnOpened ==
  ASSUME NEW s, NEW open, NEW own, Sound(s, open, own), ~(own >= 0), NEW K, NEW d \in K
  PROVE  Sound(s, Opened(open, d).open, Opened(open, d).fd) /\ Opened(open, d).fd \in Int /\ Opened(open, d).fd >= 0
         /\ Opened(open, d).fd \in DOMAIN Opened(open, d).open /\ Opened(open, d).open[Opened(open, d).fd] = d
  <1> DEFINE o == Opened(open, d)
             fd == o.fd
             left == o.open
             data == s.ring.data
             D == DOMAIN open
  <1>1. OpenDirs(left, fd) /\ left[fd] = d /\ fd \in Int /\ fd >= 0 /\ fd \in DOMAIN left /\ DOMAIN left = DOMAIN open \cup {fd} /\ fd \notin DOMAIN open
    <2>1. OpenDirs(open, own)
      BY DEF Sound
    <2>2. /\ fd \in Nat /\ fd >= 3 /\ fd \notin DOMAIN open /\ DOMAIN left = DOMAIN open \cup {fd}
          /\ left = [k \in DOMAIN open \cup {fd} |-> IF k = fd THEN d ELSE open[k]]
      BY <2>1, OpenedFacts DEF OpenDirs
    <2> HIDE DEF fd, left
    <2>3. IsFiniteSet(DOMAIN left)
      BY <2>1, <2>2, FS_AddElement DEF OpenDirs
    <2>4. \A k \in DOMAIN open : k # own /\ left[k] = open[k]
      BY <2>1, <2>2 DEF OpenDirs
    <2> QED
      BY <2>1, <2>2, <2>3, <2>4 DEF OpenDirs
  <1>2. s \in Streams /\ (s.cwd < 0 => s.cwd = AT_FDCWD) /\ Exact(s.cwd, s.dirp, own, s.ring.data, DOMAIN open)
    BY DEF Sound
  <1> HIDE DEF fd, left
  <1>3. Exact(s.cwd, s.dirp, fd, data, DOMAIN left)
    <2>1. /\ \A x \in {s.cwd, s.dirp, own} \cup {data[i] : i \in Slots} : x >= 0 => x \in D
          /\ \A x \in D : x >= 0 /\ (x \in {s.cwd, s.dirp, own} \/ \E i \in Slots : data[i] = x)
          /\ \A i, j \in Slots : data[i] >= 0 /\ data[i] = data[j] => i = j
          /\ s.cwd >= 0 => s.cwd # s.dirp /\ s.cwd # own /\ \A i \in Slots : data[i] # s.cwd
          /\ s.dirp >= 0 => s.dirp # own /\ \A i \in Slots : data[i] # s.dirp
      BY <1>2 DEF Exact
    <2> HIDE DEF data, D
    <2>2. /\ \A i \in Slots : data[i] # fd
          /\ fd # s.cwd /\ fd # s.dirp
      BY <1>1, <2>1 DEF D
    <2>3. \A x \in {s.cwd, s.dirp, fd} \cup {data[i] : i \in Slots} : x >= 0 => x \in D \cup {fd}
      BY <2>1
    <2>4. \A x \in D \cup {fd} : x >= 0 /\ (x \in {s.cwd, s.dirp, fd} \/ \E i \in Slots : data[i] = x)
      BY <1>1, <2>1
    <2>5. DOMAIN left = D \cup {fd}
      BY <1>1 DEF D
    <2> QED
      BY <2>1, <2>2, <2>3, <2>4, <2>5 DEF Exact
  <1> QED
    BY <1>1, <1>2, <1>3 DEF Sound, fd, left

\* closedir() closes the directory the stream has open.
LEMMA DirpClosed ==
  ASSUME NEW s, NEW open, NEW own, Sound(s, open, own), s.dirp >= 0
  PROVE  Sound([s EXCEPT !.dirp = NONE], Closed(open, {s.dirp}), own)
  <1> DEFINE left == Closed(open, {s.dirp})
             t == [s EXCEPT !.dirp = NONE]
             data == s.ring.data
             D == DOMAIN open
  <1>1. s \in Streams /\ (s.cwd < 0 => s.cwd = AT_FDCWD) /\ OpenDirs(open, own) /\ Exact(s.cwd, s.dirp, own, s.ring.data, DOMAIN open)
    BY DEF Sound
  <1>2. OpenDirs(left, own) /\ DOMAIN left = D \ {s.dirp}
    BY <1>1, ClosedFacts
  <1>3. t \in Streams /\ t.cwd = s.cwd /\ t.dirp = NONE /\ t.ring = s.ring
    BY <1>1 DEF Streams, NONE
  <1> HIDE DEF left, t
  <1>4. Exact(s.cwd, NONE, own, data, DOMAIN left)
    <2>1. /\ \A x \in {s.cwd, s.dirp, own} \cup {data[i] : i \in Slots} : x >= 0 => x \in D
          /\ \A x \in D : x >= 0 /\ (x \in {s.cwd, s.dirp, own} \/ \E i \in Slots : data[i] = x)
          /\ \A i, j \in Slots : data[i] >= 0 /\ data[i] = data[j] => i = j
          /\ s.cwd >= 0 => s.cwd # s.dirp /\ s.cwd # own /\ \A i \in Slots : data[i] # s.cwd
          /\ s.dirp # own /\ \A i \in Slots : data[i] # s.dirp
          /\ own >= 0 => \A i \in Slots : data[i] # own
      BY <1>1 DEF Exact
    <2> HIDE DEF data, D
    <2>2. \A x \in {s.cwd, NONE, own} \cup {data[i] : i \in Slots} : x >= 0 => x \in D \ {s.dirp}
      BY <2>1 DEF NONE
    <2>3. \A x \in D \ {s.dirp} : x >= 0 /\ (x \in {s.cwd, NONE, own} \/ \E i \in Slots : data[i] = x)
      BY <2>1
    <2>4. s.cwd >= 0 => s.cwd # NONE
      BY DEF NONE
    <2>5. ~(NONE >= 0)
      BY DEF NONE
    <2> QED
      BY <1>2, <2>1, <2>2, <2>3, <2>4, <2>5 DEF Exact
  <1>5. Sound(t, left, own)
    BY <1>1, <1>2, <1>3, <1>4 DEF Sound
  <1> QED
    BY <1>5 DEF t, left

\* restricted_chown() closes its file.
LEMMA OwnClosed ==
  ASSUME NEW s, NEW open, NEW own, Sound(s, open, own), own >= 0
  PROVE  Sound(s, Closed(open, {own}), NONE)
  <1> DEFINE left == Closed(open, {own})
             data == s.ring.data
             D == DOMAIN open
  <1>1. s \in Streams /\ (s.cwd < 0 => s.cwd = AT_FDCWD) /\ OpenDirs(open, own) /\ Exact(s.cwd, s.dirp, own, s.ring.data, DOMAIN open)
    BY DEF Sound
  <1>2. OpenDirs(left, own) /\ DOMAIN left = D \ {own}
    BY <1>1, ClosedFacts
  <1> HIDE DEF left
  <1>4. Exact(s.cwd, s.dirp, NONE, data, DOMAIN left)
    <2>1. /\ \A x \in {s.cwd, s.dirp, own} \cup {data[i] : i \in Slots} : x >= 0 => x \in D
          /\ \A x \in D : x >= 0 /\ (x \in {s.cwd, s.dirp, own} \/ \E i \in Slots : data[i] = x)
          /\ \A i, j \in Slots : data[i] >= 0 /\ data[i] = data[j] => i = j
          /\ s.cwd >= 0 => s.cwd # s.dirp /\ s.cwd # own /\ \A i \in Slots : data[i] # s.cwd
          /\ s.dirp >= 0 => s.dirp # own /\ \A i \in Slots : data[i] # s.dirp
          /\ \A i \in Slots : data[i] # own
      BY <1>1 DEF Exact
    <2> HIDE DEF data, D
    <2>2. \A x \in {s.cwd, s.dirp, NONE} \cup {data[i] : i \in Slots} : x >= 0 => x \in D \ {own}
      BY <2>1 DEF NONE
    <2>3. \A x \in D \ {own} : x >= 0 /\ (x \in {s.cwd, s.dirp, NONE} \/ \E i \in Slots : data[i] = x)
      BY <2>1
    <2>4. (s.cwd >= 0 => s.cwd # NONE) /\ (s.dirp >= 0 => s.dirp # NONE)
      BY DEF NONE
    <2>5. ~(NONE >= 0)
      BY DEF NONE
    <2> QED
      BY <1>2, <2>1, <2>2, <2>3, <2>4, <2>5 DEF Exact
  <1>5. OpenDirs(left, NONE)
    BY <1>2 DEF OpenDirs
  <1> QED
    BY <1>1, <1>4, <1>5 DEF Sound, left

-----------------------------------------------------------------------------
(* The steps of fts_read().                                                 *)

LEMMA ReadAgainOK ==
  ASSUME FtsOK, ReadAgain
  PROVE  FtsOK'
  <1> DEFINE p == fts_stat(sp, Plain(cur))
  <1>1. pc = "read" /\ pc' = "got" /\ stack' = SetCur(p) /\ UNCHANGED <<faults, sp, fds, fs, build, args, cmd, log>>
    BY DEF ReadAgain, Reading, Keep
  <1>2. FsOK /\ TypedOK /\ StackOK /\ pc \in Current /\ sp \in Streams
    BY <1>1 DEF FtsOK, Current, Sound
  <1>3. Plain(cur) \in EntrySet /\ Plain(cur).path = cur.path /\ Len(cur.path) = Len(stack) /\ DirOf(sp.cwd) \in DOMAIN fs
    BY <1>2, Found, EntryChanged
  <1>4. p \in EntrySet /\ Len(p.path) = Len(stack)
    BY <1>2, <1>3, StatFacts
  <1> HIDE DEF p
  <1>5. StackOK'
    BY <1>1, <1>2, <1>4, CurReplaced
  <1> QED
    BY <1>1, <1>2, <1>5, FsKept, CalmStep DEF Current, Calm, TypedOK

\* fts_read() of an entry that is to be skipped keeps the invariant.
LEMMA ReadSkippedOK ==
  ASSUME FtsOK, ReadSkipped
  PROVE  FtsOK'
  <1> DEFINE p == [Plain(cur) EXCEPT !.info = "DP"]
  <1>1. pc = "read" /\ pc' \in {"got", "crash"} /\ stack' = SetCur(p) /\ UNCHANGED <<faults, sp, fds, fs, build, args, cmd, log>>
    BY DEF ReadSkipped, Reading, Keep, Return
  <1>2. FsOK /\ TypedOK /\ StackOK /\ pc \in Current /\ sp \in Streams
    BY <1>1 DEF FtsOK, Current, Sound
  <1>3. Plain(cur) \in EntrySet /\ Plain(cur).path = cur.path /\ Len(cur.path) = Len(stack)
    BY <1>2, Found, EntryChanged
  <1>4. p \in EntrySet /\ Len(p.path) = Len(stack)
    <2>1. "DP" \in Infos
      BY DEF Infos
    <2> QED
      BY <1>3, <2>1, EntryChanged
  <1> HIDE DEF p
  <1>5. StackOK'
    BY <1>1, <1>2, <1>4, CurReplaced
  <1> QED
    BY <1>1, <1>2, <1>5, FsKept, CalmStep DEF Current, Calm, TypedOK

\* fts_build() opens a directory.
LEMMA BuildOpenOK ==
  ASSUME FtsOK, BuildOpen
  PROVE  FtsOK'
  <1> DEFINE d == Follow(fs, At(sp, cur))
             o == Opened(fds, d)
             q == [Plain(cur) EXCEPT !.info = "DNR", !.error = TRUE]
  <1>1. pc = "read" /\ UNCHANGED <<fs, build, args, cmd, log>>
    BY DEF BuildOpen, Reading, Keep
  <1>2. FsOK /\ TypedOK /\ Sound(sp, fds, cmd.fd) /\ StackOK /\ PcOK /\ ArgsOK /\ pc \in Current /\ sp \in Streams
    BY <1>1 DEF FtsOK, Current, Sound
  <1>3. Plain(cur) \in EntrySet /\ Plain(cur).path = cur.path /\ Len(cur.path) = Len(stack) /\ d \in DOMAIN fs \cup {NONE}
    BY <1>2, Found, EntryChanged, FollowFacts
  <1>4. PICK failed \in BOOLEAN :
          /\ MayFail(failed)
          /\ IF failed \/ ~IsDir(fs, d)
             THEN stack' = SetCur(q) /\ pc' = Return(cur) /\ UNCHANGED <<sp, fds>>
             ELSE fds' = o.open /\ sp' = [sp EXCEPT !.dirp = o.fd] /\ stack' = SetCur(Plain(cur)) /\ pc' = "chdir"
    BY DEF BuildOpen
  <1>5. faults' \in 0..MaxFaults
    BY <1>2, <1>4, FtsAssumption DEF MayFail, TypedOK
  <1> HIDE DEF d, o
  <1>6. CASE failed \/ ~IsDir(fs, d)
    <2>1. q \in EntrySet /\ Len(q.path) = Len(stack)
      BY <1>3 DEF EntrySet, Infos
    <2> HIDE DEF q
    <2>2. stack' = SetCur(q) /\ pc' \in {"got", "crash"} /\ UNCHANGED <<sp, fds>>
      BY <1>4, <1>6 DEF Return
    <2>3. StackOK'
      BY <1>2, <2>1, <2>2, CurReplaced
    <2> QED
      BY <1>1, <1>2, <1>5, <2>2, <2>3, FsKept, CalmStep DEF Current, Calm, TypedOK
  <1>7. CASE ~(failed \/ ~IsDir(fs, d))
    <2>1. fds' = o.open /\ sp' = [sp EXCEPT !.dirp = o.fd] /\ stack' = SetCur(Plain(cur)) /\ pc' = "chdir"
      BY <1>4, <1>7
    <2>2. d \in Dirs
      BY <1>3, <1>7 DEF IsDir, Dirs
    <2>3. ~(sp.dirp >= 0) /\ ~(cmd.fd >= 0)
      BY <1>1, <1>2 DEF PcOK
    <2>4. Sound(sp', fds', cmd'.fd) /\ o.fd \in Int /\ o.fd >= 0
      BY <1>1, <1>2, <2>1, <2>2, <2>3, DirpOpened DEF o
    <2>5. FsOK' /\ Sound(sp, fds, cmd.fd)'
      BY <1>1, <1>2, <2>4, FsKept, SoundNext
    <2>6. StackOK'
      BY <1>2, <1>3, <2>1, CurReplaced
    <2>7. TypedOK'
      BY <1>1, <1>2, <1>5, <2>1 DEF TypedOK, Pcs, Current
    <2>8. sp'.options = sp.options /\ sp'.cwd = sp.cwd /\ sp'.dirp >= 0
      BY <1>2, <2>1, <2>4 DEF Streams
    <2>9. PcOK'
      BY <1>1, <1>2, <2>1, <2>3, <2>8, PcKept DEF Before
    <2>10. ArgsOK'
      BY <1>1, <1>2, <2>1, ArgsKept
    <2> QED
      BY <2>5, <2>6, <2>7, <2>9, <2>10 DEF FtsOK
  <1> QED
    BY <1>6, <1>7

\* A new descriptor becomes the virtual working directory.
LEMMA AdvanceTo ==
  ASSUME NEW s, NEW open, NEW own, Sound(s, open, own), NEW d \in Dirs
  PROVE  LET o == Opened(open, d)
             a == cwd_advanced_fd([sp |-> s, fds |-> o.open], o.fd, TRUE)
         IN  Sound(a.sp, a.fds, own) /\ Kin(a.sp, s)
  <1> DEFINE o == Opened(open, d)
             a == cwd_advanced_fd([sp |-> s, fds |-> o.open], o.fd, TRUE)
  <1>1. s \in Streams
    BY DEF Sound
  <1>2. OpenDirs(o.open, own) /\ o.fd \in Int /\ o.fd >= 0 /\ o.fd \in DOMAIN o.open /\ DOMAIN o.open \ {o.fd} = DOMAIN open
    BY OpenSound
  <1>3. Exact(s.cwd, s.dirp, own, s.ring.data, DOMAIN o.open \ {o.fd})
    BY <1>2 DEF Sound
  <1> HIDE DEF o
  <1>4. o.fd < 0 => o.fd = AT_FDCWD
    BY <1>2
  <1>5. Sound(a.sp, a.fds, own) /\ a.sp = [s EXCEPT !.cwd = o.fd, !.ring = a.sp.ring]
    BY <1>1, <1>2, <1>3, <1>4, AdvanceSound
  <1> HIDE DEF a
  <1>6. a.sp = [s EXCEPT !.cwd = a.sp.cwd, !.ring = a.sp.ring]
    BY <1>1, <1>5 DEF Streams
  <1> QED
    BY <1>5, <1>6 DEF Kin, a, o

\* fts_build() changes to it, and closes it on failure.
LEMMA BuildChdirOK ==
  ASSUME FtsOK, BuildChdir
  PROVE  FtsOK'
  <1> DEFINE o == Opened(fds, fds[sp.dirp])
             a == cwd_advanced_fd([sp |-> sp, fds |-> o.open], o.fd, TRUE)
  <1>1. pc = "chdir" /\ UNCHANGED <<fs, build, args, cmd, log>>
    BY DEF BuildChdir, Keep
  <1>2. FsOK /\ TypedOK /\ Sound(sp, fds, cmd.fd) /\ StackOK /\ PcOK /\ ArgsOK /\ pc \in Current /\ sp \in Streams
    BY <1>1 DEF FtsOK, Current, Sound
  <1>3. cur \in EntrySet /\ Len(cur.path) = Len(stack)
    BY <1>2, Found
  <1>4. sp.dirp >= 0 /\ sp.dirp \in DOMAIN fds /\ fds[sp.dirp] \in Dirs /\ ~(cmd.fd >= 0)
    BY <1>1, <1>2 DEF PcOK, Sound, Exact, OpenDirs
  <1>5. PICK failed \in BOOLEAN :
          /\ MayFail(failed)
          /\ IF failed /\ Set("CWDFD")
             THEN \E e \in {cur.error \/ ~Set("NOSTAT") \/ cur.dirs # 0} :
                 /\ stack' = SetCur([cur EXCEPT !.dontchdir = TRUE, !.error = e, !.info = IF e THEN "ERR" ELSE "DP"])
                 /\ fds' = Closed(fds, {sp.dirp}) /\ sp' = [sp EXCEPT !.dirp = NONE] /\ pc' = Return(cur)
             ELSE /\ IF NoChdir(sp) THEN UNCHANGED <<sp, fds>> ELSE sp' = a.sp /\ fds' = a.fds
                  /\ pc' = "readdir" /\ UNCHANGED stack
    BY DEF BuildChdir, Becomes
  <1>6. faults' \in 0..MaxFaults
    BY <1>2, <1>5, FtsAssumption DEF MayFail, TypedOK
  <1> HIDE DEF o, a
  <1>7. CASE failed /\ Set("CWDFD")
    <2>1. PICK e \in {cur.error \/ ~Set("NOSTAT") \/ cur.dirs # 0} :
            /\ stack' = SetCur([cur EXCEPT !.dontchdir = TRUE, !.error = e, !.info = IF e THEN "ERR" ELSE "DP"])
            /\ fds' = Closed(fds, {sp.dirp}) /\ sp' = [sp EXCEPT !.dirp = NONE] /\ pc' \in {"got", "crash"}
      BY <1>5, <1>7 DEF Return
    <2> DEFINE q == [cur EXCEPT !.dontchdir = TRUE, !.error = e, !.info = IF e THEN "ERR" ELSE "DP"]
    <2>2. e \in BOOLEAN
      BY <2>1
    <2>3. q \in EntrySet /\ Len(q.path) = Len(stack)
      BY <1>3, <2>2 DEF EntrySet, Infos
    <2> HIDE DEF q
    <2>4. stack' = SetCur(q)
      BY <2>1 DEF q
    <2>5. StackOK'
      BY <1>2, <2>1, <2>3, <2>4, CurReplaced
    <2>6. Sound(sp', fds', cmd'.fd)
      BY <1>1, <1>2, <1>4, <2>1, DirpClosed
    <2>7. FsOK' /\ Sound(sp, fds, cmd.fd)'
      BY <1>1, <1>2, <2>6, FsKept, SoundNext
    <2>8. TypedOK'
      BY <1>1, <1>2, <1>6, <2>1 DEF TypedOK, Pcs, Current
    <2>9. sp'.options = sp.options /\ sp'.cwd = sp.cwd /\ sp'.dirp = NONE
      BY <1>2, <2>1 DEF Streams
    <2>10. ~(sp'.dirp >= 0)
      BY <2>9 DEF NONE
    <2>11. PcOK'
      BY <1>1, <1>2, <1>4, <2>1, <2>9, <2>10, PcKept DEF Before
    <2>12. ArgsOK'
      BY <1>1, <1>2, <2>1, ArgsKept
    <2> QED
      BY <2>5, <2>7, <2>8, <2>11, <2>12 DEF FtsOK
  <1>8. CASE ~(failed /\ Set("CWDFD"))
    <2>1. pc' = "readdir" /\ stack' = stack /\ IF NoChdir(sp) THEN UNCHANGED <<sp, fds>> ELSE sp' = a.sp /\ fds' = a.fds
      BY <1>5, <1>8
    <2>2. Sound(a.sp, a.fds, cmd.fd) /\ Kin(a.sp, sp)
      BY <1>2, <1>4, AdvanceTo DEF a, o
    <2>3. a.sp.options = sp.options /\ a.sp.dirp = sp.dirp
      BY <1>2, <2>2, KinFacts
    <2>4. Sound(sp', fds', cmd'.fd)
      BY <1>1, <1>2, <2>1, <2>2
    <2>5. FsOK' /\ Sound(sp, fds, cmd.fd)'
      BY <1>1, <1>2, <2>4, FsKept, SoundNext
    <2>6. StackOK'
      BY <1>2, <2>1, StackKept
    <2>7. TypedOK'
      BY <1>1, <1>2, <1>6, <2>1 DEF TypedOK, Pcs, Current
    <2>8. PcOK'
      BY <1>1, <1>2, <1>4, <2>1, <2>3, PcKept DEF Before
    <2>9. ArgsOK'
      BY <1>1, <1>2, <2>1, ArgsKept
    <2> QED
      BY <2>5, <2>6, <2>7, <2>8, <2>9 DEF FtsOK
  <1> QED
    BY <1>7, <1>8

\* The entry of a name in a directory.
LEMMA ChildFacts ==
  ASSUME FtsOK, pc \in Current, NEW e, e \in [name : STRING, ino : DOMAIN fs]
  PROVE  Child(e) \in EntrySet /\ Len(Child(e).path) = Len(stack) + 1
  <1> DEFINE path == cur.path \o <<e.name>>
             n == fts_alloc(path, "NSOK")
             k == IF build.dtype THEN fs[e.ino].kind ELSE "none"
             r == ~(Set("PHYSICAL") /\ Set("NOSTAT") /\ build.dtype /\ fs[e.ino].kind # "dir")
  <1>1. cur.path \in Seq(Words) /\ Len(cur.path) = Len(stack) /\ Len(stack) \in Nat
    BY Found
  <1>2. path \in Seq(Words) /\ Len(path) = Len(stack) + 1
    <2>1. e.name \in Words
      BY DEF Words
    <2> DEFINE w == e.name
    <2> HIDE DEF w
    <2>2. w \in Words
      BY <2>1 DEF w
    <2> QED
      BY <1>1, <2>2 DEF w
  <1>3. fs[e.ino] \in Files(DOMAIN fs)
    BY DEF FtsOK, FsOK
  <1>4. k \in Kinds \cup {"none"} /\ r \in BOOLEAN
    BY <1>3 DEF Files, Set
  <1>5. Child(e) = [n EXCEPT !.kind = k, !.required = r]
    BY DEF Child
  <1> HIDE DEF path, k, r
  <1>6. n \in EntrySet /\ n.path = path
    BY <1>2 DEF fts_alloc, EntrySet, Infos, OwnerSet, NONE
  <1> HIDE DEF n
  <1>7. Child(e) \in EntrySet /\ Child(e).path = path
    BY <1>4, <1>5, <1>6 DEF EntrySet
  <1> QED
    BY <1>2, <1>7

\* fts_build() reads it.
LEMMA BuildReadOK ==
  ASSUME FtsOK, BuildRead
  PROVE  FtsOK'
  <1> DEFINE ents == fs[fds[sp.dirp]].ents
             level == [i \in 1..Len(ents) |-> Child(ents[i])]
  <1>1. pc = "readdir" /\ UNCHANGED <<fs, build, args, cmd, log>> /\ fds' = Closed(fds, {sp.dirp})
    BY DEF BuildRead, Keep
  <1>2. FsOK /\ TypedOK /\ Sound(sp, fds, cmd.fd) /\ StackOK /\ PcOK /\ ArgsOK /\ pc \in Current /\ sp \in Streams
    BY <1>1 DEF FtsOK, Current, Sound
  <1>3. cur \in EntrySet /\ Len(cur.path) = Len(stack) /\ Len(stack) \in Nat \ {0} /\ Based(stack) /\ Full(stack)
    BY <1>2, Found
  <1>4. sp.dirp >= 0 /\ sp.dirp \in DOMAIN fds /\ fds[sp.dirp] \in Dirs /\ ~(cmd.fd >= 0)
    BY <1>1, <1>2 DEF PcOK, Sound, Exact, OpenDirs
  <1>5. PICK failed \in BOOLEAN :
          /\ MayFail(failed)
          /\ IF failed
             THEN /\ stack' = SetCur([cur EXCEPT !.info = "ERR"]) /\ pc' = "null"
                  /\ sp' = [sp EXCEPT !.dirp = NONE, !.stop = TRUE, !.errno = TRUE]
             ELSE stack' = Append(stack, level) /\ pc' = "back" /\ sp' = [sp EXCEPT !.dirp = NONE]
    BY DEF BuildRead
  <1>6. faults' \in 0..MaxFaults
    BY <1>2, <1>5, FtsAssumption DEF MayFail, TypedOK
  <1>7. ents \in Seq([name : STRING, ino : DOMAIN fs])
    BY <1>2, <1>4 DEF Dirs, FsOK, Files
  <1>8. level \in Seq(EntrySet) /\ Len(level) = Len(ents) /\ \A k \in 1..Len(level) : Len(level[k].path) = Len(stack) + 1
    <2> DEFINE Named == [name : STRING, ino : DOMAIN fs]
    <2>1. ents \in Seq(Named)
      BY <1>7
    <2> HIDE DEF ents, Named
    <2>2. Len(ents) \in Nat /\ \A i \in 1..Len(ents) : ents[i] \in Named
      BY <2>1
    <2>3. \A i \in 1..Len(ents) : Child(ents[i]) \in EntrySet /\ Len(Child(ents[i]).path) = Len(stack) + 1
      BY <1>2, <2>2, ChildFacts DEF Named
    <2> QED
      BY <2>2, <2>3
  <1> HIDE DEF level
  <1> DEFINE t == [sp EXCEPT !.dirp = NONE]
  <1>9. Sound(t, fds', cmd.fd)
    BY <1>1, <1>2, <1>4, DirpClosed
  <1>10. t \in Streams /\ t.options = sp.options /\ t.cwd = sp.cwd /\ t.dirp = NONE /\ ~(NONE >= 0)
    BY <1>2 DEF Streams, NONE
  <1>11. /\ sp' \in Streams /\ sp'.options = sp.options /\ sp'.cwd = t.cwd /\ sp'.ring = t.ring /\ sp'.dirp = t.dirp
    <2>1. CASE failed
      <3>1. sp' = [t EXCEPT !.stop = TRUE, !.errno = TRUE]
        BY <1>5, <2>1
      <3> HIDE DEF t
      <3> QED
        BY <1>10, <3>1 DEF Streams
    <2>2. CASE ~failed
      BY <1>5, <1>10, <2>2
    <2> QED
      BY <2>1, <2>2
  <1> HIDE DEF t
  <1>12. Sound(sp', fds', cmd'.fd)
    BY <1>1, <1>9, <1>11, CalmSound
  <1>13. FsOK' /\ Sound(sp, fds, cmd.fd)'
    BY <1>1, <1>2, <1>12, FsKept, SoundNext
  <1>14. pc' \in {"null", "back"}
    BY <1>5
  <1>15. StackOK'
    <2>1. CASE failed
      <3> DEFINE q == [cur EXCEPT !.info = "ERR"]
      <3>1. "ERR" \in Infos
        BY DEF Infos
      <3>2. q \in EntrySet /\ Len(q.path) = Len(stack)
        BY <1>3, <3>1, EntryChanged
      <3>3. stack' = SetCur(q) /\ pc' # "back"
        BY <1>5, <2>1
      <3> QED
        BY <1>2, <3>2, <3>3, CurReplaced
    <2>2. CASE ~failed
      <3> DEFINE u == Append(stack, level)
                 n == Len(stack)
      <3>1. stack' = u /\ pc' = "back"
        BY <1>5, <2>2
      <3>2. Levels(stack) /\ \A l \in 1..(n - 1) : stack[l] # <<>>
        BY <1>3 DEF Based
      <3>3. stack[n] # <<>>
        BY <1>3 DEF Full, Last
      <3>4. Levels(u) /\ Len(u) = n + 1 /\ \A l \in 1..n : u[l] = stack[l]
        BY <1>8, <3>2, AppendLevel
      <3> HIDE DEF u, n
      <3>5. n \in Nat \ {0}
        BY <1>3 DEF n
      <3>6. Based(u) /\ Len(u) >= 2
        BY <3>2, <3>3, <3>4, <3>5 DEF Based
      <3> QED
        BY <3>1, <3>6 DEF StackOK, Current
    <2> QED
      BY <2>1, <2>2
  <1>16. TypedOK'
    BY <1>1, <1>2, <1>6, <1>14 DEF TypedOK, Pcs, Current
  <1>17. PcOK'
    BY <1>1, <1>2, <1>4, <1>10, <1>11, <1>14, PcKept DEF Before
  <1>18. ArgsOK'
    BY <1>1, <1>2, <1>14, ArgsKept
  <1> QED
    BY <1>13, <1>15, <1>16, <1>17, <1>18 DEF FtsOK

\* A step that changes directories.
LEMMA KinStep ==
  ASSUME FtsOK, pc \in (Current \cup {"back"}) \ {"chdir", "readdir", "opened"}, UNCHANGED <<fs, build, args, cmd>>,
         Sound(sp', fds', cmd.fd), StackOK', sp'.options = sp.options, sp'.dirp = sp.dirp, NoChdir(sp) => sp'.cwd = sp.cwd,
         faults' \in 0..MaxFaults, pc' \in (Current \cup {"null", "crash"}) \ {"chdir", "readdir", "opened"}
  PROVE  FtsOK'
  <1>1. FsOK /\ TypedOK /\ Sound(sp, fds, cmd.fd) /\ StackOK /\ PcOK /\ ArgsOK
    BY DEF FtsOK
  <1>2. Sound(sp', fds', cmd'.fd)
    OBVIOUS
  <1>3. FsOK' /\ Sound(sp, fds, cmd.fd)'
    BY <1>1, <1>2, FsKept, SoundNext
  <1>4. TypedOK'
    BY <1>1 DEF TypedOK, Pcs
  <1>5. PcOK'
    BY <1>1, PcKept DEF PcOK, Before, Current
  <1>6. ArgsOK'
    BY <1>1, ArgsKept DEF Current
  <1> QED
    BY <1>3, <1>4, <1>5, <1>6 DEF FtsOK

\* fts_read() goes to the next entry.
LEMMA ReadNextOK ==
  ASSUME FtsOK, ReadNext
  PROVE  FtsOK'
  <1> DEFINE st == RESTORE_INITIAL_CWD(Now)
             new == [stack EXCEPT ![Len(stack)] = Tail(@)]
  <1>1. pc = "read" /\ pc' = "check" /\ UNCHANGED <<fs, build, args, cmd, faults>> /\ Len(Last(stack)) > 1 /\ stack' = new
    BY DEF ReadNext, Reading, Keep
  <1>2. FsOK /\ TypedOK /\ Sound(sp, fds, cmd.fd) /\ StackOK /\ PcOK /\ ArgsOK /\ pc \in Current /\ sp \in Streams
    BY <1>1 DEF FtsOK, Current, Sound
  <1>3. Len(stack) \in Nat \ {0} /\ Based(stack) /\ Full(stack)
    BY <1>2, Found
  <1>4. StackOK'
    <2> DEFINE n == Len(stack)
    <2>1. Levels(stack) /\ (\A l \in 1..(n - 1) : stack[l] # <<>>) /\ n \in 1..Len(stack) /\ Len(stack[n]) > 1
      BY <1>1, <1>3 DEF Based, Last
    <2>2. Replaced(new, stack, n, Tail(stack[n]))
      BY DEF Replaced
    <2> HIDE DEF new, n
    <2>3. Levels(new) /\ Len(new) = Len(stack) /\ new[n] # <<>> /\ \A m \in 1..Len(stack) : m # n => new[m] = stack[m]
      BY <2>1, <2>2, NextOne
    <2>4. Len(stack) = n
      BY DEF n
    <2>5. Based(new) /\ Full(new)
      BY <1>3, <2>1, <2>3, <2>4 DEF Based, Full, Last
    <2> QED
      BY <1>1, <2>5 DEF StackOK
  <1> HIDE DEF new
  <1>5. sp \in Streams /\ Now = [sp |-> sp, fds |-> fds]
    BY <1>2 DEF Now
  <1>6. Sound(st.sp, st.fds, cmd.fd) /\ Kin(st.sp, sp) /\ (NoChdir(sp) => st.sp.cwd = sp.cwd)
    BY <1>2, <1>5, RestoreSound
  <1>7. (sp' = sp /\ fds' = fds) \/ (sp' = [st.sp EXCEPT !.counter = 0, !.seen = NONE] /\ fds' = st.fds)
    BY DEF ReadNext
  <1> HIDE DEF st
  <1>8. st.sp.options = sp.options /\ st.sp.dirp = sp.dirp /\ st.sp \in Streams
    BY <1>5, <1>6, KinFacts DEF Sound
  <1>9. CASE sp' = sp /\ fds' = fds
    <2>1. Sound(sp', fds', cmd.fd)
      BY <1>2, <1>9
    <2> QED
      BY <1>1, <1>2, <1>4, <1>9, <2>1, KinStep DEF TypedOK, Current
  <1>10. CASE sp' = [st.sp EXCEPT !.counter = 0, !.seen = NONE] /\ fds' = st.fds
    <2>1. sp' \in Streams /\ sp'.cwd = st.sp.cwd /\ sp'.ring = st.sp.ring /\ sp'.dirp = st.sp.dirp /\ sp'.options = st.sp.options
      <3> DEFINE t == st.sp
      <3>1. t \in Streams /\ sp' = [t EXCEPT !.counter = 0, !.seen = NONE]
        BY <1>8, <1>10
      <3> HIDE DEF t
      <3>2. sp' \in Streams /\ sp'.cwd = t.cwd /\ sp'.ring = t.ring /\ sp'.dirp = t.dirp /\ sp'.options = t.options
        <4>1. 0 \in Nat /\ NONE \in Int
          BY DEF NONE
        <4> QED
          BY <3>1, <4>1, StreamChanged
      <3> QED
        BY <3>2 DEF t
    <2>2. Sound(sp', fds', cmd.fd)
      BY <1>6, <1>10, <2>1, CalmSound
    <2> QED
      BY <1>1, <1>2, <1>4, <1>6, <1>8, <2>1, <2>2, KinStep DEF TypedOK, Current
  <1> QED
    BY <1>7, <1>9, <1>10

\* fts_read() goes up to the parent.
LEMMA ReadUpOK ==
  ASSUME FtsOK, ReadUp
  PROVE  FtsOK'
  <1>1. pc = "read" /\ UNCHANGED <<fs, build, args, cmd, log>>
    BY DEF ReadUp, Reading, Keep
  <1>2. FsOK /\ TypedOK /\ Sound(sp, fds, cmd.fd) /\ StackOK /\ PcOK /\ ArgsOK /\ pc \in Current /\ sp \in Streams
    BY <1>1 DEF FtsOK, Current, Sound
  <1>3. Len(stack) \in Nat \ {0} /\ Based(stack) /\ Full(stack)
    BY <1>2, Found
  <1>4. CASE Len(stack) = 1
    <2>1. stack' = <<>> /\ pc' = "null" /\ sp' = [sp EXCEPT !.errno = FALSE] /\ UNCHANGED <<fds, faults>>
      BY <1>4 DEF ReadUp
    <2>2. Calm
      BY <1>2, <2>1 DEF Streams, Calm
    <2>3. StackOK'
      BY <2>1 DEF StackOK, Based, Levels, Current
    <2> QED
      BY <1>1, <1>2, <2>1, <2>2, <2>3, FsKept, CalmStep DEF Current, TypedOK
  <1>5. CASE Len(stack) # 1
    <2> DEFINE dotdot == Level(parent) > 0 /\ ~parent.dontchdir /\ ~NoChdir(sp)
    <2>0. Len(stack) >= 2
      <3>1. Len(stack) \in Nat /\ Len(stack) >= 1
        BY <1>3
      <3> QED
        BY <1>5, <3>1
    <2>1. PICK failed \in BOOLEAN :
            LET p == Visited([parent EXCEPT !.error = @ \/ failed])
            IN  /\ MayFail(failed) /\ (failed => dotdot)
                /\ stack' = [Front(stack) EXCEPT ![Len(stack) - 1] = <<p>> \o Tail(@)]
                /\ IF failed THEN sp' = [sp EXCEPT !.stop = TRUE, !.errno = TRUE] /\ UNCHANGED fds
                   ELSE Becomes(IF Level(parent) = 0 THEN RESTORE_INITIAL_CWD(Now)
                                ELSE IF dotdot THEN fts_safe_changedir(Now) ELSE Now)
                /\ pc' = IF failed THEN "null" ELSE IF p.error THEN "got" ELSE Return(parent)
      BY <1>5 DEF ReadUp
    <2> DEFINE p == Visited([parent EXCEPT !.error = @ \/ failed])
               n == Len(stack) - 1
               front == Front(stack)
    <2>2. faults' \in 0..MaxFaults /\ pc' \in {"null", "got", "crash"}
      BY <1>2, <2>1, FtsAssumption DEF MayFail, TypedOK, Return
    <2>3. parent \in EntrySet /\ Len(parent.path) = n /\ n \in Nat \ {0} /\ Len(stack) >= 2
      <3>1. n = Len(stack) - 1
        OBVIOUS
      <3> HIDE DEF n
      <3> QED
        BY <1>3, <2>0, <3>1, ParentFacts
    <2>4. p \in EntrySet /\ Len(p.path) = n
      <3> DEFINE q == [parent EXCEPT !.error = @ \/ failed]
      <3>1. q \in EntrySet /\ q.path = parent.path
        BY <2>3 DEF EntrySet
      <3> HIDE DEF q
      <3> DEFINE info == IF q.error THEN "ERR" ELSE "DP"
      <3>2. info \in Infos
        BY DEF Infos
      <3>3. p = [q EXCEPT !.info = info]
        BY DEF q, Visited
      <3> HIDE DEF p, n, info
      <3> QED
        BY <2>3, <3>1, <3>2, <3>3, EntryChanged
    <2>5. Based(front) /\ Len(front) = n /\ Full(front)
      BY <1>3, <2>3, FrontBased
    <2> HIDE DEF p
    <2>6. Replaced(stack', front, n, <<p>> \o Tail(front[n]))
      BY <2>1 DEF Replaced, p
    <2> HIDE DEF front, n
    <2>7. Based(stack') /\ Full(stack')
      <3>1. n \in 1..Len(front) /\ front[n] # <<>>
        BY <2>3, <2>5 DEF Full, Last
      <3> QED
        BY <2>4, <2>5, <2>6, <3>1, HeadSetBased
    <2>8. StackOK'
      BY <2>2, <2>7 DEF StackOK
    <2>9. CASE failed
      <3>1. sp' = [sp EXCEPT !.stop = TRUE, !.errno = TRUE] /\ fds' = fds
        BY <2>1, <2>9
      <3>2. Calm
        BY <1>2, <3>1 DEF Streams, Calm
      <3> QED
        BY <1>1, <1>2, <2>2, <2>8, <3>1, <3>2, FsKept, CalmStep DEF Current, TypedOK
    <2>10. CASE ~failed
      <3> DEFINE restored == RESTORE_INITIAL_CWD(Now)
                 changed == fts_safe_changedir(Now)
      <3>1. Now = [sp |-> sp, fds |-> fds]
        BY DEF Now
      <3>2. Sound(restored.sp, restored.fds, cmd.fd) /\ Kin(restored.sp, sp) /\ (NoChdir(sp) => restored.sp.cwd = sp.cwd)
        BY <1>2, <3>1, RestoreSound
      <3>3. Sound(changed.sp, changed.fds, cmd.fd) /\ Kin(changed.sp, sp) /\ (NoChdir(sp) => changed.sp.cwd = sp.cwd)
        BY <1>2, ChangedirSound
      <3>4. \/ sp' = restored.sp /\ fds' = restored.fds
            \/ sp' = changed.sp /\ fds' = changed.fds
            \/ sp' = sp /\ fds' = fds
        BY <2>1, <2>10, <3>1 DEF Becomes
      <3> HIDE DEF restored, changed
      <3>5. restored.sp.options = sp.options /\ restored.sp.dirp = sp.dirp /\ changed.sp.options = sp.options /\ changed.sp.dirp = sp.dirp
        BY <1>2, <3>2, <3>3, KinFacts
      <3>6. Sound(sp', fds', cmd.fd) /\ sp'.options = sp.options /\ sp'.dirp = sp.dirp /\ (NoChdir(sp) => sp'.cwd = sp.cwd)
        <4>1. CASE sp' = restored.sp /\ fds' = restored.fds
          BY <3>2, <3>5, <4>1
        <4>2. CASE sp' = changed.sp /\ fds' = changed.fds
          BY <3>3, <3>5, <4>2
        <4>3. CASE sp' = sp /\ fds' = fds
          BY <1>2, <4>3
        <4> QED
          BY <3>4, <4>1, <4>2, <4>3
      <3> QED
        BY <1>1, <2>2, <2>8, <3>6, KinStep DEF Current
    <2> QED
      BY <2>9, <2>10
  <1> QED
    BY <1>4, <1>5

\* fts_build() goes back when it has read a directory.
LEMMA BuildBackOK ==
  ASSUME FtsOK, BuildBack
  PROVE  FtsOK'
  <1> DEFINE nitems == Len(Last(stack))
             up == GoesBack(nitems) /\ Level(parent) > 0 /\ ~NoChdir(sp)
             p == [parent EXCEPT !.info = IF parent.error THEN "ERR" ELSE @]
             n == Len(stack) - 1
             front == Front(stack)
  <1>1. pc = "back" /\ UNCHANGED <<fs, build, args, cmd, log>>
    BY DEF BuildBack, Keep
  <1>2. FsOK /\ TypedOK /\ Sound(sp, fds, cmd.fd) /\ StackOK /\ PcOK /\ ArgsOK /\ sp \in Streams
    BY DEF FtsOK, Sound
  <1>3. Based(stack) /\ Len(stack) >= 2
    BY <1>1, <1>2 DEF StackOK
  <1>4. parent \in EntrySet /\ Len(parent.path) = n /\ n \in Nat \ {0} /\ Len(stack) \in Nat
    <2>1. n = Len(stack) - 1
      OBVIOUS
    <2> HIDE DEF n
    <2> QED
      BY <1>3, <2>1, ParentFacts
  <1>5. PICK failed \in BOOLEAN :
          /\ MayFail(failed) /\ (failed => up)
          /\ IF failed
             THEN stack' = Front(stack) /\ sp' = [sp EXCEPT !.stop = TRUE, !.errno = TRUE] /\ pc' = "null" /\ UNCHANGED fds
             ELSE /\ Becomes(IF ~GoesBack(nitems) THEN Now ELSE IF up THEN fts_safe_changedir(Now) ELSE RESTORE_INITIAL_CWD(Now))
                  /\ IF nitems > 0 THEN pc' = "check" /\ UNCHANGED stack
                     ELSE stack' = [Front(stack) EXCEPT ![Len(stack) - 1] = <<p>> \o Tail(@)] /\ pc' = Return(parent)
    BY DEF BuildBack
  <1>6. Based(front) /\ Len(front) = n /\ Full(front)
    BY <1>3, FrontBased
  <1>7. faults' \in 0..MaxFaults
    BY <1>2, <1>5, FtsAssumption DEF MayFail, TypedOK
  <1>8. p \in EntrySet /\ Len(p.path) = n
    BY <1>4 DEF EntrySet, Infos
  <1> HIDE DEF p, n, up
  <1>9. StackOK' /\ pc' \in {"null", "check", "got", "crash"}
    <2>1. CASE failed
      BY <1>5, <1>6, <2>1 DEF StackOK, Current
    <2>2. CASE ~failed /\ nitems > 0
      <3>1. Full(stack)
        <4>1. Last(stack) # <<>>
          BY <2>2
        <4> QED
          BY <1>3, <1>4, <4>1 DEF Full
      <3> QED
        BY <1>2, <1>5, <2>2, <3>1 DEF StackOK
    <2>3. CASE ~failed /\ ~(nitems > 0)
      <3>1. Replaced(stack', front, n, <<p>> \o Tail(front[n])) /\ pc' \in {"got", "crash"}
        BY <1>5, <2>3 DEF Replaced, n, Return
      <3> HIDE DEF front
      <3>2. n \in 1..Len(front) /\ front[n] # <<>>
        BY <1>4, <1>6 DEF Full, Last
      <3>3. Based(stack') /\ Full(stack')
        BY <1>6, <1>8, <3>1, <3>2, HeadSetBased
      <3> QED
        BY <3>1, <3>3 DEF StackOK
    <2> QED
      BY <2>1, <2>2, <2>3
  <1> HIDE DEF front
  <1>10. Sound(sp', fds', cmd.fd) /\ sp'.options = sp.options /\ sp'.dirp = sp.dirp /\ (NoChdir(sp) => sp'.cwd = sp.cwd)
    <2>1. CASE failed
      <3>1. sp' = [sp EXCEPT !.stop = TRUE, !.errno = TRUE] /\ fds' = fds
        BY <1>5, <2>1
      <3>2. sp' \in Streams /\ sp'.options = sp.options /\ sp'.dirp = sp.dirp /\ sp'.cwd = sp.cwd /\ sp'.ring = sp.ring
        BY <1>2, <3>1 DEF Streams
      <3> QED
        BY <1>2, <3>1, <3>2, CalmSound
    <2>2. CASE ~failed
      <3> DEFINE restored == RESTORE_INITIAL_CWD(Now)
                 changed == fts_safe_changedir(Now)
      <3>1. Now = [sp |-> sp, fds |-> fds]
        BY DEF Now
      <3>2. Sound(restored.sp, restored.fds, cmd.fd) /\ Kin(restored.sp, sp) /\ (NoChdir(sp) => restored.sp.cwd = sp.cwd)
        BY <1>2, <3>1, RestoreSound
      <3>3. Sound(changed.sp, changed.fds, cmd.fd) /\ Kin(changed.sp, sp) /\ (NoChdir(sp) => changed.sp.cwd = sp.cwd)
        BY <1>2, ChangedirSound
      <3>4. \/ sp' = restored.sp /\ fds' = restored.fds
            \/ sp' = changed.sp /\ fds' = changed.fds
        BY <1>5, <2>2, <3>1 DEF Becomes, GoesBack
      <3> HIDE DEF restored, changed
      <3>5. restored.sp.options = sp.options /\ restored.sp.dirp = sp.dirp /\ changed.sp.options = sp.options /\ changed.sp.dirp = sp.dirp
        BY <1>2, <3>2, <3>3, KinFacts
      <3>6. CASE sp' = restored.sp /\ fds' = restored.fds
        BY <3>2, <3>5, <3>6
      <3>7. CASE sp' = changed.sp /\ fds' = changed.fds
        BY <3>3, <3>5, <3>7
      <3> QED
        BY <3>4, <3>6, <3>7
    <2> QED
      BY <2>1, <2>2
  <1> QED
    BY <1>1, <1>7, <1>9, <1>10, KinStep DEF Current

\* fts_read() examines an entry that was put off.
LEMMA CheckForDirOK ==
  ASSUME FtsOK, CheckForDir
  PROVE  FtsOK'
  <1> DEFINE p == fts_stat(sp, cur)
             t == SetCur(p)
             n == Len(stack)
             counted == [t EXCEPT ![n - 1] = <<Fewer(Head(@))>> \o Tail(@)]
  <1>1. pc = "check" /\ UNCHANGED <<sp, fds, fs, build, args, cmd, log>>
    BY DEF CheckForDir, Keep
  <1>2. FsOK /\ TypedOK /\ StackOK /\ pc \in Current /\ sp \in Streams /\ faults \in 0..MaxFaults
    BY <1>1 DEF FtsOK, Current, Sound, TypedOK
  <1>3. /\ pc' \in {"enter", "crash"} /\ faults' \in 0..MaxFaults
        /\ \/ stack' = stack \/ stack' = t
           \/ Level(p) > 0 /\ parent.dirs > 0 /\ stack' = counted
    <2>1. PICK nomemory \in BOOLEAN : MayFail(nomemory)
      BY DEF CheckForDir
    <2>2. faults' \in 0..MaxFaults
      BY <1>2, <2>1, FtsAssumption DEF MayFail
    <2> QED
      BY <2>2 DEF CheckForDir
  <1>4. cur \in EntrySet /\ Len(cur.path) = n /\ n \in Nat \ {0} /\ Based(stack) /\ Full(stack) /\ DirOf(sp.cwd) \in DOMAIN fs
    BY <1>2, Found
  <1>5. p \in EntrySet /\ Len(p.path) = n
    BY <1>2, <1>4, StatFacts
  <1>6. Based(t) /\ Full(t) /\ Len(t) = n /\ \A l \in 1..(n - 1) : t[l] = stack[l]
    BY <1>4, <1>5, SetCurFacts
  <1> HIDE DEF t
  <1>7. StackOK'
    <2>1. CASE stack' = stack \/ stack' = t
      BY <1>3, <1>4, <1>6, <2>1 DEF StackOK
    <2>2. CASE ~(stack' = stack \/ stack' = t)
      <3> DEFINE m == n - 1
                 q == Fewer(parent)
      <3>1. Level(p) > 0 /\ parent.dirs > 0 /\ stack' = [t EXCEPT ![m] = <<Fewer(Head(t[m]))>> \o Tail(t[m])]
        <4> HIDE DEF p, counted
        <4>1. Level(p) > 0 /\ parent.dirs > 0 /\ stack' = counted
          BY <1>3, <2>2
        <4> QED
          BY <4>1 DEF counted
      <3>2. n >= 2
        BY <1>4, <1>5, <3>1 DEF Level
      <3>3. m \in 1..Len(stack) /\ stack[m] # <<>> /\ parent = Head(stack[m]) /\ parent \in EntrySet /\ Len(parent.path) = m
        <4>1. m = Len(stack) - 1
          OBVIOUS
        <4> HIDE DEF m, n
        <4> QED
          BY <1>4, <3>2, <4>1, ParentFacts DEF n
      <3>4. t[m] = stack[m] /\ m \in 1..Len(t)
        BY <1>4, <1>6, <3>2
      <3>5. q \in EntrySet /\ Len(q.path) = m
        <4>1. parent.dirs \in Nat /\ parent.dirs - 1 \in Nat
          BY <3>1, <3>3 DEF EntrySet
        <4> QED
          BY <3>3, <4>1 DEF EntrySet, Fewer
      <3> HIDE DEF m
      <3>6. stack' = [t EXCEPT ![m] = <<q>> \o Tail(t[m])]
        BY <3>1, <3>3, <3>4
      <3> HIDE DEF q
      <3>7. Replaced(stack', t, m, <<q>> \o Tail(t[m]))
        BY <3>6 DEF Replaced
      <3>8. Based(stack') /\ Full(stack')
        BY <1>6, <3>3, <3>4, <3>5, <3>7, HeadSetBased
      <3> QED
        BY <1>3, <3>8 DEF StackOK
    <2> QED
      BY <2>1, <2>2
  <1> QED
    BY <1>1, <1>2, <1>3, <1>7, FsKept, CalmStep DEF Current, Calm, TypedOK

\* fts_read() looks for a cycle.
LEMMA EnterDirOK ==
  ASSUME FtsOK, enter_dir
  PROVE  FtsOK'
  <1> DEFINE q == [cur EXCEPT !.info = "DC"]
  <1>1. pc = "enter" /\ UNCHANGED <<fds, fs, build, args, cmd, log>>
    BY DEF enter_dir, Keep
  <1>2. FsOK /\ TypedOK /\ StackOK /\ pc \in Current /\ sp \in Streams /\ cmd \in CmdSet /\ faults \in 0..MaxFaults
    BY <1>1 DEF FtsOK, Current, Sound, TypedOK
  <1>3. cur \in EntrySet /\ Len(cur.path) = Len(stack)
    BY <1>2, Found
  <1>4. q \in EntrySet /\ Len(q.path) = Len(stack)
    <2>1. "DC" \in Infos
      BY DEF Infos
    <2> QED
      BY <1>3, <2>1, EntryChanged
  <1>5. /\ pc' \in {"got", "crash", "null"} /\ (stack' = stack \/ stack' = SetCur(q)) /\ faults' \in 0..MaxFaults
        /\ sp' = sp \/ sp' = Counted(sp, cur.ino) \/ \E e \in BOOLEAN : sp' = [sp EXCEPT !.errno = e]
    BY <1>2, FtsAssumption DEF enter_dir, MayFail
  <1>6. StackOK'
    BY <1>2, <1>4, <1>5, CurReplaced, StackKept
  <1>7. Calm
    <2>1. CASE sp' = Counted(sp, cur.ino)
      <3> DEFINE b == IF is_zero_or_power_of_two(sp.counter + 1) THEN cur.ino ELSE sp.seen
      <3>1. cur.ino \in Int
        BY <1>3 DEF EntrySet
      <3>2. b \in Int
        BY <1>2, <3>1 DEF Streams
      <3> DEFINE c == sp.counter + 1
      <3>3. c \in Nat /\ sp' = [sp EXCEPT !.counter = c, !.seen = b]
        BY <1>2, <2>1 DEF Counted, Streams
      <3> HIDE DEF b, c
      <3> QED
        BY <1>2, <3>2, <3>3, StreamChanged DEF Calm
    <2>2. CASE sp' = sp \/ \E e \in BOOLEAN : sp' = [sp EXCEPT !.errno = e]
      BY <1>2, <2>2 DEF Streams, Calm
    <2> QED
      BY <1>5, <2>1, <2>2
  <1> QED
    BY <1>1, <1>2, <1>5, <1>6, <1>7, FsKept, CalmStep DEF Current

\* The program drops the entry it has been asked to skip.
LEMMA DiscardOK ==
  ASSUME FtsOK, Discard
  PROVE  FtsOK'
  <1>1. pc = "got" /\ pc' = "read" /\ UNCHANGED <<fds, fs, build, args, cmd, log, stack, faults>> /\ sp' = [sp EXCEPT !.discard = FALSE]
    BY DEF Discard, Keep
  <1>2. FsOK /\ TypedOK /\ StackOK /\ pc \in Current /\ sp \in Streams
    BY <1>1 DEF FtsOK, Current, Sound
  <1>3. Calm
    BY <1>1, <1>2 DEF Streams, Calm
  <1> QED
    BY <1>1, <1>2, <1>3, StackKept, FsKept, CalmStep DEF Current, TypedOK

-----------------------------------------------------------------------------
(* Files change.                                                            *)

LEMMA WithoutFacts ==
  ASSUME NEW S, NEW ents \in Seq(S), NEW name
  PROVE  Without(ents, name) \in Seq(S)
  <1>1. CASE \E k \in DOMAIN ents : ents[k].name = name
    <2> DEFINE k == CHOOSE k \in DOMAIN ents : ents[k].name = name
               n == Len(ents)
    <2>1. k \in 1..n /\ n \in Nat /\ \A i \in 1..n : ents[i] \in S
      BY <1>1
    <2>2. Without(ents, name) = SubSeq(ents, 1, k - 1) \o SubSeq(ents, k + 1, n)
      BY <1>1 DEF Without, RemoveAt
    <2> HIDE DEF k, n
    <2>3. k - 1 \in Int /\ k + 1 \in Int /\ n \in Int /\ (\A i \in 1..(k - 1) : ents[i] \in S) /\ \A i \in (k + 1)..n : ents[i] \in S
      BY <2>1
    <2>4. SubSeq(ents, 1, k - 1) \in Seq(S)
      <3> DEFINE a == k - 1
      <3>1. a \in Int /\ 1 \in Int /\ \A i \in 1..a : ents[i] \in S
        BY <2>3
      <3> HIDE DEF a
      <3>2. SubSeq(ents, 1, a) \in Seq(S)
        BY <3>1, SubSeqProperties
      <3> QED
        BY <3>2 DEF a
    <2>5. SubSeq(ents, k + 1, n) \in Seq(S)
      <3> DEFINE b == k + 1
      <3>1. b \in Int /\ \A i \in b..n : ents[i] \in S
        BY <2>3
      <3> HIDE DEF b
      <3>2. SubSeq(ents, b, n) \in Seq(S)
        BY <2>3, <3>1, SubSeqProperties
      <3> QED
        BY <3>2 DEF b
    <2> DEFINE before == SubSeq(ents, 1, k - 1)
               after == SubSeq(ents, k + 1, n)
    <2> HIDE DEF before, after
    <2>6. before \o after \in Seq(S)
      BY <2>4, <2>5 DEF before, after
    <2> QED
      BY <2>2, <2>6 DEF before, after
  <1>2. CASE ~\E k \in DOMAIN ents : ents[k].name = name
    BY <1>2 DEF Without
  <1> QED
    BY <1>1, <1>2

\* Whatever names and owners become, files are of the kind they were.
SameFiles ==
  /\ FsOK' /\ Dirs' = Dirs /\ DOMAIN fs' = DOMAIN fs
  /\ \A i \in DOMAIN fs : fs'[i].kind = fs[i].kind /\ fs'[i].wr = fs[i].wr /\ fs'[i].rd = fs[i].rd

\* A change that leaves kind, permissions and parents alone keeps the file system.
LEMMA FilesKept ==
  ASSUME FsOK, DOMAIN fs' = DOMAIN fs, fs' \in [DOMAIN fs -> Files(DOMAIN fs)],
         \A i \in DOMAIN fs : fs'[i].kind = fs[i].kind /\ fs'[i].wr = fs[i].wr /\ fs'[i].rd = fs[i].rd /\ fs'[i].up = fs[i].up
  PROVE  SameFiles
  <1>1. /\ {Root, Cwd} \cup Spare \subseteq DOMAIN fs /\ DOMAIN fs \subseteq Nat
        /\ fs[Cwd].kind = "dir"
        /\ \A i \in DOMAIN fs : fs[i].kind = "dir" => fs[i].up \in DOMAIN fs /\ fs[fs[i].up].kind = "dir"
    BY DEF FsOK
  <1>2. Dirs' = Dirs
    BY DEF Dirs
  <1>3. /\ {Root, Cwd} \cup Spare \subseteq DOMAIN fs' /\ DOMAIN fs' \subseteq Nat
        /\ fs'[Cwd].kind = "dir"
        /\ \A i \in DOMAIN fs' : fs'[i].kind = "dir" => fs'[i].up \in DOMAIN fs' /\ fs'[fs'[i].up].kind = "dir"
    BY <1>1
  <1>4. FsOK'
    BY <1>3 DEF FsOK
  <1> QED
    BY <1>2, <1>4 DEF SameFiles

\* So does a change of the entries of a directory.
LEMMA NamesChanged ==
  ASSUME FsOK, NEW d \in DOMAIN fs, NEW ents \in Seq([name : STRING, ino : DOMAIN fs]), fs' = [fs EXCEPT ![d].ents = ents]
  PROVE  SameFiles
  <1> DEFINE D == DOMAIN fs
             f == [fs[d] EXCEPT !.ents = ents]
  <1>1. fs' = [fs EXCEPT ![d] = f] /\ fs[d] \in Files(D)
    BY DEF FsOK
  <1>2. f \in Files(D) /\ f.kind = fs[d].kind /\ f.wr = fs[d].wr /\ f.rd = fs[d].rd /\ f.up = fs[d].up
    <2> DEFINE Named == Seq([name : STRING, ino : D])
               b == fs[d]
    <2>1. ents \in Named /\ b \in [kind : Kinds, ents : Named, to : D \cup {NONE}, up : D \cup {NONE},
                                   own : [u : Int, g : Int], rd : BOOLEAN, wr : BOOLEAN]
      BY <1>1 DEF Files
    <2> HIDE DEF Named, b
    <2>2. [b EXCEPT !.ents = ents] \in [kind : Kinds, ents : Named, to : D \cup {NONE}, up : D \cup {NONE},
                                         own : [u : Int, g : Int], rd : BOOLEAN, wr : BOOLEAN]
      BY <2>1
    <2>3. [b EXCEPT !.ents = ents] \in Files(D)
      BY <2>2 DEF Files, Named
    <2>4. [b EXCEPT !.ents = ents].kind = b.kind /\ [b EXCEPT !.ents = ents].wr = b.wr /\ [b EXCEPT !.ents = ents].rd = b.rd /\ [b EXCEPT !.ents = ents].up = b.up
      BY <2>1
    <2> QED
      BY <2>3, <2>4 DEF b
  <1> HIDE DEF f
  <1>3. fs \in [D -> Files(D)]
    BY DEF FsOK
  <1>4. DOMAIN fs' = D /\ fs' \in [D -> Files(D)]
    BY <1>1, <1>2, <1>3
  <1>5. \A i \in D : fs'[i].kind = fs[i].kind /\ fs'[i].wr = fs[i].wr /\ fs'[i].rd = fs[i].rd /\ fs'[i].up = fs[i].up
    BY <1>1, <1>2, <1>3
  <1> QED
    BY <1>4, <1>5, FilesKept

\* So does a change of an owner.
LEMMA OwnerChanged ==
  ASSUME FsOK, NEW d \in DOMAIN fs, NEW own \in OwnerSet, fs' = [fs EXCEPT ![d].own = own]
  PROVE  SameFiles
  <1> DEFINE D == DOMAIN fs
             f == [fs[d] EXCEPT !.own = own]
  <1>1. fs' = [fs EXCEPT ![d] = f] /\ fs[d] \in Files(D)
    BY DEF FsOK
  <1>2. f \in Files(D) /\ f.kind = fs[d].kind /\ f.wr = fs[d].wr /\ f.rd = fs[d].rd /\ f.up = fs[d].up
    <2> DEFINE Named == Seq([name : STRING, ino : D])
               b == fs[d]
    <2>1. own \in OwnerSet /\ b \in [kind : Kinds, ents : Named, to : D \cup {NONE}, up : D \cup {NONE},
                                     own : OwnerSet, rd : BOOLEAN, wr : BOOLEAN]
      BY <1>1 DEF Files, OwnerSet
    <2> HIDE DEF Named, b
    <2>2. [b EXCEPT !.own = own] \in [kind : Kinds, ents : Named, to : D \cup {NONE}, up : D \cup {NONE},
                                       own : OwnerSet, rd : BOOLEAN, wr : BOOLEAN]
      BY <2>1
    <2>3. [b EXCEPT !.own = own] \in Files(D)
      BY <2>2 DEF Files, Named, OwnerSet
    <2>4. [b EXCEPT !.own = own].kind = b.kind /\ [b EXCEPT !.own = own].wr = b.wr /\ [b EXCEPT !.own = own].rd = b.rd /\ [b EXCEPT !.own = own].up = b.up
      BY <2>1
    <2> QED
      BY <2>3, <2>4 DEF b
  <1> HIDE DEF f
  <1>3. fs \in [D -> Files(D)]
    BY DEF FsOK
  <1>4. DOMAIN fs' = D /\ fs' \in [D -> Files(D)]
    BY <1>1, <1>2, <1>3
  <1>5. \A i \in D : fs'[i].kind = fs[i].kind /\ fs'[i].wr = fs[i].wr /\ fs'[i].rd = fs[i].rd /\ fs'[i].up = fs[i].up
    BY <1>1, <1>2, <1>3
  <1> QED
    BY <1>4, <1>5, FilesKept

\* The operands are names.
LEMMA OpsTyped ==
  ASSUME ArgsOK
  PROVE  args.ops \in Seq(STRING) /\ args.prog \in {"rm", "chown", "chgrp"}
  <1> DEFINE S == Seq(STRING)
  <1>1. args \in RmArgs => args.ops \in S /\ args.prog = "rm"
    BY DEF RmArgs
  <1>2. args \in ChownArgs(ChoptSet) => args.ops \in S /\ args.prog \in {"chown", "chgrp"}
    BY DEF ChownArgs
  <1>3. args \in ChownArgs(FinalSet) => args.ops \in S /\ args.prog \in {"chown", "chgrp"}
    BY DEF ChownArgs
  <1> HIDE DEF S
  <1>4. args.ops \in S /\ args.prog \in {"rm", "chown", "chgrp"}
    BY <1>1, <1>2, <1>3 DEF ArgsOK
  <1> QED
    BY <1>4 DEF S

\* Another process keeps the file system in order.
LEMMA WorldFiles ==
  ASSUME FtsOK, World
  PROVE  SameFiles
  <1>1. FsOK /\ ArgsOK
    BY DEF FtsOK
  <1> DEFINE D == DOMAIN fs
             Named == [name : STRING, ino : D]
  <1>2. args.ops \in Seq(STRING) /\ Cwd \in D /\ fs[Cwd].ents \in Seq(Named) /\ Spare \subseteq D
    BY <1>1, OpsTyped DEF FsOK, Files
  <1>3. Range(args.ops) \subseteq STRING
    <2> DEFINE S == STRING
               ops == args.ops
    <2>1. ops \in Seq(S)
      BY <1>2
    <2> HIDE DEF S, ops
    <2>2. Range(ops) \subseteq S
      BY <2>1 DEF Range
    <2> QED
      BY <2>2 DEF S, ops
  <1>4. PICK name \in Range(args.ops) :
       \/ \E j \in Spare \cup {NONE} :
            LET other == Without(fs[Cwd].ents, name)
            IN  /\ Find(fs, Cwd, name) # j
                /\ fs' = [fs EXCEPT ![Cwd].ents = IF j = NONE THEN other ELSE Append(other, [name |-> name, ino |-> j])]
       \/ /\ Find(fs, Cwd, name) # NONE
          /\ fs' = [fs EXCEPT ![Find(fs, Cwd, name)].own = [u |-> 0, g |-> 0]] /\ fs' # fs
    BY DEF World
  <1> DEFINE other == Without(fs[Cwd].ents, name)
  <1>5. ASSUME NEW j \in Spare \cup {NONE},
               fs' = [fs EXCEPT ![Cwd].ents = IF j = NONE THEN other ELSE Append(other, [name |-> name, ino |-> j])]
        PROVE  SameFiles
    <2> DEFINE new == IF j = NONE THEN other ELSE Append(other, [name |-> name, ino |-> j])
               e == [name |-> name, ino |-> j]
    <2>1. other \in Seq(Named)
      <3> DEFINE ents == fs[Cwd].ents
      <3>1. ents \in Seq(Named)
        BY <1>2
      <3> HIDE DEF ents, Named
      <3>2. Without(ents, name) \in Seq(Named)
        BY <3>1, WithoutFacts
      <3> QED
        BY <3>2 DEF ents
    <2>2. CASE j = NONE
      <3>1. fs' = [fs EXCEPT ![Cwd].ents = other]
        BY <1>5, <2>2
      <3> HIDE DEF other
      <3> QED
        BY <1>1, <1>2, <2>1, <3>1, NamesChanged
    <2>3. CASE j # NONE
      <3>1. e \in Named
        BY <1>2, <1>3, <2>3
      <3> DEFINE longer == Append(other, e)
      <3>2. longer \in Seq(Named)
        <4> HIDE DEF other, e, Named
        <4> QED
          BY <2>1, <3>1
      <3>3. fs' = [fs EXCEPT ![Cwd].ents = longer]
        BY <1>5, <2>3
      <3> HIDE DEF longer
      <3> QED
        BY <1>1, <1>2, <3>2, <3>3, NamesChanged
    <2> QED
      BY <2>2, <2>3
  <1>6. ASSUME Find(fs, Cwd, name) # NONE, fs' = [fs EXCEPT ![Find(fs, Cwd, name)].own = [u |-> 0, g |-> 0]]
        PROVE  SameFiles
    <2> DEFINE d == Find(fs, Cwd, name)
               own == [u |-> 0, g |-> 0]
    <2>1. d \in D /\ own \in OwnerSet /\ fs' = [fs EXCEPT ![d].own = own]
      BY <1>1, <1>2, <1>6, FindFacts DEF OwnerSet
    <2> HIDE DEF d, own
    <2> QED
      BY <1>1, <2>1, OwnerChanged
  <1> QED
    BY <1>4, <1>5, <1>6

\* Another process does not disturb the walk.
LEMMA WorldOK ==
  ASSUME FtsOK, World
  PROVE  FtsOK'
  <1>1. SameFiles
    BY WorldFiles
  <1>2. UNCHANGED <<pc, build, sp, fds, stack, args, cmd, log>> /\ faults > 0 /\ faults' = faults - 1
    BY DEF World
  <1>3. FsOK /\ TypedOK /\ Sound(sp, fds, cmd.fd) /\ StackOK /\ PcOK /\ ArgsOK
    BY DEF FtsOK
  <1>4. Sound(sp, fds, cmd.fd)'
    <2>1. Sound(sp', fds', cmd'.fd)
      BY <1>2, <1>3
    <2> QED
      BY <1>1, <2>1, SoundNext DEF SameFiles
  <1>5. TypedOK'
    BY <1>2, <1>3, FtsAssumption DEF TypedOK
  <1>6. StackOK' /\ PcOK' /\ ArgsOK'
    BY <1>1, <1>2, <1>3 DEF StackOK, PcOK, ArgsOK, NoChdir, SameFiles
  <1> QED
    BY <1>1, <1>4, <1>5, <1>6 DEF FtsOK, SameFiles

-----------------------------------------------------------------------------
(* A walk begins and ends.                                                  *)

\* The stream at the start.
LEMMA NoStreamFacts ==
  /\ NoStream \in Streams /\ NoStream.cwd = AT_FDCWD /\ ~(NoStream.dirp >= 0) /\ ~NoChdir(NoStream)
  /\ i_ring_init \in Rings /\ \A i \in Slots : i_ring_init.data[i] = NONE
  <1> DEFINE none == [i \in Slots |-> NONE]
  <1>1. none \in [Slots -> Int] /\ \A i \in Slots : none[i] = NONE
    BY DEF NONE
  <1>2. i_ring_init = [data |-> none, front |-> 0, back |-> 0, empty |-> TRUE]
    BY DEF i_ring_init
  <1> HIDE DEF none
  <1>3. i_ring_init \in Rings /\ i_ring_init.data = none
    BY <1>1, <1>2, SlotFacts DEF Rings
  <1>4. /\ NoStream = [options |-> {}, cwd |-> AT_FDCWD, ring |-> i_ring_init, counter |-> 0, seen |-> NONE, dirp |-> NONE,
                       stop |-> FALSE, errno |-> FALSE, discard |-> FALSE]
        /\ NONE \in Int /\ AT_FDCWD \in Int /\ ~(NONE >= 0)
    BY DEF NoStream, NONE, AT_FDCWD
  <1>5. NoStream \in Streams
    BY <1>3, <1>4 DEF Streams
  <1>6. NoStream.cwd = AT_FDCWD /\ NoStream.dirp = NONE /\ NoStream.options = {}
    BY <1>4
  <1> QED
    BY <1>1, <1>3, <1>4, <1>5, <1>6 DEF NoChdir

\* A stream that has not opened anything is sound without descriptors.
LEMMA NothingOpen ==
  ASSUME NEW s \in Streams, s.cwd = AT_FDCWD, s.dirp = NONE, \A i \in Slots : s.ring.data[i] = NONE
  PROVE  Sound(s, <<>>, NONE)
  <1>1. OpenDirs(<<>>, NONE) /\ DOMAIN <<>> = {}
    <2>1. DOMAIN <<>> = {}
      OBVIOUS
    <2>2. IsFiniteSet({})
      BY FS_EmptySet
    <2> QED
      BY <2>1, <2>2 DEF OpenDirs
  <1>2. ~(NONE >= 0) /\ ~(AT_FDCWD >= 0)
    BY DEF NONE, AT_FDCWD
  <1>3. Exact(s.cwd, s.dirp, NONE, s.ring.data, {})
    BY <1>2 DEF Exact
  <1> QED
    BY <1>1, <1>3 DEF Sound

\* fts_alloc() and, for the first operand, fts_stat().
LEMMA RootFacts ==
  ASSUME NEW name \in Words, NEW info \in Infos
  PROVE  LET p == fts_alloc(<<name>>, info) IN p \in EntrySet /\ Len(p.path) = 1
  <1> DEFINE path == <<name>>
  <1>1. path \in Seq(Words) /\ Len(path) = 1
    OBVIOUS
  <1> HIDE DEF path
  <1>2. NONE \in Int
    BY DEF NONE
  <1>3. fts_alloc(path, info) \in EntrySet /\ fts_alloc(path, info).path = path
    BY <1>1, <1>2 DEF fts_alloc, EntrySet, OwnerSet
  <1> QED
    BY <1>1, <1>3 DEF path

\* fts_open() gives a stream without descriptors and a stack of two levels.
LEMMA OpenFacts ==
  ASSUME FsOK, args.ops \in Seq(STRING), NEW options \in SUBSET Flags, "CWDFD" \in options, fts_open(options)
  PROVE  /\ Sound(sp', <<>>, NONE) /\ sp'.dirp = NONE /\ sp'.cwd = AT_FDCWD
         /\ NoChdir(sp') \/ "CWDFD" \in sp'.options
         /\ Based(stack') /\ Full(stack')
  <1> DEFINE opts == IF "LOGICAL" \in options THEN (options \ {"CWDFD"}) \cup {"NOCHDIR"} ELSE options
             s == [options |-> opts, cwd |-> AT_FDCWD, ring |-> i_ring_init, counter |-> 0, seen |-> NONE, dirp |-> NONE,
                   stop |-> FALSE, errno |-> FALSE, discard |-> FALSE]
             root(i) == IF i = 1 THEN fts_stat(s, fts_alloc(<<args.ops[i]>>, "NSOK")) ELSE fts_alloc(<<args.ops[i]>>, "NSOK")
             first == fts_alloc(<<"">>, "INIT")
             level == <<first>> \o [i \in 1..Len(args.ops) |-> root(i)]
             ops == args.ops
  <1>1. sp' = s /\ stack' = <<level>>
    BY DEF fts_open
  <1>2. opts \subseteq Flags /\ ("NOCHDIR" \in opts \/ "CWDFD" \in opts)
    BY DEF Flags
  <1> HIDE DEF opts
  <1>3. s \in Streams /\ s.cwd = AT_FDCWD /\ s.dirp = NONE /\ s.ring = i_ring_init /\ s.options = opts
    <2>1. i_ring_init \in Rings /\ NONE \in Int /\ AT_FDCWD \in Int
      BY NoStreamFacts DEF NONE, AT_FDCWD
    <2> QED
      BY <1>2, <2>1 DEF Streams
  <1> HIDE DEF s
  <1>4. Sound(s, <<>>, NONE)
    BY <1>3, NoStreamFacts, NothingOpen
  <1>5. DirOf(s.cwd) \in DOMAIN fs
    BY <1>3 DEF DirOf, FsOK
  <1>6. {"INIT", "NSOK"} \subseteq Infos
    BY DEF Infos
  <1>7. Len(ops) \in Nat /\ \A i \in 1..Len(ops) : ops[i] \in Words
    <2> DEFINE S == STRING
    <2>1. ops \in Seq(S) /\ S \subseteq Words
      BY DEF Words
    <2> HIDE DEF S, ops
    <2> QED
      BY <2>1
  <1>8. \A i \in 1..Len(ops) : root(i) \in EntrySet /\ Len(root(i).path) = 1
    <2> TAKE i \in 1..Len(ops)
    <2> DEFINE p == fts_alloc(<<ops[i]>>, "NSOK")
    <2>1. p \in EntrySet /\ Len(p.path) = 1
      BY <1>6, <1>7, RootFacts
    <2> HIDE DEF p
    <2>2. fts_stat(s, p) \in EntrySet /\ Len(fts_stat(s, p).path) = 1
      BY <1>5, <2>1, StatFacts
    <2>3. root(i) = IF i = 1 THEN fts_stat(s, p) ELSE p
      BY DEF p
    <2> HIDE DEF root
    <2> QED
      BY <2>1, <2>2, <2>3
  <1>9. first \in EntrySet /\ Len(first.path) = 1
    <2>1. "" \in Words
      BY DEF Words
    <2> QED
      BY <1>6, <2>1, RootFacts
  <1> HIDE DEF root, first, ops
  <1>10. level \in Seq(EntrySet) /\ level # <<>> /\ \A k \in 1..Len(level) : Len(level[k].path) = 1
    <2> DEFINE rest == [i \in 1..Len(ops) |-> root(i)]
               n == Len(ops)
    <2>1. rest \in Seq(EntrySet) /\ Len(rest) = n /\ n \in Nat /\ \A i \in 1..n : rest[i] = root(i)
      BY <1>7, <1>8
    <2>2. level = <<first>> \o rest
      BY DEF ops
    <2> HIDE DEF rest, n, level
    <2>3. level \in Seq(EntrySet) /\ Len(level) = n + 1 /\ level[1] = first /\ \A k \in 2..(n + 1) : level[k] = rest[k - 1]
      BY <1>9, <2>1, <2>2
    <2>4. ASSUME NEW k \in 1..Len(level)
          PROVE  Len(level[k].path) = 1
      <3>1. CASE k = 1
        BY <1>9, <2>3, <3>1
      <3>2. CASE k # 1
        <4>1. k \in 2..(n + 1) /\ k - 1 \in 1..n
          BY <2>1, <2>3, <3>2
        <4>2. level[k] = root(k - 1)
          BY <2>1, <2>3, <4>1
        <4> QED
          BY <1>8, <4>1, <4>2 DEF n
      <3> QED
        BY <3>1, <3>2
    <2>5. level # <<>>
      BY <2>1, <2>3
    <2> QED
      BY <2>3, <2>4, <2>5
  <1> HIDE DEF level
  <1>11. Based(<<level>>) /\ Full(<<level>>)
    <2> DEFINE SE == Seq(EntrySet)
               st == <<level>>
    <2>1. level \in SE
      BY <1>10
    <2> HIDE DEF SE
    <2>2. st \in Seq(SE) /\ Len(st) = 1 /\ st[1] = level
      BY <2>1
    <2> HIDE DEF st
    <2>3. Levels(st)
      BY <1>10, <2>2 DEF Levels, SE
    <2>4. Based(st) /\ Full(st)
      BY <1>10, <2>2, <2>3 DEF Based, Full, Last
    <2> QED
      BY <2>4 DEF st
  <1> QED
    BY <1>1, <1>2, <1>3, <1>4, <1>11 DEF NoChdir

\* The walk begins.
LEMMA OpenStep ==
  ASSUME FtsOK, pc \in Before, NEW options \in SUBSET Flags, "CWDFD" \in options, fts_open(options), pc' = "read",
         UNCHANGED <<fs, build, fds, cmd>>, faults' \in 0..MaxFaults, ArgsOK'
  PROVE  FtsOK'
  <1>1. FsOK /\ TypedOK /\ StackOK /\ PcOK /\ ArgsOK
    BY DEF FtsOK
  <1>2. fds = <<>> /\ cmd = NoCmd
    BY <1>1 DEF PcOK
  <1>3. /\ Sound(sp', <<>>, NONE) /\ sp'.dirp = NONE /\ sp'.cwd = AT_FDCWD
        /\ NoChdir(sp') \/ "CWDFD" \in sp'.options
        /\ Based(stack') /\ Full(stack')
    BY <1>1, OpsTyped, OpenFacts
  <1>4. FsOK' /\ Sound(sp, fds, cmd.fd)'
    <2>1. Sound(sp', fds', cmd'.fd)
      BY <1>2, <1>3 DEF NoCmd
    <2> QED
      BY <1>1, <2>1, FsKept, SoundNext
  <1>5. TypedOK'
    BY <1>1 DEF TypedOK, Pcs, Current
  <1>6. StackOK'
    BY <1>3 DEF StackOK
  <1>7. PcOK'
    <2>1. ~(NONE >= 0)
      BY DEF NONE
    <2>2. cmd'.fd = NONE
      BY <1>2 DEF NoCmd
    <2> QED
      BY <1>3, <2>1, <2>2 DEF PcOK, Before, NoChdir
  <1> QED
    BY <1>4, <1>5, <1>6, <1>7 DEF FtsOK

\* The program ends before it.
LEMMA ExitFirst ==
  ASSUME FtsOK, pc \in Before, pc' = "exit", NEW code \in {0, 1}, cmd' = [cmd EXCEPT !.exit = code],
         UNCHANGED <<fs, build, sp, fds, stack>>, faults' \in 0..MaxFaults, ArgsOK'
  PROVE  FtsOK'
  <1>1. FsOK /\ TypedOK /\ Sound(sp, fds, cmd.fd) /\ StackOK /\ PcOK
    BY DEF FtsOK
  <1>2. cmd' \in CmdSet /\ cmd'.fd = cmd.fd
    BY <1>1 DEF TypedOK, CmdSet
  <1>3. FsOK' /\ Sound(sp, fds, cmd.fd)'
    BY <1>1, <1>2, Unmoved
  <1>4. TypedOK'
    BY <1>1, <1>2 DEF TypedOK, Pcs
  <1>5. StackOK'
    BY <1>1 DEF StackOK, Current
  <1>6. PcOK'
    <2>1. DOMAIN <<>> = {}
      OBVIOUS
    <2> QED
      BY <1>1, <1>2, <2>1 DEF PcOK, Before, NoChdir
  <1> QED
    BY <1>3, <1>4, <1>5, <1>6 DEF FtsOK

\* fts_close() leaves nothing open.
LEMMA CloseFacts ==
  ASSUME Sound(sp, fds, cmd.fd), ~(sp.dirp >= 0), ~(cmd.fd >= 0), NoChdir(sp) \/ "CWDFD" \in sp.options, NoChdir(sp) => sp.cwd = AT_FDCWD
  PROVE  LET st == fts_close(Now)
             s == [st.sp EXCEPT !.cwd = AT_FDCWD]
         IN  Sound(s, st.fds, cmd.fd) /\ DOMAIN st.fds = {} /\ s.dirp = sp.dirp /\ s.cwd = AT_FDCWD
  <1> DEFINE left == IF "CWDFD" \in sp.options THEN Closed(fds, {sp.cwd}) ELSE fds
             st == fts_close(Now)
             home == [sp EXCEPT !.cwd = AT_FDCWD]
             own == cmd.fd
             data == sp.ring.data
  <1>1. sp \in Streams /\ (sp.cwd < 0 => sp.cwd = AT_FDCWD) /\ OpenDirs(fds, own) /\ Exact(sp.cwd, sp.dirp, own, data, DOMAIN fds)
    BY DEF Sound
  <1>2. st = fd_ring_clear([sp |-> sp, fds |-> left])
    BY DEF fts_close, Now
  <1>3. home \in Streams /\ home.cwd = AT_FDCWD /\ home.dirp = sp.dirp /\ home.ring = sp.ring
    BY <1>1 DEF Streams, AT_FDCWD
  <1>4. OpenDirs(left, own) /\ DOMAIN left = DOMAIN fds \ {sp.cwd}
    <2>1. CASE "CWDFD" \in sp.options
      BY <1>1, <2>1, ClosedFacts
    <2>2. CASE "CWDFD" \notin sp.options
      <3>1. sp.cwd = AT_FDCWD
        BY <2>2
      <3>2. sp.cwd \notin DOMAIN fds
        BY <1>1, <3>1 DEF OpenDirs, AT_FDCWD
      <3> QED
        BY <1>1, <2>2, <3>2
    <2> QED
      BY <2>1, <2>2
  <1>5. Exact(AT_FDCWD, sp.dirp, own, data, DOMAIN left)
    <2> DEFINE D == DOMAIN fds
    <2>1. /\ \A x \in {sp.cwd, sp.dirp, own} \cup {data[i] : i \in Slots} : x >= 0 => x \in D
          /\ \A x \in D : x >= 0 /\ (x \in {sp.cwd, sp.dirp, own} \/ \E i \in Slots : data[i] = x)
          /\ \A i, j \in Slots : data[i] >= 0 /\ data[i] = data[j] => i = j
          /\ sp.cwd >= 0 => sp.cwd # sp.dirp /\ sp.cwd # own /\ \A i \in Slots : data[i] # sp.cwd
      BY <1>1 DEF Exact
    <2>2. ~(AT_FDCWD >= 0)
      BY DEF AT_FDCWD
    <2> HIDE DEF D, data, own, left
    <2>3. \A x \in {AT_FDCWD, sp.dirp, own} \cup {data[i] : i \in Slots} : x >= 0 => x \in D \ {sp.cwd}
      BY <2>1, <2>2 DEF own
    <2>4. \A x \in D \ {sp.cwd} : x >= 0 /\ (x \in {AT_FDCWD, sp.dirp, own} \/ \E i \in Slots : data[i] = x)
      BY <2>1
    <2>5. DOMAIN left = D \ {sp.cwd}
      BY <1>4 DEF D
    <2> QED
      BY <2>1, <2>2, <2>3, <2>4, <2>5 DEF Exact, own
  <1>6. Sound(home, left, own)
    BY <1>3, <1>4, <1>5 DEF Sound
  <1> DEFINE cl == fd_ring_clear([sp |-> home, fds |-> left])
  <1>7. /\ Sound(cl.sp, cl.fds, own) /\ cl.sp = [home EXCEPT !.ring = cl.sp.ring]
        /\ \A fd \in DOMAIN cl.fds : fd \in {home.cwd, home.dirp, own}
    BY <1>6, ClearSound
  <1>8. st.fds = cl.fds /\ [st.sp EXCEPT !.cwd = AT_FDCWD] = cl.sp
    <2> DEFINE ring == [i_ring_init EXCEPT !.front = sp.ring.back, !.back = sp.ring.back]
    <2>1. st.sp = [sp EXCEPT !.ring = ring] /\ st.fds = Closed(left, Range(sp.ring.data))
      BY <1>2 DEF fd_ring_clear
    <2>2. cl.sp = [home EXCEPT !.ring = ring] /\ cl.fds = Closed(left, Range(sp.ring.data))
      BY <1>3 DEF fd_ring_clear
    <2> HIDE DEF ring, st, cl, left
    <2>3. [[sp EXCEPT !.ring = ring] EXCEPT !.cwd = AT_FDCWD] = [home EXCEPT !.ring = ring]
      BY <1>1 DEF Streams
    <2> QED
      BY <2>1, <2>2, <2>3
  <1> HIDE DEF st, cl, left, home
  <1>9. DOMAIN cl.fds = {}
    <2> SUFFICES ASSUME NEW fd \in DOMAIN cl.fds
                 PROVE  FALSE
      OBVIOUS
    <2>1. fd \in Nat
      BY <1>7 DEF Sound, OpenDirs
    <2>2. fd \in {AT_FDCWD, sp.dirp, own}
      BY <1>3, <1>7
    <2> QED
      BY <2>1, <2>2 DEF AT_FDCWD
  <1>10. cl.sp.dirp = sp.dirp /\ cl.sp.cwd = AT_FDCWD
    <2> DEFINE r == cl.sp.ring
    <2>1. cl.sp = [home EXCEPT !.ring = r]
      BY <1>7
    <2> HIDE DEF r
    <2> QED
      BY <1>3, <2>1 DEF Streams
  <1> QED
    BY <1>7, <1>8, <1>9, <1>10 DEF st, own

\* fts_close() at the end of a walk, and exit().
LEMMA EndStep ==
  ASSUME FtsOK, pc = "null", pc' = "exit", NEW code \in {0, 1}, cmd' = [cmd EXCEPT !.exit = code],
         fds' = fts_close(Now).fds, sp' = [fts_close(Now).sp EXCEPT !.cwd = AT_FDCWD],
         UNCHANGED <<fs, build, args, stack>>, faults' \in 0..MaxFaults
  PROVE  FtsOK'
  <1>1. FsOK /\ TypedOK /\ Sound(sp, fds, cmd.fd) /\ StackOK /\ PcOK /\ ArgsOK
    BY DEF FtsOK
  <1>2. cmd' \in CmdSet /\ cmd'.fd = cmd.fd
    BY <1>1 DEF TypedOK, CmdSet
  <1>3. ~(sp.dirp >= 0) /\ ~(cmd.fd >= 0) /\ (NoChdir(sp) \/ "CWDFD" \in sp.options) /\ (NoChdir(sp) => sp.cwd = AT_FDCWD)
    BY <1>1 DEF PcOK, Before
  <1>4. Sound(sp', fds', cmd.fd) /\ DOMAIN fds' = {} /\ sp'.dirp = sp.dirp /\ sp'.cwd = AT_FDCWD
    BY <1>1, <1>3, CloseFacts
  <1>5. FsOK' /\ Sound(sp, fds, cmd.fd)'
    <2>1. Sound(sp', fds', cmd'.fd)
      BY <1>2, <1>4
    <2> QED
      BY <1>1, <2>1, FsKept, SoundNext
  <1>6. TypedOK'
    BY <1>1, <1>2 DEF TypedOK, Pcs
  <1>7. StackOK'
    BY <1>1 DEF StackOK, Current
  <1>8. PcOK'
    BY <1>2, <1>3, <1>4 DEF PcOK, Before
  <1>9. ArgsOK'
    BY <1>1 DEF ArgsOK
  <1> QED
    BY <1>5, <1>6, <1>7, <1>8, <1>9 DEF FtsOK

-----------------------------------------------------------------------------
(* The steps of rm.                                                         *)

LEMMA RmArgsFacts ==
  ASSUME ArgsOK, IsRm
  PROVE  args \in RmArgs
  BY DEF ArgsOK, IsRm, ChownArgs

\* rm reads an option.
LEMMA RmOptionOK ==
  ASSUME FtsOK, RmOption
  PROVE  FtsOK'
  <1>1. FsOK /\ TypedOK /\ Sound(sp, fds, cmd.fd) /\ StackOK /\ PcOK /\ ArgsOK /\ IsRm
    BY DEF FtsOK, RmOption
  <1>2. args \in RmArgs
    BY <1>1, RmArgsFacts
  <1>3. PICK c \in RmOptions : args' = [args EXCEPT !.left = @ - 1, !.opt = WithOption(@, c)]
    BY DEF RmOption
  <1> DEFINE o == args.opt
             w == WithOption(o, c)
             l == args.left - 1
  <1>4. o \in RmOptSet /\ l \in Int
    BY <1>2 DEF RmArgs
  <1> HIDE DEF o, l
  <1>5. w \in RmOptSet
    <2>1. Asks(o, "NEVER", TRUE, FALSE) \in RmOptSet /\ Asks(o, "ALWAYS", FALSE, FALSE) \in RmOptSet /\ Asks(o, "NEVER", FALSE, TRUE) \in RmOptSet
      BY <1>4 DEF Asks, RmOptSet
    <2>2. Asks(o, "NEVER", o.ignore, FALSE) \in RmOptSet /\ Asks(o, "SOMETIMES", FALSE, TRUE) \in RmOptSet
      BY <1>4 DEF Asks, RmOptSet
    <2>3. [o EXCEPT !.recursive = TRUE] \in RmOptSet
      BY <1>4 DEF RmOptSet
    <2> HIDE DEF RmOptSet
    <2> QED
      BY <1>4, <2>1, <2>2, <2>3 DEF WithOption, RmOptions
  <1> HIDE DEF w
  <1>6. args' = [args EXCEPT !.left = l, !.opt = w]
    BY <1>3 DEF o, l, w
  <1>7. args' \in RmArgs
    BY <1>2, <1>4, <1>5, <1>6 DEF RmArgs
  <1>8. UNCHANGED <<pc, fs, faults, build, sp, fds, stack, cmd, log>>
    BY DEF RmOption
  <1>9. FsOK' /\ Sound(sp, fds, cmd.fd)'
    BY <1>1, <1>8, Unmoved
  <1>10. TypedOK' /\ StackOK' /\ PcOK' /\ ArgsOK'
    BY <1>1, <1>7, <1>8 DEF TypedOK, StackOK, PcOK, NoChdir, ArgsOK
  <1> QED
    BY <1>9, <1>10 DEF FtsOK

\* rm refuses its command line.
LEMMA RmUsageOK ==
  ASSUME FtsOK, RmUsage
  PROVE  FtsOK'
  <1>1. TypedOK /\ ArgsOK /\ IsRm /\ pc = "options" /\ UNCHANGED <<faults, sp, fds, stack, log, fs, build, args>>
    BY DEF FtsOK, RmUsage, Still
  <1>2. ArgsOK'
    BY <1>1, RmArgsFacts DEF ArgsOK
  <1>3. PICK code \in {0, 1} : pc' = "exit" /\ cmd' = [cmd EXCEPT !.exit = code]
    BY DEF RmUsage, Exit
  <1> QED
    BY <1>1, <1>2, <1>3, ExitFirst DEF Before, TypedOK

\* rm asks its question before all operands, and opens the walk.
LEMMA RmMainOK ==
  ASSUME FtsOK, RmMain
  PROVE  FtsOK'
  <1>1. TypedOK /\ ArgsOK /\ IsRm /\ pc = "options" /\ UNCHANGED <<fs, build, fds, log>> /\ args' = [args EXCEPT !.left = 0]
    BY DEF FtsOK, RmMain
  <1>2. ArgsOK'
    BY <1>1, RmArgsFacts DEF ArgsOK, RmArgs
  <1>3. PICK failed \in BOOLEAN, yes \in BOOLEAN :
       /\ MayFail(failed)
       /\ IF failed THEN Exit(1) /\ UNCHANGED <<sp, stack>>
          ELSE IF PromptsOnce /\ ~yes THEN Exit(0) /\ UNCHANGED <<sp, stack>>
          ELSE fts_open({"CWDFD", "NOSTAT", "PHYSICAL"}) /\ pc' = "read" /\ UNCHANGED cmd
    BY DEF RmMain
  <1>4. faults' \in 0..MaxFaults
    BY <1>1, <1>3, FtsAssumption DEF MayFail, TypedOK
  <1>5. \/ UNCHANGED <<sp, stack>> /\ \E code \in {0, 1} : pc' = "exit" /\ cmd' = [cmd EXCEPT !.exit = code]
        \/ fts_open({"CWDFD", "NOSTAT", "PHYSICAL"}) /\ pc' = "read" /\ UNCHANGED cmd
    BY <1>3 DEF Exit
  <1>6. CASE UNCHANGED <<sp, stack>> /\ \E code \in {0, 1} : pc' = "exit" /\ cmd' = [cmd EXCEPT !.exit = code]
    BY <1>1, <1>2, <1>4, <1>6, ExitFirst DEF Before
  <1>7. CASE fts_open({"CWDFD", "NOSTAT", "PHYSICAL"}) /\ pc' = "read" /\ UNCHANGED cmd
    <2> DEFINE options == {"CWDFD", "NOSTAT", "PHYSICAL"}
    <2>1. options \in SUBSET Flags /\ "CWDFD" \in options
      BY DEF Flags
    <2> HIDE DEF options
    <2>2. fts_open(options)
      BY <1>7 DEF options
    <2> QED
      BY <1>1, <1>2, <1>4, <1>7, <2>1, <2>2, OpenStep DEF Before
  <1> QED
    BY <1>5, <1>6, <1>7

\* The client's state with another status, protection and kind.
LEMMA CmdChanged ==
  ASSUME cmd \in CmdSet, NEW u \in {"OK", "DECLINED", "ERROR"}, NEW w \in Int, NEW k \in Kinds \cup {"none", "unknown"}
  PROVE  /\ [cmd EXCEPT !.status = u, !.wp = w, !.kind = k] \in CmdSet
         /\ [cmd EXCEPT !.status = u, !.wp = w, !.kind = k].fd = cmd.fd
         /\ [cmd EXCEPT !.wp = w, !.kind = k] \in CmdSet
         /\ [cmd EXCEPT !.wp = w, !.kind = k].fd = cmd.fd
  BY DEF CmdSet

\* What a report leaves of the client's state.
LEMMA ReportFacts ==
  ASSUME cmd \in CmdSet, NEW s \in {"OK", "DECLINED", "ERROR"}
  PROVE  LET c == [cmd EXCEPT !.status = UPDATE_STATUS(@, s), !.wp = 0, !.kind = "unknown"]
         IN  c \in CmdSet /\ c.fd = cmd.fd
  <1> DEFINE u == UPDATE_STATUS(cmd.status, s)
             w == 0
             k == "unknown"
  <1>1. u \in {"OK", "DECLINED", "ERROR"} /\ w \in Int /\ k \in Kinds \cup {"none", "unknown"}
    BY DEF UPDATE_STATUS, CmdSet
  <1> HIDE DEF u, w, k
  <1>2. LET c == [cmd EXCEPT !.status = u, !.wp = w, !.kind = k]
        IN  c \in CmdSet /\ c.fd = cmd.fd
    BY <1>1, CmdChanged
  <1> QED
    BY <1>2 DEF u, w, k

\* rm meets a directory and skips it.
LEMMA RmDirectoryOK ==
  ASSUME FtsOK, RmDirectory
  PROVE  FtsOK'
  <1> DEFINE q == [cur EXCEPT !.instr = "SKIP"]
  <1>1. /\ pc = "got" /\ pc' = "read" /\ UNCHANGED <<faults, fds, fs, build, args>>
        /\ sp' = [sp EXCEPT !.discard = TRUE] /\ stack' = SetCur(q)
        /\ cmd' = [cmd EXCEPT !.status = UPDATE_STATUS(@, "ERROR"), !.wp = 0, !.kind = "unknown"]
    BY DEF RmDirectory, Got, Report, fts_set, Still
  <1>2. FsOK /\ TypedOK /\ StackOK /\ pc \in Current /\ sp \in Streams /\ cmd \in CmdSet /\ faults \in 0..MaxFaults
    BY <1>1 DEF FtsOK, Current, Sound, TypedOK
  <1>3. cur \in EntrySet /\ Len(cur.path) = Len(stack)
    BY <1>2, Found
  <1>4. q \in EntrySet /\ Len(q.path) = Len(stack)
    BY <1>3, EntryChanged
  <1> HIDE DEF q
  <1>5. StackOK'
    BY <1>1, <1>2, <1>4, CurReplaced
  <1>6. Calm
    BY <1>1, <1>2 DEF Streams, Calm
  <1>7. cmd' \in CmdSet /\ cmd'.fd = cmd.fd
    BY <1>1, <1>2, ReportFacts
  <1> QED
    BY <1>1, <1>2, <1>5, <1>6, <1>7, FsKept, CalmStep DEF Current

\* rm looks whether a file is write-protected.
LEMMA RmProtectedOK ==
  ASSUME FtsOK, RmProtected
  PROVE  FtsOK'
  <1> DEFINE i == At(sp, cur)
             looks == args.opt.interactive # "NEVER" /\ ChecksProtection
             wp == IF looks THEN write_protected(i) ELSE 0
             kind == IF looks /\ ~args.root /\ i # NONE THEN fs[i].kind ELSE "unknown"
  <1>1. /\ pc = "got" /\ pc' = "prompt" /\ UNCHANGED <<faults, sp, fds, fs, build, args, stack>>
        /\ cmd' = [cmd EXCEPT !.wp = wp, !.kind = kind]
    BY DEF RmProtected, Got, Still
  <1>2. FsOK /\ TypedOK /\ StackOK /\ pc \in Current /\ sp \in Streams /\ cmd \in CmdSet /\ faults \in 0..MaxFaults
    BY <1>1 DEF FtsOK, Current, Sound, TypedOK
  <1>3. i \in DOMAIN fs \cup {NONE}
    BY <1>2, Found
  <1>4. wp \in Int
    BY DEF write_protected
  <1>5. kind \in Kinds \cup {"none", "unknown"}
    BY <1>2, <1>3 DEF FsOK, Files
  <1> HIDE DEF wp, kind
  <1>6. cmd' \in CmdSet /\ cmd'.fd = cmd.fd
    BY <1>1, <1>2, <1>4, <1>5 DEF CmdSet
  <1>7. StackOK' /\ Calm
    BY <1>1, <1>2, StackKept DEF Calm
  <1> QED
    BY <1>1, <1>2, <1>6, <1>7, FsKept, CalmStep DEF Current

\* rm asks.
LEMMA RmPromptOK ==
  ASSUME FtsOK, RmPrompt
  PROVE  FtsOK'
  <1>1. /\ pc = "prompt" /\ UNCHANGED <<faults, sp, fds, fs, build, args, stack>>
        /\ pc' \in {"excise", "read"}
        /\ \/ cmd' = cmd
           \/ \E s \in {"DECLINED", "ERROR"} : cmd' = [cmd EXCEPT !.status = UPDATE_STATUS(@, s), !.wp = 0, !.kind = "unknown"]
    BY DEF RmPrompt, Report, Still
  <1>2. FsOK /\ TypedOK /\ StackOK /\ pc \in Current /\ sp \in Streams /\ cmd \in CmdSet /\ faults \in 0..MaxFaults
    BY <1>1 DEF FtsOK, Current, Sound, TypedOK
  <1>3. cmd' \in CmdSet /\ cmd'.fd = cmd.fd
    BY <1>1, <1>2, ReportFacts
  <1>4. StackOK' /\ Calm
    BY <1>1, <1>2, StackKept DEF Calm
  <1> QED
    BY <1>1, <1>2, <1>3, <1>4, FsKept, CalmStep DEF Current

\* rm removes a file.
LEMMA RmExciseOK ==
  ASSUME FtsOK, RmExcise
  PROVE  FtsOK' /\ SameFiles
  <1> DEFINE d == DirOf(sp.cwd)
             name == Last(cur.path)
             i == At(sp, cur)
             new == Without(fs[d].ents, name)
  <1>1. pc = "excise" /\ pc' = "read" /\ UNCHANGED <<sp, fds, stack, build, args>>
    BY DEF RmExcise
  <1>2. FsOK /\ TypedOK /\ StackOK /\ pc \in Current /\ sp \in Streams /\ cmd \in CmdSet /\ faults \in 0..MaxFaults
    BY <1>1 DEF FtsOK, Current, Sound, TypedOK
  <1>3. d \in DOMAIN fs
    BY <1>2, Found
  <1>4. PICK denied \in BOOLEAN :
           /\ MayFail(denied)
           /\ IF i = NONE
              THEN UNCHANGED fs /\ Report(IF args.opt.ignore THEN "OK" ELSE "ERROR", "missing")
              ELSE IF denied \/ fs[i].kind = "dir" THEN UNCHANGED fs /\ Report("ERROR", "failed")
              ELSE /\ fs' = [fs EXCEPT ![d].ents = Without(@, name)]
                   /\ cmd' = [cmd EXCEPT !.wp = 0, !.kind = "unknown"]
    BY DEF RmExcise
  <1>5. faults' \in 0..MaxFaults
    BY <1>2, <1>4, FtsAssumption DEF MayFail
  <1>6. /\ fs' = fs \/ fs' = [fs EXCEPT ![d].ents = new]
        /\ \/ cmd' = [cmd EXCEPT !.wp = 0, !.kind = "unknown"]
           \/ \E s \in {"OK", "ERROR"} : cmd' = [cmd EXCEPT !.status = UPDATE_STATUS(@, s), !.wp = 0, !.kind = "unknown"]
    BY <1>4 DEF Report
  <1>7. SameFiles
    <2>1. CASE fs' = fs
      BY <1>2, <2>1, FilesKept DEF FsOK
    <2>2. CASE fs' = [fs EXCEPT ![d].ents = new]
      <3> DEFINE Named == [name : STRING, ino : DOMAIN fs]
                 ents == fs[d].ents
      <3>1. ents \in Seq(Named)
        BY <1>2, <1>3 DEF FsOK, Files
      <3>2. new \in Seq(Named)
        <4> HIDE DEF ents, Named
        <4>1. Without(ents, name) \in Seq(Named)
          BY <3>1, WithoutFacts
        <4> QED
          BY <4>1 DEF ents
      <3> HIDE DEF new, d
      <3> QED
        BY <1>2, <1>3, <2>2, <3>2, NamesChanged
    <2> QED
      BY <1>6, <2>1, <2>2
  <1>8. cmd' \in CmdSet /\ cmd'.fd = cmd.fd
    <2>1. CASE cmd' = [cmd EXCEPT !.wp = 0, !.kind = "unknown"]
      <3> DEFINE w == 0
                 k == "unknown"
      <3>1. w \in Int /\ k \in Kinds \cup {"none", "unknown"}
        OBVIOUS
      <3> HIDE DEF w, k
      <3>2. cmd' = [cmd EXCEPT !.wp = w, !.kind = k]
        BY <2>1 DEF w, k
      <3>3. "OK" \in {"OK", "DECLINED", "ERROR"}
        OBVIOUS
      <3> QED
        BY <1>2, <3>1, <3>2, <3>3, CmdChanged
    <2>2. CASE \E s \in {"OK", "ERROR"} : cmd' = [cmd EXCEPT !.status = UPDATE_STATUS(@, s), !.wp = 0, !.kind = "unknown"]
      BY <1>2, <2>2, ReportFacts
    <2> QED
      BY <1>6, <2>1, <2>2
  <1>9. StackOK' /\ Calm
    BY <1>1, <1>2, StackKept DEF Calm
  <1> QED
    BY <1>1, <1>2, <1>5, <1>7, <1>8, <1>9, CalmStep DEF Current, SameFiles

\* rm closes the walk and exits.
LEMMA RmEndOK ==
  ASSUME FtsOK, RmEnd
  PROVE  FtsOK'
  <1>1. pc = "null" /\ TypedOK /\ UNCHANGED <<stack, log, fs, build, args>>
    BY DEF FtsOK, RmEnd, Still
  <1>2. PICK failed \in BOOLEAN :
       /\ MayFail(failed)
       /\ fds' = fts_close(Now).fds /\ sp' = [fts_close(Now).sp EXCEPT !.cwd = AT_FDCWD]
       /\ \E status \in {"OK", "ERROR", "OTHER"} : Exit(IF status = "ERROR" THEN 1 ELSE 0)
    BY DEF RmEnd
  <1>3. faults' \in 0..MaxFaults
    BY <1>1, <1>2, FtsAssumption DEF MayFail, TypedOK
  <1>4. PICK code \in {0, 1} : pc' = "exit" /\ cmd' = [cmd EXCEPT !.exit = code]
    BY <1>2 DEF Exit
  <1> QED
    BY <1>1, <1>2, <1>3, <1>4, EndStep

-----------------------------------------------------------------------------
(* The steps of chown and chgrp.                                            *)

LEMMA IdFacts ==
  /\ Invalid \in IdSet /\ \A u, g \in Int : Ids(u, g) \in IdSet
  /\ NONE \in Int
  BY DEF Invalid, Ids, IdSet, NONE

\* parse_user_spec() gives two numbers or -1 each.
LEMMA SpecFacts ==
  ASSUME NEW s, NEW part
  PROVE  parse_user_spec(s) \in IdSet /\ parse_group(part) \in IdSet
  <1>1. \A u \in Int : \A p : WithGroup(u, p) \in IdSet
    <2>1. \A u \in Int : Ids(u, NONE) \in IdSet /\ Ids(u, 1) \in IdSet
      BY IdFacts
    <2> QED
      BY <2>1, IdFacts DEF WithGroup
  <1>2. ASSUME NEW sep
        PROVE  parse_with_separator(s, sep) \in IdSet
    <2>1. Ids(3, NONE) \in IdSet /\ Ids(1, 2) \in IdSet
      BY IdFacts
    <2>2. \A p : WithGroup(NONE, p) \in IdSet /\ WithGroup(1, p) \in IdSet
      BY <1>1, IdFacts
    <2> QED
      BY <2>1, <2>2, IdFacts DEF parse_with_separator
  <1>3. parse_user_spec(s) \in IdSet
    BY <1>2 DEF parse_user_spec
  <1>4. Ids(NONE, 1) \in IdSet /\ Ids(NONE, NONE) \in IdSet
    BY IdFacts
  <1> QED
    BY <1>3, <1>4, IdFacts DEF parse_group

\* The options of chown and chgrp, before and after they are completed.
LEMMA ChownArgsFacts ==
  ASSUME ArgsOK, IsChown
  PROVE  /\ pc = "options" => args \in ChownArgs(ChoptSet)
         /\ pc \notin {"options", "exit"} => args \in ChownArgs(FinalSet)
  BY DEF ArgsOK, IsChown, RmArgs

\* chown reads an option.
LEMMA ChownOptionOK ==
  ASSUME FtsOK, ChownOption
  PROVE  FtsOK'
  <1>1. FsOK /\ TypedOK /\ Sound(sp, fds, cmd.fd) /\ StackOK /\ PcOK /\ ArgsOK /\ IsChown /\ pc = "options"
    BY DEF FtsOK, ChownOption
  <1>2. args \in ChownArgs(ChoptSet)
    BY <1>1, ChownArgsFacts
  <1> DEFINE o == args.opt
             l == args.left - 1
  <1>3. o \in ChoptSet /\ l \in Int
    BY <1>2 DEF ChownArgs
  <1>4. \/ \E c \in ChownOptions : args' = [args EXCEPT !.left = l, !.opt = WithChownOption(o, c)]
        \/ \E s : args' = [args EXCEPT !.left = l, !.opt = [o EXCEPT !.from = Onto(o.from, parse_user_spec(s))]]
    BY <1>2 DEF ChownOption, ChownArgs
  <1> HIDE DEF o, l
  <1>5. ASSUME NEW w \in ChoptSet, args' = [args EXCEPT !.left = l, !.opt = w]
        PROVE  args' \in ChownArgs(ChoptSet)
    BY <1>2, <1>3, <1>5 DEF ChownArgs
  <1>6. ASSUME NEW c \in ChownOptions
        PROVE  WithChownOption(o, c) \in ChoptSet
    <2>1. \A f \in FlagSets : [o EXCEPT !.flags = f] \in ChoptSet
      BY <1>3 DEF ChoptSet
    <2>2. \A n \in Int : [o EXCEPT !.deref = n] \in ChoptSet
      BY <1>3 DEF ChoptSet
    <2>3. /\ [o EXCEPT !.preserve = TRUE] \in ChoptSet /\ [o EXCEPT !.reference = TRUE] \in ChoptSet
          /\ [o EXCEPT !.recurse = TRUE] \in ChoptSet /\ [o EXCEPT !.verbose = TRUE] \in ChoptSet
      BY <1>3 DEF ChoptSet
    <2>4. /\ [o EXCEPT !.flags = {"COMFOLLOW", "PHYSICAL"}] \in ChoptSet /\ [o EXCEPT !.flags = {"LOGICAL"}] \in ChoptSet
          /\ [o EXCEPT !.flags = {"PHYSICAL"}] \in ChoptSet
      BY <2>1 DEF FlagSets
    <2>5. [o EXCEPT !.deref = 0] \in ChoptSet /\ [o EXCEPT !.deref = 1] \in ChoptSet
      BY <2>2
    <2> HIDE DEF ChoptSet
    <2> QED
      BY <2>3, <2>4, <2>5 DEF WithChownOption, ChownOptions
  <1>7. ASSUME NEW s
        PROVE  [o EXCEPT !.from = Onto(o.from, parse_user_spec(s))] \in ChoptSet
    <2> DEFINE new == parse_user_spec(s)
               old == o.from
               i == Onto(old, new)
    <2>1. i \in IdSet
      <3>1. new \in IdSet
        BY SpecFacts
      <3>2. old \in IdSet
        BY <1>3 DEF ChoptSet
      <3> HIDE DEF new, old
      <3> QED
        BY <3>1, <3>2 DEF IdSet, Onto
    <2> HIDE DEF i
    <2>2. [o EXCEPT !.from = i] \in ChoptSet
      BY <1>3, <2>1 DEF ChoptSet
    <2> QED
      BY <2>2 DEF i, old, new
  <1>8. args' \in ChownArgs(ChoptSet)
    BY <1>4, <1>5, <1>6, <1>7
  <1>9. UNCHANGED <<pc, fs, faults, build, sp, fds, stack, cmd, log>>
    BY DEF ChownOption
  <1>10. FsOK' /\ Sound(sp, fds, cmd.fd)'
    BY <1>1, <1>9, Unmoved
  <1>11. TypedOK' /\ StackOK' /\ PcOK' /\ ArgsOK'
    BY <1>1, <1>8, <1>9 DEF TypedOK, StackOK, PcOK, NoChdir, ArgsOK
  <1> QED
    BY <1>10, <1>11 DEF FtsOK

\* chown refuses its command line.
LEMMA ChownUsageOK ==
  ASSUME FtsOK, ChownUsage
  PROVE  FtsOK'
  <1>1. TypedOK /\ ArgsOK /\ IsChown /\ pc = "options" /\ pc' = "exit" /\ UNCHANGED <<faults, sp, fds, stack, log, fs, build, args>>
        /\ cmd' = [cmd EXCEPT !.exit = 1]
    BY DEF FtsOK, ChownUsage, Still, Exit
  <1>2. ArgsOK'
    BY <1>1, ChownArgsFacts DEF ArgsOK
  <1> QED
    BY <1>1, <1>2, ExitFirst DEF Before, TypedOK

\* chown reads the user and group it is given.
LEMMA ChownParseOK ==
  ASSUME FtsOK, ChownParse
  PROVE  FtsOK'
  <1>1. FsOK /\ TypedOK /\ Sound(sp, fds, cmd.fd) /\ StackOK /\ PcOK /\ ArgsOK /\ IsChown /\ pc = "options"
        /\ UNCHANGED <<fs, faults, build, sp, fds, stack, log>>
    BY DEF FtsOK, ChownParse
  <1>2. args \in ChownArgs(ChoptSet)
    BY <1>1, ChownArgsFacts
  <1>3. PICK s \in Specs \cup {NoSpec} : \E to \in IdSet :
           /\ args' = [args EXCEPT !.left = 0, !.opt = Final(args.opt, to, s)]
           /\ \/ Exit(1)
              \/ pc' = "open" /\ UNCHANGED cmd
    <2>1. PICK s \in IF opt.reference THEN {NoSpec} ELSE Specs :
             LET to == IF opt.reference THEN Ids(IF args.prog = "chown" THEN 1 ELSE NONE, 2)
                       ELSE IF args.prog = "chown" THEN parse_user_spec(s) ELSE parse_group(s.group)
             IN  /\ args' = [args EXCEPT !.left = 0, !.opt = Final(@, to, s)]
                 /\ IF to.bad THEN Exit(1) ELSE pc' = "open" /\ UNCHANGED cmd
      BY DEF ChownParse
    <2> DEFINE to == IF opt.reference THEN Ids(IF args.prog = "chown" THEN 1 ELSE NONE, 2)
                     ELSE IF args.prog = "chown" THEN parse_user_spec(s) ELSE parse_group(s.group)
    <2>2. to \in IdSet
      <3>1. Ids(1, 2) \in IdSet /\ Ids(NONE, 2) \in IdSet
        BY IdFacts
      <3> QED
        BY <3>1, SpecFacts
    <2>3. s \in Specs \cup {NoSpec}
      BY <2>1
    <2>4. args' = [args EXCEPT !.left = 0, !.opt = Final(args.opt, to, s)]
      BY <1>2, <2>1 DEF ChownArgs
    <2>5. Exit(1) \/ (pc' = "open" /\ UNCHANGED cmd)
      BY <2>1
    <2> HIDE DEF to
    <2> QED
      BY <2>2, <2>3, <2>4, <2>5
  <1>4. PICK to \in IdSet : args' = [args EXCEPT !.left = 0, !.opt = Final(args.opt, to, s)]
    BY <1>3
  <1> DEFINE w == Final(args.opt, to, s)
  <1>5. w \in FinalSet
    <2> DEFINE o == args.opt
               known == Specs \cup {NoSpec}
    <2>1. o \in ChoptSet
      BY <1>2 DEF ChownArgs
    <2>2. {"PHYSICAL"} \in FlagSets
      BY DEF FlagSets
    <2>3. s \in known
      OBVIOUS
    <2> HIDE DEF o, known
    <2>4. Final(o, to, s) \in [flags : FlagSets, recurse : BOOLEAN, verbose : BOOLEAN, referent : BOOLEAN, root : BOOLEAN, from : IdSet, to : IdSet,
                               spec : known]
      <3> DEFINE fl == IF o.recurse THEN o.flags ELSE {"PHYSICAL"}
                 re == o.deref # 0 /\ ~FollowsNone(o)
                 ro == o.recurse /\ o.preserve
      <3>1. fl \in FlagSets /\ re \in BOOLEAN /\ ro \in BOOLEAN /\ o.recurse \in BOOLEAN /\ o.verbose \in BOOLEAN /\ o.from \in IdSet
        BY <2>1, <2>2 DEF ChoptSet
      <3> HIDE DEF fl, re, ro
      <3>2. [flags |-> fl, recurse |-> o.recurse, verbose |-> o.verbose,
             referent |-> re, root |-> ro, from |-> o.from, to |-> to, spec |-> s]
            \in [flags : FlagSets, recurse : BOOLEAN, verbose : BOOLEAN, referent : BOOLEAN, root : BOOLEAN, from : IdSet, to : IdSet,
                 spec : known]
        BY <2>3, <3>1
      <3> QED
        BY <3>2 DEF Final, fl, re, ro
    <2> QED
      BY <2>4 DEF FinalSet, o, known
  <1> HIDE DEF w
  <1>6. args' \in ChownArgs(FinalSet)
    <2> DEFINE l == 0
    <2>1. l \in Int
      OBVIOUS
    <2> HIDE DEF l
    <2>2. args' = [args EXCEPT !.left = l, !.opt = w]
      BY <1>4 DEF w, l
    <2> QED
      BY <1>2, <1>5, <2>1, <2>2 DEF ChownArgs
  <1>7. CASE Exit(1)
    <2>1. ArgsOK'
      BY <1>6, <1>7 DEF ArgsOK, Exit
    <2> QED
      BY <1>1, <1>7, <2>1, ExitFirst DEF Exit, Before, TypedOK
  <1>8. CASE pc' = "open" /\ UNCHANGED cmd
    <2>1. FsOK' /\ Sound(sp, fds, cmd.fd)'
      BY <1>1, <1>8, Unmoved
    <2>2. TypedOK' /\ StackOK' /\ ArgsOK'
      BY <1>1, <1>6, <1>8 DEF TypedOK, StackOK, ArgsOK, Pcs, Before, Current
    <2>3. PcOK'
      BY <1>1, <1>8 DEF PcOK, NoChdir, Before
    <2> QED
      BY <2>1, <2>2, <2>3 DEF FtsOK
  <1> QED
    BY <1>3, <1>7, <1>8

\* chown opens the walk.
LEMMA ChownOpenOK ==
  ASSUME FtsOK, ChownOpen
  PROVE  FtsOK'
  <1>1. TypedOK /\ ArgsOK /\ IsChown /\ pc = "open" /\ UNCHANGED <<fs, build, fds, log>> /\ args' = [args EXCEPT !.opt.spec = NoSpec]
    BY DEF FtsOK, ChownOpen
  <1>2. args \in ChownArgs(FinalSet)
    BY <1>1, ChownArgsFacts
  <1> DEFINE o == args.opt
             w == [o EXCEPT !.spec = NoSpec]
  <1>3. o \in FinalSet
    BY <1>2 DEF ChownArgs
  <1>4. w \in FinalSet
    <2> HIDE DEF o
    <2> DEFINE known == Specs \cup {NoSpec}
               none == NoSpec
    <2>1. none \in known
      OBVIOUS
    <2> HIDE DEF known, none
    <2>2. o \in [flags : FlagSets, recurse : BOOLEAN, verbose : BOOLEAN, referent : BOOLEAN, root : BOOLEAN, from : IdSet, to : IdSet,
                 spec : known]
      BY <1>3 DEF FinalSet, known
    <2>3. [o EXCEPT !.spec = none] \in [flags : FlagSets, recurse : BOOLEAN, verbose : BOOLEAN, referent : BOOLEAN, root : BOOLEAN, from : IdSet, to : IdSet,
                 spec : known]
      BY <2>1, <2>2
    <2> QED
      BY <2>3 DEF FinalSet, known, none
  <1>5. args' \in ChownArgs(FinalSet)
    <2>1. args' = [args EXCEPT !.opt = w]
      BY <1>1
    <2> HIDE DEF w
    <2> QED
      BY <1>2, <1>4, <2>1 DEF ChownArgs
  <1>6. PICK failed \in BOOLEAN :
       /\ MayFail(failed)
       /\ IF failed THEN Exit(1) /\ UNCHANGED <<sp, stack>>
          ELSE fts_open(opt.flags \cup {"CWDFD", "DEFER_STAT"} \cup StatFlags) /\ pc' = "read" /\ UNCHANGED cmd
    BY DEF ChownOpen
  <1>7. faults' \in 0..MaxFaults
    BY <1>1, <1>6, FtsAssumption DEF MayFail, TypedOK
  <1>8. CASE failed
    <2>1. pc' = "exit" /\ cmd' = [cmd EXCEPT !.exit = 1] /\ UNCHANGED <<sp, stack>>
      BY <1>6, <1>8 DEF Exit
    <2>2. ArgsOK'
      BY <1>5, <2>1 DEF ArgsOK
    <2> QED
      BY <1>1, <1>7, <2>1, <2>2, ExitFirst DEF Before
  <1>9. CASE ~failed
    <2> DEFINE options == opt.flags \cup {"CWDFD", "DEFER_STAT"} \cup StatFlags
    <2>1. fts_open(options) /\ pc' = "read" /\ UNCHANGED cmd
      BY <1>6, <1>9
    <2>2. opt.flags \in FlagSets
      BY <1>3 DEF FinalSet, opt
    <2>3. options \in SUBSET Flags /\ "CWDFD" \in options
      BY <2>2 DEF Flags, FlagSets, StatFlags
    <2> HIDE DEF options
    <2>4. ArgsOK'
      BY <1>5, <2>1 DEF ArgsOK
    <2> QED
      BY <1>1, <1>7, <2>1, <2>3, <2>4, OpenStep DEF Before
  <1> QED
    BY <1>8, <1>9

\* Without a descriptor of its own a program has none to lose.
LEMMA OwnNone ==
  ASSUME NEW s, NEW open, NEW own, Sound(s, open, own), ~(own >= 0)
  PROVE  Sound(s, open, NONE)
  <1> DEFINE data == s.ring.data
             D == DOMAIN open
  <1>1. s \in Streams /\ (s.cwd < 0 => s.cwd = AT_FDCWD) /\ OpenDirs(open, own) /\ Exact(s.cwd, s.dirp, own, data, D)
    BY DEF Sound
  <1>2. Exact(s.cwd, s.dirp, NONE, data, D)
    <2>1. /\ \A x \in {s.cwd, s.dirp, own} \cup {data[i] : i \in Slots} : x >= 0 => x \in D
          /\ \A x \in D : x >= 0 /\ (x \in {s.cwd, s.dirp, own} \/ \E i \in Slots : data[i] = x)
          /\ \A i, j \in Slots : data[i] >= 0 /\ data[i] = data[j] => i = j
          /\ s.cwd >= 0 => s.cwd # s.dirp /\ s.cwd # own /\ \A i \in Slots : data[i] # s.cwd
          /\ s.dirp >= 0 => s.dirp # own /\ \A i \in Slots : data[i] # s.dirp
      BY <1>1 DEF Exact
    <2>2. ~(NONE >= 0)
      BY DEF NONE
    <2> HIDE DEF data, D
    <2>3. (s.cwd >= 0 => s.cwd # NONE) /\ (s.dirp >= 0 => s.dirp # NONE)
      BY <2>2
    <2> QED
      BY <2>1, <2>2, <2>3 DEF Exact
  <1>3. OpenDirs(open, NONE)
    BY <1>1 DEF OpenDirs
  <1> QED
    BY <1>1, <1>2, <1>3 DEF Sound

\* An entry without its tree, or another visit of it.
LEMMA EndSkipFacts ==
  ASSUME NEW p \in EntrySet
  PROVE  EndSkip(p) \in EntrySet /\ EndSkip(p).path = p.path
  BY EntryChanged DEF EndSkip

\* The result of one file is added to those before.
LEMMA OkChanged ==
  ASSUME cmd \in CmdSet, NEW ok \in BOOLEAN
  PROVE  LET c == [cmd EXCEPT !.ok = @ /\ ok] IN c \in CmdSet /\ c.fd = cmd.fd
  <1> DEFINE b == cmd.ok /\ ok
  <1>1. b \in BOOLEAN
    BY DEF CmdSet
  <1> HIDE DEF b
  <1>2. LET c == [cmd EXCEPT !.ok = b] IN c \in CmdSet /\ c.fd = cmd.fd
    BY <1>1 DEF CmdSet
  <1> QED
    BY <1>2 DEF b

\* The end of change_file_owner(); what it had open is closed.
LEMMA FinishStep ==
  ASSUME FtsOK, pc \in {"got", "change", "opened", "ordinary"}, NEW ok \in BOOLEAN, Finish(ok), FsOK', Dirs' = Dirs,
         UNCHANGED <<sp, build, args>>, faults' \in 0..MaxFaults,
         fds' = IF pc = "opened" THEN Closed(fds, {cmd.fd}) ELSE fds
  PROVE  FtsOK'
  <1>1. FsOK /\ TypedOK /\ Sound(sp, fds, cmd.fd) /\ StackOK /\ PcOK /\ ArgsOK /\ cmd \in CmdSet /\ pc \in Current
    BY DEF FtsOK, TypedOK, Current
  <1>2. /\ cmd' = [cmd EXCEPT !.ok = @ /\ ok, !.stat = NONE, !.kind = "unknown", !.own = NoCmd.own, !.fd = NONE]
        /\ stack' = SetCur(EndSkip(cur)) /\ pc' = "read"
    BY DEF Finish
  <1>3. cmd' \in CmdSet /\ cmd'.fd = NONE
    <2> DEFINE b == cmd.ok /\ ok
               no == NONE
               k == "unknown"
               o == NoCmd.own
    <2>1. b \in BOOLEAN /\ no \in Int /\ k \in Kinds \cup {"none", "unknown"} /\ o \in OwnerSet
      BY <1>1 DEF CmdSet, NONE, NoCmd, OwnerSet
    <2>2. cmd' = [cmd EXCEPT !.ok = b, !.stat = no, !.kind = k, !.own = o, !.fd = no]
      BY <1>2
    <2> HIDE DEF b, no, k, o
    <2>3. cmd' \in CmdSet /\ cmd'.fd = no
      BY <1>1, <2>1, <2>2 DEF CmdSet
    <2> QED
      BY <2>3 DEF no
  <1>4. Sound(sp, fds, cmd.fd)'
    <2>1. cmd.fd >= 0 <=> pc = "opened"
      BY <1>1 DEF PcOK
    <2>2. Sound(sp, fds', NONE)
      BY <1>1, <2>1, OwnClosed, OwnNone
    <2>3. Sound(sp', fds', cmd'.fd)
      BY <1>3, <2>2
    <2> QED
      BY <2>3, SoundNext
  <1>5. StackOK'
    <2>1. cur \in EntrySet /\ Len(cur.path) = Len(stack)
      BY <1>1, Found
    <2>2. EndSkip(cur) \in EntrySet /\ Len(EndSkip(cur).path) = Len(stack)
      BY <2>1, EndSkipFacts
    <2> QED
      BY <1>1, <1>2, <2>2, CurReplaced
  <1>6. TypedOK'
    BY <1>1, <1>2, <1>3 DEF TypedOK, Pcs, Current
  <1>7. PcOK'
    <2>1. ~(NONE >= 0)
      BY DEF NONE
    <2> QED
      BY <1>1, <1>2, <1>3, <2>1, PcKept DEF PcOK, Before
  <1>8. ArgsOK'
    BY <1>1, <1>2, ArgsKept DEF Current
  <1> QED
    BY <1>4, <1>5, <1>6, <1>7, <1>8 DEF FtsOK

\* change_file_owner() looks at what fts_read() has returned.
LEMMA ChownVisitOK ==
  ASSUME FtsOK, ChownVisit
  PROVE  FtsOK'
  <1>1. FsOK /\ TypedOK /\ StackOK /\ pc \in Current /\ sp \in Streams /\ cmd \in CmdSet /\ faults \in 0..MaxFaults /\ pc = "got"
    BY DEF FtsOK, Current, Sound, TypedOK, ChownVisit, Got
  <1>2. OwnerVisit /\ UNCHANGED <<faults, fds, fs, build, args>>
    BY DEF ChownVisit, Still
  <1>3. cur \in EntrySet /\ Len(cur.path) = Len(stack)
    BY <1>1, Found
  <1>4. \/ Finish(FALSE) /\ UNCHANGED sp
        \/ /\ pc' = "read" /\ \E ok \in BOOLEAN : cmd' = [cmd EXCEPT !.ok = @ /\ ok]
           /\ sp' \in {sp, [sp EXCEPT !.discard = TRUE]}
           /\ stack' \in {stack, SetCur([cur EXCEPT !.instr = "SKIP"]), SetCur([cur EXCEPT !.number = 1, !.instr = "AGAIN"])}
    BY <1>2 DEF OwnerVisit, Leave, fts_set
  <1>5. CASE Finish(FALSE) /\ UNCHANGED sp
    <2> DEFINE ok == FALSE
    <2>1. ok \in BOOLEAN /\ Finish(ok)
      BY <1>5
    <2> HIDE DEF ok
    <2> QED
      BY <1>1, <1>2, <1>5, <2>1, FsKept, FinishStep
  <1>6. CASE /\ pc' = "read" /\ \E ok \in BOOLEAN : cmd' = [cmd EXCEPT !.ok = @ /\ ok]
             /\ sp' \in {sp, [sp EXCEPT !.discard = TRUE]}
             /\ stack' \in {stack, SetCur([cur EXCEPT !.instr = "SKIP"]), SetCur([cur EXCEPT !.number = 1, !.instr = "AGAIN"])}
    <2>1. cmd' \in CmdSet /\ cmd'.fd = cmd.fd
      BY <1>1, <1>6, OkChanged
    <2>2. Calm
      BY <1>1, <1>6 DEF Streams, Calm
    <2>3. StackOK'
      <3> DEFINE q == [cur EXCEPT !.instr = "SKIP"]
                 a == [cur EXCEPT !.number = 1, !.instr = "AGAIN"]
      <3>1. q \in EntrySet /\ Len(q.path) = Len(stack)
        BY <1>3, EntryChanged
      <3>2. a \in EntrySet /\ Len(a.path) = Len(stack)
        <4> DEFINE one == 1
                   again == "AGAIN"
        <4>1. one \in Int /\ again \in {"none", "SKIP", "AGAIN"}
          OBVIOUS
        <4> HIDE DEF one, again
        <4>2. [cur EXCEPT !.number = one, !.instr = again] \in EntrySet /\ [cur EXCEPT !.number = one, !.instr = again].path = cur.path
          BY <1>3, <4>1 DEF EntrySet
        <4> QED
          BY <1>3, <4>2 DEF one, again
      <3>3. stack' = stack \/ stack' = SetCur(q) \/ stack' = SetCur(a)
        BY <1>6
      <3> HIDE DEF q, a
      <3> QED
        BY <1>1, <1>6, <3>1, <3>2, <3>3, StackKept, CurReplaced
    <2> QED
      BY <1>1, <1>2, <1>6, <2>1, <2>2, <2>3, FsKept, CalmStep DEF Current
  <1> QED
    BY <1>4, <1>5, <1>6

\* change_file_owner() finds out whether and how to change the owner.
LEMMA ChownDecideOK ==
  ASSUME FtsOK, ChownDecide
  PROVE  FtsOK'
  <1> DEFINE through == ~Simple /\ Referent /\ cur.kind = "lnk"
             i == IF through THEN Follow(fs, At(sp, cur)) ELSE cur.ino
             ok == ~through \/ i # NONE
             own == IF through /\ ok THEN fs[i].own ELSE cur.own
             kind == IF through /\ ok THEN fs[i].kind ELSE cur.kind
  <1>1. FsOK /\ TypedOK /\ StackOK /\ pc \in Current /\ sp \in Streams /\ cmd \in CmdSet /\ faults \in 0..MaxFaults /\ pc = "got"
    BY DEF FtsOK, Current, Sound, TypedOK, ChownDecide, Got
  <1>2. UNCHANGED <<faults, sp, fds, fs, build, args>>
    BY DEF ChownDecide, Still
  <1>3. \/ pc' = "change" /\ UNCHANGED stack /\ cmd' = [cmd EXCEPT !.stat = i, !.kind = kind, !.own = own]
        \/ Finish(ok)
    BY DEF ChownDecide
  <1>4. cur \in EntrySet /\ At(sp, cur) \in DOMAIN fs \cup {NONE} /\ DOMAIN fs \subseteq Nat
    BY <1>1, Found DEF FsOK
  <1>5. Follow(fs, At(sp, cur)) \in DOMAIN fs \cup {NONE}
    BY <1>1, <1>4, FollowFacts
  <1>6. i \in Int /\ (through /\ ok => i \in DOMAIN fs) /\ ok \in BOOLEAN
    BY <1>4, <1>5 DEF EntrySet, NONE
  <1>7. own \in OwnerSet /\ kind \in Kinds \cup {"none", "unknown"}
    <2>1. \A k \in DOMAIN fs : fs[k].own \in OwnerSet /\ fs[k].kind \in Kinds
      <3> DEFINE D == DOMAIN fs
      <3>1. \A k \in D : fs[k] \in Files(D)
        BY <1>1 DEF FsOK
      <3> HIDE DEF D
      <3>2. \A k \in D : fs[k].own \in OwnerSet /\ fs[k].kind \in Kinds
        BY <3>1 DEF Files, OwnerSet
      <3> QED
        BY <3>2 DEF D
    <2>2. cur.own \in OwnerSet /\ cur.kind \in Kinds \cup {"none"}
      BY <1>4 DEF EntrySet
    <2> QED
      BY <1>6, <2>1, <2>2
  <1> HIDE DEF own, kind, ok, i
  <1>8. CASE pc' = "change" /\ UNCHANGED stack /\ cmd' = [cmd EXCEPT !.stat = i, !.kind = kind, !.own = own]
    <2>1. cmd' \in CmdSet /\ cmd'.fd = cmd.fd
      BY <1>1, <1>6, <1>7, <1>8 DEF CmdSet
    <2>2. StackOK' /\ Calm
      BY <1>1, <1>2, <1>8, StackKept DEF Calm
    <2> QED
      BY <1>1, <1>2, <1>8, <2>1, <2>2, FsKept, CalmStep DEF Current
  <1>9. CASE Finish(ok)
    BY <1>1, <1>2, <1>6, <1>9, FsKept, FinishStep
  <1> QED
    BY <1>3, <1>8, <1>9

\* A call on inode i leaves files what they are.
LEMMA ChangesFacts ==
  ASSUME FtsOK, IsChown, pc \in Current, NEW i, NEW how, NEW done \in BOOLEAN, done => i \in DOMAIN fs, Changes(i, how, done)
  PROVE  SameFiles /\ Finish(done)
  <1>1. FsOK /\ ArgsOK
    BY DEF FtsOK
  <1>2. fs' = IF done THEN [fs EXCEPT ![i].own = Owned(fs[i].own)] ELSE fs
    BY DEF Changes
  <1>3. CASE done
    <2> DEFINE w == Owned(fs[i].own)
    <2>1. fs[i].own \in OwnerSet
      <3> DEFINE D == DOMAIN fs
      <3>1. fs[i] \in Files(D)
        BY <1>1, <1>3 DEF FsOK
      <3> HIDE DEF D
      <3> QED
        BY <3>1 DEF Files, OwnerSet
    <2>2. opt.to \in IdSet
      BY <1>1, ChownArgsFacts DEF ChownArgs, FinalSet, opt, Current
    <2>3. w \in OwnerSet
      BY <2>1, <2>2 DEF Owned, Onto, OwnerSet, IdSet
    <2>4. fs' = [fs EXCEPT ![i].own = w]
      BY <1>2, <1>3
    <2> HIDE DEF w
    <2> QED
      BY <1>1, <1>3, <2>3, <2>4, OwnerChanged DEF Changes
  <1>4. CASE ~done
    BY <1>1, <1>2, <1>4, FilesKept DEF Changes, FsOK
  <1> QED
    BY <1>3, <1>4

\* An owner is changed, or not, and the descriptor is closed.
LEMMA ChangesStep ==
  ASSUME FtsOK, IsChown, pc \in {"change", "opened", "ordinary"}, NEW i, NEW how, NEW done \in BOOLEAN, done => i \in DOMAIN fs,
         Changes(i, how, done), UNCHANGED <<sp, build, args>>, faults' \in 0..MaxFaults,
         fds' = IF pc = "opened" THEN Closed(fds, {cmd.fd}) ELSE fds
  PROVE  FtsOK'
  <1>1. SameFiles /\ Finish(done)
    BY ChangesFacts DEF Current
  <1> QED
    BY <1>1, FinishStep DEF SameFiles

\* lchown() of a symbolic link.
LEMMA ChownLinkOK ==
  ASSUME FtsOK, ChownLink
  PROVE  FtsOK'
  <1> DEFINE i == At(sp, cur)
  <1>1. pc = "change" /\ IsChown /\ TypedOK /\ FsOK /\ UNCHANGED <<sp, fds, build, args>> /\ pc \in Current
    BY DEF FtsOK, ChownLink, Current
  <1>2. i \in DOMAIN fs \cup {NONE}
    BY <1>1, Found
  <1> HIDE DEF i
  <1>3. \/ \E failed \in BOOLEAN : MayFail(failed) /\ Changes(i, "link", ~failed /\ i # NONE)
        \/ MayFail(TRUE) /\ Finish(TRUE) /\ UNCHANGED fs
    BY DEF ChownLink, i
  <1>4. CASE \E failed \in BOOLEAN : MayFail(failed) /\ Changes(i, "link", ~failed /\ i # NONE)
    <2>1. PICK failed \in BOOLEAN : MayFail(failed) /\ Changes(i, "link", ~failed /\ i # NONE)
      BY <1>4
    <2>2. faults' \in 0..MaxFaults
      BY <1>1, <2>1, FtsAssumption DEF MayFail, TypedOK
    <2> DEFINE done == ~failed /\ i # NONE
    <2>3. done \in BOOLEAN /\ (done => i \in DOMAIN fs) /\ Changes(i, "link", done)
      BY <1>2, <2>1
    <2> HIDE DEF done
    <2> QED
      BY <1>1, <2>2, <2>3, ChangesStep
  <1>5. CASE MayFail(TRUE) /\ Finish(TRUE) /\ UNCHANGED fs
    <2>1. faults' \in 0..MaxFaults
      BY <1>1, <1>5, FtsAssumption DEF MayFail, TypedOK
    <2> DEFINE ok == TRUE
    <2>2. ok \in BOOLEAN /\ Finish(ok)
      BY <1>5
    <2> HIDE DEF ok
    <2> QED
      BY <1>1, <1>5, <2>1, <2>2, FsKept, FinishStep
  <1> QED
    BY <1>3, <1>4, <1>5

\* restricted_chown() opens the file.
LEMMA ChownOpensOK ==
  ASSUME FtsOK, ChownOpens
  PROVE  FtsOK' /\ SameFiles
  <1> DEFINE i == Follow(fs, At(sp, cur))
  <1>1. FsOK /\ TypedOK /\ Sound(sp, fds, cmd.fd) /\ StackOK /\ PcOK /\ ArgsOK /\ pc = "change" /\ IsChown /\ pc \in Current
        /\ cmd \in CmdSet /\ faults \in 0..MaxFaults /\ UNCHANGED <<faults, sp, build, args>>
    BY DEF FtsOK, ChownOpens, Current, TypedOK
  <1>2. i \in DOMAIN fs \cup {NONE}
    BY <1>1, Found, FollowFacts
  <1> HIDE DEF i
  <1>3. \/ pc' = "ordinary" /\ UNCHANGED <<fs, log, cmd, stack, fds>>
        \/ Changes(i, "fd", FALSE) /\ UNCHANGED fds
        \/ /\ i # NONE /\ (cmd.kind \in {"reg", "dir"}) /\ fds' = Opened(fds, i).open /\ cmd' = [cmd EXCEPT !.fd = Opened(fds, i).fd]
           /\ pc' = "opened" /\ UNCHANGED <<fs, log, stack>>
    BY DEF ChownOpens, i
  <1>4. CASE pc' = "ordinary" /\ UNCHANGED <<fs, log, cmd, stack, fds>>
    <2>1. StackOK' /\ Calm
      BY <1>1, <1>4, StackKept DEF Calm, Sound
    <2>2. SameFiles
      BY <1>1, <1>4, FilesKept DEF FsOK
    <2> QED
      BY <1>1, <1>4, <2>1, <2>2, CalmStep DEF Current, SameFiles
  <1>5. CASE Changes(i, "fd", FALSE) /\ UNCHANGED fds
    <2> DEFINE done == FALSE
    <2>1. done \in BOOLEAN /\ (done => i \in DOMAIN fs) /\ Changes(i, "fd", done)
      BY <1>5
    <2> HIDE DEF done
    <2> QED
      BY <1>1, <1>5, <2>1, ChangesStep, ChangesFacts
  <1>6. CASE /\ i # NONE /\ cmd.kind \in {"reg", "dir"} /\ fds' = Opened(fds, i).open /\ cmd' = [cmd EXCEPT !.fd = Opened(fds, i).fd]
             /\ pc' = "opened" /\ UNCHANGED <<fs, log, stack>>
    <2> DEFINE fd == Opened(fds, i).fd
    <2>1. ~(cmd.fd >= 0)
      BY <1>1 DEF PcOK
    <2>0. i \in DOMAIN fs
      BY <1>2, <1>6
    <2>2. Sound(sp, fds', fd) /\ fd \in Int /\ fd >= 0 /\ fd \in DOMAIN fds' /\ fds'[fd] = i
      BY <1>1, <1>6, <2>0, <2>1, OwnOpened
    <2>3. cmd' = [cmd EXCEPT !.fd = fd]
      BY <1>6
    <2> HIDE DEF fd
    <2>4. cmd' \in CmdSet /\ cmd'.fd = fd
      BY <1>1, <2>2, <2>3 DEF CmdSet
    <2>5. SameFiles
      BY <1>1, <1>6, FilesKept DEF FsOK
    <2>6. Sound(sp, fds, cmd.fd)'
      <3>1. Sound(sp', fds', cmd'.fd)
        BY <1>1, <2>2, <2>4
      <3> QED
        BY <2>5, <3>1, SoundNext DEF SameFiles
    <2>7. TypedOK' /\ ArgsOK'
      BY <1>1, <1>6, <2>4, ArgsKept DEF TypedOK, Pcs, Current
    <2>8. StackOK'
      BY <1>1, <1>6, StackKept
    <2>9. PcOK'
      BY <1>1, <1>2, <1>6, <2>2, <2>4 DEF PcOK, NoChdir, Before
    <2> QED
      BY <2>5, <2>6, <2>7, <2>8, <2>9 DEF FtsOK, SameFiles
  <1> QED
    BY <1>3, <1>4, <1>5, <1>6

\* restricted_chown() compares and calls fchown().
LEMMA ChownDescriptorOK ==
  ASSUME FtsOK, ChownDescriptor
  PROVE  FtsOK' /\ SameFiles
  <1> DEFINE i == fds[cmd.fd]
  <1>1. FsOK /\ TypedOK /\ PcOK /\ pc = "opened" /\ IsChown /\ UNCHANGED <<sp, build, args>> /\ fds' = Closed(fds, {cmd.fd}) /\ pc \in Current
    BY DEF FtsOK, ChownDescriptor, Current
  <1>2. i \in DOMAIN fs
    BY <1>1 DEF PcOK
  <1> HIDE DEF i
  <1>3. PICK failed \in BOOLEAN :
           /\ MayFail(failed)
           /\ \/ Finish(TRUE) /\ UNCHANGED fs
              \/ Changes(i, "fd", ~failed /\ SAME_INODE(i))
    BY DEF ChownDescriptor, i
  <1>4. faults' \in 0..MaxFaults
    BY <1>1, <1>3, FtsAssumption DEF MayFail, TypedOK
  <1>5. CASE Finish(TRUE) /\ UNCHANGED fs
    <2> DEFINE ok == TRUE
    <2>1. ok \in BOOLEAN /\ Finish(ok)
      BY <1>5
    <2>2. SameFiles
      BY <1>1, <1>5, FilesKept DEF FsOK
    <2> HIDE DEF ok
    <2> QED
      BY <1>1, <1>4, <2>1, <2>2, FinishStep DEF SameFiles
  <1>6. CASE Changes(i, "fd", ~failed /\ SAME_INODE(i))
    <2> DEFINE done == ~failed /\ SAME_INODE(i)
    <2>1. done \in BOOLEAN /\ Changes(i, "fd", done)
      BY <1>6 DEF SAME_INODE
    <2> HIDE DEF done
    <2> QED
      BY <1>1, <1>2, <1>4, <2>1, ChangesStep, ChangesFacts
  <1> QED
    BY <1>3, <1>5, <1>6

\* chown() of a name.
LEMMA ChownOrdinaryOK ==
  ASSUME FtsOK, ChownOrdinary
  PROVE  FtsOK' /\ SameFiles
  <1> DEFINE i == Follow(fs, At(sp, cur))
  <1>1. FsOK /\ TypedOK /\ pc = "ordinary" /\ IsChown /\ UNCHANGED <<sp, fds, build, args>> /\ pc \in Current
    BY DEF FtsOK, ChownOrdinary, Current
  <1>2. i \in DOMAIN fs \cup {NONE}
    BY <1>1, Found, FollowFacts
  <1> HIDE DEF i
  <1>3. PICK failed \in BOOLEAN : MayFail(failed) /\ Changes(i, "ordinary", ~failed /\ i # NONE)
    BY DEF ChownOrdinary, i
  <1>4. faults' \in 0..MaxFaults
    BY <1>1, <1>3, FtsAssumption DEF MayFail, TypedOK
  <1> DEFINE done == ~failed /\ i # NONE
  <1>5. done \in BOOLEAN /\ (done => i \in DOMAIN fs) /\ Changes(i, "ordinary", done)
    BY <1>2, <1>3
  <1> HIDE DEF done
  <1> QED
    BY <1>1, <1>4, <1>5, ChangesStep, ChangesFacts

\* chown closes the walk and exits.
LEMMA ChownEndOK ==
  ASSUME FtsOK, ChownEnd
  PROVE  FtsOK'
  <1>1. pc = "null" /\ TypedOK /\ UNCHANGED <<stack, log, fs, build, args>>
    BY DEF FtsOK, ChownEnd, Still
  <1>2. PICK failed \in BOOLEAN :
       /\ MayFail(failed)
       /\ fds' = fts_close(Now).fds /\ sp' = [fts_close(Now).sp EXCEPT !.cwd = AT_FDCWD]
       /\ Exit(IF cmd.ok /\ ~sp.errno /\ ~failed THEN 0 ELSE 1)
    BY DEF ChownEnd
  <1>3. faults' \in 0..MaxFaults
    BY <1>1, <1>2, FtsAssumption DEF MayFail, TypedOK
  <1>4. PICK code \in {0, 1} : pc' = "exit" /\ cmd' = [cmd EXCEPT !.exit = code]
    BY <1>2 DEF Exit
  <1> QED
    BY <1>1, <1>2, <1>3, <1>4, EndStep

-----------------------------------------------------------------------------
(* The programs together.                                                   *)

LEMMA FtsInitOK ==
  ASSUME FtsInit
  PROVE  FtsOK
  <1>1. /\ pc = "options" /\ fs \in FileSystems /\ faults = MaxFaults /\ build \in [ndebug : BOOLEAN, dtype : BOOLEAN]
        /\ sp = NoStream /\ fds = <<>> /\ stack = <<>> /\ cmd = NoCmd /\ log = NoLog
    BY DEF FtsInit, RmInit, ChownInit
  <1>2. FsOK
    BY <1>1, FilesAssumption DEF FsOK
  <1>3. cmd \in CmdSet /\ cmd.fd = NONE
    <2> DEFINE no == NONE
               z == 0
               k == "unknown"
               o == NoCmd.own
    <2>1. no \in Int /\ no \in {NONE, 0, 1} /\ z \in Int /\ k \in Kinds \cup {"none", "unknown"} /\ o \in OwnerSet
      BY DEF NONE, NoCmd, OwnerSet
    <2>2. cmd = [status |-> "OK", exit |-> no, wp |-> z, kind |-> k, ok |-> TRUE, stat |-> no, own |-> o, fd |-> no]
      BY <1>1 DEF NoCmd
    <2> HIDE DEF no, z, k, o
    <2>3. cmd \in CmdSet /\ cmd.fd = no
      BY <2>1, <2>2 DEF CmdSet
    <2> QED
      BY <2>3 DEF no
  <1>4. TypedOK
    BY <1>1, <1>3, FtsAssumption DEF TypedOK, Pcs, Before
  <1>5. Sound(sp, fds, cmd.fd)
    <2>1. NoStream.dirp = NONE /\ NoStream.ring = i_ring_init
      BY DEF NoStream
    <2>2. Sound(NoStream, <<>>, NONE)
      BY <2>1, NoStreamFacts, NothingOpen
    <2> QED
      BY <1>1, <1>3, <2>2
  <1>6. StackOK
    <2>1. Based(<<>>)
      BY DEF Based, Levels
    <2> QED
      BY <1>1, <2>1 DEF StackOK, Current
  <1>7. PcOK
    <2>1. ~(NONE >= 0)
      BY DEF NONE
    <2> QED
      BY <1>1, <1>3, <2>1, NoStreamFacts DEF PcOK, Before
  <1>8. ArgsOK
    <2> DEFINE S == Seq(STRING)
               l == MaxOptions
    <2>0. l \in Int
      BY OptionsAssumption
    <2>1. CASE RmInit
      <3> DEFINE o == rm_option_init
      <3>1. o \in RmOptSet
        BY DEF rm_option_init, RmOptSet
      <3>2. PICK ops \in Operands["rm"], tty \in BOOLEAN, root \in BOOLEAN :
               args = [prog |-> "rm", ops |-> ops, left |-> l, tty |-> tty, root |-> root, opt |-> o]
        BY <2>1 DEF RmInit
      <3>3. ops \in S
        BY FilesAssumption
      <3> HIDE DEF S, l, o
      <3>4. args \in [prog : {"rm"}, ops : S, left : Int, tty : BOOLEAN, root : BOOLEAN, opt : RmOptSet]
        BY <2>0, <3>1, <3>2, <3>3
      <3> QED
        BY <3>4 DEF ArgsOK, RmArgs, S
    <2>2. CASE ChownInit
      <3> DEFINE o == chopt_init
      <3>1. o \in ChoptSet
        <4> DEFINE no == NONE
                   from == Ids(NONE, NONE)
                   fl == {"PHYSICAL"}
        <4>1. no \in Int /\ from \in IdSet /\ fl \in FlagSets
          BY IdFacts DEF FlagSets
        <4>2. o = [flags |-> fl, deref |-> no, preserve |-> FALSE, recurse |-> FALSE, verbose |-> FALSE, reference |-> FALSE, from |-> from]
          BY DEF chopt_init
        <4> HIDE DEF no, from, fl, o
        <4> QED
          BY <4>1, <4>2 DEF ChoptSet
      <3>2. PICK prog \in {"chown", "chgrp"} : \E ops \in Operands[prog] :
               args = [prog |-> prog, ops |-> ops, left |-> l, opt |-> o]
        BY <2>2 DEF ChownInit
      <3>3. PICK ops \in Operands[prog] : args = [prog |-> prog, ops |-> ops, left |-> l, opt |-> o]
        BY <3>2
      <3>4. ops \in S
        BY FilesAssumption
      <3> HIDE DEF S, l, o
      <3>5. args \in [prog : {"chown", "chgrp"}, ops : S, left : Int, opt : ChoptSet]
        BY <2>0, <3>1, <3>3, <3>4
      <3> QED
        BY <1>1, <3>5 DEF ArgsOK, ChownArgs, S
    <2> QED
      BY <2>1, <2>2 DEF FtsInit
  <1> QED
    BY <1>2, <1>4, <1>5, <1>6, <1>7, <1>8 DEF FtsOK

\* Every step of rm, chown and chgrp keeps the invariant.
LEMMA FtsNextOK ==
  ASSUME FtsOK, FtsNext
  PROVE  FtsOK'
  <1>1. CASE World
    BY <1>1, WorldOK
  <1>2. CASE Walk
    BY <1>2, ReadAgainOK, ReadSkippedOK, BuildOpenOK, BuildChdirOK, BuildReadOK, BuildBackOK, ReadNextOK, ReadUpOK,
       CheckForDirOK, EnterDirOK, DiscardOK DEF Walk
  <1>3. CASE Rm
    BY <1>3, RmOptionOK, RmUsageOK, RmMainOK, RmDirectoryOK, RmProtectedOK, RmPromptOK, RmExciseOK, RmEndOK DEF Rm
  <1>4. CASE Chown
    BY <1>4, ChownOptionOK, ChownUsageOK, ChownParseOK, ChownOpenOK, ChownVisitOK, ChownDecideOK, ChownLinkOK,
       ChownOpensOK, ChownDescriptorOK, ChownOrdinaryOK, ChownEndOK DEF Chown
  <1> QED
    BY <1>1, <1>2, <1>3, <1>4 DEF FtsNext

-----------------------------------------------------------------------------
(* What the programs have done: files that were removed, asked about, given *)
(* to somebody.                                                             *)

Whats == {"refused", "failed", "declined", "missing", "removed", "kept", "changed", "unsupported"}
Reports == Seq(Words) \X Whats
ChangeSet == [ino : Int, how : {"link", "fd", "ordinary"}, level : Int, same : BOOLEAN, match : BOOLEAN]
RemovalSet == [path : Seq(Words), ino : Int, dir : Int]
LogSet ==
  [out : Seq(Reports), bad : BOOLEAN, changed : SUBSET ChangeSet, removed : SUBSET RemovalSet, asked : SUBSET Seq(Words)]

\* The fields of the log.
LEMMA LogFacts ==
  ASSUME log \in LogSet
  PROVE  /\ log.out \in Seq(Reports) /\ log.bad \in BOOLEAN /\ log.changed \subseteq ChangeSet
         /\ log.removed \subseteq RemovalSet /\ log.asked \subseteq Seq(Words)
  BY DEF LogSet

\* A report is added to the log.
LEMMA LogOut ==
  ASSUME log \in LogSet, NEW o \in Seq(Reports)
  PROVE  /\ [log EXCEPT !.out = o] \in LogSet /\ [log EXCEPT !.out = o].out = o
         /\ [log EXCEPT !.out = o].bad = log.bad /\ [log EXCEPT !.out = o].changed = log.changed
         /\ [log EXCEPT !.out = o].removed = log.removed /\ [log EXCEPT !.out = o].asked = log.asked
  <1> DEFINE S == Seq(Reports)
             P == Seq(Words)
  <1>1. LogSet = [out : S, bad : BOOLEAN, changed : SUBSET ChangeSet, removed : SUBSET RemovalSet, asked : SUBSET P]
    BY DEF LogSet
  <1>2. o \in S
    OBVIOUS
  <1> HIDE DEF S, P
  <1> QED
    BY <1>1, <1>2

\* A removal is added to the log.
LEMMA LogRemoved ==
  ASSUME log \in LogSet, NEW o \in Seq(Reports), NEW r \in SUBSET RemovalSet
  PROVE  /\ [log EXCEPT !.out = o, !.removed = r] \in LogSet /\ [log EXCEPT !.out = o, !.removed = r].out = o
         /\ [log EXCEPT !.out = o, !.removed = r].bad = log.bad /\ [log EXCEPT !.out = o, !.removed = r].changed = log.changed
         /\ [log EXCEPT !.out = o, !.removed = r].removed = r /\ [log EXCEPT !.out = o, !.removed = r].asked = log.asked
  <1> DEFINE S == Seq(Reports)
             P == Seq(Words)
  <1>1. LogSet = [out : S, bad : BOOLEAN, changed : SUBSET ChangeSet, removed : SUBSET RemovalSet, asked : SUBSET P]
    BY DEF LogSet
  <1>2. o \in S
    OBVIOUS
  <1> HIDE DEF S, P
  <1> QED
    BY <1>1, <1>2

\* A question is added to the log.
LEMMA LogAsked ==
  ASSUME log \in LogSet, NEW a \in SUBSET Seq(Words)
  PROVE  /\ [log EXCEPT !.asked = a] \in LogSet /\ [log EXCEPT !.asked = a].out = log.out
         /\ [log EXCEPT !.asked = a].bad = log.bad /\ [log EXCEPT !.asked = a].changed = log.changed
         /\ [log EXCEPT !.asked = a].removed = log.removed /\ [log EXCEPT !.asked = a].asked = a
  <1> DEFINE S == Seq(Reports)
             P == Seq(Words)
  <1>1. LogSet = [out : S, bad : BOOLEAN, changed : SUBSET ChangeSet, removed : SUBSET RemovalSet, asked : SUBSET P]
    BY DEF LogSet
  <1>2. a \in SUBSET P
    OBVIOUS
  <1> HIDE DEF S, P
  <1> QED
    BY <1>1, <1>2

\* A report is one of the reports there are.
LEMMA Reporting ==
  ASSUME log \in LogSet, NEW path \in Seq(Words), NEW what \in Whats
  PROVE  Append(log.out, <<path, what>>) \in Seq(Reports)
  <1> DEFINE o == log.out
             e == <<path, what>>
             R == Reports
  <1>1. o \in Seq(R)
    BY LogFacts
  <1>2. e \in R
    BY DEF Reports
  <1> HIDE DEF o, e, R
  <1>3. Append(o, e) \in Seq(R)
    BY <1>1, <1>2
  <1> QED
    BY <1>3 DEF o, e, R

\* A report of rm, and one of chown.
LEMMA ReportLog ==
  ASSUME log \in LogSet, cur.path \in Seq(Words), NEW s, NEW what \in Whats, Report(s, what)
  PROVE  /\ log' \in LogSet /\ log'.changed = log.changed /\ log'.removed = log.removed /\ log'.asked = log.asked
         /\ log'.out = Append(log.out, <<cur.path, what>>)
  <1> DEFINE o == Append(log.out, <<cur.path, what>>)
  <1>1. o \in Seq(Reports)
    BY Reporting
  <1>2. log' = [log EXCEPT !.out = o]
    BY DEF Report
  <1> HIDE DEF o
  <1>3. log' \in LogSet /\ log'.changed = log.changed /\ log'.removed = log.removed /\ log'.asked = log.asked /\ log'.out = o
    BY <1>1, <1>2, LogOut
  <1> QED
    BY <1>3 DEF o

\* What is noted of an operand says nothing of changes and removals.
LEMMA OutcomeLog ==
  ASSUME log \in LogSet, cur.path \in Seq(Words), NEW what \in Whats
  PROVE  /\ Outcome(what) \in LogSet /\ Outcome(what).changed = log.changed /\ Outcome(what).removed = log.removed
         /\ Outcome(what).asked = log.asked
         /\ Outcome(what).out = IF Level(cur) > 0 THEN log.out ELSE Append(log.out, <<cur.path, what>>)
  <1> DEFINE o == IF Level(cur) > 0 THEN log.out ELSE Append(log.out, <<cur.path, what>>)
             b == log.bad \/ what = "failed"
  <1>1. o \in Seq(Reports) /\ b \in BOOLEAN
    BY Reporting, LogFacts
  <1>2. Outcome(what) = [log EXCEPT !.bad = b, !.out = o]
    BY DEF Outcome
  <1> HIDE DEF o, b
  <1> DEFINE t == [log EXCEPT !.bad = b, !.out = o]
  <1>3. /\ t \in LogSet /\ t.changed = log.changed /\ t.removed = log.removed /\ t.asked = log.asked /\ t.out = o
    <2> DEFINE S == Seq(Reports)
               P == Seq(Words)
    <2>1. LogSet = [out : S, bad : BOOLEAN, changed : SUBSET ChangeSet, removed : SUBSET RemovalSet, asked : SUBSET P] /\ o \in S
      BY <1>1 DEF LogSet
    <2> HIDE DEF S, P
    <2> QED
      BY <1>1, <2>1
  <1> HIDE DEF t
  <1>4. Outcome(what) = t
    BY <1>2 DEF t
  <1> QED
    BY <1>3, <1>4 DEF o

\* One of the calls that change an owner: what is noted.
Noted(i, how, done) ==
  /\ log' \in LogSet /\ log'.removed = log.removed
  /\ \E e : /\ log'.changed = log.changed \cup e
            /\ \A c \in e : done /\ c.how = how /\ c.same = (i = cmd.stat) /\ c.match = Matches(fs[i].own)
  /\ log'.out = IF Level(cur) > 0 THEN log.out ELSE Append(log.out, <<cur.path, IF done THEN "changed" ELSE "failed">>)

\* What is noted when an owner is changed, or not.
LEMMA ChangesLog ==
  ASSUME log \in LogSet, cur \in EntrySet, NEW i, NEW how \in {"link", "fd", "ordinary"}, NEW done \in BOOLEAN, done => i \in Int,
         Changes(i, how, done)
  PROVE  Noted(i, how, done)
  <1> DEFINE what == IF done THEN "changed" ELSE "failed"
             b == Outcome(what)
             lev == Level(cur)
             same == i = cmd.stat
             match == Matches(fs[i].own)
             c == [ino |-> i, how |-> how, level |-> lev, same |-> same, match |-> match]
             e == IF done THEN {c} ELSE {}
  <1>1. cur.path \in Seq(Words) /\ lev \in Int
    <2> DEFINE W == Words
               path == cur.path
    <2>1. path \in Seq(W)
      BY DEF EntrySet
    <2> HIDE DEF W, path
    <2>2. Len(path) \in Int
      BY <2>1
    <2> QED
      BY <2>1, <2>2 DEF Level, path, W
  <1>2. what \in Whats
    BY DEF Whats
  <1>3. /\ b \in LogSet /\ b.changed = log.changed /\ b.removed = log.removed
        /\ b.out = IF Level(cur) > 0 THEN log.out ELSE Append(log.out, <<cur.path, what>>)
    BY <1>1, <1>2, OutcomeLog
  <1>4. log' = [b EXCEPT !.changed = IF done THEN b.changed \cup {c} ELSE b.changed]
    BY <1>3 DEF Changes, LogSet
  <1>5. same \in BOOLEAN /\ match \in BOOLEAN
    BY DEF Matches
  <1> HIDE DEF b, what, lev, same, match
  <1>6. done => c \in ChangeSet
    BY <1>1, <1>5 DEF ChangeSet
  <1>7. \A x \in e : done /\ x.how = how /\ x.same = same /\ x.match = match
    OBVIOUS
  <1> HIDE DEF c
  <1> DEFINE n == b.changed \cup e
  <1>8. n \in SUBSET ChangeSet
    BY <1>3, <1>6 DEF LogSet
  <1>9. log' = [b EXCEPT !.changed = n]
    BY <1>4
  <1>10. n = log.changed \cup e
    BY <1>3
  <1> HIDE DEF e, n
  <1>11. [b EXCEPT !.changed = n] \in LogSet /\ [b EXCEPT !.changed = n].changed = n /\ [b EXCEPT !.changed = n].removed = b.removed
         /\ [b EXCEPT !.changed = n].out = b.out
    <2> DEFINE S == Seq(Reports)
               P == Seq(Words)
    <2>1. LogSet = [out : S, bad : BOOLEAN, changed : SUBSET ChangeSet, removed : SUBSET RemovalSet, asked : SUBSET P]
      BY DEF LogSet
    <2> HIDE DEF S, P
    <2> QED
      BY <1>3, <1>8, <2>1
  <1> QED
    BY <1>3, <1>7, <1>9, <1>10, <1>11 DEF Noted, same, match, what

-----------------------------------------------------------------------------
(* Owners and protected files.                                              *)

\* rm asks if it is to ask at all.
Protective == IsRm /\ Quiet /\ ~args.root /\ ChecksProtection /\ args.opt.interactive # "NEVER"
Open(i) == i = NONE \/ fs[i].wr \/ fs[i].kind = "lnk"
Asking ==
  /\ \A r \in log.removed : r.path \in log.asked \/ fs[r.ino].wr \/ fs[r.ino].kind = "lnk"
  /\ pc = "prompt" => /\ cmd.wp = write_protected(At(sp, cur))
                      /\ At(sp, cur) = NONE \/ cmd.kind \in {"unknown", fs[At(sp, cur)].kind}
  /\ pc = "excise" => cur.path \in log.asked \/ Open(At(sp, cur))

\* The ids to give are the parsed specification, as long as it is kept.
DotParsed == args.prog = "chown" /\ pc = "open" => opt.spec = NoSpec \/ opt.to = parse_user_spec(opt.spec)

OwnInv ==
  /\ log \in LogSet /\ \A r \in log.removed : r.ino \in DOMAIN fs
  /\ FromRespected /\ DotParsed
  /\ Protective => Asking

\* The file a name refers to, when nothing has moved.
LEMMA AtKept ==
  ASSUME FsOK, UNCHANGED <<fs, sp, fds, stack>>
  PROVE  At(sp, cur)' = At(sp, cur) /\ cur' = cur
  BY DEF At, cur, DirOf, Find, Enter, IsDir, Follow, NoChdir

\* A failure is one of those that may still happen.
LEMMA SpendFacts ==
  ASSUME faults \in Int, NEW failed \in BOOLEAN, MayFail(failed)
  PROVE  faults' <= faults
  BY DEF MayFail

\* Where a step of the walk leads, and what it leaves alone.
WalkPcs == {"read", "chdir", "readdir", "back", "check", "enter", "got", "null", "crash"}
\* fts_read() changes no file and notes nothing.
LEMMA WalkFacts ==
  ASSUME Walk, TypedOK
  PROVE  UNCHANGED <<fs, build, args, cmd, log>> /\ pc' \in WalkPcs /\ faults' <= faults
  <1>0. faults \in Int
    BY FtsAssumption DEF TypedOK
  <1>1. CASE ReadAgain
    BY <1>0, <1>1 DEF ReadAgain, Keep, WalkPcs
  <1>2. CASE ReadSkipped
    BY <1>0, <1>2 DEF ReadSkipped, Keep, WalkPcs, Return
  <1>3. CASE BuildOpen
    BY <1>0, <1>3, SpendFacts DEF BuildOpen, Keep, WalkPcs, Return
  <1>4. CASE BuildChdir
    BY <1>0, <1>4, SpendFacts DEF BuildChdir, Keep, WalkPcs, Return
  <1>5. CASE BuildRead
    BY <1>0, <1>5, SpendFacts DEF BuildRead, Keep, WalkPcs
  <1>6. CASE BuildBack
    BY <1>0, <1>6, SpendFacts DEF BuildBack, Keep, WalkPcs, Return
  <1>7. CASE ReadNext
    BY <1>0, <1>7 DEF ReadNext, Keep, WalkPcs
  <1>8. CASE ReadUp
    <2> DEFINE back == Return(parent)
    <2>1. back \in {"got", "crash"}
      BY DEF Return
    <2> HIDE DEF back
    <2>2. \/ pc' = "null" /\ UNCHANGED faults
          \/ \E failed \in BOOLEAN : MayFail(failed) /\ pc' \in {"null", "got", back}
      BY <1>8 DEF ReadUp, back
    <2>3. pc' \in WalkPcs /\ faults' <= faults
      BY <1>0, <2>1, <2>2, SpendFacts DEF WalkPcs
    <2> QED
      BY <1>8, <2>3 DEF ReadUp, Keep
  <1>9. CASE CheckForDir
    BY <1>0, <1>9, SpendFacts DEF CheckForDir, Keep, WalkPcs
  <1>10. CASE enter_dir
    BY <1>0, <1>10, SpendFacts DEF enter_dir, Keep, WalkPcs
  <1>11. CASE Discard
    BY <1>0, <1>11 DEF Discard, Keep, WalkPcs
  <1> QED
    BY <1>1, <1>2, <1>3, <1>4, <1>5, <1>6, <1>7, <1>8, <1>9, <1>10, <1>11 DEF Walk

\* A step that removes nothing, and changes no owner.
LEMMA OwnKept ==
  ASSUME OwnInv, FsOK, SameFiles, TypedOK, args' = args,
         log' \in LogSet, log'.changed = log.changed, log'.removed = log.removed, log'.asked = log.asked, faults' <= faults, faults' \in Int,
         pc' \notin {"open", "prompt", "excise"}
  PROVE  OwnInv'
  <1>1. log' \in LogSet /\ (\A r \in log'.removed : r.ino \in DOMAIN fs') /\ FromRespected'
    BY DEF OwnInv, SameFiles, FromRespected
  <1>2. DotParsed'
    BY DEF DotParsed
  <1>3. ASSUME Protective'
        PROVE  Asking'
    <2>1. Protective
      BY <1>3, FtsAssumption DEF Protective, IsRm, Quiet, ChecksProtection, TypedOK
    <2>2. \A r \in log.removed : r.path \in log.asked \/ fs[r.ino].wr \/ fs[r.ino].kind = "lnk"
      BY <2>1 DEF OwnInv, Asking
    <2>3. \A r \in log'.removed : r.path \in log'.asked \/ fs'[r.ino].wr \/ fs'[r.ino].kind = "lnk"
      BY <2>2 DEF OwnInv, SameFiles
    <2> QED
      BY <2>3 DEF Asking
  <1> QED
    BY <1>1, <1>2, <1>3 DEF OwnInv

\* A step of another process: from now on rm has an excuse.
LEMMA WorldOwn ==
  ASSUME FtsOK, OwnInv, World
  PROVE  OwnInv'
  <1>1. SameFiles /\ TypedOK /\ UNCHANGED <<pc, args, log>> /\ faults' = faults - 1
    BY WorldFiles DEF FtsOK, World
  <1>2. log' \in LogSet /\ (\A r \in log'.removed : r.ino \in DOMAIN fs') /\ FromRespected' /\ DotParsed'
    BY <1>1 DEF OwnInv, SameFiles, FromRespected, DotParsed, opt
  <1>3. ~Protective'
    BY <1>1, FtsAssumption DEF Protective, Quiet, TypedOK
  <1> QED
    BY <1>2, <1>3 DEF OwnInv

\* So a walk keeps what is known of owners and questions.
LEMMA WalkOwn ==
  ASSUME FtsOK, OwnInv, Walk
  PROVE  OwnInv'
  <1>1. TypedOK /\ FsOK
    BY DEF FtsOK
  <1>2. UNCHANGED <<fs, build, args, cmd, log>> /\ pc' \in WalkPcs /\ faults' <= faults
    BY <1>1, WalkFacts
  <1>3. FtsOK'
    BY FtsNextOK DEF FtsNext
  <1>4. faults' \in Int
    BY <1>3, FtsAssumption DEF FtsOK, TypedOK
  <1>5. SameFiles
    BY <1>1, <1>2, FilesKept DEF FsOK
  <1>6. log \in LogSet /\ pc' \notin {"open", "prompt", "excise"}
    BY <1>2 DEF OwnInv, WalkPcs
  <1> QED
    BY <1>1, <1>2, <1>4, <1>5, <1>6, OwnKept

\* Before the walk nothing has been noted.
LEMMA EarlyOwn ==
  ASSUME FtsOK, OwnInv, pc \in Before, UNCHANGED <<fs, log>>, DotParsed', pc' \notin {"prompt", "excise"}
  PROVE  OwnInv'
  <1>1. log = NoLog
    BY DEF FtsOK, PcOK
  <1>2. log' \in LogSet /\ log'.removed = {} /\ log'.changed = {}
    BY <1>1 DEF OwnInv, NoLog
  <1>3. FromRespected'
    BY <1>2 DEF FromRespected
  <1>4. Asking'
    BY <1>2 DEF Asking
  <1> QED
    BY <1>2, <1>3, <1>4 DEF OwnInv

\* rm keeps it: it removes a protected file after the question only.
LEMMA RmOwn ==
  ASSUME FtsOK, OwnInv, Rm
  PROVE  OwnInv'
  <1>1. TypedOK /\ FsOK /\ IsRm /\ ArgsOK
    BY DEF FtsOK, Rm, RmOption, RmUsage, RmMain, RmDirectory, RmProtected, RmPrompt, RmExcise, RmEnd
  <1>2. FtsOK'
    BY FtsNextOK DEF FtsNext
  <1>3. faults \in Int /\ faults' \in Int /\ faults \in 0..MaxFaults
    BY <1>1, <1>2, FtsAssumption DEF FtsOK, TypedOK
  <1>4. fs' = fs => SameFiles
    BY <1>1, FilesKept DEF FsOK
  <1>5. args.prog = "rm"
    BY <1>1 DEF IsRm
  <1>6. CASE RmOption
    BY <1>1, <1>6, EarlyOwn DEF RmOption, Before, DotParsed
  <1>7. CASE RmUsage
    BY <1>1, <1>7, EarlyOwn DEF RmUsage, Before, DotParsed, Exit, Still
  <1>8. CASE RmMain
    BY <1>1, <1>8, EarlyOwn DEF RmMain, Before, DotParsed, Exit
  <1>9. CASE RmDirectory
    <2>1. pc = "got" /\ pc' = "read" /\ UNCHANGED <<fs, args, faults>> /\ Report("ERROR", "refused") /\ "refused" \in Whats
      BY <1>9 DEF RmDirectory, Got, Still, Whats
    <2>2. cur.path \in Seq(Words) /\ log \in LogSet
      BY <2>1, Found DEF Current, OwnInv
    <2>3. log' \in LogSet /\ log'.changed = log.changed /\ log'.removed = log.removed /\ log'.asked = log.asked
      BY <2>1, <2>2, ReportLog
    <2> QED
      BY <1>1, <1>3, <1>4, <2>1, <2>3, OwnKept
  <1>10. CASE RmProtected
    <2> DEFINE i == At(sp, cur)
    <2>1. pc = "got" /\ pc' = "prompt" /\ UNCHANGED <<faults, sp, fds, fs, build, args, stack, log>>
      BY <1>10 DEF RmProtected, Got, Still
    <2>2. log' \in LogSet /\ (\A r \in log'.removed : r.ino \in DOMAIN fs') /\ FromRespected' /\ DotParsed'
      BY <2>1 DEF OwnInv, FromRespected, DotParsed
    <2>3. ASSUME Protective'
          PROVE  Asking'
      <3>1. Protective /\ ~args.root
        BY <2>1, <2>3 DEF Protective, IsRm, Quiet, ChecksProtection
      <3>2. At(sp, cur)' = i
        BY <1>1, <2>1, AtKept
      <3>3. cmd \in CmdSet
        BY <1>1 DEF TypedOK
      <3> DEFINE w == write_protected(i)
                 k == IF i # NONE THEN fs[i].kind ELSE "unknown"
      <3>4. cmd' = [cmd EXCEPT !.wp = w, !.kind = k]
        BY <1>10, <3>1 DEF RmProtected, Protective
      <3> HIDE DEF w, k, i
      <3>5. cmd'.wp = w /\ cmd'.kind = k
        BY <3>3, <3>4 DEF CmdSet
      <3>6. write_protected(At(sp, cur))' = w
        BY <2>1, <3>2 DEF write_protected, w
      <3>7. \A r \in log.removed : r.path \in log.asked \/ fs[r.ino].wr \/ fs[r.ino].kind = "lnk"
        BY <3>1 DEF OwnInv, Asking
      <3>8. (At(sp, cur) = NONE \/ cmd.kind \in {"unknown", fs[At(sp, cur)].kind})'
        BY <2>1, <3>2, <3>5 DEF k
      <3> QED
        BY <2>1, <3>5, <3>6, <3>7, <3>8 DEF Asking
    <2> QED
      BY <2>2, <2>3 DEF OwnInv
  <1>11. CASE RmPrompt
    <2> DEFINE i == At(sp, cur)
               kind == Seen(i)
               always == args.opt.interactive = "ALWAYS"
               asks == args.opt.interactive # "NEVER" /\ (cmd.wp # 0 \/ always)
               fails == cmd.wp < 0 \/ kind = "none" \/ (kind = "dir" /\ ~args.opt.recursive)
    <2>1. pc = "prompt" /\ UNCHANGED <<faults, sp, fds, fs, build, args, stack>>
      BY <1>11 DEF RmPrompt, Still
    <2>2. cur.path \in Seq(Words) /\ log \in LogSet /\ i \in DOMAIN fs \cup {NONE}
      BY <2>1, Found DEF Current, OwnInv
    <2>3. \/ pc' = "excise" /\ log' = log /\ (~asks \/ (~fails /\ kind = "lnk" /\ ~always))
          \/ pc' = "excise" /\ log' = [log EXCEPT !.asked = @ \cup {cur.path}]
          \/ pc' = "read" /\ (Report("ERROR", "failed") \/ Report("DECLINED", "declined"))
      BY <1>11 DEF RmPrompt
    <2>4. CASE pc' = "read" /\ (Report("ERROR", "failed") \/ Report("DECLINED", "declined"))
      <3>1. "failed" \in Whats /\ "declined" \in Whats
        BY DEF Whats
      <3>2. log' \in LogSet /\ log'.changed = log.changed /\ log'.removed = log.removed /\ log'.asked = log.asked
        BY <2>2, <2>4, <3>1, ReportLog
      <3> QED
        BY <1>1, <1>3, <1>4, <2>1, <2>4, <3>2, OwnKept
    <2>5. CASE pc' = "excise" /\ log' = [log EXCEPT !.asked = @ \cup {cur.path}]
      <3> DEFINE a == log.asked \cup {cur.path}
      <3>1. a \in SUBSET Seq(Words)
        BY <2>2, LogFacts
      <3>2. log' = [log EXCEPT !.asked = a]
        BY <2>5
      <3> HIDE DEF a
      <3>3. log' \in LogSet /\ log'.changed = log.changed /\ log'.removed = log.removed /\ log'.asked = a
        BY <2>2, <3>1, <3>2, LogAsked
      <3>4. (\A r \in log'.removed : r.ino \in DOMAIN fs') /\ FromRespected' /\ DotParsed'
        BY <2>1, <2>5, <3>3 DEF OwnInv, FromRespected, DotParsed
      <3>5. ASSUME Protective'
            PROVE  Asking'
        <4>1. Protective
          BY <2>1, <3>5 DEF Protective, IsRm, Quiet, ChecksProtection
        <4>2. \A r \in log.removed : r.path \in log.asked \/ fs[r.ino].wr \/ fs[r.ino].kind = "lnk"
          BY <4>1 DEF OwnInv, Asking
        <4>3. cur' = cur
          BY <1>1, <2>1, AtKept
        <4>4. cur' .path \in log'.asked
          BY <3>3, <4>3 DEF a
        <4>5. log.asked \subseteq log'.asked
          BY <3>3 DEF a
        <4> QED
          BY <2>1, <2>5, <3>3, <4>2, <4>4, <4>5 DEF Asking
      <3> QED
        BY <3>3, <3>4, <3>5 DEF OwnInv
    <2>6. CASE pc' = "excise" /\ log' = log /\ (~asks \/ (~fails /\ kind = "lnk" /\ ~always))
      <3>1. log' \in LogSet /\ (\A r \in log'.removed : r.ino \in DOMAIN fs') /\ FromRespected' /\ DotParsed'
        BY <2>1, <2>6 DEF OwnInv, FromRespected, DotParsed
      <3>2. ASSUME Protective'
            PROVE  Asking'
        <4>1. Protective
          BY <2>1, <3>2 DEF Protective, IsRm, Quiet, ChecksProtection
        <4>2. /\ \A r \in log.removed : r.path \in log.asked \/ fs[r.ino].wr \/ fs[r.ino].kind = "lnk"
              /\ cmd.wp = write_protected(i)
              /\ i = NONE \/ cmd.kind \in {"unknown", fs[i].kind}
          BY <2>1, <4>1 DEF OwnInv, Asking
        <4>3. Open(i)
          <5>1. CASE ~asks
            BY <4>1, <4>2, <5>1 DEF Protective, write_protected, Open
          <5>2. CASE ~fails /\ kind = "lnk" /\ ~always
            BY <4>2, <5>2 DEF Seen, Open
          <5> QED
            BY <2>6, <5>1, <5>2
        <4>4. At(sp, cur)' = i
          BY <1>1, <2>1, AtKept
        <4> HIDE DEF i
        <4>5. Open(At(sp, cur))'
          BY <2>1, <4>3, <4>4 DEF Open
        <4> QED
          BY <2>1, <2>6, <4>2, <4>5 DEF Asking
      <3> QED
        BY <3>1, <3>2 DEF OwnInv
    <2> QED
      BY <2>3, <2>4, <2>5, <2>6
  <1>12. CASE RmExcise
    <2> DEFINE d == DirOf(sp.cwd)
               i == At(sp, cur)
    <2>1. pc = "excise" /\ pc' = "read" /\ UNCHANGED args
      BY <1>12 DEF RmExcise
    <2>2. cur.path \in Seq(Words) /\ log \in LogSet /\ i \in DOMAIN fs \cup {NONE} /\ d \in DOMAIN fs /\ DOMAIN fs \subseteq Nat
      BY <1>1, <2>1, Found DEF Current, OwnInv, FsOK
    <2>3. SameFiles
      BY <1>12, RmExciseOK
    <2>4. faults' <= faults
      BY <1>3, <1>12, SpendFacts DEF RmExcise
    <2>5. \/ Report(IF args.opt.ignore THEN "OK" ELSE "ERROR", "missing")
          \/ Report("ERROR", "failed")
          \/ i # NONE /\ log' = [log EXCEPT !.out = Append(@, <<cur.path, "removed">>),
                                             !.removed = @ \cup {[path |-> cur.path, ino |-> i, dir |-> d]}]
      BY <1>12 DEF RmExcise
    <2>6. CASE \E s : Report(s, "missing") \/ Report(s, "failed")
      <3>1. "failed" \in Whats /\ "missing" \in Whats
        BY DEF Whats
      <3>2. log' \in LogSet /\ log'.changed = log.changed /\ log'.removed = log.removed /\ log'.asked = log.asked
        BY <2>2, <2>6, <3>1, ReportLog
      <3> QED
        BY <1>1, <1>3, <2>1, <2>3, <2>4, <3>2, OwnKept
    <2>7. CASE i # NONE /\ log' = [log EXCEPT !.out = Append(@, <<cur.path, "removed">>),
                                             !.removed = @ \cup {[path |-> cur.path, ino |-> i, dir |-> d]}]
      <3> DEFINE what == "removed"
                 o == Append(log.out, <<cur.path, what>>)
                 path == cur.path
                 e == [path |-> path, ino |-> i, dir |-> d]
                 r == log.removed \cup {e}
      <3>1. what \in Whats
        BY DEF Whats
      <3>2. o \in Seq(Reports)
        BY <2>2, <3>1, Reporting
      <3>3. r \in SUBSET RemovalSet
        <4>1. i \in Int /\ d \in Int /\ path \in Seq(Words)
          BY <2>2 DEF NONE
        <4> HIDE DEF i, d, path
        <4> QED
          BY <2>2, <4>1, LogFacts DEF RemovalSet
      <3>4. log' = [log EXCEPT !.out = o, !.removed = r]
        BY <2>7
      <3>5. e.path = path /\ e.ino = i
        OBVIOUS
      <3> HIDE DEF o, r, e, what, path, i, d
      <3>6. log' \in LogSet /\ log'.changed = log.changed /\ log'.removed = r /\ log'.asked = log.asked
        <4>1. log \in LogSet
          BY <2>2
        <4> QED
          BY <3>2, <3>3, <3>4, <4>1, LogRemoved
      <3>7. (\A x \in log'.removed : x.ino \in DOMAIN fs') /\ FromRespected' /\ DotParsed'
        BY <2>1, <2>2, <2>3, <2>7, <3>5, <3>6 DEF OwnInv, FromRespected, DotParsed, SameFiles, r, i
      <3>8. ASSUME Protective'
            PROVE  Asking'
        <4>1. Protective
          BY <1>3, <2>1, <2>4, <3>8 DEF Protective, IsRm, Quiet, ChecksProtection
        <4>2. /\ \A x \in log.removed : x.path \in log.asked \/ fs[x.ino].wr \/ fs[x.ino].kind = "lnk"
              /\ path \in log.asked \/ Open(i)
          BY <2>1, <4>1 DEF OwnInv, Asking, path, i
        <4>3. \A x \in r : x.path \in log.asked \/ fs[x.ino].wr \/ fs[x.ino].kind = "lnk"
          BY <2>7, <3>5, <4>2 DEF Open, r
        <4>4. \A x \in r : x.ino \in DOMAIN fs
          BY <2>2, <2>7, <3>5 DEF OwnInv, r
        <4> QED
          BY <2>1, <2>3, <3>6, <4>3, <4>4 DEF Asking, SameFiles
      <3> QED
        BY <3>6, <3>7, <3>8 DEF OwnInv
    <2> QED
      BY <2>5, <2>6, <2>7
  <1>13. CASE RmEnd
    <2>1. UNCHANGED <<fs, args, log>> /\ pc' = "exit" /\ faults' <= faults
      BY <1>3, <1>13, SpendFacts DEF RmEnd, Still, Exit
    <2> QED
      BY <1>1, <1>3, <1>4, <2>1, OwnKept DEF OwnInv
  <1> QED
    BY <1>6, <1>7, <1>8, <1>9, <1>10, <1>11, <1>12, <1>13 DEF Rm

\* A step of chown that notes no call, or one it was right to make.
LEMMA ChownKept ==
  ASSUME OwnInv, SameFiles, IsChown, args' = args, log' \in LogSet, log'.removed = log.removed,
         NEW e, log'.changed = log.changed \cup e, \A c \in e : c.how = "fd" => c.same /\ c.match, pc' # "open"
  PROVE  OwnInv'
  <1>1. (\A r \in log'.removed : r.ino \in DOMAIN fs') /\ FromRespected'
    BY DEF OwnInv, SameFiles, FromRespected
  <1>2. DotParsed' /\ ~Protective'
    BY DEF DotParsed, Protective, IsRm, IsChown
  <1> QED
    BY <1>1, <1>2 DEF OwnInv

\* So does every step of chown that changes no owner.
LEMMA ChownQuietly ==
  ASSUME OwnInv, SameFiles, IsChown, args' = args, log' \in LogSet, log'.removed = log.removed, log'.changed = log.changed, pc' # "open"
  PROVE  OwnInv'
  <1> DEFINE e == {}
  <1>1. log'.changed = log.changed \cup e /\ \A c \in e : c.how = "fd" => c.same /\ c.match
    OBVIOUS
  <1> HIDE DEF e
  <1> QED
    BY <1>1, ChownKept

\* With a descriptor, the owner of the file examined is changed, if it matches.
LEMMA ChangesOwn ==
  ASSUME FtsOK, OwnInv, IsChown, pc \in Current, NEW i, NEW how \in {"link", "fd", "ordinary"}, NEW done \in BOOLEAN,
         done => i \in DOMAIN fs, Changes(i, how, done), done /\ how = "fd" => i = cmd.stat /\ Matches(fs[i].own), args' = args
  PROVE  OwnInv'
  <1>1. SameFiles /\ pc' # "open"
    BY ChangesFacts DEF Finish
  <1>2. cur \in EntrySet /\ log \in LogSet
    BY Found DEF OwnInv
  <1>3. done => i \in Int
    BY DEF FtsOK, FsOK
  <1>4. Noted(i, how, done)
    BY <1>2, <1>3, ChangesLog
  <1>5. PICK e : /\ log'.changed = log.changed \cup e
                 /\ \A c \in e : done /\ c.how = how /\ c.same = (i = cmd.stat) /\ c.match = Matches(fs[i].own)
    BY <1>4 DEF Noted
  <1>6. \A c \in e : c.how = "fd" => c.same /\ c.match
    BY <1>5
  <1> QED
    BY <1>1, <1>4, <1>5, <1>6, ChownKept DEF Noted

\* A dot is taken for a separator only if the whole is no login name.
LEMMA ParseOwn ==
  ASSUME FtsOK, OwnInv, ChownParse
  PROVE  OwnInv'
  <1>1. FtsOK /\ IsChown /\ pc \in Before /\ UNCHANGED <<fs, log>> /\ pc' \notin {"prompt", "excise"} /\ pc = "options" /\ ArgsOK
    BY DEF ChownParse, Before, Exit, FtsOK
  <1>2. args \in ChownArgs(ChoptSet)
    BY <1>1, ChownArgsFacts
  <1>3. PICK s \in IF opt.reference THEN {NoSpec} ELSE Specs :
             LET to == IF opt.reference THEN Ids(IF args.prog = "chown" THEN 1 ELSE NONE, 2)
                       ELSE IF args.prog = "chown" THEN parse_user_spec(s) ELSE parse_group(s.group)
             IN  args' = [args EXCEPT !.left = 0, !.opt = Final(@, to, s)]
    BY DEF ChownParse
  <1> DEFINE to == IF opt.reference THEN Ids(IF args.prog = "chown" THEN 1 ELSE NONE, 2)
                   ELSE IF args.prog = "chown" THEN parse_user_spec(s) ELSE parse_group(s.group)
             w == Final(args.opt, to, s)
  <1>4. args' = [args EXCEPT !.left = 0, !.opt = w]
    BY <1>2, <1>3 DEF ChownArgs
  <1>5. w.spec = s /\ w.to = to
    BY DEF Final
  <1>6. args.prog = "chown" => s = NoSpec \/ to = parse_user_spec(s)
    BY <1>3
  <1> HIDE DEF w, to
  <1>7. args'.prog = args.prog /\ args'.opt = w
    BY <1>2, <1>4 DEF ChownArgs
  <1>8. DotParsed'
    BY <1>5, <1>6, <1>7 DEF DotParsed, opt
  <1> QED
    BY <1>1, <1>8, EarlyOwn

\* chown keeps what is known of owners.
LEMMA ChownOwn ==
  ASSUME FtsOK, OwnInv, Chown
  PROVE  OwnInv'
  <1>1. IsChown /\ log \in LogSet
    BY DEF OwnInv, Chown, ChownOption, ChownUsage, ChownParse, ChownOpen, ChownVisit, ChownDecide, ChownLink, ChownOpens, ChownDescriptor,
           ChownOrdinary, ChownEnd
  <1>2. fs' = fs => SameFiles
    BY FilesKept DEF FtsOK, FsOK
  <1>3. \A what \in Whats : pc \in Current => /\ Outcome(what) \in LogSet /\ Outcome(what).changed = log.changed
                                              /\ Outcome(what).removed = log.removed
    BY <1>1, Found, OutcomeLog
  <1>4. "failed" \in Whats /\ "kept" \in Whats /\ "unsupported" \in Whats
    BY DEF Whats
  <1>5. CASE ChownOption
    BY <1>5, EarlyOwn DEF ChownOption, Before, DotParsed
  <1>6. CASE ChownUsage
    BY <1>6, EarlyOwn DEF ChownUsage, Before, DotParsed, Exit, Still
  <1>7. CASE ChownParse
    BY <1>7, ParseOwn
  <1>8. CASE ChownOpen
    BY <1>8, EarlyOwn DEF ChownOpen, Before, DotParsed, Exit
  <1>9. CASE ChownVisit
    <2>1. pc \in Current /\ pc' = "read" /\ UNCHANGED <<fs, args>> /\ (log' = log \/ log' = Outcome("failed"))
      BY <1>9 DEF ChownVisit, OwnerVisit, Leave, Got, Current, Still, Finish
    <2>2. log' \in LogSet /\ log'.changed = log.changed /\ log'.removed = log.removed
      BY <1>1, <1>3, <1>4, <2>1
    <2> QED
      BY <1>1, <1>2, <2>1, <2>2, ChownQuietly
  <1>10. CASE ChownDecide
    <2>1. pc \in Current /\ pc' \in {"read", "change"} /\ UNCHANGED <<fs, args>> /\ (log' = log \/ log' = Outcome("failed") \/ log' = Outcome("kept"))
      BY <1>10 DEF ChownDecide, Got, Current, Still, Finish
    <2>2. log' \in LogSet /\ log'.changed = log.changed /\ log'.removed = log.removed
      BY <1>1, <1>3, <1>4, <2>1
    <2> QED
      BY <1>1, <1>2, <2>1, <2>2, ChownQuietly
  <1>11. CASE ChownLink
    <2> DEFINE i == At(sp, cur)
    <2>1. pc \in Current /\ args' = args /\ FsOK
      BY <1>11 DEF ChownLink, Current, FtsOK
    <2>2. i \in DOMAIN fs \cup {NONE}
      BY <2>1, Found
    <2> HIDE DEF i
    <2>3. \/ \E failed \in BOOLEAN : Changes(i, "link", ~failed /\ i # NONE)
          \/ Finish(TRUE) /\ UNCHANGED fs /\ log' = Outcome("unsupported")
      BY <1>11 DEF ChownLink, i
    <2>4. CASE \E failed \in BOOLEAN : Changes(i, "link", ~failed /\ i # NONE)
      <3>1. PICK failed \in BOOLEAN : Changes(i, "link", ~failed /\ i # NONE)
        BY <2>4
      <3> DEFINE done == ~failed /\ i # NONE
                 how == "link"
      <3>2. done \in BOOLEAN /\ (done => i \in DOMAIN fs) /\ Changes(i, how, done) /\ how \in {"link", "fd", "ordinary"} /\ how # "fd"
        BY <2>2, <3>1
      <3> HIDE DEF done, how
      <3> QED
        BY <1>1, <2>1, <3>2, ChangesOwn
    <2>5. CASE Finish(TRUE) /\ UNCHANGED fs /\ log' = Outcome("unsupported")
      <3>1. log' \in LogSet /\ log'.changed = log.changed /\ log'.removed = log.removed /\ pc' = "read"
        BY <1>3, <1>4, <2>1, <2>5 DEF Finish
      <3> QED
        BY <1>1, <1>2, <2>1, <2>5, <3>1, ChownQuietly
    <2> QED
      BY <2>3, <2>4, <2>5
  <1>12. CASE ChownOpens
    <2> DEFINE i == Follow(fs, At(sp, cur))
    <2>1. pc \in Current /\ args' = args /\ SameFiles
      BY <1>12, ChownOpensOK DEF ChownOpens, Current
    <2> HIDE DEF i
    <2>2. \/ pc' \in {"ordinary", "opened"} /\ log' = log
          \/ Changes(i, "fd", FALSE)
      BY <1>12 DEF ChownOpens, i
    <2>3. CASE pc' \in {"ordinary", "opened"} /\ log' = log
      BY <1>1, <2>1, <2>3, ChownQuietly
    <2>4. CASE Changes(i, "fd", FALSE)
      <3> DEFINE done == FALSE
                 how == "fd"
      <3>1. done \in BOOLEAN /\ ~done /\ Changes(i, how, done) /\ how \in {"link", "fd", "ordinary"}
        BY <2>4
      <3> HIDE DEF done, how
      <3> QED
        BY <1>1, <2>1, <3>1, ChangesOwn
    <2> QED
      BY <2>2, <2>3, <2>4
  <1>13. CASE ChownDescriptor
    <2> DEFINE i == fds[cmd.fd]
    <2>1. pc \in Current /\ args' = args /\ pc = "opened"
      BY <1>13 DEF ChownDescriptor, Current
    <2>2. i \in DOMAIN fs
      BY <2>1 DEF FtsOK, PcOK
    <2> HIDE DEF i
    <2>3. PICK failed \in BOOLEAN :
             \/ Finish(TRUE) /\ UNCHANGED fs /\ log' = Outcome("kept")
             \/ ~(~failed /\ SAME_INODE(i) /\ ~Matches(fs[i].own)) /\ Changes(i, "fd", ~failed /\ SAME_INODE(i))
      BY <1>13 DEF ChownDescriptor, i
    <2>4. CASE Finish(TRUE) /\ UNCHANGED fs /\ log' = Outcome("kept")
      <3>1. log' \in LogSet /\ log'.changed = log.changed /\ log'.removed = log.removed /\ pc' = "read"
        BY <1>3, <1>4, <2>1, <2>4 DEF Finish
      <3> QED
        BY <1>1, <1>2, <2>1, <2>4, <3>1, ChownQuietly
    <2>5. CASE ~(~failed /\ SAME_INODE(i) /\ ~Matches(fs[i].own)) /\ Changes(i, "fd", ~failed /\ SAME_INODE(i))
      <3> DEFINE done == ~failed /\ SAME_INODE(i)
                 how == "fd"
      <3>1. done \in BOOLEAN /\ Changes(i, how, done) /\ how \in {"link", "fd", "ordinary"} /\ (done => i = cmd.stat /\ Matches(fs[i].own))
        BY <2>5 DEF SAME_INODE
      <3> HIDE DEF done, how
      <3> QED
        BY <1>1, <2>1, <2>2, <3>1, ChangesOwn
    <2> QED
      BY <2>3, <2>4, <2>5
  <1>14. CASE ChownOrdinary
    <2> DEFINE i == Follow(fs, At(sp, cur))
    <2>1. pc \in Current /\ args' = args /\ FsOK
      BY <1>14 DEF ChownOrdinary, Current, FtsOK
    <2>2. i \in DOMAIN fs \cup {NONE}
      BY <2>1, Found, FollowFacts
    <2> HIDE DEF i
    <2>3. PICK failed \in BOOLEAN : Changes(i, "ordinary", ~failed /\ i # NONE)
      BY <1>14 DEF ChownOrdinary, i
    <2> DEFINE done == ~failed /\ i # NONE
               how == "ordinary"
    <2>4. done \in BOOLEAN /\ (done => i \in DOMAIN fs) /\ Changes(i, how, done) /\ how \in {"link", "fd", "ordinary"} /\ how # "fd"
      BY <2>2, <2>3
    <2> HIDE DEF done, how
    <2> QED
      BY <1>1, <2>1, <2>4, ChangesOwn
  <1>15. CASE ChownEnd
    <2>1. UNCHANGED <<fs, args, log>> /\ pc' = "exit"
      BY <1>15 DEF ChownEnd, Still, Exit
    <2> QED
      BY <1>1, <1>2, <2>1, ChownQuietly
  <1> QED
    BY <1>5, <1>6, <1>7, <1>8, <1>9, <1>10, <1>11, <1>12, <1>13, <1>14, <1>15 DEF Chown

\* It holds when a program starts.
LEMMA OwnInit ==
  ASSUME FtsInit
  PROVE  OwnInv
  <1>1. log = NoLog /\ pc = "options"
    BY DEF FtsInit, RmInit, ChownInit
  <1>2. log \in LogSet /\ log.removed = {} /\ log.changed = {}
    <2> DEFINE S == Seq(Reports)
               P == Seq(Words)
               f == FALSE
               none == <<>>
    <2>1. LogSet = [out : S, bad : BOOLEAN, changed : SUBSET ChangeSet, removed : SUBSET RemovalSet, asked : SUBSET P]
      BY DEF LogSet
    <2>2. none \in S /\ f \in BOOLEAN /\ log = [out |-> none, bad |-> f, changed |-> {}, removed |-> {}, asked |-> {}]
      BY <1>1 DEF NoLog
    <2> HIDE DEF S, P, f, none
    <2> QED
      BY <2>1, <2>2
  <1> QED
    BY <1>1, <1>2 DEF OwnInv, FromRespected, DotParsed, Asking

\* Every step keeps it.
LEMMA OwnNext ==
  ASSUME FtsOK, OwnInv, FtsNext
  PROVE  OwnInv'
  BY WorldOwn, WalkOwn, RmOwn, ChownOwn DEF FtsNext

\* What the two invariants say of owners.
LEMMA OwnersHold ==
  ASSUME FtsOK, OwnInv
  PROVE  AsksIfProtected /\ FromRespected /\ DotIsLastResort
  <1>1. AsksIfProtected
    BY DEF AsksIfProtected, OwnInv, Protective, Asking
  <1>2. ASSUME args.prog = "chown", pc = "open", opt.spec.sep = "dot", opt.spec.whole
        PROVE  opt.to = Ids(3, NONE)
    <2>1. opt.spec # NoSpec
      BY <1>2 DEF NoSpec
    <2>2. opt.to = parse_user_spec(opt.spec)
      BY <1>2, <2>1 DEF OwnInv, DotParsed
    <2>3. parse_with_separator(opt.spec, "none") = Ids(3, NONE)
      BY <1>2 DEF parse_with_separator
    <2> QED
      BY <1>2, <2>2, <2>3 DEF parse_user_spec, Ids
  <1> QED
    BY <1>1, <1>2 DEF OwnInv, DotIsLastResort

-----------------------------------------------------------------------------
(* Operands of rm and chown, one after the other.                           *)

\* Nothing below an operand is visited.
Flat == IsRm \/ (IsChown /\ ~opt.recurse)
FlatPcs == {"read", "check", "enter", "got", "prompt", "excise", "change", "opened", "ordinary"}

\* The operand in hand, none at first; the reports on those before.
Place == Len(args.ops) + 1 - Len(stack[1])
FirstOps(n) == [k \in 1..n |-> <<args.ops[k]>>]
Told(code, p, skip) == (code = "read" /\ p.instr # "AGAIN") \/ skip \/ p.info = "DP"
Hand(code, p, skip) ==
  /\ p.info # "DC" /\ (code # "read" => p.instr = "none")
  /\ code = "read" => /\ p.info = "D" => p.instr \in {"SKIP", "AGAIN"}
                      /\ p.instr = "AGAIN" => p.info # "DP"
  /\ skip => (code = "read" /\ p.info = "D" /\ p.instr = "SKIP") \/ (code = "got" /\ p.info = "DP")
  /\ p.info = "DP" => code \in {"read", "got"}
  /\ p.info = "D" => code \notin {"prompt", "excise"}
Coming(j) == stack[1][j].info \notin {"DP", "DC"} /\ stack[1][j].instr = "none"
InHand ==
  /\ pc \in FlatPcs /\ Len(stack) = 1 /\ Len(stack[1]) <= Len(args.ops) + 1
  /\ \A j \in 1..Len(stack[1]) : Place + j - 1 # 0 => stack[1][j].path = <<args.ops[Place + j - 1]>>
  /\ \A j \in 1..Len(stack[1]) : j # 1 => Coming(j)
  /\ Hand(pc, stack[1][1], sp.discard) /\ (pc \in {"check", "enter"} => sp.counter = 0)
  /\ Told(pc, stack[1][1], sp.discard) => Reported = FirstOps(Place)
  /\ ~Told(pc, stack[1][1], sp.discard) => Place # 0 /\ Reported = FirstOps(Place - 1)
FlatOK ==
  /\ NonRecursiveStays
  /\ sp.options # {} /\ Flat /\ pc # "crash" =>
       \/ InHand
       \/ pc \in {"null", "exit"} /\ (stack = <<>> => Reported = FirstOps(Len(args.ops)))

\* The operand in hand is the first entry of the only level.
LEMMA HandFacts ==
  ASSUME FtsOK, InHand
  PROVE  /\ Len(stack) = 1 /\ stack[1] \in Seq(EntrySet) /\ Len(stack[1]) \in Nat \ {0} /\ cur = stack[1][1] /\ cur = Head(stack[1])
         /\ Last(stack) = stack[1] /\ cur \in EntrySet /\ Level(cur) = 0 /\ cur.path \in Seq(Words) /\ Len(cur.path) = 1
         /\ Based(stack) /\ Full(stack) /\ Len(args.ops) \in Nat /\ Place \in Nat /\ Place <= Len(args.ops)
         /\ sp \in Streams /\ sp.discard \in BOOLEAN /\ FsOK /\ DirOf(sp.cwd) \in DOMAIN fs
         /\ Tail(stack[1]) \in Seq(EntrySet) /\ Len(Tail(stack[1])) = Len(stack[1]) - 1
         /\ \A k \in 1..Len(Tail(stack[1])) : Tail(stack[1])[k] = stack[1][k + 1]
  <1>1. pc \in Current /\ Len(stack) = 1
    BY DEF InHand, FlatPcs, Current
  <1>2. /\ Based(stack) /\ Full(stack) /\ cur \in EntrySet /\ Len(cur.path) = 1 /\ Level(cur) = 0 /\ cur.path \in Seq(Words)
        /\ sp \in Streams /\ DirOf(sp.cwd) \in DOMAIN fs
    BY <1>1, Found
  <1>3. Last(stack) = stack[1] /\ stack[1] # <<>> /\ cur = Head(stack[1])
    BY <1>1, <1>2 DEF Full, Last, cur
  <1>4. Levels(stack) /\ 1 \in 1..Len(stack)
    BY <1>1, <1>2 DEF Based
  <1>5. stack[1] \in Seq(EntrySet)
    BY <1>4, LevelFacts
  <1>6. /\ Len(stack[1]) \in Nat \ {0} /\ Tail(stack[1]) \in Seq(EntrySet) /\ Len(Tail(stack[1])) = Len(stack[1]) - 1
        /\ \A k \in 1..Len(Tail(stack[1])) : Tail(stack[1])[k] = stack[1][k + 1]
    BY <1>3, <1>4, LevelFacts
  <1>7. cur = stack[1][1]
    BY <1>3, <1>5, <1>6
  <1>8. Len(args.ops) \in Nat
    <2>1. args \in RmArgs \/ args \in ChownArgs(ChoptSet) \/ args \in ChownArgs(FinalSet)
      BY DEF FtsOK, ArgsOK
    <2>2. args.ops \in Seq(STRING)
      BY <2>1 DEF RmArgs, ChownArgs
    <2> QED
      BY <2>2
  <1>9. Place \in Nat /\ Place <= Len(args.ops)
    BY <1>6, <1>8 DEF InHand, Place
  <1> QED
    BY <1>1, <1>2, <1>3, <1>5, <1>6, <1>7, <1>8, <1>9 DEF FtsOK, Streams

\* A report is added.
LEMMA ReportAdded ==
  ASSUME log.out \in Seq(Reports), NEW n \in Nat, Reported = FirstOps(n), NEW path, NEW what, path = <<args.ops[n + 1]>>,
         log'.out = Append(log.out, <<path, what>>), args'.ops = args.ops
  PROVE  Reported' = FirstOps(n + 1)'
  <1> DEFINE o == log.out
             e == <<path, what>>
  <1>1. o \in Seq(Reports) /\ DOMAIN o = 1..Len(o) /\ Len(o) \in Nat
    OBVIOUS
  <1>2. DOMAIN o = 1..n /\ \A k \in 1..n : o[k][1] = <<args.ops[k]>>
    BY DEF Reported, FirstOps
  <1>3. Len(o) = n
    BY <1>1, <1>2
  <1> HIDE DEF o, e
  <1>4. DOMAIN Append(o, e) = 1..(n + 1) /\ (\A k \in 1..n : Append(o, e)[k] = o[k]) /\ Append(o, e)[n + 1] = e
    BY <1>1, <1>3
  <1>5. e[1] = path
    BY DEF e
  <1>6. \A k \in 1..(n + 1) : k \in 1..n \/ k = n + 1
    OBVIOUS
  <1>7. \A k \in 1..(n + 1) : Append(o, e)[k][1] = <<args.ops[k]>>
    BY <1>2, <1>4, <1>5, <1>6
  <1>8. log'.out = Append(o, e)
    BY DEF o, e
  <1> QED
    BY <1>4, <1>7, <1>8 DEF Reported, FirstOps

\* What is in hand is replaced, and all else on its level stays.
Renews(st, p) ==
  /\ Len(st) = 1 /\ Len(st[1]) = Len(stack[1]) /\ st[1][1] = p
  /\ \A j \in 1..Len(stack[1]) : j # 1 => st[1][j] = stack[1][j]

\* What was in hand goes on to be: whether or not a report is made.
LEMMA HandOn ==
  ASSUME FtsOK, InHand, log \in LogSet, NEW p, p.path = cur.path, Renews(stack', p), pc' \in FlatPcs, args'.ops = args.ops,
         Hand(pc', p, sp'.discard), pc' \in {"check", "enter"} => sp'.counter = 0,
         \/ log'.out = log.out /\ (Told(pc', p, sp'.discard) <=> Told(pc, cur, sp.discard))
         \/ /\ \E what : log'.out = Append(log.out, <<cur.path, what>>)
            /\ ~Told(pc, cur, sp.discard) /\ Told(pc', p, sp'.discard)
  PROVE  InHand'
  <1> DEFINE told == Told(pc, cur, sp.discard)
             tell == Told(pc', p, sp'.discard)
             hand == Hand(pc', p, sp'.discard)
             L == Len(stack[1])
             N == Len(args.ops)
  <1>1. /\ cur = stack[1][1] /\ L \in Nat \ {0} /\ N \in Nat /\ Place \in Nat
    BY HandFacts
  <1>2. /\ Len(stack') = 1 /\ Len(stack'[1]) = L /\ stack'[1][1] = p /\ \A j \in 1..L : j # 1 => stack'[1][j] = stack[1][j]
    BY DEF Renews
  <1>3. Place' = Place /\ Place = N + 1 - L
    BY <1>2 DEF Place
  <1>4. \A n : FirstOps(n)' = FirstOps(n)
    BY DEF FirstOps
  <1>5. (told => Reported = FirstOps(Place)) /\ (~told => Place # 0 /\ Reported = FirstOps(Place - 1))
    BY <1>1 DEF InHand
  <1>6. (tell => Reported' = FirstOps(Place)) /\ (~tell => Place # 0 /\ Reported' = FirstOps(Place - 1))
    <2>1. CASE log'.out = log.out /\ (tell <=> told)
      <3>1. Reported' = Reported
        BY <2>1 DEF Reported
      <3> HIDE DEF told, tell
      <3> QED
        BY <1>5, <2>1, <3>1
    <2>2. CASE (\E what : log'.out = Append(log.out, <<cur.path, what>>)) /\ ~told /\ tell
      <3>1. Place # 0 /\ Reported = FirstOps(Place - 1) /\ Place - 1 \in Nat /\ (Place - 1) + 1 = Place
        BY <1>1, <1>5, <2>2
      <3>2. cur.path = <<args.ops[Place]>>
        <4>1. 1 \in 1..Len(stack[1]) /\ Place + 1 - 1 = Place
          BY <1>1
        <4> QED
          BY <1>1, <3>1, <4>1 DEF InHand
      <3>3. log.out \in Seq(Reports)
        BY LogFacts
      <3>4. PICK what : log'.out = Append(log.out, <<cur.path, what>>)
        BY <2>2
      <3>5. PICK m \in Nat : Reported = FirstOps(m) /\ cur.path = <<args.ops[m + 1]>> /\ m + 1 = Place
        BY <3>1, <3>2
      <3>6. Reported' = FirstOps(m + 1)'
        BY <3>3, <3>4, <3>5, ReportAdded
      <3>7. Reported' = FirstOps(Place)
        BY <1>4, <3>5, <3>6
      <3> HIDE DEF told, tell
      <3> QED
        BY <2>2, <3>7
    <2> QED
      BY <2>1, <2>2
  <1>7. \A j \in 1..L : Place + j - 1 # 0 => stack'[1][j].path = <<args.ops[Place + j - 1]>>
    BY <1>1, <1>2 DEF InHand
  <1>8. \A j \in 1..L : j # 1 => Coming(j)'
    BY <1>2 DEF InHand, Coming
  <1>9. L <= N + 1
    BY DEF InHand
  <1>10. Hand(pc, stack[1][1], sp.discard)' /\ (Told(pc, stack[1][1], sp.discard)' <=> tell)
    <2>1. hand
      OBVIOUS
    <2> QED
      BY <1>2, <2>1 DEF Hand, Told
  <1>11. (Told(pc, stack[1][1], sp.discard)' => Reported' = FirstOps(Place)')
         /\ (~Told(pc, stack[1][1], sp.discard)' => Place' # 0 /\ Reported' = FirstOps(Place - 1)')
    <2>1. FirstOps(Place)' = FirstOps(Place) /\ FirstOps(Place - 1)' = FirstOps(Place - 1)
      BY <1>3 DEF FirstOps
    <2> HIDE DEF tell
    <2> QED
      BY <1>3, <1>6, <1>10, <2>1
  <1> QED
    BY <1>2, <1>3, <1>7, <1>8, <1>9, <1>10, <1>11 DEF InHand

\* What is in hand, changed or not.
LEMMA Renewed ==
  ASSUME FtsOK, InHand
  PROVE  /\ \A p \in EntrySet : p.path = cur.path => Renews(SetCur(p), p) /\ Len(SetCur(p)) = 1
         /\ Renews(stack, cur)
  <1>1. /\ Len(stack) = 1 /\ Based(stack) /\ Full(stack) /\ stack[1] \in Seq(EntrySet) /\ Len(stack[1]) \in Nat \ {0} /\ cur = stack[1][1]
        /\ Len(cur.path) = 1 /\ Tail(stack[1]) \in Seq(EntrySet) /\ Len(Tail(stack[1])) = Len(stack[1]) - 1
        /\ \A k \in 1..Len(Tail(stack[1])) : Tail(stack[1])[k] = stack[1][k + 1]
    BY HandFacts
  <1>2. ASSUME NEW p \in EntrySet, p.path = cur.path
        PROVE  Renews(SetCur(p), p) /\ Len(SetCur(p)) = 1
    <2> DEFINE new == SetCur(p)
               t == Tail(stack[1])
               s == stack[1]
    <2>1. Len(new) = 1 /\ new[1] = <<p>> \o t
      BY <1>1, <1>2, SetCurFacts
    <2>2. t \in Seq(EntrySet) /\ Len(t) = Len(s) - 1 /\ Len(s) \in Nat \ {0} /\ \A k \in 1..Len(t) : t[k] = s[k + 1]
      BY <1>1
    <2> HIDE DEF new, t, s
    <2>3. Len(new[1]) = Len(s) /\ new[1][1] = p /\ \A j \in 2..Len(s) : new[1][j] = t[j - 1]
      BY <1>2, <2>1, <2>2
    <2>4. ASSUME NEW j \in 1..Len(s), j # 1
          PROVE  new[1][j] = s[j]
      <3>1. j \in 2..Len(s) /\ j - 1 \in 1..Len(t) /\ (j - 1) + 1 = j
        BY <2>2, <2>4
      <3> QED
        BY <2>2, <2>3, <3>1
    <2> QED
      BY <2>1, <2>3, <2>4 DEF Renews, new, s
  <1>3. Renews(stack, cur)
    BY <1>1 DEF Renews
  <1> QED
    BY <1>2, <1>3

\* The next operand.
LEMMA NextHand ==
  ASSUME FtsOK, InHand, ReadNext
  PROVE  InHand'
  <1> DEFINE new == [stack EXCEPT ![Len(stack)] = Tail(@)]
             L == Len(stack[1])
             N == Len(args.ops)
  <1>1. pc = "read" /\ pc' = "check" /\ UNCHANGED <<fs, build, args, cmd, log>> /\ Len(Last(stack)) > 1 /\ stack' = new
        /\ cur.instr # "AGAIN" /\ cur.info # "D"
    BY DEF ReadNext, Reading, Keep, Again, PreOrder
  <1>2. /\ Len(stack) = 1 /\ Last(stack) = stack[1] /\ cur = stack[1][1] /\ L \in Nat \ {0} /\ N \in Nat /\ Place \in Nat
        /\ sp.discard \in BOOLEAN /\ sp \in Streams /\ Len(Tail(stack[1])) = L - 1
        /\ \A k \in 1..Len(Tail(stack[1])) : Tail(stack[1])[k] = stack[1][k + 1]
    BY HandFacts
  <1>3. Len(stack') = 1 /\ stack'[1] = Tail(stack[1])
    <2>1. Based(stack) /\ Full(stack) /\ stack \in Seq(Seq(EntrySet)) /\ DOMAIN stack = 1..1
      <3>1. Based(stack) /\ Full(stack)
        BY HandFacts
      <3>2. stack \in Seq(Seq(EntrySet))
        BY <3>1 DEF Based, Levels
      <3> QED
        BY <1>2, <3>1, <3>2
    <2>2. DOMAIN new = 1..1 /\ new[1] = Tail(stack[1])
      BY <1>2, <2>1
    <2>3. new = [k \in 1..1 |-> new[k]]
      BY <1>2, <2>1
    <2> HIDE DEF new
    <2>4. Len(new) = 1
      BY <2>3
    <2> QED
      BY <1>1, <2>2, <2>4
  <1>4. sp'.counter = 0 /\ sp'.discard = sp.discard
    <2> DEFINE st == RESTORE_INITIAL_CWD(Now)
    <2>1. sp' = [st.sp EXCEPT !.counter = 0, !.seen = NONE]
      BY <1>2 DEF ReadNext
    <2>2. Sound(sp, fds, cmd.fd) /\ Now = [sp |-> sp, fds |-> fds]
      BY DEF FtsOK, Now
    <2>3. Sound(st.sp, st.fds, cmd.fd) /\ Kin(st.sp, sp)
      BY <2>2, RestoreSound
    <2> HIDE DEF st
    <2>4. st.sp.discard = sp.discard /\ st.sp \in Streams
      BY <1>2, <2>3, KinFacts DEF Sound
    <2> DEFINE t == st.sp
    <2>5. t.discard = sp.discard /\ t \in Streams /\ sp' = [t EXCEPT !.counter = 0, !.seen = NONE]
      BY <2>1, <2>4
    <2> HIDE DEF t
    <2> QED
      BY <2>5 DEF Streams
  <1>5. sp.discard = FALSE
    BY <1>1, <1>2 DEF InHand, Hand
  <1>6. Len(stack'[1]) = L - 1 /\ (\A j \in 1..(L - 1) : stack'[1][j] = stack[1][j + 1]) /\ L > 1
    BY <1>1, <1>2, <1>3
  <1>7. Place = N + 1 - L /\ Place' = Place + 1
    BY <1>1, <1>2, <1>6 DEF Place
  <1>8. Reported' = FirstOps(Place)
    <2>1. Told(pc, stack[1][1], sp.discard)
      BY <1>1, <1>2 DEF Told
    <2> QED
      BY <1>1, <2>1 DEF InHand, Reported
  <1>9. Coming(2) /\ stack'[1][1] = stack[1][2]
    BY <1>2, <1>6 DEF InHand
  <1>10. ~Told(pc, stack[1][1], sp.discard)' /\ Hand(pc, stack[1][1], sp.discard)'
    BY <1>1, <1>4, <1>5, <1>9 DEF Told, Hand, Coming
  <1>11. ASSUME NEW j \in 1..(L - 1)
         PROVE  /\ Place' + j - 1 # 0 => stack'[1][j].path = <<args.ops[Place' + j - 1]>>
                /\ j # 1 => Coming(j)'
    <2>1. j + 1 \in 1..L /\ j + 1 # 1 /\ stack'[1][j] = stack[1][j + 1] /\ Place' + j - 1 = Place + (j + 1) - 1
      BY <1>2, <1>6, <1>7
    <2>2. Place + (j + 1) - 1 # 0 => stack[1][j + 1].path = <<args.ops[Place + (j + 1) - 1]>>
      BY <1>2, <2>1 DEF InHand
    <2>3. Coming(j + 1)
      BY <1>2, <2>1 DEF InHand
    <2> QED
      BY <2>1, <2>2, <2>3 DEF Coming
  <1>12. pc' \in FlatPcs /\ Len(stack'[1]) <= N + 1
    BY <1>1, <1>2, <1>6 DEF FlatPcs, InHand
  <1>13. Place' # 0 /\ Reported' = FirstOps(Place - 1)'
    <2>1. Place' - 1 = Place /\ args' = args
      BY <1>1, <1>2, <1>7
    <2>2. FirstOps(Place - 1)' = FirstOps(Place)
      BY <2>1 DEF FirstOps
    <2> QED
      BY <1>2, <1>7, <1>8, <2>2
  <1> HIDE DEF new
  <1> QED
    BY <1>1, <1>3, <1>4, <1>6, <1>10, <1>11, <1>12, <1>13 DEF InHand

\* After the last operand, all of them have been reported.
LEMMA UpHand ==
  ASSUME FtsOK, InHand, ReadUp
  PROVE  stack' = <<>> /\ pc' = "null" /\ Reported' = FirstOps(Len(args.ops))'
  <1>1. pc = "read" /\ UNCHANGED <<args, log>> /\ Len(Last(stack)) = 1 /\ cur.instr # "AGAIN"
    BY DEF ReadUp, Reading, Keep, Again
  <1>2. Len(stack) = 1 /\ Last(stack) = stack[1] /\ cur = stack[1][1] /\ Len(args.ops) \in Nat
    BY HandFacts
  <1>3. stack' = <<>> /\ pc' = "null"
    BY <1>2 DEF ReadUp
  <1>4. Told(pc, stack[1][1], sp.discard) /\ Place = Len(args.ops)
    <2>1. Len(stack[1]) = 1
      BY <1>1, <1>2
    <2> QED
      BY <1>1, <1>2, <2>1 DEF Told, Place
  <1>5. Reported = FirstOps(Len(args.ops))
    BY <1>4 DEF InHand
  <1> QED
    BY <1>1, <1>3, <1>5 DEF Reported, FirstOps

\* Nothing else happens to the report and the operands than HandOn allows.
LEMMA FlatWalk ==
  ASSUME FtsOK, log \in LogSet, InHand, Walk
  PROVE  \/ InHand'
         \/ pc' = "crash" /\ Len(stack') = 1
         \/ pc' = "null" /\ Len(stack') = 1
         \/ pc' = "null" /\ stack' = <<>> /\ Reported' = FirstOps(Len(args.ops))'
  <1> DEFINE Told1 == Told(pc, cur, sp.discard)
  <1>1. /\ Len(stack) = 1 /\ cur = stack[1][1] /\ cur \in EntrySet /\ Level(cur) = 0 /\ FsOK /\ DirOf(sp.cwd) \in DOMAIN fs
        /\ sp \in Streams /\ sp.discard \in BOOLEAN
    BY HandFacts
  <1>2. UNCHANGED <<fs, build, args, cmd, log>>
    BY WalkFacts DEF FtsOK
  <1>3. /\ Hand(pc, cur, sp.discard) /\ pc \in FlatPcs /\ (pc \in {"check", "enter"} => sp.counter = 0)
    BY <1>1 DEF InHand
  <1>4. /\ \A p \in EntrySet : p.path = cur.path => Renews(SetCur(p), p) /\ Len(SetCur(p)) = 1
        /\ Renews(stack, cur)
    BY Renewed
  <1>5. CASE ReadAgain
    <2> DEFINE q == Plain(cur)
               p == fts_stat(sp, q)
    <2>1. pc = "read" /\ cur.instr = "AGAIN" /\ pc' = "got" /\ UNCHANGED <<sp, fds>> /\ stack' = SetCur(p)
      BY <1>5 DEF ReadAgain, Reading, Again
    <2>2. q \in EntrySet /\ q.path = cur.path /\ q.instr = "none"
      BY <1>1, EntryChanged DEF Plain, EntrySet
    <2> HIDE DEF q
    <2>3. p \in EntrySet /\ p.path = cur.path /\ p.instr = "none" /\ p.info \in {"NS", "SLNONE", "D", "SL", "F", "DEFAULT"}
      BY <1>1, <2>2, StatFacts
    <2> HIDE DEF p
    <2>4. Renews(stack', p)
      BY <1>4, <2>1, <2>3
    <2>5. ~sp.discard /\ cur.info # "DP"
      BY <1>3, <2>1 DEF Hand
    <2>6. ~Told(pc, cur, sp.discard) /\ ~Told(pc', p, sp'.discard)
      BY <2>1, <2>3, <2>5 DEF Told
    <2>7. Hand(pc', p, sp'.discard) /\ pc' \in FlatPcs
      BY <2>1, <2>3, <2>5 DEF Hand, FlatPcs
    <2> QED
      BY <1>2, <2>1, <2>3, <2>4, <2>6, <2>7, HandOn
  <1>6. CASE ReadSkipped
    <2> DEFINE q == Plain(cur)
               p == [q EXCEPT !.info = "DP"]
    <2>1. pc = "read" /\ cur.instr = "SKIP" /\ pc' = Return(cur) /\ UNCHANGED <<sp, fds>> /\ stack' = SetCur(p)
      BY <1>6 DEF ReadSkipped, Reading
    <2>2. q \in EntrySet /\ q.path = cur.path /\ q.instr = "none" /\ "DP" \in Infos
      <3>1. "DP" \in Infos
        BY DEF Infos
      <3> QED
        BY <1>1, <3>1, EntryChanged DEF Plain, EntrySet
    <2> HIDE DEF q
    <2>3. p \in EntrySet /\ p.path = cur.path /\ p.instr = "none" /\ p.info = "DP"
      BY <2>2, EntryChanged DEF EntrySet
    <2> HIDE DEF p
    <2>4. Renews(stack', p) /\ Len(stack') = 1
      BY <1>4, <2>1, <2>3
    <2>5. CASE pc' = "crash"
      BY <2>4, <2>5
    <2>6. CASE pc' = "got"
      <3>1. Told(pc, cur, sp.discard) /\ Told(pc', p, sp'.discard)
        BY <2>1, <2>3 DEF Told
      <3>2. Hand(pc', p, sp'.discard) /\ pc' \in FlatPcs
        BY <2>1, <2>3, <2>6 DEF Hand, FlatPcs
      <3> QED
        BY <1>2, <2>1, <2>3, <2>4, <2>6, <3>1, <3>2, HandOn
    <2> QED
      BY <2>1, <2>5, <2>6 DEF Return
  <1>7. ~BuildOpen /\ ~BuildChdir /\ ~BuildRead /\ ~BuildBack
    BY <1>3 DEF BuildOpen, BuildChdir, BuildRead, BuildBack, Reading, PreOrder, Again, Hand, FlatPcs
  <1>8. CASE ReadNext
    BY <1>8, NextHand
  <1>9. CASE ReadUp
    BY <1>9, UpHand
  <1>10. CASE CheckForDir
    <2> DEFINE p == fts_stat(sp, cur)
    <2>1. pc = "check" /\ UNCHANGED <<sp, fds>> /\ ~sp.discard /\ cur.instr = "none" /\ cur.info # "DP" /\ sp'.counter = 0
      BY <1>3, <1>10 DEF CheckForDir, Hand
    <2>2. p \in EntrySet /\ p.path = cur.path /\ p.instr = "none" /\ p.info \in {"NS", "SLNONE", "D", "SL", "F", "DEFAULT"}
      BY <1>1, <2>1, StatFacts
    <2> HIDE DEF p
    <2>3. ~(Level(cur) > 0) /\ ~(Level(p) > 0)
      <3>1. Level(p) = Level(cur)
        BY <2>2 DEF Level
      <3> QED
        BY <1>1, <3>1
    <2>4. (stack' = SetCur(p) \/ stack' = stack) /\ pc' = "enter"
      BY <1>10, <2>3 DEF CheckForDir, Counts, p
    <2>5. ~Told(pc, cur, sp.discard) /\ pc' \in FlatPcs
      BY <2>1, <2>4 DEF Told, FlatPcs
    <2>6. CASE stack' = stack
      <3>1. ~Told(pc', cur, sp'.discard) /\ Hand(pc', cur, sp'.discard)
        BY <1>3, <2>1, <2>4 DEF Told, Hand
      <3> QED
        BY <1>2, <1>4, <2>1, <2>5, <2>6, <3>1, HandOn
    <2>7. CASE stack' = SetCur(p)
      <3>1. ~Told(pc', p, sp'.discard) /\ Hand(pc', p, sp'.discard)
        BY <2>1, <2>2, <2>4 DEF Told, Hand
      <3>2. Renews(stack', p)
        BY <1>4, <2>2, <2>7
      <3> QED
        BY <1>2, <2>1, <2>2, <2>5, <3>1, <3>2, HandOn
    <2> QED
      BY <2>4, <2>6, <2>7
  <1>11. CASE enter_dir
    <2>1. pc = "enter" /\ UNCHANGED fds /\ ~sp.discard /\ cur.instr = "none" /\ cur.info # "DP" /\ sp.counter = 0
      BY <1>3, <1>11 DEF enter_dir, Hand
    <2>2. ~cycle_check(sp, cur.ino)
      BY <2>1 DEF cycle_check
    <2>3. /\ stack' = stack
          /\ \/ pc' \in {"crash", "null"}
             \/ pc' = "got" /\ (sp' = sp \/ sp' = Counted(sp, cur.ino))
      BY <1>11, <2>2 DEF enter_dir
    <2>4. CASE pc' \in {"crash", "null"}
      BY <1>1, <2>3, <2>4
    <2>5. CASE pc' = "got"
      <3>1. sp'.discard = sp.discard
        BY <1>1, <2>3, <2>5 DEF Counted, Streams
      <3>2. ~Told(pc, cur, sp.discard) /\ ~Told(pc', cur, sp'.discard) /\ Hand(pc', cur, sp'.discard) /\ pc' \in FlatPcs
        BY <1>3, <2>1, <2>5, <3>1 DEF Told, Hand, FlatPcs
      <3> QED
        BY <1>2, <1>4, <2>3, <2>5, <3>2, HandOn
    <2> QED
      BY <2>3, <2>4, <2>5
  <1>12. CASE Discard
    <2>1. pc = "got" /\ sp.discard /\ pc' = "read" /\ stack' = stack /\ sp'.discard = FALSE
      BY <1>1, <1>12 DEF Discard, Streams
    <2>2. cur.info = "DP" /\ cur.instr = "none"
      BY <1>3, <2>1 DEF Hand
    <2>3. Told(pc, cur, sp.discard) /\ Told(pc', cur, sp'.discard) /\ Hand(pc', cur, sp'.discard) /\ pc' \in FlatPcs
      BY <1>3, <2>1, <2>2 DEF Told, Hand, FlatPcs
    <2> QED
      BY <1>2, <1>4, <2>1, <2>3, HandOn
  <1> QED
    BY <1>5, <1>6, <1>7, <1>8, <1>9, <1>10, <1>11, <1>12 DEF Walk

\* rm reports what it is done with.
LEMMA FlatRm ==
  ASSUME FtsOK, log \in LogSet, InHand, Rm
  PROVE  InHand'
  <1>1. /\ Len(stack) = 1 /\ cur = stack[1][1] /\ cur \in EntrySet /\ cur.path \in Seq(Words) /\ sp \in Streams /\ sp.discard \in BOOLEAN
    BY HandFacts
  <1>2. /\ Hand(pc, cur, sp.discard) /\ pc \in FlatPcs
    BY <1>1 DEF InHand
  <1>3. /\ \A p \in EntrySet : p.path = cur.path => Renews(SetCur(p), p)
        /\ Renews(stack, cur)
    BY Renewed
  <1>4. \A s : \A what \in Whats : Report(s, what) => log'.out = Append(log.out, <<cur.path, what>>)
    BY <1>1, ReportLog
  <1>5. {"refused", "failed", "declined", "missing"} \subseteq Whats
    BY DEF Whats
  <1>6. ~RmOption /\ ~RmUsage /\ ~RmMain /\ ~RmEnd
    BY <1>2 DEF RmOption, RmUsage, RmMain, RmEnd, FlatPcs
  <1>7. CASE RmDirectory
    <2> DEFINE p == [cur EXCEPT !.instr = "SKIP"]
    <2>1. pc = "got" /\ ~sp.discard /\ cur.info = "D" /\ Report("ERROR", "refused") /\ stack' = SetCur(p) /\ pc' = "read" /\ UNCHANGED args
          /\ sp' = [sp EXCEPT !.discard = TRUE]
      BY <1>7 DEF RmDirectory, Got, fts_set, Still
    <2>2. p \in EntrySet /\ p.path = cur.path /\ p.instr = "SKIP" /\ p.info = "D"
      BY <1>1, <2>1, EntryChanged DEF EntrySet
    <2> HIDE DEF p
    <2>3. sp'.discard = TRUE
      BY <1>1, <2>1 DEF Streams
    <2>4. ~Told(pc, cur, sp.discard) /\ Told(pc', p, sp'.discard) /\ Hand(pc', p, sp'.discard) /\ pc' \in FlatPcs
      BY <2>1, <2>2, <2>3 DEF Told, Hand, FlatPcs
    <2>5. log'.out = Append(log.out, <<cur.path, "refused">>)
      BY <1>4, <1>5, <2>1
    <2> QED
      BY <1>3, <2>1, <2>2, <2>4, <2>5, HandOn
  <1>8. CASE RmProtected
    <2>1. pc = "got" /\ ~sp.discard /\ cur.info \in {"F", "NS", "SL", "DEFAULT"} /\ pc' = "prompt" /\ UNCHANGED <<args, sp, stack, log>>
      BY <1>8 DEF RmProtected, Got, Still
    <2>2. ~Told(pc, cur, sp.discard) /\ ~Told(pc', cur, sp'.discard) /\ Hand(pc', cur, sp'.discard) /\ pc' \in FlatPcs
      BY <1>2, <2>1 DEF Told, Hand, FlatPcs
    <2> QED
      BY <1>3, <2>1, <2>2, HandOn
  <1>9. CASE RmPrompt
    <2>1. pc = "prompt" /\ UNCHANGED <<args, sp, stack>>
      BY <1>9 DEF RmPrompt, Still
    <2>2. \/ pc' = "excise" /\ log' = log
          \/ pc' = "excise" /\ log' = [log EXCEPT !.asked = @ \cup {cur.path}]
          \/ pc' = "read" /\ (Report("ERROR", "failed") \/ Report("DECLINED", "declined"))
      BY <1>9 DEF RmPrompt
    <2>3. ~sp.discard /\ cur.instr = "none" /\ cur.info \notin {"D", "DP"}
      BY <1>2, <2>1 DEF Hand
    <2>4. ~Told(pc, cur, sp.discard)
      BY <2>1, <2>3 DEF Told
    <2>5. CASE pc' = "excise" /\ log'.out = log.out
      <3>1. ~Told(pc', cur, sp'.discard) /\ Hand(pc', cur, sp'.discard) /\ pc' \in FlatPcs
        BY <1>2, <2>1, <2>3, <2>5 DEF Told, Hand, FlatPcs
      <3> QED
        BY <1>3, <2>1, <2>4, <2>5, <3>1, HandOn
    <2>6. CASE pc' = "read" /\ (Report("ERROR", "failed") \/ Report("DECLINED", "declined"))
      <3>1. Told(pc', cur, sp'.discard) /\ Hand(pc', cur, sp'.discard) /\ pc' \in FlatPcs
        BY <1>2, <2>1, <2>3, <2>6 DEF Told, Hand, FlatPcs
      <3>2. \E what : log'.out = Append(log.out, <<cur.path, what>>)
        BY <1>4, <1>5, <2>6
      <3> QED
        BY <1>3, <2>1, <2>4, <2>6, <3>1, <3>2, HandOn
    <2>7. log' = [log EXCEPT !.asked = @ \cup {cur.path}] => log'.out = log.out
      BY DEF LogSet
    <2> QED
      BY <2>2, <2>5, <2>6, <2>7
  <1>10. CASE RmExcise
    <2>1. pc = "excise" /\ pc' = "read" /\ UNCHANGED <<args, sp, stack>>
      BY <1>10 DEF RmExcise
    <2>2. \/ \E s : Report(s, "missing")
          \/ Report("ERROR", "failed")
          \/ log'.out = Append(log.out, <<cur.path, "removed">>)
      <3>1. \/ \E s : Report(s, "missing")
            \/ Report("ERROR", "failed")
            \/ \E r : log' = [log EXCEPT !.out = Append(@, <<cur.path, "removed">>), !.removed = r]
        BY <1>10 DEF RmExcise
      <3>2. \A r : log' = [log EXCEPT !.out = Append(@, <<cur.path, "removed">>), !.removed = r]
                     => log'.out = Append(log.out, <<cur.path, "removed">>)
        BY DEF LogSet
      <3> QED
        BY <3>1, <3>2
    <2>3. \E what : log'.out = Append(log.out, <<cur.path, what>>)
      BY <1>4, <1>5, <2>2
    <2>4. ~sp.discard /\ cur.instr = "none" /\ cur.info \notin {"D", "DP"}
      BY <1>2, <2>1 DEF Hand
    <2>5. ~Told(pc, cur, sp.discard) /\ Told(pc', cur, sp'.discard) /\ Hand(pc', cur, sp'.discard) /\ pc' \in FlatPcs
      BY <1>2, <2>1, <2>4 DEF Told, Hand, FlatPcs
    <2> QED
      BY <1>3, <2>1, <2>3, <2>5, HandOn
  <1> QED
    BY <1>6, <1>7, <1>8, <1>9, <1>10 DEF Rm

\* The report of a call that changes an owner, or does not.
LEMMA ChangesOut ==
  ASSUME log \in LogSet, cur.path \in Seq(Words), Level(cur) = 0, NEW i, NEW how, NEW done \in BOOLEAN, Changes(i, how, done)
  PROVE  (\E what : log'.out = Append(log.out, <<cur.path, what>>)) /\ Finish(done)
  <1> DEFINE what == IF done THEN "changed" ELSE "failed"
             b == Outcome(what)
  <1>1. what \in Whats
    BY DEF Whats
  <1>2. b \in LogSet /\ b.out = Append(log.out, <<cur.path, what>>)
    BY <1>1, OutcomeLog
  <1>3. PICK c : log' = [b EXCEPT !.changed = c]
    <2>1. log' = [b EXCEPT !.changed = IF done THEN b.changed \cup {[ino |-> i, how |-> how, level |-> Level(cur),
                                                 same |-> i = cmd.stat, match |-> Matches(fs[i].own)]} ELSE b.changed]
      BY <1>2 DEF Changes, LogSet
    <2> QED
      BY <2>1
  <1> HIDE DEF b, what
  <1>4. log'.out = b.out
    BY <1>2, <1>3 DEF LogSet
  <1> QED
    BY <1>2, <1>4 DEF Changes

\* The end of change_file_owner() without -R, with a report.
LEMMA FlatFinish ==
  ASSUME FtsOK, log \in LogSet, InHand, ~opt.recurse, NEW ok, Finish(ok), \E what : log'.out = Append(log.out, <<cur.path, what>>),
         sp' = sp, args' = args, ~Told(pc, cur, sp.discard)
  PROVE  InHand'
  <1> DEFINE p == [cur EXCEPT !.instr = "SKIP"]
  <1>1. /\ Len(stack) = 1 /\ cur = stack[1][1] /\ cur \in EntrySet /\ sp.discard \in BOOLEAN
    BY HandFacts
  <1>2. Hand(pc, cur, sp.discard)
    BY <1>1 DEF InHand
  <1>3. stack' = SetCur(p) /\ pc' = "read"
    BY DEF Finish, EndSkip
  <1>4. p \in EntrySet /\ p.path = cur.path /\ p.instr = "SKIP" /\ p.info = cur.info
    BY <1>1, EntryChanged DEF EntrySet
  <1> HIDE DEF p
  <1>5. Renews(stack', p)
    BY <1>3, <1>4, Renewed
  <1>6. ~sp.discard /\ cur.info # "DP"
    BY DEF Told
  <1>7. Told(pc', p, sp'.discard) /\ Hand(pc', p, sp'.discard) /\ pc' \in FlatPcs
    BY <1>2, <1>3, <1>4, <1>6 DEF Told, Hand, FlatPcs
  <1> QED
    BY <1>3, <1>4, <1>5, <1>7, HandOn

\* chown without -R reports what it is done with.
LEMMA FlatChown ==
  ASSUME FtsOK, log \in LogSet, InHand, Chown, ~opt.recurse
  PROVE  InHand'
  <1>1. /\ Len(stack) = 1 /\ cur = stack[1][1] /\ cur \in EntrySet /\ cur.path \in Seq(Words) /\ sp \in Streams /\ sp.discard \in BOOLEAN
        /\ Level(cur) = 0 /\ ~(Level(cur) > 0)
    BY HandFacts
  <1>2. /\ Hand(pc, cur, sp.discard) /\ pc \in FlatPcs
    BY <1>1 DEF InHand
  <1>3. /\ \A p \in EntrySet : p.path = cur.path => Renews(SetCur(p), p)
        /\ Renews(stack, cur)
    BY Renewed
  <1>4. \A what \in Whats : log' = Outcome(what) => log'.out = Append(log.out, <<cur.path, what>>)
    BY <1>1, OutcomeLog
  <1>5. {"kept", "failed", "changed", "unsupported"} \subseteq Whats
    BY DEF Whats
  <1>6. ~ChownOption /\ ~ChownUsage /\ ~ChownParse /\ ~ChownOpen /\ ~ChownEnd
    BY <1>2 DEF ChownOption, ChownUsage, ChownParse, ChownOpen, ChownEnd, FlatPcs
  <1>7. pc \in {"change", "opened", "ordinary"} => ~Told(pc, cur, sp.discard) /\ ~sp.discard /\ cur.info # "DP" /\ cur.instr = "none"
    BY <1>2 DEF Told, Hand
  <1>8. ASSUME NEW i, NEW how, NEW done \in BOOLEAN, Changes(i, how, done), pc \in {"change", "opened", "ordinary"}, sp' = sp, args' = args
        PROVE  InHand'
    BY <1>1, <1>7, <1>8, ChangesOut, FlatFinish
  <1>9. CASE ChownVisit
    <2>1. pc = "got" /\ ~sp.discard /\ OwnerVisit /\ args' = args /\ cur.instr = "none"
      BY <1>2, <1>9 DEF ChownVisit, Got, Still, Hand
    <2>2. CASE cur.info = "DP" /\ pc' = "read" /\ Leave(TRUE) /\ UNCHANGED <<sp, stack>>
      <3>1. log' = log
        BY <2>2 DEF Leave
      <3>2. Told(pc, cur, sp.discard) /\ Told(pc', cur, sp'.discard) /\ Hand(pc', cur, sp'.discard) /\ pc' \in FlatPcs
        BY <1>2, <2>1, <2>2 DEF Told, Hand, FlatPcs
      <3> QED
        BY <1>3, <2>1, <2>2, <3>1, <3>2, HandOn
    <2>3. CASE cur.info = "NS" /\ pc' = "read" /\ Leave(TRUE) /\ stack' = SetCur([cur EXCEPT !.number = 1, !.instr = "AGAIN"]) /\ UNCHANGED sp
      <3> DEFINE p == [cur EXCEPT !.number = 1, !.instr = "AGAIN"]
      <3>1. log' = log /\ stack' = SetCur(p)
        BY <2>3 DEF Leave
      <3>2. p \in EntrySet /\ p.path = cur.path /\ p.instr = "AGAIN" /\ p.info = "NS"
        <4> DEFINE q == [cur EXCEPT !.instr = "AGAIN"]
        <4>1. q \in EntrySet /\ q.path = cur.path /\ q.instr = "AGAIN" /\ q.info = "NS"
          BY <1>1, <2>3, EntryChanged DEF EntrySet
        <4>2. p = [q EXCEPT !.number = 1]
          BY <1>1 DEF EntrySet
        <4> HIDE DEF q, p
        <4> QED
          BY <4>1, <4>2 DEF EntrySet
      <3> HIDE DEF p
      <3>3. Renews(stack', p)
        BY <1>3, <3>1, <3>2
      <3>4. ~Told(pc, cur, sp.discard) /\ ~Told(pc', p, sp'.discard) /\ Hand(pc', p, sp'.discard) /\ pc' \in FlatPcs
        BY <2>1, <2>3, <3>2 DEF Told, Hand, FlatPcs
      <3> QED
        BY <2>1, <2>3, <3>1, <3>2, <3>3, <3>4, HandOn
    <2>4. CASE cur.info \in {"ERR", "DNR", "NS"} /\ Finish(FALSE) /\ UNCHANGED sp /\ log' = Outcome("failed")
      <3>1. log'.out = Append(log.out, <<cur.path, "failed">>) /\ ~Told(pc, cur, sp.discard)
        BY <1>4, <1>5, <2>1, <2>4 DEF Told
      <3> QED
        BY <2>1, <2>4, <3>1, FlatFinish
    <2>5. cur.info # "DC"
      BY <1>2 DEF Hand
    <2> QED
      BY <2>1, <2>2, <2>3, <2>4, <2>5 DEF OwnerVisit
  <1>10. CASE ChownDecide
    <2>1. pc = "got" /\ ~sp.discard /\ cur.info # "DP" /\ UNCHANGED <<sp, args>>
      BY <1>10 DEF ChownDecide, Got, Decides, Still
    <2>2. ~Told(pc, cur, sp.discard)
      BY <2>1 DEF Told
    <2>3. \/ pc' = "change" /\ UNCHANGED <<stack, log>>
          \/ (\E ok : Finish(ok)) /\ (log' = Outcome("kept") \/ log' = Outcome("failed"))
      BY <1>10 DEF ChownDecide
    <2>4. CASE pc' = "change" /\ UNCHANGED <<stack, log>>
      <3>1. ~Told(pc', cur, sp'.discard) /\ Hand(pc', cur, sp'.discard) /\ pc' \in FlatPcs
        BY <1>2, <2>1, <2>4 DEF Told, Hand, FlatPcs
      <3> QED
        BY <1>3, <2>1, <2>2, <2>4, <3>1, HandOn
    <2>5. CASE (\E ok : Finish(ok)) /\ (log' = Outcome("kept") \/ log' = Outcome("failed"))
      <3>1. \E what : log'.out = Append(log.out, <<cur.path, what>>)
        BY <1>4, <1>5, <2>5
      <3> QED
        BY <2>1, <2>2, <2>5, <3>1, FlatFinish
    <2> QED
      BY <2>3, <2>4, <2>5
  <1>11. CASE ChownLink
    <2>1. pc = "change" /\ UNCHANGED <<sp, args>>
      BY <1>11 DEF ChownLink
    <2>2. \/ \E failed \in BOOLEAN : LET i == At(sp, cur) IN Changes(i, "link", ~failed /\ i # NONE)
          \/ Finish(TRUE) /\ log' = Outcome("unsupported")
      BY <1>11 DEF ChownLink
    <2>3. CASE Finish(TRUE) /\ log' = Outcome("unsupported")
      <3>1. log'.out = Append(log.out, <<cur.path, "unsupported">>)
        BY <1>4, <1>5, <2>3
      <3> QED
        BY <1>7, <2>1, <2>3, <3>1, FlatFinish
    <2> QED
      BY <1>8, <2>1, <2>2, <2>3
  <1>12. CASE ChownOpens
    <2>1. pc = "change" /\ UNCHANGED <<sp, args>>
      BY <1>12 DEF ChownOpens
    <2>2. \/ pc' \in {"ordinary", "opened"} /\ UNCHANGED <<log, stack>>
          \/ \E i : Changes(i, "fd", FALSE)
      BY <1>12 DEF ChownOpens
    <2>3. CASE pc' \in {"ordinary", "opened"} /\ UNCHANGED <<log, stack>>
      <3>1. ~Told(pc', cur, sp'.discard) /\ Hand(pc', cur, sp'.discard) /\ pc' \in FlatPcs
        BY <1>2, <1>7, <2>1, <2>3 DEF Told, Hand, FlatPcs
      <3> QED
        BY <1>3, <1>7, <2>1, <2>3, <3>1, HandOn
    <2> QED
      BY <1>8, <2>1, <2>2, <2>3
  <1>13. CASE ChownDescriptor
    <2>1. pc = "opened" /\ UNCHANGED <<sp, args>>
      BY <1>13 DEF ChownDescriptor
    <2>2. \/ Finish(TRUE) /\ log' = Outcome("kept")
          \/ \E failed \in BOOLEAN : LET i == fds[cmd.fd] IN Changes(i, "fd", ~failed /\ SAME_INODE(i))
      BY <1>13 DEF ChownDescriptor
    <2>3. CASE Finish(TRUE) /\ log' = Outcome("kept")
      <3>1. log'.out = Append(log.out, <<cur.path, "kept">>)
        BY <1>4, <1>5, <2>3
      <3> QED
        BY <1>7, <2>1, <2>3, <3>1, FlatFinish
    <2>4. \A i : SAME_INODE(i) \in BOOLEAN
      BY DEF SAME_INODE
    <2> QED
      BY <1>8, <2>1, <2>2, <2>3, <2>4
  <1>14. CASE ChownOrdinary
    <2>1. pc = "ordinary" /\ UNCHANGED <<sp, args>>
      BY <1>14 DEF ChownOrdinary
    <2>2. \E failed \in BOOLEAN : LET i == Follow(fs, At(sp, cur)) IN Changes(i, "ordinary", ~failed /\ i # NONE)
      BY <1>14 DEF ChownOrdinary
    <2> QED
      BY <1>8, <2>1, <2>2
  <1> QED
    BY <1>6, <1>9, <1>10, <1>11, <1>12, <1>13, <1>14 DEF Chown

\* The walk begins before the first operand.
LEMMA OpenHand ==
  ASSUME FtsOK, pc \in Before, NEW options \in SUBSET Flags, "CWDFD" \in options, fts_open(options), pc' = "read",
         args'.ops = args.ops, log' = log
  PROVE  InHand'
  <1> DEFINE opts == IF "LOGICAL" \in options THEN (options \ {"CWDFD"}) \cup {"NOCHDIR"} ELSE options
             s == [options |-> opts, cwd |-> AT_FDCWD, ring |-> i_ring_init, counter |-> 0, seen |-> NONE, dirp |-> NONE,
                   stop |-> FALSE, errno |-> FALSE, discard |-> FALSE]
             root(i) == IF i = 1 THEN fts_stat(s, fts_alloc(<<args.ops[i]>>, "NSOK")) ELSE fts_alloc(<<args.ops[i]>>, "NSOK")
             first == fts_alloc(<<"">>, "INIT")
             rest == [i \in 1..Len(args.ops) |-> root(i)]
             level == <<first>> \o rest
             ops == args.ops
             N == Len(args.ops)
  <1>1. sp' = s /\ stack' = <<level>>
    BY DEF fts_open
  <1>2. FsOK /\ ArgsOK /\ log = NoLog
    BY DEF FtsOK, PcOK
  <1>3. N \in Nat /\ \A i \in 1..N : ops[i] \in Words
    <2> DEFINE S == STRING
    <2>1. ops \in Seq(S) /\ S \subseteq Words
      BY <1>2, OpsTyped DEF Words
    <2> HIDE DEF S, ops
    <2>2. Len(ops) \in Nat /\ \A i \in 1..Len(ops) : ops[i] \in Words
      BY <2>1
    <2> QED
      BY <2>2 DEF ops
  <1>4. s.cwd = AT_FDCWD /\ s.discard = FALSE /\ DirOf(s.cwd) \in DOMAIN fs
    <2>1. s.cwd = AT_FDCWD /\ s.discard = FALSE
      OBVIOUS
    <2> HIDE DEF s
    <2> QED
      BY <1>2, <2>1 DEF DirOf, FsOK
  <1> HIDE DEF s
  <1>5. {"INIT", "NSOK"} \subseteq Infos /\ "" \in Words
    BY DEF Infos, Words
  <1>6. ASSUME NEW i \in 1..N
        PROVE  root(i) \in EntrySet /\ root(i).path = <<args.ops[i]>> /\ root(i).instr = "none" /\ root(i).info \notin {"DP", "DC"}
    <2> DEFINE p == fts_alloc(<<ops[i]>>, "NSOK")
    <2>1. p \in EntrySet
      BY <1>3, <1>5, RootFacts
    <2>2. p.path = <<args.ops[i]>> /\ p.instr = "none" /\ p.info = "NSOK"
      BY DEF fts_alloc
    <2>3. root(i) = IF i = 1 THEN fts_stat(s, p) ELSE p
      OBVIOUS
    <2> HIDE DEF p, root
    <2>4. fts_stat(s, p) \in EntrySet /\ fts_stat(s, p).path = p.path /\ fts_stat(s, p).instr = p.instr
          /\ fts_stat(s, p).info \in {"NS", "SLNONE", "D", "SL", "F", "DEFAULT"}
      BY <1>2, <1>4, <2>1, StatFacts
    <2> QED
      BY <2>1, <2>2, <2>3, <2>4
  <1>7. first \in EntrySet
    BY <1>5, RootFacts
  <1>8. first.info = "INIT" /\ first.instr = "none"
    BY DEF fts_alloc
  <1> HIDE DEF root, first
  <1>9. rest \in Seq(EntrySet) /\ Len(rest) = N /\ \A i \in 1..N : rest[i] = root(i)
    BY <1>3, <1>6
  <1> HIDE DEF rest, N
  <1>10. Len(level) = N + 1 /\ level[1] = first /\ \A k \in 2..(N + 1) : level[k] = rest[k - 1]
    BY <1>3, <1>7, <1>9
  <1> HIDE DEF level
  <1>11. Len(stack') = 1 /\ stack'[1] = level
    BY <1>1
  <1>12. N = Len(args.ops) /\ Len(args.ops)' = N
    BY DEF N
  <1>13. Place' = 0
    BY <1>3, <1>10, <1>11, <1>12 DEF Place
  <1>14. ASSUME NEW j \in 1..(N + 1), j # 1
         PROVE  stack'[1][j].path = <<args.ops[j - 1]>> /\ Coming(j)'
    <2>1. j \in 2..(N + 1) /\ j - 1 \in 1..N
      BY <1>3, <1>14
    <2>2. stack'[1][j] = root(j - 1)
      BY <1>9, <1>10, <1>11, <2>1
    <2> DEFINE q == root(j - 1)
    <2>3. q.path = <<args.ops[j - 1]>> /\ q.instr = "none" /\ q.info \notin {"DP", "DC"}
      BY <1>6, <2>1
    <2> HIDE DEF q
    <2> QED
      BY <2>2, <2>3 DEF Coming, q
  <1>15. \A j \in 1..(N + 1) : 0 + j - 1 # 0 => j # 1 /\ 0 + j - 1 = j - 1
    BY <1>3
  <1>16. Reported' = FirstOps(0)'
    <2>1. DOMAIN log'.out = {} /\ 1..0 = {}
      BY <1>2 DEF NoLog
    <2> QED
      BY <2>1 DEF Reported, FirstOps
  <1>17. Hand(pc, stack[1][1], sp.discard)' /\ Told(pc, stack[1][1], sp.discard)'
    BY <1>1, <1>4, <1>8, <1>10, <1>11 DEF Hand, Told
  <1>18. pc' \in FlatPcs /\ pc' \notin {"check", "enter"}
    BY DEF FlatPcs
  <1>19. /\ \A j \in 1..Len(stack'[1]) : Place' + j - 1 # 0 => stack'[1][j].path = <<args'.ops[Place' + j - 1]>>
         /\ \A j \in 1..Len(stack'[1]) : j # 1 => Coming(j)'
    BY <1>10, <1>11, <1>13, <1>14, <1>15
  <1>20. Reported' = FirstOps(Place)'
    BY <1>13, <1>16 DEF FirstOps
  <1>21. Len(stack'[1]) <= Len(args.ops)' + 1
    BY <1>3, <1>10, <1>11, <1>12
  <1> QED
    BY <1>11, <1>17, <1>18, <1>19, <1>20, <1>21 DEF InHand

\* Before the walk nothing is on the stack.
LEMMA FlatFirst ==
  ASSUME FtsOK, pc \in Before, stack' = stack, sp' = sp
  PROVE  FlatOK'
  <1>1. stack = <<>> /\ sp = NoStream
    BY DEF FtsOK, PcOK
  <1>2. sp'.options = {} /\ Len(stack') = 0
    BY <1>1 DEF NoStream
  <1> QED
    BY <1>2 DEF FlatOK, NonRecursiveStays

\* The first steps of the programs.
LEMMA FlatBegins ==
  ASSUME FtsOK, pc \in Before, FtsNext
  PROVE  FlatOK'
  <1>1. \/ stack' = stack /\ sp' = sp
        \/ \E options \in SUBSET Flags : "CWDFD" \in options /\ fts_open(options) /\ pc' = "read" /\ args'.ops = args.ops /\ log' = log
    <2>1. CASE World
      BY <2>1 DEF World
    <2>2. CASE Walk
      BY <2>2 DEF Walk, Before, Reading, ReadAgain, ReadSkipped, BuildOpen, BuildChdir, BuildRead, BuildBack, ReadNext, ReadUp, CheckForDir,
                  enter_dir, Discard
    <2>3. CASE Rm
      <3>1. ~RmDirectory /\ ~RmProtected /\ ~RmPrompt /\ ~RmExcise /\ ~RmEnd
        BY DEF RmDirectory, RmProtected, RmPrompt, RmExcise, RmEnd, Got, Before
      <3>2. CASE RmOption \/ RmUsage
        BY <3>2 DEF RmOption, RmUsage
      <3>3. CASE RmMain
        <4> DEFINE options == {"CWDFD", "NOSTAT", "PHYSICAL"}
        <4>1. args' = [args EXCEPT !.left = 0] /\ log' = log
              /\ (UNCHANGED <<sp, stack>> \/ (fts_open({"CWDFD", "NOSTAT", "PHYSICAL"}) /\ pc' = "read"))
          BY <3>3 DEF RmMain
        <4>2. args'.ops = args.ops
          <5>1. args \in RmArgs
            BY <3>3, RmArgsFacts DEF FtsOK, RmMain
          <5> QED
            BY <4>1, <5>1 DEF RmArgs
        <4>3. options \in SUBSET Flags /\ "CWDFD" \in options
          BY DEF Flags
        <4> HIDE DEF options
        <4>4. UNCHANGED <<sp, stack>> \/ (fts_open(options) /\ pc' = "read")
          BY <4>1 DEF options
        <4> QED
          BY <4>1, <4>2, <4>3, <4>4
      <3> QED
        BY <2>3, <3>1, <3>2, <3>3 DEF Rm
    <2>4. CASE Chown
      <3>1. ~ChownVisit /\ ~ChownDecide /\ ~ChownLink /\ ~ChownOpens /\ ~ChownDescriptor /\ ~ChownOrdinary /\ ~ChownEnd
        BY DEF ChownVisit, ChownDecide, ChownLink, ChownOpens, ChownDescriptor, ChownOrdinary, ChownEnd, Got, Before
      <3>2. CASE ChownOption \/ ChownUsage \/ ChownParse
        BY <3>2 DEF ChownOption, ChownUsage, ChownParse
      <3>3. CASE ChownOpen
        <4> DEFINE options == opt.flags \cup {"CWDFD", "DEFER_STAT"} \cup StatFlags
        <4>1. args' = [args EXCEPT !.opt.spec = NoSpec] /\ log' = log /\ (UNCHANGED <<sp, stack>> \/ (fts_open(options) /\ pc' = "read"))
              /\ pc = "open" /\ IsChown
          BY <3>3 DEF ChownOpen
        <4>2. args \in ChownArgs(FinalSet)
          BY <4>1, ChownArgsFacts DEF FtsOK
        <4>3. args'.ops = args.ops
          BY <4>1, <4>2 DEF ChownArgs
        <4>4. opt.flags \in FlagSets
          BY <4>2 DEF ChownArgs, FinalSet, opt
        <4>5. options \in SUBSET Flags /\ "CWDFD" \in options
          BY <4>4 DEF Flags, FlagSets, StatFlags
        <4> HIDE DEF options
        <4> QED
          BY <4>1, <4>3, <4>5
      <3> QED
        BY <2>4, <3>1, <3>2, <3>3 DEF Chown
    <2> QED
      BY <2>1, <2>2, <2>3, <2>4 DEF FtsNext
  <1>2. CASE stack' = stack /\ sp' = sp
    BY <1>2, FlatFirst
  <1>3. CASE \E options \in SUBSET Flags : "CWDFD" \in options /\ fts_open(options) /\ pc' = "read" /\ args'.ops = args.ops /\ log' = log
    <2>1. InHand'
      BY <1>3, OpenHand
    <2> QED
      BY <2>1 DEF InHand, FlatOK, NonRecursiveStays
  <1> QED
    BY <1>1, <1>2, <1>3

\* After that nothing changes the operands, and a program that has ended does nothing.
LEMMA ArgsStay ==
  ASSUME FtsOK, pc \notin Before, FtsNext
  PROVE  args' = args /\ pc \notin {"exit", "crash"}
  <1>1. CASE World
    BY <1>1 DEF World
  <1>2. CASE Walk
    <2>1. args' = args
      BY <1>2, WalkFacts DEF FtsOK
    <2>2. pc \notin {"exit", "crash"}
      BY <1>2 DEF Walk, Reading, ReadAgain, ReadSkipped, BuildOpen, BuildChdir, BuildRead, BuildBack, ReadNext, ReadUp, CheckForDir,
                  enter_dir, Discard
    <2> QED
      BY <2>1, <2>2
  <1>3. CASE Rm
    <2>1. ~RmOption /\ ~RmUsage /\ ~RmMain
      BY DEF RmOption, RmUsage, RmMain, Before
    <2>2. RmDirectory \/ RmProtected \/ RmPrompt \/ RmExcise \/ RmEnd
      BY <1>3, <2>1 DEF Rm
    <2> QED
      BY <2>2 DEF RmDirectory, RmProtected, RmPrompt, RmExcise, RmEnd, Got, Still
  <1>4. CASE Chown
    <2>1. ~ChownOption /\ ~ChownUsage /\ ~ChownParse /\ ~ChownOpen
      BY DEF ChownOption, ChownUsage, ChownParse, ChownOpen, Before
    <2>2. \/ ChownVisit \/ ChownDecide \/ ChownLink \/ ChownOpens \/ ChownDescriptor \/ ChownOrdinary \/ ChownEnd
      BY <1>4, <2>1 DEF Chown
    <2> QED
      BY <2>2 DEF ChownVisit, ChownDecide, ChownLink, ChownOpens, ChownDescriptor, ChownOrdinary, ChownEnd, Got, Still
  <1> QED
    BY <1>1, <1>2, <1>3, <1>4 DEF FtsNext

\* What the reports depend on stays as it is.
LEMMA FlatStays ==
  ASSUME FlatOK, UNCHANGED <<pc, sp, stack, log, args>>
  PROVE  FlatOK'
  <1>1. Flat' = Flat /\ Reported' = Reported /\ Place' = Place /\ \A n : FirstOps(n)' = FirstOps(n)
    BY DEF Flat, IsRm, IsChown, opt, Reported, Place, FirstOps
  <1>2. InHand => InHand'
    BY <1>1 DEF InHand, Hand, Told, Coming, FirstOps
  <1> HIDE DEF Flat, Reported, FirstOps
  <1>3. NonRecursiveStays'
    BY DEF FlatOK, NonRecursiveStays, IsChown, opt
  <1>4. FirstOps(Len(args.ops))' = FirstOps(Len(args.ops))
    BY DEF FirstOps
  <1> QED
    BY <1>1, <1>2, <1>3, <1>4 DEF FlatOK

\* Every step keeps them.
LEMMA FlatNext ==
  ASSUME FtsOK, OwnInv, FlatOK, FtsNext
  PROVE  FlatOK'
  <1>1. CASE pc \in Before
    BY <1>1, FlatBegins
  <1>2. CASE pc \notin Before
    <2>1. args' = args /\ pc \notin {"exit", "crash"}
      BY <1>2, ArgsStay
    <2>2. Flat' = Flat
      BY <2>1 DEF Flat, IsRm, IsChown, opt
    <2>3. sp.options # {}
      BY <1>2, <2>1 DEF FtsOK, PcOK, NoChdir
    <2>4. CASE World
      BY <2>4, FlatStays DEF World
    <2>5. CASE ~Flat
      BY <2>2, <2>5 DEF FlatOK, NonRecursiveStays, Flat
    <2>6. CASE Flat /\ ~World
      <3>1. InHand \/ pc = "null"
        BY <2>1, <2>3, <2>6 DEF FlatOK
      <3>2. log \in LogSet
        BY DEF OwnInv
      <3>3. ASSUME InHand'
            PROVE  FlatOK'
        BY <3>3 DEF InHand, FlatOK, NonRecursiveStays
      <3>4. CASE InHand
        <4>1. CASE Walk
          <5>1. InHand' \/ (pc' \in {"crash", "null"} /\ Len(stack') = 1)
                \/ (pc' = "null" /\ stack' = <<>> /\ Reported' = FirstOps(Len(args.ops))')
            BY <3>2, <3>4, <4>1, FlatWalk
          <5>2. CASE InHand'
            BY <3>3, <5>2
          <5>3. CASE pc' \in {"crash", "null"} /\ Len(stack') = 1
            <6>1. stack' # <<>> /\ Len(stack') <= 1
              BY <5>3
            <6> QED
              BY <5>3, <6>1 DEF FlatOK, NonRecursiveStays
          <5>4. CASE pc' = "null" /\ stack' = <<>> /\ Reported' = FirstOps(Len(args.ops))'
            <6>1. Len(stack') <= 1
              BY <5>4
            <6>2. NonRecursiveStays'
              BY <6>1 DEF NonRecursiveStays
            <6> HIDE DEF Reported, FirstOps
            <6> QED
              BY <5>4, <6>2 DEF FlatOK
          <5> QED
            BY <5>1, <5>2, <5>3, <5>4
        <4>2. CASE Rm
          BY <3>2, <3>3, <3>4, <4>2, FlatRm
        <4>3. CASE Chown
          <5>1. IsChown /\ ~IsRm
            BY <4>3 DEF Chown, IsRm, IsChown, ChownOption, ChownUsage, ChownParse, ChownOpen, ChownVisit, ChownDecide,
                        ChownLink, ChownOpens, ChownDescriptor, ChownOrdinary, ChownEnd
          <5>2. ~opt.recurse
            BY <2>6, <5>1 DEF Flat
          <5> QED
            BY <3>2, <3>3, <3>4, <4>3, <5>2, FlatChown
        <4> QED
          BY <2>6, <4>1, <4>2, <4>3 DEF FtsNext
      <3>5. CASE pc = "null"
        <4>1. RmEnd \/ ChownEnd
          <5>1. ~Walk
            BY <3>5 DEF Walk, Reading, ReadAgain, ReadSkipped, BuildOpen, BuildChdir, BuildRead, BuildBack, ReadNext, ReadUp, CheckForDir,
                        enter_dir, Discard
          <5>2. Rm => RmEnd
            BY <3>5 DEF Rm, RmOption, RmUsage, RmMain, RmDirectory, RmProtected, RmPrompt, RmExcise, Got
          <5>3. Chown => ChownEnd
            BY <3>5 DEF Chown, ChownOption, ChownUsage, ChownParse, ChownOpen, ChownVisit, ChownDecide,
                        ChownLink, ChownOpens, ChownDescriptor, ChownOrdinary, Got
          <5> QED
            BY <2>6, <5>1, <5>2, <5>3 DEF FtsNext
        <4>2. pc' = "exit" /\ stack' = stack /\ log' = log
          BY <4>1 DEF RmEnd, ChownEnd, Exit
        <4>3. (stack = <<>> => Reported = FirstOps(Len(args.ops))) /\ NonRecursiveStays
          BY <2>3, <2>6, <3>5 DEF FlatOK, InHand, FlatPcs
        <4>4. Reported' = Reported /\ FirstOps(Len(args.ops))' = FirstOps(Len(args.ops))
          BY <2>1, <4>2 DEF Reported, FirstOps
        <4>5. NonRecursiveStays'
          BY <2>1, <4>2, <4>3 DEF NonRecursiveStays, IsChown, opt
        <4> HIDE DEF Reported, FirstOps
        <4> QED
          BY <4>2, <4>3, <4>4, <4>5 DEF FlatOK
      <3> QED
        BY <3>1, <3>4, <3>5
    <2> QED
      BY <2>4, <2>5, <2>6
  <1> QED
    BY <1>1, <1>2

\* They hold when a program starts.
LEMMA FlatInit ==
  ASSUME FtsInit
  PROVE  FlatOK
  <1>1. stack = <<>> /\ sp = NoStream
    BY DEF FtsInit, RmInit, ChownInit
  <1>2. sp.options = {} /\ Len(stack) = 0
    BY <1>1 DEF NoStream
  <1> QED
    BY <1>2 DEF FlatOK, NonRecursiveStays

\* At the end every operand has been reported, once and in order.
LEMMA FlatTells ==
  ASSUME FtsOK, FlatOK
  PROVE  EachOperandOnce
  <1> SUFFICES ASSUME pc = "exit", stack = <<>>, sp.options # {}, IsChown => ~opt.recurse
               PROVE  Reported = [k \in DOMAIN args.ops |-> <<args.ops[k]>>]
    BY DEF EachOperandOnce
  <1>1. args.ops \in Seq(STRING) /\ args.prog \in {"rm", "chown", "chgrp"}
    BY OpsTyped DEF FtsOK
  <1>2. Flat
    BY <1>1 DEF Flat, IsRm, IsChown
  <1>3. Reported = FirstOps(Len(args.ops))
    BY <1>2 DEF FlatOK, InHand, FlatPcs
  <1>4. DOMAIN args.ops = 1..Len(args.ops)
    BY <1>1
  <1> QED
    BY <1>3, <1>4 DEF FirstOps

-----------------------------------------------------------------------------
(* The exit status of rm, chown and chgrp.                                  *)

\* Reports that are no failure of rm; nothing has gone wrong so far.
Fine(what) == what \in {"removed", "declined"} \cup (IF args.opt.ignore THEN {"missing"} ELSE {})
AllFine == \A k \in DOMAIN log.out : Fine(log.out[k][2])
Clean == IF pc = "exit" THEN cmd.exit = 0 ELSE (IsRm => cmd.status # "ERROR") /\ (IsChown => cmd.ok)
StatusOK == (IsRm /\ Clean => AllFine) /\ (IsChown /\ Clean => ~log.bad)

\* A report that is no failure.
LEMMA FineAdded ==
  ASSUME log.out \in Seq(Reports), AllFine, NEW path, NEW what, Fine(what), log'.out = Append(log.out, <<path, what>>),
         args' = args
  PROVE  AllFine'
  <1> DEFINE o == log.out
             e == <<path, what>>
  <1>1. o \in Seq(Reports) /\ DOMAIN o = 1..Len(o) /\ Len(o) \in Nat /\ e[2] = what
    OBVIOUS
  <1>2. \A k \in 1..Len(o) : Fine(o[k][2])
    BY <1>1 DEF AllFine
  <1> HIDE DEF o, e
  <1>3. /\ DOMAIN Append(o, e) = 1..(Len(o) + 1) /\ (\A k \in 1..Len(o) : Append(o, e)[k] = o[k])
        /\ Append(o, e)[Len(o) + 1] = e
    BY <1>1
  <1>4. \A k \in 1..(Len(o) + 1) : k \in 1..Len(o) \/ k = Len(o) + 1
    BY <1>1
  <1>5. \A k \in 1..(Len(o) + 1) : Fine(Append(o, e)[k][2])
    <2> HIDE DEF Fine
    <2> QED
      BY <1>1, <1>2, <1>3, <1>4
  <1>6. log'.out = Append(o, e)
    BY DEF o, e
  <1> QED
    BY <1>3, <1>5, <1>6 DEF AllFine, Fine

\* A step that neither reports nor makes the status better.
LEMMA StatusStays ==
  ASSUME StatusOK, log' = log, args'.prog = args.prog, args'.opt.ignore = args.opt.ignore, Clean' => Clean
  PROVE  StatusOK'
  BY DEF StatusOK, AllFine, Fine, IsRm, IsChown

\* A failure that rm reports is in its status.
LEMMA StatusRm ==
  ASSUME FtsOK, OwnInv, StatusOK, Rm
  PROVE  StatusOK'
  <1>1. IsRm /\ ~IsChown /\ args'.prog = args.prog /\ cmd \in CmdSet
    <2>1. IsRm /\ ~IsChown
      BY DEF Rm, RmOption, RmUsage, RmMain, RmDirectory, RmProtected, RmPrompt, RmExcise, RmEnd, IsRm, IsChown
    <2>2. args \in RmArgs
      BY <2>1 DEF FtsOK, ArgsOK, ChownArgs, IsRm
    <2>3. "prog" \in DOMAIN args
      BY <2>2 DEF RmArgs
    <2>4. args'.prog = args.prog
      <3>1. CASE RmOption
        BY <2>3, <3>1 DEF RmOption
      <3>2. CASE RmMain
        BY <2>3, <3>2 DEF RmMain
      <3>3. CASE ~RmOption /\ ~RmMain
        <4>1. args' = args
          BY <3>3 DEF Rm, RmUsage, RmDirectory, RmProtected, RmPrompt, RmExcise, RmEnd, Still
        <4> QED
          BY <4>1
      <3> QED
        BY <3>1, <3>2, <3>3
    <2> QED
      BY <2>1, <2>4 DEF FtsOK, TypedOK
  <1>2. log.out \in Seq(Reports)
    BY DEF OwnInv, LogSet
  <1>3. cmd.status \in {"OK", "DECLINED", "ERROR"}
    BY <1>1 DEF CmdSet
  <1>4. ASSUME pc \notin {"exit", "null"}, pc' # "exit", args' = args, NEW s \in {"OK", "DECLINED", "ERROR"}, NEW what, Report(s, what),
               s # "ERROR" => Fine(what)
        PROVE  StatusOK'
    <2>1. cmd'.status = UPDATE_STATUS(cmd.status, s)
      BY <1>1, <1>4 DEF Report, CmdSet
    <2>2. log'.out = Append(log.out, <<cur.path, what>>)
      BY <1>4 DEF Report, OwnInv, LogSet
    <2>3. Clean' => Clean /\ s # "ERROR"
      BY <1>1, <1>3, <1>4, <2>1 DEF Clean, UPDATE_STATUS, IsRm, IsChown
    <2>4. Clean' => AllFine'
      BY <1>1, <1>2, <1>4, <2>2, <2>3, FineAdded DEF StatusOK
    <2> QED
      BY <1>1, <1>4, <2>4 DEF StatusOK, IsRm, IsChown
  <1>5. CASE pc \in Before
    <2>1. RmOption \/ RmUsage \/ RmMain
      BY <1>5 DEF Rm, RmDirectory, RmProtected, RmPrompt, RmExcise, RmEnd, Before, Got
    <2>2. log' = log
      BY <2>1 DEF RmOption, RmUsage, RmMain
    <2>3. DOMAIN log.out = {}
      BY <1>5 DEF FtsOK, PcOK, NoLog
    <2> QED
      BY <1>1, <2>2, <2>3 DEF StatusOK, AllFine, IsRm, IsChown
  <1>6. CASE RmDirectory
    BY <1>4, <1>6 DEF RmDirectory, Got, Still
  <1>7. CASE RmProtected
    <2>1. cmd'.status = cmd.status /\ pc' # "exit" /\ pc # "exit" /\ log' = log /\ args' = args
      BY <1>1, <1>7 DEF RmProtected, Got, Still, CmdSet
    <2> QED
      BY <1>1, <2>1, StatusStays DEF Clean, IsRm, IsChown
  <1>8. CASE RmPrompt
    <2>1. pc = "prompt" /\ pc' # "exit" /\ args' = args
      BY <1>8 DEF RmPrompt, Still
    <2>2. \/ UNCHANGED <<cmd, log>>
          \/ UNCHANGED cmd /\ log' = [log EXCEPT !.asked = @ \cup {cur.path}]
          \/ Report("ERROR", "failed") \/ Report("DECLINED", "declined")
      BY <1>8 DEF RmPrompt
    <2>3. ASSUME UNCHANGED cmd, log'.out = log.out
          PROVE  StatusOK'
      BY <1>1, <2>1, <2>3 DEF StatusOK, Clean, AllFine, Fine, IsRm, IsChown
    <2>4. ASSUME log' = [log EXCEPT !.asked = @ \cup {cur.path}]
          PROVE  log'.out = log.out
      BY <2>4 DEF OwnInv, LogSet
    <2>5. Fine("declined")
      BY DEF Fine
    <2> QED
      BY <1>4, <2>1, <2>2, <2>3, <2>4, <2>5
  <1>9. CASE RmExcise
    <2>1. pc = "excise" /\ pc' = "read" /\ args' = args
      BY <1>9 DEF RmExcise
    <2>2. \/ Report(IF args.opt.ignore THEN "OK" ELSE "ERROR", "missing") \/ Report("ERROR", "failed")
          \/ /\ cmd' = [cmd EXCEPT !.wp = 0, !.kind = "unknown"]
             /\ \E r : log' = [log EXCEPT !.out = Append(@, <<cur.path, "removed">>), !.removed = @ \cup r]
      BY <1>9 DEF RmExcise
    <2>3. ASSUME cmd' = [cmd EXCEPT !.wp = 0, !.kind = "unknown"],
                 NEW r, log' = [log EXCEPT !.out = Append(@, <<cur.path, "removed">>), !.removed = @ \cup r]
          PROVE  StatusOK'
      <3>1. cmd'.status = cmd.status
        BY <1>1, <2>3 DEF CmdSet
      <3>2. log'.out = Append(log.out, <<cur.path, "removed">>)
        BY <2>3 DEF OwnInv, LogSet
      <3>3. Fine("removed")
        BY DEF Fine
      <3>4. Clean' => Clean
        BY <1>1, <2>1, <3>1 DEF Clean, IsRm, IsChown
      <3>5. Clean' => AllFine'
        BY <1>1, <1>2, <2>1, <3>2, <3>3, <3>4, FineAdded DEF StatusOK
      <3> QED
        BY <1>1, <2>1, <3>5 DEF StatusOK, IsRm, IsChown
    <2>4. args.opt.ignore => Fine("missing")
      BY DEF Fine
    <2> QED
      BY <1>4, <2>1, <2>2, <2>3, <2>4
  <1>10. CASE RmEnd
    <2>1. log' = log /\ args' = args /\ pc = "null" /\ pc' = "exit"
      BY <1>10 DEF RmEnd, Still, Exit
    <2>2. cmd'.exit = 0 => cmd.status # "ERROR"
      BY <1>1, <1>3, <1>10 DEF RmEnd, Exit, CmdSet, UPDATE_STATUS
    <2> QED
      BY <1>1, <2>1, <2>2, StatusStays DEF Clean, IsRm, IsChown
  <1> QED
    BY <1>5, <1>6, <1>7, <1>8, <1>9, <1>10 DEF Rm, RmOption, RmUsage, RmMain, Before

\* A failure that chown reports is in its status.
LEMMA StatusChown ==
  ASSUME FtsOK, OwnInv, StatusOK, Chown
  PROVE  StatusOK'
  <1>1. IsChown /\ ~IsRm /\ args'.prog = args.prog /\ cmd \in CmdSet
    <2>1. IsChown /\ ~IsRm
      BY DEF Chown, ChownOption, ChownUsage, ChownParse, ChownOpen, ChownVisit, ChownDecide, ChownLink, ChownOpens,
             ChownDescriptor, ChownOrdinary, ChownEnd, IsRm, IsChown
    <2>2. args \in ChownArgs(ChoptSet) \/ args \in ChownArgs(FinalSet)
      BY <2>1 DEF FtsOK, ArgsOK, RmArgs, IsChown
    <2>3. "prog" \in DOMAIN args
      BY <2>2 DEF ChownArgs
    <2>4. args'.prog = args.prog
      <3>1. CASE ChownOption
        BY <2>3, <3>1 DEF ChownOption
      <3>2. CASE ChownParse
        BY <2>3, <3>2 DEF ChownParse
      <3>3. CASE ChownOpen
        BY <2>3, <3>3 DEF ChownOpen
      <3>4. CASE ~ChownOption /\ ~ChownParse /\ ~ChownOpen
        <4>1. args' = args
          BY <3>4 DEF Chown, ChownUsage, ChownVisit, ChownDecide, ChownLink, ChownOpens, ChownDescriptor, ChownOrdinary, ChownEnd, Still
        <4> QED
          BY <4>1
      <3> QED
        BY <3>1, <3>2, <3>3, <3>4
    <2> QED
      BY <2>1, <2>4 DEF FtsOK, TypedOK
  <1>2. cmd.ok \in BOOLEAN /\ log.bad \in BOOLEAN
    BY <1>1 DEF CmdSet, OwnInv, LogSet
  <1>3. ASSUME pc # "exit", pc' # "exit", Clean' => Clean /\ log'.bad = log.bad
        PROVE  StatusOK'
    BY <1>1, <1>3 DEF StatusOK, IsRm, IsChown
  <1>4. ASSUME pc # "exit", NEW ok, Finish(ok)
        PROVE  pc' # "exit" /\ (Clean' => Clean /\ ok)
    BY <1>1, <1>2, <1>4 DEF Finish, Clean, CmdSet, IsRm, IsChown
  <1>5. \A what : Outcome(what).bad = (log.bad \/ what = "failed")
    BY DEF Outcome, OwnInv, LogSet
  <1>6. ASSUME pc # "exit", NEW i, NEW how, NEW done \in BOOLEAN, Changes(i, how, done)
        PROVE  StatusOK'
    <2>1. Finish(done)
      BY <1>6 DEF Changes
    <2>2. log'.bad = Outcome(IF done THEN "changed" ELSE "failed").bad
      BY <1>6 DEF Changes, Outcome, OwnInv, LogSet
    <2>3. done => log'.bad = log.bad
      BY <1>2, <1>5, <2>2
    <2> QED
      BY <1>3, <1>4, <1>6, <2>1, <2>3
  <1>7. CASE pc \in Before
    <2>1. ChownOption \/ ChownUsage \/ ChownParse \/ ChownOpen
      BY <1>7 DEF Chown, ChownVisit, ChownDecide, ChownLink, ChownOpens, ChownDescriptor, ChownOrdinary, ChownEnd, Before, Got
    <2>2. log' = log
      BY <2>1 DEF ChownOption, ChownUsage, ChownParse, ChownOpen
    <2>3. ~log.bad
      BY <1>7 DEF FtsOK, PcOK, NoLog
    <2> QED
      BY <1>1, <2>2, <2>3 DEF StatusOK, IsRm, IsChown
  <1>8. CASE ChownVisit
    <2>1. pc = "got" /\ pc' = "read"
      BY <1>8 DEF ChownVisit, OwnerVisit, Got, Finish
    <2>2. (\E ok \in BOOLEAN : Leave(ok)) \/ (Finish(FALSE) /\ log' = Outcome("failed"))
      BY <1>8 DEF ChownVisit, OwnerVisit
    <2>3. ASSUME NEW ok \in BOOLEAN, Leave(ok)
          PROVE  StatusOK'
      <3>1. log' = log /\ (cmd'.ok => cmd.ok)
        BY <1>1, <2>3 DEF Leave, CmdSet
      <3> QED
        BY <1>1, <1>3, <2>1, <3>1 DEF Clean, IsRm, IsChown
    <2>4. CASE Finish(FALSE)
      BY <1>3, <1>4, <2>1, <2>4
    <2> QED
      BY <2>2, <2>3, <2>4
  <1>9. CASE ChownDecide
    <2>1. pc = "got"
      BY <1>9 DEF ChownDecide, Got
    <2>2. \/ pc' = "change" /\ log' = log /\ cmd'.ok = cmd.ok
          \/ \E ok \in BOOLEAN : Finish(ok) /\ log' = Outcome(IF ok THEN "kept" ELSE "failed")
      BY <1>1, <1>9 DEF ChownDecide, CmdSet
    <2>3. CASE pc' = "change" /\ log' = log /\ cmd'.ok = cmd.ok
      BY <1>1, <1>3, <2>1, <2>3 DEF Clean, IsRm, IsChown
    <2>4. ASSUME NEW ok \in BOOLEAN, Finish(ok), log' = Outcome(IF ok THEN "kept" ELSE "failed")
          PROVE  StatusOK'
      <3>1. ok => log'.bad = log.bad
        BY <1>2, <1>5, <2>4
      <3> QED
        BY <1>3, <1>4, <2>1, <2>4, <3>1
    <2> QED
      BY <2>2, <2>3, <2>4
  <1>10. CASE ChownLink
    <2>1. pc = "change"
      BY <1>10 DEF ChownLink
    <2>2. (\E i : \E done \in BOOLEAN : Changes(i, "link", done)) \/ (Finish(TRUE) /\ log' = Outcome("unsupported"))
      BY <1>10 DEF ChownLink
    <2>3. CASE Finish(TRUE) /\ log' = Outcome("unsupported")
      <3>1. log'.bad = log.bad
        BY <1>2, <1>5, <2>3
      <3> QED
        BY <1>3, <1>4, <2>1, <2>3, <3>1
    <2> QED
      BY <1>6, <2>1, <2>2, <2>3
  <1>11. CASE ChownOpens
    <2>1. pc = "change"
      BY <1>11 DEF ChownOpens
    <2>2. \/ pc' \in {"ordinary", "opened"} /\ log' = log /\ cmd'.ok = cmd.ok
          \/ \E i : Changes(i, "fd", FALSE)
      BY <1>1, <1>11 DEF ChownOpens, CmdSet
    <2>3. CASE pc' \in {"ordinary", "opened"} /\ log' = log /\ cmd'.ok = cmd.ok
      BY <1>1, <1>3, <2>1, <2>3 DEF Clean, IsRm, IsChown
    <2> QED
      BY <1>6, <2>1, <2>2, <2>3
  <1>12. CASE ChownDescriptor
    <2>1. pc = "opened"
      BY <1>12 DEF ChownDescriptor
    <2>2. \/ \E i : \E done \in BOOLEAN : Changes(i, "fd", done)
          \/ Finish(TRUE) /\ log' = Outcome("kept")
      BY <1>12 DEF ChownDescriptor, SAME_INODE
    <2>3. CASE Finish(TRUE) /\ log' = Outcome("kept")
      <3>1. log'.bad = log.bad
        BY <1>2, <1>5, <2>3
      <3> QED
        BY <1>3, <1>4, <2>1, <2>3, <3>1
    <2> QED
      BY <1>6, <2>1, <2>2, <2>3
  <1>13. CASE ChownOrdinary
    <2>1. pc = "ordinary" /\ \E i : \E done \in BOOLEAN : Changes(i, "ordinary", done)
      BY <1>13 DEF ChownOrdinary
    <2> QED
      BY <1>6, <2>1
  <1>14. CASE ChownEnd
    <2>1. log' = log /\ args' = args /\ pc = "null" /\ pc' = "exit"
      BY <1>14 DEF ChownEnd, Still, Exit
    <2>2. cmd'.exit = 0 => cmd.ok
      BY <1>1, <1>2, <1>14 DEF ChownEnd, Exit, CmdSet
    <2> QED
      BY <1>1, <2>1, <2>2, StatusStays DEF Clean, IsRm, IsChown
  <1> QED
    BY <1>7, <1>8, <1>9, <1>10, <1>11, <1>12, <1>13, <1>14 DEF Chown, ChownOption, ChownUsage, ChownParse, ChownOpen, Before

\* Every step keeps the status.
LEMMA StatusNext ==
  ASSUME FtsOK, OwnInv, StatusOK, FtsNext
  PROVE  StatusOK'
  <1>1. CASE World
    <2>1. pc # "exit" /\ UNCHANGED <<pc, args, cmd, log>>
      BY <1>1 DEF World
    <2> QED
      BY <2>1, StatusStays DEF Clean, IsRm, IsChown
  <1>2. CASE Walk
    <2>1. UNCHANGED <<args, cmd, log>> /\ pc' # "exit"
      BY <1>2, WalkFacts DEF FtsOK, WalkPcs
    <2>2. pc # "exit"
      BY <1>2 DEF Walk, Reading, ReadAgain, ReadSkipped, BuildOpen, BuildChdir, BuildRead, BuildBack, ReadNext, ReadUp, CheckForDir,
                  enter_dir, Discard
    <2> QED
      BY <2>1, <2>2, StatusStays DEF Clean, IsRm, IsChown
  <1> QED
    BY <1>1, <1>2, StatusRm, StatusChown DEF FtsNext

\* It holds when a program starts.
LEMMA StatusInit ==
  ASSUME FtsInit
  PROVE  StatusOK
  <1>1. log = NoLog
    BY DEF FtsInit, RmInit, ChownInit
  <1>2. log.bad = FALSE /\ DOMAIN log.out = {}
    BY <1>1 DEF NoLog
  <1> QED
    BY <1>2 DEF StatusOK, AllFine

\* A program that exits with 0 has reported no failure.
LEMMA StatusHolds ==
  ASSUME StatusOK
  PROVE  RmStatusTells /\ ChownStatusTells
  BY DEF StatusOK, Clean, AllFine, Fine, RmStatusTells, ChownStatusTells

=============================================================================
