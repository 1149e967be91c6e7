----------------------------- MODULE HashTable -----------------------------
(***************************************************************************)
(* The hash table of coreutils/lib/hash.c: an array of bucket heads, each  *)
(* with a chain of overflow entries, a list of freed overflow entries that *)
(* is used before malloc(), and a change of size ("rehash") that is undone *)
(* when memory runs out in the middle.                                     *)
(*                                                                         *)
(* A bucket is the sequence of the data pointers of its head and of its    *)
(* chain; the head always exists, so an empty bucket is <<NULL>>.  Of the  *)
(* list of freed entries only the length matters.  The table is used with  *)
(* the hasher and comparator of hash.c (NULL arguments of hash_initialize) *)
(* or with those of a user, which dereference their arguments.             *)
(***************************************************************************)
EXTENDS Integers, Sequences, FiniteSets, SequencesExt

CONSTANTS
  Entries,       \* user entries: addresses, already rotated by raw_hasher()
  Tunings,       \* values the user may store in the tuning structure
  Sizes,         \* candidates the user passes to hash_rehash()
  Mallocs,       \* how often malloc() may succeed before it fails, per call
  SizeMod,       \* 2^64 in C: the number of values of a size_t
  MaxRehashes    \* bound: calls of transfer_entries() by a table

NULL == 0

SIZE_MAX == SizeMod - 1

\* Ratios are in thousandths. The user stores no growth threshold that
\* compute_bucket_size() would divide by zero with.
Tuning == [shrink_threshold : Nat, shrink_factor : Nat, growth_threshold : Nat \ {0},
           growth_factor : Nat, is_n_buckets : BOOLEAN]

\* Entries are addresses other than NULL.
ASSUME HashAssumption ==
  /\ SizeMod \in Nat /\ SizeMod > 1000 /\ SizeMod % 2 = 0
  /\ Entries \subseteq 1..SIZE_MAX /\ Sizes \subseteq 0..SIZE_MAX
  /\ Tunings \subseteq Tuning /\ Mallocs \subseteq Nat /\ MaxRehashes \in Nat

VARIABLES
  table,      \* the struct hash_table
  tuning,     \* the user's tuning structure, which the table points to
  raw,        \* raw_hasher() and raw_comparator() are used
  status,     \* "ok", "freed", or the process ended: "abort", "segv"
  members,    \* history: inserted and not yet deleted or cleared
  rehashes,   \* history: how often a rehash was begun
  freed,      \* history: given to data_freer() and not inserted since
  succeeded   \* history: the last call returned an entry or true

vars == <<table, tuning, raw, status, members, rehashes, freed, succeeded>>

-----------------------------------------------------------------------------
(* Sizes. The rounding of float is left out.                                *)

default_tuning == [shrink_threshold |-> 0, shrink_factor |-> 1000,
                   growth_threshold |-> 800, growth_factor |-> 1414,
                   is_n_buckets |-> FALSE]

\* The first odd divisor from 3 on that ends the loop decides.
is_prime(candidate) ==
  LET Ends(d) == d * d >= candidate \/ candidate % d = 0
      divisor == CHOOSE d \in {2 * i + 1 : i \in 1..candidate} :
                   Ends(d) /\ \A i \in 1..((d - 3) \div 2) : ~Ends(2 * i + 1)
  IN candidate % divisor # 0

\* The loop ends at SIZE_MAX, which is odd, at the latest.
next_prime(candidate) ==
  LET start == IF candidate < 10 THEN 11
               ELSE IF candidate % 2 = 0 THEN candidate + 1 ELSE candidate
      Ends(i) == start + 2 * i = SIZE_MAX \/ is_prime(start + 2 * i)
      rounds == CHOOSE i \in 0..SIZE_MAX : Ends(i) /\ \A j \in 0..(i - 1) : ~Ends(j)
  IN start + 2 * rounds

\* sizeof(struct hash_entry*) is 8.
xalloc_oversized(n) == SIZE_MAX \div 8 < n

\* 0 if there is no way to allocate that many.
compute_bucket_size(candidate, t) ==
  LET wanted == IF t.is_n_buckets THEN candidate
                ELSE (candidate * 1000) \div t.growth_threshold
      prime == next_prime(wanted)
  IN IF (~t.is_n_buckets /\ wanted >= SIZE_MAX) \/ xalloc_oversized(prime) THEN 0 ELSE prime

\* epsilon is 0.1
ValidTuning(t) ==
  /\ 100 < t.growth_threshold /\ t.growth_threshold < 900
  /\ 1100 < t.growth_factor
  /\ 0 <= t.shrink_threshold
  /\ t.shrink_threshold + 100 < t.shrink_factor /\ t.shrink_factor <= 1000
  /\ t.shrink_threshold + 100 < t.growth_threshold

TuningOf(t, user) == IF t.default THEN default_tuning ELSE user

\* Invalid values make the table use the defaults from now on.
check_tuning(t, user) ==
  IF t.default \/ ValidTuning(user) THEN t ELSE [t EXCEPT !.default = TRUE]

-----------------------------------------------------------------------------
(* The structure.                                                           *)

Hash(e, t) == e % t.n_buckets

\* size_t with fewer bits: counters wrap around below zero.
SizeT(n) == n % SizeMod

NewTable(n) == [bucket |-> [i \in 0..(n - 1) |-> <<NULL>>], n_buckets |-> n,
                default |-> FALSE, n_buckets_used |-> 0, n_entries |-> 0, free |-> 0]

\* The data of a bucket with a used head, in the order of the chain.
Chain(b) == IF Head(b) = NULL THEN <<>> ELSE b

hash_lookup(t, e) ==
  IF e \in Range(Chain(t.bucket[Hash(e, t)])) THEN e ELSE NULL

\* What hash_find_entry() returns; the head is compared even if it is NULL.
Found(t, e) == e \in Range(t.bucket[Hash(e, t)])
ComparesNull(t, e) == NULL \in Range(t.bucket[Hash(e, t)])

\* Mutant: the head is emptied although a chain follows.
Unlinked_head(t, e) ==
  LET i == Hash(e, t)
      b == t.bucket[i]
  IN IF Head(b) = e THEN [t EXCEPT !.bucket[i] = <<NULL>> \o Tail(b)]
     ELSE [t EXCEPT !.bucket[i] = SelectSeq(b, LAMBDA d : d # e), !.free = @ + 1]

\* hash_find_entry() with delete: the head is replaced by the first overflow
\* entry, or the overflow entry is unlinked; it goes to the list of freed ones.
Unlinked(t, e) ==
  LET i == Hash(e, t)
      b == t.bucket[i]
      k == CHOOSE j \in DOMAIN b : b[j] = e /\ \A m \in 1..(j - 1) : b[m] # e
  IN IF Len(b) = 1 THEN [t EXCEPT !.bucket[i] = <<NULL>>]
     ELSE [t EXCEPT !.bucket[i] = RemoveAt(b, k), !.free = @ + 1]

hash_table_ok(t) ==
  /\ t.n_buckets_used = Cardinality({i \in DOMAIN t.bucket : Head(t.bucket[i]) # NULL})
  /\ t.n_entries = Len(FlattenSeq([i \in 1..t.n_buckets |-> Chain(t.bucket[i - 1])]))

\* hash_get_entries() with a large buffer, and hash_do_for_each().
hash_get_entries(t) == FlattenSeq([i \in 1..t.n_buckets |-> Chain(t.bucket[i - 1])])

\* hash_get_first(), then hash_get_next() until it returns NULL.
FirstFrom(t, i) ==
  LET used == {j \in DOMAIN t.bucket : j >= i /\ Head(t.bucket[j]) # NULL}
  IN IF used = {} THEN NULL
     ELSE Head(t.bucket[CHOOSE j \in used : \A m \in used : j <= m])

hash_get_first(t) == IF t.n_entries = 0 THEN NULL ELSE FirstFrom(t, 0)

hash_get_next(t, e) ==
  LET i == Hash(e, t)
      b == t.bucket[i]
      here == {k \in 1..(Len(b) - 1) : b[k] = e}
  IN IF here # {} THEN b[(CHOOSE k \in here : \A m \in here : k <= m) + 1]
     ELSE FirstFrom(t, i + 1)

Walk(t) ==
  LET walk[n \in 0..(2 * t.n_entries + 1)] ==
        IF n = 0 THEN <<hash_get_first(t)>>
        ELSE LET w == walk[n - 1]
             IN IF Last(w) = NULL THEN w ELSE Append(w, hash_get_next(t, Last(w)))
  IN SelectSeq(walk[2 * t.n_entries + 1], LAMBDA e : e # NULL)

-----------------------------------------------------------------------------
(* Changing the size. A transfer is [dst, src, mem, ok]: mem is the number   *)
(* of calls of malloc() that still succeed.                                  *)

Insert2nd(b, e) == <<Head(b), e>> \o Tail(b)

\* Mutant: an overflow entry is linked into the bucket of the old size.
MoveOverflow_old(x, e) ==
  LET i == Hash(e, x.src) % x.dst.n_buckets
  IN [x EXCEPT !.dst.bucket[i] = Insert2nd(@, e)]

MoveOverflow(x, e) ==
  LET i == Hash(e, x.dst)
  IN IF Head(x.dst.bucket[i]) # NULL
     THEN [x EXCEPT !.dst.bucket[i] = Insert2nd(@, e)]
     ELSE [x EXCEPT !.dst.bucket[i] = <<e>> \o Tail(@),
                    !.dst.n_buckets_used = SizeT(@ + 1), !.dst.free = @ + 1]

MoveHead(x, i) ==
  LET e == Head(x.src.bucket[i])
      j == Hash(e, x.dst)
      y == [x EXCEPT !.src.bucket[i] = <<NULL>>, !.src.n_buckets_used = SizeT(@ - 1)]
  IN IF Head(x.dst.bucket[j]) = NULL
     THEN [y EXCEPT !.dst.bucket[j] = <<e>> \o Tail(@), !.dst.n_buckets_used = SizeT(@ + 1)]
     ELSE IF x.dst.free > 0
     THEN [y EXCEPT !.dst.bucket[j] = Insert2nd(@, e), !.dst.free = @ - 1]
     ELSE IF x.mem > 0
     THEN [y EXCEPT !.dst.bucket[j] = Insert2nd(@, e), !.mem = @ - 1]
     ELSE [x EXCEPT !.ok = FALSE]

\* The loop over the overflow entries of a bucket, in the order of the chain.
MoveChain(x, chain) ==
  LET moved[k \in 0..Len(chain)] == IF k = 0 THEN x ELSE MoveOverflow(moved[k - 1], chain[k])
  IN moved[Len(chain)]

MoveBucket(x, i, safe) ==
  IF ~x.ok THEN x
  ELSE LET y == MoveChain(x, Tail(x.src.bucket[i]))
           z == [y EXCEPT !.src.bucket[i] = <<Head(@)>>]
       IN IF safe THEN z ELSE MoveHead(z, i)

\* The loop over the buckets of src, up to the one where malloc() fails.
transfer_entries(dst, src, safe, mem) ==
  LET x[k \in 0..src.n_buckets] ==
        IF k = 0 THEN [dst |-> dst, src |-> src, mem |-> mem, ok |-> TRUE]
        ELSE MoveBucket(x[k - 1], k - 1, safe)
  IN x[src.n_buckets]

\* begun: entries were moved.
Rehashed(tab, m, ok, abort, begun) ==
  [table |-> tab, mem |-> m, ok |-> ok, abort |-> abort, begun |-> begun]

\* The table after all entries have been moved.
Moved(t, fwd) ==
  Rehashed([fwd.dst EXCEPT !.n_entries = t.n_entries, !.default = t.default],
           fwd.mem, TRUE, FALSE, TRUE)

\* Mutant: the undo makes only the safe pass, which leaves the heads behind.
hash_rehash_onepass(t, candidate, user, mem) ==
  LET size == compute_bucket_size(candidate, TuningOf(t, user))
      fwd  == transfer_entries([NewTable(size) EXCEPT !.free = t.free], t, FALSE, mem - 1)
      back == transfer_entries([fwd.src EXCEPT !.free = fwd.dst.free], fwd.dst, TRUE, 0)
  IN IF size = 0 \/ mem = 0 THEN Rehashed(t, mem, FALSE, FALSE, FALSE)
     ELSE IF fwd.ok THEN Moved(t, fwd)
     ELSE Rehashed(back.dst, 0, FALSE, FALSE, TRUE)

\* The entries go back in two passes; the second one must not fail.
UndoRehash(fwd) ==
  LET Second(back) == transfer_entries(back.dst, back.src, FALSE, 0)
      End(undo) == Rehashed(undo.dst, 0, FALSE, ~undo.ok, TRUE)
  IN End(Second(transfer_entries([fwd.src EXCEPT !.free = fwd.dst.free], fwd.dst, TRUE, 0)))

\* calloc() is the first allocation. The comparison of the new size with the old
\* one ("!new_size == table->n_buckets") is never true, so that a table of the
\* same size is rehashed too.
hash_rehash(t, candidate, user, mem) ==
  LET size == compute_bucket_size(candidate, TuningOf(t, user))
      End(fwd) == IF fwd.ok THEN Moved(t, fwd) ELSE UndoRehash(fwd)
  IN IF size = 0 \/ mem = 0 THEN Rehashed(t, mem, FALSE, FALSE, FALSE)
     ELSE End(transfer_entries([NewTable(size) EXCEPT !.free = t.free], t, FALSE, mem - 1))

-----------------------------------------------------------------------------
(* Insertion and deletion: [table, ok, abort, moved].                        *)

TooFull(t, user) ==
  t.n_buckets_used * 1000 > TuningOf(t, user).growth_threshold * t.n_buckets

TooEmpty(t, user) ==
  t.n_buckets_used * 1000 < TuningOf(t, user).shrink_threshold * t.n_buckets

GrowthCandidate(t, u) ==
  IF u.is_n_buckets THEN (t.n_buckets * u.growth_factor) \div 1000
  ELSE ((t.n_buckets * u.growth_factor * u.growth_threshold) \div 1000) \div 1000

ShrinkCandidate(t, u) ==
  IF u.is_n_buckets THEN (t.n_buckets * u.shrink_factor) \div 1000
  ELSE ((t.n_buckets * u.shrink_factor * u.growth_threshold) \div 1000) \div 1000

Done(t, ok, abort, moved) == [table |-> t, ok |-> ok, abort |-> abort, moved |-> moved]

\* The entry becomes the head of an empty bucket or the first of the overflow.
AddEntry(t, e, mem, moved) ==
  LET i == Hash(e, t)
  IN IF Head(t.bucket[i]) = NULL
     THEN Done([t EXCEPT !.bucket[i] = <<e>> \o Tail(@), !.n_entries = SizeT(@ + 1),
                         !.n_buckets_used = SizeT(@ + 1)], TRUE, FALSE, moved)
     ELSE IF t.free > 0
     THEN Done([t EXCEPT !.bucket[i] = Insert2nd(@, e), !.n_entries = SizeT(@ + 1),
                         !.free = @ - 1], TRUE, FALSE, moved)
     ELSE IF mem > 0
     THEN Done([t EXCEPT !.bucket[i] = Insert2nd(@, e), !.n_entries = SizeT(@ + 1)],
               TRUE, FALSE, moved)
     ELSE Done(t, FALSE, FALSE, moved)

\* An entry that is found after the rehash, but was not before, ends the process.
hash_insert(t, e, user, mem) ==
  LET Grown(r) == IF ~r.ok THEN Done(r.table, FALSE, r.abort, r.begun)
                  ELSE IF Found(r.table, e) THEN Done(r.table, FALSE, TRUE, TRUE)
                  ELSE AddEntry(r.table, e, r.mem, TRUE)
      Grow(c, n) == IF n >= SIZE_MAX THEN Done(c, FALSE, FALSE, FALSE)
                    ELSE Grown(hash_rehash(c, n, user, mem))
      Checked(c) == IF ~TooFull(c, user) THEN AddEntry(c, e, mem, FALSE)
                    ELSE Grow(c, GrowthCandidate(c, TuningOf(c, user)))
  IN IF Found(t, e) THEN Done(t, TRUE, FALSE, FALSE)
     ELSE Checked(IF TooFull(t, user) THEN check_tuning(t, user) ELSE t)

\* A table is made smaller only when a bucket has become empty. If that fails
\* the freed entries are given back to malloc().
hash_delete(t, e, user, mem) ==
  LET Shrunk(r) == IF r.ok THEN Done(r.table, TRUE, FALSE, TRUE)
                   ELSE Done([r.table EXCEPT !.free = 0], TRUE, r.abort, r.begun)
      Checked(c) == IF ~TooEmpty(c, user) THEN Done(c, TRUE, FALSE, FALSE)
                    ELSE Shrunk(hash_rehash(c, ShrinkCandidate(c, TuningOf(c, user)), user, mem))
      Emptied(v) == Checked(IF TooEmpty(v, user) THEN check_tuning(v, user) ELSE v)
      Gone(u) == IF Head(u.bucket[Hash(e, u)]) # NULL THEN Done(u, TRUE, FALSE, FALSE)
                 ELSE Emptied([u EXCEPT !.n_buckets_used = SizeT(@ - 1)])
  IN IF ~Found(t, e) THEN Done(t, FALSE, FALSE, FALSE)
     ELSE Gone([Unlinked(t, e) EXCEPT !.n_entries = SizeT(@ - 1)])

\* Chains go to the list of freed entries, but not the chain of an empty head.
hash_clear(t) ==
  LET freed_entries[k \in 0..t.n_buckets] ==
        IF k = 0 THEN t.free
        ELSE IF Head(t.bucket[k - 1]) = NULL THEN freed_entries[k - 1]
        ELSE freed_entries[k - 1] + Len(t.bucket[k - 1]) - 1
  IN [t EXCEPT !.bucket = [i \in DOMAIN @ |-> IF Head(@[i]) = NULL THEN @[i] ELSE <<NULL>>],
               !.free = freed_entries[t.n_buckets], !.n_buckets_used = 0, !.n_entries = 0]

-----------------------------------------------------------------------------
(* The calls of a user.                                                      *)

hash_initialize(candidate, user, r) ==
  /\ ValidTuning(user)
  /\ compute_bucket_size(candidate, user) # 0
  /\ table = NewTable(compute_bucket_size(candidate, user))
  /\ tuning = user /\ raw = r

Init ==
  /\ \E c \in Sizes, u \in Tunings, r \in BOOLEAN : hash_initialize(c, u, r)
  /\ status = "ok" /\ members = {} /\ rehashes = 0
  /\ freed = {}
  /\ succeeded = TRUE

\* A user's comparator and hasher dereference a null pointer.
Segv ==
  /\ ~raw
  /\ status' = "segv"
  /\ UNCHANGED <<table, tuning, raw, members, rehashes, freed, succeeded>>

CanCall == status = "ok" /\ rehashes < MaxRehashes

Apply(r, op, e) ==
  /\ table' = r.table
  /\ status' = IF r.abort THEN "abort" ELSE "ok"
  /\ rehashes' = IF r.moved THEN rehashes + 1 ELSE rehashes
  /\ succeeded' = r.ok
  /\ freed' = IF op = "insert" /\ r.ok THEN freed \ {e} ELSE freed
  /\ UNCHANGED <<tuning, raw>>

insert(e, mem) ==
  /\ CanCall
  /\ \/ /\ raw \/ ~ComparesNull(table, e)
        /\ \E r \in {hash_insert(table, e, tuning, mem)} :
             Apply(r, "insert", e) /\ members' = IF r.ok THEN members \cup {e} ELSE members
     \/ ComparesNull(table, e) /\ Segv

delete(e, mem) ==
  /\ CanCall
  /\ \/ /\ raw \/ ~ComparesNull(table, e)
        /\ \E r \in {hash_delete(table, e, tuning, mem)} :
             Apply(r, "delete", e) /\ members' = IF r.ok THEN members \ {e} ELSE members
     \/ ComparesNull(table, e) /\ Segv

\* A user's hasher gets the null pointer of the first empty bucket.
rehash(candidate, mem) ==
  /\ CanCall
  /\ \E r \in {hash_rehash(table, candidate, tuning, mem)} :
       \/ /\ raw \/ ~r.begun
          /\ Apply(Done(r.table, r.ok, r.abort, r.begun), "rehash", NULL) /\ UNCHANGED members
       \/ r.begun /\ Segv

clear ==
  /\ CanCall
  /\ table' = hash_clear(table) /\ members' = {}
  /\ freed' = freed \cup (Range(hash_get_entries(table)) \ {NULL})
  /\ succeeded' = TRUE
  /\ UNCHANGED <<tuning, raw, status, rehashes>>

free ==
  /\ CanCall
  /\ status' = "freed" /\ members' = {}
  /\ freed' = IF table.n_entries = 0 THEN freed
              ELSE freed \cup (Range(hash_get_entries(table)) \ {NULL})
  /\ succeeded' = TRUE
  /\ UNCHANGED <<table, tuning, raw, rehashes>>

\* The structure given to hash_initialize() is the user's and may change.
set_tuning(u) ==
  /\ CanCall
  /\ tuning' = u
  /\ succeeded' = TRUE
  /\ UNCHANGED <<table, raw, status, members, rehashes, freed>>

Ended == ~CanCall /\ UNCHANGED vars

Next ==
  \/ \E e \in Entries, mem \in Mallocs : insert(e, mem) \/ delete(e, mem)
  \/ \E c \in Sizes, mem \in Mallocs : rehash(c, mem)
  \/ clear \/ free \/ Ended
  \/ \E u \in Tunings : set_tuning(u)

Spec == Init /\ [][Next]_vars

-----------------------------------------------------------------------------
(* Properties.                                                               *)

\* All data the table points to, whether hash_lookup() can reach it or not.
Stored(t) == (UNION {Range(t.bucket[i]) : i \in DOMAIN t.bucket}) \ {NULL}

\* The table is a struct hash_table: every bucket has a head, counters are
\* a size_t, and the array has one of the prime sizes of next_prime().
HashTypeOK ==
  /\ table.n_buckets = next_prime(table.n_buckets)
  /\ \A i \in DOMAIN table.bucket :
       /\ table.bucket[i] \in Seq(Entries \cup {NULL}) /\ table.bucket[i] # <<>>
  /\ {table.n_buckets_used, table.n_entries} \subseteq 0..(SizeMod - 1)
  /\ table.free \in Nat
  /\ tuning \in Tunings /\ members \subseteq Entries /\ freed \subseteq Entries
  /\ status \in {"ok", "freed", "abort", "segv"}

\* "The contents of the hash table are preserved" (hash_rehash), "return the
\* entry from the table" (hash_lookup): the entries that are found are those
\* that were inserted and not deleted.
LookupFindsMembers ==
  status = "ok" => {e \in Entries : hash_lookup(table, e) = e} = members

\* As long as no rehash was started, the table is a set: lookup, both ways of
\* walking and the statistics of hash_table_ok() agree with what was inserted
\* and deleted, over chains, reused overflow entries and failing malloc(); and it
\* holds no entry that data_freer() has freed.
SetUntilRehash ==
  status = "ok" /\ rehashes = 0 =>
    /\ LookupFindsMembers
    /\ hash_table_ok(table)
    /\ Range(Walk(table)) = members /\ Len(Walk(table)) = Cardinality(members)
    /\ Range(hash_get_entries(table)) = members
    /\ Stored(table) \cap freed = {}

\* Also through a rehash and through one that was undone: an entry is kept once,
\* in the bucket it hashes to.
PlacedOnce ==
  HashTypeOK /\ \A e \in Stored(table) :
    \A i \in DOMAIN table.bucket, k \in DOMAIN table.bucket[Hash(e, table)] :
      /\ e \in Range(table.bucket[i]) => i = Hash(e, table)
      /\ table.bucket[Hash(e, table)][k] = e =>
           \A m \in DOMAIN table.bucket[Hash(e, table)] :
             table.bucket[Hash(e, table)][m] = e => m = k

\* A call that returns without success, out of memory in the middle of a rehash
\* too, loses nothing: "We must undo the partial move before returning failure".
FailureLosesNothing ==
  [][~succeeded' /\ status' = "ok" => Stored(table') = Stored(table)]_vars

=============================================================================
