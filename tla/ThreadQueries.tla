--------------------------- MODULE ThreadQueries ---------------------------
(***************************************************************************)
(* The reply-thread and lookup queries of SqueakDb (src/squeaknode/db/    *)
(* squeak_db.py): get_thread_ancestor_squeak_entries, a recursive CTE     *)
(* along hash_reply_sqk, lookup_squeaks, which answers a peer's interest  *)
(* filter, and the two per-address counts over a block range.  They are   *)
(* evaluated over every store content the writers can produce.            *)
(*                                                                         *)
(* The reply hash, author and block height of a squeak are part of its    *)
(* content, fixed when the hash is.  Squeak hashes are naturals; a reply  *)
(* names a smaller hash, which stands for "a reply's hash depends on its  *)
(* parent's hash", so the reply graph has no cycle (spec 4.2, 9).            *)
(***************************************************************************)
EXTENDS Naturals, Sequences, SequencesExt, FiniteSets

CONSTANTS
    Squeaks,      \* squeak hashes, a finite set of naturals
    Addresses,    \* author addresses
    Heights,      \* block heights squeaks may carry, including 0
    NONE          \* NULL

ASSUME Squeaks \subseteq Nat /\ Heights \subseteq Nat /\ 0 \in Heights

VARIABLES
    replyTo,      \* hash_reply_sqk of each squeak, or NONE
    author,       \* author_address of each squeak
    height,       \* n_block_height of each squeak
    present,      \* hashes of the rows of the squeak table
    unlocked      \* squeaks whose secret_key is set

content == <<replyTo, author, height>>
vars == <<content, present, unlocked>>

\* The reply functions a squeak's content can carry: no reply, or a reply
\* to an older (smaller) hash.
ReplyFunctions ==
    {f \in [Squeaks -> Squeaks \cup {NONE}] :
        \A s \in Squeaks : f[s] = NONE \/ f[s] < s}

TypeOK ==
    /\ replyTo \in ReplyFunctions
    /\ author \in [Squeaks -> Addresses]
    /\ height \in [Squeaks -> Heights]
    /\ present \subseteq Squeaks
    /\ unlocked \subseteq present

-----------------------------------------------------------------------------
(***************************************************************************)
(* get_thread_ancestor_squeak_entries                                      *)
(***************************************************************************)
\* The rows the recursive part of the CTE adds below the row (x, d): the
\* squeak row with hash x, when there is one, yields (hash_reply_sqk, d+1).
\* A NULL reply hash joins nothing and is left out.
RECURSIVE CteRows(_, _)
CteRows(x, d) ==
    {<<x, d>>} \cup
        IF x \in present /\ replyTo[x] # NONE
          THEN CteRows(replyTo[x], d + 1)
          ELSE {}

\* Mutant: order_by(depth) ascending.
ThreadAncestorsLeafFirst(h) ==
    LET anchor == IF h \in present THEN CteRows(h, 0) ELSE {}
        rows == {r \in anchor : r[1] \in present}
    IN  [i \in 1..Cardinality(rows) |->
            (SetToSortSeq(rows, LAMBDA a, b : a[2] < b[2]))[i][1]]

\* The anchor is the squeak's own row at depth 0; the result joins the CTE
\* with the squeak table (dropping hashes with no row) and orders by depth
\* descending.
GetThreadAncestorSqueakEntries(h) ==
    LET anchor == IF h \in present THEN CteRows(h, 0) ELSE {}
        rows == {r \in anchor : r[1] \in present}
    IN  [i \in 1..Cardinality(rows) |->
            (SetToSortSeq(rows, LAMBDA a, b : a[2] > b[2]))[i][1]]

(***************************************************************************)
(* lookup_squeaks and the block-range counts                               *)
(***************************************************************************)
\* Mutant: the include_locked filter left out.
LookupSqueaksWithLocked(addresses, minBlock, maxBlock, replyHash, includeLocked) ==
    {s \in present :
        /\ addresses = {} \/ author[s] \in addresses
        /\ minBlock = 0 \/ height[s] >= minBlock
        /\ maxBlock = 0 \/ height[s] =< maxBlock
        /\ replyHash = NONE \/ replyTo[s] = replyHash}

\* Each filter is added only when its argument is truthy: an empty address
\* list, a block bound of 0 and a missing reply hash apply no filter.  The
\* hashes come back ordered by height and hash; only the set is compared.
LookupSqueaks(addresses, minBlock, maxBlock, replyHash, includeLocked) ==
    {s \in present :
        /\ addresses = {} \/ author[s] \in addresses
        /\ minBlock = 0 \/ height[s] >= minBlock
        /\ maxBlock = 0 \/ height[s] =< maxBlock
        /\ replyHash = NONE \/ replyTo[s] = replyHash
        /\ includeLocked \/ s \in unlocked}

\* number_of_squeaks_with_address_in_block_range: both bounds always applied.
NumberOfSqueaksWithAddressInBlockRange(a, minBlock, maxBlock) ==
    Cardinality({s \in present : /\ author[s] = a
                                 /\ height[s] >= minBlock
                                 /\ height[s] =< maxBlock})

\* number_of_squeaks_with_address_with_block.
NumberOfSqueaksWithAddressWithBlock(a, b) ==
    Cardinality({s \in present : author[s] = a /\ height[s] = b})

-----------------------------------------------------------------------------
(***************************************************************************)
(* The writers.                                                            *)
(***************************************************************************)
\* insert_squeak: a duplicate hash is refused; the parent need not be held.
InsertSqueak(s) ==
    /\ s \notin present
    /\ present' = present \cup {s}
    /\ UNCHANGED <<content, unlocked>>

\* Mutant: the row's secret key left behind.
DeleteSqueakKeepKey(s) ==
    /\ s \in present
    /\ present' = present \ {s}
    /\ UNCHANGED <<content, unlocked>>

\* delete_squeak: by a user, or by the retention sweep.
DeleteSqueak(s) ==
    /\ s \in present
    /\ present' = present \ {s}
    /\ unlocked' = unlocked \ {s}
    /\ UNCHANGED content

\* set_squeak_decryption_key.
SetSqueakDecryptionKey(s) ==
    /\ s \in present \ unlocked
    /\ unlocked' = unlocked \cup {s}
    /\ UNCHANGED <<content, present>>

Init ==
    /\ replyTo \in ReplyFunctions
    /\ author \in [Squeaks -> Addresses]
    /\ height \in [Squeaks -> Heights]
    /\ present = {}
    /\ unlocked = {}

Next ==
    \E s \in Squeaks :
        \/ InsertSqueak(s)
        \/ DeleteSqueak(s)
        \/ SetSqueakDecryptionKey(s)

Spec == Init /\ [][Next]_vars

-----------------------------------------------------------------------------
(***************************************************************************)
(* Properties                                                              *)
(***************************************************************************)

\* Spec 4.2: the ancestor query is the thread root-to-leaf.  For a held
\* squeak it ends with the squeak itself, each entry is the reply target of
\* the next, all are held, and it starts at a squeak whose parent is not
\* held (or that replies to nothing); for a squeak not held it is empty.
AncestorsAreTheThread ==
    \A h \in Squeaks :
        LET r == GetThreadAncestorSqueakEntries(h) IN
        IF h \notin present THEN r = <<>>
        ELSE /\ r # <<>>
             /\ r[Len(r)] = h
             /\ \A i \in 1..Len(r) : r[i] \in present
             /\ \A i \in 1..Len(r) - 1 : replyTo[r[i + 1]] = r[i]
             /\ replyTo[r[1]] \notin present

\* Spec 4.5: a peer's interest (authors, min_block, max_block) is answered
\* with exactly the unlocked squeaks of those authors in that block range,
\* the range the per-address counts also count, and the count of one
\* block agrees with a lookup of that block, locked squeaks included.  Checked for the filters a
\* syncing peer sends: some author and a max_block above 0.
LookupAnswersInterest ==
    \A A \in SUBSET Addresses \ {{}}, lo \in Heights, hi \in Heights \ {0} :
        LET found == LookupSqueaks(A, lo, hi, NONE, FALSE) IN
        /\ found = {s \in present \cap unlocked :
                        author[s] \in A /\ lo =< height[s] /\ height[s] =< hi}
        /\ \A a \in A :
              Cardinality(LookupSqueaks({a}, lo, hi, NONE, TRUE))
                = NumberOfSqueaksWithAddressInBlockRange(a, lo, hi)
        /\ \A a \in A : NumberOfSqueaksWithAddressWithBlock(a, hi)
                          = Cardinality(LookupSqueaks({a}, hi, hi, NONE, TRUE))

=============================================================================
