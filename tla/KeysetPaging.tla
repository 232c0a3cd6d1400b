---------------------------- MODULE KeysetPaging ----------------------------
(***************************************************************************)
(* The paginated squeak listings of SqueakDb (get_timeline_squeak_entries, *)
(* get_squeak_entries_for_address, get_squeak_entries_for_text_search,    *)
(* get_thread_reply_squeak_entries in src/squeaknode/db/squeak_db.py) read *)
(* by a client page after page while                                       *)
(* other threads insert, delete, unlock squeaks and follow or unfollow     *)
(* authors between two pages.                                              *)
(*                                                                         *)
(* Each query returns the `limit` greatest rows, ordered by                *)
(* (n_block_height, n_time, hash) descending, among the rows that match    *)
(* its filter and are strictly below the cursor: the last entry of the     *)
(* previous page, or (MAX_INT, MAX_INT, MAX_HASH) for the first page.      *)
(* Squeak hashes are integers here so that they can be ordered.            *)
(***************************************************************************)
EXTENDS Naturals, Sequences, SequencesExt, TLC

CONSTANTS
    Squeaks,      \* squeak hashes, a finite set of naturals
    Heights,      \* block heights squeaks may carry
    Times,        \* squeak times (nTime) squeaks may carry
    Addresses,    \* author addresses
    Author,       \* Author[s]: the author of squeak s (part of its content)
    ReplyTo,      \* ReplyTo[s]: the squeak s replies to, or NoReply
    NoReply,      \* a NULL hash_reply_sqk
    SearchHits,   \* squeaks whose plaintext contains the searched text
    Limit,        \* the page size a client asks for
    MAX_INT,      \* squeak_db.MAX_INT
    MAX_HASH      \* squeak_db.MAX_HASH, read as a number

ASSUME Squeaks \subseteq Nat /\ Heights \subseteq Nat /\ Times \subseteq Nat
ASSUME Author \in [Squeaks -> Addresses] /\ SearchHits \subseteq Squeaks
ASSUME ReplyTo \in [Squeaks -> Squeaks \cup {NoReply}]
ASSUME Limit \in Nat \ {0}
ASSUME \A x \in Heights \cup Times : x < MAX_INT
ASSUME \A s \in Squeaks : s < MAX_HASH

Kinds == {"timeline", "address", "search", "replies"}

\* The argument each listing takes: an address, the squeak whose replies
\* are listed, or none.
Args(k) == CASE k = "address" -> Addresses
             [] k = "replies" -> Squeaks
             [] OTHER         -> {NoReply}

VARIABLES
    key,          \* key[s] = <<n_block_height, n_time>>, fixed by the content
    present,      \* hashes of the rows of the squeak table
    following,    \* addresses whose profile has following = TRUE
    unlocked,     \* squeaks whose content column is set (secret key known)
    kind,         \* which listing the client pages through
    arg,          \* the address or squeak hash the listing asks for
    cursor,       \* the last_entry the client passes, as a key
    collected,    \* the entries returned so far, in order
    done,         \* the client got a short page and stopped
    disturbed     \* squeaks a writer touched since paging began

storeVars == <<present, following, unlocked>>
clientVars == <<kind, arg, cursor, collected, done, disturbed>>
vars == <<key, storeVars, clientVars>>

SortKey(s) == <<key[s][1], key[s][2], s>>

\* The sentinel used when last_entry is None.
FirstCursor == <<MAX_INT, MAX_INT, MAX_HASH>>

TypeOK ==
    /\ key \in [Squeaks -> Heights \X Times]
    /\ present \subseteq Squeaks
    /\ following \subseteq Addresses
    /\ unlocked \subseteq present
    /\ kind \in Kinds
    /\ arg \in Args(kind)
    /\ cursor \in (Heights \X Times \X Squeaks) \cup {FirstCursor}
    /\ collected \in Seq(Squeaks)
    /\ done \in BOOLEAN
    /\ disturbed \subseteq Squeaks

(***************************************************************************)
(* SQL row-value comparison tuple_(a, b, c) < tuple_(x, y, z).             *)
(***************************************************************************)
\* Mutant: <= instead of <.
KeysetBeforeOrAt(k, c) ==
    \/ k[1] < c[1]
    \/ k[1] = c[1] /\ k[2] < c[2]
    \/ k[1] = c[1] /\ k[2] = c[2] /\ k[3] =< c[3]

\* Mutant: the hash column left out of the row value.
KeysetBeforeWithoutHash(k, c) ==
    \/ k[1] < c[1]
    \/ k[1] = c[1] /\ k[2] < c[2]

KeysetBefore(k, c) ==
    \/ k[1] < c[1]
    \/ k[1] = c[1] /\ k[2] < c[2]
    \/ k[1] = c[1] /\ k[2] = c[2] /\ k[3] < c[3]

\* The descending order of ORDER BY n_block_height, n_time, hash DESC.
After(s, t) == KeysetBefore(SortKey(t), SortKey(s))

(***************************************************************************)
(* The WHERE clause of each listing besides the cursor.                    *)
(***************************************************************************)
\* Timeline: outer join profile on the author address, where following.
TimelineFilter(s) == Author[s] \in following

\* Address listing: where author_address = address.
AddressFilter(s, a) == Author[s] = a

\* Replies: where hash_reply_sqk = squeak_hash.
ReplyFilter(s, h) == ReplyTo[s] = h

\* Text search: content ILIKE '%text%'; content is NULL until unlocked.
TextSearchFilter(s) == s \in unlocked /\ s \in SearchHits

Matches(s, k, a) ==
    /\ s \in present
    /\ CASE k = "timeline" -> TimelineFilter(s)
         [] k = "address"  -> AddressFilter(s, a)
         [] k = "search"   -> TextSearchFilter(s)
         [] k = "replies"  -> ReplyFilter(s, a)

\* One query: the Limit greatest matching rows strictly below the cursor,
\* in descending order.
Page(k, a, c) ==
    LET below == {s \in Squeaks : Matches(s, k, a) /\ KeysetBefore(SortKey(s), c)}
        sorted == SetToSortSeq(below, After)
    IN  SubSeq(sorted, 1, IF Len(sorted) < Limit THEN Len(sorted) ELSE Limit)

-----------------------------------------------------------------------------
(***************************************************************************)
(* The client.                                                             *)
(***************************************************************************)
StartPaging(k, a) ==
    /\ done
    /\ a \in Args(k)
    /\ kind' = k
    /\ arg' = a
    /\ cursor' = FirstCursor
    /\ collected' = <<>>
    /\ done' = FALSE
    /\ disturbed' = {}
    /\ UNCHANGED <<key, storeVars>>

\* One request: the page is appended; the client asks again with the last
\* entry as cursor while pages come back full.
FetchPage ==
    /\ ~done
    /\ LET page == Page(kind, arg, cursor) IN
       /\ collected' = collected \o page
       /\ done' = (Len(page) < Limit)
       /\ cursor' = IF page = <<>> THEN cursor ELSE SortKey(page[Len(page)])
    /\ UNCHANGED <<key, storeVars, kind, arg, disturbed>>

(***************************************************************************)
(* Writers running between two pages.                                      *)
(***************************************************************************)
Disturb(S) == disturbed' = disturbed \cup S

\* insert_squeak of a downloaded or newly made squeak.
InsertSqueak(s) ==
    /\ s \notin present
    /\ present' = present \cup {s}
    /\ Disturb({s})
    /\ UNCHANGED <<key, following, unlocked, kind, arg, cursor, collected, done>>

\* Mutant: the content stays behind when the row is deleted.
DeleteSqueakKeepContent(s) ==
    /\ s \in present
    /\ present' = present \ {s}
    /\ Disturb({s})
    /\ UNCHANGED <<key, following, unlocked, kind, arg, cursor, collected, done>>

\* delete_squeak (by a user or the retention sweep).
DeleteSqueak(s) ==
    /\ s \in present
    /\ present' = present \ {s}
    /\ unlocked' = unlocked \ {s}
    /\ Disturb({s})
    /\ UNCHANGED <<key, following, kind, arg, cursor, collected, done>>

\* set_squeak_decryption_key: secret_key and content set together.
SetSqueakDecryptionKey(s) ==
    /\ s \in present \ unlocked
    /\ unlocked' = unlocked \cup {s}
    /\ Disturb({s})
    /\ UNCHANGED <<key, present, following, kind, arg, cursor, collected, done>>

\* set_profile_following.
SetProfileFollowing(a, f) ==
    /\ following' = IF f THEN following \cup {a} ELSE following \ {a}
    /\ following' # following
    /\ Disturb({s \in Squeaks : Author[s] = a})
    /\ UNCHANGED <<key, present, unlocked, kind, arg, cursor, collected, done>>

-----------------------------------------------------------------------------
Init ==
    /\ key \in [Squeaks -> Heights \X Times]
    /\ present \in SUBSET Squeaks
    /\ following \in SUBSET Addresses
    /\ unlocked \in SUBSET present
    /\ kind \in Kinds
    /\ arg \in Args(kind)
    /\ cursor = FirstCursor
    /\ collected = <<>>
    /\ done = FALSE
    /\ disturbed = {}

Next ==
    \/ \E k \in Kinds, a \in Addresses \cup Squeaks \cup {NoReply} : StartPaging(k, a)
    \/ FetchPage
    \/ \E s \in Squeaks : InsertSqueak(s) \/ DeleteSqueak(s) \/ SetSqueakDecryptionKey(s)
    \/ \E a \in Addresses, f \in BOOLEAN : SetProfileFollowing(a, f)

Spec == Init /\ [][Next]_vars

-----------------------------------------------------------------------------
(***************************************************************************)
(* Properties                                                              *)
(***************************************************************************)

\* Spec 8: concatenated pages are in strictly decreasing (block_height,
\* squeak_time, hash) order, so no squeak is returned twice, whatever
\* writers do between two pages.
LexGreater(x, y) ==
    \/ x[1] > y[1]
    \/ x[1] = y[1] /\ x[2] > y[2]
    \/ x[1] = y[1] /\ x[2] = y[2] /\ x[3] > y[3]
PagesInKeysetOrder ==
    \A i \in 1..Len(collected) - 1 :
        LexGreater(SortKey(collected[i]), SortKey(collected[i + 1]))

\* When the client stops, it has seen every squeak that matched the listing
\* and was left alone by writers during the whole paging.
PagingIsComplete ==
    done => \A s \in Squeaks \ disturbed :
                Matches(s, kind, arg) => s \in ToSet(collected)

=============================================================================
