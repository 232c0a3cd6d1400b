---------------------------- MODULE SqueakStore ----------------------------
(***************************************************************************)
(* The squeak and profile tables of SqueakDb (src/squeaknode/db/           *)
(* squeak_db.py, schema in src/squeaknode/db/models.py) and the periodic   *)
(* retention sweep that reads old squeaks in one query and deletes them    *)
(* one by one in later statements.                                         *)
(*                                                                         *)
(* A squeak row is abstracted to what the retention and unlock logic can   *)
(* tell apart: its author, its created time, whether its secret key is set *)
(* and its liked time.  A profile row is abstracted to whether it holds a  *)
(* private key, the only profile column these queries read.  Time is a    *)
(* bounded counter: one unit stands for squeak_retention_s / Retention    *)
(* seconds.                                                                *)
(*                                                                         *)
(* A client pages through get_liked_squeak_entries while the users and    *)
(* the sweep change the table; hashes are naturals so that they can be    *)
(* ordered.                                                                *)
(***************************************************************************)
EXTENDS Naturals, FiniteSets, Sequences, SequencesExt

CONSTANTS
    Hashes,       \* squeak hashes, a finite set of naturals
    Addresses,    \* squeak author addresses (model values)
    Author,       \* Author[h]: the address that signed squeak h (fixed by its content)
    Retention,    \* squeak_retention_s, in time units
    MaxTime,      \* bound on the wall clock, in time units
    Limit,        \* the page size the client asks for
    MAX_HASH,     \* squeak_db.MAX_HASH, read as a number
    NONE          \* SQL NULL

ASSUME Author \in [Hashes -> Addresses]
ASSUME Retention \in Nat /\ MaxTime \in Nat /\ NONE \notin Nat
ASSUME Hashes \subseteq Nat /\ \A h \in Hashes : h < MAX_HASH
ASSUME Limit \in Nat \ {0}

VARIABLES
    squeaks,      \* the squeak table: hash -> row
    profiles,     \* the profile table: address -> row (address is unique)
    now,          \* time.time() as seen by timestamp_now_ms
    pending,      \* hashes returned by the sweep's query and not yet deleted
    collected,    \* the liked entries the client got so far: <<liked_time, hash>>
    done,         \* the client's last page was short (or it has not begun)
    firstNow,     \* the clock when the client asked for the first page
    disturbed     \* squeaks a writer touched since the first page

clientVars == <<collected, done, firstNow, disturbed>>
vars == <<squeaks, profiles, now, pending, clientVars>>

Time == 0..MaxTime

SqueakRow == [author: Addresses, created: Time, secret_key: BOOLEAN,
              liked_time: Time \cup {NONE}]
ProfileRow == [has_private_key: BOOLEAN]

TypeOK ==
    /\ DOMAIN squeaks \subseteq Hashes
    /\ \A h \in DOMAIN squeaks : squeaks[h] \in SqueakRow
    /\ DOMAIN profiles \subseteq Addresses
    /\ \A a \in DOMAIN profiles : profiles[a] \in ProfileRow
    /\ now \in Time
    /\ pending \subseteq Hashes
    /\ collected \in Seq(Time \X Hashes)
    /\ done \in BOOLEAN
    /\ firstNow \in Time
    /\ disturbed \subseteq Hashes

\* f extended (or overwritten) at x with v, and f with x removed.
Put(f, x, v) == [y \in DOMAIN f \cup {x} |-> IF y = x THEN v ELSE f[y]]
Drop(f, x) == [y \in DOMAIN f \ {x} |-> f[y]]

Stored == DOMAIN squeaks

(***************************************************************************)
(* Predicates of the retention query.                                      *)
(***************************************************************************)
SqueakIsOlderThanRetention(h) == now > squeaks[h].created + Retention

SqueakIsNotLiked(h) == squeaks[h].liked_time = NONE

\* The query outer-joins profile on address: a squeak whose author has no
\* profile row reads private_key as NULL.
ProfileHasNoPrivateKey(h) ==
    \/ Author[h] \notin DOMAIN profiles
    \/ ~profiles[Author[h]].has_private_key

\* Mutant: an inner join, which drops squeaks of authors without a profile.
OldSqueaksToDeleteInnerJoin ==
    { h \in Stored : /\ SqueakIsOlderThanRetention(h)
                     /\ Author[h] \in DOMAIN profiles
                     /\ ProfileHasNoPrivateKey(h)
                     /\ SqueakIsNotLiked(h) }

OldSqueaksToDelete ==
    { h \in Stored : /\ SqueakIsOlderThanRetention(h)
                     /\ ProfileHasNoPrivateKey(h)
                     /\ SqueakIsNotLiked(h) }

\* A writer touched h while the client pages.
Disturb(h) ==
    /\ disturbed' = IF done THEN disturbed ELSE disturbed \cup {h}
    /\ UNCHANGED <<collected, done, firstNow>>

-----------------------------------------------------------------------------
(***************************************************************************)
(* Store operations, each one SQL statement on its own connection.         *)
(***************************************************************************)

\* Mutant: INSERT OR REPLACE, which resets an existing row.
InsertSqueakUpsert(h) ==
    /\ squeaks' = Put(squeaks, h, [author |-> Author[h], created |-> now,
                                   secret_key |-> FALSE, liked_time |-> NONE])
    /\ UNCHANGED <<profiles, now, pending>>
    /\ Disturb(h)

\* insert_squeak: a new row with no secret key; a duplicate hash raises
\* IntegrityError, which is caught and returns None with no change.
InsertSqueak(h) ==
    /\ h \notin Stored
    /\ squeaks' = Put(squeaks, h, [author |-> Author[h], created |-> now,
                                   secret_key |-> FALSE, liked_time |-> NONE])
    /\ UNCHANGED <<profiles, now, pending>>
    /\ Disturb(h)

\* set_squeak_decryption_key: an UPDATE, a no-op when the row is gone.
SetSqueakDecryptionKey(h) ==
    /\ h \in Stored
    /\ squeaks' = [squeaks EXCEPT ![h].secret_key = TRUE]
    /\ UNCHANGED <<profiles, now, pending, clientVars>>

\* Mutant: the liked time written in another unit than the other times.
SetSqueakLikedUnits(h) ==
    /\ h \in Stored
    /\ squeaks' = [squeaks EXCEPT ![h].liked_time = now * 1000]
    /\ UNCHANGED <<profiles, now, pending>>
    /\ Disturb(h)

\* set_squeak_liked: liked_time_ms := now.
SetSqueakLiked(h) ==
    /\ h \in Stored
    /\ squeaks' = [squeaks EXCEPT ![h].liked_time = now]
    /\ UNCHANGED <<profiles, now, pending>>
    /\ Disturb(h)

\* set_squeak_unliked: liked_time_ms := NULL.
SetSqueakUnliked(h) ==
    /\ h \in Stored
    /\ squeaks' = [squeaks EXCEPT ![h].liked_time = NONE]
    /\ UNCHANGED <<profiles, now, pending>>
    /\ Disturb(h)

\* delete_squeak from the admin API.
DeleteSqueak(h) ==
    /\ h \in Stored
    /\ squeaks' = Drop(squeaks, h)
    /\ UNCHANGED <<profiles, now, pending>>
    /\ Disturb(h)

\* insert_profile: the address column is unique, a duplicate raises.
InsertProfile(a, privateKey) ==
    /\ a \notin DOMAIN profiles
    /\ profiles' = Put(profiles, a, [has_private_key |-> privateKey])
    /\ UNCHANGED <<squeaks, now, pending, clientVars>>

\* handle_create_signing_profile and handle_import_signing_profile: the
\* controller inserts a profile holding the new or the imported private
\* key, at that key's address.
CreateSigningProfile(a) == InsertProfile(a, TRUE)

\* handle_create_contact_profile: a profile of a given address, no key.
CreateContactProfile(a) == InsertProfile(a, FALSE)

\* delete_profile.
DeleteProfile(a) ==
    /\ a \in DOMAIN profiles
    /\ profiles' = Drop(profiles, a)
    /\ UNCHANGED <<squeaks, now, pending, clientVars>>

\* handle_delete_squeak_profile: by profile_id, which names one address.
DeleteSqueakProfile(a) == DeleteProfile(a)

Tick ==
    /\ now < MaxTime
    /\ now' = now + 1
    /\ UNCHANGED <<squeaks, profiles, pending, clientVars>>

(***************************************************************************)
(* The retention sweep: get_old_squeaks_to_delete returns a list of        *)
(* hashes; the caller then deletes each hash with its own statement.       *)
(***************************************************************************)
GetOldSqueaksToDelete ==
    /\ pending = {}
    /\ OldSqueaksToDelete # {}
    /\ pending' = OldSqueaksToDelete
    /\ UNCHANGED <<squeaks, profiles, now, clientVars>>

DeleteOldSqueak(h) ==
    /\ h \in pending
    /\ squeaks' = Drop(squeaks, h)
    /\ pending' = pending \ {h}
    /\ UNCHANGED <<profiles, now>>
    /\ Disturb(h)

(***************************************************************************)
(* get_liked_squeak_entries: the Limit rows with a liked time, ordered by *)
(* (liked_time_ms, hash) descending, strictly below the cursor: the last  *)
(* entry of the previous page, or (timestamp_now_ms, MAX_HASH) when there *)
(* is none.                                                                *)
(***************************************************************************)
\* Mutant: <= instead of < on the hash.
RowBeforeOrAt(k, c) == k[1] < c[1] \/ (k[1] = c[1] /\ k[2] =< c[2])

\* tuple_(liked_time_ms, hash) < tuple_(x, y).
RowBefore(k, c) == k[1] < c[1] \/ (k[1] = c[1] /\ k[2] < c[2])

LikedKey(h) == <<squeaks[h].liked_time, h>>

GetLikedSqueakEntries(c) ==
    LET rows == {LikedKey(h) : h \in {x \in Stored : ~SqueakIsNotLiked(x)}}
        below == {k \in rows : RowBefore(k, c)}
        sorted == SetToSortSeq(below, LAMBDA x, y : RowBefore(y, x))
    IN  SubSeq(sorted, 1, IF Len(sorted) < Limit THEN Len(sorted) ELSE Limit)

\* Mutant: the client stops after a page that is not longer than Limit.
FetchLikedPageStopEarly ==
    LET cursor == IF done THEN <<now, MAX_HASH>> ELSE Last(collected)
        page == GetLikedSqueakEntries(cursor)
    IN  /\ collected' = IF done THEN page ELSE collected \o page
        /\ done' = (Len(page) =< Limit)
        /\ firstNow' = IF done THEN now ELSE firstNow
        /\ disturbed' = IF done THEN {} ELSE disturbed
        /\ UNCHANGED <<squeaks, profiles, now, pending>>

\* One request of the client.  After a short page it starts over with no
\* last entry; otherwise it passes the last entry it got.
FetchLikedPage ==
    LET cursor == IF done THEN <<now, MAX_HASH>> ELSE Last(collected)
        page == GetLikedSqueakEntries(cursor)
    IN  /\ collected' = IF done THEN page ELSE collected \o page
        /\ done' = (Len(page) < Limit)
        /\ firstNow' = IF done THEN now ELSE firstNow
        /\ disturbed' = IF done THEN {} ELSE disturbed
        /\ UNCHANGED <<squeaks, profiles, now, pending>>

-----------------------------------------------------------------------------
Init ==
    /\ squeaks = [h \in {} |-> NONE]
    /\ profiles = [a \in {} |-> NONE]
    /\ now = 0
    /\ pending = {}
    /\ collected = <<>>
    /\ done = TRUE
    /\ firstNow = 0
    /\ disturbed = {}

UserStep ==
    \/ \E h \in Hashes :
          \/ InsertSqueak(h)
          \/ SetSqueakDecryptionKey(h)
          \/ SetSqueakLiked(h)
          \/ SetSqueakUnliked(h)
          \/ DeleteSqueak(h)
    \/ \E a \in Addresses :
          \/ CreateSigningProfile(a)
          \/ CreateContactProfile(a)
          \/ DeleteSqueakProfile(a)

SweepStep == GetOldSqueaksToDelete \/ \E h \in pending : DeleteOldSqueak(h)

Next == UserStep \/ FetchLikedPage \/ SweepStep \/ Tick

\* The deletion worker is a PeriodicWorker: it runs again and again.
Spec == Init /\ [][Next]_vars /\ WF_vars(SweepStep)

-----------------------------------------------------------------------------
(***************************************************************************)
(* Properties                                                              *)
(***************************************************************************)

\* A squeak once unlocked stays unlocked while its row exists: downloading
\* it again (insert_squeak of a stored hash) must not reset its secret key.
UnlockIsPermanent ==
    [][\A h \in Stored \cap DOMAIN squeaks' :
          squeaks[h].secret_key => squeaks'[h].secret_key]_squeaks

\* Every squeak that meets the retention criteria of spec 4.2 (created
\* more than the retention ago, not liked, author not a local signing
\* profile) is eventually deleted by the periodic sweep, unless a user
\* step makes it stop meeting them first.
RetentionEligible(h) ==
    /\ h \in Stored
    /\ now > squeaks[h].created + Retention
    /\ squeaks[h].liked_time = NONE
    /\ ~(Author[h] \in DOMAIN profiles /\ profiles[Author[h]].has_private_key)
RetentionSweepDeletesOldSqueaks ==
    \A h \in Hashes : RetentionEligible(h) ~> ~RetentionEligible(h)

\* The sweep never deletes a squeak that, at the moment of deletion, is
\* liked or authored by a profile holding a private key (spec 4.2: the
\* sweep "never deletes squeaks for which the node holds the private key").
Kept(h) == h \in Stored /\ (~SqueakIsNotLiked(h) \/ ~ProfileHasNoPrivateKey(h))
SweepSparesKeptSqueaks ==
    [][\A h \in pending \ pending' : Kept(h) => h \in DOMAIN squeaks']_vars

\* Spec 8, for the liked listing: the pages a client gets are in strictly
\* decreasing (liked_time_ms, hash) order, so no squeak is listed twice,
\* although likes, unlikes and deletes come between two pages.
LikedKeyGreater(x, y) == x[1] > y[1] \/ (x[1] = y[1] /\ x[2] > y[2])
LikedPagesInOrder ==
    \A i \in 1..Len(collected) - 1 : LikedKeyGreater(collected[i], collected[i + 1])

\* When the client stops, it has got every squeak that was liked before
\* its first request (liked_time_ms below the clock of that request) and
\* that no writer touched since.
LikedPagingIsComplete ==
    done => \A h \in Stored \ disturbed :
                (~SqueakIsNotLiked(h) /\ squeaks[h].liked_time < firstNow)
                    => \E i \in 1..Len(collected) : collected[i][2] = h

=============================================================================
