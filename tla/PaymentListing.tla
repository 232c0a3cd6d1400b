--------------------------- MODULE PaymentListing ---------------------------
(***************************************************************************)
(* An admin client paging through a payment table with                    *)
(* handle_get_sent_payments or handle_get_received_payments               *)
(* (src/squeaknode/admin/squeak_admin_server_handler.py).  Both handlers  *)
(* pass the request's limit and last entry to the store's query and return *)
(* the page; the client asks again with the last entry of the page until  *)
(* a page comes back short.                                                *)
(*                                                                         *)
(* A payment is its key <<created_time_ms, payment_hash>>.  The entry the *)
(* client sends back is turned into the query's cursor by                 *)
(* message_to_sent_payment / message_to_received_payment, which take       *)
(* created_time_ms from time_ms and the hash from its hex: the key the    *)
(* reply carried.  get_sent_payments and get_received_payments are the    *)
(* same keyset query; the composing module gives the table's keys as      *)
(* `rows` and the query's row-value comparison as Before.  Payment rows   *)
(* are never updated or deleted.                                           *)
(***************************************************************************)
LOCAL INSTANCE Naturals
LOCAL INSTANCE Sequences
LOCAL INSTANCE SequencesExt

CONSTANTS
    Keys,          \* every <<created_time_ms, payment_hash>> a row can have
    Limit,         \* the request's limit
    MAX_HASH,      \* the query's default last payment hash
    Before(_, _)   \* the query's tuple_(...) < tuple_(...) comparison

VARIABLES
    now,           \* timestamp_now_ms
    rows,          \* the keys of the table's rows
    collected,     \* the entries the client got so far
    done,          \* the last page was short: the next request starts over
    firstNow       \* the clock when the client asked for the first page

TypeOK ==
    /\ collected \in Seq(Keys)
    /\ done \in BOOLEAN
    /\ firstNow \in Nat

\* get_sent_payments / get_received_payments(limit, last): the rows below
\* the cursor, newest first by (created_time_ms, payment_hash), at most
\* limit of them.
Page(c) ==
    LET sorted == SetToSortSeq({k \in rows : Before(k, c)},
                               LAMBDA x, y : Before(y, x))
    IN  SubSeq(sorted, 1, Min({Limit, Len(sorted)}))

\* With no last entry the query starts below <<timestamp_now_ms, MAX_HASH>>.
Cursor == IF done THEN <<now, MAX_HASH>> ELSE Last(collected)

\* One handler call: the page below the cursor; a short page ends the
\* listing.
FetchPage ==
    LET page == Page(Cursor) IN
    /\ collected' = IF done THEN page ELSE collected \o page
    /\ done' = (Len(page) < Limit)
    /\ firstNow' = IF done THEN now ELSE firstNow

Init ==
    /\ collected = <<>>
    /\ done = TRUE
    /\ firstNow = 0

-----------------------------------------------------------------------------
\* Newest first, by an order written apart from the queries' own.
KeyGreater(x, y) == x[1] > y[1] \/ (x[1] = y[1] /\ x[2] > y[2])

\* The entries of a listing are strictly newest first: no payment is
\* listed twice, however the pages fall between payments of the same
\* millisecond.
PagesInOrder ==
    \A i \in 1..Len(collected) - 1 : KeyGreater(collected[i], collected[i + 1])

\* When the client reaches a short page it has seen every payment made
\* before the millisecond of its first request, whatever was inserted
\* between its pages.
PagingIsComplete ==
    done => \A k \in rows :
                k[1] < firstNow => \E i \in 1..Len(collected) : collected[i] = k

=============================================================================
