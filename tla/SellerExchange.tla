-------------------------- MODULE SellerExchange --------------------------
(***************************************************************************)
(* The sell path of one node: the sent_offer and received_payment tables  *)
(* of SqueakDb (src/squeaknode/db/squeak_db.py), the sweep of expired sent *)
(* offers, the hold invoices of the Lightning node, and the received-     *)
(* payment processor that settles accepted invoices and records settled   *)
(* ones, resuming after a restart from get_latest_settle_index.           *)
(*                                                                         *)
(* The controller and the processor are not in this source tree; their     *)
(* steps follow spec 4.4 and 4.7 (sell path) and are marked as such.      *)
(* Time is in seconds, as invoice_timestamp and invoice_expiry are.       *)
(***************************************************************************)
EXTENDS Naturals, Sequences, SequencesExt, FiniteSets

CONSTANTS
    Squeaks,        \* unlocked squeaks the node sells (model values)
    Peers,          \* peer addresses, records [host, port]
    PaymentHashes,  \* payment hashes of fresh (k, n) pairs (ordered)
    MAX_HASH,       \* above every payment hash
    Limit,          \* the limit of a received-payments listing request
    Expiry,         \* invoice_expiry
    Grace,          \* the interval_s of delete_expired_sent_offers
    MaxTime,        \* bound on the clock
    NONE

ASSUME Expiry \in Nat /\ Grace \in Nat /\ MaxTime \in Nat /\ Limit > 0
ASSUME \A ph \in PaymentHashes : ph \in Nat /\ ph < MAX_HASH

VARIABLES
    now,            \* time.time(), in seconds
    sentOffers,     \* the sent_offer table: payment_hash -> row
    received,       \* the received_payment table in id order: <<[ph, settle_index, ts]>>
    invoices,       \* the Lightning node's invoices: payment_hash -> [state, index, ts]
    settleCount,    \* the Lightning node's last settle index
    nodeUp,         \* the squeaknode process is running
    procPos,        \* settle index the invoice subscription has delivered up to
    procPending,    \* a settled invoice recorded, not yet marked paid, or NONE
    served,         \* <<peer, payment hash>> of every offer sent to a peer
    collected,      \* a received-payments listing: the entries so far,
    done,           \* whether its last page was short,
    firstNow        \* and the clock at its first page

listVars == <<collected, done, firstNow>>
vars == <<now, sentOffers, received, invoices, settleCount, nodeUp,
          procPos, procPending, served, listVars>>

Time == 0..MaxTime
InvoiceStates == {"open", "accepted", "settled", "canceled"}
Indices == 0..Cardinality(PaymentHashes)

SentOfferRow == [squeak: Squeaks, peer: Peers, ts: Time, paid: BOOLEAN]
ReceivedPaymentRow == [ph: PaymentHashes, settle_index: Indices, ts: Time]

ReceivedPaymentKeys == {<<received[i].ts, received[i].ph>> : i \in DOMAIN received}

\* Mutant: the row value compared with <=.
ReceivedPaymentBeforeOrAt(k, c) == k[1] < c[1] \/ (k[1] = c[1] /\ k[2] =< c[2])

\* Mutant: the row value compared on created_time_ms alone.
ReceivedPaymentBeforeNoTie(k, c) == k[1] < c[1]

\* get_received_payments' where clause: tuple_(created_time_ms,
\* payment_hash) < tuple_(last_created_time, last_payment_hash).
ReceivedPaymentBefore(k, c) == k[1] < c[1] \/ (k[1] = c[1] /\ k[2] < c[2])

RP == INSTANCE PaymentListing WITH
    Keys <- Time \X PaymentHashes, rows <- ReceivedPaymentKeys,
    Before <- ReceivedPaymentBefore

TypeOK ==
    /\ now \in Time
    /\ DOMAIN sentOffers \subseteq PaymentHashes
    /\ \A ph \in DOMAIN sentOffers : sentOffers[ph] \in SentOfferRow
    /\ received \in Seq(ReceivedPaymentRow)
    /\ DOMAIN invoices \subseteq PaymentHashes
    /\ \A ph \in DOMAIN invoices : invoices[ph] \in [state: InvoiceStates, index: Indices, ts: Time]
    /\ settleCount \in Indices
    /\ nodeUp \in BOOLEAN
    /\ procPos \in Indices
    /\ procPending \in PaymentHashes \cup {NONE}
    /\ served \subseteq Peers \X PaymentHashes
    /\ RP!TypeOK

Put(f, x, v) == [y \in DOMAIN f \cup {x} |-> IF y = x THEN v ELSE f[y]]
Recorded == {received[i].ph : i \in DOMAIN received}

(***************************************************************************)
(* Predicates and queries of SqueakDb.                                     *)
(***************************************************************************)
SentOfferIsNotPaid(ph) == ~sentOffers[ph].paid

SentOfferIsNotExpired(ph) == now < sentOffers[ph].ts + Expiry

SentOfferShouldBeDeleted(ph) == now >= sentOffers[ph].ts + Expiry + Grace

\* get_sent_offer_by_squeak_hash_and_peer: matches on the peer's host only.
SentOffersForSqueakAndPeer(s, p) ==
    { ph \in DOMAIN sentOffers : /\ sentOffers[ph].squeak = s
                                 /\ sentOffers[ph].peer.host = p.host
                                 /\ SentOfferIsNotPaid(ph)
                                 /\ SentOfferIsNotExpired(ph) }

\* Mutant: the subscription resumes one past the latest recorded index.
LatestSettleIndexPlusOne ==
    IF received = <<>> THEN 0
    ELSE Max({received[i].settle_index : i \in DOMAIN received}) + 1

\* get_latest_settle_index: MAX(settle_index), None on an empty table, which
\* the processor reads as 0.
LatestSettleIndex ==
    IF received = <<>> THEN 0
    ELSE Max({received[i].settle_index : i \in DOMAIN received})

\* Mutant: the IntegrityError of a duplicate payment_hash is not raised.
InsertReceivedPaymentNoUnique(ph, idx) ==
    received' = Append(received, [ph |-> ph, settle_index |-> idx, ts |-> now])

\* insert_received_payment: a duplicate payment_hash raises IntegrityError,
\* caught, and returns None with no change.  created_time_ms is now.
InsertReceivedPayment(ph, idx) ==
    received' = IF ph \in Recorded THEN received
                ELSE Append(received, [ph |-> ph, settle_index |-> idx, ts |-> now])

\* Mutant: the UPDATE without its WHERE clause.
SetSentOfferPaidAll(ph) ==
    sentOffers' = [o \in DOMAIN sentOffers |-> [sentOffers[o] EXCEPT !.paid = TRUE]]

\* set_sent_offer_paid: an UPDATE, a no-op when the row is gone.
SetSentOfferPaid(ph) ==
    sentOffers' = IF ph \in DOMAIN sentOffers
                  THEN [sentOffers EXCEPT ![ph].paid = TRUE]
                  ELSE sentOffers

-----------------------------------------------------------------------------
(***************************************************************************)
(* A peer asks for an offer (spec 4.7 sell path, step 1).  An unpaid,     *)
(* unexpired offer found for the squeak and the peer is sent again;       *)
(* otherwise a hold invoice is added for a fresh payment hash and         *)
(* insert_sent_offer stores the offer.                                     *)
(***************************************************************************)
GetOffer(s, p) ==
    /\ nodeUp
    /\ IF SentOffersForSqueakAndPeer(s, p) # {}
         THEN \E ph \in SentOffersForSqueakAndPeer(s, p) :
                /\ served' = served \cup {<<p, ph>>}
                /\ UNCHANGED <<listVars, sentOffers, invoices>>
         ELSE \E ph \in PaymentHashes \ DOMAIN invoices :
                /\ invoices' = Put(invoices, ph, [state |-> "open", index |-> 0,
                                                  ts |-> now])
                /\ sentOffers' = Put(sentOffers, ph, [squeak |-> s, peer |-> p,
                                                      ts |-> now, paid |-> FALSE])
                /\ served' = served \cup {<<p, ph>>}
    /\ UNCHANGED <<listVars, now, received, settleCount, nodeUp, procPos, procPending>>

(***************************************************************************)
(* The Lightning node (spec 4.4): a buyer's payment is held (ACCEPTED)    *)
(* while the invoice is unexpired; an invoice still open at its expiry is *)
(* cancelled.  It runs whether or not the squeaknode is up.                *)
(***************************************************************************)
InvoiceExpired(ph) == now >= invoices[ph].ts + Expiry

BuyerPays(ph) ==
    /\ invoices[ph].state = "open"
    /\ ~InvoiceExpired(ph)
    /\ invoices' = [invoices EXCEPT ![ph].state = "accepted"]
    /\ UNCHANGED <<listVars, now, sentOffers, received, settleCount, nodeUp, procPos,
                   procPending, served>>

CancelExpiredInvoice(ph) ==
    /\ invoices[ph].state = "open"
    /\ InvoiceExpired(ph)
    /\ invoices' = [invoices EXCEPT ![ph].state = "canceled"]
    /\ UNCHANGED <<listVars, now, sentOffers, received, settleCount, nodeUp, procPos,
                   procPending, served>>

(***************************************************************************)
(* The received-payment processor (spec 4.7 sell path, step 2).           *)
(***************************************************************************)
\* On ACCEPTED: get_sent_offer_by_payment_hash, then settle_hold_invoice
\* with the offer's preimage; the Lightning node gives it the next settle
\* index.  Without the row there is no preimage and the HTLC stays held.
SettleAccepted(ph) ==
    /\ nodeUp
    /\ invoices[ph].state = "accepted"
    /\ ph \in DOMAIN sentOffers
    /\ settleCount' = settleCount + 1
    /\ invoices' = [invoices EXCEPT ![ph].state = "settled",
                                    ![ph].index = settleCount']
    /\ UNCHANGED <<listVars, now, sentOffers, received, nodeUp, procPos, procPending, served>>

\* On the next SETTLED event of subscribe_invoices(start_settle_index):
\* get_sent_offer_by_payment_hash; with the row, insert_received_payment;
\* without it, the event is skipped.
HandleSettled ==
    /\ nodeUp
    /\ procPending = NONE
    /\ \E ph \in DOMAIN invoices :
         /\ invoices[ph].state = "settled"
         /\ invoices[ph].index = procPos + 1
         /\ IF ph \in DOMAIN sentOffers
              THEN /\ InsertReceivedPayment(ph, invoices[ph].index)
                   /\ procPending' = ph
                   /\ UNCHANGED procPos
              ELSE /\ procPos' = procPos + 1
                   /\ UNCHANGED <<listVars, received, procPending>>
    /\ UNCHANGED <<listVars, now, sentOffers, invoices, settleCount, nodeUp, served>>

\* Then set_sent_offer_paid, and on to the next event.
MarkSentOfferPaid ==
    /\ nodeUp
    /\ procPending # NONE
    /\ SetSentOfferPaid(procPending)
    /\ procPos' = procPos + 1
    /\ procPending' = NONE
    /\ UNCHANGED <<listVars, now, received, invoices, settleCount, nodeUp, served>>

(***************************************************************************)
(* The offer expiry worker, and the process crashing and restarting.      *)
(***************************************************************************)
\* delete_expired_sent_offers(interval_s): one DELETE statement.
DeleteExpiredSentOffers ==
    /\ nodeUp
    /\ \E ph \in DOMAIN sentOffers : SentOfferShouldBeDeleted(ph)
    /\ sentOffers' = [ph \in {o \in DOMAIN sentOffers : ~SentOfferShouldBeDeleted(o)}
                        |-> sentOffers[ph]]
    /\ UNCHANGED <<listVars, now, received, invoices, settleCount, nodeUp, procPos,
                   procPending, served>>

\* The process dies between any two statements; the tables and the
\* Lightning node keep their state.
Crash ==
    /\ nodeUp
    /\ nodeUp' = FALSE
    /\ procPending' = NONE
    /\ UNCHANGED <<listVars, now, sentOffers, received, invoices, settleCount, procPos, served>>

\* On start the processor subscribes from get_latest_settle_index.
Restart ==
    /\ ~nodeUp
    /\ nodeUp' = TRUE
    /\ procPos' = LatestSettleIndex
    /\ UNCHANGED <<listVars, now, sentOffers, received, invoices, settleCount, procPending, served>>

\* clear_received_payment_settle_indices: every settle_index set to 0, so
\* that the next subscription replays every settled invoice.
ClearReceivedPaymentSettleIndices ==
    /\ received' = [i \in DOMAIN received |-> [received[i] EXCEPT !.settle_index = 0]]
    /\ UNCHANGED <<listVars, now, sentOffers, invoices, settleCount, nodeUp, procPos,
                   procPending, served>>

\* handle_get_received_payments: one page of the admin listing, served by
\* the running node.
FetchReceivedPayments ==
    /\ nodeUp
    /\ RP!FetchPage
    /\ UNCHANGED <<now, sentOffers, received, invoices, settleCount, nodeUp,
                   procPos, procPending, served>>

Tick ==
    /\ now < MaxTime
    /\ now' = now + 1
    /\ UNCHANGED <<listVars, sentOffers, received, invoices, settleCount, nodeUp, procPos,
                   procPending, served>>

-----------------------------------------------------------------------------
Init ==
    /\ now = 0
    /\ sentOffers = [ph \in {} |-> NONE]
    /\ received = <<>>
    /\ invoices = [ph \in {} |-> NONE]
    /\ settleCount = 0
    /\ nodeUp = TRUE
    /\ procPos = 0
    /\ procPending = NONE
    /\ served = {}
    /\ RP!Init

Next ==
    \/ \E s \in Squeaks, p \in Peers : GetOffer(s, p)
    \/ \E ph \in DOMAIN invoices :
          BuyerPays(ph) \/ CancelExpiredInvoice(ph) \/ SettleAccepted(ph)
    \/ HandleSettled
    \/ MarkSentOfferPaid
    \/ DeleteExpiredSentOffers
    \/ Crash
    \/ Restart
    \/ ClearReceivedPaymentSettleIndices
    \/ FetchReceivedPayments
    \/ Tick

Spec == Init /\ [][Next]_vars

-----------------------------------------------------------------------------
(***************************************************************************)
(* Properties                                                              *)
(***************************************************************************)

(***************************************************************************)
(* The refinement mapping to KeySale: a sale is the state of its hold     *)
(* invoice (open and accepted are both still "offered"), and its records  *)
(* are the received_payment rows with its payment hash.                   *)
(***************************************************************************)
SaleOf(ph) ==
    IF ph \notin DOMAIN invoices THEN "none"
    ELSE CASE invoices[ph].state \in {"open", "accepted"} -> "offered"
           [] invoices[ph].state = "settled"  -> "settled"
           [] invoices[ph].state = "canceled" -> "canceled"

RecordsOf(ph) == Cardinality({i \in DOMAIN received : received[i].ph = ph})

Abstract == INSTANCE KeySale WITH
    sale <- [ph \in PaymentHashes |-> SaleOf(ph)],
    records <- [ph \in PaymentHashes |-> RecordsOf(ph)]

\* The processor, the sweep, crashes, restarts and the replay after
\* clear_received_payment_settle_indices together implement KeySale: a
\* payment is booked only for a settled invoice, at most once, and a booked
\* sale is never unbooked (spec 4.2: insert_received_payment is idempotent).
ImplementsKeySale == Abstract!Spec

\* A sent offer is marked paid only once its payment has been recorded, so
\* a crash between the two statements never leaves a paid offer without a
\* received payment.
PaidOffersAreRecorded ==
    \A ph \in DOMAIN sentOffers : sentOffers[ph].paid => ph \in Recorded

\* Spec 4.2: sent offers are kept for a grace period so that late
\* settlements complete: every invoice the node settled and its processor
\* has passed is recorded as a received payment.
NoSettledPaymentLost ==
    \A ph \in DOMAIN invoices :
        (invoices[ph].state = "settled" /\ invoices[ph].index <= procPos)
            => ph \in Recorded

\* An offer is only ever sent to the peer it was made for (spec 4.7: a
\* fresh (k, n) per request of a peer).
OfferSentToItsPeer ==
    \A <<p, ph>> \in served : ph \in DOMAIN sentOffers => sentOffers[ph].peer = p

\* The received-payments listing is newest first and never repeats a
\* payment, though the processor can record payments in the same
\* millisecond, before and after a crash.
ReceivedPaymentPagesInOrder == RP!PagesInOrder

\* A completed received-payments listing holds every payment recorded
\* before it began, while the processor records and replays between its
\* pages.
ReceivedPaymentPagingIsComplete == RP!PagingIsComplete

=============================================================================
