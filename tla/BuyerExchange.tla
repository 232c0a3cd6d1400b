--------------------------- MODULE BuyerExchange ---------------------------
(***************************************************************************)
(* The buy path of one node: the received_offer and sent_payment tables   *)
(* of SqueakDb (src/squeaknode/db/squeak_db.py), the sweep of expired      *)
(* received offers, and pay_offer, run by admin calls that may overlap.   *)
(*                                                                         *)
(* pay_offer is the controller's (not in this source tree); its steps      *)
(* follow spec 4.7 (buy path step 3 and failure semantics): read the      *)
(* offer, pay the invoice, then on success persist the secret key, write  *)
(* a sent_payment row and mark the offer paid; on a failed payment or a   *)
(* cheating seller write a sent_payment row with valid = false.            *)
(***************************************************************************)
EXTENDS Naturals, FiniteSets, Sequences, SequencesExt

CONSTANTS
    Squeaks,        \* locked squeaks the node holds (model values)
    Peers,          \* sellers (model values)
    PaymentHashes,  \* payment hashes of the offers sellers send (ordered)
    MAX_HASH,       \* above every payment hash
    Limit,          \* the limit of a sent-payments listing request
    Calls,          \* concurrent pay_offer calls from the admin API
    Expiry,         \* invoice_expiry
    MaxTime,        \* bound on the clock
    NONE

ASSUME Expiry \in Nat /\ MaxTime \in Nat /\ Limit > 0
ASSUME \A ph \in PaymentHashes : ph \in Nat /\ ph < MAX_HASH

VARIABLES
    now,            \* time.time(), in seconds
    offers,         \* the received_offer table: payment_hash -> row
    payments,       \* the sent_payment table: payment_hash -> [valid]
    unlocked,       \* squeaks whose secret key is stored
    sellerOffer,    \* each invoice as the seller made it: ph -> [squeak, honest, ts]
    lnPaid,         \* payment hashes the Lightning node has paid
    call,           \* call[c]: the stage of pay_offer call c and its offer
    collected,      \* a sent-payments listing: the entries so far,
    done,           \* whether its last page was short,
    firstNow        \* and the clock at its first page

listVars == <<collected, done, firstNow>>
vars == <<now, offers, payments, unlocked, sellerOffer, lnPaid, call, listVars>>

Time == 0..MaxTime
Stages == {"idle", "listed", "got", "paid", "failed", "stored"}

ReceivedOfferRow == [squeak: Squeaks, peer: Peers, ts: Time, paid: BOOLEAN]

SentPaymentKeys == {<<payments[ph].created, ph>> : ph \in DOMAIN payments}

\* Mutant: the row value compared with <=.
SentPaymentBeforeOrAt(k, c) == k[1] < c[1] \/ (k[1] = c[1] /\ k[2] =< c[2])

\* Mutant: the row value compared on created_time_ms alone.
SentPaymentBeforeNoTie(k, c) == k[1] < c[1]

\* get_sent_payments' where clause: tuple_(created_time_ms, payment_hash)
\* < tuple_(last_created_time, last_payment_hash).
SentPaymentBefore(k, c) == k[1] < c[1] \/ (k[1] = c[1] /\ k[2] < c[2])

SP == INSTANCE PaymentListing WITH
    Keys <- Time \X PaymentHashes, rows <- SentPaymentKeys,
    Before <- SentPaymentBefore

TypeOK ==
    /\ now \in Time
    /\ DOMAIN offers \subseteq PaymentHashes
    /\ \A ph \in DOMAIN offers : offers[ph] \in ReceivedOfferRow
    /\ DOMAIN payments \subseteq PaymentHashes
    /\ \A ph \in DOMAIN payments : payments[ph] \in [valid: BOOLEAN, created: Time]
    /\ unlocked \subseteq Squeaks
    /\ DOMAIN sellerOffer \subseteq PaymentHashes
    /\ lnPaid \subseteq PaymentHashes
    /\ call \in [Calls -> [stage: Stages, ph: PaymentHashes \cup {NONE}]]
    /\ SP!TypeOK

Put(f, x, v) == [y \in DOMAIN f \cup {x} |-> IF y = x THEN v ELSE f[y]]
Idle == [stage |-> "idle", ph |-> NONE]

(***************************************************************************)
(* SqueakDb                                                               *)
(***************************************************************************)
ReceivedOfferIsNotPaid(ph) == ~offers[ph].paid

ReceivedOfferIsNotExpired(ph) == now < offers[ph].ts + Expiry

ReceivedOfferShouldBeDeleted(ph) == now >= offers[ph].ts + Expiry

\* get_received_offers(squeak_hash): the offers the UI lists.
ReceivedOffers(s) ==
    { ph \in DOMAIN offers : /\ offers[ph].squeak = s
                             /\ ReceivedOfferIsNotPaid(ph)
                             /\ ReceivedOfferIsNotExpired(ph) }

\* insert_received_offer: a duplicate payment_hash is an IntegrityError,
\* caught, returning None.
InsertReceivedOffer(ph, s, p) ==
    offers' = IF ph \in DOMAIN offers THEN offers
              ELSE Put(offers, ph, [squeak |-> s, peer |-> p, ts |-> now,
                                    paid |-> FALSE])

\* Mutant: the valid column left unset.
InsertSentPaymentNoValid(ph, valid) ==
    /\ ph \notin DOMAIN payments
    /\ payments' = Put(payments, ph, [valid |-> NONE, created |-> now])

\* insert_sent_payment: no IntegrityError handler, so a duplicate
\* payment_hash raises out of the call and nothing is written.  The action
\* is enabled only when the insert succeeds.  created_time_ms is now.
InsertSentPayment(ph, valid) ==
    /\ ph \notin DOMAIN payments
    /\ payments' = Put(payments, ph, [valid |-> valid, created |-> now])


\* set_received_offer_paid: an UPDATE, a no-op when the row is gone.
SetReceivedOfferPaid(ph) ==
    offers' = IF ph \in DOMAIN offers
              THEN [offers EXCEPT ![ph].paid = TRUE]
              ELSE offers

\* delete_expired_received_offers: one DELETE statement.
DeleteExpiredReceivedOffers ==
    /\ \E ph \in DOMAIN offers : ReceivedOfferShouldBeDeleted(ph)
    /\ offers' = [ph \in {o \in DOMAIN offers : ~ReceivedOfferShouldBeDeleted(o)}
                    |-> offers[ph]]
    /\ UNCHANGED <<now, payments, unlocked, sellerOffer, lnPaid, call, listVars>>

-----------------------------------------------------------------------------
\* A seller answers download_offers with an offer (spec 4.7 buy path 2),
\* honest or not; the buyer validates and stores it.
ReceiveOffer(ph, s, p, honest) ==
    /\ ph \notin DOMAIN sellerOffer
    /\ s \notin unlocked
    /\ sellerOffer' = Put(sellerOffer, ph, [squeak |-> s, honest |-> honest,
                                          ts |-> now])
    /\ InsertReceivedOffer(ph, s, p)
    /\ UNCHANGED <<now, payments, unlocked, lnPaid, call, listVars>>

\* The user lists the offers for a squeak (handle_get_buy_offers, which
\* reads get_received_offers) and picks one to pay; an empty list leaves
\* nothing to pick.
ListOffers(c, s) ==
    /\ call[c] = Idle
    /\ \/ \E ph \in ReceivedOffers(s) :
            call' = [call EXCEPT ![c] = [stage |-> "listed", ph |-> ph]]
       \/ /\ ReceivedOffers(s) = {}
          /\ UNCHANGED call
    /\ UNCHANGED <<now, offers, payments, unlocked, sellerOffer, lnPaid, listVars>>

\* Later, handle_pay_offer: pay_offer(received_offer_id) begins with
\* get_received_offer, which reads the row with no paid or expiry filter;
\* a row swept in the meantime ends the call with an error and no write.
BeginPayOffer(c) ==
    /\ call[c].stage = "listed"
    /\ call' = [call EXCEPT ![c] = IF call[c].ph \in DOMAIN offers
                                   THEN [call[c] EXCEPT !.stage = "got"]
                                   ELSE Idle]
    /\ UNCHANGED <<now, offers, payments, unlocked, sellerOffer, lnPaid, listVars>>

\* lightning.pay_invoice: the Lightning node refuses an expired invoice or
\* one it already paid, and may fail to route any payment.
PayInvoice(c) ==
    /\ call[c].stage = "got"
    /\ LET ph == call[c].ph
           payable == /\ ph \notin lnPaid
                      /\ now < sellerOffer[ph].ts + Expiry
       IN  \/ /\ payable
              /\ lnPaid' = lnPaid \cup {ph}
              /\ call' = [call EXCEPT ![c].stage = "paid"]
           \/ /\ call' = [call EXCEPT ![c].stage = "failed"]
              /\ UNCHANGED lnPaid
    /\ UNCHANGED <<now, offers, payments, unlocked, sellerOffer, listVars>>

\* A failed payment: a sent_payment row with valid = false.
RecordFailedPayment(c) ==
    /\ call[c].stage = "failed"
    /\ \/ InsertSentPayment(call[c].ph, FALSE)
       \/ /\ call[c].ph \in DOMAIN payments    \* IntegrityError raised
          /\ UNCHANGED payments
    /\ call' = [call EXCEPT ![c] = Idle]
    /\ UNCHANGED <<now, offers, unlocked, sellerOffer, lnPaid, listVars>>

\* After a payment: preimage XOR nonce gives the key; if it decrypts the
\* squeak, set_squeak_decryption_key stores it.  A cheating seller's key
\* does not decrypt: nothing is stored and the payment is recorded invalid.
StoreSecretKey(c) ==
    /\ call[c].stage = "paid"
    /\ LET o == sellerOffer[call[c].ph] IN
       IF o.honest
         THEN /\ unlocked' = unlocked \cup {o.squeak}
              /\ call' = [call EXCEPT ![c].stage = "stored"]
         ELSE /\ call' = [call EXCEPT ![c].stage = "failed"]
              /\ UNCHANGED unlocked
    /\ UNCHANGED <<now, offers, payments, sellerOffer, lnPaid, listVars>>

\* Then insert_sent_payment(valid = true) and set_received_offer_paid; a
\* duplicate payment_hash raises before the offer is marked paid.
RecordPayment(c) ==
    /\ call[c].stage = "stored"
    /\ \/ /\ InsertSentPayment(call[c].ph, TRUE)
          /\ SetReceivedOfferPaid(call[c].ph)
       \/ /\ call[c].ph \in DOMAIN payments    \* IntegrityError raised
          /\ UNCHANGED <<payments, offers>>
    /\ call' = [call EXCEPT ![c] = Idle]
    /\ UNCHANGED <<now, unlocked, sellerOffer, lnPaid, listVars>>

\* handle_get_sent_payments: one page of the admin listing.
FetchSentPayments ==
    /\ SP!FetchPage
    /\ UNCHANGED <<now, offers, payments, unlocked, sellerOffer, lnPaid, call>>

Tick ==
    /\ now < MaxTime
    /\ now' = now + 1
    /\ UNCHANGED <<offers, payments, unlocked, sellerOffer, lnPaid, call, listVars>>

-----------------------------------------------------------------------------
Init ==
    /\ now = 0
    /\ offers = [ph \in {} |-> NONE]
    /\ payments = [ph \in {} |-> NONE]
    /\ unlocked = {}
    /\ sellerOffer = [ph \in {} |-> NONE]
    /\ lnPaid = {}
    /\ call = [c \in Calls |-> Idle]
    /\ SP!Init

Next ==
    \/ \E ph \in PaymentHashes, s \in Squeaks, p \in Peers, h \in BOOLEAN :
          ReceiveOffer(ph, s, p, h)
    \/ \E c \in Calls :
          \/ \E s \in Squeaks : ListOffers(c, s)
          \/ BeginPayOffer(c)
          \/ PayInvoice(c)
          \/ StoreSecretKey(c)
          \/ RecordPayment(c)
          \/ RecordFailedPayment(c)
    \/ DeleteExpiredReceivedOffers
    \/ FetchSentPayments
    \/ Tick

Spec == Init /\ [][Next]_vars

-----------------------------------------------------------------------------
(***************************************************************************)
(* Properties                                                              *)
(***************************************************************************)

\* Every invoice the node paid to an honest seller ends, once no call is
\* working on it, with a valid sent_payment row (spec 4.7: write a
\* sent_payment row; spec 4.2: duplicate payment_hash is AlreadyExists).
PaidInvoicesRecordedValid ==
    \A ph \in lnPaid :
        (sellerOffer[ph].honest /\ \A c \in Calls : call[c].ph # ph)
            => ph \in DOMAIN payments /\ payments[ph].valid

\* The sent-payments listing is newest first and never repeats a payment,
\* though two pay_offer calls can record payments in the same millisecond.
SentPaymentPagesInOrder == SP!PagesInOrder

\* A completed sent-payments listing holds every payment recorded before
\* it began, while pay_offer calls record more between its pages.
SentPaymentPagingIsComplete == SP!PagingIsComplete

=============================================================================
