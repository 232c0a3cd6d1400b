# TLA+ models of squeaknode

This directory holds TLA+ models of the squeaknode sources under `src/` and the TLC
configurations that check them. `PROJECT.json` lists the components, the runs, the
mutants that show each checked property can fail, the map from each definition to the
source lines it models, the findings and the hazards.

## 1. The system and its parts

A squeaknode keeps squeaks (signed posts whose content is encrypted until its secret
key is known) in a SQL store. It exchanges them with peers and sells or buys secret
keys over Lightning. Of the system, this source tree holds:

| Part | Source | State | Operations |
|---|---|---|---|
| Store (`SqueakDb`) | `db/squeak_db.py`, `db/models.py` | seven tables: squeak, profile, peer, received_offer, sent_offer, sent_payment, received_payment | one SQL statement per method, each on its own connection (auto-commit) |
| Node lifecycle (`SqueakNode`) | `node/squeak_node.py` | which services run | `start_running` (db init with 10 retries, then ten services in order), `stop_running` (stops five of them) |
| Offer expiry worker | `node/squeak_offer_expiry_worker.py` | none (periodic) | `work_fn`: delete expired received offers, then expired sent offers |
| New-squeak forwarder | `node/update_subscribed_squeak_worker.py` | a stop flag | for each new squeak, send `inv` to every connected peer subscribed to it |
| Admin handler and messages | `admin/*.py` | none | protobuf request to controller call to reply |
| Migrations | `db/alembic/...` | schema | DDL |

The controller, network manager, peer sessions, payment processor, Lightning and Bitcoin
adapters and the crypto are not in this tree. Where a modelled step needs one of them,
the step is modelled from `spec.md` and marked `spec_modelled` in the map.

How the parts interact:
- All threads share the store. These are the admin RPC threads, the peer session threads and the periodic workers.
- Every store method is one statement on a fresh connection. A controller operation built from several store calls is therefore not atomic. The deletion sweep is one example: one query, then one delete per hash.
- The store is the serialising point (spec 5), so each store method is one atomic TLA+ step. A multi-call operation is several steps, and other actors' steps can come in between.

## 2. Inventory: hard behaviours and the properties they call for

- **Retention sweep** (`get_old_squeaks_to_delete` 686-709, deletion by `delete_squeak` 896-902).
  - This is check-then-act across statements. A like, or the import of a signing profile, between the query and a delete is not re-checked.
  - The query outer-joins `profile`, so a squeak whose author has no profile is eligible.
  - Properties: the sweep spares kept squeaks, and every eligible squeak is eventually swept.
- **Idempotent insert** (`insert_squeak` 183-208).
  - A duplicate hash raises IntegrityError and returns `None`.
  - Re-downloading an unlocked squeak must not reset its key.
- **Keyset pagination** (251-459).
  - The row-value comparison on `(n_block_height, n_time, hash)` runs against the client's last entry, with writers in between pages.
  - Properties: no repeats, strict order (spec 8), and completeness for untouched squeaks.
- **Node lifecycle** (squeak_node.py 57-121).
  - The retry loop swallows its final failure.
  - `stop_running` omits five workers.
  - Properties: start returns, no work after stop, no service over an uninitialised store.
- **Offers and payments** (987-1410).
  - Received-offer validity windows, and the sent-offer grace period before deletion.
  - Idempotent received payments via the unique `payment_hash`.
  - Settle-index resume after a restart.
  - `get_sent_offer_by_squeak_hash_and_peer` ignores the port.
  - `get_received_offer` does not filter paid or expired offers.
- **Payment listings** (`get_sent_payments` 1129-1169, `get_received_payments` 1317-1359). The same keyset query on `(created_time_ms, payment_hash)`. Two payments can be recorded in one millisecond, by two `pay_offer` calls or by the processor. Properties: no repeats, newest first, and completeness for payments made before the listing began.
- **Thread and lookup queries** (`get_thread_ancestor_squeak_entries` 460-522, `lookup_squeaks` 580-628). A recursive CTE along reply hashes; truthiness tests on the lookup's filters.
- **Forwarding** (update_subscribed_squeak_worker.py 53-86). `forward_squeak` snapshots the connected peers once and reads each peer's filter later; peers connect, disconnect and change filters in between. Property: every peer that was connected and subscribed when a squeak was saved gets its inv, unless it leaves or the worker stops.
- **Liked listing** (`get_liked_squeak_entries` 303-349). The cursor is `(liked_time_ms, hash)`, and a like or unlike between pages moves a squeak across it. Properties: strict order, and completeness for squeaks nobody touched.

## 3. Plan

Status of the modules, most important first:

1. `SqueakStore` (done). The squeak and profile tables and the retention sweep. The sweep's query and deletes are separate steps.
2. `KeysetPaging` (done). The paginated listings (timeline, address, search, replies), with one client and concurrent writers.
3. `NodeLifecycle` (done). start/stop, the database retry loop and the component-building step.
4. `SellerExchange` (done). The sent_offer and received_payment tables, the sent-offer sweep, the hold invoices and the payment processor (spec_modelled), with crashes and restarts.
5. `BuyerExchange` (done). The received_offer and sent_payment tables, the received-offer sweep, the offer listing and concurrent `pay_offer` calls (spec_modelled).
6. `ThreadQueries` (done). The ancestor CTE as a RECURSIVE operator, `lookup_squeaks` and the per-address counts.
7. `KeySale` (done). The abstract promise of the sell path. `SellerExchange` is shown to implement it with INSTANCE ... WITH and `Abstract!Spec` as a PROPERTY.
8. `Forwarding` (done). The new-squeak worker against the connected peers (spec 4.6). It is composed into `NodeLifecycle` by INSTANCE, so the worker runs exactly while the node's `new_squeak` service runs.
9. Liked-listing pagination (done). Folded into `SqueakStore`, whose like and unlike actions are the writers that move the cursor.
10. Payment listings (done). `PaymentListing` is the admin client of both payment listings. `BuyerExchange` and `SellerExchange` each instance it over their own table.
11. The profile-creating and profile-deleting handlers are actions of `SqueakStore`.
12. Open: the buyer side as a refinement of `KeySale`, and a bounded retry of the Lightning client's init. Spec 7 asks for that retry; the code makes one attempt (squeak_node.py 131). The peer table and the other profile columns are in section 7.

## 4. Modules and how they correspond to the code

### SqueakStore (`SqueakStore.tla`, `MCSqueakStore.tla`)

State:

| Variable | Models |
|---|---|
| `squeaks` | the squeak table, hash to `[author, created, secret_key, liked_time]` |
| `profiles` | the profile table, address to `[has_private_key]`. Address is unique (models.py 81). No modelled query reads the `following` column, so it is left out. |
| `now` | the clock `timestamp_now_ms`, in units of the retention |
| `pending` | the hashes the sweep's query returned and has not yet deleted |
| `collected`, `done`, `firstNow` | a client paging through `handle_get_liked_squeak_display_entries`: the entries so far, whether the last page was short, and the clock at its first page |
| `disturbed` | squeaks a writer touched while the client was paging |

Actions:
- Each store method is one action: `InsertSqueak`, `SetSqueakDecryptionKey`, `SetSqueakLiked`, `SetSqueakUnliked`, `DeleteSqueak`, `InsertProfile` and `DeleteProfile`. Its guard is the row's existence or the unique constraint.
- The profile handlers call them. `CreateSigningProfile` covers both `handle_create_signing_profile` and `handle_import_signing_profile`, and inserts with a private key. `CreateContactProfile` inserts without one. `DeleteSqueakProfile` is `handle_delete_squeak_profile`.
- The sweep is two actions. `GetOldSqueaksToDelete` is the query, with its three `where` clauses as operators. `DeleteOldSqueak(h)` is one delete.
- `FetchLikedPage` is one handler call. `GetLikedSqueakEntries(c)` is the query: liked rows with `RowBefore(LikedKey(h), c)`, ordered by `(liked_time_ms, hash)` descending, at most `Limit`. The first cursor is `(now, MAX_HASH)`; later ones are the last entry's key.
- Every writer of a squeak row adds its hash to `disturbed` while a listing is in progress.

Properties:
- `UnlockIsPermanent` (action): a stored squeak's secret key is never reset.
- `RetentionSweepDeletesOldSqueaks` (leads-to): an eligible squeak stops being eligible. Eligibility follows spec 4.2, written independently of the query's operators.
- `SweepSparesKeptSqueaks` (action): a delete by the sweep never removes a liked squeak, nor one whose author profile holds a private key.
- `LikedPagesInOrder`: the collected entries are strictly descending in `(liked_time, hash)`, by an order written apart from the query's `RowBefore`.
- `LikedPagingIsComplete`: when the listing ends, every squeak liked before its first page and touched by no writer has been returned. The bound is the millisecond before the first page: a squeak liked later within that millisecond may sort above the first cursor, and no client can expect a listing to show a like made after it began.

### KeysetPaging (`KeysetPaging.tla`, `MCKeysetPaging.tla`)

Squeak hashes are naturals so that they can be ordered. `key[s]` is the fixed `(n_block_height, n_time)` of a squeak.

- `Page(k, a, c)` is one query. It returns the `Limit` greatest matching rows with `KeysetBefore(SortKey(s), c)`, in the order of `After`.
- `FetchPage` is one handler call.
  - The page is appended to `collected`.
  - `done` is set when the page is short.
  - Otherwise the cursor is the last entry's key, which `message_to_squeak_entry` carries back unchanged.
- Writers run between pages: `InsertSqueak`, `DeleteSqueak`, `SetSqueakDecryptionKey` (the content becomes searchable) and `SetProfileFollowing`. Each adds what it touched to `disturbed`.
- `PagesInKeysetOrder` compares with its own lexicographic order, not the query's.
- `PagingIsComplete`: when the client stops, every matching squeak no writer touched has been returned.

### NodeLifecycle (`NodeLifecycle.tla`, `MCNodeLifecycle.tla`)

- `pc` follows the main thread: `idle`, `init_db` (the `for _ in range(10)` loop), `starting` (the statements of `start_running`, with `next` indexing `StartOrder`), `started` and `stopped`.
- `running` is the set of services whose thread or server runs.
- `ServiceStep(s)` is one unit of work of a running service.
- `config` ranges over the two admin switches.
- `InitializeComponents(ok)` is `initialize_lightning_client` through `initialize_peer_subscription_update_worker` (122-240). The only call there that can fail is `lightning_client.init()`, tried once; on failure `start_running` raises with no service started (`pc = "failed"`).
- The process ends after `started` or `failed`, so the configs set `CHECK_DEADLOCK FALSE`.
- The forwarder is composed in: `F == INSTANCE Forwarding WITH workerRunning <- "new_squeak" \in running, netRunning <- "network_manager" \in running`. `ForwarderStep` is the worker's step (`F!WorkerStep`), replacing the generic `ServiceStep` of `new_squeak`. `EnvironmentStep` is the controller saving a squeak or a peer connecting, disconnecting or sending `interested`.
- `ForwardedToSubscribers` is `F!ForwardedToSubscribers`, checked over the node's whole life: start, stop and the omitted worker stops included.

### Forwarding (`Forwarding.tla`)

- `queue` is the subscription `subscribe_new_squeaks(stopped)`: squeaks saved while the worker is subscribed, in order. `SaveSqueak` stands for the controller's save.
- `NextNewSqueak` is one turn of `handle_new_squeaks`; it snapshots `get_connected_peers()` into `toVisit`.
- `ForwardToPeer(p)` is one iteration of the loop in `forward_squeak`: `is_remote_subscribed` is read at that moment, and a send to a peer that disconnected since is lost. `FinishForward` ends the loop.
- `Connect`, `Disconnect` and `SetInterest` are the network manager and the remote peers (spec_modelled). A new connection starts with an empty filter.
- `owed` is a history variable: the pairs `(p, sq)` where `p` was connected and subscribed to `sq` when it was saved, and has stayed so.
- `ForwardedToSubscribers` (leads-to): an owed pair is eventually sent, stops being owed, or the worker stops.

### KeySale (`KeySale.tla`)

- The abstract sell path: `sale[ph]` goes `none` to `offered` to `settled` or `canceled`, and `records[ph]` counts the received payments booked for it, at most one and only after settlement.
- `SellerExchange` maps onto it. `SaleOf(ph)` is the invoice's state (open or accepted is `offered`), and `RecordsOf(ph)` is the number of received_payment rows with that hash. Every seller step is a `KeySale` step or a stutter; the crash, the restart and the reprocess call are stutters.

### SellerExchange (`SellerExchange.tla`, `MCSellerExchange.tla`)

- `sentOffers` and `received` are the sent_offer and received_payment tables; `invoices` and `settleCount` the Lightning node's hold invoices and settle index.
- Store methods are operators or actions: `InsertReceivedPayment` (the unique payment_hash makes a replay a no-op), `SetSentOfferPaid`, `DeleteExpiredSentOffers` with `SentOfferShouldBeDeleted`, `LatestSettleIndex`.
- `GetOffer(s, p)` is the controller's offer step: an existing offer found by `get_sent_offer_by_squeak_hash_and_peer` (host only), or a fresh invoice. `served` records what each peer got.
- The buyer and Lightning: `BuyerPays`, `SettleAccepted`, `CancelExpiredInvoice`.
- The processor (spec_modelled): `HandleSettled` records the next settled invoice after `procPos`, `MarkSentOfferPaid` marks the offer afterwards. `Crash` and `Restart` drop and resume the subscription from `LatestSettleIndex`; `ClearReceivedPaymentSettleIndices` is the admin reprocess call.
- Properties: `ImplementsKeySale` (the refinement, which subsumes "a payment is booked at most once and only when settled"), `PaidOffersAreRecorded`; violation runs for `NoSettledPaymentLost` and `OfferSentToItsPeer`.

### BuyerExchange (`BuyerExchange.tla`, `MCBuyerExchange.tla`)

- `offers` and `payments` are the received_offer and sent_payment tables; `unlocked` the stored secret keys; `lnPaid` what the node's Lightning paid; `sellerOffer` each invoice as the seller made it (honest or cheating key).
- `call[c]` is one admin `pay_offer` call, in stages `listed`, `got`, `paid`, `failed`, `stored`. `ListOffers` is `handle_get_buy_offers` over `get_received_offers` (unpaid, unexpired); `BeginPayOffer` is `get_received_offer` (no filter); `PayInvoice`, `StoreSecretKey`, `RecordPayment` and `RecordFailedPayment` follow spec 4.7.
- `ReceiveOffer` and `DeleteExpiredReceivedOffers` are the download path and the expiry worker. `Tick` moves the clock.
- Properties: `SentPaymentPagesInOrder`, `SentPaymentPagingIsComplete`; violation run for `PaidInvoicesRecordedValid`.

### PaymentListing (`PaymentListing.tla`)

- This module is the admin client of `handle_get_sent_payments` and `handle_get_received_payments`. A payment is its key `<<created_time_ms, payment_hash>>`. The entry the client sends back becomes the cursor through `message_to_sent_payment` / `message_to_received_payment`, which keep exactly those two fields.
- `Page(c)` is the query: rows with `Before(k, c)`, newest first, at most `Limit`. `Cursor` is the last entry, or `<<now, MAX_HASH>>` when no listing is under way. `FetchPage` is one handler call; a short page ends the listing.
- The composing module supplies `rows` (its table's keys) and `Before` (its query's row-value comparison):
  - `BuyerExchange`: `SP == INSTANCE PaymentListing WITH rows <- SentPaymentKeys, Before <- SentPaymentBefore`. `FetchSentPayments` is the handler step.
  - `SellerExchange`: `RP == INSTANCE PaymentListing WITH rows <- ReceivedPaymentKeys, Before <- ReceivedPaymentBefore`. `FetchReceivedPayments` is the handler step, and it runs only while the node is up.
- `PagesInOrder`: entries are strictly newest first, by an order written apart from `Before`.
- `PagingIsComplete`: a finished listing holds every payment created before the millisecond of its first page. A payment made later within that millisecond may sort above the first cursor; the listing had already begun before that payment existed.

### ThreadQueries (`ThreadQueries.tla`, `MCThreadQueries.tla`)

- A squeak's reply hash, author and height are content, chosen in `Init` over every acyclic reply function (a reply names a smaller hash). `present` and `unlocked` are the rows and keys, changed by `InsertSqueak`, `DeleteSqueak` and `SetSqueakDecryptionKey`.
- `CteRows` is the recursive CTE (RECURSIVE operator); `GetThreadAncestorSqueakEntries` joins it with the table and orders by depth descending.
- `LookupSqueaks` applies each filter only when its argument is truthy. The two counts are `NumberOfSqueaksWithAddressInBlockRange` and `NumberOfSqueaksWithAddressWithBlock`.
- `AncestorsAreTheThread` checks the CTE against a direct definition of the thread; `LookupAnswersInterest` checks the lookup against a reference filter and the counts.

## 5. Runs

| Run | Checks | Result |
|---|---|---|
| `store_retention` | TypeOK, LikedPagesInOrder, LikedPagingIsComplete, UnlockIsPermanent, RetentionSweepDeletesOldSqueaks | pass |
| `store_sweep_race` | SweepSparesKeptSqueaks | violation |
| `keyset_paging` | TypeOK, PagesInKeysetOrder, PagingIsComplete | pass |
| `node_lifecycle` | TypeOK, StartRunningReturns, ForwardedToSubscribers | pass |
| `node_stop` | NoWorkAfterStop | violation |
| `node_db_init` | ServicesRunOnlyOverInitialisedDb | violation |
| `seller_exchange` | TypeOK, ImplementsKeySale, PaidOffersAreRecorded, ReceivedPaymentPagesInOrder, ReceivedPaymentPagingIsComplete | pass |
| `seller_late_settlement` | NoSettledPaymentLost | violation |
| `seller_offer_port` | OfferSentToItsPeer | violation |
| `buyer_exchange` | TypeOK, SentPaymentPagesInOrder, SentPaymentPagingIsComplete | pass |
| `buyer_double_pay` | PaidInvoicesRecordedValid | violation |
| `thread_queries` | TypeOK, AncestorsAreTheThread, LookupAnswersInterest | pass |

`store_retention`: hashes {1, 2} of 2 authors, retention 1, time 0..2, and a liked-listing page size of 1.
- A squeak can be made, age past the retention, be liked or unliked, and gain or lose a signing profile in any order.
- That covers both the profile-less (outer join) case and the signing-profile case.
- With `Limit = 1`, a listing of two liked squeaks takes three pages, so a cursor lies between every pair of entries, and likes at equal times exercise the hash tie-break. About 822k states, 80 s.

`store_sweep_race`: TLC finds this trace:
1. `h1` is inserted.
2. Two ticks pass.
3. The sweep queries `{h1}`.
4. `h1` is liked (`SetSqueakLiked`).
5. The sweep deletes `h1`.

The same race holds when a signing profile for `h1`'s author is created in step 4.

`keyset_paging`: 3 squeaks (two of one author, one of another), with every assignment of heights and times in {0,1} × {0,1}.
- Ties at a page boundary occur (Limit 2).
- The first page splits an author's squeaks.
- Every initial store content is explored. 1.3M states, about 25 s.

`node_lifecycle`: MaxAttempts = 10 as in the code, with both admin switches, two peers and one new squeak. The peers can connect, subscribe and disconnect before, during and after the forwarder's snapshot. About 506k states, 1m23s. The violation runs show:
- `node_stop`: a worker works after `stop_running`.
- `node_db_init`: ten failures, then every service starts.

`seller_exchange` and its violation runs: one squeak, two peers on one host with different ports, payment hashes {1, 2} (ordered, as the listing needs), Expiry 1, Grace 1, time 0..3, and a listing limit of 1. A settlement can come before or after the sweep's deadline, and a crash can fall between any two processor steps. Two payments can be recorded in one tick, and a listing of them takes three pages. About 2.7M states, 1m35s.
- `seller_late_settlement`: an invoice settles, the clock passes expiry plus grace, the sweep deletes the sent offer, then the processor reaches the SETTLED event and records nothing.
- `seller_offer_port`: the peer on port 2 asks for the squeak after the peer on port 1 and is served port 1's offer.

`buyer_exchange`: one squeak, one seller, payment hashes {1, 2} (one honest, one cheating, or both either way), two concurrent calls, Expiry 1, time 0..2, and a listing limit of 1. Both calls can record payments in the same tick. About 957k states, about 15 s.
- `buyer_double_pay`: the first call lists the offer, reads it and pays it. The second call lists the same offer before the first has marked it paid, so the filtered `get_received_offers` still shows it. Lightning refuses the second payment, and that call writes `valid = false` under the payment hash. The first call's `insert_sent_payment` then raises on the duplicate hash; it has no `IntegrityError` handler. The paid payment stays recorded invalid and the offer is never marked paid. The cause is the failed attempt's row under the unique hash, not `get_received_offer`'s missing paid filter: a single call retried after a routing failure reaches the same state.

`thread_queries`: hashes {1,2,3} (every reply graph on them), two authors, heights {0,1,2}. Every store content reachable by the writers is checked, 35k states.

Each property of a passing run has a mutant: a plausible bug in a mapped definition that TLC must catch (`PROJECT.json` "mutants").
- The retention query as an inner join.
- `insert_squeak` as an upsert.
- The row value compared with `<=`, or without the hash.
- A start loop that ends one service early.
- The liked query's cursor compared with `<=`, a listing that stops at a full page, a forwarder that leaves its loop after the first send.
- An insert of a received payment without the unique constraint, `set_sent_offer_paid` without its WHERE clause.
- A key stored without checking it against the squeak, a sent payment recorded valid whatever the outcome, an insert that drops the valid flag.
- A payment listing whose row value is compared with `<=`, or on `created_time_ms` alone.
- The ancestor rows ordered leaf first, a lookup that ignores `include_locked`.

## 6. Fairness

- `SqueakStore` has weak fairness on the sweep only. The deletion worker is a periodic worker that runs while the node runs. Users and the clock get none.
- `NodeLifecycle` has weak fairness on the main thread's steps, because `start_running` waits only on the sleep of its loop. The outcome of `squeak_db.init` is never assumed: it may fail every time.
- `NodeLifecycle` also has weak fairness on `ForwarderStep`. The worker is a thread that blocks only on its subscription, and `ForwarderStep` is enabled exactly when a squeak is queued or a forward is in progress. Peers and the controller get no fairness.
- `BuyerExchange`, `KeysetPaging`, `SellerExchange` and `ThreadQueries` check safety only. Their actors are users, peers and Lightning, which the code cannot make act.

## 7. Not modelled, and why

- Formatting, logging and protobuf conversion: no property depends on them.
- The cryptography: the model values stand for hashes and keys.
- The migrations: DDL, seen only as `squeak_db.init` succeeding or failing.
- The profile columns `profile_name`, `following` (outside `KeysetPaging`), `use_custom_price`, `custom_price_msat` and `profile_image`. Their handlers (216-298) are single-statement UPDATEs keyed by `profile_id`. The reads of price and following are in the controller, which is not in this tree. A `profile_id` kept by a client cannot name a later profile, because the table is created with `sqlite_autoincrement` (models.py 87).
- The controller, networking and Lightning code are not in this tree. They enter only as the spec_modelled steps listed in the map (the payment processor, `pay_offer`, the buyer's Lightning payment).
- `delete_offer`, `delete_offers_for_squeak` and `delete_sent_offer`: their callers are in the controller, which is not in this tree, and spec.md does not say when they run. The payment summaries are a count and a sum that no property reads.
- The peer table (squeak_db.py 904-985, handlers 508-593): single-statement inserts, updates and deletes, keyed by an autoincrement `peer_id` and a unique `(host, port)`. Every reader is outside this tree: the peer connection worker (`get_autoconnect_peers`) and the network manager. Spec 4.2 asks for a duplicate `(host, port)` to fail as AlreadyExists, and `insert_peer` does raise IntegrityError, so the table holds no behaviour that a property about this code could separate from its schema.
- `lookup_squeaks` with an empty author list or `max_block = 0`: the code applies no filter then (603-608). Which callers can pass these values is decided by the peer session, which is not in this tree.

The boundary of the retention test differs between the sources:
- The code uses `now > created + retention` (line 121).
- Spec 8 says "created < now − retention", which is the same.
- Spec 4.2 says `≤`.

The model follows the code.
