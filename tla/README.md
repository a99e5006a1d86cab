# A verification model of Stock Tracker's stock core

Stock Tracker is a Django application (`src/src/backend`) with a Next.js client
(`src/src/frontend`). It records purchases, collections, refunds, shipments, sales and
adjustments of products at locations, and keeps one append-only **stock ledger** from
which every balance and every report is derived. The promises that matter are
arithmetic and historical: units and cents are never lost or invented, through any
order of entries, edits, corrections, undos and deletes. This directory models that
core in TLA+, with the lock that serialises it, the reports that read it and the parts
around it that keep state of their own (export jobs, the workspace handoff, files and
audit rows). TLC checks it on small instances; TLAPS proves what matters most for every
instance, of every part but the reports on records.

Paths below are relative to `src/src/backend/apps/` unless they begin with `src/`.

## 1. Inventory

| Part | State it keeps | Operations | Makes it correct |
|---|---|---|---|
| Ledger and posting service (`inventory/services.py`, `models.py`) | `StockLedgerEntry` rows (append-only), `StockBalance` per product, location and bucket | `post_event`, `reversal_movements`, `net_reversal_movements`, `rebuild_stock_balances` | balances = rollup of the ledger; no unconfirmed negative PHYSICAL; a reversal clears what it reverses and needs no needless confirmation |
| Money (`purchases/services.py:39-123`) | none | rounding half up, exact-remainder share, GST component | the last unit takes all the remaining value |
| Purchases (`purchases/services.py`, `corrections.py`) | purchase, lines, collections, refunds; PENDING and PHYSICAL rows | create, edit, delete, collect, undo collection, refund, undo refund; correction of a received line | pending shown = pending in the ledger; value of a line conserved; a correction leaves nothing on the superseded product and moves no stock; what is deleted holds nothing |
| Shipments (`shipments/services.py`) | shipment, lines, receipts; IN_TRANSIT and PHYSICAL rows | create, ship, edit, receive, undo receipt, cancel, delete | where stock is follows from the records; the computed status agrees with the ledger; value arrives as it left |
| Sales (`sales/services.py`) | sale, lines; PHYSICAL rows | create, edit, delete | the ledger holds what the lines say; the pool of a product is emptied exactly |
| Adjustments (`inventory/adjustments.py`) | adjustment; PHYSICAL rows | create, edit, delete | the ledger follows the record through every edit |
| Write lock (`inventory/services.py:20-36`) | one PostgreSQL advisory lock | taken first by every stock service | services are serial; what was read before the lock is read again |
| Reports, dashboard, valuation (`reports/builders.py`, `dashboard.py`) | none | queries | no report loses stock another one shows; reports from records agree with reports from the ledger |
| Export jobs (`reports/models.py`, `tasks.py`, `views.py`) | job row, file, message at the broker, the worker's copy of the row | request, enqueue, run, download | an accepted job ends; what is offered for download is there; a second run does no harm |
| Audit trail (`audits/`) | append-only rows | insert | one row per committed change, telling that change |
| Generic CRUD, master data, products (`core/viewsets.py`) | rows | create, update, delete | a change is audited |
| Accounts, roles, handoff (`accounts/`) | users, nonce cache, sessions | login, role checks, handoff token | a token opens one session, whatever the clocks, unless a request rests for too long; sessions and rejections are audited |
| Attachments (`attachments/`) | row and file | upload, delete | row and file agree |
| Seed, frontend, configuration, scripts | - | - | - |

**Interactions.** The four stock apps never call one another. They meet in the ledger:
all post through `post_event`, all draw from and put back into the same pooled PHYSICAL
balance of a product at a location, and `corrections.py` looks at other apps' records
(an open draft-shipment line, a ledger row that took stock) before it lets a received
line change. Every stock service is wrapped in `stock_transaction`: one database
transaction that begins by taking the advisory lock.

**Hard behaviours.** *Order*: records are edited and undone in any order, while reversals
are computed from the ledger as it is now. *Batches*: a service computes all its movements
first and posts them once, so an item of a request does not see the effect of the one
before it unless the code keeps a running account. *Rounding*: a line's value is split
into cents many times. *Pooling*: received stock loses its identity; the value taken out
is an average. *Stale reads*: serializers load objects before the lock is taken.
*Confirmation*: a shortage is refused unless the user confirms it, and then allowed.
*Processes*: requests wait for each other and die; workers die between two saves, and a
message may reach two of them. *Steps without a transaction*: generic writes, uploads and
the handoff commit statement by statement. *Clocks*: a token carries the time of another
system. *Two sources*: some reports count records, others the ledger.
`PROJECT.json` lists each hazard at its line.

## 2. Modules

```
SeqSums          sums and filtered sequences as recursive functions
Money            rounding, shares, GST          (integers are cents)
StockLedger      rows, balances, post_event, reversals, rebuild
 |- LedgerService     the posting service with arbitrary callers
 |- StockReports      stock reports, valuation, dashboard cards
 |- Purchases         purchases, collections, refunds, corrections   (+ Money)
 |   `- PurchaseReports    pending, GST and refund reports
 `- Carrying          the carrying-average pool                       (+ Money)
     |- Adjustments
     |- Sales
     |- Shipments
     |   `- ShipmentReports    in-transit figures
     |- SerialStock        requests that each take effect at once
     `- StockRequests      the same step by step, under the lock; implements SerialStock
ExportJobs       export jobs between request, broker, worker and storage
Handoff          the workspace handoff
AuditedRecords   generic writes, attachments and their audit rows
*Proofs          theorems about the module they are named after; StockLedgerProofs holds
                 those about LedgerService and StockReports, and the lemmas on SeqSums,
                 Money, StockLedger and Carrying that all proofs about stock rest on;
                 PurchaseRecordsProofs what the ledger has of a purchase line, and
                 PurchasesProofs the edits, the reports of purchases and the theorems;
                 WebTierProofs those about ExportJobs, Handoff and AuditedRecords
MC*              small instances; each adds the few acts of *other* apps it needs
```

| Module | State (variable = table) | Actions = services or statements |
|---|---|---|
| `StockLedger` | `ledger` = `StockLedgerEntry`; `balance` = `StockBalance` | `Post(moves, confirm)` = `post_event`; `RebuildStockBalances` |
| `LedgerService` | as above | `PostEvent`, `UndoSource`, `UndoRows`, `RebuildStockBalances` |
| `Purchases` | `purchases`, `lines`, `collections`, `refunds`; `drafts` = open draft-shipment lines, which belong to shipments | `CreatePurchase`, `CollectPurchase`, `CreateRefund`, `UpdatePurchase` (with `AddLine`, `RepriceLine`, `CorrectLine`, `RemoveLine`), `DeleteCollection`, `DeleteRefund`, `SoftDeletePurchase` |
| `Sales` | `sales`, `saleLines` | `CreateSale`, `UpdateSale`, `SoftDeleteSale` |
| `Adjustments` | `adjustments` | `CreateAdjustment`, `UpdateAdjustment`, `SoftDeleteAdjustment` |
| `Shipments` | `shipments`, `shipLines`, `receipts`; `inFlight` = receiving requests that loaded their lines and wait for the lock | `CreateShipment`, `ShipShipment`, `UpdateShipment`, `ReceiveShipment`, `LoadReceipt`/`ReceiveLoaded`/`RefuseLoaded`, `DeleteReceipt`, `CancelShipment`, `SoftDeleteShipment` |
| `StockReports`, `PurchaseReports`, `ShipmentReports` | none: operators over the state above | one operator for the rows of a report, one for each total |
| `SerialStock` | `asked`, `outcome` = what a client sent and was answered | `Ask`, `Serve`, `Refuse`, `Lose` |
| `StockRequests` | `ledger`, `balance` = what is committed; `pc`, `moves`, `posted` = the transaction of each request; `holder`, `queue` = the advisory lock; `rowOwner` = row locks | `Arrive`, `Acquire`, `Compute`, `PostNext` (one balance row), `Refuse`, `Commit`, `Die` |
| `ExportJobs` | `row` = `ExportJob`; `files`, `partial` = the whole and the broken files of the exports storage; `message` = the broker; `worker` = each worker and its copy of the row | `Create`, `Enqueue`, `Take`, `Load`, `Start`, `Render`, `RenderFails`, `WriteFails`, `Save`; faults `EnqueueLost`, `Crash`, `BrokerForgets`, `Redeliver` |
| `Handoff` | `now`, `issued`; `remembered` = the nonce cache; `arrival` = each request; `sessions`; `trail` = `AuditLog`; `rested` = requests that came to the cache late (history) | `Issue`, `Arrive`/`ArriveLate`, `Burn`/`Replayed`, `FindUser`/`NoAccount`, `Login`, `Record`, `Answer`; `Die`, `CacheForgets`, `SetActive`, `Tick` |
| `AuditedRecords` | `rows`, `attachments`; `uploads` = the files; `logged` = `AuditLog`; `made` = what each request changed, `overtaken` = whose copy somebody else outdated (history) | `CreateRow`, `LoadUpdate`/`Update`, `LoadDestroy`/`Destroy`, `Upload`/`Attach`, `LoadRemove`/`RemoveFile`/`RemoveRow`, `RecordAudit`, `Halt` |

### How code becomes TLA+

- **One service is one action** in the stock modules. Each is one transaction that first
  takes the advisory lock, so no other stock service runs between its first read and its
  commit; `StockRequests` models the lock, the reads, the row locks, commit and rollback
  one by one and shows that what comes out is such an action (`ActsSerially`). A raised
  `ValidationError` or `NegativeStockError` rolls everything back: the action is not
  enabled for those inputs. The one place where a service uses what its request loaded
  *before* the lock and does not load it again, the lines of a receipt, is modelled in two
  steps.
- **Services that post several times** (corrections, which reverse and replay) are
  functions from a `Book` (ledger, balances, `ok`) to a `Book`, their loops recursive
  functions (`ReversedInTurn`, `ReplayedInTurn`); `Install` makes the result the state if
  every post went through. Services that post once use `Post`.
- **Records** are sequences, their primary key the index; soft deletes set `is_deleted`.
- **Money** is whole cents, and a product or location a model value. `_money` rounds half
  up, as the code's `ROUND_HALF_UP`. `freeze_line_values` rounds a line's value
  once, from quantity x price x exchange rate (`Rates` over `RateScale`); the rounded unit
  price it also stores is read by reports only.
- **Left out as data**: names, notes, dates, customers, selling prices, invoice numbers,
  currency codes and the reporting currency of a row, `reversal_of`, the GST amount of a
  row (split by the same share as the value), timestamps. The key by which
  `net_reversal_movements` groups rows also has the currency and the related location;
  both are the same for all rows of one record of one line and location.
- **Inputs** are what the serializers let through: at least one item, positive
  quantities, a line of this purchase, sale or shipment. `RepeatedLines = FALSE` further
  restricts a request to naming each existing line once (`OneLineEach`, `DistinctIds`). That
  models the client, no code of the repository: the serializers do not require it. Runs with
  `TRUE` say what happens otherwise.
- **Edits of a shipped shipment** change only fields that carry no stock and are left out.
- **Statements outside a transaction are actions of their own.** Django runs in autocommit
  here (no `ATOMIC_REQUESTS`): in `ExportJobs`, `Handoff` and `AuditedRecords` every save,
  cache call, file operation and audit row is one step, other processes run in between, and
  a process may die before any of them.
- **Exports in tests** run inside the request (`CELERY_TASK_ALWAYS_EAGER`,
  `reports/views.py:128-130`); no other settings do that, and it is left out.
- **Reports are operators.** A report is a set of rows and totals over it; its properties
  hold in the states of the module it extends. A cutoff is a number of ledger rows. Filters
  only narrow the rows and are left out.
- **What is not in the repository** is modelled from how the code uses it and marked
  external in `PROJECT.json`: PostgreSQL's lock queue and rollback, Celery's early
  acknowledgement and the Redis broker, the ERP that issues tokens, gunicorn killing a
  worker, the clock.

## 3. Runs

Run any of them with `tlc -workers 2 -config <cfg> <module>`, each within three minutes.
`CHECK_DEADLOCK FALSE` is set because the bounds (rows, records, requests) end every
behaviour, and because an empty shop in which no request is acceptable may stop. That
requests do not wait for each other for ever is a property of its own (`LockProtects`,
`EveryRequestEnds`).

| Run | Module, cfg | Shows |
|---|---|---|
| `ledger_service` | `MCLedgerService` | No sequence of batches (moves between buckets and locations, out-in-out of one balance, two withdrawals in one batch, an unknown bucket), undos and rebuilds makes balances drift, leaves unconfirmed PHYSICAL below zero, or makes an undo leave something or ask for a needless confirmation. Through all of them, live or from the ledger, the stock reports, the valuation and the dashboard account for everything on the books. |
| `purchases_edits` | `MCPurchases`, `MCPurchasesEdits` | One purchase, two lines, quantities 1 and 3, line value 5/3 rounded: pending shown = pending held, value conserved up to a cent per move while lines are added, resized and removed, no cent left in PENDING at zero units; the pending report shows what the ledger holds, the GST of dashboard and GST report agree, and the refund report refunds the same lines. |
| `purchases_corrections` | `MCPurchases`, `MCPurchasesCorrections` | Two products and two locations, one line of one unit; once received it is corrected again and again with undos in between, while a sale takes pooled stock and a draft shipment opens and closes. Nothing stays on a superseded product, undone sources contribute nothing, an edit moves no received stock. (A line received at two locations at once is left to the theorems `UndoneIsGone`, `SupersededIsGone` and `EditsKeepReceived`.) |
| `purchases_pooled` | `MCPurchases`, `MCPurchasesPooled` | Two purchases at two prices pooling one balance, confirmed and not, requests of two items free to name one line twice. Received stock in the records = in the ledger; deleted lines hold nothing but an overdraft; a line keeps its value, to a cent per move, when the price of a received unit is corrected (`CorrectLine`); a correction found eligible never fails half-way. |
| `sales` | `MCSales` | Two sales, two products (symmetric), two uneven deliveries: lines and ledger agree, the pool is never overdrawn in value and is emptied exactly. |
| `adjustments` | `MCAdjustments` | Two adjustments, two products, two locations: the ledger follows each record; those never edited keep the pool exact. |
| `shipments` | `MCShipments` | One shipment of two lines through its whole life, over-receipts, undos and a late receiving request included, of one product: stock follows the records, status agrees with the ledger, value in transit is never overdrawn, a deleted shipment leaves nothing. The in-transit report, which never looks at the ledger, differs from it only by the lines it hides, in two named cases. |
| `processes` | `MCProcesses` | Three requests for two products in opposite orders: `StockRequests` implements `SerialStock` (refinement mapping `outcome`), what a transaction computed is current up to its commit, no two wait for each other's rows, and who waits for the lock is answered. Or two export jobs, two workers, two faults, builds and writes failing at will: rows and files agree, an ended job stays ended unless delivered twice, an accepted job ends unless struck. |
| `web_tier` | `MCWebTier` | One token, three arrivals, clocks apart by up to its age, requests resting up to four ages as deployed: of those that did not rest for two ages between age check and cache, at most one gets past its nonce; sessions and rejections have their audit rows wherever a request dies. Or three requests on two keys: files and rows part only where a request stopped between them; each audit row tells the change its request made, with the value it replaced, unless the record was written after the request had loaded it; then only the before-image is wrong, and is one that another request replaced. |
| `purchases_gst` | `MCPurchases`, `MCPurchasesGst` | violation of `GstNeverOverReversed`: see section 5 |
| `shipments_stale` | `MCShipments`, `MCShipmentsStale` | violation of `StockFollowsRecords`: a receipt posts the product its line named before the lock |
| `audited_records_crash` | `MCWebTier`, `MCWebTierCrash` | violation of `WritesAreLogged`: a change without its audit row |

Two MC modules hold two components each that share no state: in every behaviour of
`MCProcesses` either stock requests or export jobs act, in every one of `MCWebTier` either
handoffs or generic writes. Their products would show nothing more.

Every property of a passing run has a mutant, a plausible mistake in one definition,
written beside that definition and used by no run; with it in place TLC finds the
property violated. The type invariants of `Adjustments`, `StockRequests`, `ExportJobs`,
`Handoff` and `AuditedRecords` are in no cfg: they are proved (section 4).

### Bounds, and why they are enough

| Bound | Where | Why |
|---|---|---|
| `MaxRows` 5-13 | stock modules | ends the behaviours. A create-collect-refund-correct-undo chain of one line takes 7-13 rows; each cfg's bound lets the longest chain its mutants need happen. |
| `MaxPurchases`, `MaxSales`, `MaxAdjustments`, `MaxShipments` 1-2 | all | records meet only in the pooled balance; two are enough to share one. |
| `MaxLines`, `MaxPayload` 1-2 | all | lines of a request interact through running accounts; two make an order. |
| `MaxCollections` 2, `MaxRefunds` 1, `MaxReceipts` 2 | | two partial steps and the undo of the first or of the second. |
| `Quantities` {1}, {1,2}, {1,3}, {1,2,3} | | with values of 5 and 10 cents, shares that do not divide; 3 makes a remainder that is split twice. |
| `Prices` {5}, {5,17} | purchases | one uneven price, and two for a correction of it, further apart than the cents rounding may cost, or for an average that is neither. The lines corrected in `purchases_pooled` have one unit; corrections of a line of three, of which one is received, cancelled or refunded, pass with `Quantities = {1, 3}`, `Prices = {5, 7}`, `Confirms = {FALSE}`, one purchase of one line and `MaxRows = 11`. Two live collections under a correction would need 15 rows, beyond the time of a run. |
| `Confirms`, `CallerConfirms` | all | `{FALSE}` where a property speaks of stock that is not oversold; both or `TRUE` elsewhere. |
| `TwoProducts` | shipments | `FALSE` in `MCShipments.cfg`, for quantities of 2; `TRUE`, with quantities of 1, in `MCShipmentsStale.cfg`, where lines change their product. `StockFollowsFreshLoads` passes with the constants of the latter too, and is proved for any number of products. |
| `MaxInFlight` 1 | shipments | one stale request; a second would be stale in the same way. |
| 3 requests, 3 orders | stock requests | one holds the lock, one waits for it, one comes later; orders name two products both ways round and one twice; stock covers some of them, so all ends occur. |
| `MaxFaults` 2, 2 jobs, 2 workers | export jobs | a job run by both workers while the other waits, and one of the runs dying. |
| `MaxAge` 1, `Skews` -1..1, `MaxStall` 4, `MaxTime` 6 | handoff | the extreme skews; the longest rest gunicorn allows, four ages (`--timeout 120` against 30 s); time enough for a nonce to expire. |
| 3 requests, 2 keys | audited records | two requests on one record and a third that sees the result. |
| `Prices` {996}, `GstRate` 10 | GST | the smallest kind of price whose GST per unit rounds up and per two units down. |
| `GstRate` 50 | `MCPurchasesEdits` | with prices of a few cents, the rate at which one unit and three have different GST that is not zero; the code takes any rate. |
| symmetry | `MCSales`, `MCWebTier` | requests, arrivals, keys, fields, and both products of `MCSales`, are treated alike, no property names one, and these runs check no liveness. In the other MC modules `p1` is named, so none is used. |

**Fairness and liveness.** Services, the handoff and the generic writes have no obligation
to run: every action is a user's choice, so those specifications state no fairness and
their runs no liveness property. Two modules do:

- `StockRequests`: `WF(Step(r))` for each request. A process that is not killed executes its
  next statement; nobody is obliged to send a request or to be killed. PostgreSQL grants the
  lock in the order it was asked for, so weak fairness is enough, and `EveryRequestEnds`
  (a waiting request is committed, refused or lost) does not rest on `Die` happening.
- `ExportJobs`: `WF(Enqueue(j))`, `WF(Run(w))`, and `WF(\E w : Take(w, j))`, a free worker
  takes a waiting message. No fairness on faults: `AcceptedEnds` excepts the jobs a fault
  struck, because nothing in the code looks for them (no `acks_late`, no time limit, no
  periodic task). Rendering either succeeds or fails, and both end the job.

## 4. What is proved

Each theorem holds for every value of the constants that the named assumptions of its
module allow; what the configurations bound (`MaxRows`, `MaxSales`, `MaxFaults`,
`MaxTime`, ...) is an arbitrary constant here. A hypothesis beyond the specification is in
the statement, and in the last column.

| Theorem | Property | Beyond the specification |
|---|---|---|
| `StockLedgerProofs!TypeCorrect` | `LedgerTypeOK` | |
| `StockLedgerProofs!BalancesNeverDrift` | `NoDrift`: balances equal the rollup of the ledger | |
| `StockLedgerProofs!PhysicalStaysNonNegative` | `PhysicalNeverNegative` | |
| `StockLedgerProofs!UndoClears` | `UndoLeavesNothing`: an undo leaves no units and no value in any group, a second one posts nothing | |
| `StockLedgerProofs!UndoNeedsNoDetour` | `UndoHasNoTransientShortage`: an undo is refused only if a balance would end below zero | |
| `StockLedgerProofs!ReportsAgree` | `ReportsAccountForStock`: what the stock reports leave out adds up to nothing | |
| `StockLedgerProofs!ShareWithin`, `GstWithin`, `CarryingShareWithin` | a share lies between nothing and the remainder, the last units take all; the tax in a price lies within it; the same for a share of a pool | |
| `PurchasesProofs!PurchasesTyped` | `TypeOK` | |
| `PurchasesProofs!PendingFollowsRecords` | `PendingMatchesLedger` | |
| `PurchasesProofs!HeldFollowsRecords` | `HeldMatchesRecords` | |
| `PurchasesProofs!UndoneIsGone` | `UndoneContributesNothing` | |
| `PurchasesProofs!SupersededIsGone` | `NothingOnSupersededProduct` | |
| `PurchasesProofs!PurchasesAmongOthers` | these five | other apps post anything of their own, drafts open and close |
| `PurchasesProofs!EditsKeepReceived` | `EditKeepsReceivedStock`, an action property | |
| `PurchasesProofs!PendingLeavesNoResidue` | `NoPendingResidue` | no request names a line twice |
| `PurchasesProofs!DeletedIsEmpty` | `DeletedHoldsNothing` | no request names a line twice |
| `PurchasesProofs!PendingAndRefundsReported` | `PendingReportAgrees`, `RefundReportAgrees` | also among other apps |
| `PurchasesProofs!PurchasesReported` | `PurchaseReportsAgree`, in every state in which no line has more refunded than it counts | the GST rate is not negative |
| `AdjustmentsProofs!AdjustmentsTyped` | `TypeOK` | |
| `AdjustmentsProofs!FollowsAmongOthers`, `LedgerFollowsRecords` | `AdjustmentFollowsRecord` | other apps post anything of their own (first of the two) |
| `AdjustmentsProofs!EntriesKeepPools` | `EntriesKeepPoolExact` | other apps keep exact pools exact; no shortage is confirmed |
| `SalesProofs!SalesTyped` | `TypeOK` | no line named twice |
| `SalesProofs!SoldAmongOthers`, `LedgerFollowsSales` | `SoldMatchesRecords` | no line named twice; other apps post anything of their own (first of the two) |
| `SalesProofs!SalesKeepPools` | `SalesKeepPoolExact` | no line named twice, no shortage confirmed; other apps keep exact pools exact |
| `ShipmentsProofs!ShipmentsTyped` | `TypeOK` | |
| `ShipmentsProofs!DeletedHoldNothing` | `DeletedShipmentHoldsNothing` | other apps post anything of their own |
| `ShipmentsProofs!SentStaysAsSent` | `RecordsGrow`, an action property: a shipment that was sent keeps its route and lines, a receipt what it says, a deleted record stays deleted | other apps post anything of their own |
| `ShipmentsProofs!StockIsWhereRecordsSay` | `StockFollowsFreshLoads`: `StockFollowsRecords`, as long as a waiting receipt has the products its lines have now (`LoadsFresh`) | other apps post anything of their own |
| `ShipmentsProofs!StatusAgreesWithLedger` | `StatusTellsTransit` | `[]LoadsFresh`; other apps post anything of their own |
| `ShipmentsProofs!OneProductIsEnough` | `StockFollowsRecords`, `StatusTellsTransit` | there is one product, as in the run `shipments`; other apps post anything of their own |
| `ShipmentsProofs!NoLineDeliversTooMuch` | `TransitValueCovered` | no receipt names a line twice; other apps post anything of their own |
| `ShipmentsProofs!ShippingCoversPools` | `ShipmentsKeepPoolValue` | no receipt is undone and no sent shipment deleted; other apps take no more value than there is |
| `StockRequestsProofs!RequestsTyped` | `TypeOK` | |
| `StockRequestsProofs!LockOrderProtects` | `LockProtects`: what a request priced from is still so when it posts; no circle of waiting | |
| `StockRequestsProofs!RequestsActSerially` | `ActsSerially`: the refinement of `SerialStock` | |
| `WebTierProofs!ExportsTyped` | `TypeOK`, the storage finite | |
| `WebTierProofs!StorageAndJobsAgree` | `FilesMatchJobs` | |
| `WebTierProofs!EndedJobsStay` | `EndedStays`, an action property | |
| `WebTierProofs!HandoffTyped` | `HandoffTypeOK` | |
| `WebTierProofs!OneArrivalPerToken` | `TokenOpensOnce`: the premise about resting is in the property | |
| `WebTierProofs!EveryArrivalIsTraced` | `ArrivalsAreTraced` | |
| `WebTierProofs!RecordsTyped` | `RecordsTypeOK`, and where a request can be | |
| `WebTierProofs!FilesAreAccountedFor` | `FilesFollowRows` | |
| `WebTierProofs!TrailIsTheChanges` | `TrailTellsChanges` | |

**The posting service.** `NoDrift` is not inductive: a step that posts a batch adds the batch to
each balance, and to conclude that it is still the rollup one needs both that rows and
balances have their types (so that the sums are integers) and that a rollup distributes
over concatenation. The invariant is `Sound(Book)`: the ledger is a sequence of typed
rows and every balance is the rollup of its key. `StepShape` reduces every action to
"posts some valid batch" or "changes nothing"; `PostedSound` shows that posting
preserves `Sound`, by `RollupConcat`, which rests on `SumSeqConcat`. For the third
theorem, `StaysCovered` (what the code checks: every outgoing movement, against the
balance rolled forward so far) is carried through the prefixes of a batch
(`CoveredPrefixes`): a balance that was not negative and is not negative after any
outgoing movement of the batch is not negative at its end.

**Undo.** Both undo theorems are about `net_reversal_movements` applied to the rows of any
record in a sound book, and need no invariant beyond `Sound`. Groups are the classes of
rows with one line and one balance key (`GroupsAgree`). A reversal has the key of its
group and minus its net, and is posted for the first row of the group only
(`EarliestPosition`), so rows and reversals together net to nothing in each group
(`NetReversalClears`). Reversals that bring stock come before those that take it
(`NetReversalParts`); once only those that take are left, a balance can only sink, so if it
ends covered it was covered all along (`CreditsFirstCover`).

**Reports of stock.** `ReportsAgree` needs no invariant but `Sound` either, and speaks of sums over
sets of products and locations. The sum of the library is the solution of a recursion equation over the
subsets of a finite set; `SetSumsExist` shows that it has one, `SumAnyFirst` that the element
taken first does not matter, and `SumUnion`, `SumLessZeros` and `SumPlus` are what the reports rest on.
Units, and worth over the three buckets, are `Additive` over disjoint sets of balances, so a report may
leave out what adds up to nothing (`AdditiveLess`) and may count product by product
(`AdditiveByProduct`). `CardIsNet` says that a dashboard card is the sum of the ledger's rows of that
bucket; with the ledger cut in two, that gives the report of a period (`NetSince`).

**Purchases.** Most properties speak of what a line holds in total, which is not inductive:
an undo takes back what *one* collection or refund posted, whatever corrections did to it
since. The rows of a line are therefore told apart by the business record they were posted
for, its entry, each collection, each refund (`Of`), and the invariant says what each of them
contributes *now*: `Traced` gives its units out of PENDING and into PHYSICAL, location by
location, and demands that where it has no units it leaves nothing, however one looks at its
rows. `LiveLine` asks this for every record with a live line, `DeadLine` says what a deleted
line may hold; `LineGood` adds that nothing is on another product than the one the line
names, and that PENDING is clean. `Inv` is `Sound(Book)`, that tables and rows belong
together, and `LineGood` for every line. What a line holds is the sum over its records
(`RowsByRecord`, `LineTotals`).

A service that undoes adds the reversals of one record, which clear it (`TakesBack`). A
correction posts many times: it reverses the line record by record and posts its collections
again, one by one. Both loops are followed step by step (`LessAll`, `AllRestored`): the
records already passed are empty, respectively as they were, and the others untouched, so
stock comes back to the locations it lay at. An edit is two loops more that post aside, at
the end, what entries and removals need; `Under` is the invariant of an edit under way: what
tables and rows would be *were it saved now*. `EditsKeepReceived` is then a comparison of the
two ends: both hold what the same collections and refunds say. Values are followed only as
far as the properties need them. A share of PENDING never takes more than is there and the
last units take all (`ShareWithin`), which an item can rely on only if no other item of the
request takes from the same line: the hypothesis `~RepeatedLines` of the last two theorems.
The others hold without.

**Reports of purchases.** The pending report chooses lines; the balance adds up rows. Only
purchases post in PENDING, at the location of the purchase (`RowFits`), so the balance is the
sum over *all* lines of what each has of that product at that place (`UnitsByLine`,
`PendingWhere`), and the lines the report leaves out have no units: deleted ones (`DeadLine`)
and those with nothing pending (`PendingReported`). Refunds are added up record by record in
one report and line by line in the others; `WorthByLine` exchanges the order for any value of a
refund line, units or GST. What remains is that a refund that counts names no deleted line,
`LiveRefundsLive`, which is inductive together with `Inv`: an edit refuses to remove a line of
which something is refunded, and deleting a purchase deletes its refunds. For GST, a line the
GST report leaves out has no GST, hence nor has a refund of a part of it (`GstLess`,
`NoGstReversed`); a refund of more than the line counts may have, which is the hypothesis
`RefundsWithinLines` and a finding of section 5.

**Adjustments.** `AdjustmentFollowsRecord` speaks of one product and location, but the
code reverses the sum of *everything* the adjustment has posted (`_net_posted`), at the
place of the old record, and takes the sign of the value from the quantity. The inductive
invariant `Inv` therefore adds, to `Sound(Book)` and the types: all an adjustment has in
PHYSICAL is at the place of its record; quantity and value have the same direction (from
the well-formedness `post_event` insists on); and an id not yet used has no rows. Given
these, `ReversalClears` shows that the reversal leaves neither units nor value, and
`FreshFollows` that the fresh movement restores the invariant. Sums over rows are taken
over *sets* of rows (`NetIn`), so that one set of lemmas (`NetInConcat`, `NetInSingle`,
`NetInNone`) serves every query of the code. `EntriesKeepPools` adds `EntryInv`: every
adjustment has a row, and pools are exact (worth nothing less than zero, and nothing at
zero units) while none has a second one. An edit writes a second row and thereby leaves
the premise of the property for good (`RowsGrow`).

**Sales.** `Inv` has the same parts per sale line, and one more: the rows of a line under
another product than its record names sum to nothing, because `_line_net_posted` looks at
one product only. An edit, though, is two loops over a running state that post once at
their end, so the invariant of states is carried through them by a loop invariant,
`EditInv(edit, open)`: *were the edit to post now*, the ledger would follow its lines,
and of the lines in `open`, not yet touched, it holds what it held before. The loops
are recursive functions of the model (`EditsInTurn`, `RemovalsInTurn`), and each is
followed by induction on the items (`EditsKeep`, `RemovalsKeep`). The hypothesis
`~RepeatedLines` enters exactly where an item takes its line out of `open`; section 5
shows a run where it fails without. For the pools, `PoolsFollow` says that the pools the
code keeps while it prices the items are what the balances will be, and `StaysExact` that the
rows so far, if no shortage stops them, leave every pool worth no less than nothing and an
empty one worth nothing. The removals of an edit do not keep `PoolsFollow`: their value
reaches the pool after the fresh rows were priced. They keep `StaysExact`, because units
come with it and a pool that is not oversold cannot then be empty (`PutBackExact`). Where
a shortage is confirmed it can, which is the finding of section 5 and why the theorem
assumes that none is.

**Shipments.** That a deleted shipment holds nothing is a claim about rows: the deletion
reverses every row of the shipment's lines, grouped as the code groups them, and after it
no such row may come. `Inv` is `Sound(Book)`, the types (`RecordsFit`), how records belong
together (`RecordsAgree`: a receipt is of a shipment that was sent and of its lines, and what
is deleted has nothing live below it), and how rows belong to records (`RowsFit`). The
reversal cancels any set of rows that does not tell rows of one group apart (`Blind`,
`ReversalFacts`), and the rows at one place of one line are such a set
(`DeadHoldNothing`). A receipt may wait with lines it loaded long ago, while the shipment
is edited, sent, cancelled or deleted. What makes it harmless is an *action* property,
`RecordsGrow`: whatever is sent stays as it was sent and what is deleted stays so. The
movements of `ship_shipment`, `receive_shipment` and `_unreceived_movements` are lists of
pairs, out here and in there, of one line each; `Transfers` is what they have in common.

Where the stock of a line *is* needs more than `Inv`. `Placed` has three parts. `RowsPlaced`:
every row of a line lies in one of its three places (`Gone`, `Going`, `Here`), and no receipt
touches the source. `ReceiptsFollow`: a live receipt has moved just what it says, line by
line; without it an undone receipt could take back anything. `LinesFollow`: a line that was
sent holds at the destination what its live receipts say and, unless it was cancelled, the
rest on its way. Cancelling and undoing only read the ledger, so their effect is known through
these; shipping finds a line without a row (`NothingSent`). A receipt takes its product from
the line it loaded before the lock, so `RowsPlaced` survives it only if that is still the
product of the line: the hypothesis `LoadsFresh`, without which `shipments_stale` shows the property
violated. Where there is one product it follows from the types. The status then is arithmetic:
`received_qty` is what the receipts say (`ReceivedIsGot`), and what is in transit is the rest
(`RestOnTheWay`).

Value has no such simple account: how much a receipt takes depends on what was on the way
when it came. `Carried` says that no line ever has less than nothing on its way, which is
the property, and that no receipt brings value *onto* the way, without which undoing one
could take away what others left. Each item takes a share of what is there, which is no more
than all of it (`CarryingShareWithin`); two items that name one line would each take theirs
from the same remainder, hence the hypothesis `~RepeatedLines`, which reaches the receipts
that wait through `LoadsNameOnce`.

What a *pool* is worth needs no account of lines. Shipping prices each item at its share of
what the items before it left (`PoolsInTurn`), so all of them together take no more than the
pool has, and leave nothing missing where it has units (`DrawnWithin`); what a receipt brings
and what a cancellation brings back is worth no less than nothing (`ArrivingCovers`,
`CancellingCovers`); deleting a draft finds no rows. Undoing a receipt is different: it takes
out the value that came in, although the destination may have passed stock on at a dearer
average since. The hypothesis `NothingTakenBack` excludes that (`UndoTakesBack`) and the same
effect of deleting a sent shipment; section 5 names the instance that needs it.

Purchases, sales, adjustments and shipments are proved *among other apps*: `OthersPost` allows any valid batch of
rows of other sources (the `Deliver` of the runs is an instance; around purchases none of them in PENDING), and `OthersKeep` those
that leave exact pools exact, as deliveries do. That is as weak as the claim permits: an app
that strands value in a pool makes the claim false whatever sales do.

**Requests.** Both theorems rest on `RequestInv`. Its heart is `LockInv`, whoever reads,
posts or owns a balance row holds the advisory lock, and `BatchInv`, the id and movements
of the posting request are what it would compute *now*, and what it posted so far was
covered. Hence nobody's stock changes between `Compute` and `Commit`, and a
request that waits for a row would have to wait for itself. For the refinement,
`SerialStep` shows that every step is a step of `SerialStock` or leaves its variables alone:
`Arrive` is `Ask`, `Commit` is `Serve` (`CommitServes`), `Refuse` is `Refuse`
(`RefuseRefuses`: the movement that was not covered shows that the whole batch is not),
`Die` is `Lose`, all else is hidden (`InnerStepsHidden`). Liveness of the refinement is not
part of `ActsSerially`.

**Export jobs.** `FilesMatchJobs` follows from `JobInv`. `RowsNameTheirFiles`: a row, or the
copy a worker holds of it, names only a whole file of its own job. `RunOnce`: a job whose
message was never delivered twice is in one pair of hands, the request's, the broker's
or one worker's, and its row tells how far it is. `NoLitter`: a file no row names belongs to a
struck or redelivered job, or to a run under way. `EndedJobsStay` needs `RunOnce` only: a job
that ended is in nobody's hands.

**Handoff.** That a token opens one session is a fact about *when* things happened. A request
that passed the age check looked at a token in its window (`AgedInWindow`); a burned nonce is
remembered for three ages after the token was dated, as long as the request that burned it
looked at an age inside the window (`NonceOutlivesToken`). A second request looked at a token at
most one age old; if it comes to the cache less than two ages later, it finds the nonce. That
is 60 s with the settings of the repository, while gunicorn kills a request after 120: a
request that rests longer is in `rested`, and `TokenOpensOnce` excepts it. `TraceInv` ties
each station of a request to the audit row written on the way to it.

**Audited records.** `FileInv` says which upload a row, a fresh file and a removal under way
belong to, so that no two requests can be about one file unknown to each other. `TrailInv`
compares what a request holds with what is there: until somebody writes the record, the copy
of a request is the row (`CopyOf`), so its before-image is what its own write replaces
(`BeforeTheWrite`); once somebody did, that request's change replaced the value the copy
shows (`ReplacedByAnother`), and no later step takes that back (`ReplacedStays`).

**Assumptions.** All are `ASSUME`s that TLC evaluates in the runs:

| Assumption | The code |
|---|---|
| `QuantitiesAssumption`, `SaleTermsAssumption`, `OrdersAssumption`: quantities are positive, an order has lines | `_validate`, `_validate_lines`, `receive_shipment`, the serializers |
| `MoneyAssumption`: prices and exchange rates are not negative, the scale of the rates is positive | `purchases/serializers.py:101`; a negative rate is not refused by a serializer but by the first movement, whose value must not be negative (`inventory/services.py:84`) |
| `ConfirmsAssumption` | a Boolean field |
| `FiniteAssumption`: finitely many products and locations | rows of two tables |
| `OpeningAssumption`: the shop was stocked by some rows | otherwise no sale is ever accepted |
| `TimeAssumption`: whole seconds | `handoff.py` |
| `FaultsAssumption` | a bound is a number |
| `NoOneAssumption`, `NoFileAssumption`, `NoTokenAssumption`, `NoneAssumption` | the value that stands for "none" (NULL, an empty field) is no value of the field |

Recursive functions (`SumSeq`, `Kept`, `PoolsInTurn`, `EditsInTurn`, `RemovalsInTurn`,
`ReversedInTurn`, `ItemsReplayed`, `ReplayedInTurn`) need
induction on their length, and so does the library's `FlattenSeq`, of which only its equation
is used. The library's induction rules take an operator as parameter,
which the installed backends cannot instantiate; `StockLedgerProofs!NatSetInduction`
states the rule for *sets* of naturals, and each lemma instantiates it with a set
comprehension: that the function exists, its equation, its type, and what it computes.

**Only model-checked**, because no proof was attempted or none was found:

- `ValueFollowsTotal` of purchases: a bound on what repeated rounding leaves, cent by cent
  and move by move. It needs the *number* of moves of a line in the invariant, next to sums
  of products of integers.
- `EligibleCorrectionPosts`: that none of a chain of posts, computed from a hypothetical
  book, is refused. `Inv` says what rows say, but here each balance between two posts counts.
- `InTransitReportMatchesLedger`: sums over the rows of reports, compared with sums over
  records and over the ledger.

**Out of the prover's reach**: liveness (`EveryRequestEnds`, `AcceptedEnds`) and ENABLED.
`RECURSIVE` operators would be too; no module here declares one.

## 5. Findings

Three runs are violation runs: TLC's trace shows the code doing it.

`purchases_gst`: a purchase line records its GST rounded once, for the whole line; a refund
rounds it for each refund line
(`purchases/services.py:697`). Two units at 9.96 with 10% inside record 1.81, and refunding
them one by one reverses 0.91 twice. `src/PROJECT_CONTEXT.md:349-351` says that the common
`gst_component()` means "a refund can never return more GST than the purchase recorded".
The GST report then shows -0.01 net GST for a fully refunded line.

`shipments_stale`: a receiving request loads the line of a draft; the draft is
edited to another product and shipped; the receipt then moves the product the line *used
to* name (`shipments/services.py:304`). `src/docs/architecture/TECHNICAL_ARCHITECTURE.md:190-193`
says that services "refresh supplied records" after they took the lock. In `shipments`, with
one product, the same stale load lets a removed line be received, one of the two cases in
`InTransitReportMatchesLedger`; with two products that report is wrong too.

`audited_records_crash`: the generic viewsets commit the change and then the audit row
(`core/viewsets.py:24`), in two transactions; a process that dies in between leaves the change
without one, while `TECHNICAL_ARCHITECTURE.md:220` (also 79, 317) says "in-transaction".

Seen with the same models, without a run of their own. Each is reproduced by changing the
constants of a run, and where one is named, adding an invariant:

- **A token that opens two sessions.** A token whose date is ahead passes the age check
  twice. One request burns the nonce; the other rests between the check
  (`accounts/handoff.py:109`) and the cache (114) until the nonce has expired, and opens a
  second session. With the 30 s of the settings and gunicorn's `--timeout 120`
  (`src/deployment/docker-compose.ec2.yml:47`) 60 s are enough. `handoff.py:13` says "Tokens
  are single-use". `MCWebTier` with the invariant `TokensAreSingleUse`; `TokenOpensOnce` is
  what holds.
- **An audit row with a before-image that never was.** The before-image is what the request
  loaded (`core/viewsets.py:33`), not what its write replaced: two PATCHes that loaded one
  row both log the same one, and a second deletion logs a deletion of nothing.
  `TECHNICAL_ARCHITECTURE.md:317` says "Captures business intent and before/after reliably".
  `MCWebTier` with the invariant `LoggedBeforeIsReplaced`. `TrailTellsChanges` shows that
  this and the missing rows of `audited_records_crash` are the only ways in which the trail
  is wrong.
- **A refund larger than the purchase.** A refund that names one received line twice is
  checked item by item against the ledger before the request (`purchases/services.py:728`);
  with stock of another purchase in the pool it refunds more than was bought, against
  `src/docs/requirements/SYSTEM_SPEC.md:342`. `MCPurchasesPooled` with
  the invariant that `RefundedQty(l)` never exceeds `lines[l].quantity`.
- **An edit that removes a line of a sale.** The value of the removal reaches the pool after
  the fresh rows were priced (`sales/services.py:247`), so value is left on zero units,
  against the docstring of `CarryingPool`. `MCSales` with `Confirms = {TRUE}`,
  `TwoProducts = FALSE`, `Quantities = {1, 2, 3}`, one sale and one delivery, without
  symmetry: `SalesKeepPoolExact` is violated.
- **An edited decrease** is priced before its own reversal (`inventory/adjustments.py:157`),
  so emptying the pool can strand value, against the docstring of `_carrying_share`.
  `MCAdjustments` with `Wide = FALSE` and the invariant that a PHYSICAL balance of zero units
  is worth nothing.
- **Receive in part, over-receive, undo the first receipt**: its value stays in transit at
  zero units (`shipments/services.py:375`), against the docstring of `_transit_share`.
  `MCShipments` with the invariant that an IN_TRANSIT balance of zero units is worth nothing.
- **A receipt undone after the destination shipped on** takes out the value it brought, at
  the average of its own day (`shipments/services.py:368`), so the destination can be left
  with units worth less than nothing. `MCShipments` with `MaxShipments = 2`,
  `MaxPayload = 1` and `MaxInFlight = 0` violates `ShipmentsKeepPoolValue` in five steps. No document promises
  otherwise; `ShippingCoversPools` proves there is no other way but deleting such a shipment.
- With `RepeatedLines = TRUE`, one request that names a line twice or thrice makes a sale
  edit reverse the same state twice (`SoldMatchesRecords`), a receipt deliver two shares of
  one remainder, and a collection of three thirds leave a cent in PENDING at zero units:
  items of a request do not see one another.
- **An overdraft survives deletion.** Two purchases, a received refund of the first, then the
  undo of its collection (covered by the second's stock), then its deletion: the line keeps a
  negative PHYSICAL remainder, which `soft_delete_purchase` skips. `DeletedHoldsNothing`
  excepts exactly this, a line whose received stock was once returned; `MCPurchasesPooled`
  with the invariant that a deleted line holds nothing at all shows it.
- A receipt of a *cancelled* shipment can be undone: its stock goes back in transit, where
  it can neither be received nor cancelled, and no report but the dashboard's sum shows it;
  deleting the shipment still clears it.
- **A quantity reduced below what was refunded.** Collect three, refund them as received,
  undo the collection (with confirmation: the line is overdrawn), then set the quantity to
  one. `_reprice_line` (`purchases/services.py:422-433`) compares the new quantity with what
  is collected and cancelled, not with what was refunded, and freezes the GST again; the
  refund keeps its reversal. When the line's new GST rounds to nothing, the GST report
  leaves the line out (`builders.py:601`) while the dashboard still takes the reversal
  (`dashboard.py:35-49`). `MCPurchasesEdits` with `Confirms = {TRUE}`, `GstRate = 10`,
  `RateScale = 1`, `MaxRows = 8`, one line: violates `PurchaseReportsAgree` in four steps.
  `PurchasesReported` proves that only a line with more refunded than it counts does this.
- **Reports disagree about empty rows.** "Worth by Bucket" leaves out a location whose
  quantities and values cancel over the buckets; the company stock report leaves out value
  stranded on a product without units; the Australian report leaves out over-received lines
  that the in-transit report counts. `ReportsAccountForStock` and
  `InTransitReportMatchesLedger` say that these are the only differences.
- **Two PATCHes of one record**: each saves every field of the copy it loaded, so the second
  takes back what the first changed, and it inserts the row again if somebody deleted it in
  between. The record is then not what either user saw.
- **A struck export job** stays PENDING or RUNNING for ever, and a job delivered twice can
  lose the name of its first file, which stays in the storage, as does what a failed write left.

## 6. Plan

Every module of the plan is written, and of every stock app it is proved that the ledger
follows its records. What is left, each with what it needs:

1. `InTransitReportMatchesLedger`: from `Placed` of shipments, with the sums over sets that
   `ReportsAgree` and `PurchasesReported` rest on.
2. `ValueFollowsTotal`: `Traced` with the value of each record, and the moves of a line counted.
3. `EligibleCorrectionPosts`: `LessAll` and `AllRestored` followed balance by balance.

## 7. Not modelled

- The sales, adjustment, activity and upload reports (plain lists of live records), the
  purchase report (the list the pending report chooses from), filters, rendering of files,
  and the figures of the dashboard that are counts of today's sales. The GST card at a past
  cutoff adds up today's frozen values of the lines that existed then; lines edited since
  are not shown as they were. There is no history of lines to model it against.
- Which exchange and GST rate is in force at a date, unique names and the validation of
  master data: pure lookups whose result the stock modules take as a constant.
- Password login, user management and the role matrix: one-row writes and pure checks.
- Seed data; configuration, deployment and backup scripts; the frontend, which keeps no
  state that outlives a page and whose possible requests are the inputs of the actions.
- All stock apps in one instance. They meet in `post_event` and the pooled balances only;
  each MC module adds the acts of the others that its properties depend on, and a
  composition with two records of each app is beyond five minutes of TLC.
