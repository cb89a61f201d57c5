# A TLA+ model of undr-api

undr-api (NestJS, TypeORM, PostgreSQL) lets fans pay creators: wallets are filled by card or
crypto deposits, money moves directly or through an *escrow* agreement that a buyer funds and
that pays the seller on delivery, disagreements about an escrow become *disputes*, and
administrators settle what the parties cannot. People sign in by following a link they are
mailed, and are told what happens through notifications and a websocket. This directory holds
TLA+ modules of the escrow, dispute, administration, notification, sign-in, deposit, payment
and risk parts, of the migrations and the deployment, and of the encrypted columns with the
scripts that touch them; the TLC configurations that check them, and theorems about them that
TLAPS checks. Source paths below are relative to the repository; line numbers refer to the
commit the modules were written from. `dist/` is an old build and was not read.

## 1. Inventory

| Component | State it keeps | Operations | Interacts with | What is hard |
|---|---|---|---|---|
| **Escrow service** `modules/security/escrow.service.ts`, `security.controller.ts:215-356` | `escrows`, `escrow_milestones`, `delivery_proofs`, `payments`, `wallets` | createEscrow 83, fundEscrow 263, submitDeliveryProof 385, reviewDeliveryProof 449, updateMilestone 623, completeEscrow 802, cancelEscrow 915 | risk assessment (only read), notifications and log (errors caught) | balances read, changed in memory and saved; four ways to complete; one caller without a transaction; a save that cascades to the milestones |
| **Escrow release job** `tasks/escrow-scheduler.service.ts` | the list of the run in memory | processScheduledReleases 1118-1184, every four hours | escrow service | list read before the loop; an undefined query condition |
| **Dispute service** `modules/dispute/dispute.service.ts` and controllers | `disputes`, evidence, messages; `escrows.status` | createDispute 85, submitEvidence 166, sendMessage 243, proposeResolution 280, acceptResolution 372, resolveDisputeByAdmin 433 | sets the escrow to DISPUTED; notifications | statuses of two tables; checked when loaded, saved later; both jobs running meanwhile |
| **Dispute deadline job** `dispute-scheduler.service.ts` | loaded dispute rows | processExpiredEvidenceDeadlines 714-748, every midnight; handleStaleDisputes only logs | dispute service | rows saved as loaded; one error ends the loop |
| **Admin desk** `modules/admin/admin.service.ts` | none of its own | releaseEscrow 741, refundEscrow 794, resolveDispute 933; user management 146-243, chargeback buffer 1078-1223, analytics, logs | escrows, disputes, wallets | many saves, no transaction |
| **Notifications, gateway** `modules/notification/*` | `notifications`, `connectedClients`, rooms | create, bulk, read, read all, delete, connect, disconnect, preferences | every service | counts computed and pushed by overlapping handlers; rows saved after they were deleted |
| **Deposits and webhooks** `modules/fans/fans.service.ts:40-178`, `payments/*` | `deposits`, `wallets` | deposit, completeDeposit, Stripe and crypto webhooks | Stripe, crypto gateway | repeated and late events, errors answered as success, check-then-act; the sum of two decimal strings is refused by the database |
| **Fan payments** `fans.service.ts:180-405` | `payments`, `wallets` | payCreator, payByAlias | aliases | balances read, checked and saved later; `+=` appends digits to the recipient's balance |
| **Withdrawals** `withdrawals.service.ts:31-106` | `withdrawals`, `wallets` | createWithdrawal | | the request's class has no decorators, so the validation pipe strips every field and the controller refuses; nothing completes a withdrawal |
| **Magic links, auth** `modules/auth/*` | `magic_links`, users, the controller's recent attempts | login, sendMagicLink, verifyToken, cleanup jobs | mail, JWT, wallets (cascade) | single use under READ COMMITTED; users looked up by an encrypted column; whole rows saved as loaded |
| **Aliases** `common/services/alias.service.ts` | `users.alias` | generate, set | auth, payments | uniqueness checked before the save; whole-row saves |
| **Risk assessment, 3-D Secure** `security/risk-assessment.service.ts`, `three-ds.service.ts` | `risk_assessments`, two columns of `payments` | assessTransactionRisk 49, reviewRiskAssessment 173, getPendingReviews 197 | payments read | two saves without a transaction; a save that updates only what differs |
| **Migrations and deployment** `src/migrations/*`, `railway-entry.js`, `scripts/run-migrations.js`, `manual-schema-creation.js`, `fix-wallet-schema.js`, `app.module.ts`, `main.ts` | the catalogue, TypeORM's journal | migrate, force, fall back, fix, boot, revert | each other, in sequence | every script may fail and the next one runs; a branch outside transactions; the order of timestamps |
| **Encrypted columns** `common/transformers/*`, `encryption.service.ts`, `scripts/fix-encrypted-data.ts`, `setup-dev-accounts.js`, `src/insert-test-user.sql` | the encrypted columns of `users` | transform both ways, seed, save, repair | every handler that saves a user; migrations | values encrypted twice, or never; the script's own reading goes through the transformer |
| Creators, health, `dist/` | | reads and single-row updates | | |

What makes the first five correct: money is taken from the buyer before it is paid out,
leaves the escrow once, and to one side; the payment row, the proofs and the milestones agree
with the escrow's status; a dispute takes its escrow away from whoever looks at it later; jobs make
progress past rows that changed since they were read; and an interrupted request leaves nothing
half done. Notifications are correct if no change of a user's unread rows goes unreported and
nothing that was read comes back; sign-in, if a link works once, leads to an account that has
its wallet, and changes nothing of that account but what it verifies. Deposits and payments are
correct if a deposit completes when and only when it was paid or reported paid, and a wallet loses its payments
and gains its deposits; assessments, if a payment's mark has one behind it; a deployment, if
the journal stays true and what it records can be reverted; encryption, if no text
is lost or left in the clear. The hazards, each with its line, are listed in `PROJECT.json`.

## 2. Modules and plan

| Module | Models | Rests on |
|---|---|---|
| `EscrowPromise` | abstract specification: per escrow, hold once, then pay or return once | |
| `Escrow` | escrow service and release job, each request atomic | implements `EscrowPromise` |
| `EscrowTx` | the same requests, and the dispute that stops them, as the SQL statements they execute under READ COMMITTED | implements `EscrowPromise` while only requests that are apart overlap |
| `Dispute` | dispute service and deadline job | composes with `Escrow` (EXTENDS); the two implement `EscrowPromise` |
| `AdminDesk` | releaseEscrow, refundEscrow, resolveDispute, one statement per step | composes with `Dispute` |
| `Notifications` | notification service and gateway, one await per step | |
| `SignIn` | login, magic links, aliases, status and flags: the handlers that save whole user rows | |
| `Payments` | deposits, both webhooks, payCreator and payByAlias, one await per step | |
| `Risk` | assessment, score and review, one statement per step | |
| `Schema` | the statements of both migrations and what PostgreSQL asks of them: pure operators | |
| `Deployment` | the deployment scripts, the start of the application and the operator's commands | `Schema` |
| `Encryption` | the encrypted columns and the scripts that write them | composes with `Deployment` |
| `EscrowProofs`, `EscrowTxProofs`, `NotificationProofs`, `SignInProofs`, `PaymentsProofs`, `RiskProofs` | theorems | the module of the same name |
| `EncryptionProofs` | theorems about `Schema`, `Deployment` and `Encryption` | all three |
| `DisputeProofs` | theorems about `Dispute` and `AdminDesk` | both, and `EscrowProofs` |
| `MCEscrow`, `MCEscrowTx`, `MCDispute`, `MCAdminDesk`, `MCNotifications`, `MCSignIn`, `MCPayments`, `MCRisk`, `MCDeployment` | instances for TLC | |

The order was: the core money flow (`Escrow`, `EscrowPromise`), its proofs, its interleavings
(`EscrowTx`), the components that interfere with it (`Dispute`, `AdminDesk`), the one they all
call (`Notifications`), the accounts (`SignIn`), the other ways money moves (`Payments`), what
judges payments (`Risk`), and what all of them stand on (`Schema`, `Deployment`, `Encryption`).
What could still be added:

1. The chargeback buffer and the payment halt of the admin module, next to `Payments`; roles.
2. Notification preferences and the mails they decide about.

## 3. How the model corresponds to the code

**`Escrow`.** `wallet[u]` is the balance column in cents, `status[e]` the `EscrowStatus`,
`payment[e]` the status of the row `paymentId` names, `milestone[m]` and `proof[p]` theirs;
`Absent` means no row. `Buyer`, `Seller`, `Total`, `MilestoneOf`, `ProofOf` are columns nobody
writes after creation, hence constants; nothing keeps buyer and seller of an escrow apart, so
the constants do not either. One action per method; a guard of the code that throws inside
`dataSource.transaction` disables the action, since the transaction undoes its writes.
`PayoutToSeller` is completeEscrow as its four callers use it. `updateMilestone` does not look at
the escrow's status and neither does the action; the completion it triggers does.
`releaseRun` is the job's list; `StartScheduledReleases` states what the query returns (see
`OnlyDueEscrowsReleased` below), `ProcessScheduledRelease` one turn of the loop with its
try/catch; `RestartServer` forgets the list.

**`EscrowTx`.** `db` maps rows to values; `writes[w]` are the rows an open transaction has
written and thereby locked; `todo[w]` is the rest of the request's program; `mem[w]` what it has
loaded. A statement reads committed rows and the transaction's own writes, an UPDATE waits for
the lock, `Commit` publishes, `GiveUp` is a throw or a lost connection. `manager.save` of an
escrow is two statements, the SELECT TypeORM makes to find the changed columns and the UPDATE
of those, because what happens between them matters. fundEscrow and completeEscrow load the escrow with its
milestones, and `cascade: true` (`escrow.entity.ts:110-113`) extends their save to these: the SELECT also compares
them (`CompareEscrow`), and each that somebody saved meanwhile is locked, last of all, and gets back the
status it was loaded with (`WriteMilestones`); a milestone's row is its status and who saved it last, which
stands for `updatedAt`. (The relation names the column `escrowId` as its inverse side; it is modelled as the
services use it, as a relation that loads and saves.) createDispute is `LoadToDispute` and `MarkDisputed`, an UPDATE of the one
column; what it inserts is in `Dispute`. `overtaken` is history: the requests that had loaded an escrow when a
dispute about it was committed. `POST /escrows/:id/complete` passes no manager
(`security.controller.ts:347`), so each of its writes commits at once. `settled` is a history
variable: the requests whose money has moved; so is `isolated`, which becomes false for good
when two requests overlap that have an escrow or a wallet in common (are not `Apart`) or one runs
without a transaction, and confines `KeepsPromise` and `AllMilestonesCompleteEscrow` to the behaviours in
which the code can keep them. Rows are functions:
`With` changes one, `Over` lays a transaction's writes over the committed rows. `EscrowTxAssumption`
asks, beyond the types of the terms, only that a buyer could pay for the escrows in `Funded`:
`Opening(u)`, what is left of his balance, is a natural number.

**`Dispute`.** `dispute[d]` is the status, `heard` the disputes with evidence or a proposal, `pastDeadline`
those past theirs. The three requests that write a dispute or an escrow's status run in a transaction, but load what they check
without a lock: each is a step that loads and checks, and one that saves. `creating` are the disputes about to be
inserted (`CreateDispute`, then `InsertDispute`), `resolving` the loaded ones about to be saved with a resolution
(`AcceptResolution` or `ResolveDisputeByAdmin`, then `SaveResolution`), `deadlineRun` the rows the job has loaded.
`SaveDispute` sets the status, whatever the row holds by now; `DisputeRequestsFail` is a throw or a restart in between. `overtaken`
is history: what was in flight for a dispute when it was resolved. The requests of `Escrow` stay atomic here; how createDispute
interleaves with them is the matter of `EscrowTx`. A dispute may be
opened on any existing escrow that is not completed, cancelled or disputed, as in the code, so
also on one that is not funded. `Caller[u]` is what the controllers pass as the user's id,
`req.user.userId`: the tests' request has that field, `JwtStrategy.validate` builds one without.
`MoneyPhase` is what `Phase` is for `Escrow`, read from the payment row where there is one, since a
disputed escrow's status no longer tells whether money is held.

**`AdminDesk`.** `desk[a]` is the request an administrator waits for: what is still to be written,
in order, and the balance read. Between two steps everybody else runs. `Transfers` are the
credits resolveDispute may write: of custom amounts (`Shares`) the sum is checked, not the signs,
and only a positive one is credited (`Credits`); in a split (`Halves`) each side gets half, and half
a cent is rounded either way. After the first credit the request ends, because the log row it
saves next lacks columns the entity requires.

**`Notifications`.** `row[n]` is the notification's row (`NEW` before its insertion), `connected` the
gateway's `connectedClients`, each in the room of its token's user. `handler[w]` is one request
between two awaits: the row it has loaded, then the users it has still to count and push for
(`left`). `save` of a loaded row first looks for the row: TypeORM inserts it anew if it is gone,
and its UPDATE hits nothing if it goes in between, hence the two outcomes of `SaveRead`.
`markAllAsRead` is one UPDATE, but not one moment: `MarkAllAsRead` takes the statement's snapshot (`seen`), `CommitReads`
marks what is left of it and pushes 0 without counting. `told`, `silent` and `missed` are history: the counts sent to a
socket since its user's unread rows last changed, the users a failed handler owed one, and those with a row
that `markAllAsRead` passed over and nobody has counted since.
The HTTP endpoint for the count is left out; it reads the same undefined `req.user.userId`.

**`SignIn`.** `user[u]`, `wallet[u]` and `link[u]` are the rows of one account. Every login creates an
account: the address column is encrypted under a fresh nonce (`encryption.service.ts:49`), so
`findOne({ where: { email } })` finds no row and the branch for existing users is never taken; for the
same reason an account has one link, and the deletion of earlier ones finds none. A link that
was deleted or has expired is `gone`. `handler[w]` is one request between two awaits with what it
has loaded; `verifyToken` is `LoadLink`, its SELECT without a lock, and `MarkUsed`, UPDATE and COMMIT.
`save` of a loaded user writes every column that differs from the row in the table and, through
the relation's cascade, the wallet's: `SaveUser` and `SaveAlias` put back the row as loaded, in one
step (an UPDATE between TypeORM's SELECT and its own is one that came before or after, column by
column). The unique index on `alias` is the guard `Free` of both. `recent` is
`verificationAttempts` restricted to the last two seconds; `Forget` is their end. `consumed`, `reused`
and `outlived` are history: links marked used, those marked a second time, and those with a
verification that took longer than its attempt was remembered. `ResetTokenUsage` makes a link
usable once more and takes it out of `consumed`.

**`Payments`.** `balance[u]` is the wallet in cents, `deposits[d]` a deposit row (its status, its method
and whether the intent's id is `stored`), `provider[d]` how far the deposit is at Stripe or at the crypto
provider, `handler[h]` what one request does next with what it has loaded. The handlers look for
the user by `req.user.sub`, which is undefined, and TypeORM drops the condition: every request
works on the first row, `FirstUser`. `AppendedTo` is what `balance += amount` does: the driver
returns `10.00`, the amount is appended, and PostgreSQL rounds the third decimal or refuses a
text with two points. A deposit's amount comes from a decimal column too, hence is always
refused (`NotANumber`); a payment's is a number, `-=` is arithmetic. `Fails` in a webhook's
handler answers the event, as the `catch` at `payments.controller.ts:145` does with a 2xx status;
a crash does not, so Stripe delivers again. The crypto provider is a stand-in: `CryptoService.handleWebhook`
(`crypto.service.ts:27-38`) "assume[s] it's valid", so `CryptoEvent` may name any deposit with either
outcome, paid for or not, and what it says is recorded in `told`. `Deliver` is Stripe's route,
whose events are those of paid card deposits. `dropped`, `told`, `credited`, `moved` and `overlapped` are history.

**`Risk`.** `payments` holds the payments of the user whose requests are assessed, `assessments` the rows
in the order of insertion. `Score` sums the four weights; nothing writes the columns the first two
look at, so their flags are translated with the columns' defaults. `SaveAssessment` and `FlagPayment` are
the two saves. A review loads the row and saves it; TypeORM's `save` selects the row again
(`CompareReview`) and updates the columns that differ (`UpdateReview`). `contested`, `disputed` and `verdict` are history.

**`Schema` and `Deployment`.** `catalog` is the set of objects in the database: the types, tables, indexes
and foreign keys of both migrations, each with what it requires (`Requires`), what goes with it
(`GoesWith`) and what keeps it from being dropped (`Blocks`). A migration is a list of blocks of
statements, `Execute` runs them up to the first one refused. Columns appear only where a statement
adds or drops one. `phase` is how far `railway-entry.js` has come; every script may also fail, and
`run-migrations.js` exits with 0 then. Its branch for "journal full, tables gone" executes `up()` outside
any transaction and may be killed between statements (`CutShort`: after any whole block, and after
the first statement of the next). TypeORM's own runs are one transaction with the journal rows.
The application itself migrates nothing: the data source in `app.module.ts:25-117` has `synchronize` off
and lists no migrations, `DatabaseModule`, which has `migrationsRun`, is commented out of its imports (118-121), and
`main.ts:41-43` leaves migrations to a separate command. So `BootServes` serves on whatever it finds.

**`Encryption`.** `stored[a]` is the value of an account's encrypted columns: whose text it is, and
under how many layers of encryption. The columns of a row are treated alike, so they have one
value. `From` and `To` are the transformer: what cannot be decrypted comes out as the placeholder
text, a ciphertext within a ciphertext as the object it parses to, which `To` turns into text
again. (A text that is itself JSON, a name of digits only, is left out.) `loaded[h]` is the row a handler holds between
`findOne` and `save`; a fresh nonce makes every encrypted column differ, so a save writes them
all. `repair` are the rows the repair script has loaded and not yet treated: it asks
`decrypt` about values that were decrypted already, takes the failure for "not encrypted", and its
update passes the transformer a second time. Starting it boots the application's modules, which
migrates nothing. The seeds insert past the transformer, into the database they name.
`SchemaStep` is any step of `Deployment`: rows go with their table.

## 4. What the runs check

| Run | Instance | Shows |
|---|---|---|
| `escrow_safety` | 2 escrows of one buyer who can afford one of them, 3 milestones, 3 proofs, 3 users; 47,505 states | no balance is negative (`TypeOK`), `MoneyConserved`, `PaymentFollowsEscrow` and `DeliverySettlesEscrow` hold, `EscrowPromise` is implemented (`KeepsPromise`), and a release run ends (`ReleaseRunDrains`) |
| `tx_safety` | 3 requests out of 18 on 2 escrows, one with one milestone, one with two, interleaved statement by statement, a crash at any statement, completion without transaction; 339,072 states | an accepted proof was paid, a proof pays once per funding of its escrow, no deadlock unless a stale milestone is written back, a dispute stops every request that has not loaded its escrow yet; while only requests of different escrows and wallets overlap, the promise is kept and the last milestone completes its escrow |
| `dispute_safety` | 1 escrow with a milestone, 2 disputes about it, both jobs, overlapping requests, restarts; 215,185 states | deliveries stay paid, `EscrowPromise` is kept through disputes (`DisputesKeepPromise`), expired disputes are reviewed, and only a row loaded before undoes a resolution |
| `admin_safety` | 1 escrow with a proof, 1 dispute, 1 administrator and shares 1 cent out of range; 1.68 million states | deliveries stay paid among untransacted administration; no balance is negative |
| `notification_safety` | 2 overlapping handlers, 2 users, 3 notifications, 3 sockets, failures and restarts; 1.32 million states up to symmetry | every change of a user's unread rows is followed by a push of the true count to each open socket, but for a failed handler's and a `markAllAsRead` that passed over a newer row; read or deleted stays so |
| `sign_in_safety` | 1 account, 1 alias, 2 overlapping handlers, status changes, payments, cleanups, failures and restarts; 428,441 states | a link signs in once, whoever has a link has a wallet, and a blocked account is let in by an administrator or a row loaded before |
| `payments_safety` | 1 deposit, 2 payments of either amount, 2 users, 2 overlapping handlers, repeated and late events, events of the crypto endpoint at any time, failures, 1 crash; 352,820 states | only deposits that were paid, or that the crypto endpoint was told are, complete; paid card deposits do unless handling failed or that endpoint was told they failed; a wallet loses no more than its payments, gains no more than its deposits and a cent per payment, and is debited unless two payments overlapped |
| `risk_safety` | 3 requests in 2 handlers, 3 payments, 2 reviewers; 84,766 states | the score blocks nothing, a mark has an assessment behind it and, but for overlaps and failures, the latest; the last review stands unless another overlapped |
| `deployment_safety` | an empty, an older and a current database; every block of both migrations; 2 accounts, 1 handler, the repair script; 57,048 states | journal and catalogue agree and the youngest migration can be reverted unless tables were dropped behind their back; an empty journal stays empty; a registered account's text is encrypted once or, after a repair, twice |

Runs that end in a violation, each a disagreement between the code and what the repository
says of it:

| Run | Counterexample | Said |
|---|---|---|
| `escrow_due_dates` | the job pays an escrow whose date was never set: the condition in `escrow.service.ts:1133` is usually undefined, and TypeORM 0.3 drops it | comment at 1120-1121 |
| `tx_two_proofs` | two proofs of one escrow accepted at once pay the seller twice | `escrow-system-implementation-summary.md:85` |
| `deposits_credited` | the webhook saves the deposit COMPLETED, and the wallet's save is refused: nobody is credited | comment at `payments.controller.ts:98` |

Also visible in the modules, without a run of their own: with the user object `JwtStrategy`
builds neither party can open a dispute (`dispute.controller.ts:91`; set `Caller` to `Undefined`); a split
resolution ends after the buyer's half (`admin.service.ts:1028`), in spite of the "Split 50/50" at 975; the two last milestones completed
at once leave the escrow funded (`escrow.service.ts:673`); a crash in the untransacted completion leaves the
seller paid and the escrow funded; a resolution can be accepted without a proposal; two
administrators, or one and the parties, can resolve one dispute, and the later save stands (`dispute.service.ts:415`, `:506`; hence `overtaken` in
`ResolvedUnlessStaleRow`); a funding, completion or cancellation that loaded its escrow before a dispute about it was
committed saves over DISPUTED (`escrow.service.ts:319`, `847`), where `docs/dispute-resolution-system-design.md:13` promises to "Block
normal escrow completion while a dispute is active" (hence `overtaken` in `DisputeBlocksLaterRequests`); two disputes
about one escrow can be created at once; an administrator's resolution cut short stays half
written; of two overlapping pushes of a count the older may come last and stay on the screen
(`notification.service.ts:319`), which is why `FreshCountArrives` promises that the right count
is among those sent and not that it is the last; a notification committed between the snapshot of `markAllAsRead` and
its commit stays unread while the handler pushes 0 (`notification.service.ts:339-347`), and the true
count is not sent before the next change or connection, where `docs/websocket-notification-system.md:33` promises to keep
"unread notification counts in sync across devices"; a notification deleted while it is being
marked as read comes back as read. Two fundings out of one wallet at once debit it once
(`escrow.service.ts:301`), and of one escrow the slower may commit after the escrow was completed,
which makes it funded again and its accepted proof good for a second payment: hence "per funding"
in `AcceptedOncePerFunding`; a funding or a completion that overlaps an update of a milestone sets that milestone
back to what it was, and can deadlock with it, since updateMilestone locks the milestone before the wallet and the cascade after it
(without `WritingBack` TLC finds `NoDeadlock` violated in the instance of `tx_safety`; PostgreSQL ends one of the two); the deadline job reopens a dispute resolved after its query (`dispute.service.ts:731`); an
escrow an administrator released can be disputed and paid again (`dispute.service.ts:102`); a sign-in that
overlaps a suspension or a payment undoes it (`auth.service.ts:98`). The id of a crypto payment is never
stored, so its deposit stays pending; the crypto endpoint takes the outcome of any stored payment on trust, a
card's included, so a deposit may be COMPLETED or FAILED whatever its provider says (hence `told` in
`CompletedWasPaid` and `PaidDepositCompletes`); an error while a webhook is handled is answered with
success; `getPendingReviews` lists reviewed assessments too, for TypeORM drops `reviewedAt: null`. An empty
database is never migrated, because the migration that adds a column bears an earlier timestamp
than the one that creates its table, and the fallback that promises to create the schema
(`manual-schema-creation.js:4-5`) does not get around that (`NeverMigratedFromScratch`); the application is
started all the same and serves without its tables, where `docs/railway-deployment.md:116` says
that "Migrations will automatically run on deployment". `fix-encrypted-data.ts` encrypts
good rows a second time, and replaces a text in the clear by the encrypted placeholder, where
its comment (9-12) promises to fix what was not encrypted; the comment in the transformer (87) speaks of
returning the original value and the code returns the placeholder.

**Bounds.** Everything interesting in `Escrow` happens between at most two escrows: they meet in
a wallet, and the buyer's is short by one cent; two milestones and two proofs of one escrow
are the least for which "all" and "another one" differ from "one", and the second escrow
has one of each. `EscrowTx` needs two requests for each anomaly named above but the reopened escrow; three in
flight admit a cycle of three locks. (The second payment of an accepted proof takes four, two of
them fundings; that it needs the second funding, `ProofsPayOncePerFunding` proves for any number.)
Two handlers of `Notifications` suffice for one to overtake the other; two sockets of one user tell
"each" from "one", and a second user makes creation in bulk differ from creation. One account suffices for `SignIn`: accounts meet only in the uniqueness of aliases, which TLC
does not reach at this size and the theorem `SignInTypes` covers. In `Payments` two overlapping handlers
are what a lost debit or a repeated event takes, one crash suffices since every crash leaves no
handler running, and the amounts are one whose digit rounds the balance up and one whose sum is
refused. In `Risk` three payments make a rapid succession, and with a large one the highest score there
is; three requests are two overlapping reviews and the assessment they are of, or an assessment
repeated twice. `Deployment` has no bound but that tables are dropped behind the journal once; two accounts
of `Encryption` let the script be killed between them. Two
disputes about one escrow are what requests that overlap can create, and enough for one to be resolved, or the job to be late, while the other is not. `Overshoot` bounds how far a custom share
may lie outside 0..total. Nothing else is unbounded: rows are never deleted or reused.
`tx_*` runs switch off the deadlock check because every request may have ended; there
`NoDeadlock` says what matters. `WorkerSymmetry` and `AnySymmetry` are sound: workers, and in `Notifications` one user's notifications and sockets, differ only in name.

**Fairness.** `ReleaseRunDrains` assumes weak fairness of each turn of the release loop: the loop
awaits one release after another and catches every error, so nothing but a restart, which
empties the list, stops it. `ExpiredDisputesReviewed` assumes that the midnight job starts
whenever it can, again and again (cron), and strong fairness of saving a given dispute, since a
run may fail before it reaches it but not every time. `PaidDepositCompletes` assumes weak fairness of a handler's next step (every await ends, if only with a
failure) and strong fairness of delivering an event that is owed: Stripe retries what is not
answered, and the server is idle or up again and again. No fairness is assumed of users.

**Mutants.** Each checked property has a mutated definition in the module next to the original
(`FundEscrow_NoBalanceCheck`, `CancelEscrow_ForgetsPayment`, `LoadToCancel_EscrowFirst` and so on) that a
plausible edit of the code would produce and that the run refutes; `PROJECT.json` pairs them.

## 5. What is proved

For every value of the constants that satisfies `TermsAssumption` (the terms of the escrows are
of the right types, amounts positive, initial balances not negative) and, for disputes,
`DisputeAssumption`:

* `TypeCorrect`: `Spec => []TypeOK`. `TypeOK` is inductive; its point is that balances stay natural
  numbers, which needs the guard of fundEscrow.
* `PaymentRowsTellTheTruth` and `DeliveryIsSettled`: `PaymentFollowsEscrow`, and `DeliverySettlesEscrow` with
  its two halves (an accepted proof settles its escrow; so does a completed list of milestones). None is
  inductive alone: that an accepted proof has a completed escrow needs that nothing takes an
  escrow out of COMPLETED, which rests on the types of the statuses, and that a second
  acceptance is impossible needs the first conjunct. `SafetyInv` is their conjunction with
  `TypeOK`; `QuietStep` serves the actions that touch neither proofs nor milestones.
* `NoMoneyMadeOrLost` (for finitely many users and escrows): `MoneyConserved`. The sum over a set is
  a fold of the community modules, which chooses one element after another; the lemmas say that
  it is any function that follows the same choices (`IsSum`), and `SubsetInduction` proves facts about
  every finite set by a smallest counterexample. `SumAny` then gives the sum by any element,
  `SumChange` what one changed summand does to it. The step needs `RowsTellFunding`: a funded
  escrow's row is in escrow, an unfunded one's is not, so every payment counts or ceases to
  count exactly one escrow.
* `Refinement`: `Spec => KeepsPromise`. The mapping is `Phase`; it needs `PaymentFollowsEscrow`,
  since a cancelled escrow counts as returned only if its payment row says so, and an
  unfunded one must have none. `MoveOf` and `PayoutPays` are the simulation steps.
* `DeliveryStaysPaid` for `DisputeSpec`, by the invariant `DisputeInv`: to the property it
  adds `LoadedRowsExist` (what is loaded, by a request or by the job, was created) and `PaidOutIsClosed` (a completed payment belongs to an escrow that
  is neither pending nor funded, so no request can change it to refunded).
  `ClosedEscrowKept` says what all of `Escrow`'s steps do to a closed escrow.
* `DisputeRefinement`: `DisputeSpec => DisputesKeepPromise`, by `MoneyPhase`. Inserting a dispute about an unfunded
  escrow maps to calling it off, every other step of a dispute or of its job to a stutter, the
  requests of `Escrow` to what they are in `Refinement`. `PaidOutIsClosed` and `UnfundedHasNoRow` are the
  invariants it needs: a payment leaves `ESCROW` for good, and what was never funded has no row to leave.
* `DisputesKeepTheMoney` (finitely many users and escrows): `HeldMoneyConserved`, by the sums of
  `NoMoneyMadeOrLost` and `HeldIsFundedOrDisputed`; and `ResolutionsAreFinalButForStaleRows`, an action property
  of `DisputeSpec`, by the invariant `Overtaken`: whatever is in flight for a resolved dispute was so before it was
  resolved, since every request and the job's query check the status they load.
* `AdminTypes` and `AdminsKeepDeliveryPaid` for `AdminSpec`: with any number of administrators, each in the
  middle of untransacted requests, no balance becomes negative and delivered work stays paid. `AdminInv` adds to `DisputeInv` the contents of the desks and that the
  dispute a request is about exists; what keeps balances natural is `TransfersCredit`, that no credit is
  negative, although what is added to may be long out of date.
* For `EscrowTx`, from `EscrowTxAssumption`, for any number of escrows, proofs, milestones and
  overlapping requests:
  * `TxTypes`. `TxInv` says of each request what program it has left (`RequestOK`: with every statement
    all that follow it, in the order `Rank`), what its memory is good for (`MemOK`: the balance it is
    about to save is not negative) and what it may have written (`WritesOK`: the escrow's row last,
    the proof's first); and that no row is locked twice (`Exclusive`).
  * `AcceptedProofsArePaid` and `ProofsPayOncePerFunding`. `AcceptInv` counts: of an escrow that is funded, or
    that an acceptance has found funded and is about to pay out, one funding more has
    committed than acceptances of any one proof (`Unused`). That a second acceptance of the same proof cannot slip in
    between rests on the lock of the proof's row, which is taken before the escrow is read.
  * `LastMilestoneCompletes` and `ApartRequestsKeepPromise`, the refinement of `EscrowPromise` by any number of
    interleaved requests, of which those with an escrow or a wallet in common do not overlap.
    `IsolatedInv`: requests in flight are `Apart`; what each found is still there (`ClosingOK`), the
    wallet it writes gets what was there and the amount (`PurseOK`), a milestone that is the last has the
    escrow completed before it commits (`MilestoneOK`). Only a commit changes rows: it leaves what the
    others have found or will look at (`ApartRows`), and maps to one step of the promise (`ClosingKeepsPromise`) or
    to none (`OthersKeepPromise`).
  * `DisputesBlockLaterRequests`: `DisputeInv` says that of the requests about a disputed escrow each had loaded it
    before (`overtaken`), or is `Blocked`: it has still to look at the escrow, and so will end there, or it has no
    statement left that writes its row. That an escrow's row is only written after it was looked at is in `TxInv`.
  * `SomeoneAlwaysProceeds`: unless nothing is in flight, or a request has come to write back milestones that others saved
    (`WritingBack`), some request waits for no lock. `LocksInv`: but for that last statement all
    programs lock rows in one order of their kinds (proof or milestone, wallet, payment, escrow),
    so whoever holds the row of the highest rank waits for nobody. This is `NoDeadlock` said of the
    locks instead of by `ENABLED`.
* `ChangesAreReported` and `ReadForGood` for `Notifications`, for any number of users, notifications,
  sockets and handlers, from `NotificationAssumption`. The invariant `NotificationInv` adds to `TypeOK`:
  `LoadedRows` (a handler about to delete a row will report it if the row is still unread, although
  it decides that from what it loaded) and `Reported`, which says of every open socket that the
  true count was sent, or that some handler has still to count, or to push the count the rows
  have now, or that one failed, or that `markAllAsRead` passed over a row. Here the order save, count, push of each handler is needed.

* `LinkSingleUse`, `LinkedHaveWallets` and `SignInTypes` for `SignIn`, from `SignInAssumption`. `RowInv` adds to
  the types `HandlersFounded`: what a handler is about exists (the account, then its wallet, then its
  link), and stays (`NothingVanishes`, which needs that a loaded row is one of an existing account
  and a loaded wallet is one). `OnceInv` adds `Alone`: a verification of a link is remembered and
  the only one in flight, unless one of them was outlived; so whoever is about to mark a link
  is the first (`MarkingFirst`). `NewLinks` and `Fresh` say that a link never turns unused by itself.
* `BlockedStayOut` for `SignIn`: the action property `UnblockedOnlyByStaleRow`, from `RowInv`; `SavedStatus` says what
  status a save of a loaded row can leave.

* `PaymentTypes`, `CompletedArePaid`, `NobodyIsOvercharged`, `SerialPaymentsAreDebited` and `NoMoneyIsMade` for
  `Payments`, from `PaymentsAssumption` (the last one for finitely many deposits). `DepositInv` adds to the types what a handler may count on:
  the row it is about is there, an intent is not at the provider before it is created and created
  by one handler only, a webhook that completes a deposit knows it paid or was told so. `MoneyInv` is about balances that are saved long after
  they were loaded: `Accounted` says of each payment under way that the balances it holds,
  however old, keep the bounds when they are written, and that they are not old unless payments
  overlapped. It needs that no deposit is ever credited (`DepositSum`).
* `ScoresBlockNothing`, `MarksAreAssessed`, `MarksFollow` and `ReviewsStand` for `Risk`, from `RiskAssumption`.
  `MarkInv`: the score about to be written to a payment is that of an assessment that is there. `LatestInv`: of a
  payment that is not contested there is one assessment at a time, and the latest row has
  the payment's score or the score its handler is about to write. `ReviewInv`: an unreviewed row
  is about to get its reviewer's name, and what a lone review found to differ still does.
* `SchemaFollowsJournal`, `RevertIsPossible` and `EmptyJournalStaysEmpty` for `EncryptionSpec`, whose
  steps are those of `Deployment` and the rows' own. `DeployInv`: the journal is empty, or records the
  initial migration, or both in the order in which they can have been run (`Journaled`); unless tables
  were dropped behind it, what it records is in the catalogue (`InitialThere`, `ColumnThere`); and, dropped or
  not, an empty journal means that nothing of the initial schema is there (`NothingInitial`), so that the column's
  migration, which comes first by timestamp, is refused. The forcing branch of `run-migrations.js`
  is reached only after tables were dropped (`ForcingIsLate`). The work is in what the
  migrations do: `InitialBuilds` (the initial `up()` on an empty database), `InitialUndone` (its `down()` succeeds
  where all its objects are and leaves none), `BufferAdded` and `BufferRemoved` (the column needs the
  wallets table, nothing else); and, below them, in what the kinds of objects require,
  block and take with them (`WhatIsNeeded`, `WhatBlocks`, `WhatGoesWith`). `Execute` is a recursive function over a
  list of blocks: that it has values is proved for any list (`RunExists`, `RunStep`), and the values for the
  code's lists of four blocks and one by that many uses of its equation (`ExecuteFour`, `ExecuteFive`), so
  no induction theorem of the library is needed.
* `TextIsSafe` for `EncryptionSpec`. `TextInv` says of whatever a handler or the script holds of an account that
  saving it keeps the text and the bound on its layers (`Savable`); a row the script has repaired
  has a bound of two.

Only model-checked:

* `ReleaseRunDrains`, `ExpiredDisputesReviewed` and `PaidDepositCompletes`, liveness under fairness;
* `NoDeadlock` as it stands, because of its `ENABLED`; `SomeoneAlwaysProceeds` proves what it says of the locks.

## 6. Assumptions and omissions

* The tables have the columns of the entities. (The migrations differ: `transaction_logs` lacks
  some of the entity's columns. `payments.amount` is declared decimal with a transformer that stores
  ciphertext, and its alias columns NOT NULL although the escrow service does not set them; the
  escrow flow presumes a schema that admits the rows it writes, as the migration
  AddEncryptedColumns makes it.)
* Errors of logTransaction and of notifications are caught by the services and left out. In
  PostgreSQL a failed log INSERT inside a transaction would abort that transaction; this is the
  same outcome as a crash before the commit, which `EscrowTx` has.
* Request bodies of the controllers are untyped; `Total` is assumed positive.
* `expiresAt` of an escrow is never read, so no action depends on it. Overlapping runs of one
  cron job are not modelled.
* `sendMessage` and the getters change nothing another operation reads.
* Of sign-in: the debug endpoints that look a user up by address through the entity's encrypted column
  and so find none; `directLogin` (`auth.service.ts:392-424`), whose raw SQL compares the stored text and so finds the accounts
  that the seed scripts insert in the clear, and no account of `SignIn`; those that only read; the sessions that follow (`JwtStrategy` lets in whoever's row is ACTIVE at the time).
  `updateAlias` and `completeLoginWithUserId` are called by nothing.
* Of the schema: columns, except the one a migration adds, and the data of tables other than
  users. Scripts that only print (diagnose, validate, check-encrypted-data) are left out;
  `seed-creator.ts` never sets the encryption service, so its columns are null and its insert is refused.
* Not modelled: withdrawals (no request passes the validation pipe, so no row is ever touched);
  notification preferences and mails; 3-D Secure, mail and payment providers (external; the one
  method of `three-ds.service.ts` that writes a row is called by nothing); roles,
  chargeback buffers and analytics of the admin module (single-row writes and sums); creators and
  health (reads and single-row writes).
