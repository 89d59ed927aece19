# Verification of the IndiGG backend

TLA+ models of the backend in `src/` (a NestJS API, `src/src`, and its AWS
infrastructure, `src/infrastructure`), TLC runs that check them on small
instances, and TLAPS proofs that hold for every instance. Paths below are
relative to the directory that holds `src/` and `tla/`; service names without a
path are under `src/src/modules/<name>/`.

    tlc -config MCOfframp_orders.cfg MCOfframp.tla     # any run of PROJECT.json
    tlapm OfframpOnceProofs.tla                        # any *Proofs module

## 1. Inventory

One Fargate task runs the API: a single Node process in which requests
interleave at every `await` and which keeps no state of its own between
requests. All durable state is in DynamoDB, Cognito and at the partner
(Mudrex), so the hard behaviours are those of a stateless process between
stores it cannot update together.

| Component | State | Operations | Talks to | What makes it correct |
|---|---|---|---|---|
| Transaction table (`transactions.service.ts`, `datastore.stack.ts`) | items keyed (txId, createdAt in ms); the newest is the status | `createUserTransaction`, lookups by id, hash and sale, histories, `updateTransaction`, `sendTransactionStatus` | DynamoDB; used by the off-ramp, REST clients and the Lambda | history is append-only; the newest item is the true status; what was acknowledged is what a lookup finds |
| Off-ramp (`offramp.service.ts`) | none; orders live in the table, sales at Mudrex | `sellCrypto`, `webhookHandler` → `cryptoTransactionHandler`, `fiatTransactionHandler`; pass-through calls; `getGasForTxn`, `gaslessTxn` | table, Mudrex webhooks, chain | a deposit is sold once; every sale is on record; a final status is the partner's verdict and is reached |
| Off-ramp Lambda (`infrastructure/lambdas/offramp`, `offramp-handler.stack.ts`) | SQS queue, lineage items | `sendOffRampMessage` → bus → queue → `handler` / `handleTXMsg` | SQS, table, Mudrex | no message lost, none sold twice, lineage tells the truth |
| Authentication (`authentication.service.ts`) | Registration-Pins (code and OTP per phone), User-Message-Token | `register`, `resend`, `verifyOtp`, `updatePhone`, token refresh | Cognito, SMS, Slack | the code that was sent is the code that is stored; a number belongs to one user |
| Cognito adapter (`cognito.service.ts`) | Cognito user pool | `register` (two calls), `getUser`, `deleteUser`, `authenticate`, e-mail attributes | Cognito | a user that exists can log in |
| Social links (`linkSocials.service.ts`) | Connect-Discord, Connect-Twitter, Social-OAuth | connect, delete, check | provider OAuth | one linked account per user; unlinking works |
| Users (`users.controller.ts`) | – | forwards to `users.service.ts`, which is not in the repository | – | – |
| Quest events, Strapi, colleges, Gupshup, Slack, Firebase, S3, interceptors, CDK stacks | none | one call each, or configuration | – | no state to go wrong |

The components meet in few places. Every guarded endpoint goes through
`JwtStrategy`, which asks Cognito for the caller, so a login (`Registration`)
comes before everything else; what the others take from it is only the caller's
`userId`. `Offramp` and `TransactionApi` write the same table: both EXTEND
`TransactionStore`, each with transactions of its own. A payment uses the gas tank, the relayer, the transaction
table and both histories in turn: `Payments` composes them.

Hard behaviours (each is listed at its line in `PROJECT.json` under "hazards"):
status read before three awaits and used after them; a sale made before it is
recorded, with a crash, a lost answer or a failed write in between;
notifications that overlap, repeat, arrive early or never; scans that are
eventually consistent; keys that collide within a millisecond; re-posted orders;
an at-least-once queue without a dead-letter queue whose handler has
irrevocable effects; a number change of six external calls without compensation;
codes and messages of overlapping registrations; a check for a linked account
before four awaited calls; a callback whose code and state come independently;
writes that outlive the request that made them; one gas tank whose nonces collide.

## 2. Modules

| Module | What it is |
|---|---|
| `TransactionStore` | the table: `Put` (PutItem by the key), the clock, the lagging copy that scans may read, and the lookups by hash and by sale |
| `Offramp` | EXTENDS it; the order pipeline, one action per stretch of code between two awaits |
| `FiatLeg` | abstract specification: a write-once register per sale |
| `OrderLife` | abstract specification: an order as its user sees it, once through its life |
| `OfframpRefinement` | the two refinement mappings, `ImplementsFiatLeg` and `ImplementsOrderLife` |
| `OfframpInvariants` | inductive strengthenings `TruthInv`, `OnceInv`, `LegInv`, `OrderInv` |
| `OfframpProofs`, `OfframpOnceProofs`, `OfframpLegProofs` | TLAPS proofs about `Offramp`: the table and the partner; the single sale; the refinements of `FiatLeg` and of `OrderLife` |
| `OfframpLambda`, `OfframpLambdaProofs` | the event-driven pipeline and its proofs |
| `Registration`, `RegistrationProofs` | phone numbers, users and one-time codes over Cognito, Registration-Pins and User-Message-Token, and the proofs |
| `LinkSocials`, `LinkSocialsProofs` | linking Discord and Twitter accounts, and the proofs |
| `GasTank`, `GasTankProofs` | `getGasForTxn`: top-ups of the users' wallets from one account, and the proofs |
| `TransactionApi` | EXTENDS `TransactionStore`: the three REST writers of the table |
| `PaymentHistory` | the two histories as functions of what a call returns |
| `Payments`, `PaymentsProofs` | EXTENDS the last three: a payment from the request for gas to its record, and the proofs |
| `MCOfframp`, `MCOfframpLambda`, `MCRegistration`, `MCLinkSocials`, `MCPayments` | instances for TLC, with the `.cfg` files |

### Offramp and the code

`job[h]` is a request in progress: `kind` is the entry point (`post`:
`sellCrypto`; `deposit`: `cryptoTransactionHandler`; `fiat`:
`fiatTransactionHandler`), `pc` the call it is about to make or waits for, and
the other fields are the handler's local variables: the item it read (`snap`),
the sale's id (`sale`), the item it is writing (`row`), and from the payload the
hash and the status (`verdict`). `createUserTransaction` stamps the item and
sends it (`Send`), and the write takes effect later (`Commit`) or is rejected
(`PutError`): a later stamp can therefore be written first. A handler that
answers or throws just becomes `Idle`, since nothing stays in the process.

| Code | Actions |
|---|---|
| `sellCrypto` (prod branch) | `SellCrypto`, `Commit` / `PutError` |
| `webhookHandler` 'deposit'/'withdraw' | `ReceiveDeposit`, `ReadByHash` (404, wrong status or a verdict without a branch end here), then `RecordAmlFailed`, or `BalanceSuffices`, `DetailsFound`, `SaleAccepted`, `RecordSale`, `Commit`; `SaleRefused` for a sale answered with `success: false`, whose empty answer `RecordSale` then fails to marshal (`Marshalls`); `GiveUp` for the insufficient balance and every call that throws |
| `webhookHandler` 'sell'/'buy' | `ReceiveFiat`, `ReadByBank`, `RecordOutcome`, `Commit` |
| Mudrex (external) | `Screen` (AML verdict), `Settle` (verdict on a sale), each completed, failed, or cancelled (CANCELLED and EXPIRED of offramp.dtos.ts:181-188, for which the handlers have no branch), and the notifications themselves: any number, at any time, of any decision made so far |
| process and table (external) | `Crash`, `ReplicaCatchesUp` |

`posts` and `mishaps` bound the run. `origin` is a history variable: the item
whose reading led to a sale. Amounts, account data and signatures are left out:
no property depends on them.

### OfframpLambda and the code

`run[w]` is an invocation: `RecordPending` (index.ts:42), `getWithdrawalBalance`,
`getUserDetails`, `offrampFiatSell` (`handleTXMsg`), `Report` (the switch and the
happy path), `recordCritical` (the catch), `Return` (SQS removes the message).
`CallThrows`, `PutError`, a lost answer and `Die` are the ways out. `lineage[m]`
is the sequence of statuses stored for the message, `critical` the messages stored
as `unknown_<messageId>`, and `severed` (history) those of which an invocation
failed after their sale. The switch's default branch
(`UNKNOWN_ERROR`) cannot be reached: `handleTXMsg` returns only the three codes.
Nothing in the API calls `sendOffRampMessage` at this commit; the stack is
still deployed, so the model starts from that function as the only producer.

### Registration and the code

`job[r]` is a request, `pc` the call it is about to make, so that every call of
`authentication.service.ts` and `cognito.service.ts` is an action of its own and
requests interleave between any two. A member of `Registrations`, `Updates` or
`Logins` is one request and also names what it draws: its code (auth code and OTP
together) and the `sub` of the user it creates. `pool`, `pins` and `devices` are
Cognito and the two tables, `inbox` the messages sent to each number. `owner`
(the user a code was stored for) and `shared` (numbers on which requests have
overlapped) are history. `inbox` holds what the gateway took: gupshup.service.ts
does not learn more, and a message may be read late or never.

| Code | Actions |
|---|---|
| `register`, `resend` | `Register`, `CheckExists` (`userExists`), `CreateUser` and `SetPassword` (`CognitoService.register`), `StoreCode`, `SendCode` (`sendSMS`) |
| `updatePhone` | `UpdatePhone`, `ReadOld`, then the same, then `DeletePin`, `DeleteUser` |
| `verifyOtp` | `VerifyOtp`, `FindUser`, `CheckCode`, `Authenticate`, `StoreDevice` |
| failures | `CallThrows`, `Crash`, `Expire` (the code's ttl), a refused or lost message in `SendCode`, an error of `userExists` that reads as "does not exist", a lost last answer (`Finish`) |

The branch for `NODE_ENV = 'prod'` is modelled; the other one posts the code to a
chat instead. A client only sends an auth code it was answered and an OTP that
was sent to the number: codes of different requests are different, guessing is
not modelled, and a `GetItem` of the pins is taken to see the last write.

### LinkSocials and the code

`grant[k]` is the consent behind a code of the provider, given under the
configuration that was stored then. A callback (`Callback`) comes with any code
and any user: code and state are two parameters of an unguarded request
(linkSocials.controller.ts:38-45, 86-93). What the code has against a mismatch is
Twitter's challenge, which is the user (linkSocials.service.ts:124-128, `Fits`);
the Discord path has none. Then come `CheckLinked`
(`checkIfItemExistOrGetItem`), `ReadConfig` (`oauthInfo`), `Exchange`
(`discordGetTokens`, `twitterUserAccess`), `ReadProfile`, `WriteLink`; a deletion
`FindLink`, `DeleteLink`. Otherwise Discord and Twitter take the same steps. A
reload of the page repeats a callback with the same code. `raced` (history) holds the
users whose callbacks overlapped or whose check met a stale scan.

### Payments and the code

A client stands for one payment, and its name is the payment's `txId`. It asks
for gas (`getGasForTxn` of `GasTank`: price, balance, nonce, broadcast, receipt),
pays with it or has the relayer pay (`gaslessTxn`), then creates and updates the
transaction (`TransactionApi`); a webhook reports a status at any time. A request
that fails is made again, and one whose answer is lost, or is given up (`Forsaken`),
may still be carried out after the requests that follow it (`WrittenLate`). The
order of a client's calls is not in the repository: it is the one the endpoints
document. `PaymentHistory` holds `getUserFiatTransactions` (sort, one item per
transaction, sort) on one page of a scan, and `getUserTransactions` of the
off-ramp on the transfers the indexer lists, for the deposit address that this one
call was told, or none. `SortBy` is
`Array.prototype.sort`: it puts an element where the number of those up to it
says, so equal ones keep their order; `MapPlaces` and `MapValues` are the
`Map` built from a list, in which a key keeps its first place and takes its last
value. They are first-order definitions, about which the prover can reason. The statuses of the REST items are
abstracted to the operation that wrote the item. `raced` holds the wallets for
which gas was asked while a top-up was under way, `spent` the gas used.

## 3. Runs

| Run | Instance | Shows |
|---|---|---|
| `orders` | two orders, one post each, two requests at a time, no faults | `TypeOK`; `SalesAccounted`: an accepted sale is on record or held by the handler about to write it; `StatusNeverRegresses`: what a user sees only moves forward; `OneSalePerOrder`: an order is paid for by one sale on record; `ImplementsOrderLife`: an order arrives, is rejected or sold, and ends as the partner decided, once; `OrderInv`, the invariant its proof uses |
| `restarts` | one order posted twice, three sales, one crash, lost answer or rejected write | `NoDoubleSale`: a sale starts from a CRYPTO_COMPLETED item, and of two sales from the same item one was never recorded; `AppendOnly`; `OnceInv`, the invariant the proof uses |
| `adverse` | one deposit under two transaction ids, overlapping notifications, stamps that may tie | `RowsTruthful`: no item contradicts the partner; `TruthInv`, its inductive strengthening |
| `leg` | lagging scans, two faults of four kinds | `ImplementsFiatLeg`: each sale is opened once, closed once with the partner's verdict, never reopened; `LegInv`, the invariant its proof uses |
| `settles` | one fault, fairness | `OrdersSettle`: an order in the table reaches a final status unless the partner cancelled it |
| `lambda_single` | two messages of one user, one failed write or lost answer, fairness | `OneSalePerMessage`: no message is sold twice; `MessagesConsumed`: every message leaves the queue; `TypeOK` |
| `lambda_faults` | two faults of every kind, duplicates included | `NothingLost`: no message leaves the queue without an item; `LineageTruthful`: ALL_OK only after a sale; `SalesTraced`: a sold message nobody works on has ALL_OK or a critical item, unless an invocation failed after the sale |
| `lambda_retry` | one message, no faults, fairness; expected violation | see Findings |
| `registration` | two registrations, a number change, two logins (one with a device), three numbers of which one is whitelisted, one fault of four kinds, overlaps at will | `LoginIsOwn`: a login gets the tokens of the user its code was stored for; `StoredIsSent`: the last message sent to a number carries the stored code; `EmptyOnlyInterrupted`: a correct code gets null tokens only when the request that created the user was cut off; `RetiredForGood`: an answered number change leaves no way to the old user; `NeverLockedOut`: a user is deleted only by its own change and when the new number is complete |
| `socials` | two providers, users, accounts, codes and callbacks, one deletion, two configurations, one fault, any code with any user | `OneAccount`: one link per user and provider unless callbacks overlapped or a scan was stale; `LinkTruthful`: a link names the account that consented at its provider, once per consent, and on Twitter the user that consented |
| `social_disconnect` | one link, one deletion, no faults; expected violation | see Findings |
| `payments` | two payments of one user to its deposit address, one webhook, one call that fails or is carried out late | `NeverOverfunded`: requests for gas one after the other never add up; `GasGranted`: a request answered with a receipt or "sufficient" has its gas; `AcknowledgedShown`: the lookup by hash finds what the client was last told was written; `HistoryFaithful`: on any page in any order, each transaction once, as its newest item that names the user, newest first; `ViewsComplete`: no transfer is missing from both views, whatever each call was told |

**Bounds.** Two requests in progress are enough for every race in the code,
which is between a reader and one writer of the same item. Two sales (three when
an order is posted twice) let a deposit be sold once more than it should. The
order of two posts, of two hashes and of two ids are each covered by a run. One
or two faults put a failure before, between and after any two steps; a handler
makes at most one sale, so more faults only repeat the same loss. `MaxLineage`
never holds a message up: only a mishap leads to another delivery, and a delivery
records at most two statuses. A handler that failed on its own would reach it, and
a message delivered for ever shows as one that stays in the queue. Deadlock is
checked for `Offramp` (the partner can always notify again or a request can be
received) and switched off for the Lambda, which stops when its queue is empty,
and for the last four runs, whose requests are finite in number.
In `registration`, one number for each of: the old, the new and a stranger's, so a
number can be given to somebody else after a change; a second change with
overlaps is beyond TLC (no violation in 8 million states). In `payments` the
wallet starts empty, estimates lie below and above the cap of `MaxGasAllowed`,
a client asks once (the second client of the wallet repeats a failed request: the
tank does not tell who asks; the theorems hold for any number), and three transfers
are listed before the payments: one received from the deposit address, one of
nothing to it, and one sent elsewhere. With one wallet a nonce is only ever taken
by another request for the same wallet, which is then `raced`: that a refused
nonce of one wallet never overfunds another is left to the theorem.
A page holds two items of a table that grows to six: the collapse to one item
per transaction needs two, and the cut needs fewer than there are.

**What the properties assume**, each because the code has no defence of its own:

- `NoDoubleSale`: deposits are notified one at a time and reads see every write.
  With `"overlap"` in `Faults` TLC finds two recorded sales from one item in a
  few steps: both handlers read CRYPTO_COMPLETED before either writes.
- `AppendOnly`, `ImplementsFiatLeg`: no two stamps of a transaction fall in one
  millisecond (`Advance = {1}`); `RowsTruthful` needs no such thing.
- All properties of `Offramp`: nothing but the pipeline writes items of the
  pipeline's transactions. `POST` and `PUT /transactions` and the status webhook
  (transactions.service.ts:27-75, 212-280) accept any status for any transaction
  id, and the Lambda records its lineage in the same table, under the `txId` of
  the message (lib.ts:63); none of them is an action of `Offramp`. A newer item of
  theirs would hide the pipeline's. `TransactionApi` models the REST writers, on
  transactions of their own.
- `OrdersSettle` excepts orders that the partner cancelled: CANCELLED and EXPIRED
  match no branch of offramp.service.ts:282-319 and 343-422, and such an order
  stays at CRYPTO_COMPLETED or FIAT_INIT however often it is notified.
- `StatusNeverRegresses`, `OneSalePerOrder`, `ImplementsOrderLife`: an order is
  posted once, and deposits are notified one at a time. `sellCrypto` does not
  look whether the id is taken, so a second post stores a newer
  CRYPTO_COMPLETED.
- `OneSalePerMessage`: one failed write or lost answer. An invocation that dies
  after the sale, or loses both of its last two writes, is followed by another
  delivery: with balance left that sells again.
- `SalesTraced` excepts the messages of which an invocation failed after the sale
  (`severed`). A single crash there loses the sale: the redelivery finds the
  balance spent, records PENDING and consumes the message, so that neither ALL_OK
  nor a critical item ever tells of it. No lost answer and no single rejected
  write does that. The partner's refusal of a sale it cannot cover is taken for
  granted, and two items of a message never have the same `createdAt`.
- `LoginIsOwn`, `StoredIsSent`, `EmptyOnlyInterrupted`, `NeverLockedOut`: no two
  requests worked on the number at the same time (`shared`). `register` takes no
  lock: two of them may store one code and send the other last. What the gateway
  does with a message it took, and in which order, is outside the model.
- `EmptyOnlyInterrupted` says who caused a lock-out, not who suffers it. After a
  crash between the two calls of `CognitoService.register` a later `register` or
  `resend` finds the user, skips both calls and answers a code; its login, too,
  gets null tokens, for good.
- `LinkTruthful` demands the consenting user only where there is a challenge,
  for Twitter. A Discord link's user is whoever the callback's state named.
- `OneAccount`: no overlap and no stale scan (`raced`); the check is the only
  defence.
- `NeverOverfunded`: nobody asks while a top-up of the wallet is under way
  (`raced`); the code does not look for one. A node may let a transaction replace
  a pending one of the same nonce for a higher fee; the model has it refused. The
  replaced request's `wait()` throws, so it too is told of a failure.
- `AcknowledgedShown`: a scan sees what was written, and no two stamps fall in one
  millisecond. The lookups are a Query and a Scan without ConsistentRead
  (transactions.service.ts:80-85, 124-137), so one made at once may miss the
  write.
- `HistoryFaithful`, `AcknowledgedShown`: a client names its own user and hash.
  `updateTransaction` takes both from the payload (transactions.service.ts:40, 62)
  and compares them with nothing.
- `HistoryFaithful` is about the items that name the user: a status report names
  none and is filtered out first, so a newer one is never shown.
- `ViewsComplete`: each transaction on the chain has one transfer, the only one
  that `returnCryptoTxn` reads (offramp.service.ts:712). Each view is filtered by
  an answer of its own (515), or not at all without an address (521): when one of
  the two calls was told nothing, a transfer to the deposit address is in both.
- `GasGranted` promises the smaller of the estimate and 0.1 ether, as the
  condition at offramp.service.ts:604 does.

**Fairness.** `WF(Step(h))`: the event loop runs and an awaited call answers or
throws. `WF` on `Screen` and `Settle`, `SF` on `ReceiveDeposit` and
`ReceiveFiat`: the partner decides, and repeats its notifications. The code
answers a notification it drops with success, so this repetition is the
assumption to question: without it one early fiat notification is enough to
leave an order at FIAT_INIT. `SF` on the balance, details and sale calls: they
do not fail every time. For the Lambda, `WF(Step(w))` and weak fairness of
polling, which is what Lambda and SQS provide.

## 4. Findings

`lambda_retry`: index.ts:75 says a low balance is marked "as pending to retry
later". The message is consumed all the same, and the re-driver that would read
PENDING items is commented out in `offramp-handler.stack.ts`. `RetriedLater`
fails: the message stays PENDING although its user is verified and has a balance.

`social_disconnect`: linkSocials.controller.ts:55 documents "Disconnect Users
Discord". `deleteSocial` takes `itemFound.id.S` of an item that
`checkIfItemExistOrGetItem` has already unmarshalled, so the key is empty,
the client throws on serialising it, before anything is sent, and the account
stays linked. `Disconnects` fails on the
shortest run: link, then disconnect. With it, a user can never link another
account of the provider.

## 5. Proofs

All for arbitrary sets of orders, hashes, sales, messages, users and
concurrent requests, from the named assumptions on the constants only
(`StoreAssumption`, `OfframpAssumption`, `LambdaAssumption`,
`RegistrationAssumption`, `LinkSocialsAssumption`, `GasTankAssumption`,
`ApiAssumption`, `PaymentsAssumption`). Every other hypothesis is one of the
defined ones below: `StrictClock` (no two stamps in one millisecond),
`OneAtATime` (no overlapping notifications of a deposit, no stale scans),
`OnePost` (each order is posted once, and no two are of one deposit),
`NoFaults`, and `OneFault` of the Lambda. `PaymentsAssumption` names a transfer
by its place on the chain: the indexer lists transactions, so a hash comes once,
and `returnCryptoTxn` takes one transfer of each. `PaymentsShown` assumes that the
clock moves, too. Each of the hypotheses names
something the code has no defence against (section 3), and a run of section 3
satisfies it.

- **`TypeCorrect`, `TableTruthful`** (`OfframpProofs`): `TypeOK` and
  `RowsTruthful` under every fault. `RowsTruthful` is not inductive, because an
  item comes from a local variable that was filled several awaits earlier.
  `TruthInv` says of each request what it knows at each `pc` (the item it read
  was truthful, the verdict it was told is still the partner's, the sale it
  holds came from that item). The argument is that everything it relies on is
  monotone: the partner never takes back a verdict or a sale (`PartnerMonotone`).
- **`HistoryKept`** (`OfframpOnceProofs`): `AppendOnly` when `0 \notin Advance`,
  from `StampsDistinct`: all stamps, written or on their way, differ and are
  behind the clock.
- **`OnceHeld`, `SoldOnce`**: `OnceInv` and `NoDoubleSale` when moreover `"overlap"` and `"staleRead"` are
  not in `Faults`; crashes, lost answers and failed writes are allowed. `OnceInv`
  adds that one notification of a deposit is handled at a time, that what a
  request read is still in the table, and that the item which records a sale is
  newer than the item it was made from. So a lookup that returns an item proves
  that no recorded sale came from it (`Unspent`), up to the moment of the sale.
- **`AllAccounted`**: `SalesAccounted` when `Faults = {}` and the clock moves.
- **`LegHeld`, `LegImplemented`** (`OfframpLegProofs`): `LegInv` and the
  refinement `ImplementsFiatLeg` when the clock moves, under every fault, overlaps
  and stale scans included. A sale is held by one request, which writes its
  FIAT_INIT item before anybody can read the sale's id in the table (`HeldOnce`),
  so there is one such item (`OpenedOnce`); an outcome is stamped after the item
  it was made from (`OutcomesLater`), and `TruthInv` says that all outcomes of a
  sale are the partner's one verdict. Hence the newest item of a sale changes
  twice at most. `StepRefines` maps the commit of a first FIAT_INIT item to the
  register's opening, the commit of a first outcome to its closing, `Settle` to
  its decision, and every other step to a stutter.
- **`OrderHeld`, `StatusForward`**: `OrderInv` and `StatusNeverRegresses` under
  `StrictClock`, `OneAtATime` and `OnePost`, with crashes, lost answers and failed
  writes. A notification that goes on has read the only item of its deposit
  (`OnlyItem`): a lookup returns the newest item, that item is the post, and the
  post is the oldest (`OneCourse`). So a new item of a deposit is the first one,
  follows the post, or is an outcome of the one sale; two outcomes agree by
  `TruthInv` (`CommitForward`).
- **`OrderPaidOnce`**: `OneSalePerOrder` under the same hypotheses.
  `NoDoubleSale` only speaks of two sales from one item; an order has one item
  at CRYPTO_COMPLETED (`OneCourse`), so two recorded sales of it would be two
  sales from that item (`OriginStored`: a recorded sale was made from an item of
  the same order that is still in the table).
- **`OrderImplemented`**: the refinement `ImplementsOrderLife`. The commit of an
  order's first item is the arrival, of the AML item the rejection, of a
  FIAT_INIT item the sale, which pays for no other order (`PaidElsewhere`: it
  was not on record before), and of an outcome the end; `Screen` and `Settle`
  are the partner's decisions, and the rest stutters (`StepLives`). A second
  outcome stutters too: it repeats the first (`CommitLives`).
- **`LambdaTyped`, `NeverLost`, `LineageHonest`** (`OfframpLambdaProofs`):
  `TypeOK`, `NothingLost` and `LineageTruthful` for any number of faults of every kind, from `LambdaInv`: an
  invocation is done only with its message on record and reports ALL_OK only of
  a sale, and records and sales only grow.
- **`SoldOncePerMessage`**: `OneSalePerMessage` for any number of messages and
  invocations when `OneFault` holds. `RetryInv`: a message has one invocation, and
  one that sold either goes on to report ALL_OK or records the critical item after
  the one fault is spent. So whatever comes after the sale succeeds, and the
  message is not delivered again.
- **`SaleNeverLost`**: `SalesTraced` for any number of faults of every kind, from
  `TraceInv`: a message that was sold is told of (`Told`), is being told of by an
  invocation that will report ALL_OK or is at the critical item (`Telling`), or is
  `severed`. An invocation that was telling can only finish or fail, and failing
  severs the message.
- **`RegistrationTyped`, `RetiredUsers`** (`RegistrationProofs`): `TypeOK` and
  `RetiredForGood` of `Registration`, overlaps and every fault included.
  `RegInv` says that a user of the pool is at the number of the request that
  created it (`Born`), that an update past its first read holds a user born at
  the old number, and that the user of an answered update is nowhere. A second
  update may delete somebody else's user at that number; it cannot bring the
  first one back, because a request creates at most once (`Past`).
- **`LoginsOwn`, `StoredSent`, `EmptyInterrupted`, `LockedOutNever`**:
  `LoginIsOwn`, `StoredIsSent`, `EmptyOnlyInterrupted` and `NeverLockedOut`, with
  every fault, of the numbers on which requests never overlapped; other numbers
  may overlap at will. `LoneInv` says what each request has made of its number at
  each call (`AtNew`), what an update still finds at the old one (`AtOld`), what a
  login has learnt (`LoginFits`), that the stored code is the present user's
  (`PinFits`) and the last one sent (`SentLast`). It is preserved because
  `updatePhone` deletes the old number's code before its user, and `register`
  stores a code only after both calls of `CognitoService.register`: an
  incomplete user belongs to a request that is at its second call or was cut off
  there and has ended without a code (`Unready`, `CutOff`).
- **`SocialsTyped`, `LinksTruthful`** (`LinkSocialsProofs`): `TypeOK` and
  `LinkTruthful` of `LinkSocials` under every fault. A redeemed code has one
  holder, first the callback between the exchange and the write (`HeldOnce`),
  then the link (`WrittenOnce`), and each keeps the account of the consent and,
  where there is a challenge, its user (`Fits`). Code and user of a callback are
  chosen independently.
- **`OneAccountEach`**: `OneAccount`, by `InTurn`: of a user who is not `raced`
  one callback is at work at most, and none is past its check while a link is
  there. So the defect of the unguarded check and write is exactly the overlap.
- **`GasIsGranted`, `WalletsBounded`** (`GasTankProofs`): `GasGranted` and
  `NeverOverfunded` for any number of clients and wallets and any amounts. Both
  count what a wallet has received in all, its balance and what it spent.
  `GrantInv`: the top-up of a request fills the gap it saw, is the transaction
  under its nonce once it was broadcast, and the gap is closed when that one is
  mined; a nonce that somebody else took first is refused, so no receipt is for a
  stranger's top-up. `TurnInv`: of a wallet that is not `raced` one client asks,
  and prepares a top-up only while none is pending.
- **`TankWithin`, `PaymentsGranted`, `PaymentsBounded`, `PaymentsTyped`**
  (`PaymentsProofs`): every step of `Payments` is a step of the tank or leaves its
  variables alone, so a behaviour of the composition is one of the tank, and the
  two properties carry over. `TypeOK` needs that the hashes suffice: transfers on
  the chain and payments still to be made add up to a constant (`ChainInv`).
- **`PaymentsShown`**: `AcknowledgedShown` for any number of payments, webhooks,
  retries and late writes, when the clock moves. `ShownInv`: every stamp, of an
  item written, awaited or late, is at most the clock, an acknowledged item is
  still in the table because only an item of the same stamp replaces it, an
  awaited item is younger than every other one of its client, late ones included,
  and only the client's own items carry the hash of its transfer.
- **`HistoriesFaithful`**: `HistoryFaithful` for a table and pages of any size.
  `Sorts` shows that the places `SortBy` computes are a permutation: the number of
  those up to an element is between 1 and n and grows with the order, so it is an
  injection into `1..n`, and a finite one is onto. In a sorted list the last item of a
  transaction is its newest (`MapNewest`), the first one gives it one place, and as
  the table has one item per key (`KeysUnique`) no other item is as new.
- **`ViewsAreComplete`**: `ViewsComplete` for any chain, wallet and address, each
  call told the address or nothing. The indexes of two filtered views part those
  of the transfers, an unfiltered one has all of them, and what is shown of a
  transfer differs by its hash (`HashesPlaced`), so counting them loses none.

Only model-checked, and why:

- `OrdersSettle` and `MessagesConsumed`: liveness under fairness is out of the
  prover's reach.
- `RetriedLater` and `Disconnects` are the two violations.

## 6. Not modelled

- Users: `users.controller.ts` forwards to `users.service.ts`, which is not in
  the repository. What other modules ask of it (`getUser`, the wallet's address)
  is taken to answer from Cognito and to be fixed.
- Quest events (the body is commented out), Strapi and colleges (stateless
  reads), Slack, S3 and Firebase (one outbound call each), the application shell
  and the deployment stacks. The stacks' table keys, sign-in aliases and queue
  settings are taken into the models.
- In modelled components: `updateEmail` always throws; `token/refresh` forwards
  a token; `socialcheck` unmarshalls an item that is unmarshalled already and
  changes nothing; the pass-through calls to the partner and the KYC parameters
  keep no state; Cognito's e-mail attributes are used by the users service only.
- Signatures, tokens, amounts and message texts: no property depends on them.
  A payload that lacks an attribute makes `marshall` throw before anything is sent
  and changes no state; it is no action of `TransactionApi`.
  `createdAt` of a message token is modelled as the code stores it (`StoreDevice`),
  without a property, since nothing says what it is for.

## 7. Plan

Done: the off-ramp with its refinement, the Lambda and their first theorems;
registration, social links, the gas tank, the REST writers, the histories and
their composition. Every safety and action property
that a passing run checks is also proved, as are both refinements. Left:

1. `StatusNeverRegresses` with scans that may be stale for fiat notifications,
   which the refinement of `FiatLeg` already tolerates.
