# BothSafe in TLA+

BothSafe is an escrow service: two people negotiate a deal in a *deal room*,
the buyer pays, the platform holds the money, the seller ships, the buyer
confirms and the platform pays the seller; either side may open a dispute,
which an administrator settles. Sellers withdraw what they have earned. This
directory holds TLA+ models of the backend (`src/backend/src`), the TLC
configurations that check them on small instances, and proofs that TLAPS checks
for instances of every size.

The question behind all of it is what happens when requests *overlap*. Every
handler runs in one PostgreSQL transaction at the default isolation level
(`PrismaService.runInTransaction` passes no option, so READ COMMITTED), or in
none at all. It reads with plain SELECTs, decides on what it saw, and later
updates by primary key without looking again. A unit test, which runs one
handler at a time, cannot tell what that does.

## 1. Inventory

| Component (under `src/backend/src`) | State it keeps | Operations | Hard part |
|---|---|---|---|
| Status table, `DealService.transition` | `deal_room.status` | `transition` | checks the edge from a status read earlier |
| Deal creation, invite, join (`deal/`) | deal, participant and invite rows | `create`, `preview`, `consume`, `join` | single use of the invite under concurrency |
| Section patches (`deal/deal-section-patch.service.ts`) | deal columns, terms hash, approval rows | `patchProduct`, `patchParticipant`, `patchDelivery`, `patchPayout` | authorised on one row, written to another |
| Approval (`deal/approval.service.ts`) | approval rows | `recordApproval` | two sides at once; a patch in between |
| Allowed actions (`deal/deal.allowed-actions.ts`) | none | `computeAllowedActions` | repeats the guards of seven handlers and has drifted from them; not modelled (section 5) |
| Wallets (`wallet/`) | append-only ledger | `payDealFromWallet`, `autoReleaseToSeller`, `getMyLedger` | balance computed from the ledger, row locks, a stale deal object, pages |
| Bank transfer (`payment/`, `khqr/`) | payment proof rows, payment code on the deal | `generateKhqr`, `submitReceipt`, `adminVerifyProof`, `adminRejectProof` | a code stored after the deal moved on; any proof of the deal may be decided |
| Shipping, confirmation | shipping proof, confirmation row | `submitProof`, `confirmReceived` | the release runs in a second transaction, its failure is swallowed |
| Disputes (`dispute/`) | dispute rows | `openDispute`, `adminRelease`, `adminRefund` | two decisions at once; unverified transfers |
| Withdrawals (`withdrawal/`) | withdrawal rows, ledger holds, notices, audit rows | `create`, `adminApprove`, `adminReject` | balance read by two statements without a lock; approve against reject |
| Notification outbox (`notification/`) | outbox rows with attempts | `enqueue`, `drain` every 5 s | overlapping drains, duplicates, stale counters |
| Idempotency keys (`idempotency/`, exception filter) | key rows with a recorded response | `use`, response capture | reservation, expiry, server errors, a write nobody awaits |
| Login attempts, accounts (`auth/`) | attempt, user, identity and wallet rows | `signupEmail`, `loginEmail`, `loginTelegram`, `loginGoogle` | lockout counted before a slow check; racing first sign-ins |
| Sessions (`auth/session.*`) | session rows | issue, look up, slide, revoke | extension against revocation |
| Telegram bot (`bot/`) | one conversation row per chat | commands, steps, creation with retries | read and update not atomic |
| KHQR verification, Binance Pay, storage, i18n, config, rate limits, frontend, deployment | little or none | | |

The components meet on a few rows. All deal operations read and write
`deal_room`, the negotiation writes the participant and approval rows that
payment relies on, and everything that moves money appends to one ledger. They
call each other directly, inside the caller's transaction; the one exception is
`confirmReceived`, which commits and then starts a second transaction for the
release. Session and idempotency middleware stand in front of every mutating
route and share the request. `PROJECT.json` names the hazards of each at the
line where it bites, with the properties that would catch them.

What makes each component correct, in a sentence: an invite admits one person;
terms are payable only when both sides approved them; money in escrow for a deal
is what its terms say while the deal is being fulfilled and leaves once; every
confirmed deal is released; a dispute is open exactly while the deal is disputed;
withdrawals never overdraw and end once; what is
marked sent was delivered and every notification ends; a key runs its handler
at most once while it lives; the lockout is overrun by no more than those who
were already in; racing sign-ins leave whole accounts and open the right one; a
revoked session stays revoked; a conversation's state says what was collected.

## 2. The modules

| Module | Models | Extends |
|---|---|---|
| `DealStatus` | the statuses and the transition table | |
| `DealRows` | the rows all deal handlers share, the calls in flight, `transition`, rollback | `DealStatus` |
| `DealNegotiation` | create, invite, join, material patches, approval | `DealRows` |
| `DealSections` | the delivery and payout sections | `DealNegotiation` |
| `KhqrPayment` | drawing a payment code and storing it | `DealRows` |
| `EscrowMoney` | payment, receipts, shipping, confirmation, release, disputes | `DealRows` |
| `DealRoom` | all of the above over the same rows and slots | `DealSections`, `KhqrPayment`, `EscrowMoney` |
| `RoomHistory` | the deal room with a memory of which deals were written to by a call that relied on something that had changed | `DealRoom` |
| `EscrowContract` | what the platform promises, with no status column or request in it | |
| `Withdrawals` | holds, decisions, and reading the ledger in pages | |
| `OutboxDispatcher` | enqueue and drain | |
| `HttpRequests` | requests in flight and the clock | |
| `Sessions`, `IdempotencyKeys` | the two middlewares, their rows and their late writes | `HttpRequests` |
| `RequestPipeline` | both middlewares in the order `AppModule` applies them | both |
| `SignIn` | lockout, accounts, identities, the three ways in | |
| `BotConversation` | the bot's conversation and its deal creation | |
| `MC*` | instances for TLC | the module of that name |
| `DealHalves_proofs`, `DealRoom_proofs`, `Withdrawals_proofs`, `OutboxDispatcher_proofs`, `RequestPipeline_proofs`, `SignIn_proofs`, `BotConversation_proofs` | proofs for every instance | the modules they are about, and `TLAPS` |
| `FiniteSums` | facts about sums over finite sets, which the proofs about money, failures and retries cite | community modules, `TLAPS` |

### How a handler becomes actions

*Deals.* `call[r]` is a slot for one request in flight. The *read* action of a
handler opens a call with what the handler keeps of the rows it read (`kept`);
the *write* action does all its writes and closes the call. That is what READ
COMMITTED allows: the writes of a transaction become visible together at its
commit, and other transactions may commit between its reads and its writes. A
guard of a read action is a check the code makes on the row it read; a guard of
a write action is something the database enforces at that point: a unique
constraint, a compare-and-set, a fresh SELECT in the same transaction.

Approval has three actions, because `recordApproval` reads the deal and later,
in separate statements, the approval rows; so has `generateKhqr`, which runs
three statements outside any transaction. `confirmReceived` is a chain: the
confirmation commits, the handler loads the deal again, and the release is a
transaction of its own.

`Abort` ends a call without effect. It stands for everything that rolls a
transaction back: an exception, a unique violation, a deadlock the database
breaks, a crash of the process. It is allowed at any moment of any call. With one
slot in `Requests` calls do not overlap, and the same module is the serial
system; with two slots all overlaps of two calls are possible.

*What went wrong, and where.* `RoomHistory` adds history variables, which watch the
steps of `DealRoom` and restrict none. `outdated` has the deals to which a call
wrote although the deal row was no longer as that call had read it; `missed` those
to which it wrote although the approvals or terms it had decided on were not.
`RowAsRead` and `ApprovalsAsRead` say, operation by operation, what a call relies
on: they are the checks a handler would have to repeat under a lock on the deal
row. `Intact` deals are not outdated, `Understood` ones are neither. A property of
these deals says two things: the listed writes are all that needs checking
again, and every other overlap is harmless. `late[d]` counts the edits of a deal
since it was last locked.

*Withdrawals* work the same way with `errand[c]`, but the slots of sellers and
administrators are separate constants, and a creation reads its balance in two
steps: credits and debits are summed by two statements. An entry is dated when
its transaction starts and numbered when it is written. `OpenLedger` and
`NextPage` are a seller who pages through the ledger meanwhile: a page is the set of
its entries, and the pages are kept in the order in which they were shown.

*The outbox.* A drain is the set of the rows it selected and will not skip,
with the attempt counts it read; it handles the oldest first. Each row is
`Send`, then `MarkSent`, or `MarkFailed` from the catch; the catch also takes a
failing update after a send for a failing send (`MarkSentFails`). `DrainStops`
is the death of the process, or an error in the catch itself.

*The pipeline.* A request goes through `session`, `attach` or `anonymous`,
`lookup`, `reserve`, `reread`, `handle`, `replay`; each stage is one await. The
extension of a session and the record of a response are not awaited, so they
are sets (`slides`, `captures`) whose members land, or fail, at any time and in
any order. The handler is its effect (`ran`) and its outcome; the exception
filter turns the outcome into a status class.

*Sign-in.* One action per statement or transaction between two awaits; the unique
indexes on `user.email` and on the identity are the guards of the inserts. What
a request proves is part of the request: `Proofs` are the results a signature,
an age or a claim may have, and `InitDataVouches`, `WidgetVouches` and
`GoogleVouches` are the verifiers' checks on them. An identity is a provider with the
id it gave out, so addresses and the ids of the other providers are different
identities (`SignInAssumption`).

*The bot.* A message is dispatched on the state read when it arrives;
`UpdateRead` and `UpdateWrite` are the two statements of `update`; a creation is
`ReadPayload` and then one `AttemptCreation` per retry.

### What is abstracted

* *Terms.* The four hashed columns are one value `terms[d]`, and the hash stored in
  `terms_hash` is represented by the terms it was computed from: no collisions. A
  patch sets all four or none. The other required columns are the set
  `filled[d]`. `CompleteTerms` are those with a title and a legal amount.
  `Defaulted[t]` is `t` with an absent description read as an empty one, as the
  material-edit check reads it; it is other terms with another hash.
* *Two lookups in one step.* `ApproveCheck` takes the caller's live row and the other
  side's in one step; `recordApproval` reads them by two SELECTs with the writes in
  between, and counts its own row as live in the second. The model therefore lets
  the deal move on in some cases where the code would not see both rows any more,
  which is the permissive side for every property checked.
* *Money.* The ledger is append-only and a balance is always the sum over it, so in
  the deal modules a wallet is that sum. `payDealFromWallet` locks both wallet
  rows before it sums, so the balance check and the entries are one step. In
  `Withdrawals`, where pages and two sums read it, the ledger is a set of
  entries. One currency.
* *The escrow wallet* exists: `prisma/seed.ts` provisions it.
* *Callers.* Authorisation by role is part of the guards of the negotiation. In
  `EscrowMoney` the role that each operation demands never changes, so the caller
  is not recorded.
* *Draft and paid.* `DRAFT` and `PAID_ESCROWED` are written and left within one
  transaction, so no state shows them.
* *Audit and outbox rows* that a transaction inserts are modelled for withdrawals,
  where they are a third and fourth record of the same decision, and left out
  elsewhere: nothing reads them.
* *Time* is a clock of ticks where lifetimes are compared (sessions, keys, the
  ledger), the age of each failure in `SignIn`, and in the outbox the highest
  attempt count whose backoff is over (the backoff of a row grows with its
  attempts and is measured from its creation).
* *Keys, bodies, answers.* A key is the header with its route; a body is the
  fingerprint of method, URL and body; an answer is whom it was made for, what it
  answers and the class of its status.

### Bounds

| Bound | Where | Why it is enough |
|---|---|---|
| one or two deals, two or three people, two or three terms | deal modules | a third person so that somebody may try to join a full deal; one incomplete terms where that matters; two amounts |
| two slots; one in `RoomContract` | deal modules | races are between two transactions on one deal; the proofs cover any number |
| `MaxReceipts` 1 or 2 | `EscrowMoney` | a transfer verified, refused or disputed; in `EscrowOverlap` a second receipt after a rejection |
| terms without a description, and the same with an empty one | `RoomOverlap` | an edit that is not material and changes the hash; one that is material, in both directions |
| `Focus` in `MCRoomHistory` | `RoomOverlap` | stops at a deal that was written to on an older row, of which the properties say nothing any more, and leaves to `NegotiationOverlap` what that run covers: expiry, late joins, filling in columns |
| three requests of one seller with funds 1, sums 1 and 2, two creations and two decisions in flight | `Withdrawals` | two creations that find the same balance, two decisions about one request, a sum that is too large |
| `Focus` in `MCWithdrawals` | `WithdrawalsOverlap` | five entries at most; nobody reads the ledger while three calls or more are in flight |
| `MaxTime` 1, page of 1 | `Withdrawals` | entries of the same and of another date, a boundary after every entry |
| `MaxRows` 3, batch of 2, `MaxRetries` 2, two drains, `MaxStops` 1 | `OutboxDispatcher` | a row outside the batch, an overlapping drain, one death; more retries only repeat the middle one |
| two requests, one token, one key, two bodies, logout; `MaxTime` 3, lifetimes 1 and 3, `MaxLate` 2 | `RequestPipeline` | a request, its retry, and both lifetimes outlived while a write is late |
| `MaxServing` 1 | `HttpRequests` | a request is served, or dropped, well within the life of a key: seconds against a day (`KeyAssumption`) |
| one address, one Telegram and one Google identity that knows the address; two requests; `MaxFails` 2, window 1 | `SignIn` | every pair of first sign-ins that can share an account |
| one chat, three messages at once, `MaxRetries` 3 | `BotConversation` | two handlers and a command between them; chats share nothing |

People, slots, request rows and bodies are interchangeable, and symmetry is used
for safety and for action properties only; the runs with liveness (`RoomContract`,
`EscrowStuckRelease`, `OutboxOverlap`, `BotOverlap`) use none.

`CHECK_DEADLOCK FALSE` appears where the system may really stop (every deal
settled or stuck, every request decided) or where a bound stops it (the clock,
the rows of the outbox). The negotiation, the sign-in and the bot check deadlock.

## 3. What the runs check

*However calls overlap, component by component:*

| Run | Property | Says |
|---|---|---|
| `NegotiationOverlap` | `AgreedByBoth` | a deal leaves the approval phase only if both sides recorded an approval of the same complete terms |
| | `SpentIffJoined` | the invite is spent exactly when two different people take part |
| | `StoredHashIsCurrent` | the stored hash is that of the stored columns |
| | `NegotiationTypeOK` | types |
| `EscrowOverlap` | `BooksBalance` | every ledger entry has its counterpart, and escrow holds what its deals add up to |
| | `NoOverdraft` | two payments at once cannot overdraw a wallet |
| | `AutoReleaseOnce` | the automatic release pays once, after a confirmation |
| | `EscrowTypeOK` | types |
| `WithdrawalsOverlap` | `HoldsAreCovered` | what a seller has asked for is covered by what the wallet was given, once for each creation that can be under way |
| | `OneStory` | row, ledger, notices and audit trail agree on each request; it is decided at most once for each decision that can be under way |
| | `PagesAreComplete` | who pages to the end has seen every entry that was there at the start, on one page each, newest page first |
| | `WithdrawalsTypeOK` | types; entry numbers are unique |
| `OutboxOverlap` | `OutcomesAreEarned` | a row marked sent was delivered, one marked failed was tried `MAX_RETRIES` times |
| | `EveryRowEnds` | no row stays pending for ever, overlapping drains and full batches notwithstanding |
| | `OutboxTypeOK` | types |
| `PipelineOverlap` | `OncePerKey` | the handler has its effect once at most while the row of its key lives |
| | `ReplayIsFaithful` | a recorded answer goes to its user and its request, and is never a server error |
| | `RevokedStaysRevoked` | no late extension brings a deleted session back |
| | `IdleSessionsDie` | no session reaches further than one lifetime past its last use |
| | `PipelineTypeOK` | types; no row expires later than its lifetime allows |
| `SignInOverlap` | `LockoutHolds` | a window holds at most one failure below the limit and one per request in flight |
| | `AccountsAreWhole` | one user per address, a usable identity for each password, wallets for each provider account |
| | `RightUser` | a request gets the session of the user whose identity it proved |
| | `SignInTypeOK` | types; a session is for a user |
| `BotOverlap` | `FieldsMatchState` | the state of a conversation says what it has collected |
| | `RetriesAreOwed` | the retries counted in a chat's row are no more than the failures of the creations under way in that chat, whichever conversation they came from |
| | `ConfirmationEnds` | a confirmation leads back to idle |
| | `BotTypeOK` | types |

*However calls overlap, over the whole life of a deal* (`RoomOverlap`):

| Property | Says | Of which deals |
|---|---|---|
| `ConsentBeforeMoney` | money is held or owed, or a transfer reported, only if both sides recorded an approval of the same complete terms | all |
| `LateEditsAreFew` | a deal that is paid for is edited by fewer late calls than there are slots | all |
| `PaidOutIffSettled` | paid out once, exactly when settled | `Intact` |
| `HeldMatchesStatus` | what escrow holds follows from status and terms | `Intact` |
| `DisputeMatchesStatus` | a dispute row is open exactly while the deal is disputed | `Intact` |
| `IntactDealsKeepContract` | each step is one of `EscrowContract`, or none | `Intact` |
| `ConsentStands` | a payable, paid or settled deal carries both sides' live approvals of its terms, up to a description that became empty | `Understood` |
| `ApprovedMeansPayable` | live approvals of the same terms by both sides end the approval phase | `Understood` |
| `OneLiveApproval` | a side has one live approval row at most | `Understood` |

*One call at a time*, payment codes, sections and bank transfers included, with failures
at any moment (`RoomContract`): `KeepsContract`, the deal room implements
`EscrowContract`, in which the platform loses money in one way only, by a dispute
about a transfer nobody has verified; and `ConfirmedIsReleased`, a confirmed deal is
released if the release does not fail.

Three runs end in a counterexample; each
states what a comment or a requirement says (`findings` in `PROJECT.json` quotes
the line):

| Run | What happens |
|---|---|
| `EscrowMoneyRace` | two wallet payments of one deal debit the buyer twice |
| `EscrowStuckRelease` | a release fails once and nothing ever retries it |
| `WithdrawalDoubleDebit` | hold and payout are both debits: an approved withdrawal costs its seller twice its amount |

### Fairness

Liveness is only claimed of work the server has accepted.

* `EscrowFairSpec` (`EscrowStuckRelease`): each slot goes on or ends in an error.
  Node runs every continuation whose promise has settled, and the database
  answers or fails.
* `SoundReleaseSpec` (`RoomContract`): the same, and the call that carries the
  automatic release does not fail. That the release may fail is exactly what
  `EscrowStuckRelease` shows; all other calls fail at will in both.
* `OutboxFairness`: the cron job starts drains for ever (`@Cron` fires every five
  seconds), a drain under way goes on, and time passes, so backoffs end. Nothing
  is assumed about sends: each may fail.
* `BotSpec`: a message handler that has started goes on; every await in it ends.
  `ConfirmationEnds` would not hold of a process that dies for good.

Nothing is assumed about requests that nobody has sent: a deal may stay unpaid
for ever.

## 4. What is proved

Each safety invariant and action property that a passing run checks is also a
theorem about every instance, except the refinement of `RoomContract` (section 5). No
theorem assumes anything about how calls overlap. TLC checked the properties on the instances of
section 3 first. The theorems hold for any number of people, deals, rows, keys and
overlapping calls, and for any values of the bounds, under the assumptions named in the modules (`ASSUME`), which say that
nulls are not values, that amounts are positive, or that the rows of a table are
finite in number. Each proof has the same parts: the inductive invariant with the
reason for each of its conjuncts, what one step of each action does to it, and
last the theorems that name the properties.

### `DealHalves_proofs`: negotiation and money, all overlaps

From `NobodyAssumption` (the null is not a person) and `CompleteTermsAssumption`
(complete terms exist and are terms):

* `MembershipTheorem`, `InviteTheorem`: `NegotiationTypeOK` and `SpentIffJoined`. The
  type invariant is not inductive alone: writing an approval row needs the
  caller's side, and `RoleOf` finds one only for a participant. `MembershipInv`
  adds `CallersTakePart` (who passed the authorisation still takes part at the
  write, since participants are never removed) and `Unborn` (a deal that does
  not exist has neither invite nor participants, which creation relies on).
* `AgreementTheorem`: `AgreedByBoth`. `AgreementInv` adds
  `CommitsHaveEvidence`: an approval in flight that claims to have seen both
  sides knows complete terms for which the other side's row was recorded. Rows
  may be invalidated between the look and the commit, but `RecordedKept` shows
  that they are never forgotten, `RoleKept` that the caller stays on one side, and
  `NewlyAgreed` that only such a commit takes a deal out of the approval phase.
* `StoredHashTheorem`: `StoredHashIsCurrent`; inductive as it stands.

From `EscrowAssumption` (the escrow wallet is nobody's, amounts are positive,
initial balances are not negative):

* `EscrowTypeTheorem`, `NoOverdraftTheorem`: `EscrowTypeOK` and `NoOverdraft`.
  `MoneyInv` adds `PartiesKnown`: both sides of an agreed deal are people, so that
  every entry goes to a wallet that exists. The balance is compared with the
  amount in the step that debits it, which is what the lock on the wallet rows
  gives.
* `AutoReleaseTheorem`: `AutoReleaseOnce`. `ReleaseInv` adds
  `OneReleases` (at most one call is on its way from the confirmation to the
  release of a deal), `ReleaseIsPending` (that call has confirmed, and nothing has
  been released yet) and `UnconfirmedIsUnpaid`. The unique confirmation row is
  what makes them inductive; the status is not used, and cannot be, since
  overlapping calls overwrite it.
* `BooksTheorem`: `BooksBalance`, with `FiniteRows`: a pair of entries that takes an
  amount from one wallet and gives it to another leaves the sum over the wallets
  as it was, and moves the escrow wallet as much as the sum over its deals.

### `DealRoom_proofs`: the whole deal room, all overlaps

The theorems are about `HistorySpec` (and `MoneyTheorem` about `DealRoomSpec`), from the
assumptions above, `DefaultedAssumption`, `AmountAssumption` (a default for the
description changes neither completeness nor amount) and `SlotsAssumption` (finitely many slots).

`RoomInv` is what survives every overlap: types, that committed rows rest in eleven of
the statuses, that nobody is on both sides, and for each call (`CallInv`) that its deal
exists, that its caller takes part and that the status it read is one its operation
accepts. Four invariants stand on it:

* `MoneyTheorem`: `ConsentBeforeMoney`. `ConsentInv` adds `Evidence`: each call that would
  take a deal past the approval phase, or move money for one, belongs to a deal for which both
  approvals are recorded. Approval rows are invalidated but not forgotten, so evidence once there stays.
* `LateTheorem`: `LateEditsAreFew`. `LateInv`: the edits since the deal was locked, and
  the calls under way that may still edit it, are together fewer than the slots. A
  call that locks the deal is none of them, and an edit ends its call.
* `PaidOutTheorem`, `HeldTheorem`, `DisputeTheorem`, from `Funded`: `DealFunds` for every
  deal that is not outdated. A step that leaves a deal intact was decided on the row as
  it is, so what the status said about its money when it was read is what
  the money is when it is written. `ContractTheorem` (`IntactDealsKeepContract`) sorts such
  steps into those of `EscrowContract`.
* `ConsentTheorem`, `ApprovedTheorem`, `OneApprovalTheorem`, from `Consented`:
  `DealApprovals` for every deal that is neither outdated nor missed.

### `Withdrawals_proofs`, all overlaps

* `PagesTheorem`.
  `PagesInv`: while there is more to read, the cursor is the oldest entry shown, and
  what is due has been shown or is still below it. The order is by date and number
  and a new entry gets a new number, so nothing that was there ever moves.
* `HoldsTheorem`: `HoldsAreCovered`. `HoldsInv` gives each slot a share as large as
  everything the wallet was given, and lets the holds and what the calls past their check
  will add to them fill those shares. A check finds every hold that has been
  written, so holds and its own amount fit one share (`CheckFits`), and the pledges
  of the other slots fit theirs. What is read of the credits is never more than the truth,
  since they only grow (`CallFits`).
* `StoryTheorem`: `OneStory`. Every write appends one record, one entry and one notice
  of the same kind (`ToldMoves`). `Bounded`: the decisions recorded and those under way are
  together no more than the slots; a decision starts only from a pending request, about
  which none was recorded.
* `WithdrawalsTypeTheorem`.

### `OutboxDispatcher_proofs`, `RequestPipeline_proofs`, `SignIn_proofs`, `BotConversation_proofs`

* `OutboxTypeTheorem`, `OutcomesTheorem`. `OutboxInv` adds that the attempt counts a
  drain has read lag behind the calls made (`ReadsLag`), and that once the adapter
  was called for a row, that call is one more than the count read (`CallsCount`).
  Two drains may write over each other's counts, but a count never exceeds the calls.
* `PipelineTypeTheorem`, `IdleTheorem`, `RevokedTheorem`. `SessionInv`: an extension
  under way reaches at most one lifetime past the last use of its token, so it may
  land in any order; it is an update, so it cannot bring a deleted row back.
* `OncePerKeyTheorem`, `ReplayTheorem`. `KeyInv`: while the row of a key is alive at most
  one request is at its handler (`OneHandler`), the row is of that request, and no
  handler has had an effect before (`HandlerOK`); a row that a request did not find
  was expired when it looked, or was made since and outlives the request
  (`OldOrNew`); a record that lands on a row alive is of that row's request
  (`CaptureOK`). The primary key makes reservations exclusive; `KeyAssumption` (a key
  lives longer than two requests may take) excludes that a row expires under the
  requests that met it.
* `SignInTypeTheorem`, `LockoutTheorem`, `AccountsTheorem`, `RightUserTheorem`.
  `RequestsInv`: what a request has found out stays true between its statements
  (`Fits`). `AccountsInv` rests on the unique indexes. `PlacesAreLeft` counts, for each
  address, the failures in the window and the requests under way together: starting
  a request takes a place, failing gives the place to a failure.
* `BotTypeTheorem`, `FieldsTheorem`, `RetriesTheorem`. `HandlersFit`: what a handler is about
  to write fits the state it writes. The retry counter is at most the sum of the
  failures of the creations under way in its chat, those of a conversation that was
  cleared meanwhile included, and therefore below its limit.

### `FiniteSums`

`SumFunction` of the community modules is a fold over a set. `FiniteSums` unfolds it
into a recursive function and proves what happens to a sum when one value
changes, by induction over the number of elements, which it leads back to the
well-foundedness of `<` on the natural numbers.

## 5. What is only model-checked, and what is not modelled

Only checked: liveness, which the prover cannot do (`ConfirmedIsReleased`,
`EveryRowEnds`, `ConfirmationEnds`), the refinement `KeepsContract` of the serial room
(`ContractTheorem` proves its steps for every deal that stays intact), and the
counterexamples of the three runs that end in one.

Not modelled:

* `KhqrVerifier` and `settleEscrowFromKhqr`, which have no caller, and Binance Pay,
  whose services throw.
* The fallback that makes an administrator's wallet the escrow wallet when the
  seed has not run; the models start from the seeded database.
* `computeAllowedActions`: a pure function of status and role, which a table of cases
  checks better than states do. Section 6 says where it differs from the handlers.
* Rate limits, which are kept by the throttler library; the storage service, which
  signs upload locations; money, token, error and configuration helpers;
  translation; deployment.
* The frontend. It keeps no deal state, and most of it is not wired to this
  backend yet: it asks for an action `pay_with_khqr` where the backend offers
  `pay_khqr`, compares statuses in lower case, and calls routes the backend does
  not have.
* No code ever moves a deal to `CANCELLED` or `EXPIRED`, so no action does.

## 6. Divergences seen

Three have a run of their own (section 3). The following were met while
modelling. Each states what the model does, which is what the code does.

*Overlapping deal calls.* Outside `Intact` and `Understood` the properties of
`RoomOverlap` fail: a patch that commits between the
reads and the writes of the second approval leaves a payable deal without a live
approval (`ConsentStands`); two simultaneous approvals do not see each
other and the deal is never payable (`ApprovedMeansPayable`); one person
approving twice at once makes two live rows (`OneLiveApproval`); two payments debit
twice (`HeldMatchesStatus`); release and refund of one dispute both pay
(`PaidOutIffSettled`). A patch
or a payment code authorised before the payment is written after it (one for each
other slot, says `LateEditsAreFew`). The
comment on `transition` (deal.service.ts 160-163) says that a competing change is
never overwritten; with an update by id it is.

*One call at a time.*

* A material edit before anybody has joined moves the deal to the approval phase,
  and `consume` then rejects every join. The invite still shows the preview.
* A dispute about a bank transfer nobody has verified can only be settled by
  paying out, or back, money that no entry brought into escrow for this deal. It is
  the contract's `Advance`, and `HeldMatchesStatus` allows for it.
* Blanking a product type or a name on a payable deal is not a material edit and
  leaves it payable, which requirement 6.5 excludes; requirement 6.3 is not met
  either, since payment stays offered.
* Changing a description from null to the empty string is not material either but gives the terms
  another hash: one serial patch of a payable deal leaves it payable, and then paid, with
  approvals of a hash that is not its own. `IsMaterial` and `Defaulted` model it, and
  `ConsentStands` allows for exactly this.
* A payment code keeps the amount it was drawn for after a material edit.
* Offered actions differ from the handlers' guards: `submit_khqr_receipt` is offered in
  `PAYMENT_PENDING_VERIFICATION`, where the handler refuses it, and `open_dispute`
  is not, where the handler accepts it; `approve` is offered on a deal with missing
  fields, which the handler refuses. The shipping proof offered in
  `PAID_ESCROWED` would be refused, but no state shows that status.

*Withdrawals.* Two creations read one balance and overdraw
the wallet (requirement 15.6): `HoldsAreCovered` counts the wallet once for each. Approve
and reject of one request both take effect, and the row says what came last (16.4): `OneStory`
counts the decisions. Notices
to administrators carry the recipient kind `admin`, which `resolveAdapter` does
not know and hands to the in-app adapter. `adminList` pages by an id cursor over
an order by date alone.

*Outbox.* A row may be delivered more than once; nothing claims otherwise. The
adapters of this build only log, so a failing send is the failing database.

*Idempotency keys.* A server error, or a crash, leaves the key in flight for its
whole lifetime, and retries get a conflict, while the comment at
idempotency.middleware.ts 393-395 wants the client to retry. Every client error is
recorded and replayed, a refusal for too many requests included. After expiry the
row still occupies its primary key (nothing purges it), so from then on requests
with that key run without a reservation; `OncePerKey` is stated for the lifetime.

*Sessions and sign-in.* The comment at session.service.ts 175-178 says the guards
are checked in the database; the row is read by token and checked in the process.
That is why an extension can revive an expired row, and `IdleSessionsDie` is
about the last use. Attempts that pass the lockout together can exceed its limit
by the number in flight. When a known Google account brings an address somebody
else has, the failed update aborts the transaction although the code catches
the error, so the sign-in fails where the comment says it goes on.

*Bot.* The library that delivers updates is not installed, so `processMessage` has
no caller. The conversation collects no name, which `DealService.create` requires,
so every creation is refused and the action for its success never fires; it is
left out of `AttemptCreation`. The third failure clears the conversation although
the comment says the payload is not lost. An update that overlaps `/cancel` can
take the conversation up again where it was. A creation that retries goes on counting
failures in the row after `/cancel`, so the conversation that `/newdeal` then
starts inherits them and is given up sooner.

*Rate limits.* The five named buckets apply to every route unless a route skips
them, while the comment in app.module.ts treats the tight ones as opt-in.

## 7. Plan

Done: all modules of section 2, their runs, and the proofs of section 4. Left, in
order of importance:

1. The contract with overlaps: how far from `EscrowContract` a deal can come in which
   calls did rely on an older row, as `HoldsAreCovered` says it for withdrawals.
2. Whether a call that goes on after its commit (`confirm`, then the release) needs all of
   `RowAsRead` at its second transaction.
3. Shorter proofs: leaves that cite more than they use, and cases of the room that
   share a lemma.
