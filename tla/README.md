# Specifications of the procurement core

TLA+ models, TLC runs and TLAPS proofs about the procurement core of this
repository: a multi-company e-procurement service in which a buyer publishes a
purchase request (a *listing*), suppliers bid on it in rounds, the buyer awards
it - after internal approvals, where a flow asks for them -, and the award
becomes orders with payments.

## 1. The system

The server is `apps/api` (NestJS, Prisma, PostgreSQL at READ COMMITTED). It runs
as several processes without shared memory; everything shared is in the
database. `apps/web`, `apps/admin` and `mobile` are clients, `packages/db` holds
the schema, `packages/shared` validation and helpers used on both sides. The
intended rules are numbered in `docs/invariants.md` (INV-SM-*, INV-MONEY-*,
INV-APPR-*).

Three mechanisms keep the handlers apart, and the models distinguish them:

* a **conditional update** (`updateMany` with the expected state in `where`,
  then a look at `count`): test and write are one atomic step;
* a **row lock** (`SELECT ... FOR UPDATE` inside a transaction) with a second
  read under the lock;
* nothing at all: the handler **reads, and writes later** what it concluded.

Handlers of the last kind, and the parts of the others that rely on the first
read, are where the difficulties lie. Work after a commit (mail, notifications,
events between services, audit) is best effort and never repeated, with a few
crons that repair what is found lying about.

### Inventory

| Component | State | Operations | Interacts with | Hard parts | What makes it correct |
|---|---|---|---|---|---|
| **Orders and payments** `company-orders` (3.0 k lines) | order row (status, cancel request, defect notice, letter of credit stamps), payment rows | accept, reject, ship, receive, complete, cancel, cancel requests, defect notices, letter of credit steps, recordPayment, paymentDecision | made by an award; a rejection takes the award back | four checks before the write, one dispute state for two kinds of dispute, money cap over concurrent rows | never more than the total, no goods without the agreed security, closed is final, confirmed money is not stranded |
| **Listings, bids, award** `company-listings` (13.5 k lines), `listing.scheduler` | listing row, one bid row per company, approval reference | publish, delete, close, cancel, new round, place / extend / eliminate bids, award (whole, by item), suspension | approvals (call, event), orders (transaction), moderation, crons | what was read before the lock, rounds against late bids, two awards at once, two rejections at once | one award alive, ordered at the price that was offered, no bid outside the rules of its round |
| **Approvals** `company-approvals` (2.6 k lines) | request, steps | createAwardRequest, decide, cancel, fallback cron, reminder | called by listings, calls the award, event back | decision and award are two transactions, approvers come and go, partial unique index | chain never stuck or skipped, four-eyes principle, final decisions, nobody is waited for in silence (INV-APPR-1) |
| **Listing moderation** `admin-inspection.service` | listing row | closeListing, reopenListing | listings | works on listings the owner works on | does not revive what was awarded or cancelled |
| **Members and seats** `company-users`, `seat-gate`, `account-deletion`, `admin-company-users` (5 k lines) | members, founder, permissions, seats, team invitations | roles, permissions, hand-over, (de)activate, remove, invite, accept, resend, select seats, delete account; the platform's add, deactivate, suspend | listings, approvals (who may act) | decided before the company lock, written under it; the platform takes no lock | whoever leaves leaves a manager; who joins finds a seat; a closed company is empty |
| **Connections** `company-connections`, `company-blocks` | connection rows in two directions | invite, accept, reject, block | who sees which listing | both sides at once, unordered unique index | at most one connection per pair |
| **External invitations** `external-invite-dispatcher`, parts of `company-connections` (3 k lines) | queue of invitations with leases, link of buyer and address, what is known of the address | invite, withdraw, sweep, claim, hold, send, record, remind | e-mail provider, sign-up, discovery runs | letters leave outside transactions; leases end; the cron lock fails open | one letter and one reminder, a week between them, silence after opting out, nothing stuck |
| **Discovery runs** `discovery-runs.service`, announcement of `company-listings` | runs, candidates, invitations, the stamp of the announcement | enqueue, claim, search, store, invite, finish, sweep, resume; hold, announce | listings, external invitations, notifications, crons | long search between steps, crashed ticks resumed, the announcement waits for the run | one letter per company and request, true results, no announcement held for ever |
| **AI budget** `ai-budget`, `ai.service`, `assistant` (1.7 k lines) | rows of usage | reserve, settle, fail, reap | external models | long calls between reservation and settlement, midnight between clock and lock, bills nobody reports | caps hold for what was foreseen; what is billed is counted |
| **Reminders** (orders, listings, approvals) | a stamp per reminder | claim, notify, release | notifications | several replicas, crash after the claim | at most once |
| The rest | see `PROJECT.json`, "components" | forms, read models, files, texts, sign-up, clients | | no protocol of their own | |

Modelled, except for what section 3 leaves out: orders and payments, listings,
approvals, moderation, members and seats, external invitations, discovery runs,
the AI budget. Connections between members and order reminders are not
(sections 7 and 8).

## 2. How the models are read

* **One action per commit.** A handler whose early reads are repeated by the
  condition of its write is one action, taken when it commits. A handler that
  acts on earlier reads is split: `XRead` puts a request with exactly what was
  read *in flight* in a session (`req[s]`), `XCommit` writes with exactly the
  conditions the write has, and any other action may come in between. Sessions
  are a bound on what is in flight together, not on who may call.
* **Where the data went.** Prices are versions of a bid, amounts of approvals
  the number of steps they need, time a boolean that turns once ("closesAt has
  passed", "validity has run out", "younger than the duplicate window").
  Permissions and the company a caller belongs to are tested by every handler
  first and are left out, except in `Approvals`, where they matter.
* **Faulty variants.** Next to an action stands here and there a variant marked
  "Faulty variant": what the handler would be without one of its guards. They
  are not part of `Next`; each property is shown to fail with one of them
  (`PROJECT.json`, "mutants").
* **Names** follow the source; `PROJECT.json`, "map", gives the lines of every
  definition.

## 3. Modules

| Module | Contents |
|---|---|
| `CompanyOrders` | one order and its payment rows |
| `PaymentLedger` | abstract: what the payments of an order promise |
| `CompanyOrdersProofs` | proofs about `CompanyOrders` |
| `ListingAward` | one listing, its bids, its orders as far as they matter to it |
| `ListingAwardProofs` | proofs about `ListingAward` |
| `Approvals` | the approval of an award |
| `ApprovalsProofs` | proofs about `Approvals` |
| `Members` | the team of one company |
| `MembersProofs` | proofs about `Members` |
| `ExternalInvites` | invitations by e-mail to one address |
| `ExternalInvitesProofs` | proofs about `ExternalInvites` |
| `DiscoveryRuns` | the supplier search of one request and its announcement |
| `DiscoveryRunsProofs` | proofs about `DiscoveryRuns` |
| `AiBudget` | the monthly budget of one company for a language model |
| `AiBudgetProofs` | proofs about `AiBudget` |
| `MC...` | instances for TLC |

### CompanyOrders (`company-orders.service.ts`, `order-payments.ts`, `payment-plan.ts`)

State: `plan` (payment plan on the order), `order` (its row), `payments`
(`FREE`: not inserted yet), `req`. One action per handler: `accept`, `reject`,
`receive`, `complete`, `cancel` (row lock), `requestCancel`,
`withdrawCancelRequest` (two conditional updates), `approveCancelRequest`,
`rejectCancelRequest`, `paymentDecision` are one action each; `ship` is three
(first read, payment checks, transition - the checks read at different times),
`raiseDefectNotice`, `withdrawDefectNotice`, the three letter of credit steps
and `recordPayment` are two each. `Abandon` is any request that ends without a
write, a crash included. Sums over payments are cardinalities of sets of money
units, which makes them usable in proofs. `DISPUTED` has two meanings in the
code: a defect notice, or a refused cancellation request (`IsA1Dispute`).

`PaymentLedger` has three variables - waiting, confirmed, closed - and says what
a buyer or seller may rely on; `ImplementsLedger` says the rows implement it,
which TLC checks and `OrdersImplementLedger` proves.

Left out: the reminder of due payments; which company calls; free text, bank
accounts, delivery dates.

### ListingAward (`company-listings.service.ts`, `listing.scheduler.ts`, `admin-inspection.service.ts`, `company-orders.service.ts`)

State: `listing` (status, round, format, whether `closesAt` has passed, number
of awards), `bid` (one row per company: status, version, `round`,
`activeBidRound`, validity, elimination), `order` (per seller, currency and
award), `awaiting` (winners of the PENDING approval request), `req`.

* Listing: publish, delete (tests DRAFT, then deletes by id), closing time,
  start of evaluation, closing cron, cancel, close without award, moderation.
* Bids: `placeBid` (read; compared again under the locks of listing and bid),
  `extendBidValidity` (write conditioned on the bid alone), `eliminate`.
* Rounds: `createNextRound` with the three ways to carry bids over. In AUTO the
  bids are chosen before the transaction and written by id.
* Award: `award` / `awardByItem` read, ask for an approval or run; the
  transaction shared by `runFullAward` and `runItemAward` compares state and
  version of every winner. A bid in two currencies becomes two orders.
* Way back: `revertAwardInTx`, in the transaction of a rejected order. Its count
  of other live orders sees committed rows only, so count and commit are two
  actions, with the rows they lock.

Left out: prices and their monotonicity, auction ranking and automatic
extension of closing times, the embargo on reading bids, invitations, questions
and documents, and the legacy states nothing writes any more (WITHDRAWN,
publication approval).

### Approvals (`company-approvals.service.ts`)

State: `listing` (three states are enough), `canAct` (members who may act now),
`request`, `step` (per request a chain), `req`, `cron`.

* Asking: `AwardRead`, `RequestApproval` (first approver replaced when it is the
  initiator or cannot act; partial unique index on PENDING), `SuspendListing`.
* Deciding: `DecideRead` tests everything and settles the next step;
  `ApproveCommit` / `RejectCommit` test only that request and step are still
  PENDING. The last approval is committed before the award runs (`RunAward`,
  `AwardFails`, then `UndoApproval`). The initiator may cancel.
* `fallbackInactiveApprovers`: the cron scans, then replaces an approver who
  cannot act or is the initiator; when nobody can, it rejects the request,
  closes its steps and tells the listing, in three commits.
* `Crash`, `CronCrash`: the process stops, at any point.

Left out: amounts (thresholds ascend, so they only fix how many of the first
steps are needed), definition of flows, the daily reminder, audit and
notifications (best effort). The loss of the company's verification at the last
step is one of the reasons an award may fail.

### Members (`company-users.service.ts`, `seat-gate.ts`, `company-permissions.ts`, `account-deletion.service.ts`, `admin-company-users.service.ts`, `admin-companies.service.ts`, `owner-buy-seat.ts`)

State: `member` (one row per person: status, label, permissions), `owner`,
`company` (open, suspended, closed by its last member), `tier`, `invitation`,
`req`, `started`. Every operation of `company-users` takes a lock on the
company's row, but most decide on reads made before it. Such an operation is a
`Begin...` that puts the request in flight with what it will write (`roles`,
`permissions`, `deactivate`, `activate`, `remove`, `adminDeactivate`,
`ownerBuySeat`, `resend`, `accept`, `suspend`, `unsuspend`) and a `Commit...`
with what is asked again under the lock: the seats (`SeatAvailable`), the last
manager (`NotLastAdmin`), and for a joining member the company and the
invitation. `Invite`, `CancelInvitation`, `SelectSeats`, `EraseAccount`
(`deleteOwnAccount` and `eraseByAdmin`) and `AddUser` read everything under the
lock and are one action. `adminDeactivate` and the suspension take no lock at
all. `CommitTakeOut` counts the managers and removes or deactivates in one step.
In the code `adminDeactivate`, which waits for no lock, can write between that
count and that write; it writes another row and tests nothing any more, so that
the same state is reached with its write after the step. Nobody is then left who
manages, which is what the run `lockout` reaches too; the model has
`adminDeactivate` as the step that leads there, and `LeavingKeepsAManager`
speaks of the operations under the lock.

Permissions are four kinds: to manage users, to manage the company, to buy, to
sell; what varies inside a kind does not matter to seats or managers. The role
tags of buyers and sellers are the seats; the labels founder and manager remain.

Left out: the change of an e-mail address, the hand-over of listings and orders
on removal (a state of theirs, in the same transaction), the account at the
identity provider, mail budgets, and the open orders and live listings that keep
the last member from closing the company (the model closes it in more cases). A
person who left does not come back under the same name. `requireUsableInvitation` marks a late invitation EXPIRED by a write of
its own, which the model has as `MarkExpired` and does not delay. The rights of
the caller are those at the start of the request, as in the code (the guard).
Three things the code does may surprise and are in the model: a suspension
decided before the last member left writes over `closed` (nobody can act on the
company all the same); `resendInvitation` writes PENDING whatever the row is by
then, so that a cancelled or accepted invitation can be pending again; the seats
a request has read decide how many it asks for.

### ExternalInvites (`external-invite-dispatcher.service.ts`, `company-connections.service.ts`, `company-auth.service.ts`)

One buyer and one address without an account; one row of
`external_listing_invites` for each request the address is invited to. State:
`row`, `link` (the referral that carries the rows), `listing` (open; off:
private, or its automatic search is switched off; closed), `address` (opted out,
registered, has opened a link), the letters of the last days (`last`, `sends`),
`run` (per instance of the server: what its dispatcher has read and is doing),
`running` (requests between two statements), `lock`, and history counters.

* Buyer and address: `Invite`, `CancelLink` and `CancelQueue` (two statements),
  `Downgrade`, `SwitchListing`, `CloseListing`; `OptOut`, `Click`,
  `SignUpWithLink`, `VerifyEmail` and `ReadInvites` read the links that are
  PENDING, `AcceptLink` accepts them later by their ids, whatever they have
  become.
* Dispatcher, one action per read or write: `Sweep` (drops and resumes),
  `ReadDue`, `CapReached`, `Claim` (the lease), `TurnedAway`, `Decide` (pause,
  hold, window, batch), `Send`, `Record`, `RemindPick`, `RemindSend`,
  `RemindRecord`, `FinishRun`.
* Faults: a crash between any two of these, an answer of the mail service that
  is lost, a lease that ends while its row is in hand, a cron lock that fails
  open (`lock`; without it every instance runs). `MaxFault` bounds the first
  three, and the properties count them: each may cost one letter more.

Time is what it does to the rows: due or not; last letter fresh (two days),
recent (a week) or neither.

Left out: drafts and the embargo before publication, blocked countries, daily
and platform budgets except that the cap may be reached, the 90-day expiry of a
row and the 30 days after which joining does not look at a link, the ALLOWLIST
(as SUPPRESSED), paging, which requests joining opens. `Invite` is one action
although the code reads, revives the link and queues the row in several
statements: a cancellation between link and row leaves a queued row with a
cancelled link, which no dispatcher reads. Read and write of the resume are one.

What the code does and no property forbids: `Record` writes SENT or FAILED over
a row that was cancelled meanwhile (SENT is then the truth); with the lock open
two instances may both remind, break the hold, or postpone each other's rows;
the cap is counted per run; a link withdrawn while a sign-up is under way
becomes ACCEPTED; a letter that left although the service answered
FAILED is not in the history; `CancelQueue` also cancels a row queued between
the two statements, and a crash between them leaves a queue without a link,
which no run reads.

### DiscoveryRuns (`discovery-runs.service.ts`, `company-listings.service.ts`, `listing.scheduler.ts`)

The supplier search of one public request and the announcement that waits for
it. State: `listing` (open or not, the box that asks for the search, the stamp
of the announcement), `run` (rows in order of creation: state, trigger, lease,
age), `cand` (candidates and their results), `invitation`, `notice` (the letter
of an invitation), `letters`, `call` (executions of `announceListingOpen`),
`work` (ticks of the minute job), `crashes`, `slip`.

* Buyer: `Publish`, `SwitchBox`, `BuyerInvites`, `Close`.
* `announceListingOpen`: `Hold`, `HoldWait`, `ClaimAnnouncement`,
  `ReadTargets`, `EnqueueAfter`, `SendAnnouncement`; `EnqueueAfterEdit`;
  `CronAnnounce` is the cron that looks for what is held.
* The minute job: `ClaimRun`, `SearchInVain`, `StoreCandidates`,
  `ReadCandidates`, `InviteMembers`, `MarkInvited`, `MarkRefused`, `FinishRun`,
  `ClosingNotices`; `SweepRun` and `ResumeRun` for what a stopped process left
  behind; `CatchUpRead`, `SecondRoundRead`, `Enqueue` for runs it asks for
  itself.
* The letters of invitations: `ClaimNotice`, `SendNotice`. `Crash` stops a tick,
  a call or a letter.

`slip` remembers that the ten-minute hold ran out, or that the buyer switched
the box: then a company may get the announcement and the invitation.

Candidates are members of the service; an address found on the web takes the
same path with a row of `ExternalInvites` instead of the invitation. Left out:
invitations of the buyer's connections, the daily cap, the verification of
hidden matches and the results DAILY_LIMIT and not eligible, the scope of
countries, budget and content of the search, a creator who loses rights (whose
resumed run marks its own invitees NOT_ALLOWED), members who switched invitation mail off, letters the
buyer causes by hand, and of the result message everything but its stamp: `told`
is `notifiedAt`, written with DONE, and the message that follows the commit can
be lost. Merged
because nothing in between looks at them: read and insert of
`inviteDiscoveredMembers`, claim and read of `runOnce`, the read of the hold and
the enqueue transaction, count and DONE. The lease does not end under a tick
that lives (the search is bounded below it). Second instances of the job only
enqueue beside the first; one company is enough, as no step looks at two.

What the code does and no property forbids: a resumed run whose request was
closed or switched off meanwhile, or whose creator lost the rights, marks its
own invitees NOT_ALLOWED (the comment AI-5 has it otherwise; `ResultsAreTrue` is limited to the other case);
a crash between the publication and the call of `announceListingOpen` leaves an
open request that no cron looks for, as the cron asks for a run; a crash between
the enqueue and the invitations of the connections loses the latter; runs that
fail because the request is not open make no closing notice, and need none.

### AiBudget (`ai-budget.service.ts`, `ai.service.ts`, `assistant.service.ts`, `ai.scheduler.ts`)

The money a company may spend on a language model. State: `row` (ai_usage),
`call` (the request behind each row), `billed` (what the provider has billed,
which the program does not see), `today`, `tier`. There is no stored balance:
`Spend` sums the rows of a window, in units of money, so that a sum is the size
of a set.

* `Ask` takes the time, `Reserve` works under the lock of the company's row:
  five caps, the premium model before the default one, one row that holds the
  estimate. The row is dated by the database, some time between the two, and
  day or month may have changed. `Refuse` is the denial.
* The call is outside any transaction: `Answer` (the assistant may go on with
  up to `ToolRounds` rounds of tools), `TimesOut` (billed, not reported),
  `Rejects` (after the retries and the second model).
* `Settle` and `Fail` write the row by its id, whatever it is by then;
  `SaveSummary` and `SummaryFails` are the assistant's summary, whose failure
  to be stored counts as a failure of the call. `Lost` is a stopped process or
  a failed write, at any point. `Reap` is the job that closes reservations.

Three kinds of call stand for all: a single call (`callAi`), a turn of the
assistant, a summary. An estimate is an upper bound of the real cost only as
far as prices and lengths are estimated well: `Overrun` is what an answer may
cost above it, and the caps are stated for the foreseen part. `Reap` is not
bound to ten minutes, which admits more behaviours than the code. Left out: the
usage screen, the warning at 80 %, the calls the platform makes for itself
(which reserve nothing), tokens and prices as numbers, and the usage a failed
call may report (`ai.service.ts:279`), which the provider never sets.

### How the modules meet

`ListingAward` and `Approvals` overlap on purpose: the first has an approval
that is awaited or not, the second an award that succeeds or fails. A shared
instance is too large for TLC. `Members` says who may act, which `Approvals` has
as `canAct`, changing at any time. `DiscoveryRuns` ends where `ExternalInvites`
begins: its `Invite` with the source `AI_AUTO`. `PaymentLedger` is the one
abstract specification, implemented by `CompanyOrders`.

## 4. Runs

"Distinct" is the number of distinct states, the time is that of two workers.

| Run | Instance | What it shows |
|---|---|---|
| `orders` | 2 sessions, 2 payment rows, total 3, 5 plans, initial PENDING / CREATED / DELIVERED; 166,811 distinct, 16 s | money, shipping, disputes, goods that left, and the refinement of `PaymentLedger` |
| `bidding` | 1 bidder, 2 sessions, 3 rounds, both formats, all ways to carry bids, extensions, awards and rejected orders, crashes; 1,773,501 distinct, 70 s | submission rules, bids that stand, no bid left behind by late placements and new rounds, bids that are out and stay out, order of rounds, finality of a cancellation, types |
| `award` | 2 bidders, 2 sessions, 2 rounds, LAZY / NONE, 2 awards; 1,962,757 distinct, 67 s | award, approval, new round, closing without award, bidding, rejected orders and the award after them |
| `approvals` | 3 members, a flow of 2 steps that names the initiator for the second, 2 sessions, 1 request, crashes; 364,592 distinct, 25 s | safety of the chain, and that the cron leaves no request stuck |
| `team` | founder, manager and a third person, 1 invitation, 1 and 3 seats; 2 requests, both in flight; 618,850 distinct, 75 s | whoever leaves for good leaves a manager, seats suffice for whoever joins, a closed company stays empty |
| `invites` | 2 rows, 1 instance, letters of 1 row, 1 attempt, 1 fault; 2,603,384 distinct, 95 s | reminders, true states, silence, a week between letters |
| `delivery` | 1 row, 2 instances, the lock may fail, 2 attempts, 1 fault, fairness; 310,812 distinct, 140 s | one letter by the claim alone, nothing stuck |
| `discovery` | 1 company, 1 tick, 2 callers, 2 runs, 1 crash, fairness; 540,190 distinct, 107 s | one letter, true results, nothing waits for ever |
| `budget` | 2 calls, 2 members, 2 days of a month and 1 of the next, 2 packages, overrun 1, 1 round of tools; 1,145,852 distinct, 94 s | caps of month, day, member and premium model; bills of single calls are counted |

**Why the bounds are enough.** Two sessions make every pair of handlers
interleave, which is what each hazard in the code needs; the theorems hold for
any number. A total of 3 with an advance of 50 % makes rounding matter; two
payment rows allow a collision on the cap and a duplicate. Two bid versions are
one revision between read and award. Three rounds let a request be two rounds
late. Two awards are an award, its way back and another. Two requests of a team
are one that has decided and one that overtakes it; one seat in one tier and
three in the other, so that the last seat is disputed by an acceptance, a
permission, the founder's buying seat and an added member. Two calls are enough
to compete for the last unit of every window, and three days to begin in one
month or day and reserve in the next. Two
rows with letters of one row make one wait for the other; one fault hides one
letter. Two runs are the first and the second search, or the run a switched box
asks for. `MaxVersion`, `MaxDays`, `MaxRound`, `MaxAward`, `MaxRequest`,
`MaxFault`, `MaxRun`, `MaxCrash` and `LastDay` bound counters the program does not bound;
the guards that use them are the only ones without a line in the source. A third
run by a stale `scheduleSecondRounds` is cut off by `MaxRun`. Permutations of
sessions, bidders, rows and currencies are symmetric and used only in runs
without liveness.

`CHECK_DEADLOCK FALSE` everywhere: an order that is closed, a listing that is
awarded, a letter that is sent are ends.

### Runs that find a disagreement

Each checks one property, taken from a comment or rule of the repository, that
the code does not keep. TLC's trace is the scenario; `PROJECT.json`, "findings",
quotes the text.

| Run | Property | Scenario |
|---|---|---|
| `rejections` | `RejectedAwardReopens` | two sellers reject at once; each sees the other's order alive; the listing stays AWARDED |
| `approved_no_order` | `ApprovedHasOrder` | the process stops between the last approval and the award |
| `lockout` | `SomeoneManages` | the platform deactivates, without a lock, a member who has become the founder meanwhile |

### Disagreements without a run of their own

The models contain the steps of these too; a property that would state the
comment fails, so none is checked.

* `company-listings.service.ts:7891`: the round of bids that are carried is
  raised so that later rounds do not miss them. A bid submitted while the new
  round is being prepared in AUTO keeps the old round, because the bids are
  chosen before the transaction. One that is eliminated in that time is carried
  over all the same and is in the race again. `NoBidLeftBehind` and
  `EliminatedStaysOut` are stated for all ways to carry bids and name this write
  as an exception, with the condition under which it does harm: the bid has
  begun or ceased to fit since it was read (`CarriedAsRead`).
* `company-listings.service.ts:8229`: validity is extended only while bids are
  taken. The write looks at the bid alone, so that a draft comes back to life
  although its listing was cancelled, closed or awarded since the read; a draft
  of a bid that was submitted and eliminated since the read comes back as well.
  This is the other exception of the two properties (`RevivedAsRead`).
* `company-listings.service.ts:7682`: the listing is brought along lest it
  freeze in IN_AWARD_APPROVAL. A request cancelled between its creation and the
  suspension of the listing leaves the listing waiting for nothing.
* `company-orders.service.ts:463`: only the bid of the rejecting seller drops
  out while other orders live. When one of them is an order of the same bid in
  another currency, it lives on with a bid that is out.
* `external-invite-dispatcher.service.ts:803`: a row withdrawn while its letter
  fails for the last time is recorded FAILED over CANCELLED.
* `company-auth.service.ts:1127`: joining accepts the links that are PENDING. It
  accepts them by their ids, so that one withdrawn between the read and the
  update becomes ACCEPTED.
* `company-auth.service.ts:1225`: an address whose invitation was withdrawn does
  not see the request when it registers. A row that was in flight and is
  recorded SENT is held back by its cancelled link alone, and
  `company-connections.service.ts:781` revives the link when the same address is
  invited to another request.
* `discovery-runs.service.ts:848` (AI-5): an attempt that was cut short shows its
  own invitees as invited; not when the request was closed or switched off since.
* `ai-budget.service.ts:305` and `ai-provider.interface.ts:138`: after a timeout
  the estimate stays. A turn of the assistant that times out keeps only what
  earlier rounds reported, or nothing (`assistant.service.ts:403`), and a summary
  nothing, even when it was settled and could not be stored
  (`assistant.service.ts:740`). `BilledIsCounted` is therefore stated for single
  calls.
* `ai.service.ts:176`: the real cost cannot exceed the estimate. Lengths are
  estimated at four characters a token; `WithinBudget` holds for what was
  foreseen, whatever answers cost.

## 5. Fairness

People need not do anything, and nothing is assumed of them.

* `Approvals`: `WF(CronScan)` - the scheduler starts the cron every minute - and
  `SF(CronStep)` - a scan does not end in a crash every time (strong, since
  crashes disable it again and again). Then `NoSilentPending`: a request never
  waits forever for somebody who cannot decide.
* `ExternalInvites`, run `delivery`: the cron fires every minute and its calls
  return (`WF(DispatchStep)`), windows, pauses and leases end (`WF(TimePasses)`,
  `WF(TurnComes)`). Strong fairness says that a row that is due again and again
  is not put off for ever: the cap is a day's (`SF(ReadDue)` with due rows), and
  opening hours come and translations arrive (`SF(Decide)` with nobody waiting).
  Then `NothingStuck`: what the buyer still wants sent is sent, given up or
  dropped for a reason, while the lock works; with the lock open two instances
  can take turns in postponing a row, and the property does not hold.
* `DiscoveryRuns`: weak fairness of time, of the minute job and of a call that
  was begun; strong fairness of the cron's own call, whose turn others may take.
  `MaxCrash` makes crashes finitely many, which is needed: a process that always
  stops in the same place ends nothing. Then `NothingWaitsForever`.

`CompanyOrders`, `ListingAward`, `Members` and `AiBudget` are driven by people
and state safety only.

## 6. Proofs

All proofs are checked by TLAPS; all theorems hold for every value of the
constants that the ASSUMEs admit. Each is the same argument on a small scale:
the property is not inductive, because a handler relies on something it read
earlier; the inductive invariant says what that reading still means when it is
used.

**CompanyOrdersProofs** - `TypeCorrect`; `PaymentCap` and `LetterOfCreditKeptApart`
from `MoneyInv` (types, cap, and letter of credit kept apart from waiting
claims). The cap alone is not inductive: `lcMarkPaid` fills up what *confirmed*
rows leave open, which keeps the cap only because on a letter of credit no row
waits, and that holds only because no `recordPayment` can be in flight there.
The sums rest on lemmas about cardinalities (`UnitsInsert`, `UnitsGrow`).
`DisputesHaveGrounds` is inductive with the types; `CancellationStrandsNoMoney`
and `GoodsStayGone` are action properties that follow from them, the latter
because a defect request in flight carries a state of delivered goods.
`GoodsSentAgainstPayment` rests on `ShipmentCovered`, what a request to ship
has seen between its checks and its commit: confirmed money and the bank's
stamps are never taken back, so that the old reading still bounds the new state.
`ClicksLeaveOneRow` needs the types alone, as a duplicate is looked for inside
the transaction that inserts. `OrdersImplementLedger` is the refinement: a step
of the rows is a step of `PaymentLedger` or leaves its variables alone, with one
lemma for each kind of step (the order, a decision, the bank, a claim); the sums
follow from `UnitsWrite` and `SumsAfterWrite`, and `MoneyInv` gives the cap.
Assumed: finitely many payment rows, a natural total, plans of the known kinds.

**ApprovalsProofs** - `TypeCorrect`, `ChainStaysAlive`, `DutiesStaySeparate`,
`OrdersWereApproved`, and `FinalDecisions` (a decided request is never decided
again, which no run states), all from one invariant `IInv`. The commit of a
decision tests very little, so the invariant has to say what a read still means
when it is used: `ApproveReads` (somebody else asked; the step had its turn; the
next step is the one after it and is needed, or nothing after it is),
`RejectReads`, `RunsApproved` and `RunOnce` (who runs an award for a request
holds a chain approved to its end, and is alone), `ClosesRejected` (for the
cron's three commits), `SkippedTail` (unneeded steps are the last). The proof
goes through *effects*: `EffectStep` shows that a step does nothing to the
requests or one of eight things to one of them; every part of the invariant is
then proved against the effects, not against two dozen actions. Assumed: at
least one step, members that may award or approve are members, flows name
members, `Nobody` is none.

**ListingAwardProofs** - `TypeCorrect`; `NothingOrderedTwice`, `SuppliersWon` and
`OrdersAtBidPrice` from one invariant `IInv`; the action properties
`RulesOfSubmission` and `ListingForward`. `OneAwardLive` is not inductive: a
rejection that takes the award back relies on the count its first half made.
`RejectHolds` says what that count still means when it is used - the order is
PENDING under its lock, and if it was the last live order it still is - and
`RejectOnce` that nobody else is rejecting the same order; both need that no
award can happen meanwhile, which is `OneAwardLive` again. `EffectStep` sorts
the actions into five kinds (one leaves the orders alone, an award, an order
moving on, and the two halves of a rejection), and each part of the invariant is
proved against the kinds. `SubmittedStand` is the action property that a
submitted bid becomes a draft, or disappears, only when a new round begins or
the listing is deleted. Assumed: nothing but natural bounds.

`EliminatedOut` and `NobodyLeftBehind` need no hypothesis either: AUTO,
extensions and everything else the constants admit is in. They are action
properties, so that what one of the two writes of section 4 does to a bid does
not have to be followed any further: a bid that is out (`IsOut`) is out after
every other step, and one in order (`IsInTheRace`) is in order. `StaysStep` says
so of every step, with one lemma for each kind of write - placement,
elimination, extension, new round, award, rejection, the listing alone - in
which the guards of the commit meet the old reading. The types suffice as
invariant, because each of these commits tests under its lock what it relies on;
the two exceptions are the commits that do not. `CarriedAsRead` is as narrow as
the code allows: a new round in AUTO of a bid whose fitness is not what was
read. `RevivedAsRead` is an extension that makes a submitted bid of a draft while
the listing is not open in its round or the draft was not submitted in it.

**MembersProofs** - `TypeCorrect`, `ClosedStaysEmpty`, `AcceptanceOpensAccount` (a
claimed invitation has opened its account; no run states it), and the action
properties `ManagerRemains` and `SeatsAreEnough`, from
`IInv == TypeOK /\ TargetsJoined /\ OwnerJoined /\ ClosedIsEmpty /\ AcceptedHasAccount`.
A request that was begun before the company closed still has its target:
`TargetsJoined` says that the target has joined, so that the row it writes is no
new member, and `OwnerJoined` that the founder is one. Assumed: finitely many
members, seat limits that are natural numbers, known permissions.

**ExternalInvitesProofs** - `TypeCorrect`, `LettersAreCounted`, `RemindersAreCounted`,
`SentIsTrue`, `QuietIsKept` and the action property `WeekIsKept`, from one
invariant `IInv`. The count of letters is not inductive: `OneEach` adds to the
letters of a row the instances that still owe it one and whether it can be
claimed, and bounds the sum by one and the faults so far. The other parts say
what an instance knows while it writes outside any transaction: what is in hand
was queued (`InHandWasQueued`), only one instance runs while the lock works
(`OneRuns`), what it decided to hold or to send still agrees with the address
(`Quiet`, `Rested`), and which answers it waits for (`AnswerLeft`, `Reminded`).
Assumed: finitely many rows and instances, positive bounds.

**DiscoveryRunsProofs** - `TypeCorrect` (with `Placed`: who works has a run);
`TrueResults` from `RunInv`, `OneLetterOnly` from `RunInv` and `LetterInv`.
What a tick has read stays true because nobody else touches its run: runs are
numbered as they are made (`RunsInOrder`) and who works on one has it to himself
(`WorkersApart`), whatever crashed before. `TodoIsPending` and `DoneIsDone` tie
the list in hand to the candidates, `InvitedBefore` and `ResultsFit` the results
to invitations: a run that is resumed finds its own invitees and no one else's,
as a run's invitations are older than the runs not searched yet. One letter is
not inductive: the announcement goes to whoever has no invitation when it looks,
and relies on the runs it waited for. `RunsAreOver` says that, unless the wait
was cut short or the box switched, no run is active from the moment the
announcement is released until it is out; `OneAnnouncement`, that one caller
makes it; `NoSecondLetter`, that whoever is in its hands has no other letter to
come. `TwoLettersAtMost` holds even when the wait was cut short. Each action
has a lemma for its effect, each table one for the ways its rows move, and each
part of the invariant is proved against those. Assumed: the cron is one of
the callers, and natural bounds.

**AiBudgetProofs** - `TypeCorrect`, `CapsHold` and `BillsAreCounted` from
`IInv == Bookkeeping /\ WithinBudget`. The caps are not inductive: a settlement
may raise a row above what was reserved, so the invariant has to know that a
call under way still holds its estimate, reaped or not (`HoldsEstimate`); and a
reservation sees the sum of the windows that begin with the day it has read,
which covers the day and the month its row is dated in (`ReserveKeepsCaps`).
Sums are sizes of sets of units: `TotalFalls` and `TotalGrows` are the two facts
about them. `KnowsBill` and `Closed` tie the bill to the row. Assumed: finitely
many calls, months that do not run backwards, caps and prices that are natural
numbers.

**Only model-checked**: liveness (`NoSilentPending`, `NothingStuck`,
`NothingWaitsForever`), which is beyond the prover. Every other property of a
run that passes is a theorem.

## 7. What is not modelled

* Requests between members in both directions and blocks (`company-connections`,
  `company-blocks`): the unordered unique index answers the race.
* The reminder of due payments, which stamps before it notifies.
* Prices of bids and their monotonicity, the ranking of auctions and the
  automatic extension of closing times.
* Components without a protocol of their own: forms, profiles, catalogues, read
  models, files, translations, reports. Clients.
* Everything behind an external service: identity, e-mail, AI models, storage.
  Where a modelled handler depends on one, its answers are nondeterministic.

`PROJECT.json` lists every component with its reason, and every hazard no
property covers with a note. The repository is large (1.5 k source files, most of
them forms and pages); the models cover the handlers where processes meet over
shared rows, and no more.

## 8. Plan

1. Done: orders, listings, approvals, members, external invitations, discovery
   runs and the AI budget, with their instances and proofs: every safety and
   action property of a passing run, and the refinement of `PaymentLedger`.
2. Next theorems: the steps of the abstract specifications of item 4.
3. Next models: connections (both directions at once), the reminders that claim
   and then notify, auction rules (falling prices, automatic extension).
4. Abstract specifications: what a listing promises its bidders, implemented by
   `ListingAward`; the approval gate `ListingAward` assumes, implemented by
   `Approvals`.
