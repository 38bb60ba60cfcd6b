# A verification project for the vault

The repository (`core/`, Go) is a redundant, encrypted file vault and the control plane
that sells space in it. This directory models its stateful parts in TLA+, checks them
with TLC on small instances, and proves for every instance with TLAPS the safety
properties of billing, providers, quotas, storage and secret sharing and what the detailed
models promise. Paths below are relative to `src/core`.

## The system

| component | state | operations | meets |
|---|---|---|---|
| billing service (`control/service.go`, `model.go`) | accounts with status and period, invoices, payments, plans; `Service.mu` | CreatePlan, CreateAccount, SetStatus, RunBilling, IssueInvoice, PayInvoice, CreateCheckout, HandleWebhook, EnforceDelinquency | the store; providers; the API |
| space accounting (same file, `control/client.go`) | bytes used per account | Reserve, Release | nodes and tenants through the API |
| control store (`control/store.go`) | one dataset in memory, its JSON snapshot on disk | Save*: change memory, then rewrite and rename the whole snapshot | every handler |
| control API (`control/api.go`) | none | routes, status codes; the webhook's answer decides on a retry | the service |
| providers (`payment/...`) | the registry; sessions and money outside the program | start a checkout, verify a callback | CreateCheckout, HandleWebhook |
| storage node (`node/...`) | a backend, an optional quota | PUT: read, verify, probe, reserve, store; GET, HEAD | control server; its backend |
| block store (`cas/cas.go`) | the list of backends | Put to all (two must take it), Get with failover, verification and healing | backends, local or over HTTP |
| directory backend (`cas/fsbackend.go`) | files, and one `.tmp` name per block | Put, Get, Has | the disk |
| vault (`vault/vault.go`, `vaultctl put/get`) | the block addresses of a file | PutFile (manifest last), GetFile | the block store |
| secret sharing (`shamir/shamir.go`) | two tables, filled once | Split, Combine | `vaultctl split`, `combine` |
| `aead`, `paperkey` | none | sealing, key derivation | the commands |
| `vaultctl`, `vaultadmin`, `vaultserver`, `vaultnode` | processes | flags, prompts, one call of the API each; nothing runs on a timer | all of the above |

A tenant's money goes: RunBilling (a request of the operator, `control/api.go:43`) finds
accounts whose period has ended, issues an invoice and advances the period; the tenant opens a checkout at a
provider; the provider calls back, again and again until it is answered 2xx; settling marks
the invoice paid, records the payment and reactivates a suspended account. A block goes:
`vaultctl` seals a chunk, `Store.Put` sends it to each backend; a node asks the control
server to charge for it, then keeps it.

What is hard in it, and what has to hold:

- **Locks that do not cover everything.** `Service.mu` is held by most handlers, but
  CreatePlan and CreateAccount take no lock and CreateCheckout gives it up around the call
  of the provider. RunBilling and EnforceDelinquency write back whole copies of accounts
  they listed before. No decision may be lost to a stale copy; a paid invoice stays paid.
- **Handlers of several writes.** Each `Save*` rewrites the snapshot; a crash or a failed
  rewrite between two leaves half a handler, and a failed one leaves the memory ahead of
  the disk. No period may be skipped, none billed twice, no payment recorded twice or lost.
- **Callbacks that repeat**, or come from two checkouts of one invoice, or race an
  operator's payment; events that report no payment (a session completed by a method that
  takes days, a transaction with too few confirmations) among them, in any order. Only
  money that is in may settle an invoice, and money that is in must be able to.
- **A charge and a store with nothing in common.** A node probes, reserves at another
  process and stores; answers get lost, calls arrive after their timeout. No tenant may
  exceed its quota and nothing may be stored for free.
- **Backends that fail one at a time.** A block that was stored must survive any single
  fault; a file must be found whole or not at all; healing runs beside other clients.
- **A temporary file shared** by all the calls for a block.
- **Shares on paper.** Whatever lines are pasted, in whatever order and however often, must
  give the key or an error; too few must give nothing away.

`PROJECT.json` lists the hazards one by one with their lines.

## The modules

| module | what it is |
|---|---|
| `ControlBilling` | billing service on the control store: the core of the project |
| `BillingPromise` | what it promises, with every handler atomic; `ControlBilling` implements it |
| `MCControlBilling` | instances for TLC |
| `ControlBilling_proofs` | theorems about it: types and ledger; decisions and periods; receipts, charges, suspensions |
| `ControlPromise_proofs` | that it implements `BillingPromise` while no write fails |
| `Checkout`, `MCCheckout` | the three payment providers composed with `ControlBilling` |
| `Checkout_proofs` | theorems about the composition |
| `NodeQuota`, `MCNodeQuota`, `NodeQuota_proofs` | nodes' PUTs against Reserve and Release |
| `CasStore` | the block store over N backends, without a specification of its own |
| `Vault`, `MCVault`, `Vault_proofs` | PutFile and GetFile over `CasStore`; theorems about both |
| `FSBackend`, `MCFSBackend`, `FSBackend_proofs` | `FSBackend.Put` on one block, system call by system call |
| `BackendPromise` | the atomic backend the block store relies on; `FSBackend` implements it |
| `Shamir` | the tables, field arithmetic, Split and Combine of `shamir.go` |
| `Shamir_proofs` | lemmas on its loops, the field and polynomials; that shares recover and conceal |
| `KeyCustody`, `MCKeyCustody`, `KeyCustody_proofs` | custodians who split and combine with `vaultctl`; theorems about them |

**ControlBilling.** `mem` is `Store.s`, `disk` the snapshot; `Write(m, ok)` changes the
first and, when `ok`, the second. A handler with one write is one action with the error
path as `ok = FALSE`. A handler with several is an action per write, and `job` is the call
that holds `Service.mu` between them with its local variables (the accounts still to do,
the copies listed at the start, the invoice in hand), so that unlocked handlers and crashes
happen in between. A payer, an account's sessions and the clock are the environment:
`CustomerPays`, `Tick`. `Crash` reloads `disk` and drops `job`. History variables: `decided`
(the last decision about each status), `kept` (those decisions when the snapshot on disk was
last written; a crash goes back to them, account by account), `cut` (the steps that handlers
cut short did not take, and the reactivations whose failed write `settleLocked` ignores).
Data left out: names, tokens, amounts and currencies (a plan is priced or not), the period
is a number of ticks, payments are counted per invoice.

**BillingPromise** has tenants and invoices only. The mapping in `ControlBilling`
(`Promise`) lets an invoice count as issued when its period is advanced and as settled when
`settleLocked` returns; the row of a tenant whose handler was cut short between two writes has
its field `void` set (a field of its own, since an operator may set any string as a status,
"void" too): the promise to that tenant is off, the one to all the others is not.

**Checkout** extends `ControlBilling` and replaces its payer by the providers. A session has
a provider, `money` (promised, failed, in, or in late), confirmations, and events in `sent`,
a set from which any event may be delivered at any moment, again and again. `Paid(e)` is
`VerifyWebhook` of the session's provider; an event that is not paid, or fails its
signature, is answered and changes nothing, and so is no action. `Settles` and `IsRepeated`
are HandleWebhook for an event that is; `AskProvider` is the checkout route with its
ownership check and the registry; `Serve` is everything else the service does, word for
word that of `ControlBilling`. `ControlBilling!Webhook` may settle once the provider "has
been paid"; here that is what an event says, and `ServicePromise` is the refinement that
joins the two. An event carries the invoice its session was opened for, as the metadata
of a Stripe session and the watcher's report do.

**NodeQuota.** The control server answers in one step under its mutex (`Reserve`,
`Release`, `SetStatus`); a PUT is a request `req[q]` going through probe, reserve, granted
and put, or to "late" when the node has given up a call that is still on its way. Any number
of PUTs run at any node at once. A block is one unit of `Size`, the usage counter wraps at
`MaxInt`, in the sum of `Reserve` and in the difference of `Release` alike: `Release` sets a
negative difference to 0 only after it has wrapped, as `service.go:216` does. History: who was charged and for whom a block is stored, which blocks met a fault.

**CasStore / Vault.** `copy[x][b]` is "none", "good" or "bad": what is under the address of
block x on backend b; a client's `call` goes from backend to backend in order. A backend
call may fail with or without having had its effect (a node over HTTP); `CopyFault` loses
or corrupts a copy at any time. Verification by hash is the test for "good"; `Has` and the
skip of a present file look at the name only, as the code does. A sealed block has a fresh
nonce and therefore an address of its own (`Blocks = Files \X Parts`). Backends are distinct
places; `NewStore` counts them and does not check that (`cas.go:57`), so a `vaultctl` given one
node twice keeps "two copies" in one file, which the model leaves out. `Vault` runs one
command per client on top, `Abort` kills it anywhere.

**FSBackend.** `files` are inodes (which pieces of the block they hold), `tmp` and `final`
the names. A call that opens an existing temporary file empties it under the call that is
still writing; a rename moves whatever file has the name; a rename of nothing fails. `Cut`
is a kill or a full disk, `PowerLoss` loses bytes or the rename, since nothing is synced.
In `CasStore` a directory backend's Put is one step: a torn file is one of its "bad" copies.
`BackendPromise` says what that abstraction claims (a Put takes the whole block in one step;
only overlapping calls show it torn; only a fault removes it) and `KeepsPromise` that the
system calls implement it, with `busy` the callers past `os.Stat` and `held` what is under
the name.

**Shamir / KeyCustody.** A byte is the set of its 1 bits, so xor is symmetric difference.
The tables are variables, filled turn by turn as `init()` does; the field is a parameter of
the model, to run the same definitions over the code's 256 elements and over four, where
every split can be tried. It is any width and reduction polynomial for which 3 generates the
non-zero bytes, as the tables of the code require (`GeneratorAssumption`, which TLC evaluates
for both fields). A loop of the code is a recursive function over its turns. `Draws` is what `rand.Read` may return. `KeyCustody` deals keys
with `cmdSplit`, and pastes any selection of the lines dealt (one of them perhaps twice,
with mistyped and foreign lines among them) into `cmdCombine`. The key is any key: a wrong
passphrase opens another vault and no error.

## What the runs check

| run | instance | result |
|---|---|---|
| `billing_cycles` | two tenants, a priced and a free plan, two invoices, two ticks, a failed write, a crash | `LedgerConsistent`, `NoPeriodSkipped`, `BilledOnce`, `LastDecisionHolds`, `ChargedIsInvoiced`, `NoStrandedTenant` hold |
| `settlement` | the three providers, one tenant, two invoices, two checkouts, a confirmation, two failed writes, a crash | `LedgerConsistent`, `PaidIsCollected`, `MoneyIsNoticed`, `PaidHasPayment`, `AckedIsRecorded`, `PaidIsFinal`, `ServicePromise` hold |
| `billing_promise` | two tenants, two invoices, a checkout, a crash, fairness | `PromiseKept`, `PaidIsAcked` hold |
| `node_quota` | a node, two tenants, one block, two PUTs, two direct calls, a failure, a crash, fairness | `QuotaHeld`, `StoredIsCharged`, `ChargedOnce`, `Answered` hold |
| `vault` | three backends, two clients, a file of a chunk and a manifest, two faults, two failed calls | `Redundant`, `Failover`, `HealedPresence`, `ManifestLast` hold |
| `fs_backend` | three writers, six calls, a block of three pieces, three cuts | `TornOnlyIfOverlapped`, `TornOnlyInWriting`, `AnsweredIsPresent`, `KeepsPromise` hold |
| `key_custody` | the code's field for the tables; four elements, keys of one and two bytes, thresholds to 3, parts to 4 for the rest | `FieldArithmetic`, `AnyKRecover`, `FewerConceal`, `NeverPanics` hold |
| `double_billing` | one tenant, a crash | "Idempotent per period" (`service.go:274`) is violated |
| `acked_unrecorded` | one invoice, a failed write | "webhooks can be retried safely" (`service.go:374`) is violated |
| `second_payment` | two checkouts of one invoice | a payment received is in no Payment record (`model.go:96`) |
| `node_double_charge` | two PUTs of one block | "must not double-charge" (`quota_test.go:57`, `server.go:137`) is violated |
| `corrupt_healed` | two backends, one corrupted copy | "re-replicates ... a corrupted copy" (`cas.go:81`) is violated |

Most passing runs also check their module's type invariant (`TypeOK`; `OutsideOK` in
`settlement`); `billing_promise` shares its module with `billing_cycles`. Every property has a mutant: a wrong variant of a
definition, written before it in the module and marked "a mistake", which makes TLC find
the property violated.

**Excuses.** Several properties hold "unless cut short": the passing run then says that the
named fault is the only way, and the violation run beside it shows that the fault does it.
So `BilledOnce` and `double_billing`, `AckedIsRecorded` and `acked_unrecorded`,
`ChargedOnce` and `node_double_charge`. `MoneyIsNoticed` excuses one thing by its statement:
a Stripe payment that clears after its session was completed (`money` = "late") comes with
an event type that `stripe.go:156` does not take for paid, so the operator has to settle it.
`cut` is per account or invoice and step, so the excuse never covers another tenant or
another handler. `NoStrandedTenant` is stated twice, for the memory with `decided` and for
the snapshot with `kept`, and each excuse in it names an invoice of the stranded tenant: a
settlement that is under way, was cut short (`CutSettling`), or returned although its
reactivation was not saved (`Unsaved`). The last is a weakness of the code, not of the
model: `service.go:397` drops the error of `SaveAccount`, the caller is told that all went
well (`service.go:365`: PayInvoice "reactivates a suspended account once it has no
outstanding balance"), and a restart brings back the suspension of a tenant with nothing to
pay until its next invoice. `billing_cycles` reaches that state: without `Unsaved` TLC finds
`NoStrandedTenant` violated.

**Bounds.** Two tenants and two invoices are enough for one to be billed while another is
decided about, and for an account to owe something else when an invoice is settled; two
ticks give two periods, the least with an overlap or a gap. Two failed writes let a
retry itself fail. `settlement` stands still in time: time matters to billing and
delinquency, which `billing_cycles` and `billing_promise` run through the clock. It
registers all three providers with `BITCOIN_MIN_CONF` unset (0), the value the clamp of
`bitcoin.New` is for. Two PUTs give every overlap of probe, reserve and store;
`DirectAmounts = {1, 3}` with `MaxInt = 3` fills the quota and overflows the counter, and the
second direct call then releases from the least value, where the difference wraps upwards.
`MaxDirect` bounds an operator's changes of status with a tenant's direct calls. Three
backends with two faults and two failures are one more than the code's redundancy stands,
so that the properties' arithmetic is tested at its edge. Three writers are the least for
one to rename the file of another over a third's block, and six calls let some follow
the overlap. In the field of four elements `Order` is 3, so that `Parts` and `Thresholds`
reach every limit of `Split` and one past it; two bytes are the least for randomness reused
between bytes to show. `MaxTime`, `MaxFailures`, `MaxCrashes`, `MaxConfirmations`, `MaxFaults`, `MaxDirect`,
`MaxPuts`, `MaxCuts`, `SplitWidth`, `MaxDealt`, `MaxDrawn` and `MaxPasted` appear in guards
and in the inputs only; the proofs hold for every value of those they mention.
Identifiers are symmetric in the runs without liveness properties; `PaidIsFinal`,
`ServicePromise` and `KeepsPromise`, checked with symmetry, look at one step at a time and
treat identifiers alike.

**Fairness.** `ControlBilling!FairSpec`: a call that holds the mutex goes on (weak fairness
of `JobStep`: no handler waits for anything while holding it), and a provider repeats a
callback until it is answered 200 (strong fairness of `Webhook`: the mutex is taken now and
again by others, and Go hands a starved `sync.Mutex` to its oldest waiter). `NodeQuota!FairSpec`:
a node goes on with a PUT it serves and gives up after the client's timeout; nothing is
assumed of the control server.

**Deadlock** is checked where the system never stops. In `vault` and `corrupt_healed` all
commands may have ended with no file left to put, and in `fs_backend` all calls may have
been made; `key_custody` ends when everything is dealt and a paste was tried: their
configurations say `CHECK_DEADLOCK FALSE`.

## What is proved

For every set of tenants, plans, invoices, checkouts, nodes, requests, blocks, backends,
clients and writers, and for any number of failed writes, crashes, faults, lost answers and
repeated callbacks. Every safety property that a passing run checks is proved.

| theorem | states |
|---|---|
| `TypeCorrect` | `Spec => []TypeOK` of `ControlBilling` |
| `LedgerIsConsistent` | `Spec => []LedgerConsistent` |
| `DecisionsHold` | `Spec => []LastDecisionHolds` |
| `NothingSkipped`, `NothingBilledTwice` | `Spec => []NoPeriodSkipped`, `Spec => []BilledOnce` |
| `PaidIsReceipted`, `PaidStaysPaid` | `Spec => []PaidHasPayment`, `Spec => PaidIsFinal` (an action property) |
| `AckedStaysRecorded` | `Spec => []AckedIsRecorded` |
| `ChargesAreInvoiced` | `Spec => []ChargedIsInvoiced` |
| `NobodyIsStranded` | `Spec => []NoStrandedTenant` |
| `ControlKeepsPromise` | `Spec /\ []Faultless => PromiseKept`: the refinement of `BillingPromise` |
| `FaultlessKeepsPromise` | with `MaxFailures = 0`, `Spec => PromiseKept` |
| `CheckoutImplements` | `CheckoutSpec => ServicePromise`: the composition with the providers implements `ControlBilling!Spec` |
| `PaidCollected`, `MoneyNoticed`, `OutsideTyped` | `CheckoutSpec => []PaidIsCollected`, `[]MoneyIsNoticed`, `[]OutsideOK` |
| `CheckoutLedger`, `CheckoutReceipted`, `CheckoutPaidStays`, `CheckoutTenants` | the theorems about `ControlBilling` carried over to `CheckoutSpec` |
| `QuotaTypeCorrect`, `QuotaIsHeld` | `Spec => []TypeOK`, `Spec => []QuotaHeld` of `NodeQuota` |
| `StoredIsPaidFor`, `BlockIsChargedOnce` | `Spec => []StoredIsCharged`, `Spec => []ChargedOnce` |
| `VaultTypeCorrect`, `ManifestIsLast` | `Spec => []TypeOK`, `Spec => []ManifestLast` of `Vault` |
| `CopiesAreKept`, `GetFailsOver`, `HealedIsPresent` | `Spec => []Redundant`, `[]Failover`, `[]HealedPresence` |
| `BackendTypeCorrect`, `TornNeedsOverlap`, `TornIsMended`, `AnsweredStays` | `Spec => []TypeOK`, `[]TornOnlyIfOverlapped`, `[]TornOnlyInWriting`, `[]AnsweredIsPresent` of `FSBackend` |
| `BackendKeepsPromise` | `Spec => KeepsPromise`: the refinement of `BackendPromise` |
| `ReadyArithmetic` | once `init()` is done, `gfMul`, `gfDiv` and xor are the arithmetic of a field (`Arithmetic`) |
| `Recover` | any threshold of the lines of a `Split`, or more, in any order, are combined to the key |
| `Conceal` | for one line less and any other key, exactly one draw of the coefficients prints the same lines |
| `TypeCorrect` (custody), `FieldArithmeticAlways`, `CombineNeverPanics` | `Spec => []TypeOK`, `[]FieldArithmetic`, `[]NeverPanics` of `KeyCustody` |
| `AnyThresholdRecovers`, `FewerRevealNothing` | `Spec => []AnyKRecover`, `Spec => []FewerConceal` |

**Assumptions** are those the modules declare, and TLC evaluates them in each run.
`ControlBilling`: the priced plans are plans, `None` is no identifier, an operator does not
set the status "none" (the model's word for an absent key), a period has a length and the
grace is a natural number. `Checkout`: the registered providers are providers, the manual
one among them. `NodeQuota`: a block, the quota and both together fit the counter (a body is
at most 64 MiB, `server.go:32`; the counter has 64 bits). `CasStore`: two backends or more, which
`NewStore` enforces. `Vault`: a block is a part of a file. `FSBackend`: a block has a piece.
`Shamir`: a field has a width, a reduction polynomial of
lesser degree, and 3 as a generator. `KeyCustody`: keys are not empty, thresholds and parts
are natural numbers, and the foreign lines are finitely many, of bytes.
The bounds need only be natural numbers.

**The arguments.** None of the properties is inductive by itself; what is added is the
reason it holds.

- *Types of `ControlBilling`.* A webhook settles the invoice of its session, and a job works
  on the account and invoice it names. `SessionsOK` says a checkout that
  was asked for has an invoice, `JobOK` that a job between two writes names the account and
  the invoice of the second.
- *Effects and moves.* `NextEffects`: a step leaves the dataset and the lock alone, or is one of the
  writes. `Moves` goes further for invoices and payments: any step but a crash is one of
  nine moves of the ledger (opens an invoice, marks one paid, charges, records, ...). The
  later invariants are proved against the writes or the moves only.
- *Ledger.* `LedgerInv` adds to `LedgerConsistent`, for memory and disk, that an id not yet
  drawn has neither invoice nor payment (a payment saved before its invoice belongs to no
  other), and what a job between its writes knows of its invoice. An invoice that is open
  has no payment, so the one recorded after it is marked paid is the first.
- *Decisions.* `CopiesInv`: the copies a job has still to write back are the accounts as
  they are now, `LastDecided` that these have the statuses last decided, and `LastKept` that
  the snapshot has those in `kept`, which a crash makes the decisions. Every action that changes an account there is needs the mutex the job
  holds, which is what the mutant `UnlockedSetStatus` breaks.
- *Periods.* `PeriodsInv`, again for memory and disk: invoices belong to accounts there
  are, periods are ordered, every instant before `start` is covered, and a period invoice
  that reaches beyond `start` is the one whose period the job is about to advance, or its
  account is in `cut`. The lemmas `JoinKeeps`, `IssueKeeps`,
  `AdvanceKeeps`, `CutKeeps`, `AbandonKeeps` each treat one effect; a crash is the case in
  which the disk's half of the invariant becomes the memory's.
- *Receipts.* `ReceiptsInv`: what is paid on disk is paid in memory, an invoice that is paid
  and receipted on disk is so in memory, and a settlement past its second write has left
  both on disk. A crash then takes neither away.
- *Acknowledgements.* `AckInv`: once a checkout is begun, its invoice is covered (recorded on
  disk, or cut short, or between its two writes) from the moment it is paid, whoever paid it,
  and the checkouts a settlement answers for are of its invoice. So the
  200 that `AckWebhook` gives for an invoice somebody else settled is as good as its own.
- *Charges.* `OrphanInv` counts: the invoices of money received that memory lacks are at
  most the crashes; the disk lacks at most one more, the one in hand; and without a failed
  write the disk is the memory. Together they bound the disk by crashes and failures.
- *Suspensions.* `StrandInv`: an account about to be suspended still has an open invoice
  (nothing settles while the mutex is held), and one decided delinquent was last decided to
  be suspended, so the settlement that closes its last open invoice sees it suspended.
  Both hold of the snapshot with `kept` too: a step leaves the two alone or copies the memory and
  its decisions to them (`Snapshot`), and a crash copies them back (`StrandCrash`). A failed
  write that matters, of the settled invoice, its receipt or the reactivation, puts an invoice of
  that tenant in `cut`. `Snapped`: past the first write of a settlement the snapshot has
  the invoices of the memory, and no delinquency the memory lacks, so the settlement that
  leaves a tenant alone in memory strands nobody on disk.
- *Promise.* `Faultless` is that no write has failed; a failed write leaves the memory ahead
  of the disk and is not among the faults the promise speaks of (the `billing_promise` run
  sets `MaxFailures = 0`). `SoundHolds` collects all the invariants and adds `PromiseInv`: the
  loop's accounts are due (or overdue) still, an invoice is there just when it has an
  account, and what was cut short is of accounts and invoices there are. `Deeds` says what a
  step does in the words of the handlers; `UnseenDeeds` that eight kinds of step change nothing a tenant sees
  (charging, issuing before the advance, marking paid, recording);
  `JoinStep`, `DecideStep`, `TopUpStep`, `FreeStep`, `BilledStep`, `SettleStep` and
  `SuspendStep` that each of the others is the action of the promise it is named for, or
  unseen for a tenant whose row is void; `CrashStep` that a crash abandons one tenant at most.
- *Providers.* `EventsOK` ties events to money: every event is of a checkout that is begun,
  and one that says paid is of a checkout whose provider collected. With it every step of
  `CheckoutNext` is a step of `ControlBilling!Next` or leaves its variables alone
  (`Implements`), and `SessionsGo` says a begun checkout stays begun and for its invoice.
  `PaidInv`, for memory and disk, says every paid invoice was collected. The refinement then
  carries any theorem about `ControlBilling!Spec` over, as the four named above do.
- *Quotas.* `QuotaHeld` and the types are inductive together: that a release never adds
  needs a usage that is not negative, which it is until its sum first wraps. After that the
  counter has its width and nothing else is claimed of it. For what is stored, `CoverInv`
  counts with each stored block the requests that were granted space and will store one:
  their charge is in the books, on disk too, before the answer. `OnceInv`: a place no fault
  excused has one request at a time, has been charged for at most once, and when it has been
  it holds the block or is about to, so the probe of the next PUT finds it.
- *Vault.* `CallsOK` and `FilesOK` relate a client's call to its command: a file is put by one
  command, in the order of its parts, which is why no part can be overwritten. `FreshInv` says
  no backend holds a part that has not been put there, the manifest above all:
  `ManifestLast` needs it, since a Get heals what it finds. `CopiesInv` counts good copies plus the
  faults that cost one: at least as many as a Put has counted backends, at least two with the failures of
  a Get among the backends it has not asked yet. `HealInv`: a clean Get has left
  something at every backend it has been to.
- *Directory backend.* `AloneInv`: until calls overlap there is one, and the temporary file
  holds what it has written. `WriterInv`: until a call is cut short, a file that is not whole
  has a writer whose pieces so far are all in it. `PresentInv`: no call is past its write
  while neither name is there. `BackendKeepsPromise` needs the first and the types only.
- *Secret sharing.* The library's induction theorem takes an operator, so `NatInduct` is
  proved from the least element of a set that `WellFoundedInduction` gives: what holds of
  every natural number is stated as a set of numbers that contains 0 and is closed under
  +1. With it `LoopRuns` gives each loop its recursion and the rest follows:
  - *Tables.* `Filled`: after i turns `gfExp` holds the first i powers of 3, `gfLog` their
    logarithms, and `x` the next. Of the powers only their recurrence, that they reach every
    non-zero byte and that they return to 1 is used. Once both loops are done every product
    is a sum of logarithms, and tripling is linear, so products distribute over xor
    (`Distributes`): that is `Arithmetic`. `FieldArithmetic` compares with multiplication
    of polynomials turn by turn (`TimesLoop`).
  - *Polynomials.* `Poly(m)` is the functions that `eval` computes from m coefficients.
    `Factor` takes a root out, `Roots` counts them, so two of them that agree at m points
    are one (`Agree`), and `Interpolates` shows Lagrange's sum is in `Poly(m)` and goes
    through its points. `Coordinates`: the numbers up to `Order` have different bits, so no two
    shares have one coordinate and none has 0.
  - *Shares.* `Recover` is `Agree` for the sum that `Combine` computes and the polynomial that
    `Split` drew; `Conceal` interpolates the shares and another key at 0, and
    `CoeffsUnique` says no other coefficients have these values.
  - *Custody.* `IInv`: the tables are filled so far; nothing is dealt before they are complete;
    every split on paper is what `Split` computes from some draw; a combine has printed an
    error or a key. A denominator of lines that pass `CanCombine` is a product of non-zero
    bytes (`Denominators`), which is why no paste panics.

**Only model-checked.**

- `PaidIsAcked` and `Answered`: liveness under fairness needs ENABLED.
- The five properties the violation runs refute.

## What is not modelled

- Cryptography: `aead`, the derivations of `paperkey`, the signatures of providers. A
  callback with a wrong signature or outside Stripe's tolerance changes nothing and is left
  out; the provider signs each repetition anew.
- Amounts: neither provider compares what came in with what was asked (`AmountCents` and
  `amount_sat` are read and dropped), so the model has none either. Bitcoin addresses: the
  server is given one, and which session a transaction pays is the watcher's knowledge.
- A change of the registered providers between two starts of `vaultserver`.
- Parsing, printing, the HTTP surface besides what decides a retry or an owner,
  authentication, key prompts, the printed sheet, `vaultadmin` (one API call per command),
  `Service.Status` and other readers, `ObjectCount`.
- The calendar arithmetic of `Period.advance` (a fixed length stands for it).
- What the shares are for: they rebuild the key derived for "nftvault/master", while
  `vault.Open` seals with its sibling "nftvault/chunk-enc", and no command takes the master
  key back. `KeyCustody` is about the shares only.
- Vendored libraries.

A provider that collects by itself (`Charge` returning a payment) is modelled, though none
in the repository does.

## Plan

1. Done: the billing core with its promise and theorems; the providers and the refinement
   that carries those theorems over; quotas; the storage path; secret sharing; the atomic
   backend that the directory implements.
2. Done: the safety properties of billing, quotas, vault, directory backend and secret
   sharing as theorems, and the three refinements.
3. Left: reading the proofs for steps that can be said with less; theorems
   about the combination of `NodeQuota` and the control plane, if the two are ever composed.
