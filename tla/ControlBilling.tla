--------------------------- MODULE ControlBilling ---------------------------
(***************************************************************************)
(* The billing and account half of the control plane (core/control): the   *)
(* Service, which serialises most of its handlers with Service.mu, over    *)
(* the Store, which changes its in-memory dataset and then rewrites a JSON *)
(* snapshot of all of it.                                                  *)
(*                                                                         *)
(* A handler that writes once is one action.  A handler that writes        *)
(* several times (RunBilling, settleLocked, EnforceDelinquency) is one     *)
(* action per write; `job' is the call that holds Service.mu meanwhile,    *)
(* and handlers that take no lock (CreatePlan, CreateAccount, the first    *)
(* and the last part of CreateCheckout) run between its steps.             *)
(***************************************************************************)
EXTENDS Integers, FiniteSets

CONSTANTS
  Accounts, Plans, InvoiceIds, Sessions,  \* what randID and the providers draw from
  PricedPlans,       \* the plans with PriceCents > 0
  OperatorStatuses,  \* the strings SetStatus is called with: any string is taken
  ChargeOutcomes,    \* whether Charge may collect (TRUE) or decline (FALSE)
  PeriodLength,      \* Period.advance, in ticks
  Grace,             \* the grace EnforceDelinquency is called with
  None,              \* no account, invoice, plan or session
  MaxTime, MaxFailures, MaxCrashes        \* bounds of a finite instance

ASSUME IdsAssumption ==
  /\ PricedPlans \subseteq Plans
  /\ None \notin Accounts \cup InvoiceIds \cup Plans \cup Sessions
ASSUME InputsAssumption ==
  /\ OperatorStatuses \subseteq STRING \ {"none"}
  /\ ChargeOutcomes \subseteq BOOLEAN
ASSUME TimeAssumption ==
  PeriodLength \in Nat \ {0} /\ Grace \in Nat
ASSUME BoundsAssumption ==
  MaxTime \in Nat /\ MaxFailures \in Nat /\ MaxCrashes \in Nat

VARIABLES
  mem,       \* Store.s, the dataset the handlers read and write
  disk,      \* the snapshot file NewStore loads
  job,       \* the call that holds Service.mu between two of its writes
  session,   \* the checkouts: asked of a provider, open, paid, acknowledged
  now,       \* the clock
  drawn,     \* the invoice ids drawn so far: randID does not repeat one
  failures, crashes,
  decided,   \* history: the last decision taken on each account's status
  kept,      \* history: those decisions as the snapshot on disk has them
  cut        \* history: the steps that handlers cut short did not take

vars == <<mem, disk, job, session, now, drawn, failures, crashes, decided, kept, cut>>
-----------------------------------------------------------------------------
(* The dataset.  A key absent from a Go map has status "none".             *)

Statuses == {"none", "active", "suspended", "closed"} \cup OperatorStatuses

AccountRec == [plan : Plans \cup {None}, status : Statuses,
               created : Nat, start : Nat, end : Nat]
InvoiceRec == [acct : Accounts \cup {None}, status : {"none", "open", "paid"},
               start : Nat, end : Nat, created : Nat, ref : Sessions \cup {None}]
Dataset == [plans : SUBSET Plans, accounts : [Accounts -> AccountRec],
            invoices : [InvoiceIds -> InvoiceRec], payments : [InvoiceIds -> Nat]]

NoAccount == [plan |-> None, status |-> "none", created |-> 0, start |-> 0, end |-> 0]
NoInvoice == [acct |-> None, status |-> "none", start |-> 0, end |-> 0,
              created |-> 0, ref |-> None]
EmptyDataset == [plans |-> {}, accounts |-> [a \in Accounts |-> NoAccount],
                 invoices |-> [i \in InvoiceIds |-> NoInvoice],
                 payments |-> [i \in InvoiceIds |-> 0]]

(* The call that holds Service.mu: its next step, and its local variables. *)
Job == [pc : {"idle", "bill", "invoice", "advance", "record", "reactivate", "enforce"},
        todo : SUBSET Accounts, copy : [Accounts -> AccountRec],
        acct : Accounts \cup {None}, inv : InvoiceIds \cup {None},
        via : SUBSET Sessions, at : Nat]
Idle == [pc |-> "idle", todo |-> {}, copy |-> [a \in Accounts |-> NoAccount],
         acct |-> None, inv |-> None, via |-> {}, at |-> 0]
Unlocked == job = Idle

SessionRec == [state : {"none", "asked", "open", "collected", "acked"},
               inv : InvoiceIds \cup {None}]
NoSession == [state |-> "none", inv |-> None]

Init ==
  /\ mem = EmptyDataset /\ disk = EmptyDataset
  /\ job = Idle
  /\ session = [s \in Sessions |-> NoSession]
  /\ now = 0 /\ drawn = {} /\ failures = 0 /\ crashes = 0
  /\ decided = [a \in Accounts |-> [status |-> "none", delinquent |-> FALSE]]
  /\ kept = decided
  /\ cut = {}
-----------------------------------------------------------------------------
(* Helpers.  A definition marked "a mistake" is a wrong variant of the one  *)
(* after it, and is used only to show that a property tells them apart.     *)

Backwards(t) == t - PeriodLength     \* a mistake: a period that runs backwards
advance(t)   == t + PeriodLength

Exists(a)   == mem.accounts[a].status # "none"
Priced(a)   == mem.accounts[a].plan \in PricedPlans
IsIssued(i) == mem.invoices[i].status # "none"  \* a mistake: settles a paid invoice
IsOpen(i)   == mem.invoices[i].status = "open"
IsVoid(i)   == mem.invoices[i].status = "void"  \* a mistake: no retry is accepted
IsPaid(i)   == mem.invoices[i].status = "paid"
OpenOf(a)   == {i \in InvoiceIds : mem.invoices[i].acct = a /\ IsOpen(i)}

(* The memory changes first; persist (write a temporary file, rename it)   *)
(* may fail, and then the change stays in memory only.                     *)
Write(m, ok) ==
  /\ ok \/ failures < MaxFailures
  /\ mem' = m
  /\ disk' = IF ok THEN m ELSE disk
  /\ failures' = IF ok THEN failures ELSE failures + 1

SavePlan(p, ok)       == Write([mem EXCEPT !.plans = @ \cup {p}], ok)
SaveAccount(a, r, ok) == Write([mem EXCEPT !.accounts[a] = r], ok)
SaveInvoice(i, r, ok) == Write([mem EXCEPT !.invoices[i] = r], ok)
SavePayment(i, ok)    == Write([mem EXCEPT !.payments[i] = @ + 1], ok)

SetsStatus(a, st, ok) == SaveAccount(a, [mem.accounts[a] EXCEPT !.status = st], ok)
Decide(a, st, delinquent) ==
  decided' = [decided EXCEPT ![a] = [status |-> st, delinquent |-> delinquent]]
Keep(ok) == kept' = IF ok THEN decided' ELSE kept
CutUnless(ok, step, x) == cut' = IF ok THEN cut ELSE cut \cup {<<step, x>>}
NextJob(rest) == IF rest = {} THEN Idle
                 ELSE [job EXCEPT !.todo = rest, !.acct = None, !.inv = None,
                                  !.pc = IF job.pc = "enforce" THEN "enforce" ELSE "bill"]

(* The webhook, when there was one, is answered 200 as the call returns.   *)
Acknowledge(S) ==
  session' = [s \in Sessions |-> IF s \in S THEN [session[s] EXCEPT !.state = "acked"]
                                 ELSE session[s]]
-----------------------------------------------------------------------------
(* Plans and accounts *)

CreatePlan(p, ok) ==
  /\ p \notin mem.plans
  /\ SavePlan(p, ok)
  /\ UNCHANGED <<job, session, now, drawn, crashes, decided, cut>>
  /\ Keep(ok)

CreateAccount(a, p, ok) ==
  /\ ~Exists(a) /\ p \in mem.plans
  /\ SaveAccount(a, [plan |-> p, status |-> "active", created |-> now,
                     start |-> now, end |-> advance(now)], ok)
  /\ Decide(a, "active", FALSE)
  /\ UNCHANGED <<job, session, now, drawn, crashes, cut>>
  /\ Keep(ok)

UnlockedSetStatus(a, st, ok) ==      \* a mistake: SetStatus without Service.mu
  /\ Exists(a)
  /\ SetsStatus(a, st, ok)
  /\ Decide(a, st, FALSE)
  /\ UNCHANGED <<job, session, now, drawn, crashes, cut>>
  /\ Keep(ok)

SetStatus(a, st, ok) ==
  /\ Unlocked
  /\ Exists(a)
  /\ SetsStatus(a, st, ok)
  /\ Decide(a, st, FALSE)
  /\ UNCHANGED <<job, session, now, drawn, crashes, cut>>
  /\ Keep(ok)
-----------------------------------------------------------------------------
(* RunBilling *)

Due == {a \in Accounts : /\ mem.accounts[a].status \notin {"none", "closed"}
                         /\ mem.accounts[a].end <= now}

(* The loop ranges over the copies ListAccounts returned.  A run with      *)
(* nothing due writes nothing.  The last conjunct is a bound.              *)
StartBilling ==
  /\ Unlocked
  /\ Due # {}
  /\ Cardinality({a \in Due : Priced(a)}) <= Cardinality(InvoiceIds \ drawn)
  /\ job' = [Idle EXCEPT !.pc = "bill", !.todo = Due, !.copy = mem.accounts, !.at = now]
  /\ UNCHANGED <<mem, disk, session, now, drawn, failures, crashes, decided, kept, cut>>

LeftOpen(a, st) ==                   \* a mistake: collected, but left open
  [acct |-> a, status |-> "open", start |-> job.copy[a].start, end |-> job.copy[a].end,
   created |-> job.at, ref |-> None]
PeriodInvoice(a, st) ==
  [acct |-> a, status |-> st, start |-> job.copy[a].start, end |-> job.copy[a].end,
   created |-> job.at, ref |-> None]

ChargeKept(a, i, ok) ==              \* a mistake: what was charged is not invoiced
  /\ job.pc = "bill" /\ a \in job.todo /\ Priced(a)
  /\ TRUE \in ChargeOutcomes
  /\ i \notin drawn
  /\ SavePayment(i, ok)
  /\ drawn' = drawn \cup {i}
  /\ job' = [job EXCEPT !.pc = "advance", !.acct = a, !.inv = i]
  /\ UNCHANGED <<session, now, crashes, decided, cut>>
  /\ Keep(ok)

(* Charge collected: the receipt is saved, and an error of it ignored.     *)
ChargeCollected(a, i, ok) ==
  /\ job.pc = "bill" /\ a \in job.todo /\ Priced(a)
  /\ TRUE \in ChargeOutcomes
  /\ i \notin drawn
  /\ SavePayment(i, ok)
  /\ drawn' = drawn \cup {i}
  /\ job' = [job EXCEPT !.pc = "invoice", !.acct = a, !.inv = i]
  /\ UNCHANGED <<session, now, crashes, decided, cut>>
  /\ Keep(ok)

IssuePaidInvoice(ok) ==
  /\ job.pc = "invoice"
  /\ SaveInvoice(job.inv, PeriodInvoice(job.acct, "paid"), ok)
  /\ job' = IF ok THEN [job EXCEPT !.pc = "advance"] ELSE Idle
  /\ CutUnless(ok, "advance", job.acct)
  /\ UNCHANGED <<session, now, drawn, crashes, decided>>
  /\ Keep(ok)

(* Charge declined, as the manual provider always does.                    *)
IssueOpenInvoice(a, i, ok) ==
  /\ job.pc = "bill" /\ a \in job.todo /\ Priced(a)
  /\ FALSE \in ChargeOutcomes
  /\ i \notin drawn
  /\ SaveInvoice(i, PeriodInvoice(a, "open"), ok)
  /\ drawn' = drawn \cup {i}
  /\ job' = IF ok THEN [job EXCEPT !.pc = "advance", !.acct = a, !.inv = i] ELSE Idle
  /\ CutUnless(ok, "advance", a)
  /\ UNCHANGED <<session, now, crashes, decided>>
  /\ Keep(ok)

Restarted(r) == [r EXCEPT !.start = job.at, !.end = advance(job.at)]  \* a mistake
Extended(r)  == [r EXCEPT !.end = advance(r.end)]                     \* a mistake
Advanced(r)  == [r EXCEPT !.start = r.end, !.end = advance(r.end)]

(* The whole copy is saved back, its status included.                      *)
SaveAdvanced(a, ok) ==
  /\ SaveAccount(a, Advanced(job.copy[a]), ok)
  /\ job' = IF ok THEN NextJob(job.todo \ {a}) ELSE Idle
  /\ CutUnless(ok, "advance", a)
  /\ UNCHANGED <<session, now, drawn, crashes, decided>>
  /\ Keep(ok)

AdvanceBilled(ok) == job.pc = "advance" /\ SaveAdvanced(job.acct, ok)

AdvanceFree(a, ok) ==
  /\ job.pc = "bill" /\ a \in job.todo /\ ~Priced(a)
  /\ SaveAdvanced(a, ok)
-----------------------------------------------------------------------------
(* IssueInvoice, settlement and delinquency *)

IssueInvoice(a, i, ok) ==
  /\ Unlocked
  /\ Exists(a) /\ i \notin drawn
  /\ SaveInvoice(i, [acct |-> a, status |-> "open", start |-> now, end |-> now,
                     created |-> now, ref |-> None], ok)
  /\ drawn' = drawn \cup {i}
  /\ UNCHANGED <<job, session, now, crashes, decided, cut>>
  /\ Keep(ok)

(* settleLocked up to its first write; an error of it ends the call.       *)
Settle(i, via, ok) ==
  /\ Unlocked
  /\ IsOpen(i)
  /\ SaveInvoice(i, [mem.invoices[i] EXCEPT !.status = "paid"], ok)
  /\ job' = IF ok THEN [Idle EXCEPT !.pc = "record", !.inv = i, !.via = via] ELSE Idle
  /\ CutUnless(ok, "record", i)
  /\ UNCHANGED <<session, now, drawn, crashes, decided>>
  /\ Keep(ok)

PayInvoice(i, ok) == Settle(i, {}, ok)

RecordUnchecked(ok) ==               \* a mistake: an error of SavePayment ignored
  /\ job.pc = "record"
  /\ SavePayment(job.inv, ok)
  /\ job' = [job EXCEPT !.pc = "reactivate"]
  /\ UNCHANGED <<session, now, drawn, crashes, decided, cut>>
  /\ Keep(ok)

RecordPayment(ok) ==
  /\ job.pc = "record"
  /\ SavePayment(job.inv, ok)
  /\ job' = IF ok THEN [job EXCEPT !.pc = "reactivate"] ELSE Idle
  /\ CutUnless(ok, "record", job.inv)
  /\ UNCHANGED <<session, now, drawn, crashes, decided>>
  /\ Keep(ok)

ReactivatesAnyway(a) == mem.accounts[a].status = "suspended"  \* a mistake
Reactivates(a) == mem.accounts[a].status = "suspended" /\ OpenOf(a) = {}

(* An error of SaveAccount is ignored: the call succeeds all the same.     *)
Reactivate(ok) ==
  /\ job.pc = "reactivate"
  /\ LET a == mem.invoices[job.inv].acct
     IN  /\ Reactivates(a)
         /\ SetsStatus(a, "active", ok)
         /\ Decide(a, "active", FALSE)
  /\ job' = Idle
  /\ Acknowledge(job.via)
  /\ CutUnless(ok, "unsaved", job.inv)
  /\ UNCHANGED <<now, drawn, crashes>>
  /\ Keep(ok)

LeaveStatus ==
  /\ job.pc = "reactivate"
  /\ ~Reactivates(mem.invoices[job.inv].acct)
  /\ job' = Idle
  /\ Acknowledge(job.via)
  /\ UNCHANGED <<mem, disk, now, drawn, failures, crashes, decided, kept, cut>>

EverOverdue == {a \in Accounts :     \* a mistake: paid invoices count as overdue too
  /\ mem.accounts[a].status = "active"
  /\ \E i \in InvoiceIds : /\ mem.invoices[i].acct = a
                           /\ mem.invoices[i].created < now - Grace}

Delinquent == {a \in Accounts : /\ mem.accounts[a].status = "active"
                                /\ \E i \in OpenOf(a) : mem.invoices[i].created < now - Grace}

StartEnforcement ==
  /\ Unlocked
  /\ Delinquent # {}
  /\ job' = [Idle EXCEPT !.pc = "enforce", !.todo = Delinquent, !.copy = mem.accounts]
  /\ UNCHANGED <<mem, disk, session, now, drawn, failures, crashes, decided, kept, cut>>

(* An error of SaveAccount is ignored, and the loop goes on.               *)
Suspend(a, ok) ==
  /\ job.pc = "enforce" /\ a \in job.todo
  /\ SaveAccount(a, [job.copy[a] EXCEPT !.status = "suspended"], ok)
  /\ Decide(a, "suspended", TRUE)
  /\ job' = NextJob(job.todo \ {a})
  /\ UNCHANGED <<session, now, drawn, crashes, cut>>
  /\ Keep(ok)
-----------------------------------------------------------------------------
(* Checkouts and webhooks *)

(* CreateCheckout up to the unlock before the provider is called.          *)
StartCheckout(s, i) ==
  /\ Unlocked
  /\ IsOpen(i)
  /\ session[s] = NoSession
  /\ session' = [session EXCEPT ![s] = [state |-> "asked", inv |-> i]]
  /\ UNCHANGED <<mem, disk, job, now, drawn, failures, crashes, decided, kept, cut>>

RecordStaleCheckout(s, ok) ==        \* a mistake: the invoice read before the unlock is saved
  /\ Unlocked
  /\ session[s].state = "asked"
  /\ SaveInvoice(session[s].inv, [mem.invoices[session[s].inv] EXCEPT !.ref = s,
                                                                  !.status = "open"], ok)
  /\ session' = [session EXCEPT ![s].state = "open"]
  /\ UNCHANGED <<job, now, drawn, crashes, decided, cut>>
  /\ Keep(ok)

(* The provider has a session; CreateCheckout locks again, re-reads the    *)
(* invoice, and records the session when it is still open.                 *)
RecordCheckout(s, ok) ==
  /\ Unlocked
  /\ session[s].state = "asked" /\ IsOpen(session[s].inv)
  /\ SaveInvoice(session[s].inv, [mem.invoices[session[s].inv] EXCEPT !.ref = s], ok)
  /\ session' = [session EXCEPT ![s].state = "open"]
  /\ UNCHANGED <<job, now, drawn, crashes, decided, cut>>
  /\ Keep(ok)

SkipRecordCheckout(s) ==
  /\ Unlocked
  /\ session[s].state = "asked" /\ ~IsOpen(session[s].inv)
  /\ session' = [session EXCEPT ![s].state = "open"]
  /\ UNCHANGED <<mem, disk, job, now, drawn, failures, crashes, decided, kept, cut>>

ProviderFails(s) ==
  /\ session[s].state = "asked"
  /\ session' = [session EXCEPT ![s] = NoSession]
  /\ UNCHANGED <<mem, disk, job, now, drawn, failures, crashes, decided, kept, cut>>

(* The payer completes the checkout, whatever became of the invoice.       *)
CustomerPays(s) ==
  /\ session[s].state = "open"
  /\ session' = [session EXCEPT ![s].state = "collected"]
  /\ UNCHANGED <<mem, disk, job, now, drawn, failures, crashes, decided, kept, cut>>

(* The provider's callback, delivered as often as it likes: it settles an  *)
(* open invoice, and is answered 200 for one that is not open.             *)
HandleWebhook(s, ok) ==
  /\ session[s].state \in {"collected", "acked"}
  /\ Settle(session[s].inv, {s}, ok)

AckWebhook(s) ==
  /\ Unlocked
  /\ session[s].state = "collected" /\ IsPaid(session[s].inv)
  /\ Acknowledge({s})
  /\ UNCHANGED <<mem, disk, job, now, drawn, failures, crashes, decided, kept, cut>>
-----------------------------------------------------------------------------
(* The environment *)

Tick ==
  /\ now < MaxTime
  /\ now' = now + 1
  /\ UNCHANGED <<mem, disk, job, session, drawn, failures, crashes, decided, kept, cut>>

Untaken == CASE job.pc = "advance" -> {<<"advance", job.acct>>}
             [] job.pc \in {"record", "reactivate"} -> {<<job.pc, job.inv>>}
             [] OTHER -> {}

(* The process dies and restarts from the snapshot; the calls it was       *)
(* serving are gone.                                                       *)
Crash ==
  /\ crashes < MaxCrashes
  /\ crashes' = crashes + 1
  /\ mem' = disk
  /\ job' = Idle
  /\ session' = [s \in Sessions |-> IF session[s].state = "asked" THEN NoSession
                                    ELSE session[s]]
  /\ decided' = kept
  /\ cut' = cut \cup Untaken
  /\ UNCHANGED <<disk, now, drawn, failures, kept>>

(* The next step of the call that holds Service.mu.                        *)
JobStep ==
  \/ \E a \in Accounts, i \in InvoiceIds, ok \in BOOLEAN :
       ChargeCollected(a, i, ok) \/ IssueOpenInvoice(a, i, ok)
  \/ \E a \in Accounts, ok \in BOOLEAN : AdvanceFree(a, ok) \/ Suspend(a, ok)
  \/ \E ok \in BOOLEAN : \/ IssuePaidInvoice(ok) \/ AdvanceBilled(ok)
                         \/ RecordPayment(ok) \/ Reactivate(ok)
  \/ LeaveStatus

Webhook(s) == AckWebhook(s) \/ \E ok \in BOOLEAN : HandleWebhook(s, ok)

(* What the service does without a payment provider.                       *)
ServiceStep ==
  \/ \E p \in Plans, ok \in BOOLEAN : CreatePlan(p, ok)
  \/ \E a \in Accounts, p \in Plans, ok \in BOOLEAN : CreateAccount(a, p, ok)
  \/ \E a \in Accounts, st \in OperatorStatuses, ok \in BOOLEAN : SetStatus(a, st, ok)
  \/ \E a \in Accounts, i \in InvoiceIds, ok \in BOOLEAN : IssueInvoice(a, i, ok)
  \/ \E i \in InvoiceIds, ok \in BOOLEAN : PayInvoice(i, ok)
  \/ StartBilling \/ StartEnforcement \/ JobStep
  \/ \E s \in Sessions, ok \in BOOLEAN : RecordCheckout(s, ok)
  \/ \E s \in Sessions : SkipRecordCheckout(s)
  \/ Tick

Next ==
  \/ ServiceStep
  \/ \E s \in Sessions, i \in InvoiceIds : StartCheckout(s, i)
  \/ \E s \in Sessions : ProviderFails(s) \/ CustomerPays(s) \/ Webhook(s)
  \/ Crash

Spec == Init /\ [][Next]_vars

(* A call that holds the lock goes on; a provider repeats a callback until *)
(* it is answered 200, and a starved sync.Mutex hands itself to its oldest *)
(* waiter.                                                                 *)
FairSpec == Spec /\ WF_vars(JobStep) /\ \A s \in Sessions : SF_vars(Webhook(s))
-----------------------------------------------------------------------------
(* Properties *)

(* Every variable keeps its shape; the shape of a dataset is that of the   *)
(* records of model.go.                                                    *)
TypeOK ==
  /\ mem \in Dataset /\ disk \in Dataset
  /\ job \in Job
  /\ session \in [Sessions -> SessionRec]
  /\ now \in Nat /\ failures \in Nat /\ crashes \in Nat
  /\ drawn \subseteq InvoiceIds
  /\ {decided, kept} \subseteq [Accounts -> [status : Statuses, delinquent : BOOLEAN]]
  /\ cut \subseteq ({"advance"} \X Accounts)
                   \cup ({"record", "reactivate", "unsaved"} \X InvoiceIds)

(* No crash, no failed write and no retried callback makes the control     *)
(* plane record two payments of one invoice, or a payment of an invoice    *)
(* that it still shows as open, in memory or on disk.                      *)
Ledger(m) == \A i \in InvoiceIds : /\ m.payments[i] <= 1
                                   /\ m.payments[i] = 1 => m.invoices[i].status # "open"
LedgerConsistent == Ledger(mem) /\ Ledger(disk)

(* An invoice is paid with no payment recorded only if settleLocked was    *)
(* cut short between its two writes, or still is between them.             *)
Receipted(m) == \A i \in InvoiceIds :
  m.invoices[i].status = "paid" => \/ m.payments[i] = 1 \/ <<"record", i>> \in cut
                                   \/ job.pc = "record" /\ job.inv = i
PaidHasPayment == Receipted(mem) /\ Receipted(disk)

(* Every charge RunBilling collects is invoiced, but for one that a crash  *)
(* or a failed write comes between: each takes away at most one invoice of *)
(* money received, although a payment is saved before its invoice.         *)
Orphaned(m) == {i \in InvoiceIds : /\ m.payments[i] > 0 /\ m.invoices[i].status = "none"
                                   /\ ~(job.pc = "invoice" /\ job.inv = i)}
ChargedIsInvoiced == /\ Cardinality(Orphaned(mem)) <= crashes
                     /\ Cardinality(Orphaned(disk)) <= crashes + failures

(* A provider that is answered 200 will not call again: by then the        *)
(* invoice is paid and its payment recorded in the snapshot on disk,       *)
(* unless settleLocked was cut short on that invoice.                      *)
Recorded(i) == disk.invoices[i].status = "paid" /\ disk.payments[i] = 1
AckedIsRecorded == \A s \in Sessions :
  session[s].state = "acked" => \/ Recorded(session[s].inv)
                                \/ <<"record", session[s].inv>> \in cut

(* RunBilling leaves no instant of a priced account unbilled behind its    *)
(* PeriodStart: whatever write fails and whenever the process dies, the    *)
(* period is advanced only after its invoice is in the dataset.            *)
Covers(m, i, a, t) == /\ m.invoices[i].acct = a
                      /\ m.invoices[i].start <= t /\ t < m.invoices[i].end
Billed(m) == \A a \in Accounts : m.accounts[a].plan \in PricedPlans =>
  \A t \in m.accounts[a].created .. m.accounts[a].start - 1 :
    \E i \in InvoiceIds : Covers(m, i, a, t)
NoPeriodSkipped == Billed(mem) /\ Billed(disk)

(* No two period invoices of an account overlap, unless a RunBilling was   *)
(* cut short between the invoice and the advance of the period.            *)
IsPeriod(m, i, a) == m.invoices[i].acct = a /\ m.invoices[i].start < m.invoices[i].end
NoOverlap(m, a) == \A i, j \in InvoiceIds :
  i # j /\ IsPeriod(m, i, a) /\ IsPeriod(m, j, a) =>
    m.invoices[i].end <= m.invoices[j].start \/ m.invoices[j].end <= m.invoices[i].start
BilledOnce == \A a \in Accounts :
  <<"advance", a>> \notin cut => NoOverlap(mem, a) /\ NoOverlap(disk, a)

(* No update of an account is lost: its status is the one last decided by  *)
(* an operator, a settlement or an enforcement, although RunBilling and    *)
(* EnforceDelinquency write back whole copies read earlier.  On disk it is *)
(* the one last decided when the snapshot was written.                     *)
LastDecisionHolds == \A a \in Accounts :
  mem.accounts[a].status = decided[a].status /\ disk.accounts[a].status = kept[a].status

CutSettling(i) == <<"record", i>> \in cut \/ <<"reactivate", i>> \in cut

(* A tenant suspended for delinquency, in memory or in the snapshot that a *)
(* restart loads, still owes something there that it can pay to be         *)
(* reactivated, or its own settlement is under way, was cut short, or      *)
(* ended with a reactivation that could not be saved.                      *)
Unsaved(i) == <<"unsaved", i>> \in cut
NotStranded(m, decision) == \A a \in Accounts : decision[a].delinquent =>
  \E i \in InvoiceIds : /\ m.invoices[i].acct = a
                        /\ \/ m.invoices[i].status = "open"
                           \/ job.pc \in {"record", "reactivate"} /\ job.inv = i
                           \/ CutSettling(i) \/ Unsaved(i)
NoStrandedTenant == NotStranded(mem, decided) /\ NotStranded(disk, kept)

(* A paid invoice is never open again (nor gone): not on disk at all, and  *)
(* in memory only when a restart reloads an older snapshot.                *)
PaidIsFinal == [][\A i \in InvoiceIds :
  /\ disk.invoices[i].status = "paid" => disk'.invoices[i].status = "paid"
  /\ mem.invoices[i].status = "paid" => mem'.invoices[i].status = "paid" \/ mem' = disk]_vars

(* What a customer paid through a provider is eventually acknowledged,     *)
(* although the lock is contended and the process may crash.               *)
PaidIsAcked == \A s \in Sessions :
  session[s].state = "collected" ~> session[s].state = "acked"

-----------------------------------------------------------------------------
(* The promise: an invoice counts as issued when its period is advanced    *)
(* and as settled when settleLocked returns, so a call that is under way   *)
(* hides what it has written; a crash voids the promise to the tenant of   *)
(* the call it cut short between two writes.                               *)

Voided(a) == \/ <<"advance", a>> \in cut
             \/ \E i \in InvoiceIds : mem.invoices[i].acct = a /\ CutSettling(i)
Issuing(i) == job.pc \in {"invoice", "advance"} /\ job.inv = i
Settling(i) == job.pc \in {"record", "reactivate"} /\ job.inv = i

TenantOf(a) ==
  LET r == mem.accounts[a]
  IN  IF Voided(a)
      THEN [status |-> "none", void |-> TRUE, priced |-> FALSE, start |-> 0, end |-> 0]
      ELSE [status |-> r.status, void |-> FALSE, priced |-> r.plan \in PricedPlans,
            start |-> r.start, end |-> r.end]

Shown(i) == ~(mem.invoices[i].status = "none" \/ Issuing(i) \/ Voided(mem.invoices[i].acct))
StateOf(i) == IF IsOpen(i) \/ Settling(i) THEN "open"
              ELSE IF mem.payments[i] = 1 THEN "settled" ELSE "unreceipted"
BillOf(i) ==
  LET r == mem.invoices[i]
  IN  IF Shown(i)
      THEN [acct |-> r.acct, state |-> StateOf(i), start |-> r.start, end |-> r.end,
            created |-> r.created]
      ELSE [acct |-> None, state |-> "none", start |-> 0, end |-> 0, created |-> 0]

tenants == [a \in Accounts |-> TenantOf(a)]
bills == [i \in InvoiceIds |-> BillOf(i)]

Promise == INSTANCE BillingPromise WITH
  DecidedStatuses <- OperatorStatuses, tenant <- tenants, invoice <- bills

(* The handlers, step by step and with crashes between their steps, keep   *)
(* the promise while no write fails.                                       *)
PromiseKept == Promise!Spec
-----------------------------------------------------------------------------
(* What comments of the code say and a fault or a second payer refutes.    *)

(* service.go:274 on RunBilling: "Idempotent per period".                  *)
BilledOncePerPeriod == \A a \in Accounts : NoOverlap(mem, a)

(* service.go:374 on settleLocked: "Idempotent: a non-open invoice returns *)
(* ErrInvalid so webhooks can be retried safely".                          *)
RetriedSafely == \A s \in Sessions :
  session[s].state = "acked" => Recorded(session[s].inv)

(* model.go:96: "Payment records money received against an invoice": as    *)
(* many payments as checkouts that were paid and acknowledged.             *)
EveryReceiptRecorded == \A i \in InvoiceIds :
  Cardinality({s \in Sessions : session[s].state = "acked" /\ session[s].inv = i})
    <= mem.payments[i]
=============================================================================
