------------------------ MODULE ControlPromise_proofs ------------------------
(***************************************************************************)
(* While no write fails the handlers keep BillingPromise, step by step and *)
(* with crashes between their steps, for every instance.                   *)
(***************************************************************************)
EXTENDS ControlBilling_proofs

NoFault == failures = 0 /\ failures' = 0

(* What a step does when no write fails and nothing crashes.               *)
SameAccounts == mem'.accounts = mem.accounts
AccountAt(a, r) == mem'.accounts = [mem.accounts EXCEPT ![a] = r] /\ SameLedger
JobAt(pc, a, i) == /\ job'.pc = pc /\ job'.acct = a /\ job'.inv = i
                   /\ job'.todo = job.todo /\ job'.copy = job.copy /\ job'.at = job.at
LoopLeaves(a) ==
  \/ job'.pc = "idle"
  \/ /\ job'.pc = IF job.pc = "enforce" THEN "enforce" ELSE "bill"
     /\ job'.todo = job.todo \ {a} /\ job'.at = job.at

Waits == SameAccounts /\ SameLedger /\ job' = job /\ now' \in {now, now + 1}
Joins(a, p) ==
  /\ ~Exists(a) /\ job' = job
  /\ AccountAt(a, [plan |-> p, status |-> "active", created |-> now,
                   start |-> now, end |-> advance(now)])
Sets(a, st) ==
  /\ job.pc = "idle" /\ job' = job /\ Exists(a)
  /\ AccountAt(a, [mem.accounts[a] EXCEPT !.status = st])
TopsUp(a, i) ==
  /\ job.pc = "idle" /\ job' = job /\ Exists(a) /\ i \notin drawn /\ SameAccounts
  /\ InvoiceAt(i, [acct |-> a, status |-> "open", start |-> now, end |-> now,
                   created |-> now, ref |-> None])
BeginsSettling(i) ==
  /\ job.pc = "idle" /\ IsOpen(i) /\ SameAccounts
  /\ InvoiceAt(i, [mem.invoices[i] EXCEPT !.status = "paid"])
  /\ job'.pc = "record" /\ job'.inv = i
BeginsLoop ==
  /\ job.pc = "idle" /\ SameAccounts /\ SameLedger
  /\ \/ job'.pc = "bill" /\ job'.todo = Due /\ job'.at = now
     \/ job'.pc = "enforce" /\ job'.todo = Delinquent
Collects(a, i) ==
  /\ job.pc = "bill" /\ a \in job.todo /\ Priced(a) /\ i \notin drawn
  /\ PaymentAt(i) /\ SameAccounts /\ JobAt("invoice", a, i)
BillsPaid ==
  /\ job.pc = "invoice" /\ SameAccounts /\ JobAt("advance", job.acct, job.inv)
  /\ InvoiceAt(job.inv, PeriodInvoice(job.acct, "paid"))
BillsOpen(a, i) ==
  /\ job.pc = "bill" /\ a \in job.todo /\ Priced(a) /\ i \notin drawn
  /\ InvoiceAt(i, PeriodInvoice(a, "open")) /\ SameAccounts /\ JobAt("advance", a, i)
Advances(a) ==
  /\ a \in job.todo /\ AccountAt(a, Advanced(mem.accounts[a])) /\ LoopLeaves(a)
  /\ \/ job.pc = "bill" /\ ~Priced(a)
     \/ job.pc = "advance" /\ a = job.acct
Suspends(a) ==
  /\ job.pc = "enforce" /\ a \in job.todo /\ LoopLeaves(a)
  /\ AccountAt(a, [mem.accounts[a] EXCEPT !.status = "suspended"])
Receives ==
  /\ job.pc = "record" /\ PaymentAt(job.inv) /\ SameAccounts
  /\ JobAt("reactivate", job.acct, job.inv)
Activates(a) ==
  /\ job.pc = "reactivate" /\ mem.invoices[job.inv].acct = a /\ Reactivates(a)
  /\ AccountAt(a, [mem.accounts[a] EXCEPT !.status = "active"]) /\ job'.pc = "idle"
LeavesAlone ==
  /\ job.pc = "reactivate" /\ ~Reactivates(mem.invoices[job.inv].acct)
  /\ SameAccounts /\ SameLedger /\ job'.pc = "idle"
Names(i, s) == Refers(i, s) /\ SameAccounts

Deed ==
  \/ \E a \in Accounts : \/ \E p \in Plans : Joins(a, p)
                         \/ \E st \in OperatorStatuses : Sets(a, st)
                         \/ Advances(a) \/ Suspends(a) \/ Activates(a)
  \/ \E a \in Accounts, i \in InvoiceIds : TopsUp(a, i) \/ Collects(a, i) \/ BillsOpen(a, i)
  \/ \E i \in InvoiceIds : BeginsSettling(i) \/ \E s \in Sessions : Names(i, s)
  \/ BeginsLoop \/ BillsPaid \/ Receives \/ LeavesAlone
Smooth == cut' = cut /\ (Waits \/ (Deed /\ now' = now))

(* A write that does not fail.                                             *)
LEMMA AccountSaved ==
  ASSUME TypeOK, NoFault, NEW a, NEW r, NEW ok \in BOOLEAN, SaveAccount(a, r, ok)
  PROVE  ok /\ AccountAt(a, r)
<1>1. ok
  BY DEF NoFault, SaveAccount, Write
<1>2. QED
  BY <1>1, AccountWrite DEF AccountAt, SameLedger

LEMMA InvoiceSaved ==
  ASSUME TypeOK, NoFault, NEW i, NEW r, NEW ok \in BOOLEAN, SaveInvoice(i, r, ok)
  PROVE  ok /\ InvoiceAt(i, r) /\ SameAccounts
<1>1. ok
  BY DEF NoFault, SaveInvoice, Write
<1>2. QED
  BY <1>1, InvoiceWrite DEF InvoiceAt, SameAccounts

LEMMA PaymentSaved ==
  ASSUME TypeOK, NoFault, NEW i, NEW ok \in BOOLEAN, SavePayment(i, ok)
  PROVE  ok /\ PaymentAt(i) /\ SameAccounts
<1>1. ok
  BY DEF NoFault, SavePayment, Write
<1>2. QED
  BY <1>1, PaymentWrite DEF PaymentAt, SameAccounts

(* The calls under way: RunBilling only has accounts whose period had      *)
(* ended when it started, and EnforceDelinquency accounts that still owe   *)
(* an overdue invoice.                                                     *)
DueStill(a) == mem.accounts[a].status # "closed" /\ mem.accounts[a].end <= job.at
OwesStill(a) == /\ mem.accounts[a].status = "active"
                /\ \E i \in OpenOf(a) : mem.invoices[i].created < now - Grace
CallOK ==
  /\ job.pc \in {"bill", "invoice", "advance"} =>
       job.at <= now /\ \A a \in job.todo : DueStill(a)
  /\ job.pc \in {"invoice", "advance"} => Priced(job.acct)
  /\ job.pc = "advance" => mem.invoices[job.inv].created = job.at
  /\ job.pc = "enforce" => \A a \in job.todo : OwesStill(a)

(* The bills and the steps cut short are those of accounts that exist.     *)
BillsOwned == \A i \in InvoiceIds :
  mem.invoices[i].status # "none" <=> mem.invoices[i].acct \in Accounts
CutOwned == /\ \A a \in Accounts : <<"advance", a>> \in cut => Exists(a)
            /\ \A i \in InvoiceIds : CutSettling(i) => mem.invoices[i].status # "none"
PromiseInv == CallOK /\ BillsOwned /\ CutOwned

LEMMA PromiseInit == Init => PromiseInv
<1> SUFFICES ASSUME Init PROVE PromiseInv
  OBVIOUS
<1>1. CallOK
  BY IdlePc DEF Init, CallOK
<1>2. BillsOwned
  BY IdsAssumption DEF Init, BillsOwned, EmptyDataset, NoInvoice
<1>3. CutOwned
  BY DEF Init, CutOwned, CutSettling
<1>4. QED
  BY <1>1, <1>2, <1>3 DEF PromiseInv

(* A step that is no write leaves all but the checkouts and the clock.     *)
LEMMA NextWaits ==
  ASSUME SessionsOK, [Next]_vars
  PROVE  UNCHANGED <<mem, job, cut, now>> \/ Tick \/ Effects
<1>1. CASE UNCHANGED vars
  BY <1>1 DEF vars
<1>2. CASE \E s \in Sessions, i \in InvoiceIds : StartCheckout(s, i)
  BY <1>2 DEF StartCheckout
<1>3. ASSUME NEW s \in Sessions, SkipRecordCheckout(s) \/ ProviderFails(s) \/ CustomerPays(s)
      PROVE  UNCHANGED <<mem, job, cut, now>>
  BY <1>3 DEF SkipRecordCheckout, ProviderFails, CustomerPays
<1>4. ASSUME NEW s \in Sessions, AckWebhook(s) PROVE UNCHANGED <<mem, job, cut, now>>
  BY <1>4 DEF AckWebhook
<1>5. ASSUME NEW s \in Sessions, NEW ok \in BOOLEAN, HandleWebhook(s, ok) PROVE Effects
  BY <1>5 DEF HandleWebhook, SessionsOK, Effects
<1>6. ASSUME NEW s \in Sessions, NEW ok \in BOOLEAN, RecordCheckout(s, ok) PROVE Effects
  BY <1>6 DEF RecordCheckout, SessionsOK, Effects
<1>7. CASE \E i \in InvoiceIds, ok \in BOOLEAN : PayInvoice(i, ok)
  BY <1>7 DEF PayInvoice, Effects
<1>8. CASE JobStep
  BY <1>8 DEF JobStep, Effects
<1>9. QED
  BY <1>1, <1>2, <1>3, <1>4, <1>5, <1>6, <1>7, <1>8 DEF Next, ServiceStep, Webhook, Effects

LEMMA Deeds ==
  ASSUME TypeInv, SessionsOK, CopiesInv, BillsOwned, ReceiptsInv, NoFault, disk = mem, [Next]_vars
  PROVE  Crash \/ Smooth
<1> DEFINE Goal == Crash \/ Smooth
<1> SUFFICES Goal
  OBVIOUS
<1> HIDE DEF Goal
<1>0. TypeOK /\ JobOK /\ mem.accounts \in [Accounts -> AccountRec] /\ job \in Job /\ now \in Nat
  BY DEF TypeInv, TypeOK, Dataset
<1>1. ASSUME Deed, cut' = cut, now' = now PROVE Goal
  BY <1>1 DEF Goal, Smooth
<1>2. ASSUME Waits, cut' = cut PROVE Goal
  BY <1>2 DEF Goal, Smooth
<1>3. CASE UNCHANGED <<mem, job, cut, now>>
  BY <1>2, <1>3 DEF Waits, SameAccounts, SameLedger
<1>4. CASE Tick
  BY <1>2, <1>4 DEF Tick, Waits, SameAccounts, SameLedger
<1>5. ASSUME NEW p \in Plans, NEW ok \in BOOLEAN, CreatePlan(p, ok) PROVE Goal
  BY <1>0, <1>2, <1>5, PlanWrite DEF CreatePlan, Waits, SameAccounts, SameLedger
<1>6. ASSUME NEW a \in Accounts, NEW p \in Plans, NEW ok \in BOOLEAN, CreateAccount(a, p, ok)
      PROVE  Goal
  <2> DEFINE r == [plan |-> p, status |-> "active", created |-> now,
                   start |-> now, end |-> advance(now)]
  <2>1. /\ SaveAccount(a, r, ok) /\ cut' = cut /\ now' = now /\ job' = job /\ ~Exists(a)
    BY <1>6 DEF CreateAccount
  <2> HIDE DEF r
  <2>2. AccountAt(a, r)
    BY <1>0, <2>1, AccountSaved
  <2>3. Joins(a, p)
    BY <2>1, <2>2 DEF Joins, r
  <2>4. QED
    BY <1>1, <2>1, <2>3 DEF Deed
<1>7. ASSUME NEW a \in Accounts, NEW st \in OperatorStatuses, NEW ok \in BOOLEAN,
             SetStatus(a, st, ok)
      PROVE  Goal
  <2> DEFINE r == [mem.accounts[a] EXCEPT !.status = st]
  <2>1. /\ SaveAccount(a, r, ok) /\ cut' = cut /\ now' = now /\ job' = job /\ Exists(a)
        /\ job.pc = "idle"
    BY <1>7, IdlePc DEF SetStatus, SetsStatus, Unlocked
  <2> HIDE DEF r
  <2>2. AccountAt(a, r)
    BY <1>0, <2>1, AccountSaved
  <2>3. Sets(a, st)
    BY <2>1, <2>2 DEF Sets, r
  <2>4. QED
    BY <1>1, <2>1, <2>3 DEF Deed
<1>8. ASSUME NEW a \in Accounts, NEW i \in InvoiceIds, NEW ok \in BOOLEAN, IssueInvoice(a, i, ok)
      PROVE  Goal
  <2> DEFINE r == [acct |-> a, status |-> "open", start |-> now, end |-> now,
                   created |-> now, ref |-> None]
  <2>1. /\ SaveInvoice(i, r, ok) /\ cut' = cut /\ now' = now /\ job' = job /\ Exists(a)
        /\ job.pc = "idle" /\ i \notin drawn
    BY <1>8, IdlePc DEF IssueInvoice, Unlocked
  <2> HIDE DEF r
  <2>2. InvoiceAt(i, r) /\ SameAccounts
    BY <1>0, <2>1, InvoiceSaved
  <2>3. TopsUp(a, i)
    BY <2>1, <2>2 DEF TopsUp, r
  <2>4. QED
    BY <1>1, <2>1, <2>3 DEF Deed
<1>9. ASSUME NEW i \in InvoiceIds, NEW via, NEW ok \in BOOLEAN, Settle(i, via, ok) PROVE Goal
  <2> DEFINE r == [mem.invoices[i] EXCEPT !.status = "paid"]
  <2>1. /\ SaveInvoice(i, r, ok) /\ CutUnless(ok, "record", i) /\ now' = now /\ IsOpen(i)
        /\ job' = IF ok THEN [Idle EXCEPT !.pc = "record", !.inv = i, !.via = via] ELSE Idle
        /\ job.pc = "idle"
    BY <1>9, IdlePc DEF Settle, Unlocked
  <2> HIDE DEF r
  <2>2. ok /\ InvoiceAt(i, r) /\ SameAccounts
    BY <1>0, <2>1, InvoiceSaved
  <2>3. job'.pc = "record" /\ job'.inv = i /\ cut' = cut
    BY <2>1, <2>2 DEF Idle, CutUnless
  <2>4. BeginsSettling(i)
    BY <2>1, <2>2, <2>3 DEF BeginsSettling, r
  <2>5. QED
    BY <1>1, <2>1, <2>3, <2>4 DEF Deed
<1>10. CASE StartBilling \/ StartEnforcement
  <2>1. BeginsLoop /\ cut' = cut /\ now' = now
    BY <1>10, IdlePc
      DEF StartBilling, StartEnforcement, Unlocked, BeginsLoop, Idle, SameAccounts, SameLedger
  <2>2. QED
    BY <1>1, <2>1 DEF Deed
<1>11. ASSUME NEW a \in Accounts, NEW i \in InvoiceIds, NEW ok \in BOOLEAN,
              ChargeCollected(a, i, ok)
       PROVE  Goal
  <2>1. PaymentAt(i) /\ SameAccounts
    BY <1>0, <1>11, PaymentSaved DEF ChargeCollected
  <2>2. JobAt("invoice", a, i)
    BY <1>0, <1>11 DEF ChargeCollected, JobAt, Job
  <2>3. Collects(a, i) /\ cut' = cut /\ now' = now
    BY <1>11, <2>1, <2>2 DEF ChargeCollected, Collects
  <2>4. QED
    BY <1>1, <2>3 DEF Deed
<1>12. ASSUME NEW a \in Accounts, NEW i \in InvoiceIds, NEW ok \in BOOLEAN,
              IssueOpenInvoice(a, i, ok)
       PROVE  Goal
  <2> DEFINE r == PeriodInvoice(a, "open")
  <2>1. /\ SaveInvoice(i, r, ok) /\ CutUnless(ok, "advance", a) /\ now' = now
        /\ job.pc = "bill" /\ a \in job.todo /\ Priced(a) /\ i \notin drawn
        /\ job' = IF ok THEN [job EXCEPT !.pc = "advance", !.acct = a, !.inv = i] ELSE Idle
    BY <1>12 DEF IssueOpenInvoice
  <2> HIDE DEF r
  <2>2. ok /\ InvoiceAt(i, r) /\ SameAccounts
    BY <1>0, <2>1, InvoiceSaved
  <2>3. JobAt("advance", a, i) /\ cut' = cut
    BY <1>0, <2>1, <2>2 DEF JobAt, Job, CutUnless
  <2>4. BillsOpen(a, i)
    BY <2>1, <2>2, <2>3 DEF BillsOpen, r
  <2>5. QED
    BY <1>1, <2>1, <2>3, <2>4 DEF Deed
<1>13. ASSUME NEW rest \in SUBSET Accounts, NEW a, rest = job.todo \ {a}, job' = NextJob(rest)
       PROVE  LoopLeaves(a)
  <2>1. CASE rest = {}
    BY <1>13, <2>1, IdlePc DEF NextJob, LoopLeaves
  <2>2. CASE rest # {}
    BY <1>0, <1>13, <2>2 DEF NextJob, LoopLeaves, Job
  <2>3. QED
    BY <2>1, <2>2
<1>14. ASSUME NEW a \in job.todo, NEW ok \in BOOLEAN, SaveAdvanced(a, ok),
              \/ job.pc = "bill" /\ ~Priced(a)
              \/ job.pc = "advance" /\ a = job.acct
       PROVE  Goal
  <2>0. a \in Accounts /\ job.todo \ {a} \in SUBSET Accounts /\ job.copy[a] = mem.accounts[a]
    BY <1>0, <1>14 DEF Job, CopiesInv, HeldInv, JobCopies
  <2> DEFINE r == Advanced(mem.accounts[a])
  <2>1. /\ SaveAccount(a, r, ok) /\ CutUnless(ok, "advance", a) /\ now' = now
        /\ job' = IF ok THEN NextJob(job.todo \ {a}) ELSE Idle
    BY <1>14, <2>0 DEF SaveAdvanced
  <2> HIDE DEF r
  <2>2. ok /\ AccountAt(a, r)
    BY <1>0, <2>1, AccountSaved
  <2>3. LoopLeaves(a) /\ cut' = cut
    BY <1>13, <2>0, <2>1, <2>2 DEF CutUnless
  <2>4. Advances(a)
    BY <1>14, <2>2, <2>3 DEF Advances, r
  <2>5. QED
    BY <1>1, <2>0, <2>1, <2>3, <2>4 DEF Deed
<1>15. ASSUME NEW a \in Accounts, NEW ok \in BOOLEAN, Suspend(a, ok) PROVE Goal
  <2>0. a \in job.todo /\ job.todo \ {a} \in SUBSET Accounts /\ job.copy[a] = mem.accounts[a]
    BY <1>0, <1>15 DEF Suspend, Job, CopiesInv, HeldInv, JobCopies
  <2> DEFINE r == [mem.accounts[a] EXCEPT !.status = "suspended"]
  <2>1. /\ SaveAccount(a, r, ok) /\ now' = now /\ cut' = cut
        /\ job.pc = "enforce" /\ job' = NextJob(job.todo \ {a})
    BY <1>15, <2>0 DEF Suspend
  <2> HIDE DEF r
  <2>2. AccountAt(a, r)
    BY <1>0, <2>1, AccountSaved
  <2>3. Suspends(a)
    BY <1>13, <2>0, <2>1, <2>2 DEF Suspends, r
  <2>4. QED
    BY <1>1, <2>1, <2>3 DEF Deed
<1>16. ASSUME NEW ok \in BOOLEAN, IssuePaidInvoice(ok) PROVE Goal
  <2> DEFINE r == PeriodInvoice(job.acct, "paid")
  <2>1. /\ SaveInvoice(job.inv, r, ok) /\ CutUnless(ok, "advance", job.acct) /\ now' = now
        /\ job.pc = "invoice" /\ job' = IF ok THEN [job EXCEPT !.pc = "advance"] ELSE Idle
    BY <1>16 DEF IssuePaidInvoice
  <2> HIDE DEF r
  <2>2. ok /\ InvoiceAt(job.inv, r) /\ SameAccounts
    BY <1>0, <2>1, InvoiceSaved
  <2>3. JobAt("advance", job.acct, job.inv) /\ cut' = cut
    BY <1>0, <2>1, <2>2 DEF JobAt, Job, CutUnless
  <2>4. BillsPaid
    BY <2>1, <2>2, <2>3 DEF BillsPaid, r
  <2>5. QED
    BY <1>1, <2>1, <2>3, <2>4 DEF Deed
<1>17. ASSUME NEW ok \in BOOLEAN, RecordPayment(ok) PROVE Goal
  <2>1. /\ SavePayment(job.inv, ok) /\ CutUnless(ok, "record", job.inv) /\ now' = now
        /\ job.pc = "record" /\ job' = IF ok THEN [job EXCEPT !.pc = "reactivate"] ELSE Idle
    BY <1>17 DEF RecordPayment
  <2>2. ok /\ PaymentAt(job.inv) /\ SameAccounts
    BY <1>0, <2>1, PaymentSaved
  <2>3. JobAt("reactivate", job.acct, job.inv) /\ cut' = cut
    BY <1>0, <2>1, <2>2 DEF JobAt, Job, CutUnless
  <2>4. Receives
    BY <2>1, <2>2, <2>3 DEF Receives
  <2>5. QED
    BY <1>1, <2>1, <2>3, <2>4 DEF Deed
<1>18. ASSUME NEW ok \in BOOLEAN, Reactivate(ok) PROVE Goal
  <2>1. job.pc = "reactivate" /\ job.inv \in InvoiceIds
    BY <1>0, <1>18 DEF Reactivate, JobOK
  <2>2. mem.invoices[job.inv].acct \in Accounts
    BY <2>1 DEF ReceiptsInv, Recorded, BillsOwned
  <2>3. PICK a \in Accounts : a = mem.invoices[job.inv].acct
    BY <2>2
  <2> DEFINE r == [mem.accounts[a] EXCEPT !.status = "active"]
  <2>4. /\ SaveAccount(a, r, ok) /\ now' = now /\ CutUnless(ok, "unsaved", job.inv)
        /\ Reactivates(a) /\ job' = Idle
    BY <1>18, <2>3 DEF Reactivate, SetsStatus
  <2> HIDE DEF r
  <2>5. ok /\ AccountAt(a, r)
    BY <1>0, <2>4, AccountSaved
  <2>6. Activates(a)
    BY <2>1, <2>3, <2>4, <2>5, IdlePc DEF Activates, r
  <2>7. cut' = cut
    BY <2>4, <2>5 DEF CutUnless
  <2>8. QED
    BY <1>1, <2>4, <2>6, <2>7 DEF Deed
<1>19. CASE LeaveStatus
  <2>1. LeavesAlone /\ cut' = cut /\ now' = now
    BY <1>19, IdlePc DEF LeaveStatus, LeavesAlone, SameAccounts, SameLedger
  <2>2. QED
    BY <1>1, <2>1 DEF Deed
<1>20. ASSUME NEW s \in Sessions, NEW ok \in BOOLEAN, session[s].inv \in InvoiceIds,
              RecordCheckout(s, ok)
       PROVE  Goal
  <2>1. PICK i \in InvoiceIds : i = session[s].inv
    BY <1>20
  <2> DEFINE r == [mem.invoices[i] EXCEPT !.ref = s]
  <2>2. /\ SaveInvoice(i, r, ok) /\ IsOpen(i) /\ job' = job /\ cut' = cut /\ now' = now
        /\ job.pc = "idle"
    BY <1>20, <2>1, IdlePc DEF RecordCheckout, Unlocked
  <2> HIDE DEF r
  <2>3. InvoiceAt(i, r) /\ SameAccounts
    BY <1>0, <2>2, InvoiceSaved
  <2>4. Names(i, s)
    BY <2>2, <2>3 DEF Names, Refers, r
  <2>5. QED
    BY <1>1, <2>2, <2>4 DEF Deed
<1>21. CASE Crash
  BY <1>21 DEF Goal
<1>22. QED
  BY <1>0, <1>3, <1>4, <1>5, <1>6, <1>7, <1>8, <1>9, <1>10, <1>11, <1>12, <1>14, <1>15, <1>16,
     <1>17, <1>18, <1>19, <1>20, <1>21, NextWaits DEF Effects, AdvanceFree, AdvanceBilled, JobOK

(* A deed changes at most one account, and takes none away.                *)
LEMMA AccountsStay ==
  ASSUME TypeInv, Smooth, NEW b \in Accounts
  PROVE  Exists(b) => Exists(b)'
<1> DEFINE Goal == Exists(b) => Exists(b)'
<1> SUFFICES Goal
  OBVIOUS
<1>0. mem.accounts \in [Accounts -> AccountRec]
  BY DEF TypeInv, TypeOK, Dataset
<1>1. ASSUME SameAccounts PROVE Goal
  BY <1>1 DEF SameAccounts, Exists
<1>2. ASSUME NEW a \in Accounts, NEW r, AccountAt(a, r), r.status # "none" \/ ~Exists(a) PROVE Goal
  BY <1>0, <1>2 DEF AccountAt, Exists
<1> HIDE DEF Goal
<1>3. ASSUME NEW a \in Accounts, NEW st, st # "none",
             AccountAt(a, [mem.accounts[a] EXCEPT !.status = st])
      PROVE  Goal
  <2>1. [mem.accounts[a] EXCEPT !.status = st].status # "none"
    BY <1>0, <1>3 DEF AccountRec
  <2>2. QED
    BY <1>2, <1>3, <2>1
<1>4. ASSUME NEW a \in Accounts, Advances(a) PROVE Goal
  <2>1. Advanced(mem.accounts[a]).status = mem.accounts[a].status
    BY <1>0 DEF Advanced, AccountRec
  <2>2. QED
    BY <1>2, <1>4, <2>1 DEF Advances, Exists
<1>5. ASSUME NEW a \in Accounts, NEW p \in Plans, Joins(a, p) PROVE Goal
  BY <1>2, <1>5 DEF Joins
<1>6. ASSUME NEW a \in Accounts, Suspends(a) \/ Activates(a) PROVE Goal
  BY <1>3, <1>6 DEF Suspends, Activates
<1>7. ASSUME NEW a \in Accounts, NEW st \in OperatorStatuses, Sets(a, st) PROVE Goal
  BY <1>3, <1>7, InputsAssumption DEF Sets
<1>8. QED
  BY <1>1, <1>4, <1>5, <1>6, <1>7
    DEF Smooth, Deed, Waits, TopsUp, Collects, BillsOpen, BeginsSettling, Names, BeginsLoop,
        BillsPaid, Receives, LeavesAlone

LEMMA OwnedNext ==
  ASSUME TypeInv, SessionsOK, LedgerInv, CopiesInv, ReceiptsInv, disk = mem, BillsOwned, CutOwned,
         NoFault, [Next]_vars
  PROVE  BillsOwned' /\ CutOwned'
<1>0. (Crash \/ Smooth) /\ (Crash \/ (Onward /\ Move))
  BY Deeds, Moves
<1>1. CASE Crash
  <2>1. mem' = mem /\ cut' = cut \cup Untaken
    BY <1>1 DEF Crash
  <2>2. BillsOwned'
    BY <2>1 DEF BillsOwned
  <2>3. ASSUME NEW a \in Accounts, <<"advance", a>> \in Untaken PROVE Exists(a)
    BY <2>3 DEF Untaken, TypeInv, JobOK, CopiesInv, HeldInv, JobCopies, Exists
  <2>4. ASSUME NEW i \in InvoiceIds, <<"record", i>> \in Untaken \/ <<"reactivate", i>> \in Untaken
        PROVE  mem.invoices[i].status # "none"
    <3>1. job.pc \in {"record", "reactivate"} /\ i = job.inv
      BY <2>4 DEF Untaken
    <3>2. QED
      BY <3>1 DEF LedgerInv, JobLedger, ReceiptsInv, Recorded, Receipt
  <2>5. CutOwned'
    BY <2>1, <2>3, <2>4 DEF CutOwned, CutSettling, Exists
  <2>6. QED
    BY <2>2, <2>5
<1>2. CASE Smooth /\ Move
  <2>1. BillsOwned'
    <3> SUFFICES ASSUME NEW i \in InvoiceIds
                 PROVE  mem'.invoices[i].status # "none" <=> mem'.invoices[i].acct \in Accounts
      BY DEF BillsOwned
    <3> DEFINE Goal == mem'.invoices[i].status # "none" <=> mem'.invoices[i].acct \in Accounts
    <3>0. mem.invoices \in [InvoiceIds -> InvoiceRec]
      BY DEF TypeInv, TypeOK, Dataset
    <3>1. ASSUME mem'.invoices = mem.invoices PROVE Goal
      BY <3>1 DEF BillsOwned
    <3>2. ASSUME NEW j \in InvoiceIds, NEW r, InvoiceAt(j, r), r.status # "none", r.acct \in Accounts
          PROVE  Goal
      <4>1. mem'.invoices[i] = IF i = j THEN r ELSE mem.invoices[i]
        BY <3>0, <3>2 DEF InvoiceAt
      <4>2. QED
        BY <3>2, <4>1 DEF BillsOwned
    <3>3. ASSUME NEW j \in InvoiceIds, IsOpen(j) PROVE mem.invoices[j].acct \in Accounts
      BY <3>3 DEF IsOpen, BillsOwned
    <3>4. ASSUME NEW j \in InvoiceIds, MarksPaid(j) PROVE Goal
      <4>1. /\ [mem.invoices[j] EXCEPT !.status = "paid"].acct = mem.invoices[j].acct
            /\ [mem.invoices[j] EXCEPT !.status = "paid"].status = "paid"
        BY <3>0 DEF InvoiceRec
      <4>2. QED
        BY <3>2, <3>3, <3>4, <4>1 DEF MarksPaid
    <3>5. ASSUME NEW j \in InvoiceIds, NEW s \in Sessions, Refers(j, s) PROVE Goal
      <4>1. /\ [mem.invoices[j] EXCEPT !.ref = s].acct = mem.invoices[j].acct
            /\ [mem.invoices[j] EXCEPT !.ref = s].status = mem.invoices[j].status
        BY <3>0 DEF InvoiceRec
      <4>2. QED
        BY <3>2, <3>3, <3>5, <4>1 DEF Refers, IsOpen
    <3>6. ASSUME NEW j \in InvoiceIds, NEW r \in InvoiceRec, Opens(j, r) PROVE Goal
      BY <3>2, <3>6 DEF Opens
    <3>7. ASSUME NEW r \in InvoiceRec, Invoices(r) PROVE Goal
      BY <3>2, <3>7 DEF Invoices, TypeInv, JobOK
    <3>8. QED
      BY <1>2, <3>1, <3>4, <3>5, <3>6, <3>7
        DEF Move, Loops, Returns, Records, Charges, SameLedger, PaymentAt
  <2>2. ASSUME NEW i \in InvoiceIds, CutSettling(i)' PROVE mem'.invoices[i].status # "none"
    <3>1. mem.invoices[i].acct \in Accounts
      BY <1>2, <2>2 DEF Smooth, CutOwned, CutSettling, BillsOwned
    <3>2. mem'.invoices[i].acct \in Accounts
      BY <1>2, <3>1, MoveOwners
    <3>3. QED
      BY <2>1, <3>2 DEF BillsOwned
  <2>3. CutOwned'
    BY <1>2, <2>2, AccountsStay DEF CutOwned, Smooth
  <2>4. QED
    BY <2>1, <2>3
<1>3. QED
  BY <1>0, <1>1, <1>2

(* The calls under way, step by step.                                      *)
LEMMA CallNext ==
  ASSUME TypeInv, CopiesInv, CallOK, Crash \/ Smooth
  PROVE  CallOK'
<1> DEFINE Goal == CallOK'
<1> SUFFICES Goal
  OBVIOUS
<1>0. /\ mem.accounts \in [Accounts -> AccountRec] /\ mem.invoices \in [InvoiceIds -> InvoiceRec]
      /\ job \in Job /\ now \in Nat /\ Grace \in Nat
      /\ job.pc \in {"invoice", "advance"} => job.acct \in job.todo /\ job.inv \in InvoiceIds
  BY TimeAssumption DEF TypeInv, TypeOK, Dataset, JobOK
<1>1. CASE job'.pc \in {"idle", "record", "reactivate"}
  BY <1>1 DEF CallOK
<1>2. CASE Crash
  BY <1>1, <1>2, IdlePc DEF Crash
(* The accounts still to do are as they were, and the clock goes on.       *)
<1>3. ASSUME job'.pc \in {"bill", "invoice", "advance"}, job.pc \in {"bill", "invoice", "advance"},
             job'.at = job.at, now \in Nat, now' \in {now, now + 1}, job'.todo \subseteq job.todo,
             \A a \in job'.todo : mem'.accounts[a] = mem.accounts[a],
             job'.pc \in {"invoice", "advance"} => job'.acct \in job'.todo /\ Priced(job'.acct),
             job'.pc = "advance" => mem'.invoices[job'.inv].created = job'.at
      PROVE  Goal
  <2>1. job'.at <= now'
    BY <1>0, <1>3 DEF CallOK, Job
  <2>2. \A a \in job'.todo : DueStill(a)'
    BY <1>3 DEF CallOK, DueStill
  <2>3. job'.pc \in {"invoice", "advance"} => mem'.accounts[job'.acct].plan \in PricedPlans
    BY <1>3 DEF Priced
  <2>4. QED
    BY <1>3, <2>1, <2>2, <2>3 DEF CallOK, Priced
<1>4. ASSUME job'.pc = "enforce", job.pc = "enforce", now' \in {now, now + 1},
             job'.todo \subseteq job.todo, mem'.invoices = mem.invoices,
             \A a \in job'.todo : mem'.accounts[a] = mem.accounts[a]
      PROVE  Goal
  <2>1. ASSUME NEW a \in job'.todo PROVE OwesStill(a)'
    <3>1. PICK i \in OpenOf(a) : mem.invoices[i].created < now - Grace
      BY <1>4, <2>1 DEF CallOK, OwesStill
    <3>2. i \in OpenOf(a)'
      BY <1>4, <3>1 DEF OpenOf, IsOpen
    <3>3. mem.invoices[i].created \in Nat
      BY <1>0, <3>1 DEF OpenOf, InvoiceRec
    <3>4. mem'.invoices[i].created < now' - Grace
      BY <1>0, <1>4, <3>1, <3>3
    <3>5. mem'.accounts[a].status = "active"
      BY <1>4, <2>1 DEF CallOK, OwesStill
    <3>6. QED
      BY <3>2, <3>4, <3>5 DEF OwesStill
  <2>2. QED
    BY <1>4, <2>1 DEF CallOK
<1> HIDE DEF Goal
<1>5. CASE Waits
  BY <1>0, <1>1, <1>3, <1>4, <1>5 DEF Waits, SameAccounts, SameLedger, CallOK, Job
<1>6. ASSUME NEW a \in Accounts, NEW p \in Plans, Joins(a, p), now' = now PROVE Goal
  <2>1. a \notin job.todo
    BY <1>6 DEF Joins, Exists, CopiesInv, HeldInv, JobCopies
  <2>2. \A b \in job.todo : mem'.accounts[b] = mem.accounts[b]
    BY <1>0, <1>6, <2>1 DEF Joins, AccountAt, Job
  <2>3. job' = job /\ mem'.invoices = mem.invoices
    BY <1>6 DEF Joins, AccountAt, SameLedger
  <2>4. QED
    BY <1>0, <1>1, <1>3, <1>4, <1>6, <2>2, <2>3 DEF CallOK, Job
<1>7. CASE BeginsLoop /\ now' = now
  <2>1. CASE job'.pc = "bill"
    BY <1>0, <1>7, <2>1 DEF Goal, BeginsLoop, SameAccounts, CallOK, Due, DueStill
  <2>2. CASE job'.pc = "enforce"
    BY <1>0, <1>7, <2>2
      DEF Goal, BeginsLoop, SameAccounts, SameLedger, CallOK, Delinquent, OwesStill, OpenOf, IsOpen
  <2>3. QED
    BY <1>7, <2>1, <2>2 DEF BeginsLoop
<1>8. ASSUME NEW a \in Accounts, NEW i \in InvoiceIds, Collects(a, i), now' = now PROVE Goal
  BY <1>0, <1>3, <1>8 DEF Collects, JobAt, SameAccounts
<1>9. ASSUME NEW a \in Accounts, NEW i \in InvoiceIds, BillsOpen(a, i), now' = now PROVE Goal
  <2>1. mem'.invoices[i] = PeriodInvoice(a, "open")
    BY <1>0, <1>9 DEF BillsOpen, InvoiceAt
  <2>2. mem'.invoices[i].created = job.at
    BY <2>1 DEF PeriodInvoice
  <2>3. QED
    BY <1>0, <1>3, <1>9, <2>2 DEF BillsOpen, JobAt, SameAccounts
<1>10. CASE BillsPaid /\ now' = now
  <2>1. mem'.invoices[job.inv] = PeriodInvoice(job.acct, "paid")
    BY <1>0, <1>10 DEF BillsPaid, InvoiceAt
  <2>2. mem'.invoices[job.inv].created = job.at
    BY <2>1 DEF PeriodInvoice
  <2>3. QED
    BY <1>0, <1>3, <1>10, <2>2 DEF BillsPaid, JobAt, SameAccounts, CallOK
<1>11. ASSUME NEW a \in Accounts, NEW r, AccountAt(a, r), LoopLeaves(a), a \in job.todo, now' = now,
              job.pc \in {"bill", "advance", "enforce"}
       PROVE  Goal
  <2>1. CASE job'.pc = "idle"
    BY <1>1, <2>1
  <2>2. CASE job'.pc # "idle"
    <3>1. job'.todo = job.todo \ {a} /\ job'.at = job.at
      BY <1>11, <2>2 DEF LoopLeaves
    <3>2. \A b \in job'.todo : mem'.accounts[b] = mem.accounts[b]
      BY <1>0, <1>11, <3>1 DEF AccountAt, Job
    <3>3. CASE job.pc = "enforce"
      BY <1>4, <1>11, <2>2, <3>1, <3>2, <3>3 DEF LoopLeaves, AccountAt, SameLedger
    <3>4. CASE job.pc # "enforce"
      BY <1>0, <1>3, <1>11, <2>2, <3>1, <3>2, <3>4 DEF LoopLeaves
    <3>5. QED
      BY <3>3, <3>4
  <2>3. QED
    BY <2>1, <2>2
<1>12. ASSUME NEW a \in Accounts, Advances(a) \/ Suspends(a), now' = now PROVE Goal
  BY <1>11, <1>12 DEF Advances, Suspends
<1>13. QED
  BY <1>1, <1>2, <1>5, <1>6, <1>7, <1>8, <1>9, <1>10, <1>12
    DEF Smooth, Deed, Sets, TopsUp, BeginsSettling, Names, Refers, Receives, JobAt, LeavesAlone,
        Activates
-----------------------------------------------------------------------------
(* All that is known of a state before which no write failed.              *)
Faultless == failures = 0
Sound == /\ TypeInv /\ SessionsOK /\ LedgerInv /\ CopiesInv /\ PeriodsInv /\ ReceiptsInv
         /\ disk = mem /\ PromiseInv

LEMMA SoundHolds == Spec /\ []Faultless => []Sound
<1>1. /\ TypeInv /\ SessionsOK /\ LedgerInv /\ CopiesInv /\ ReceiptsInv /\ OrphanInv /\ PromiseInv
      /\ Faultless /\ Faultless' /\ [Next]_vars
      => PromiseInv'
  <2> SUFFICES ASSUME TypeInv, SessionsOK, LedgerInv, CopiesInv, ReceiptsInv, OrphanInv, PromiseInv,
                      Faultless, Faultless', [Next]_vars
               PROVE  PromiseInv'
    OBVIOUS
  <2>1. NoFault /\ disk = mem
    BY DEF Faultless, NoFault, OrphanInv
  <2>2. CallOK' /\ BillsOwned' /\ CutOwned'
    BY <2>1, Deeds, CallNext, OwnedNext DEF PromiseInv
  <2>3. QED
    BY <2>2 DEF PromiseInv
<1>2. Faultless /\ OrphanInv => disk = mem
  BY DEF Faultless, OrphanInv
<1>3. QED
  BY <1>1, <1>2, PromiseInit, CopiesHold, PeriodsHold, ReceiptsHold, OrphanHold, PTL DEF Spec, Sound

(* What the tenants see of an account and of an invoice.                   *)
LEMMA VoidedKeeps ==
  ASSUME TypeInv, LedgerInv, Move, BillsOwned, CutOwned, cut' = cut
  PROVE  /\ \A a \in Accounts : Voided(a)' <=> Voided(a)
         /\ \A i \in InvoiceIds : mem.invoices[i].status # "none" =>
              mem'.invoices[i].acct = mem.invoices[i].acct
<1>1. ASSUME NEW i \in InvoiceIds, mem.invoices[i].status # "none"
      PROVE  mem'.invoices[i].acct = mem.invoices[i].acct
  BY <1>1, MoveOwners DEF BillsOwned
<1>2. ASSUME NEW i \in InvoiceIds PROVE CutSettling(i)' <=> CutSettling(i)
  BY DEF CutSettling
<1>3. ASSUME NEW i \in InvoiceIds, CutSettling(i)
      PROVE  mem'.invoices[i].acct = mem.invoices[i].acct
  BY <1>1, <1>3 DEF CutOwned
<1>4. ASSUME NEW a \in Accounts PROVE Voided(a)' <=> Voided(a)
  BY <1>2, <1>3 DEF Voided
<1>5. QED
  BY <1>1, <1>4

LEMMA TenantKeeps ==
  ASSUME NEW a \in Accounts, Voided(a)' <=> Voided(a),
         Voided(a) \/ mem'.accounts[a] = mem.accounts[a]
  PROVE  TenantOf(a)' = TenantOf(a)
BY DEF TenantOf

LEMMA BillKeeps ==
  ASSUME NEW i \in InvoiceIds, Shown(i)' <=> Shown(i),
         Shown(i) => /\ mem'.invoices[i].acct = mem.invoices[i].acct
                     /\ mem'.invoices[i].start = mem.invoices[i].start
                     /\ mem'.invoices[i].end = mem.invoices[i].end
                     /\ mem'.invoices[i].created = mem.invoices[i].created
                     /\ StateOf(i)' = StateOf(i)
  PROVE  BillOf(i)' = BillOf(i)
BY DEF BillOf

(* An invoice that a step leaves alone, and that no call takes up or ends  *)
(* with, is still shown as it was.                                         *)
LEMMA BillStays ==
  ASSUME TypeInv, BillsOwned, NEW i \in InvoiceIds, mem'.invoices[i] = mem.invoices[i],
         mem'.payments[i] = mem.payments[i],
         \A a \in Accounts : mem.invoices[i].acct = a => (Voided(a)' <=> Voided(a)),
         Issuing(i)' <=> Issuing(i), Settling(i)' <=> Settling(i)
  PROVE  BillOf(i)' = BillOf(i)
<1>1. mem.invoices[i].status # "none" => mem.invoices[i].acct \in Accounts
  BY DEF BillsOwned
<1>2. Shown(i)' <=> Shown(i)
  BY <1>1 DEF Shown, Issuing, Voided, CutSettling
<1>3. StateOf(i)' = StateOf(i)
  BY DEF StateOf, IsOpen
<1>4. QED
  BY <1>2, <1>3, BillKeeps
-----------------------------------------------------------------------------
(* Steps of the handlers as steps of the promise.                          *)
Working == {"invoice", "advance", "record", "reactivate"}
Onwards == Sound /\ Move /\ cut' = cut
TenantsBut(a) == \A b \in Accounts \ {a} : TenantOf(b)' = TenantOf(b)
BillsBut(i) == \A j \in InvoiceIds \ {i} : BillOf(j)' = BillOf(j)
SameTenants == tenants' = tenants
SameBills == bills' = bills

LEMMA Frame ==
  ASSUME Onwards
  PROVE  /\ \A a \in Accounts : Voided(a)' <=> Voided(a)
         /\ \A i \in InvoiceIds : mem.invoices[i].status # "none" =>
              mem'.invoices[i].acct = mem.invoices[i].acct
BY VoidedKeeps DEF Onwards, Sound, PromiseInv

LEMMA TenantsFrame ==
  ASSUME Onwards, SameAccounts
  PROVE  SameTenants
<1>1. \A a \in Accounts : TenantOf(a)' = TenantOf(a)
  BY Frame, TenantKeeps DEF SameAccounts
<1>2. QED
  BY <1>1 DEF SameTenants, tenants

LEMMA TenantFrame ==
  ASSUME Onwards, NEW a \in Accounts, NEW r, AccountAt(a, r)
  PROVE  TenantsBut(a) /\ (Voided(a) => SameTenants)
<1>0. mem.accounts \in [Accounts -> AccountRec]
  BY DEF Onwards, Sound, TypeInv, TypeOK, Dataset
<1>1. \A b \in Accounts \ {a} : mem'.accounts[b] = mem.accounts[b]
  BY <1>0 DEF AccountAt
<1>2. TenantsBut(a)
  BY <1>1, Frame, TenantKeeps DEF TenantsBut
<1>3. ASSUME Voided(a) PROVE SameTenants
  <2>1. TenantOf(a)' = TenantOf(a)
    BY <1>3, Frame, TenantKeeps
  <2>2. QED
    BY <1>2, <2>1 DEF SameTenants, tenants, TenantsBut
<1>4. QED
  BY <1>2, <1>3

LEMMA BillsFrame ==
  ASSUME Onwards, NEW i,
         \A j \in InvoiceIds \ {i} : /\ mem'.invoices[j] = mem.invoices[j]
                                     /\ mem'.payments[j] = mem.payments[j],
         job.pc \in Working => job.inv = i, job'.pc \in Working => job'.inv = i
  PROVE  BillsBut(i) /\ (i \notin InvoiceIds \/ BillOf(i)' = BillOf(i) => SameBills)
<1>1. ASSUME NEW j \in InvoiceIds \ {i} PROVE BillOf(j)' = BillOf(j)
  <2>1. (Issuing(j)' <=> Issuing(j)) /\ (Settling(j)' <=> Settling(j))
    BY <1>1 DEF Issuing, Settling, Working
  <2>2. QED
    BY <1>1, <2>1, Frame, BillStays DEF Onwards, Sound, PromiseInv
<1>2. BillsBut(i)
  BY <1>1 DEF BillsBut
<1>3. QED
  BY <1>2 DEF BillsBut, SameBills, bills

LEMMA NothingFrame ==
  ASSUME Onwards, SameLedger, job' = job \/ (job.pc \notin Working /\ job'.pc \notin Working)
  PROVE  SameBills
<1>1. ASSUME NEW j \in InvoiceIds PROVE BillOf(j)' = BillOf(j)
  <2>1. (Issuing(j)' <=> Issuing(j)) /\ (Settling(j)' <=> Settling(j))
    BY DEF Issuing, Settling, Working
  <2>2. QED
    BY <1>1, <2>1, Frame, BillStays DEF Onwards, Sound, PromiseInv, SameLedger
<1>2. QED
  BY <1>1 DEF SameBills, bills

(* A write of one invoice, or of its payment.                              *)
LEMMA InvoiceFrame ==
  ASSUME Onwards, NEW i \in InvoiceIds, NEW r, InvoiceAt(i, r) \/ PaymentAt(i),
         job.pc \in Working => job.inv = i, job'.pc \in Working => job'.inv = i
  PROVE  /\ BillsBut(i) /\ (BillOf(i)' = BillOf(i) => SameBills)
         /\ InvoiceAt(i, r) => mem'.invoices[i] = r /\ mem'.payments[i] = mem.payments[i]
         /\ PaymentAt(i) => mem'.invoices[i] = mem.invoices[i]
<1>0. mem.invoices \in [InvoiceIds -> InvoiceRec] /\ mem.payments \in [InvoiceIds -> Nat]
  BY DEF Onwards, Sound, TypeInv, TypeOK, Dataset
<1>1. \A j \in InvoiceIds \ {i} : /\ mem'.invoices[j] = mem.invoices[j]
                                  /\ mem'.payments[j] = mem.payments[j]
  BY <1>0 DEF InvoiceAt, PaymentAt
<1>2. InvoiceAt(i, r) => mem'.invoices[i] = r /\ mem'.payments[i] = mem.payments[i]
  BY <1>0 DEF InvoiceAt
<1>3. PaymentAt(i) => mem'.invoices[i] = mem.invoices[i]
  BY DEF PaymentAt
<1>4. BillsBut(i) /\ (BillOf(i)' = BillOf(i) => SameBills)
  BY <1>1, BillsFrame
<1>5. QED
  BY <1>2, <1>3, <1>4

(* An invoice that is not shown before and after a step is no bill of it.  *)
LEMMA Hidden ==
  ASSUME NEW i \in InvoiceIds, ~Shown(i), ~Shown(i)'
  PROVE  BillOf(i)' = BillOf(i)
BY DEF BillOf

LEMMA ShownKeeps ==
  ASSUME Onwards, NEW i \in InvoiceIds, mem.invoices[i].status # "none",
         mem'.invoices[i].status # "none", Issuing(i)' <=> Issuing(i)
  PROVE  Shown(i)' <=> Shown(i)
<1>1. PICK a \in Accounts : a = mem.invoices[i].acct
  BY DEF Onwards, Sound, PromiseInv, BillsOwned
<1>2. mem'.invoices[i].acct = a
  BY <1>1, Frame
<1>3. Voided(a)' <=> Voided(a)
  BY Frame
<1>4. Shown(i)' <=> ~Issuing(i)' /\ ~Voided(a)'
  BY <1>2 DEF Shown, Voided, CutSettling, Issuing
<1>5. Shown(i) <=> ~Issuing(i) /\ ~Voided(a)
  BY <1>1 DEF Shown
<1>6. QED
  BY <1>3, <1>4, <1>5

(* The steps that the tenants do not see: reading accounts into a loop,    *)
(* marking an invoice paid, charging for and issuing one whose period is   *)
(* not advanced yet, recording a payment or a checkout.                    *)
LEMMA UnseenDeeds ==
  ASSUME Onwards,
         \/ Waits \/ BeginsLoop \/ BillsPaid \/ Receives
         \/ \E i \in InvoiceIds : BeginsSettling(i) \/ \E s \in Sessions : Names(i, s)
         \/ \E a \in Accounts, i \in InvoiceIds : Collects(a, i) \/ BillsOpen(a, i)
  PROVE  SameTenants /\ SameBills
<1> DEFINE Goal == SameTenants /\ SameBills
<1> SUFFICES Goal
  OBVIOUS
<1>0. /\ TypeInv /\ LedgerInv /\ BillsOwned
      /\ mem.invoices \in [InvoiceIds -> InvoiceRec] /\ mem.payments \in [InvoiceIds -> Nat]
  BY DEF Onwards, Sound, PromiseInv, TypeInv, TypeOK, Dataset
<1>1. ASSUME SameAccounts, SameBills PROVE Goal
  BY <1>1, TenantsFrame
<1> HIDE DEF Goal
<1>2. CASE Waits \/ BeginsLoop
  <2>1. SameLedger /\ SameAccounts
    BY <1>2 DEF Waits, BeginsLoop
  <2>2. job' = job \/ (job.pc \notin Working /\ job'.pc \notin Working)
    BY <1>2 DEF Waits, BeginsLoop, Working
  <2>3. QED
    BY <1>1, <2>1, <2>2, NothingFrame
<1>3. ASSUME NEW i \in InvoiceIds, BeginsSettling(i) PROVE Goal
  <2> DEFINE r == [mem.invoices[i] EXCEPT !.status = "paid"]
  <2>1. /\ r.acct = mem.invoices[i].acct /\ r.start = mem.invoices[i].start /\ r.status = "paid"
        /\ r.end = mem.invoices[i].end /\ r.created = mem.invoices[i].created
    BY <1>0 DEF InvoiceRec
  <2>2. InvoiceAt(i, r) /\ SameAccounts /\ job.pc = "idle" /\ job'.pc = "record" /\ job'.inv = i
    BY <1>3 DEF BeginsSettling
  <2> HIDE DEF r
  <2>3. (BillOf(i)' = BillOf(i) => SameBills) /\ mem'.invoices[i] = r
    BY <2>2, InvoiceFrame DEF Working
  <2>4. IsOpen(i) /\ mem.invoices[i].acct \in Accounts
    BY <1>0, <1>3 DEF BeginsSettling, IsOpen, BillsOwned
  <2>5. Shown(i)' <=> Shown(i)
    BY <2>1, <2>2, <2>3, <2>4, ShownKeeps DEF Issuing, IsOpen
  <2>6. StateOf(i)' = StateOf(i)
    BY <2>2, <2>4 DEF StateOf, Settling
  <2>7. QED
    BY <1>1, <2>1, <2>2, <2>3, <2>5, <2>6, BillKeeps
<1>4. ASSUME NEW i \in InvoiceIds, NEW s \in Sessions, Names(i, s) PROVE Goal
  <2> DEFINE r == [mem.invoices[i] EXCEPT !.ref = s]
  <2>1. /\ r.acct = mem.invoices[i].acct /\ r.start = mem.invoices[i].start
        /\ r.status = mem.invoices[i].status
        /\ r.end = mem.invoices[i].end /\ r.created = mem.invoices[i].created
    BY <1>0 DEF InvoiceRec
  <2>2. InvoiceAt(i, r) /\ SameAccounts /\ job.pc = "idle" /\ job'.pc = "idle"
    BY <1>4 DEF Names, Refers
  <2> HIDE DEF r
  <2>3. (BillOf(i)' = BillOf(i) => SameBills) /\ mem'.invoices[i] = r
    BY <2>2, InvoiceFrame DEF Working
  <2>4. IsOpen(i) /\ mem.invoices[i].acct \in Accounts
    BY <1>0, <1>4 DEF Names, Refers, IsOpen, BillsOwned
  <2>5. Shown(i)' <=> Shown(i)
    BY <2>1, <2>2, <2>3, <2>4, ShownKeeps DEF Issuing, IsOpen
  <2>6. StateOf(i)' = StateOf(i)
    BY <2>1, <2>2, <2>3, <2>4 DEF StateOf, Settling, IsOpen
  <2>7. QED
    BY <1>1, <2>1, <2>2, <2>3, <2>5, <2>6, BillKeeps
<1>5. ASSUME NEW a \in Accounts, NEW i \in InvoiceIds, Collects(a, i) PROVE Goal
  <2>1. /\ PaymentAt(i) /\ SameAccounts /\ job.pc = "bill" /\ job'.pc = "invoice" /\ job'.inv = i
        /\ mem.invoices[i].status = "none"
    BY <1>0, <1>5 DEF Collects, JobAt, LedgerInv, LedgerAt, NoInvoice
  <2>2. (BillOf(i)' = BillOf(i) => SameBills) /\ mem'.invoices[i] = mem.invoices[i]
    BY <2>1, InvoiceFrame DEF Working
  <2>3. ~Shown(i) /\ ~Shown(i)'
    BY <2>1, <2>2 DEF Shown
  <2>4. QED
    BY <1>1, <2>1, <2>2, <2>3, Hidden
<1>6. ASSUME NEW a \in Accounts, NEW i \in InvoiceIds, BillsOpen(a, i) PROVE Goal
  <2> DEFINE r == PeriodInvoice(a, "open")
  <2>1. /\ InvoiceAt(i, r) /\ SameAccounts /\ job.pc = "bill" /\ job'.pc = "advance" /\ job'.inv = i
        /\ mem.invoices[i].status = "none"
    BY <1>0, <1>6 DEF BillsOpen, JobAt, LedgerInv, LedgerAt, NoInvoice
  <2> HIDE DEF r
  <2>2. BillOf(i)' = BillOf(i) => SameBills
    BY <2>1, InvoiceFrame DEF Working
  <2>3. ~Shown(i) /\ ~Shown(i)'
    BY <2>1 DEF Shown, Issuing
  <2>4. QED
    BY <1>1, <2>1, <2>2, <2>3, Hidden
<1>7. CASE BillsPaid
  <2>0. PICK i \in InvoiceIds : i = job.inv
    BY <1>0, <1>7 DEF BillsPaid, TypeInv, JobOK
  <2> DEFINE r == PeriodInvoice(job.acct, "paid")
  <2>1. /\ InvoiceAt(i, r) /\ SameAccounts /\ job.pc = "invoice" /\ job'.pc = "advance"
        /\ job'.inv = i
    BY <1>7, <2>0 DEF BillsPaid, JobAt
  <2> HIDE DEF r
  <2>2. BillOf(i)' = BillOf(i) => SameBills
    BY <2>0, <2>1, InvoiceFrame DEF Working
  <2>3. ~Shown(i) /\ ~Shown(i)'
    BY <2>0, <2>1 DEF Shown, Issuing
  <2>4. QED
    BY <1>1, <2>1, <2>2, <2>3, Hidden
<1>8. CASE Receives
  <2>0. PICK i \in InvoiceIds : i = job.inv
    BY <1>0, <1>8 DEF Receives, TypeInv, JobOK
  <2>1. /\ PaymentAt(i) /\ SameAccounts /\ job.pc = "record" /\ job'.pc = "reactivate"
        /\ job'.inv = i /\ mem.invoices[i].status = "paid"
    BY <1>0, <1>8, <2>0 DEF Receives, JobAt, LedgerInv, JobLedger
  <2>2. (BillOf(i)' = BillOf(i) => SameBills) /\ mem'.invoices[i] = mem.invoices[i]
    BY <2>0, <2>1, InvoiceFrame DEF Working
  <2>3. Shown(i)' <=> Shown(i)
    BY <2>1, <2>2, ShownKeeps DEF Issuing
  <2>4. StateOf(i)' = StateOf(i)
    BY <2>0, <2>1 DEF StateOf, Settling
  <2>5. QED
    BY <1>1, <2>1, <2>2, <2>3, <2>4, BillKeeps
<1>9. QED
  BY <1>2, <1>3, <1>4, <1>5, <1>6, <1>7, <1>8

(* The rows of the promise, one at a time.                                 *)
LEMMA OneTenant ==
  ASSUME NEW a \in Accounts, TenantsBut(a), NEW t, TenantOf(a)' = t
  PROVE  tenants' = [tenants EXCEPT ![a] = t]
BY DEF TenantsBut, tenants

LEMMA OneBill ==
  ASSUME NEW i \in InvoiceIds, BillsBut(i), NEW b, BillOf(i)' = b
  PROVE  bills' = [bills EXCEPT ![i] = b]
BY DEF BillsBut, bills

LEMMA Rows ==
  /\ \A a \in Accounts : tenants[a] = TenantOf(a)
  /\ \A i \in InvoiceIds : bills[i] = BillOf(i)
BY DEF tenants, bills

(* An account that does not exist has no invoice and no step cut short.    *)
LEMMA NobodyVoided ==
  ASSUME Sound, NEW a \in Accounts, ~Exists(a)
  PROVE  ~Voided(a)
BY DEF Sound, PromiseInv, CutOwned, PeriodsInv, PeriodsAt, Owned, Voided, Exists

(* A tenant's row; its fields of truth values apart from the others.       *)
Row(st, p, s, e) == [status |-> st, void |-> FALSE, priced |-> p, start |-> s, end |-> e]

LEMMA RowFields ==
  ASSUME NEW st, NEW p, NEW s, NEW e
  PROVE  /\ Row(st, p, s, e).status = st
         /\ ~Row(st, p, s, e).void /\ Row(st, p, s, e).priced = p
         /\ Row(st, p, s, e).start = s /\ Row(st, p, s, e).end = e
BY DEF Row

LEMMA RowDecided ==
  ASSUME NEW st, NEW p, NEW s, NEW e, NEW x
  PROVE  [Row(st, p, s, e) EXCEPT !.status = x] = Row(x, p, s, e)
<1>1. PICK v : v = FALSE
  OBVIOUS
<1>2. /\ Row(st, p, s, e) = [status |-> st, void |-> v, priced |-> p, start |-> s, end |-> e]
      /\ Row(x, p, s, e) = [status |-> x, void |-> v, priced |-> p, start |-> s, end |-> e]
  BY <1>1 DEF Row
<1>3. QED
  BY <1>2

LEMMA RowStarted ==
  ASSUME NEW st, NEW p, NEW s, NEW e, NEW x
  PROVE  [Row(st, p, s, e) EXCEPT !.start = x] = Row(st, p, x, e)
<1>1. PICK v : v = FALSE
  OBVIOUS
<1>2. /\ Row(st, p, s, e) = [status |-> st, void |-> v, priced |-> p, start |-> s, end |-> e]
      /\ Row(st, p, x, e) = [status |-> st, void |-> v, priced |-> p, start |-> x, end |-> e]
  BY <1>1 DEF Row
<1>3. QED
  BY <1>2

LEMMA RowEnded ==
  ASSUME NEW st, NEW p, NEW s, NEW e, NEW x
  PROVE  [Row(st, p, s, e) EXCEPT !.end = x] = Row(st, p, s, x)
<1>1. PICK v : v = FALSE
  OBVIOUS
<1>2. /\ Row(st, p, s, e) = [status |-> st, void |-> v, priced |-> p, start |-> s, end |-> e]
      /\ Row(st, p, s, x) = [status |-> st, void |-> v, priced |-> p, start |-> s, end |-> x]
  BY <1>1 DEF Row
<1>3. QED
  BY <1>2

From(r, s, e) == [r EXCEPT !.start = s, !.end = e]

LEMMA RowAdvanced ==
  ASSUME NEW st, NEW p, NEW s, NEW e, NEW x, NEW r, r = Row(st, p, s, e)
  PROVE  From(r, e, x) = Row(st, p, e, x)
<1>1. [r EXCEPT !.start = e, !.end = x] = [[r EXCEPT !.start = e] EXCEPT !.end = x]
  OBVIOUS
<1>2. PICK q : q = [r EXCEPT !.start = e]
  OBVIOUS
<1>3. q = Row(st, p, e, e)
  BY <1>2, RowStarted
<1>4. [q EXCEPT !.end = x] = Row(st, p, e, x)
  BY <1>3, RowEnded
<1>5. QED
  BY <1>1, <1>2, <1>4 DEF From

LEMMA RowOf ==
  ASSUME NEW a \in Accounts, ~Voided(a)
  PROVE  TenantOf(a) = Row(mem.accounts[a].status, mem.accounts[a].plan \in PricedPlans,
                           mem.accounts[a].start, mem.accounts[a].end)
BY DEF TenantOf, Row

LEMMA Shows ==
  ASSUME NEW a \in Accounts, ~Voided(a)
  PROVE  /\ tenants[a].status = mem.accounts[a].status
         /\ ~tenants[a].void /\ (tenants[a].priced <=> Priced(a))
         /\ tenants[a].start = mem.accounts[a].start /\ tenants[a].end = mem.accounts[a].end
<1>1. PICK p : p = (mem.accounts[a].plan \in PricedPlans)
  OBVIOUS
<1>2. tenants[a] = Row(mem.accounts[a].status, p, mem.accounts[a].start, mem.accounts[a].end)
  BY <1>1, Rows, RowOf
<1>3. /\ tenants[a].status = mem.accounts[a].status /\ ~tenants[a].void
      /\ tenants[a].priced = p
      /\ tenants[a].start = mem.accounts[a].start /\ tenants[a].end = mem.accounts[a].end
  BY <1>2, RowFields
<1>4. QED
  BY <1>1, <1>3 DEF Priced

LEMMA ShowsBill ==
  ASSUME NEW i \in InvoiceIds
  PROVE  /\ Shown(i) => /\ bills[i].acct = mem.invoices[i].acct /\ bills[i].state = StateOf(i)
                        /\ bills[i].start = mem.invoices[i].start
                        /\ bills[i].end = mem.invoices[i].end
                        /\ bills[i].created = mem.invoices[i].created
         /\ ~Shown(i) => bills[i].state = "none" /\ bills[i].acct = None
<1>1. CASE Shown(i)
  <2>1. bills[i] = [acct |-> mem.invoices[i].acct, state |-> StateOf(i),
                    start |-> mem.invoices[i].start, end |-> mem.invoices[i].end,
                    created |-> mem.invoices[i].created]
    BY <1>1, Rows DEF BillOf
  <2>2. QED
    BY <1>1, <2>1
<1>2. CASE ~Shown(i)
  <2>1. bills[i] = [acct |-> None, state |-> "none", start |-> 0, end |-> 0, created |-> 0]
    BY <1>2, Rows DEF BillOf
  <2>2. QED
    BY <1>2, <2>1
<1>3. QED
  BY <1>1, <1>2

LEMMA JoinStep ==
  ASSUME Onwards, now' = now, NEW a \in Accounts, NEW p \in Plans, Joins(a, p)
  PROVE  Promise!Join(a, p \in PricedPlans)
<1> DEFINE r == [plan |-> p, status |-> "active", created |-> now,
                 start |-> now, end |-> advance(now)]
<1>0. mem.accounts \in [Accounts -> AccountRec]
  BY DEF Onwards, Sound, TypeInv, TypeOK, Dataset
<1>1. r.status = "active" /\ r.plan = p /\ r.start = now /\ r.end = now + PeriodLength
  BY DEF advance
<1>2. AccountAt(a, r) /\ ~Exists(a) /\ job' = job
  BY DEF Joins
<1> HIDE DEF r
<1>3. mem'.accounts[a] = r
  BY <1>0, <1>2 DEF AccountAt
<1>4. ~Voided(a) /\ ~Voided(a)'
  BY <1>2, NobodyVoided, Frame DEF Onwards
<1>5. tenants[a].status = "none" /\ ~tenants[a].void
  BY <1>2, <1>4, Shows DEF Exists
<1>6. TenantOf(a)' = [status |-> "active", void |-> FALSE, priced |-> p \in PricedPlans,
                      start |-> now, end |-> now + PeriodLength]
  BY <1>1, <1>3, <1>4 DEF TenantOf
<1>7. tenants' = [tenants EXCEPT ![a] =
                    [status |-> "active", void |-> FALSE, priced |-> p \in PricedPlans,
                     start |-> now, end |-> now + PeriodLength]]
  BY <1>2, <1>6, TenantFrame, OneTenant
<1>8. SameBills
  BY <1>2, NothingFrame DEF AccountAt
<1>9. QED
  BY <1>5, <1>7, <1>8 DEF Promise!Join, SameBills

(* Writing the status of an account writes the status of its tenant.       *)
LEMMA StatusRow ==
  ASSUME Onwards, NEW a \in Accounts, NEW st, ~Voided(a),
         AccountAt(a, [mem.accounts[a] EXCEPT !.status = st])
  PROVE  tenants' = [tenants EXCEPT ![a].status = st]
<1> DEFINE r == [mem.accounts[a] EXCEPT !.status = st]
<1>0. mem.accounts \in [Accounts -> AccountRec]
  BY DEF Onwards, Sound, TypeInv, TypeOK, Dataset
<1>1. /\ r.status = st /\ r.plan = mem.accounts[a].plan
      /\ r.start = mem.accounts[a].start /\ r.end = mem.accounts[a].end
  BY <1>0 DEF AccountRec
<1>2. AccountAt(a, r)
  OBVIOUS
<1> HIDE DEF r
<1>3. mem'.accounts[a] = r /\ ~Voided(a)'
  BY <1>0, <1>2, Frame DEF AccountAt
<1>4. TenantOf(a)' = Row(st, mem.accounts[a].plan \in PricedPlans,
                         mem.accounts[a].start, mem.accounts[a].end)
  BY <1>1, <1>3 DEF TenantOf, Row
<1>5. TenantOf(a)' = [TenantOf(a) EXCEPT !.status = st]
  BY <1>4, RowOf, RowDecided
<1>6. tenants' = [tenants EXCEPT ![a] = [TenantOf(a) EXCEPT !.status = st]]
  BY <1>2, <1>5, TenantFrame, OneTenant
<1>7. QED
  BY <1>6, Rows

LEMMA DecideStep ==
  ASSUME Onwards, now' = now, NEW a \in Accounts, NEW st \in OperatorStatuses, Sets(a, st)
  PROVE  Promise!Decide(a, st) \/ (SameTenants /\ SameBills)
<1>1. AccountAt(a, [mem.accounts[a] EXCEPT !.status = st]) /\ Exists(a) /\ job' = job
  BY DEF Sets
<1>2. SameBills
  BY <1>1, NothingFrame DEF AccountAt
<1>3. CASE Voided(a)
  BY <1>1, <1>2, <1>3, TenantFrame
<1>4. CASE ~Voided(a)
  <2>1. tenants' = [tenants EXCEPT ![a].status = st]
    BY <1>1, <1>4, StatusRow
  <2>2. tenants[a].status # "none"
    BY <1>1, <1>4, Shows DEF Exists
  <2>3. QED
    BY <1>2, <2>1, <2>2 DEF Promise!Decide, Promise!Served, SameBills
<1>5. QED
  BY <1>3, <1>4

LEMMA SuspendStep ==
  ASSUME Onwards, now' = now, NEW a \in Accounts, Suspends(a)
  PROVE  Promise!Suspend(a) \/ (SameTenants /\ SameBills)
<1>1. /\ AccountAt(a, [mem.accounts[a] EXCEPT !.status = "suspended"])
      /\ job.pc = "enforce" /\ a \in job.todo /\ job'.pc \notin Working
  BY DEF Suspends, LoopLeaves, Working
<1>2. SameBills
  BY <1>1, NothingFrame DEF AccountAt, Working
<1>3. CASE Voided(a)
  BY <1>1, <1>2, <1>3, TenantFrame
<1>4. CASE ~Voided(a)
  <2>1. tenants' = [tenants EXCEPT ![a].status = "suspended"]
    BY <1>1, <1>4, StatusRow
  <2>2. OwesStill(a)
    BY <1>1 DEF Onwards, Sound, PromiseInv, CallOK
  <2>3. tenants[a].status = "active"
    BY <1>4, <2>2, Shows DEF OwesStill
  <2>4. PICK i \in OpenOf(a) : mem.invoices[i].created < now - Grace
    BY <2>2 DEF OwesStill
  <2>5. i \in InvoiceIds /\ Shown(i) /\ mem.invoices[i].acct = a /\ StateOf(i) = "open"
    BY <1>1, <1>4, <2>4 DEF OpenOf, IsOpen, Shown, Issuing, StateOf
  <2>6. bills[i].acct = a /\ bills[i].state = "open" /\ bills[i].created = mem.invoices[i].created
    BY <2>5, ShowsBill
  <2>7. i \in Promise!OpenOf(a) /\ bills[i].created < now - Grace
    BY <2>4, <2>5, <2>6 DEF Promise!OpenOf
  <2>8. QED
    BY <1>2, <2>1, <2>3, <2>7 DEF Promise!Suspend, SameBills
<1>5. QED
  BY <1>3, <1>4

(* Advancing the period of an account writes the row of its tenant.        *)
LEMMA AdvancedRow ==
  ASSUME Onwards, NEW a \in Accounts, AccountAt(a, Advanced(mem.accounts[a])), ~Voided(a)
  PROVE  Promise!Advance(a)
<1> DEFINE r == Advanced(mem.accounts[a])
<1>0. mem.accounts \in [Accounts -> AccountRec]
  BY DEF Onwards, Sound, TypeInv, TypeOK, Dataset
<1>1. /\ r.status = mem.accounts[a].status /\ r.plan = mem.accounts[a].plan
      /\ r.start = mem.accounts[a].end /\ r.end = mem.accounts[a].end + PeriodLength
  BY <1>0 DEF AccountRec, Advanced, advance
<1>2. AccountAt(a, r)
  OBVIOUS
<1> HIDE DEF r
<1>3. mem'.accounts[a] = r /\ ~Voided(a)'
  BY <1>0, <1>2, Frame DEF AccountAt
<1>4. PICK st, p, b, s, e : /\ st = mem.accounts[a].status /\ b = mem.accounts[a].start
                            /\ p = (mem.accounts[a].plan \in PricedPlans)
                            /\ s = mem.accounts[a].end /\ e = s + PeriodLength
  OBVIOUS
<1>5. TenantOf(a)' = Row(st, p, s, e)
  BY <1>1, <1>3, <1>4 DEF TenantOf, Row
<1>6. tenants[a].end = s
  BY <1>4, Shows
<1>7. TenantOf(a) = Row(st, p, b, s)
  BY <1>4, RowOf
<1>8. PICK t : t = tenants[a] /\ t = Row(st, p, b, s)
  BY <1>7, Rows
<1>9. From(t, s, e) = Row(st, p, s, e)
  BY <1>8, RowAdvanced
<1>10. tenants' = [tenants EXCEPT ![a] = [t EXCEPT !.start = s, !.end = e]]
  BY <1>2, <1>5, <1>9, TenantFrame, OneTenant DEF From
<1>11. [tenants EXCEPT ![a].start = s, ![a].end = e]
         = [tenants EXCEPT ![a] = [tenants[a] EXCEPT !.start = s, !.end = e]]
  BY DEF tenants
<1>12. tenants' = [tenants EXCEPT ![a].start = s, ![a].end = e]
  BY <1>8, <1>10, <1>11
<1>13. QED
  BY <1>4, <1>6, <1>12 DEF Promise!Advance

LEMMA FreeStep ==
  ASSUME Onwards, now' = now, NEW a \in Accounts, Advances(a), job.pc = "bill"
  PROVE  Promise!PassFreePeriod(a) \/ (SameTenants /\ SameBills)
<1>1. /\ AccountAt(a, Advanced(mem.accounts[a])) /\ ~Priced(a) /\ a \in job.todo
      /\ job'.pc \notin Working
  BY DEF Advances, LoopLeaves, Working
<1>2. SameBills
  BY <1>1, NothingFrame DEF AccountAt, Working
<1>3. CASE Voided(a)
  BY <1>1, <1>2, <1>3, TenantFrame
<1>4. CASE ~Voided(a)
  <2>1. DueStill(a) /\ job.at <= now /\ mem.accounts[a].status # "none"
    BY <1>1 DEF Onwards, Sound, PromiseInv, CallOK, CopiesInv, HeldInv, JobCopies
  <2>2. mem.accounts[a].end \in Nat /\ job.at \in Nat /\ now \in Nat
    BY DEF Onwards, Sound, TypeInv, TypeOK, Dataset, AccountRec, Job
  <2>3. mem.accounts[a].end <= now
    BY <2>1, <2>2 DEF DueStill
  <2>4. /\ tenants[a].status # "none" /\ ~tenants[a].priced /\ tenants[a].end <= now
        /\ tenants[a].status # "closed"
    BY <1>1, <1>4, <2>1, <2>3, Shows DEF DueStill
  <2>5. Promise!Advance(a)
    BY <1>1, <1>4, AdvancedRow
  <2>6. QED
    BY <1>2, <2>4, <2>5 DEF Promise!PassFreePeriod, Promise!Served, SameBills
<1>5. QED
  BY <1>3, <1>4

LEMMA TopUpStep ==
  ASSUME Onwards, now' = now, NEW a \in Accounts, NEW i \in InvoiceIds, TopsUp(a, i)
  PROVE  Promise!TopUp(a, i) \/ (SameTenants /\ SameBills)
<1> DEFINE r == [acct |-> a, status |-> "open", start |-> now, end |-> now,
                 created |-> now, ref |-> None]
<1>0. r.acct = a /\ r.status = "open" /\ r.start = now /\ r.end = now /\ r.created = now
  OBVIOUS
<1>1. /\ InvoiceAt(i, r) /\ SameAccounts /\ Exists(a) /\ job.pc = "idle" /\ job' = job
      /\ mem.invoices[i].status = "none"
  BY DEF TopsUp, Onwards, Sound, LedgerInv, LedgerAt, NoInvoice
<1> HIDE DEF r
<1>2. BillsBut(i) /\ (BillOf(i)' = BillOf(i) => SameBills) /\ mem'.invoices[i] = r
  BY <1>1, InvoiceFrame DEF Working
<1>3. SameTenants
  BY <1>1, TenantsFrame
<1>4. mem'.invoices[i].acct = a /\ mem'.invoices[i].status = "open"
  BY <1>0, <1>2
<1>5. Shown(i)' <=> ~Voided(a)
  BY <1>1, <1>4, Frame DEF Shown, Issuing, Voided, CutSettling
<1>6. ~Shown(i)
  BY <1>1 DEF Shown
<1>7. CASE Voided(a)
  BY <1>2, <1>3, <1>5, <1>6, <1>7, Hidden
<1>8. CASE ~Voided(a)
  <2>1. StateOf(i)' = "open"
    BY <1>4 DEF StateOf, IsOpen
  <2>2. BillOf(i)' = [acct |-> a, state |-> "open", start |-> now, end |-> now, created |-> now]
    BY <1>0, <1>2, <1>5, <1>8, <2>1 DEF BillOf
  <2>3. bills' = [bills EXCEPT ![i] = [acct |-> a, state |-> "open", start |-> now, end |-> now,
                                       created |-> now]]
    BY <1>2, <2>2, OneBill
  <2>4. bills[i].state = "none"
    BY <1>6, ShowsBill
  <2>5. tenants[a].status # "none"
    BY <1>1, <1>8, Shows DEF Exists
  <2>6. QED
    BY <1>3, <2>3, <2>4, <2>5 DEF Promise!TopUp, Promise!Served, SameTenants
<1>9. QED
  BY <1>7, <1>8

(* Advancing a billed period shows its invoice.                            *)
LEMMA BilledStep ==
  ASSUME Onwards, now' = now, NEW a \in Accounts, Advances(a), job.pc = "advance"
  PROVE  \/ \E i \in InvoiceIds, state \in {"open", "settled"}, t \in 0 .. now :
              Promise!BillPeriod(a, i, state, t)
         \/ SameTenants /\ SameBills
<1>0. mem.invoices \in [InvoiceIds -> InvoiceRec] /\ job.at \in Nat /\ now \in Nat
  BY DEF Onwards, Sound, TypeInv, TypeOK, Dataset, Job
<1>1. PICK i \in InvoiceIds : i = job.inv
  BY DEF Onwards, Sound, TypeInv, JobOK
<1>2. /\ AccountAt(a, Advanced(mem.accounts[a])) /\ a \in job.todo /\ a = job.acct
      /\ job'.pc \notin Working
  BY DEF Advances, LoopLeaves, Working
<1>3. /\ mem'.invoices = mem.invoices /\ mem'.payments = mem.payments
  BY <1>2 DEF AccountAt, SameLedger
<1>4. BillsBut(i) /\ (BillOf(i)' = BillOf(i) => SameBills)
  BY <1>1, <1>2, <1>3, BillsFrame
<1>5. /\ mem.invoices[i].acct = a /\ mem.invoices[i].start = mem.accounts[a].start
      /\ mem.invoices[i].end = mem.accounts[a].end
  BY <1>1, <1>2 DEF Onwards, Sound, PeriodsInv, JobBills, Bills
<1>6. mem.invoices[i].status # "none"
  BY <1>5 DEF Onwards, Sound, PromiseInv, BillsOwned
<1>7. ~Shown(i) /\ (Shown(i)' <=> ~Voided(a))
  <2>1. ~Shown(i)
    BY <1>1 DEF Shown, Issuing
  <2>2. ~Issuing(i)'
    BY <1>2 DEF Issuing, Working
  <2>3. mem'.invoices[i].acct = a /\ mem'.invoices[i].status # "none"
    BY <1>3, <1>5, <1>6
  <2>4. Voided(a)' <=> Voided(a)
    BY Frame
  <2>5. QED
    BY <2>1, <2>2, <2>3, <2>4 DEF Shown, Voided, CutSettling
<1>8. CASE Voided(a)
  BY <1>2, <1>4, <1>7, <1>8, TenantFrame, Hidden
<1>9. CASE ~Voided(a)
  <2>1. Promise!Advance(a)
    BY <1>2, <1>9, AdvancedRow
  <2>2. /\ DueStill(a) /\ job.at <= now /\ Priced(a) /\ mem.invoices[i].created = job.at
        /\ mem.accounts[a].status # "none"
    BY <1>1, <1>2 DEF Onwards, Sound, PromiseInv, CallOK, CopiesInv, HeldInv, JobCopies
  <2>3. /\ tenants[a].status # "none" /\ tenants[a].status # "closed" /\ tenants[a].priced
        /\ tenants[a].end <= job.at
        /\ tenants[a].start = mem.accounts[a].start /\ tenants[a].end = mem.accounts[a].end
    BY <1>9, <2>2, Shows DEF DueStill
  <2>4. PICK st \in {"open", "settled"} : StateOf(i)' = st
    <3>1. ~Settling(i)'
      BY <1>2 DEF Settling, Working
    <3>2. CASE mem.invoices[i].status = "open"
      BY <1>3, <3>2 DEF StateOf, IsOpen
    <3>3. CASE mem.invoices[i].status # "open"
      <4>1. mem.invoices[i].status = "paid"
        BY <1>0, <1>6, <3>3 DEF InvoiceRec
      <4>2. ~CutAt(i)
        BY <1>5, <1>9 DEF Voided, CutSettling, CutAt
      <4>3. mem.payments[i] = 1
        BY <4>1, <4>2 DEF Onwards, Sound, ReceiptsInv, PaidHasPayment, Receipted, CutAt
      <4>4. QED
        BY <1>3, <3>1, <4>1, <4>3 DEF StateOf, IsOpen
    <3>4. QED
      BY <3>2, <3>3
  <2>5. BillOf(i)' = [acct |-> a, state |-> st, start |-> tenants[a].start,
                      end |-> tenants[a].end, created |-> job.at]
    BY <1>3, <1>5, <1>7, <1>9, <2>2, <2>3, <2>4 DEF BillOf
  <2>6. bills' = [bills EXCEPT ![i] = [acct |-> a, state |-> st, start |-> tenants[a].start,
                                       end |-> tenants[a].end, created |-> job.at]]
    BY <1>4, <2>5, OneBill
  <2>7. bills[i].state = "none"
    BY <1>7, ShowsBill
  <2>8. Promise!BillPeriod(a, i, st, job.at)
    BY <2>1, <2>2, <2>3, <2>6, <2>7 DEF Promise!BillPeriod, Promise!Served
  <2>9. job.at \in 0 .. now
    BY <1>0, <2>2
  <2>10. QED
    BY <2>8, <2>9
<1>10. QED
  BY <1>8, <1>9

(* Returning from a settlement shows its invoice settled, and its tenant   *)
(* active again when nothing else is open.                                 *)
LEMMA SettleStep ==
  ASSUME Onwards, now' = now, LeavesAlone \/ \E a \in Accounts : Activates(a)
  PROVE  (\E i \in InvoiceIds : Promise!Settle(i)) \/ (SameTenants /\ SameBills)
<1>0. mem.invoices \in [InvoiceIds -> InvoiceRec]
  BY DEF Onwards, Sound, TypeInv, TypeOK, Dataset
<1>1. /\ job.pc = "reactivate" /\ job'.pc = "idle"
      /\ mem'.invoices = mem.invoices /\ mem'.payments = mem.payments
  BY DEF LeavesAlone, Activates, AccountAt, SameLedger
<1>2. PICK i \in InvoiceIds : i = job.inv
  BY <1>1 DEF Onwards, Sound, TypeInv, JobOK
<1>3. mem.invoices[i].status = "paid" /\ mem.payments[i] = 1
  BY <1>1, <1>2 DEF Onwards, Sound, ReceiptsInv, Receipt
<1>4. PICK a \in Accounts : a = mem.invoices[i].acct
  BY <1>3 DEF Onwards, Sound, PromiseInv, BillsOwned
<1>5. \/ Reactivates(a) /\ AccountAt(a, [mem.accounts[a] EXCEPT !.status = "active"])
      \/ ~Reactivates(a) /\ SameAccounts
  BY <1>2, <1>4 DEF LeavesAlone, Activates
<1>6. BillsBut(i) /\ (BillOf(i)' = BillOf(i) => SameBills)
  BY <1>1, <1>2, BillsFrame DEF Working
<1>7. (Shown(i)' <=> Shown(i)) /\ (Shown(i) <=> ~Voided(a))
  <2>1. ~Issuing(i) /\ ~Issuing(i)'
    BY <1>1 DEF Issuing
  <2>2. Shown(i)' <=> Shown(i)
    BY <1>1, <1>3, <2>1, ShownKeeps
  <2>3. QED
    BY <1>3, <1>4, <2>1, <2>2 DEF Shown
<1>8. CASE Voided(a)
  BY <1>5, <1>6, <1>7, <1>8, TenantFrame, TenantsFrame, Hidden
<1>9. CASE ~Voided(a)
  <2>1. StateOf(i) = "open" /\ StateOf(i)' = "settled"
    BY <1>1, <1>2, <1>3 DEF StateOf, IsOpen, Settling
  <2>2. bills[i].acct = a /\ bills[i].state = "open"
    BY <1>4, <1>7, <1>9, <2>1, ShowsBill
  <2>3. bills' = [bills EXCEPT ![i].state = "settled"]
    <3>1. PICK s, e, c : /\ s = mem.invoices[i].start /\ e = mem.invoices[i].end
                         /\ c = mem.invoices[i].created
      OBVIOUS
    <3>2. BillOf(i) = [acct |-> a, state |-> "open", start |-> s, end |-> e, created |-> c]
      BY <1>4, <1>7, <1>9, <2>1, <3>1 DEF BillOf
    <3>3. BillOf(i)' = [acct |-> a, state |-> "settled", start |-> s, end |-> e, created |-> c]
      BY <1>1, <1>4, <1>7, <1>9, <2>1, <3>1 DEF BillOf
    <3>4. bills' = [bills EXCEPT ![i] = [acct |-> a, state |-> "settled", start |-> s,
                                         end |-> e, created |-> c]]
      BY <1>6, <3>3, OneBill
    <3>5. PICK b : b = bills[i]
      OBVIOUS
    <3>6. b = [acct |-> a, state |-> "open", start |-> s, end |-> e, created |-> c]
      BY <3>2, <3>5, Rows
    <3>7. [b EXCEPT !.state = "settled"] = [acct |-> a, state |-> "settled", start |-> s,
                                            end |-> e, created |-> c]
      BY <3>6
    <3>8. bills' = [bills EXCEPT ![i] = [b EXCEPT !.state = "settled"]]
      BY <3>4, <3>7
    <3>9. QED
      BY <3>5, <3>8
  <2>4. Promise!OpenOf(a) = OpenOf(a) \cup {i}
    <3>1. i \in Promise!OpenOf(a)
      BY <2>2 DEF Promise!OpenOf
    <3>2. ASSUME NEW j \in InvoiceIds, j # i
          PROVE  j \in Promise!OpenOf(a) <=> j \in OpenOf(a)
      <4>1. ~Settling(j) /\ ~Issuing(j)
        BY <1>1, <1>2, <3>2 DEF Settling, Issuing
      <4>2. CASE Shown(j)
        BY <4>1, <4>2, ShowsBill DEF Promise!OpenOf, OpenOf, StateOf
      <4>3. CASE ~Shown(j)
        <5>1. j \notin Promise!OpenOf(a)
          BY <4>3, ShowsBill DEF Promise!OpenOf
        <5>2. j \notin OpenOf(a)
          BY <1>9, <4>1, <4>3 DEF Shown, OpenOf, IsOpen
        <5>3. QED
          BY <5>1, <5>2
      <4>4. QED
        BY <4>2, <4>3
    <3>3. QED
      BY <3>1, <3>2 DEF Promise!OpenOf, OpenOf
  <2>5. Promise!OpenOf(a) = {i} <=> OpenOf(a) = {}
    BY <1>3, <2>4 DEF OpenOf, IsOpen
  <2>6. (tenants[a].status = "suspended" /\ Promise!OpenOf(a) = {i}) <=> Reactivates(a)
    BY <1>9, <2>5, Shows DEF Reactivates
  <2>7. tenants' = IF tenants[a].status = "suspended" /\ Promise!OpenOf(a) = {i}
                   THEN [tenants EXCEPT ![a].status = "active"] ELSE tenants
    <3>1. CASE Reactivates(a)
      BY <1>5, <1>9, <2>6, <3>1, StatusRow
    <3>2. CASE ~Reactivates(a)
      BY <1>5, <2>6, <3>2, TenantsFrame DEF SameTenants
    <3>3. QED
      BY <3>1, <3>2
  <2>8. Promise!Settle(i)
    BY <2>2, <2>3, <2>7 DEF Promise!Settle
  <2>9. QED
    BY <2>8
<1>10. QED
  BY <1>8, <1>9

(* A crash voids the promise to the tenant of the call it cuts short.      *)
LEMMA CrashVoids ==
  ASSUME Sound, Crash, NEW a \in Accounts, NEW i \in InvoiceIds, i = job.inv,
         job.pc \in {"advance", "record", "reactivate"}, mem.invoices[i].acct = a,
         job.pc = "advance" => job.acct = a
  PROVE  Promise!Abandon(a) \/ (SameTenants /\ SameBills)
<1>1. mem' = mem /\ job'.pc = "idle" /\ cut' = cut \cup Untaken /\ now' = now
  BY IdlePc DEF Crash, Sound
<1>2. ASSUME NEW b \in Accounts PROVE Voided(b)' <=> (Voided(b) \/ b = a)
  <2>1. CASE job.pc = "advance"
    <3>1. Untaken = {<<"advance", a>>}
      BY <2>1 DEF Untaken
    <3>2. ASSUME NEW j \in InvoiceIds PROVE CutSettling(j)' <=> CutSettling(j)
      BY <1>1, <3>1 DEF CutSettling
    <3>3. <<"advance", b>> \in cut' <=> (<<"advance", b>> \in cut \/ b = a)
      BY <1>1, <3>1
    <3>4. QED
      BY <1>1, <3>2, <3>3 DEF Voided
  <2>2. CASE job.pc \in {"record", "reactivate"}
    <3>1. Untaken = {<<job.pc, i>>}
      BY <2>2 DEF Untaken
    <3>2. ASSUME NEW j \in InvoiceIds PROVE CutSettling(j)' <=> (CutSettling(j) \/ j = i)
      BY <1>1, <2>2, <3>1 DEF CutSettling
    <3>3. <<"advance", b>> \in cut' <=> <<"advance", b>> \in cut
      BY <1>1, <2>2, <3>1
    <3>4. QED
      BY <1>1, <3>2, <3>3 DEF Voided
  <2>3. QED
    BY <2>1, <2>2
<1>3. ~Issuing(i)' /\ \A j \in InvoiceIds : ~Issuing(j)' /\ ~Settling(j)'
  BY <1>1 DEF Issuing, Settling
<1>4. \A j \in InvoiceIds : mem.invoices[j].status # "none" => mem.invoices[j].acct \in Accounts
  BY DEF Sound, PromiseInv, BillsOwned
<1>5. ASSUME NEW j \in InvoiceIds
      PROVE  Shown(j)' <=> (Shown(j) /\ mem.invoices[j].acct # a)
  <2>1. CASE mem.invoices[j].status = "none"
    BY <1>1, <2>1 DEF Shown
  <2>2. CASE mem.invoices[j].status # "none"
    <3>1. PICK b \in Accounts : b = mem.invoices[j].acct
      BY <1>4, <2>2
    <3>2. Voided(b)' <=> (Voided(b) \/ b = a)
      BY <1>2
    <3>3. Issuing(j) => b = a
      BY <3>1 DEF Issuing
    <3>4. Shown(j)' <=> ~Voided(b)'
      BY <1>1, <1>3, <2>2, <3>1 DEF Shown, Voided, CutSettling, Issuing
    <3>5. Shown(j) <=> ~Issuing(j) /\ ~Voided(b)
      BY <2>2, <3>1 DEF Shown
    <3>6. QED
      BY <3>1, <3>2, <3>3, <3>4, <3>5
  <2>3. QED
    BY <2>1, <2>2
<1>6. ASSUME NEW j \in InvoiceIds, mem.invoices[j].acct # a PROVE BillOf(j)' = BillOf(j)
  <2>1. ~Settling(j)
    BY <1>6 DEF Settling
  <2>2. StateOf(j)' = StateOf(j)
    BY <1>1, <1>3, <2>1 DEF StateOf, IsOpen
  <2>3. QED
    BY <1>1, <1>5, <1>6, <2>2, BillKeeps
<1>7. ASSUME NEW b \in Accounts, b # a PROVE TenantOf(b)' = TenantOf(b)
  BY <1>1, <1>2, <1>7, TenantKeeps
<1>8. CASE Voided(a)
  <2>1. \A b \in Accounts : TenantOf(b)' = TenantOf(b)
    BY <1>2, <1>7, <1>8, TenantKeeps
  <2>2. ASSUME NEW j \in InvoiceIds, mem.invoices[j].acct = a PROVE BillOf(j)' = BillOf(j)
    BY <1>5, <1>8, <2>2, Hidden DEF Shown
  <2>3. QED
    BY <1>6, <2>1, <2>2 DEF SameTenants, SameBills, tenants, bills
<1>9. CASE ~Voided(a)
  <2>1. TenantOf(a)' = [status |-> "none", void |-> TRUE, priced |-> FALSE,
                        start |-> 0, end |-> 0]
    BY <1>2 DEF TenantOf
  <2>2. tenants' = [tenants EXCEPT ![a] = [status |-> "none", void |-> TRUE, priced |-> FALSE,
                                           start |-> 0, end |-> 0]]
    BY <1>7, <2>1, OneTenant DEF TenantsBut
  <2>3. mem.accounts[a].status # "none"
    BY DEF Sound, PeriodsInv, PeriodsAt, Owned
  <2>4. tenants[a].status # "none"
    BY <1>9, <2>3, Shows
  <2>5. ASSUME NEW j \in InvoiceIds
        PROVE  BillOf(j)' = IF bills[j].acct = a
                            THEN [acct |-> None, state |-> "none", start |-> 0, end |-> 0,
                                  created |-> 0]
                            ELSE bills[j]
    <3>1. bills[j] = BillOf(j)
      BY Rows
    <3>2. CASE bills[j].acct = a
      <4>1. Shown(j) /\ mem.invoices[j].acct = a
        BY <3>2, ShowsBill, IdsAssumption
      <4>2. QED
        BY <1>5, <3>2, <4>1 DEF BillOf
    <3>3. CASE bills[j].acct # a /\ mem.invoices[j].acct # a
      BY <1>6, <3>1, <3>3
    <3>4. CASE bills[j].acct # a /\ mem.invoices[j].acct = a
      <4>1. ~Shown(j)
        BY <3>4, ShowsBill
      <4>2. QED
        BY <1>5, <3>1, <3>4, <4>1, Hidden
    <3>5. QED
      BY <3>2, <3>3, <3>4
  <2>6. bills' = [j \in InvoiceIds |-> IF bills[j].acct = a
                                       THEN [acct |-> None, state |-> "none", start |-> 0,
                                             end |-> 0, created |-> 0]
                                       ELSE bills[j]]
    BY <2>5 DEF bills
  <2>7. QED
    BY <1>1, <2>2, <2>4, <2>6
      DEF Promise!Abandon, Promise!Served, Promise!Void, Promise!NoInvoice
<1>10. QED
  BY <1>8, <1>9

(* A crash between two calls, or before a charge is invoiced, is not seen. *)
LEMMA CrashUnseen ==
  ASSUME Sound, Crash, job.pc \notin {"advance", "record", "reactivate"}
  PROVE  SameTenants /\ SameBills
<1>1. mem' = mem /\ job'.pc = "idle" /\ cut' = cut
  BY IdlePc DEF Crash, Sound, Untaken
<1>2. \A b \in Accounts : Voided(b)' <=> Voided(b)
  BY <1>1 DEF Voided, CutSettling
<1>3. ASSUME NEW b \in Accounts PROVE TenantOf(b)' = TenantOf(b)
  BY <1>1, <1>2, TenantKeeps
<1>4. ASSUME NEW j \in InvoiceIds PROVE BillOf(j)' = BillOf(j)
  <2>1. ~Settling(j) /\ ~Settling(j)' /\ ~Issuing(j)'
    BY <1>1 DEF Settling, Issuing
  <2>2. CASE Issuing(j)
    <3>1. mem.invoices[j].status = "none"
      BY <2>2 DEF Issuing, Sound, LedgerInv, JobLedger, NoInvoice
    <3>2. QED
      BY <1>1, <3>1, Hidden DEF Shown
  <2>3. CASE ~Issuing(j)
    <3>1. mem.invoices[j].status # "none" => mem.invoices[j].acct \in Accounts
      BY DEF Sound, PromiseInv, BillsOwned
    <3>2. Shown(j)' <=> Shown(j)
      BY <1>1, <1>2, <2>1, <2>3, <3>1 DEF Shown, Issuing, Voided, CutSettling
    <3>3. StateOf(j)' = StateOf(j)
      BY <1>1, <2>1 DEF StateOf, IsOpen
    <3>4. QED
      BY <1>1, <3>2, <3>3, BillKeeps
  <2>4. QED
    BY <2>2, <2>3
<1>5. QED
  BY <1>3, <1>4 DEF SameTenants, SameBills, tenants, bills

LEMMA CrashStep ==
  ASSUME Sound, Crash
  PROVE  (\E a \in Accounts : Promise!Abandon(a)) \/ (SameTenants /\ SameBills)
<1>1. CASE job.pc \notin {"advance", "record", "reactivate"}
  BY <1>1, CrashUnseen
<1>2. CASE job.pc \in {"advance", "record", "reactivate"}
  <2>1. PICK i \in InvoiceIds : i = job.inv
    BY <1>2 DEF Sound, TypeInv, JobOK
  <2>2. CASE job.pc = "advance"
    <3>1. PICK a \in Accounts : a = job.acct
      BY <2>2 DEF Sound, TypeInv, TypeOK, JobOK, Job
    <3>2. mem.invoices[i].acct = a
      BY <2>1, <2>2, <3>1 DEF Sound, PeriodsInv, JobBills, Bills
    <3>3. QED
      BY <1>2, <2>1, <3>1, <3>2, CrashVoids
  <2>3. CASE job.pc # "advance"
    <3>1. mem.invoices[i].status = "paid"
      BY <1>2, <2>1, <2>3 DEF Sound, LedgerInv, JobLedger, ReceiptsInv, Receipt
    <3>2. PICK a \in Accounts : a = mem.invoices[i].acct
      BY <3>1 DEF Sound, PromiseInv, BillsOwned
    <3>3. QED
      BY <1>2, <2>1, <2>3, <3>2, CrashVoids
  <2>4. QED
    BY <2>2, <2>3
<1>3. QED
  BY <1>1, <1>2
-----------------------------------------------------------------------------
(* Membership as a value.                                                  *)
LEMMA IsTruth ==
  ASSUME NEW x, NEW S
  PROVE  (x \in S) \in BOOLEAN
OBVIOUS

LEMMA IsNot ==
  ASSUME NEW x, NEW S, x \notin S
  PROVE  (x \in S) = FALSE
OBVIOUS

LEMMA PromiseStarts == Init => Promise!Init
<1> SUFFICES ASSUME Init PROVE Promise!Init
  OBVIOUS
<1>1. ASSUME NEW a \in Accounts
      PROVE  TenantOf(a) = [status |-> "none", void |-> FALSE, priced |-> FALSE,
                            start |-> 0, end |-> 0]
  <2>1. ~Voided(a)
    BY DEF Init, Voided, CutSettling
  <2>2. mem.accounts[a] = NoAccount
    BY DEF Init, EmptyDataset
  <2>3. /\ mem.accounts[a].status = "none" /\ mem.accounts[a].plan \notin PricedPlans
        /\ mem.accounts[a].start = 0 /\ mem.accounts[a].end = 0
    BY <2>2, IdsAssumption DEF NoAccount
  <2>4. PICK x : x = mem.accounts[a].plan
    OBVIOUS
  <2>5. (x \in PricedPlans) = FALSE
    BY <2>3, <2>4, IsNot
  <2>6. TenantOf(a) = [status |-> "none", void |-> FALSE, priced |-> x \in PricedPlans,
                       start |-> 0, end |-> 0]
    BY <2>1, <2>3, <2>4 DEF TenantOf
  <2>7. QED
    BY <2>5, <2>6
<1>2. ASSUME NEW i \in InvoiceIds
      PROVE  BillOf(i) = [acct |-> None, state |-> "none", start |-> 0, end |-> 0, created |-> 0]
  BY DEF Init, EmptyDataset, NoInvoice, Shown, BillOf
<1>3. QED
  BY <1>1, <1>2
    DEF Init, Promise!Init, Promise!NoTenant, Promise!NoInvoice, tenants, bills

LEMMA PromiseNext ==
  ASSUME Sound, NoFault, [Next]_vars
  PROVE  [Promise!Next]_(Promise!vars)
<1> DEFINE Goal == [Promise!Next]_(Promise!vars)
<1> SUFFICES Goal
  OBVIOUS
<1>1. ASSUME SameTenants, SameBills, now' = now PROVE Goal
  BY <1>1 DEF SameTenants, SameBills, Promise!vars
<1>2. ASSUME SameTenants, SameBills, now' = now + 1 PROVE Goal
  BY <1>2 DEF SameTenants, SameBills, Promise!Next, Promise!Tick
<1>3. ASSUME NEW a \in Accounts,
             \/ \E priced \in BOOLEAN : Promise!Join(a, priced)
             \/ \E st \in OperatorStatuses : Promise!Decide(a, st)
             \/ Promise!PassFreePeriod(a) \/ Promise!Suspend(a) \/ Promise!Abandon(a)
      PROVE  Goal
  BY <1>3 DEF Promise!Next
<1>4. ASSUME NEW a \in Accounts, NEW i \in InvoiceIds,
             \/ Promise!TopUp(a, i)
             \/ \E state \in {"open", "settled"}, t \in 0 .. now :
                  Promise!BillPeriod(a, i, state, t)
      PROVE  Goal
  BY <1>4 DEF Promise!Next
<1>5. ASSUME NEW i \in InvoiceIds, Promise!Settle(i) PROVE Goal
  BY <1>5 DEF Promise!Next
<1> HIDE DEF Goal
<1>6. (Crash \/ Smooth) /\ (Crash \/ (Onward /\ Move))
  BY Deeds, Moves DEF Sound, PromiseInv
<1>7. CASE Crash
  BY <1>1, <1>3, <1>7, CrashStep DEF Crash
<1>8. CASE Smooth /\ Move
  <2>1. Onwards
    BY <1>8 DEF Onwards, Smooth
  <2>2. CASE Waits
    BY <1>1, <1>2, <2>1, <2>2, UnseenDeeds DEF Waits
  <2>3. CASE Deed /\ now' = now
    <3>1. ASSUME \/ BeginsLoop \/ BillsPaid \/ Receives
                 \/ \E i \in InvoiceIds : BeginsSettling(i) \/ \E s \in Sessions : Names(i, s)
                 \/ \E a \in Accounts, i \in InvoiceIds : Collects(a, i) \/ BillsOpen(a, i)
          PROVE  Goal
      BY <1>1, <2>1, <2>3, <3>1, UnseenDeeds
    <3>2. ASSUME NEW a \in Accounts, NEW p \in Plans, Joins(a, p) PROVE Goal
      <4>1. Promise!Join(a, p \in PricedPlans)
        BY <2>1, <2>3, <3>2, JoinStep
      <4>2. PICK b \in BOOLEAN : b = (p \in PricedPlans)
        BY IsTruth
      <4>3. Promise!Join(a, b)
        BY <4>1, <4>2
      <4>4. QED
        BY <1>3, <4>3
    <3>3. ASSUME NEW a \in Accounts, NEW st \in OperatorStatuses, Sets(a, st) PROVE Goal
      BY <1>1, <1>3, <2>1, <2>3, <3>3, DecideStep
    <3>4. ASSUME NEW a \in Accounts, Suspends(a) PROVE Goal
      BY <1>1, <1>3, <2>1, <2>3, <3>4, SuspendStep
    <3>5. ASSUME NEW a \in Accounts, Advances(a) PROVE Goal
      <4>1. CASE job.pc = "bill"
        BY <1>1, <1>3, <2>1, <2>3, <3>5, <4>1, FreeStep
      <4>2. CASE job.pc = "advance"
        BY <1>1, <1>4, <2>1, <2>3, <3>5, <4>2, BilledStep
      <4>3. QED
        BY <3>5, <4>1, <4>2 DEF Advances
    <3>6. ASSUME NEW a \in Accounts, NEW i \in InvoiceIds, TopsUp(a, i) PROVE Goal
      BY <1>1, <1>4, <2>1, <2>3, <3>6, TopUpStep
    <3>7. ASSUME LeavesAlone \/ \E a \in Accounts : Activates(a) PROVE Goal
      BY <1>1, <1>5, <2>1, <2>3, <3>7, SettleStep
    <3>8. QED
      BY <2>3, <3>1, <3>2, <3>3, <3>4, <3>5, <3>6, <3>7 DEF Deed
  <2>4. QED
    BY <1>8, <2>2, <2>3 DEF Smooth
<1>9. QED
  BY <1>6, <1>7, <1>8

(* While no write of the snapshot fails, the control plane keeps the       *)
(* promise BillingPromise makes to its tenants: every handler, taken step  *)
(* by step, interleaved with the others and cut short by crashes anywhere, *)
(* shows them one atomic step of the promise, or nothing.                  *)
THEOREM ControlKeepsPromise == Spec /\ []Faultless => PromiseKept
<1>1. Sound /\ Faultless /\ Faultless' /\ [Next]_vars => [Promise!Next]_(Promise!vars)
  BY PromiseNext DEF Faultless, NoFault
<1>2. QED
  BY <1>1, PromiseStarts, SoundHolds, PTL DEF Spec, PromiseKept, Promise!Spec

(* Where no write is let fail, none does.                                  *)
LEMMA NoneFails ==
  ASSUME MaxFailures = 0, Faultless, [Next]_vars
  PROVE  Faultless'
<1> SUFFICES failures' = failures
  BY DEF Faultless
<1>1. ASSUME NEW m, NEW ok \in BOOLEAN, Write(m, ok) PROVE failures' = failures
  <2>1. ~(failures < MaxFailures)
    BY DEF Faultless
  <2>2. QED
    BY <1>1, <2>1 DEF Write
<1>2. ASSUME NEW ok \in BOOLEAN,
             \/ \E p \in Plans : CreatePlan(p, ok)
             \/ \E a \in Accounts, p \in Plans : CreateAccount(a, p, ok)
             \/ \E a \in Accounts, st \in OperatorStatuses : SetStatus(a, st, ok)
             \/ \E a \in Accounts, i \in InvoiceIds : IssueInvoice(a, i, ok)
             \/ \E i \in InvoiceIds : PayInvoice(i, ok)
             \/ \E s \in Sessions : RecordCheckout(s, ok) \/ HandleWebhook(s, ok)
      PROVE  failures' = failures
  BY <1>1, <1>2
    DEF CreatePlan, CreateAccount, SetStatus, IssueInvoice, PayInvoice, RecordCheckout,
        HandleWebhook, Settle, SetsStatus, SavePlan, SaveAccount, SaveInvoice
<1>3. CASE JobStep
  BY <1>1, <1>3
    DEF JobStep, ChargeCollected, IssueOpenInvoice, AdvanceFree, Suspend, IssuePaidInvoice,
        AdvanceBilled, RecordPayment, Reactivate, LeaveStatus, SaveAdvanced, SetsStatus,
        SaveAccount, SaveInvoice, SavePayment
<1>4. CASE StartBilling \/ StartEnforcement \/ Tick \/ Crash \/ UNCHANGED vars
  BY <1>4 DEF StartBilling, StartEnforcement, Tick, Crash, vars
<1>5. ASSUME NEW s \in Sessions,
             \/ SkipRecordCheckout(s) \/ ProviderFails(s) \/ CustomerPays(s) \/ AckWebhook(s)
             \/ \E i \in InvoiceIds : StartCheckout(s, i)
      PROVE  failures' = failures
  BY <1>5 DEF SkipRecordCheckout, ProviderFails, CustomerPays, AckWebhook, StartCheckout
<1>6. QED
  BY <1>2, <1>3, <1>4, <1>5 DEF Next, ServiceStep, Webhook

(* So with MaxFailures = 0, the value the run of PromiseKept takes, the    *)
(* control plane keeps the promise with no more said of its behaviours.    *)
COROLLARY FaultlessKeepsPromise ==
  ASSUME MaxFailures = 0
  PROVE  Spec => PromiseKept
<1>1. Init => Faultless
  BY DEF Init, Faultless
<1>2. Faultless /\ [Next]_vars => Faultless'
  BY NoneFails
<1>3. Spec => []Faultless
  BY <1>1, <1>2, PTL DEF Spec
<1>4. QED
  BY <1>3, ControlKeepsPromise, PTL
=============================================================================
