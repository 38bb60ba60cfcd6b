----------------------- MODULE ControlBilling_proofs -----------------------
(***************************************************************************)
(* Proofs about ControlBilling for every value of its constants: no bound  *)
(* on accounts, invoices, sessions, failures, crashes or time.             *)
(***************************************************************************)
EXTENDS ControlBilling, FiniteSetTheorems, TLAPS

-----------------------------------------------------------------------------
(* Types *)

(* The call that holds the lock knows the account and the invoice it works *)
(* on, and every checkout the invoice it is for.                           *)
SessionsOK ==
  /\ \A s \in Sessions : session[s].state # "none" => session[s].inv \in InvoiceIds
  /\ \A s \in job.via : session[s].state \in {"collected", "acked"}
JobOK ==
  /\ job.pc \in {"invoice", "advance"} => job.acct \in job.todo /\ job.inv \in InvoiceIds
  /\ job.pc \in {"record", "reactivate"} => job.inv \in InvoiceIds
TypeInv == TypeOK /\ JobOK

(* Updates of a record of the dataset, and of the dataset.                 *)
LEMMA StatusType ==
  ASSUME NEW r \in AccountRec, NEW st \in Statuses
  PROVE  [r EXCEPT !.status = st] \in AccountRec
BY DEF AccountRec

LEMMA PeriodType ==
  ASSUME NEW r \in AccountRec
  PROVE  Advanced(r) \in AccountRec
<1>1. r.end \in Nat /\ advance(r.end) \in Nat
  BY TimeAssumption DEF AccountRec, advance
<1>2. ASSUME NEW t \in Nat, NEW u \in Nat
      PROVE  [r EXCEPT !.start = t, !.end = u] \in AccountRec
  BY DEF AccountRec
<1>3. QED
  BY <1>1, <1>2 DEF Advanced

LEMMA PaidType ==
  ASSUME NEW r \in InvoiceRec
  PROVE  [r EXCEPT !.status = "paid"] \in InvoiceRec
BY DEF InvoiceRec

LEMMA RefType ==
  ASSUME NEW r \in InvoiceRec, NEW s \in Sessions
  PROVE  [r EXCEPT !.ref = s] \in InvoiceRec
BY DEF InvoiceRec

LEMMA PlansType ==
  ASSUME NEW d \in Dataset, NEW p \in Plans
  PROVE  [d EXCEPT !.plans = @ \cup {p}] \in Dataset
BY DEF Dataset

LEMMA AccountsType ==
  ASSUME NEW d \in Dataset, NEW a \in Accounts, NEW r \in AccountRec
  PROVE  [d EXCEPT !.accounts[a] = r] \in Dataset
<1>1. [d.accounts EXCEPT ![a] = r] \in [Accounts -> AccountRec]
  BY DEF Dataset
<1>2. QED
  BY <1>1 DEF Dataset

(* An update at a key that is no account changes nothing.                  *)
LEMMA NoAccountType ==
  ASSUME NEW d \in Dataset, NEW a, a \notin Accounts, NEW r
  PROVE  [d EXCEPT !.accounts[a] = r] \in Dataset
<1>1. [d.accounts EXCEPT ![a] = r] \in [Accounts -> AccountRec]
  BY DEF Dataset
<1>2. QED
  BY <1>1 DEF Dataset

LEMMA InvoicesType ==
  ASSUME NEW d \in Dataset, NEW i \in InvoiceIds, NEW r \in InvoiceRec
  PROVE  [d EXCEPT !.invoices[i] = r] \in Dataset
<1>1. [d.invoices EXCEPT ![i] = r] \in [InvoiceIds -> InvoiceRec]
  BY DEF Dataset
<1>2. QED
  BY <1>1 DEF Dataset

LEMMA PaymentsType ==
  ASSUME NEW d \in Dataset, NEW i \in InvoiceIds
  PROVE  [d EXCEPT !.payments[i] = @ + 1] \in Dataset
<1>1. [d.payments EXCEPT ![i] = @ + 1] \in [InvoiceIds -> Nat]
  BY DEF Dataset
<1>2. QED
  BY <1>1 DEF Dataset

Written == mem' \in Dataset /\ disk' \in Dataset /\ failures' \in Nat

LEMMA WriteType ==
  ASSUME TypeOK, NEW m \in Dataset, NEW ok \in BOOLEAN, Write(m, ok)
  PROVE  Written
BY DEF TypeOK, Write, Written

LEMMA SavePlanType ==
  ASSUME TypeOK, NEW p \in Plans, NEW ok \in BOOLEAN, SavePlan(p, ok)
  PROVE  Written
BY WriteType, PlansType DEF TypeOK, SavePlan

LEMMA SaveAccountType ==
  ASSUME TypeOK, NEW a \in Accounts, NEW r \in AccountRec, NEW ok \in BOOLEAN,
         SaveAccount(a, r, ok)
  PROVE  Written
BY WriteType, AccountsType DEF TypeOK, SaveAccount

LEMMA SaveInvoiceType ==
  ASSUME TypeOK, NEW i \in InvoiceIds, NEW r \in InvoiceRec, NEW ok \in BOOLEAN,
         SaveInvoice(i, r, ok)
  PROVE  Written
BY WriteType, InvoicesType DEF TypeOK, SaveInvoice

LEMMA SavePaymentType ==
  ASSUME TypeOK, NEW i \in InvoiceIds, NEW ok \in BOOLEAN, SavePayment(i, ok)
  PROVE  Written
BY WriteType, PaymentsType DEF TypeOK, SavePayment

Decisions == [Accounts -> [status : Statuses, delinquent : BOOLEAN]]
Cuts == ({"advance"} \X Accounts) \cup ({"record", "reactivate", "unsaved"} \X InvoiceIds)

LEMMA DecideType ==
  ASSUME TypeOK, NEW a, NEW st \in Statuses, NEW d \in BOOLEAN, Decide(a, st, d)
  PROVE  decided' \in Decisions
BY DEF TypeOK, Decide, Decisions

LEMMA CutType ==
  ASSUME TypeOK, NEW ok \in BOOLEAN, NEW step, NEW x,
         CutUnless(ok, step, x),
         \/ step = "advance" /\ x \in Accounts
         \/ step \in {"record", "unsaved"} /\ x \in InvoiceIds
  PROVE  cut' \subseteq Cuts
BY DEF TypeOK, CutUnless, Cuts

(* What is kept is what was decided when the snapshot was written.         *)
LEMMA KeepType ==
  ASSUME TypeOK, NEW ok \in BOOLEAN, decided' \in Decisions, Keep(ok)
  PROVE  {decided, kept}' \subseteq Decisions
BY DEF TypeOK, Keep, Decisions

LEMMA KeepSame ==
  ASSUME TypeOK, NEW ok \in BOOLEAN, decided' = decided, Keep(ok)
  PROVE  {decided, kept}' \subseteq Decisions
BY DEF TypeOK, Keep, Decisions

LEMMA IdleType == Idle \in Job
BY DEF Idle, Job, NoAccount, AccountRec, Statuses

LEMMA NextJobType ==
  ASSUME TypeOK, NEW rest \in SUBSET Accounts
  PROVE  /\ NextJob(rest) \in Job
         /\ NextJob(rest).pc \in {"idle", "bill", "enforce"}
<1>1. CASE rest = {}
  BY <1>1, IdleType DEF NextJob, Idle
<1>2. CASE rest # {}
  BY <1>2 DEF NextJob, TypeOK, Job
<1> QED BY <1>1, <1>2

LEMMA InvoiceType ==
  ASSUME TypeOK, NEW a \in Accounts, NEW st \in {"open", "paid"}
  PROVE  PeriodInvoice(a, st) \in InvoiceRec
BY DEF TypeOK, PeriodInvoice, InvoiceRec, Job, AccountRec

LEMMA SessionType ==
  ASSUME TypeOK, NEW S, Acknowledge(S)
  PROVE  session' \in [Sessions -> SessionRec]
BY DEF TypeOK, Acknowledge, SessionRec

LEMMA InitType == Init => TypeInv /\ SessionsOK
BY DEF Init, TypeInv, SessionsOK, TypeOK, JobOK, Dataset, AccountRec, InvoiceRec, Job, Idle,
  NoAccount, NoInvoice, EmptyDataset, SessionRec, NoSession, Statuses

LEMMA SettleTypeInv ==
  ASSUME TypeInv, NEW i \in InvoiceIds, NEW via \in SUBSET Sessions, NEW ok \in BOOLEAN,
         Settle(i, via, ok)
  PROVE  TypeInv'
<1>1. [mem.invoices[i] EXCEPT !.status = "paid"] \in InvoiceRec
  BY PaidType DEF TypeInv, TypeOK, Dataset
<1>2. Written
  BY <1>1, SaveInvoiceType DEF Settle, TypeInv
<1>3. job' \in Job /\ JobOK'
  BY IdleType DEF Settle, JobOK, Idle, Job
<1>4. QED
  BY <1>2, <1>3, CutType, KeepSame DEF Settle, TypeInv, TypeOK, Written, Decisions, Cuts

LEMMA SaveAdvancedTypeInv ==
  ASSUME TypeInv, NEW a \in Accounts, NEW ok \in BOOLEAN, SaveAdvanced(a, ok)
  PROVE  TypeInv'
<1>1. Advanced(job.copy[a]) \in AccountRec
  BY PeriodType DEF TypeInv, TypeOK, Job
<1>2. Written
  BY <1>1, SaveAccountType DEF SaveAdvanced, TypeInv
<1>3. job.todo \ {a} \in SUBSET Accounts
  BY DEF TypeInv, TypeOK, Job
<1>4. job' \in Job /\ JobOK'
  BY <1>3, IdleType, NextJobType DEF SaveAdvanced, JobOK, TypeInv, Idle
<1>5. QED
  BY <1>2, <1>4, CutType, KeepSame DEF SaveAdvanced, TypeInv, TypeOK, Written, Decisions, Cuts

(* Most actions leave the checkouts alone; the others keep their invoices. *)
LEMMA NextSessions == TypeOK /\ SessionsOK /\ [Next]_vars => SessionsOK'
<1> SUFFICES ASSUME TypeOK, SessionsOK, [Next]_vars PROVE SessionsOK'
  OBVIOUS
<1>1. ASSUME UNCHANGED session,
             \A s \in job'.via : s \in job.via \/ session[s].state \in {"collected", "acked"}
      PROVE  SessionsOK'
  BY <1>1 DEF SessionsOK
<1>2. ASSUME NEW S \in SUBSET Sessions, Acknowledge(S),
             \A s \in S : session[s].state # "none", job'.via \subseteq job.via
      PROVE SessionsOK'
  BY <1>2 DEF SessionsOK, TypeOK, Acknowledge, SessionRec, Job
<1>3. ASSUME NEW s \in Sessions, NEW i \in InvoiceIds, StartCheckout(s, i) PROVE SessionsOK'
  BY <1>3 DEF SessionsOK, TypeOK, StartCheckout, SessionRec, Job, NoSession
<1>4. ASSUME NEW s \in Sessions, NEW ok \in BOOLEAN, RecordCheckout(s, ok) PROVE SessionsOK'
  BY <1>4 DEF SessionsOK, TypeOK, RecordCheckout, SessionRec, Job
<1>5. ASSUME NEW s \in Sessions,
             SkipRecordCheckout(s) \/ ProviderFails(s) \/ CustomerPays(s)
      PROVE  SessionsOK'
  <2>1. CASE SkipRecordCheckout(s)
    BY <2>1 DEF SkipRecordCheckout, SessionsOK, TypeOK, SessionRec, Job
  <2>2. CASE ProviderFails(s)
    BY <2>2 DEF ProviderFails, SessionsOK, TypeOK, SessionRec, Job, NoSession
  <2>3. CASE CustomerPays(s)
    BY <2>3 DEF CustomerPays, SessionsOK, TypeOK, SessionRec, Job
  <2>4. QED BY <1>5, <2>1, <2>2, <2>3
<1>6. CASE Crash
  <2>1. job'.via = {}
    BY <1>6 DEF Crash, Idle
  <2>2. \A s \in Sessions : session'[s] = NoSession \/ session'[s] = session[s]
    BY <1>6 DEF Crash
  <2>3. QED
    BY <2>1, <2>2 DEF SessionsOK, NoSession
<1>7. CASE JobStep
  <2>1. ASSUME UNCHANGED session, job'.via \subseteq job.via PROVE SessionsOK'
    BY <1>1, <2>1
  <2>2. \A rest : NextJob(rest).via \subseteq job.via
    BY DEF NextJob, Idle, TypeOK, Job
  <2>3. ASSUME NEW a \in Accounts, NEW i \in InvoiceIds, NEW ok \in BOOLEAN,
               ChargeCollected(a, i, ok) \/ IssueOpenInvoice(a, i, ok)
        PROVE  SessionsOK'
    <3>1. UNCHANGED session
      BY <2>3 DEF ChargeCollected, IssueOpenInvoice
    <3>2. job'.via \subseteq job.via
      <4>1. CASE ChargeCollected(a, i, ok)
        BY <4>1 DEF ChargeCollected, TypeOK, Job
      <4>2. CASE IssueOpenInvoice(a, i, ok)
        BY <4>2 DEF IssueOpenInvoice, TypeOK, Job, Idle
      <4>3. QED BY <2>3, <4>1, <4>2
    <3>3. QED BY <2>1, <3>1, <3>2
  <2>4. ASSUME NEW a \in Accounts, NEW ok \in BOOLEAN, SaveAdvanced(a, ok) \/ Suspend(a, ok)
        PROVE  SessionsOK'
    <3>1. UNCHANGED session
      BY <2>4 DEF SaveAdvanced, Suspend
    <3>2. job'.via \subseteq job.via
      <4>1. job' = Idle \/ job' = NextJob(job.todo \ {a})
        BY <2>4 DEF SaveAdvanced, Suspend
      <4>2. Idle.via = {}
        BY DEF Idle
      <4>3. QED BY <2>2, <4>1, <4>2
    <3>3. QED BY <2>1, <3>1, <3>2
  <2>5. ASSUME NEW ok \in BOOLEAN,
               IssuePaidInvoice(ok) \/ RecordPayment(ok) \/ AdvanceBilled(ok)
        PROVE  SessionsOK'
    BY <2>1, <2>2, <2>5 DEF IssuePaidInvoice, RecordPayment, AdvanceBilled, SaveAdvanced,
      TypeOK, Job, Idle
  <2>6. ASSUME Acknowledge(job.via), job' = Idle PROVE SessionsOK'
    BY <1>2, <2>6 DEF SessionsOK, TypeOK, Job, Idle
  <2>7. QED
    BY <1>7, <2>3, <2>4, <2>5, <2>6 DEF JobStep, AdvanceFree, Reactivate, LeaveStatus
<1>8. ASSUME NEW s \in Sessions, Webhook(s) PROVE SessionsOK'
  <2>1. CASE AckWebhook(s)
    BY <1>2, <2>1 DEF AckWebhook
  <2>2. ASSUME NEW ok \in BOOLEAN, HandleWebhook(s, ok) PROVE SessionsOK'
    BY <1>1, <2>2 DEF HandleWebhook, Settle, Idle
  <2>3. QED BY <1>8, <2>1, <2>2 DEF Webhook
<1>9. CASE UNCHANGED vars
  BY <1>1, <1>9 DEF vars
<1>10. ASSUME NEW p \in Plans, NEW ok \in BOOLEAN, CreatePlan(p, ok) PROVE SessionsOK'
  BY <1>1, <1>10 DEF CreatePlan
<1>11. ASSUME NEW a \in Accounts, NEW p \in Plans, NEW ok \in BOOLEAN, CreateAccount(a, p, ok)
       PROVE  SessionsOK'
  BY <1>1, <1>11 DEF CreateAccount
<1>12. ASSUME NEW a \in Accounts, NEW st \in OperatorStatuses, NEW ok \in BOOLEAN,
              SetStatus(a, st, ok)
       PROVE  SessionsOK'
  BY <1>1, <1>12 DEF SetStatus
<1>13. ASSUME NEW a \in Accounts, NEW i \in InvoiceIds, NEW ok \in BOOLEAN,
              IssueInvoice(a, i, ok)
       PROVE  SessionsOK'
  BY <1>1, <1>13 DEF IssueInvoice
<1>14. ASSUME NEW i \in InvoiceIds, NEW ok \in BOOLEAN, PayInvoice(i, ok) PROVE SessionsOK'
  BY <1>1, <1>14 DEF PayInvoice, Settle, Idle
<1>15. CASE StartBilling \/ StartEnforcement \/ Tick
  BY <1>1, <1>15 DEF StartBilling, StartEnforcement, Tick, Idle
<1>16. QED
  BY <1>3, <1>4, <1>5, <1>6, <1>7, <1>8, <1>9, <1>10, <1>11, <1>12, <1>13, <1>14, <1>15
  DEF Next, ServiceStep

(* Each action preserves the type invariant.                               *)
LEMMA NextType == TypeInv /\ SessionsOK /\ [Next]_vars => TypeInv'
<1> SUFFICES ASSUME TypeInv, SessionsOK, [Next]_vars PROVE TypeInv'
  OBVIOUS
<1> USE DEF TypeInv
<1>1. ASSUME NEW p \in Plans, NEW ok \in BOOLEAN, CreatePlan(p, ok) PROVE TypeInv'
  BY <1>1, SavePlanType, KeepSame DEF CreatePlan, TypeOK, JobOK, Written, Decisions, Cuts
<1>2. ASSUME NEW a \in Accounts, NEW p \in Plans, NEW ok \in BOOLEAN, CreateAccount(a, p, ok)
      PROVE  TypeInv'
  <2>1. [plan |-> p, status |-> "active", created |-> now,
         start |-> now, end |-> advance(now)] \in AccountRec
    BY TimeAssumption DEF TypeOK, AccountRec, Statuses, advance
  <2>2. Written
    BY <1>2, <2>1, SaveAccountType DEF CreateAccount
  <2>3. QED
    BY <1>2, <2>2, DecideType, KeepType DEF CreateAccount, TypeOK, JobOK, Written, Statuses, Decisions, Cuts
<1>3. ASSUME NEW a \in Accounts, NEW st \in OperatorStatuses, NEW ok \in BOOLEAN,
             SetStatus(a, st, ok)
      PROVE  TypeInv'
  <2>1. st \in Statuses
    BY DEF Statuses
  <2>2. [mem.accounts[a] EXCEPT !.status = st] \in AccountRec
    BY <2>1, StatusType DEF TypeOK, Dataset
  <2>3. Written
    BY <1>3, <2>2, SaveAccountType DEF SetStatus, SetsStatus
  <2>4. QED
    BY <1>3, <2>1, <2>3, DecideType, KeepType DEF SetStatus, TypeOK, JobOK, Written, Decisions, Cuts
<1>4. ASSUME NEW a \in Accounts, NEW i \in InvoiceIds, NEW ok \in BOOLEAN, IssueInvoice(a, i, ok)
      PROVE  TypeInv'
  <2>1. [acct |-> a, status |-> "open", start |-> now, end |-> now,
         created |-> now, ref |-> None] \in InvoiceRec
    BY DEF TypeOK, InvoiceRec
  <2>2. Written
    BY <1>4, <2>1, SaveInvoiceType DEF IssueInvoice
  <2>3. QED
    BY <1>4, <2>2, KeepSame DEF IssueInvoice, TypeOK, JobOK, Written, Decisions, Cuts
<1>5. ASSUME NEW i \in InvoiceIds, NEW ok \in BOOLEAN, PayInvoice(i, ok) PROVE TypeInv'
  BY <1>5, SettleTypeInv DEF PayInvoice
<1>6. CASE StartBilling
  <2>1. job' \in Job /\ JobOK'
    BY <1>6 DEF StartBilling, TypeOK, JobOK, Job, Idle, Dataset, Due
  <2>2. QED
    BY <1>6, <2>1 DEF StartBilling, TypeOK
<1>7. CASE StartEnforcement
  <2>1. job' \in Job /\ JobOK'
    BY <1>7 DEF StartEnforcement, TypeOK, JobOK, Job, Idle, Dataset, Delinquent
  <2>2. QED
    BY <1>7, <2>1 DEF StartEnforcement, TypeOK
<1>8. CASE JobStep
  <2>1. ASSUME NEW a \in Accounts, NEW i \in InvoiceIds, NEW ok \in BOOLEAN,
               ChargeCollected(a, i, ok)
        PROVE  TypeInv'
    <3>1. Written
      BY <2>1, SavePaymentType DEF ChargeCollected
    <3>2. job' \in Job /\ JobOK'
      BY <2>1 DEF ChargeCollected, TypeOK, JobOK, Job
    <3>3. QED
      BY <2>1, <3>1, <3>2, KeepSame DEF ChargeCollected, TypeOK, Written, Decisions, Cuts
  <2>2. ASSUME NEW a \in Accounts, NEW i \in InvoiceIds, NEW ok \in BOOLEAN,
               IssueOpenInvoice(a, i, ok)
        PROVE  TypeInv'
    <3>1. Written
      BY <2>2, InvoiceType, SaveInvoiceType DEF IssueOpenInvoice
    <3>2. job' \in Job /\ JobOK'
      BY <2>2, IdleType DEF IssueOpenInvoice, TypeOK, JobOK, Job, Idle
    <3>3. QED
      BY <2>2, <3>1, <3>2, CutType, KeepSame DEF IssueOpenInvoice, TypeOK, Written, Decisions, Cuts
  <2>3. ASSUME NEW a \in Accounts, NEW ok \in BOOLEAN, AdvanceFree(a, ok) PROVE TypeInv'
    BY <2>3, SaveAdvancedTypeInv DEF AdvanceFree
  <2>4. ASSUME NEW a \in Accounts, NEW ok \in BOOLEAN, Suspend(a, ok) PROVE TypeInv'
    <3>1. [job.copy[a] EXCEPT !.status = "suspended"] \in AccountRec
      BY StatusType DEF TypeOK, Job, Statuses
    <3>2. Written
      BY <2>4, <3>1, SaveAccountType DEF Suspend
    <3>3. job' \in Job /\ JobOK'
      <4>1. job.todo \ {a} \in SUBSET Accounts
        BY DEF TypeOK, Job
      <4>2. QED
        BY <2>4, <4>1, NextJobType DEF Suspend, JobOK
    <3>4. QED
      BY <2>4, <3>2, <3>3, DecideType, KeepType DEF Suspend, TypeOK, Written, Statuses, Decisions, Cuts
  <2>5. ASSUME NEW ok \in BOOLEAN, IssuePaidInvoice(ok) PROVE TypeInv'
    <3>1. job.acct \in Accounts /\ job.inv \in InvoiceIds
      BY <2>5 DEF IssuePaidInvoice, JobOK, TypeOK, Job
    <3>2. Written
      BY <2>5, <3>1, InvoiceType, SaveInvoiceType DEF IssuePaidInvoice
    <3>3. job' \in Job /\ JobOK'
      BY <2>5, <3>1, IdleType DEF IssuePaidInvoice, TypeOK, JobOK, Job, Idle
    <3>4. QED
      BY <2>5, <3>1, <3>2, <3>3, CutType, KeepSame DEF IssuePaidInvoice, TypeOK, Written, Decisions, Cuts
  <2>6. ASSUME NEW ok \in BOOLEAN, AdvanceBilled(ok) PROVE TypeInv'
    BY <2>6, SaveAdvancedTypeInv DEF AdvanceBilled, JobOK, TypeOK, Job
  <2>7. ASSUME NEW ok \in BOOLEAN, RecordPayment(ok) PROVE TypeInv'
    <3>1. job.inv \in InvoiceIds
      BY <2>7 DEF RecordPayment, JobOK
    <3>2. Written
      BY <2>7, <3>1, SavePaymentType DEF RecordPayment
    <3>3. job' \in Job /\ JobOK'
      BY <2>7, <3>1, IdleType DEF RecordPayment, TypeOK, JobOK, Job, Idle
    <3>4. QED
      BY <2>7, <3>1, <3>2, <3>3, CutType, KeepSame DEF RecordPayment, TypeOK, Written, Decisions, Cuts
  <2>8. ASSUME NEW ok \in BOOLEAN, Reactivate(ok) PROVE TypeInv'
    <3> DEFINE a == mem.invoices[job.inv].acct
    <3>1. job.inv \in InvoiceIds
      BY <2>8 DEF Reactivate, JobOK
    <3>2. Written
      <4>1. CASE a \in Accounts
        <5>1. [mem.accounts[a] EXCEPT !.status = "active"] \in AccountRec
          BY <4>1, StatusType DEF TypeOK, Dataset, Statuses
        <5>2. QED
          BY <2>8, <4>1, <5>1, SaveAccountType DEF Reactivate, SetsStatus
      <4>2. CASE a \notin Accounts
        <5>1. [mem EXCEPT !.accounts[a] = [mem.accounts[a] EXCEPT !.status = "active"]]
                \in Dataset
          BY <4>2, NoAccountType DEF TypeOK
        <5>2. QED
          BY <2>8, <5>1, WriteType DEF Reactivate, SetsStatus, SaveAccount
      <4>3. QED BY <4>1, <4>2
    <3>3. decided' \in Decisions
      BY <2>8, DecideType DEF Reactivate, Statuses
    <3>4. QED
      BY <2>8, <3>1, <3>2, <3>3, IdleType, SessionType, KeepType, CutType DEF Reactivate, TypeOK, JobOK, Idle, Written, Decisions, Cuts
  <2>9. CASE LeaveStatus
    BY <2>9, IdleType, SessionType DEF LeaveStatus, TypeOK, JobOK, Idle
  <2>10. QED
    BY <1>8, <2>1, <2>2, <2>3, <2>4, <2>5, <2>6, <2>7, <2>8, <2>9 DEF JobStep
<1>9. ASSUME NEW s \in Sessions, NEW i \in InvoiceIds, StartCheckout(s, i) PROVE TypeInv'
  BY <1>9 DEF StartCheckout, TypeOK, JobOK, SessionRec
<1>10. ASSUME NEW s \in Sessions, NEW ok \in BOOLEAN, RecordCheckout(s, ok) PROVE TypeInv'
  <2>1. session[s].inv \in InvoiceIds
    BY <1>10 DEF RecordCheckout, SessionsOK
  <2>2. [mem.invoices[session[s].inv] EXCEPT !.ref = s] \in InvoiceRec
    BY <2>1, RefType DEF TypeOK, Dataset
  <2>3. Written
    BY <1>10, <2>1, <2>2, SaveInvoiceType DEF RecordCheckout
  <2>4. QED
    BY <1>10, <2>1, <2>3, KeepSame DEF RecordCheckout, TypeOK, JobOK, SessionRec, Written, Decisions, Cuts
<1>11. ASSUME NEW s \in Sessions,
              SkipRecordCheckout(s) \/ ProviderFails(s) \/ CustomerPays(s)
       PROVE  TypeInv'
  BY <1>11 DEF SkipRecordCheckout, ProviderFails, CustomerPays, TypeOK, JobOK, SessionRec, NoSession
<1>12. ASSUME NEW s \in Sessions, Webhook(s) PROVE TypeInv'
  <2>1. CASE AckWebhook(s)
    BY <2>1, SessionType DEF AckWebhook, TypeOK, JobOK
  <2>2. ASSUME NEW ok \in BOOLEAN, HandleWebhook(s, ok) PROVE TypeInv'
    BY <2>2, SettleTypeInv DEF HandleWebhook, SessionsOK
  <2>3. QED BY <1>12, <2>1, <2>2 DEF Webhook
<1>13. CASE Tick
  BY <1>13 DEF Tick, TypeOK, JobOK
<1>14. CASE Crash
  <2>1. {decided, kept}' \subseteq Decisions
    BY <1>14 DEF Crash, TypeOK, Decisions
  <2>2. cut' \subseteq Cuts
    BY <1>14 DEF Crash, Untaken, TypeOK, JobOK, Job, Cuts
  <2>3. session' \in [Sessions -> SessionRec]
    BY <1>14 DEF Crash, TypeOK, SessionRec, NoSession
  <2>4. QED
    BY <1>14, <2>1, <2>2, <2>3, IdleType DEF Crash, TypeOK, JobOK, Idle, Decisions, Cuts
<1>15. CASE UNCHANGED vars
  BY <1>15 DEF vars, TypeOK, JobOK
<1>16. QED
  BY <1>1, <1>2, <1>3, <1>4, <1>5, <1>6, <1>7, <1>8, <1>9, <1>10, <1>11, <1>12, <1>13,
     <1>14, <1>15 DEF Next, ServiceStep

(* Every variable keeps its shape, for every instance.                     *)
THEOREM TypeCorrect == Spec => []TypeOK
<1>1. TypeInv => TypeOK
  BY DEF TypeInv
<1>2. TypeInv /\ SessionsOK /\ [Next]_vars => (TypeInv /\ SessionsOK)'
  BY NextType, NextSessions DEF TypeInv
<1>3. QED
  BY <1>1, <1>2, InitType, PTL DEF Spec
-----------------------------------------------------------------------------
(* What the proofs about the dataset need of a step: either it leaves the  *)
(* dataset and the lock alone, or it is one of the writes.                 *)

Quiet == UNCHANGED <<mem, disk, job, drawn, decided, kept, cut>>
Effects ==
  \/ \E p \in Plans, ok \in BOOLEAN : CreatePlan(p, ok)
  \/ \E a \in Accounts, p \in Plans, ok \in BOOLEAN : CreateAccount(a, p, ok)
  \/ \E a \in Accounts, st \in OperatorStatuses, ok \in BOOLEAN : SetStatus(a, st, ok)
  \/ \E a \in Accounts, i \in InvoiceIds, ok \in BOOLEAN : IssueInvoice(a, i, ok)
  \/ \E i \in InvoiceIds, via \in SUBSET Sessions, ok \in BOOLEAN : Settle(i, via, ok)
  \/ StartBilling \/ StartEnforcement
  \/ \E a \in Accounts, i \in InvoiceIds, ok \in BOOLEAN :
       ChargeCollected(a, i, ok) \/ IssueOpenInvoice(a, i, ok)
  \/ \E a \in Accounts, ok \in BOOLEAN : AdvanceFree(a, ok) \/ Suspend(a, ok)
  \/ \E ok \in BOOLEAN : \/ IssuePaidInvoice(ok) \/ AdvanceBilled(ok)
                         \/ RecordPayment(ok) \/ Reactivate(ok)
  \/ LeaveStatus
  \/ \E s \in Sessions, ok \in BOOLEAN :
       session[s].inv \in InvoiceIds /\ RecordCheckout(s, ok)
  \/ Crash

LEMMA NextEffects == SessionsOK /\ [Next]_vars => Quiet \/ Effects
<1> SUFFICES ASSUME SessionsOK, [Next]_vars PROVE Quiet \/ Effects
  OBVIOUS
<1>1. CASE UNCHANGED vars
  BY <1>1 DEF vars, Quiet
<1>2. CASE \E s \in Sessions, i \in InvoiceIds : StartCheckout(s, i)
  BY <1>2 DEF StartCheckout, Quiet
<1>3. CASE \E s \in Sessions, ok \in BOOLEAN : RecordCheckout(s, ok)
  BY <1>3 DEF RecordCheckout, SessionsOK, Effects
<1>4. ASSUME NEW s \in Sessions, SkipRecordCheckout(s) \/ ProviderFails(s) \/ CustomerPays(s)
      PROVE  Quiet
  BY <1>4 DEF SkipRecordCheckout, ProviderFails, CustomerPays, Quiet
<1>5. ASSUME NEW s \in Sessions, Webhook(s) PROVE Quiet \/ Effects
  <2>1. CASE AckWebhook(s)
    BY <2>1 DEF AckWebhook, Quiet
  <2>2. ASSUME NEW ok \in BOOLEAN, HandleWebhook(s, ok) PROVE Effects
    BY <2>2 DEF HandleWebhook, SessionsOK, Effects
  <2>3. QED BY <1>5, <2>1, <2>2 DEF Webhook
<1>6. CASE Tick
  BY <1>6 DEF Tick, Quiet
<1>7. CASE \E i \in InvoiceIds, ok \in BOOLEAN : PayInvoice(i, ok)
  BY <1>7 DEF PayInvoice, Effects
<1>8. CASE JobStep
  BY <1>8 DEF JobStep, Effects
<1>9. QED
  BY <1>1, <1>2, <1>3, <1>4, <1>5, <1>6, <1>7, <1>8 DEF Next, ServiceStep, Effects

(* The snapshot on disk, with the decisions it holds, stays as it is or is *)
(* all of what the step leaves in memory.                                  *)
LEMMA Snapshot ==
  ASSUME SessionsOK, [Next]_vars
  PROVE  UNCHANGED <<disk, kept>> \/ (disk' = mem' /\ kept' = decided')
<1> DEFINE Goal == UNCHANGED <<disk, kept>> \/ (disk' = mem' /\ kept' = decided')
<1>1. ASSUME NEW m, NEW ok \in BOOLEAN, Write(m, ok), Keep(ok) PROVE Goal
  BY <1>1 DEF Write, Keep
<1>2. CASE \/ Quiet \/ StartBilling \/ StartEnforcement \/ LeaveStatus \/ Crash
  BY <1>2 DEF Quiet, StartBilling, StartEnforcement, LeaveStatus, Crash
<1> HIDE DEF Goal
<1> USE DEF SavePlan, SaveAccount, SaveInvoice, SavePayment
<1>3. ASSUME NEW p \in Plans, NEW ok \in BOOLEAN, CreatePlan(p, ok) PROVE Goal
  BY <1>1, <1>3 DEF CreatePlan
<1>4. ASSUME NEW a \in Accounts, NEW p \in Plans, NEW ok \in BOOLEAN, CreateAccount(a, p, ok)
      PROVE  Goal
  BY <1>1, <1>4 DEF CreateAccount
<1>5. ASSUME NEW a \in Accounts, NEW st \in OperatorStatuses, NEW ok \in BOOLEAN,
             SetStatus(a, st, ok)
      PROVE  Goal
  BY <1>1, <1>5 DEF SetStatus, SetsStatus
<1>6. ASSUME NEW a \in Accounts, NEW i \in InvoiceIds, NEW ok \in BOOLEAN,
             IssueInvoice(a, i, ok) \/ ChargeCollected(a, i, ok) \/ IssueOpenInvoice(a, i, ok)
      PROVE  Goal
  <2>1. CASE IssueInvoice(a, i, ok)
    BY <1>1, <2>1 DEF IssueInvoice
  <2>2. CASE ChargeCollected(a, i, ok)
    BY <1>1, <2>2 DEF ChargeCollected
  <2>3. CASE IssueOpenInvoice(a, i, ok)
    BY <1>1, <2>3 DEF IssueOpenInvoice
  <2> QED BY <1>6, <2>1, <2>2, <2>3
<1>7. ASSUME NEW i \in InvoiceIds, NEW via \in SUBSET Sessions, NEW ok \in BOOLEAN,
             Settle(i, via, ok)
      PROVE  Goal
  BY <1>1, <1>7 DEF Settle
<1>8. ASSUME NEW a, NEW ok \in BOOLEAN, SaveAdvanced(a, ok) PROVE Goal
  BY <1>1, <1>8 DEF SaveAdvanced
<1>9. ASSUME NEW a \in Accounts, NEW ok \in BOOLEAN, Suspend(a, ok) PROVE Goal
  BY <1>1, <1>9 DEF Suspend
<1>10. ASSUME NEW ok \in BOOLEAN, IssuePaidInvoice(ok) \/ RecordPayment(ok) PROVE Goal
  BY <1>1, <1>10 DEF IssuePaidInvoice, RecordPayment
<1>11. ASSUME NEW ok \in BOOLEAN, Reactivate(ok) PROVE Goal
  BY <1>1, <1>11 DEF Reactivate, SetsStatus
<1>12. ASSUME NEW s \in Sessions, NEW ok \in BOOLEAN, RecordCheckout(s, ok) PROVE Goal
  BY <1>1, <1>12 DEF RecordCheckout
<1> QED
  BY <1>2, <1>3, <1>4, <1>5, <1>6, <1>7, <1>8, <1>9, <1>10, <1>11, <1>12, NextEffects
  DEF Effects, AdvanceFree, AdvanceBilled, Goal

(* What each write does to the tables, and that the disk follows or stays. *)
LEMMA AccountWrite ==
  ASSUME TypeOK, NEW a, NEW r, NEW ok \in BOOLEAN, SaveAccount(a, r, ok)
  PROVE  /\ mem'.accounts = [mem.accounts EXCEPT ![a] = r]
         /\ mem'.invoices = mem.invoices /\ mem'.payments = mem.payments
         /\ disk' = IF ok THEN mem' ELSE disk
BY DEF TypeOK, Dataset, SaveAccount, Write

LEMMA InvoiceWrite ==
  ASSUME TypeOK, NEW i, NEW r, NEW ok \in BOOLEAN, SaveInvoice(i, r, ok)
  PROVE  /\ mem'.invoices = [mem.invoices EXCEPT ![i] = r]
         /\ mem'.accounts = mem.accounts /\ mem'.payments = mem.payments
         /\ disk' = IF ok THEN mem' ELSE disk
BY DEF TypeOK, Dataset, SaveInvoice, Write

LEMMA PaymentWrite ==
  ASSUME TypeOK, NEW i, NEW ok \in BOOLEAN, SavePayment(i, ok)
  PROVE  /\ mem'.payments = [mem.payments EXCEPT ![i] = @ + 1]
         /\ mem'.accounts = mem.accounts /\ mem'.invoices = mem.invoices
         /\ disk' = IF ok THEN mem' ELSE disk
BY DEF TypeOK, Dataset, SavePayment, Write

LEMMA PlanWrite ==
  ASSUME TypeOK, NEW p, NEW ok \in BOOLEAN, SavePlan(p, ok)
  PROVE  /\ mem'.payments = mem.payments
         /\ mem'.accounts = mem.accounts /\ mem'.invoices = mem.invoices
         /\ disk' = IF ok THEN mem' ELSE disk
BY DEF TypeOK, Dataset, SavePlan, Write
-----------------------------------------------------------------------------
(* Ledger(m) is not inductive by itself: an id not drawn yet has neither   *)
(* an invoice nor a payment, and an invoice whose payment is about to be   *)
(* recorded is paid and has none.                                          *)
LedgerAt(m, d) == \A i \in InvoiceIds :
  /\ m.payments[i] <= 1
  /\ m.payments[i] = 1 => m.invoices[i].status # "open"
  /\ i \notin d => m.invoices[i] = NoInvoice /\ m.payments[i] = 0
JobLedger ==
  /\ job.pc = "record" => /\ mem.invoices[job.inv].status = "paid"
                          /\ mem.payments[job.inv] = 0
  /\ job.pc \in {"invoice", "advance"} => job.inv \in drawn
  /\ job.pc = "invoice" => mem.invoices[job.inv] = NoInvoice
LedgerInv == LedgerAt(mem, drawn) /\ LedgerAt(disk, drawn) /\ JobLedger

LEMMA IdlePc == Idle.pc = "idle"
BY DEF Idle

LEMMA LedgerInit == Init => LedgerInv
BY IdlePc DEF Init, LedgerInv, LedgerAt, JobLedger, EmptyDataset, NoInvoice

(* Drawing more ids, and persisting memory, keep a consistent ledger.      *)
LEMMA LedgerWrite ==
  ASSUME LedgerInv, NEW ok \in BOOLEAN, LedgerAt(mem', drawn'), drawn \subseteq drawn',
         disk' = (IF ok THEN mem' ELSE disk), JobLedger'
  PROVE  LedgerInv'
<1>1. LedgerAt(disk, drawn')
  BY DEF LedgerInv, LedgerAt
<1>2. LedgerAt(disk', drawn')
  BY <1>1
<1>3. QED
  BY <1>2 DEF LedgerInv

(* A write that leaves invoices and payments as they are.                  *)
LEMMA LedgerFrame ==
  ASSUME LedgerInv, NEW ok \in BOOLEAN,
         mem'.invoices = mem.invoices, mem'.payments = mem.payments, drawn' = drawn,
         disk' = (IF ok THEN mem' ELSE disk),
         job' = job \/ job'.pc \in {"idle", "bill", "enforce"}
  PROVE  LedgerInv'
<1>1. LedgerAt(mem', drawn')
  BY DEF LedgerInv, LedgerAt
<1>2. JobLedger'
  BY DEF LedgerInv, JobLedger
<1>3. QED
  BY <1>1, <1>2, LedgerWrite

LEMMA LedgerNext == TypeInv /\ SessionsOK /\ LedgerInv /\ [Next]_vars => LedgerInv'
<1> SUFFICES ASSUME TypeInv, SessionsOK, LedgerInv, [Next]_vars PROVE LedgerInv'
  OBVIOUS
<1> USE DEF TypeInv
<1>1. CASE Quiet
  BY <1>1 DEF Quiet, LedgerInv, LedgerAt, JobLedger
<1>2. ASSUME NEW p \in Plans, NEW ok \in BOOLEAN, CreatePlan(p, ok) PROVE LedgerInv'
  BY <1>2, PlanWrite, LedgerFrame DEF CreatePlan
<1>3. ASSUME NEW a \in Accounts, NEW p \in Plans, NEW ok \in BOOLEAN, CreateAccount(a, p, ok)
      PROVE  LedgerInv'
  BY <1>3, AccountWrite, LedgerFrame DEF CreateAccount
<1>4. ASSUME NEW a \in Accounts, NEW st \in OperatorStatuses, NEW ok \in BOOLEAN,
             SetStatus(a, st, ok)
      PROVE  LedgerInv'
  BY <1>4, AccountWrite, LedgerFrame DEF SetStatus, SetsStatus
<1>5. ASSUME NEW a \in Accounts, NEW i \in InvoiceIds, NEW ok \in BOOLEAN, IssueInvoice(a, i, ok)
      PROVE  LedgerInv'
  <2> DEFINE r == [acct |-> a, status |-> "open", start |-> now, end |-> now,
                   created |-> now, ref |-> None]
  <2>1. /\ mem'.invoices = [mem.invoices EXCEPT ![i] = r]
        /\ mem'.payments = mem.payments
        /\ disk' = IF ok THEN mem' ELSE disk
    BY <1>5, InvoiceWrite DEF IssueInvoice
  <2>2. i \notin drawn /\ drawn' = drawn \cup {i} /\ job' = job /\ Unlocked
    BY <1>5 DEF IssueInvoice
  <2>3. LedgerAt(mem', drawn')
    BY <2>1, <2>2 DEF LedgerInv, LedgerAt, TypeOK, Dataset
  <2>4. JobLedger'
    BY <2>2, IdlePc DEF JobLedger, Unlocked
  <2>5. QED
    BY <2>1, <2>2, <2>3, <2>4, LedgerWrite
<1>6. ASSUME NEW i \in InvoiceIds, NEW via \in SUBSET Sessions, NEW ok \in BOOLEAN,
             Settle(i, via, ok)
      PROVE  LedgerInv'
  <2>1. /\ mem'.invoices = [mem.invoices EXCEPT ![i] = [mem.invoices[i] EXCEPT !.status = "paid"]]
        /\ mem'.payments = mem.payments
        /\ disk' = IF ok THEN mem' ELSE disk
    BY <1>6, InvoiceWrite DEF Settle
  <2>2. mem.invoices[i].status = "open" /\ drawn' = drawn
    BY <1>6 DEF Settle, IsOpen
  <2>3. mem.payments[i] = 0 /\ i \in drawn
    <3>1. mem.payments[i] \in Nat /\ mem.payments[i] <= 1 /\ mem.payments[i] # 1
      BY <2>2 DEF LedgerInv, LedgerAt, TypeOK, Dataset
    <3>2. NoInvoice.status # "open"
      BY DEF NoInvoice
    <3>3. QED BY <2>2, <3>1, <3>2 DEF LedgerInv, LedgerAt
  <2>4. mem'.invoices[i].status = "paid"
    BY <2>1 DEF TypeOK, Dataset, InvoiceRec
  <2>5. LedgerAt(mem', drawn')
    BY <2>1, <2>2, <2>3, <2>4 DEF LedgerInv, LedgerAt, TypeOK, Dataset
  <2>6. job'.pc = "idle" \/ (job'.pc = "record" /\ job'.inv = i)
    BY <1>6, IdlePc DEF Settle, Idle
  <2>7. JobLedger'
    BY <2>1, <2>3, <2>4, <2>6 DEF JobLedger
  <2>8. QED
    BY <2>1, <2>2, <2>5, <2>7, LedgerWrite
<1>7. CASE StartBilling
  BY <1>7 DEF StartBilling, LedgerInv, LedgerAt, JobLedger, Idle
<1>8. CASE StartEnforcement
  BY <1>8 DEF StartEnforcement, LedgerInv, LedgerAt, JobLedger, Idle
<1>9. ASSUME NEW a \in Accounts, NEW i \in InvoiceIds, NEW ok \in BOOLEAN,
             ChargeCollected(a, i, ok)
      PROVE  LedgerInv'
  <2>1. /\ mem'.payments = [mem.payments EXCEPT ![i] = @ + 1]
        /\ mem'.invoices = mem.invoices
        /\ disk' = IF ok THEN mem' ELSE disk
    BY <1>9, PaymentWrite DEF ChargeCollected
  <2>2. i \notin drawn /\ drawn' = drawn \cup {i}
    BY <1>9 DEF ChargeCollected
  <2>3. mem.payments[i] = 0 /\ mem.invoices[i] = NoInvoice
    BY <2>2 DEF LedgerInv, LedgerAt
  <2>4. LedgerAt(mem', drawn')
    BY <2>1, <2>2, <2>3 DEF LedgerInv, LedgerAt, TypeOK, Dataset, NoInvoice
  <2>5. job'.pc = "invoice" /\ job'.inv = i
    BY <1>9 DEF ChargeCollected, TypeOK, Job
  <2>6. JobLedger'
    BY <2>1, <2>2, <2>3, <2>5 DEF JobLedger
  <2>7. QED
    BY <2>1, <2>2, <2>4, <2>6, LedgerWrite
<1>10. ASSUME NEW a \in Accounts, NEW i \in InvoiceIds, NEW ok \in BOOLEAN,
              IssueOpenInvoice(a, i, ok)
       PROVE  LedgerInv'
  <2>1. /\ mem'.invoices = [mem.invoices EXCEPT ![i] = PeriodInvoice(a, "open")]
        /\ mem'.payments = mem.payments
        /\ disk' = IF ok THEN mem' ELSE disk
    BY <1>10, InvoiceWrite DEF IssueOpenInvoice
  <2>2. i \notin drawn /\ drawn' = drawn \cup {i}
    BY <1>10 DEF IssueOpenInvoice
  <2>3. LedgerAt(mem', drawn')
    BY <2>1, <2>2 DEF LedgerInv, LedgerAt, TypeOK, Dataset
  <2>4. job'.pc = "idle" \/ (job'.pc = "advance" /\ job'.inv = i)
    BY <1>10, IdlePc DEF IssueOpenInvoice, TypeOK, Job
  <2>5. JobLedger'
    BY <2>2, <2>4 DEF JobLedger
  <2>6. QED
    BY <2>1, <2>2, <2>3, <2>5, LedgerWrite
<1>11. ASSUME NEW a \in Accounts, NEW ok \in BOOLEAN, SaveAdvanced(a, ok) PROVE LedgerInv'
  <2>1. job.todo \ {a} \in SUBSET Accounts
    BY DEF TypeOK, Job
  <2>2. job'.pc \in {"idle", "bill", "enforce"}
    BY <1>11, <2>1, IdlePc, NextJobType DEF SaveAdvanced
  <2>3. QED
    BY <1>11, <2>2, AccountWrite, LedgerFrame DEF SaveAdvanced
<1>12. ASSUME NEW a \in Accounts, NEW ok \in BOOLEAN, Suspend(a, ok) PROVE LedgerInv'
  <2>1. job.todo \ {a} \in SUBSET Accounts
    BY DEF TypeOK, Job
  <2>2. job'.pc \in {"idle", "bill", "enforce"}
    BY <1>12, <2>1, NextJobType DEF Suspend
  <2>3. QED
    BY <1>12, <2>2, AccountWrite, LedgerFrame DEF Suspend
<1>13. ASSUME NEW ok \in BOOLEAN, IssuePaidInvoice(ok) PROVE LedgerInv'
  <2>1. /\ mem'.invoices = [mem.invoices EXCEPT ![job.inv] = PeriodInvoice(job.acct, "paid")]
        /\ mem'.payments = mem.payments
        /\ disk' = IF ok THEN mem' ELSE disk
    BY <1>13 DEF IssuePaidInvoice, SaveInvoice, Write, TypeOK, Dataset
  <2>2. drawn' = drawn /\ job.inv \in drawn /\ job.inv \in InvoiceIds
    BY <1>13 DEF IssuePaidInvoice, LedgerInv, JobLedger, JobOK
  <2>3. PeriodInvoice(job.acct, "paid").status = "paid"
    BY DEF PeriodInvoice
  <2>4. LedgerAt(mem', drawn')
    BY <2>1, <2>2, <2>3 DEF LedgerInv, LedgerAt, TypeOK, Dataset
  <2>5. job'.pc = "idle" \/ (job'.pc = "advance" /\ job'.inv = job.inv)
    BY <1>13, IdlePc DEF IssuePaidInvoice, TypeOK, Job
  <2>6. JobLedger'
    BY <2>2, <2>5 DEF JobLedger
  <2>7. QED
    BY <2>1, <2>2, <2>4, <2>6, LedgerWrite
<1>14. ASSUME NEW ok \in BOOLEAN, RecordPayment(ok) PROVE LedgerInv'
  <2>1. /\ mem'.payments = [mem.payments EXCEPT ![job.inv] = @ + 1]
        /\ mem'.invoices = mem.invoices
        /\ disk' = IF ok THEN mem' ELSE disk
    BY <1>14, PaymentWrite DEF RecordPayment
  <2>2. /\ drawn' = drawn /\ job.inv \in InvoiceIds
        /\ mem.payments[job.inv] = 0 /\ mem.invoices[job.inv].status = "paid"
    BY <1>14 DEF RecordPayment, LedgerInv, JobLedger, JobOK
  <2>3. job.inv \in drawn
    BY <2>2 DEF LedgerInv, LedgerAt, NoInvoice
  <2>4. LedgerAt(mem', drawn')
    BY <2>1, <2>2, <2>3 DEF LedgerInv, LedgerAt, TypeOK, Dataset
  <2>5. job'.pc \in {"idle", "reactivate"}
    BY <1>14, IdlePc DEF RecordPayment, TypeOK, Job
  <2>6. JobLedger'
    BY <2>5 DEF JobLedger
  <2>7. QED
    BY <2>1, <2>2, <2>4, <2>6, LedgerWrite
<1>15. ASSUME NEW ok \in BOOLEAN, Reactivate(ok) PROVE LedgerInv'
  BY <1>15, AccountWrite, LedgerFrame, IdlePc DEF Reactivate, SetsStatus
<1>16. CASE LeaveStatus
  BY <1>16, IdlePc DEF LeaveStatus, LedgerInv, LedgerAt, JobLedger
<1>17. ASSUME NEW s \in Sessions, NEW ok \in BOOLEAN, session[s].inv \in InvoiceIds,
              RecordCheckout(s, ok)
       PROVE  LedgerInv'
  <2> DEFINE i == session[s].inv
  <2>1. /\ mem'.invoices = [mem.invoices EXCEPT ![i] = [mem.invoices[i] EXCEPT !.ref = s]]
        /\ mem'.payments = mem.payments
        /\ disk' = IF ok THEN mem' ELSE disk
    <3>1. SaveInvoice(i, [mem.invoices[i] EXCEPT !.ref = s], ok)
      BY <1>17 DEF RecordCheckout
    <3> QED BY <3>1, InvoiceWrite
  <2>2. mem.invoices[i].status = "open" /\ drawn' = drawn /\ job' = job /\ Unlocked
    BY <1>17 DEF RecordCheckout, IsOpen
  <2>3. i \in drawn
    BY <1>17, <2>2 DEF LedgerInv, LedgerAt, NoInvoice
  <2>4. mem'.invoices[i].status = "open"
    BY <1>17, <2>1, <2>2 DEF TypeOK, Dataset, InvoiceRec
  <2>5. LedgerAt(mem', drawn')
    BY <1>17, <2>1, <2>2, <2>3, <2>4 DEF LedgerInv, LedgerAt, TypeOK, Dataset
  <2>6. JobLedger'
    BY <2>2, IdlePc DEF JobLedger, Unlocked
  <2>7. QED
    BY <2>1, <2>2, <2>5, <2>6, LedgerWrite
<1>18. CASE Crash
  BY <1>18, IdlePc DEF Crash, LedgerInv, LedgerAt, JobLedger
<1>19. QED
  BY <1>1, <1>2, <1>3, <1>4, <1>5, <1>6, <1>7, <1>8, <1>9, <1>10, <1>11, <1>12, <1>13, <1>14,
     <1>15, <1>16, <1>17, <1>18, NextEffects DEF Effects, AdvanceFree, AdvanceBilled, JobOK,
     TypeOK, Job

LEMMA Invariants == Spec => [](TypeInv /\ SessionsOK /\ LedgerInv)
<1>1. TypeInv /\ SessionsOK /\ LedgerInv /\ [Next]_vars => (TypeInv /\ SessionsOK /\ LedgerInv)'
  BY NextType, NextSessions, LedgerNext DEF TypeInv
<1>2. QED
  BY <1>1, InitType, LedgerInit, PTL DEF Spec

(* No step, failed write, crash or repeated callback records two payments  *)
(* of one invoice or a payment of an open invoice, in memory or on disk.   *)
THEOREM LedgerIsConsistent == Spec => []LedgerConsistent
<1>1. LedgerInv => LedgerConsistent
  BY DEF LedgerInv, LedgerAt, LedgerConsistent, Ledger
<1>2. QED
  BY <1>1, Invariants, PTL

-----------------------------------------------------------------------------
(* Billing periods: RunBilling skips none and bills none twice, and no     *)
(* status decision is lost.                                                *)

(* Under Service.mu the copies of the accounts a loop still has to do are  *)
(* the accounts themselves, and they exist.                                *)
JobCopies == \A a \in job.todo :
  job.copy[a] = mem.accounts[a] /\ mem.accounts[a].status # "none"
LastDecided == \A a \in Accounts : mem.accounts[a].status = decided[a].status
LastKept == \A a \in Accounts : disk.accounts[a].status = kept[a].status
HeldInv == JobCopies /\ LastDecided
CopiesInv == HeldInv /\ LastKept

LEMMA IdleTodo == Idle.todo = {}
BY DEF Idle

LEMMA NextJobTodo ==
  ASSUME TypeOK, NEW rest \in SUBSET Accounts
  PROVE  /\ NextJob(rest).todo = rest
         /\ \A a \in rest : NextJob(rest).copy = job.copy
BY IdleTodo DEF NextJob, TypeOK, Job

LEMMA CopiesInit == Init => CopiesInv
BY IdleTodo DEF Init, CopiesInv, LastKept, HeldInv, JobCopies, LastDecided, EmptyDataset, NoAccount

(* A step that leaves the accounts and their decisions alone, and starts   *)
(* no loop.                                                                *)
LEMMA HeldFrame ==
  ASSUME HeldInv, mem'.accounts = mem.accounts, decided' = decided,
         job'.todo = {} \/ (job'.todo = job.todo /\ job'.copy = job.copy)
  PROVE  HeldInv'
BY DEF HeldInv, JobCopies, LastDecided

LEMMA HeldNext == TypeInv /\ SessionsOK /\ CopiesInv /\ [Next]_vars => HeldInv'
<1> SUFFICES ASSUME TypeInv, SessionsOK, CopiesInv, [Next]_vars PROVE HeldInv'
  OBVIOUS
<1> USE DEF TypeInv, CopiesInv
<1>1. CASE Quiet
  BY <1>1, HeldFrame DEF Quiet
<1>2. ASSUME NEW p \in Plans, NEW ok \in BOOLEAN, CreatePlan(p, ok) PROVE HeldInv'
  BY <1>2, PlanWrite, HeldFrame DEF CreatePlan
<1>3. ASSUME NEW a \in Accounts, NEW p \in Plans, NEW ok \in BOOLEAN, CreateAccount(a, p, ok)
      PROVE  HeldInv'
  <2> DEFINE r == [plan |-> p, status |-> "active", created |-> now,
                   start |-> now, end |-> advance(now)]
  <2>1. mem'.accounts = [mem.accounts EXCEPT ![a] = r]
    BY <1>3 DEF CreateAccount, SaveAccount, Write, TypeOK, Dataset
  <2>2. job' = job /\ mem.accounts[a].status = "none"
    BY <1>3 DEF CreateAccount, Exists
  <2>3. a \notin job.todo
    BY <2>2 DEF HeldInv, JobCopies
  <2>4. JobCopies'
    BY <2>1, <2>2, <2>3 DEF HeldInv, JobCopies, TypeOK, Dataset, Job
  <2>5. LastDecided'
    BY <1>3, <2>1 DEF CreateAccount, Decide, HeldInv, LastDecided, TypeOK, Dataset
  <2>6. QED BY <2>4, <2>5 DEF HeldInv
<1>4. ASSUME NEW a \in Accounts, NEW st, NEW ok \in BOOLEAN,
             SetsStatus(a, st, ok), Decide(a, st, FALSE), job'.todo = {}
      PROVE  HeldInv'
  <2> DEFINE r == [mem.accounts[a] EXCEPT !.status = st]
  <2>1. mem'.accounts = [mem.accounts EXCEPT ![a] = r]
    BY <1>4 DEF SetsStatus, SaveAccount, Write, TypeOK, Dataset
  <2>2. r.status = st
    BY DEF TypeOK, Dataset, AccountRec
  <2>3. LastDecided'
    BY <1>4, <2>1, <2>2 DEF Decide, HeldInv, LastDecided, TypeOK, Dataset
  <2>4. QED
    BY <1>4, <2>3 DEF HeldInv, JobCopies
<1>5. ASSUME NEW a \in Accounts, NEW st \in OperatorStatuses, NEW ok \in BOOLEAN,
             SetStatus(a, st, ok)
      PROVE  HeldInv'
  BY <1>4, <1>5, IdleTodo DEF SetStatus, Unlocked
<1>6. ASSUME NEW a \in Accounts, NEW i \in InvoiceIds, NEW ok \in BOOLEAN, IssueInvoice(a, i, ok)
      PROVE  HeldInv'
  BY <1>6, InvoiceWrite, HeldFrame DEF IssueInvoice
<1>7. ASSUME NEW i \in InvoiceIds, NEW via \in SUBSET Sessions, NEW ok \in BOOLEAN,
             Settle(i, via, ok)
      PROVE  HeldInv'
  <2>1. job'.todo = {}
    BY <1>7, IdleTodo DEF Settle, Idle
  <2>2. QED
    BY <1>7, <2>1, InvoiceWrite, HeldFrame DEF Settle
<1>8. CASE StartBilling
  <2>1. job'.todo = Due /\ job'.copy = mem.accounts
    BY <1>8 DEF StartBilling, Idle
  <2>2. QED
    BY <1>8, <2>1 DEF StartBilling, Due, HeldInv, JobCopies, LastDecided
<1>9. CASE StartEnforcement
  <2>1. job'.todo = Delinquent /\ job'.copy = mem.accounts
    BY <1>9 DEF StartEnforcement, Idle
  <2>2. QED
    BY <1>9, <2>1 DEF StartEnforcement, Delinquent, HeldInv, JobCopies, LastDecided
<1>10. ASSUME NEW a \in Accounts, NEW i \in InvoiceIds, NEW ok \in BOOLEAN,
              ChargeCollected(a, i, ok)
       PROVE  HeldInv'
  <2>1. job'.todo = job.todo /\ job'.copy = job.copy
    BY <1>10 DEF ChargeCollected, TypeOK, Job
  <2>2. QED
    BY <1>10, <2>1, PaymentWrite, HeldFrame DEF ChargeCollected
<1>11. ASSUME NEW a \in Accounts, NEW i \in InvoiceIds, NEW ok \in BOOLEAN,
              IssueOpenInvoice(a, i, ok)
       PROVE  HeldInv'
  <2>1. job'.todo = {} \/ (job'.todo = job.todo /\ job'.copy = job.copy)
    BY <1>11, IdleTodo DEF IssueOpenInvoice, TypeOK, Job
  <2>2. mem'.accounts = mem.accounts /\ decided' = decided
    BY <1>11 DEF IssueOpenInvoice, SaveInvoice, Write, TypeOK, Dataset
  <2>3. QED
    BY <2>1, <2>2, HeldFrame
<1>12. ASSUME NEW a \in Accounts, NEW r, NEW ok \in BOOLEAN, SaveAccount(a, r, ok),
              job' = Idle \/ job' = NextJob(job.todo \ {a})
       PROVE  JobCopies'
  <2>1. job.todo \ {a} \in SUBSET Accounts
    BY DEF TypeOK, Job
  <2>2. mem'.accounts = [mem.accounts EXCEPT ![a] = r]
    BY <1>12 DEF SaveAccount, Write, TypeOK, Dataset
  <2>3. CASE job' = Idle
    BY <2>3, IdleTodo DEF JobCopies
  <2>4. CASE job' = NextJob(job.todo \ {a})
    BY <2>1, <2>2, <2>4, NextJobTodo DEF HeldInv, JobCopies, TypeOK, Dataset
  <2>5. QED BY <1>12, <2>3, <2>4
<1>13. ASSUME NEW a \in Accounts, a \in job.todo, NEW ok \in BOOLEAN, SaveAdvanced(a, ok)
       PROVE  HeldInv'
  <2>1. JobCopies'
    BY <1>12, <1>13 DEF SaveAdvanced
  <2>2. mem'.accounts = [mem.accounts EXCEPT ![a] = Advanced(job.copy[a])] /\ decided' = decided
    BY <1>13, AccountWrite DEF SaveAdvanced
  <2>3. job.copy[a] = mem.accounts[a] /\ job.copy[a] \in AccountRec
    BY <1>13 DEF HeldInv, JobCopies, TypeOK, Job
  <2>4. Advanced(job.copy[a]).status = job.copy[a].status
    BY <2>3 DEF Advanced, AccountRec
  <2>5. LastDecided'
    BY <2>2, <2>3, <2>4 DEF HeldInv, LastDecided, TypeOK, Dataset
  <2>6. QED BY <2>1, <2>5 DEF HeldInv
<1>14. ASSUME NEW a \in Accounts, NEW ok \in BOOLEAN, Suspend(a, ok) PROVE HeldInv'
  <2> DEFINE r == [job.copy[a] EXCEPT !.status = "suspended"]
  <2>1. JobCopies'
    BY <1>12, <1>14 DEF Suspend
  <2>2. mem'.accounts = [mem.accounts EXCEPT ![a] = r]
    BY <1>14 DEF Suspend, SaveAccount, Write, TypeOK, Dataset
  <2>3. r.status = "suspended"
    BY DEF TypeOK, Job, AccountRec
  <2>4. LastDecided'
    BY <1>14, <2>2, <2>3 DEF Suspend, Decide, HeldInv, LastDecided, TypeOK, Dataset
  <2>5. QED BY <2>1, <2>4 DEF HeldInv
<1>15. ASSUME NEW ok \in BOOLEAN, IssuePaidInvoice(ok) PROVE HeldInv'
  <2>1. job'.todo = {} \/ (job'.todo = job.todo /\ job'.copy = job.copy)
    BY <1>15, IdleTodo DEF IssuePaidInvoice, TypeOK, Job
  <2>2. mem'.accounts = mem.accounts /\ decided' = decided
    BY <1>15 DEF IssuePaidInvoice, SaveInvoice, Write, TypeOK, Dataset
  <2>3. QED
    BY <2>1, <2>2, HeldFrame
<1>16. ASSUME NEW ok \in BOOLEAN, RecordPayment(ok) PROVE HeldInv'
  <2>1. job'.todo = {} \/ (job'.todo = job.todo /\ job'.copy = job.copy)
    BY <1>16, IdleTodo DEF RecordPayment, TypeOK, Job
  <2>2. QED
    BY <1>16, <2>1, PaymentWrite, HeldFrame DEF RecordPayment
<1>17. ASSUME NEW ok \in BOOLEAN, Reactivate(ok) PROVE HeldInv'
  <2> DEFINE a == mem.invoices[job.inv].acct
  <2>1. SetsStatus(a, "active", ok) /\ Decide(a, "active", FALSE) /\ job'.todo = {}
    BY <1>17, IdleTodo DEF Reactivate
  <2>2. CASE a \in Accounts
    BY <1>4, <2>1, <2>2
  <2>3. CASE a \notin Accounts
    <3>1. mem'.accounts = mem.accounts
      <4>1. mem'.accounts = [mem.accounts EXCEPT ![a] = [mem.accounts[a] EXCEPT !.status = "active"]]
        BY <2>1 DEF SetsStatus, SaveAccount, Write, TypeOK, Dataset
      <4>2. QED BY <2>3, <4>1 DEF TypeOK, Dataset
    <3>2. decided' = decided
      BY <2>1, <2>3 DEF Decide, TypeOK
    <3>3. QED BY <2>1, <3>1, <3>2, HeldFrame
  <2>4. QED BY <2>2, <2>3
<1>18. CASE LeaveStatus
  BY <1>18, IdleTodo, HeldFrame DEF LeaveStatus
<1>19. ASSUME NEW s \in Sessions, NEW ok \in BOOLEAN, session[s].inv \in InvoiceIds,
              RecordCheckout(s, ok)
       PROVE  HeldInv'
  BY <1>19, InvoiceWrite, HeldFrame DEF RecordCheckout
<1>20. CASE Crash
  BY <1>20, IdleTodo DEF Crash, HeldInv, JobCopies, LastDecided, LastKept
<1>21. AdvanceBilled(TRUE) \/ AdvanceBilled(FALSE) => HeldInv'
  BY <1>13 DEF AdvanceBilled, JobOK, TypeOK, Job
<1>22. ASSUME NEW a \in Accounts, NEW ok \in BOOLEAN, AdvanceFree(a, ok) PROVE HeldInv'
  BY <1>13, <1>22 DEF AdvanceFree
<1>23. QED
  BY <1>1, <1>2, <1>3, <1>5, <1>6, <1>7, <1>8, <1>9, <1>10, <1>11, <1>14, <1>15, <1>16, <1>17,
     <1>18, <1>19, <1>20, <1>21, <1>22, NextEffects DEF Effects

LEMMA CopiesNext == TypeInv /\ SessionsOK /\ CopiesInv /\ [Next]_vars => CopiesInv'
BY HeldNext, Snapshot DEF CopiesInv, HeldInv, LastDecided, LastKept

LEMMA CopiesHold == Spec => [](TypeInv /\ SessionsOK /\ LedgerInv /\ CopiesInv)
<1>1. CopiesInv /\ TypeInv /\ SessionsOK /\ [Next]_vars => CopiesInv'
  BY CopiesNext
<1>2. QED
  BY <1>1, CopiesInit, Invariants, PTL DEF Spec

(* No decision on the status of an account is undone by RunBilling or      *)
(* EnforceDelinquency saving a copy of the account made earlier.           *)
THEOREM DecisionsHold == Spec => []LastDecisionHolds
<1>1. CopiesInv => LastDecisionHolds
  BY DEF CopiesInv, HeldInv, LastDecided, LastKept, LastDecisionHolds
<1>2. QED
  BY <1>1, CopiesHold, PTL
-----------------------------------------------------------------------------
(* The periods of a dataset m, when F is the invoice (if any) whose period *)
(* is about to be advanced and C the steps cut short: an invoice belongs   *)
(* to an account that exists, a period does not end before it starts, and  *)
(* a period invoice other than F ends before the current period starts.    *)
Owned(m) == \A a \in Accounts, i \in InvoiceIds :
  m.invoices[i].acct = a => m.accounts[a].status # "none"
Ordered(m) == \A a \in Accounts : m.accounts[a].start <= m.accounts[a].end
Past(m, a, F) == \A i \in InvoiceIds \ F :
  IsPeriod(m, i, a) => m.invoices[i].end <= m.accounts[a].start
Once(m, F, C) == \A a \in Accounts :
  <<"advance", a>> \notin C => NoOverlap(m, a) /\ Past(m, a, F)
PeriodsAt(m, F, C) == Owned(m) /\ Ordered(m) /\ Billed(m) /\ Once(m, F, C)

(* The invoice i bills the current period of a.                            *)
Bills(m, i, a) == /\ m.invoices[i].acct = a
                  /\ m.invoices[i].start = m.accounts[a].start
                  /\ m.invoices[i].end = m.accounts[a].end
InFlight == IF job.pc = "advance" THEN {job.inv} ELSE {}
JobBills(m) == job.pc = "advance" => Bills(m, job.inv, job.acct)
PeriodsInv == /\ PeriodsAt(mem, InFlight, cut) /\ PeriodsAt(disk, InFlight, cut)
              /\ JobBills(mem) /\ JobBills(disk)

(* Writes that keep the periods of accounts and invoices.                  *)
SamePeriods(m, n) ==
  /\ \A a \in Accounts : /\ n.accounts[a].plan = m.accounts[a].plan
                         /\ n.accounts[a].created = m.accounts[a].created
                         /\ n.accounts[a].start = m.accounts[a].start
                         /\ n.accounts[a].end = m.accounts[a].end
                         /\ m.accounts[a].status # "none" => n.accounts[a].status # "none"
  /\ \A i \in InvoiceIds : /\ n.invoices[i].acct = m.invoices[i].acct
                           /\ n.invoices[i].start = m.invoices[i].start
                           /\ n.invoices[i].end = m.invoices[i].end

LEMMA SameKeeps ==
  ASSUME NEW m \in Dataset, NEW n \in Dataset, NEW F, NEW C,
         PeriodsAt(m, F, C), SamePeriods(m, n)
  PROVE  PeriodsAt(n, F, C)
<1> USE DEF SamePeriods
<1>1. Owned(n) /\ Ordered(n)
  BY DEF PeriodsAt, Owned, Ordered
<1>2. Billed(n)
  BY DEF PeriodsAt, Billed, Covers
<1>3. \A a \in Accounts, i \in InvoiceIds : IsPeriod(n, i, a) <=> IsPeriod(m, i, a)
  BY DEF IsPeriod
<1>4. Once(n, F, C)
  BY <1>3 DEF PeriodsAt, Once, NoOverlap, Past
<1>5. QED BY <1>1, <1>2, <1>4 DEF PeriodsAt

(* A new account has no invoice yet, and nothing of it is to be billed.    *)
LEMMA JoinKeeps ==
  ASSUME NEW m \in Dataset, NEW n \in Dataset, NEW F, NEW C, PeriodsAt(m, F, C),
         NEW a \in Accounts, NEW r \in AccountRec, m.accounts[a].status = "none",
         n.accounts = [m.accounts EXCEPT ![a] = r], n.invoices = m.invoices,
         r.status # "none", r.created = r.start, r.start <= r.end
  PROVE  PeriodsAt(n, F, C)
<1> USE DEF Dataset
<1>1. n.accounts[a] = r /\ \A b \in Accounts : b # a => n.accounts[b] = m.accounts[b]
  OBVIOUS
<1>2. \A i \in InvoiceIds : m.invoices[i].acct # a
  BY DEF PeriodsAt, Owned
<1>3. Owned(n) /\ Ordered(n)
  BY <1>1 DEF PeriodsAt, Owned, Ordered
<1>4. Billed(n)
  <2>1. r.created .. r.start - 1 = {}
    BY DEF AccountRec
  <2>2. QED BY <1>1, <2>1 DEF PeriodsAt, Billed, Covers
<1>5. Once(n, F, C)
  BY <1>1, <1>2 DEF PeriodsAt, Once, NoOverlap, Past, IsPeriod
<1>6. QED BY <1>3, <1>4, <1>5 DEF PeriodsAt

(* An id not drawn yet becomes an invoice of an account that exists: an    *)
(* empty period (a one-off invoice), or the current period of the account  *)
(* with nothing else in flight.                                            *)
LEMMA IssueKeeps ==
  ASSUME NEW m \in Dataset, NEW n \in Dataset, NEW F, NEW C, PeriodsAt(m, F, C),
         NEW a \in Accounts, NEW i \in InvoiceIds, NEW G, F \subseteq G,
         m.invoices[i] = NoInvoice, m.accounts[a].status # "none",
         n.accounts = m.accounts,
         \A j \in InvoiceIds : j # i => n.invoices[j] = m.invoices[j],
         n.invoices[i].acct = a,
         \/ n.invoices[i].start = n.invoices[i].end
         \/ F = {} /\ i \in G /\ Bills(n, i, a)
  PROVE  PeriodsAt(n, G, C)
<1> USE DEF Dataset
<1> DEFINE r == n.invoices[i]
<1>1. \A j \in InvoiceIds : j # i => n.invoices[j] = m.invoices[j]
  OBVIOUS
<1>2. Owned(n) /\ Ordered(n)
  BY <1>1 DEF PeriodsAt, Owned, Ordered
<1>3. m.invoices[i].acct \notin Accounts
  BY IdsAssumption DEF NoInvoice
<1>4. Billed(n)
  BY <1>1, <1>3 DEF PeriodsAt, Billed, Covers
<1>5. ASSUME NEW b \in Accounts, <<"advance", b>> \notin C PROVE NoOverlap(n, b) /\ Past(n, b, G)
  <2>1. NoOverlap(m, b) /\ Past(m, b, F)
    BY <1>5 DEF PeriodsAt, Once
  <2>2. CASE r.start = r.end \/ b # a
    <3>1. ~IsPeriod(n, i, b)
      BY <2>2 DEF IsPeriod, InvoiceRec
    <3>2. \A j \in InvoiceIds : IsPeriod(n, j, b) => j # i /\ IsPeriod(m, j, b)
      BY <1>1, <3>1 DEF IsPeriod
    <3>3. QED BY <1>1, <2>1, <3>2 DEF NoOverlap, Past
  <2>3. CASE r.start # r.end /\ b = a
    <3>1. F = {} /\ i \in G /\ r.start = m.accounts[a].start
      BY <2>3 DEF Bills
    <3>2. \A j \in InvoiceIds : j # i /\ IsPeriod(n, j, a) =>
            IsPeriod(m, j, a) /\ n.invoices[j].end <= r.start
      BY <1>1, <2>1, <2>3, <3>1 DEF Past, IsPeriod
    <3>3. NoOverlap(n, a)
      BY <1>1, <2>1, <2>3, <3>2 DEF NoOverlap
    <3>4. Past(n, a, G)
      BY <1>1, <2>3, <3>1, <3>2 DEF Past
    <3>5. QED BY <2>3, <3>3, <3>4
  <2>4. QED BY <2>2, <2>3
<1>6. QED BY <1>2, <1>4, <1>5 DEF PeriodsAt, Once

(* The period of an account is advanced: of one with a free plan, or of    *)
(* one whose current period the invoice in flight bills.                   *)
LEMMA AdvanceKeeps ==
  ASSUME NEW m \in Dataset, NEW n \in Dataset, NEW F, NEW C, PeriodsAt(m, F, C),
         NEW a \in Accounts, n.invoices = m.invoices,
         n.accounts = [m.accounts EXCEPT ![a] = Advanced(m.accounts[a])],
         \/ F = {} /\ m.accounts[a].plan \notin PricedPlans
         \/ \E i \in InvoiceIds : F = {i} /\ Bills(m, i, a)
  PROVE  PeriodsAt(n, {}, C)
<1> USE DEF Dataset
<1> DEFINE r == Advanced(m.accounts[a])
<1>1. /\ m.accounts[a] \in AccountRec
      /\ n.accounts[a] = r
      /\ \A b \in Accounts : b # a => n.accounts[b] = m.accounts[b]
  OBVIOUS
<1>2. /\ r.plan = m.accounts[a].plan /\ r.status = m.accounts[a].status
      /\ r.created = m.accounts[a].created /\ r.start = m.accounts[a].end
      /\ r.end = m.accounts[a].end + PeriodLength
  BY <1>1 DEF Advanced, advance, AccountRec
<1>3. m.accounts[a].start <= m.accounts[a].end /\ m.accounts[a].end <= r.end
  BY <1>1, <1>2, TimeAssumption DEF PeriodsAt, Ordered, AccountRec
<1>4. Owned(n) /\ Ordered(n)
  BY <1>1, <1>2, <1>3 DEF PeriodsAt, Owned, Ordered
<1>5. ASSUME NEW b \in Accounts, n.accounts[b].plan \in PricedPlans,
             NEW t \in n.accounts[b].created .. n.accounts[b].start - 1
      PROVE  \E i \in InvoiceIds : Covers(n, i, b, t)
  <2>1. CASE b # a \/ t < m.accounts[a].start
    <3>1. m.accounts[b].plan \in PricedPlans
      BY <1>1, <1>2, <1>5
    <3>2. m.accounts[b] \in AccountRec
      OBVIOUS
    <3>3. t \in m.accounts[b].created .. m.accounts[b].start - 1
      BY <1>1, <1>2, <1>5, <2>1, <3>2 DEF AccountRec
    <3>4. \E i \in InvoiceIds : Covers(m, i, b, t)
      BY <3>1, <3>3 DEF PeriodsAt, Billed
    <3>5. QED BY <3>4 DEF Covers
  <2>2. CASE b = a /\ ~(t < m.accounts[a].start)
    <3>1. m.accounts[a].start <= t /\ t < m.accounts[a].end
      BY <1>1, <1>2, <1>5, <2>2 DEF AccountRec
    <3>2. \E i \in InvoiceIds : Bills(m, i, a)
      BY <1>1, <1>2, <1>5, <2>2
    <3>3. QED BY <2>2, <3>1, <3>2 DEF Bills, Covers
  <2>3. QED BY <2>1, <2>2
<1>6. Billed(n)
  BY <1>5 DEF Billed
<1>7. ASSUME NEW b \in Accounts, <<"advance", b>> \notin C PROVE NoOverlap(n, b) /\ Past(n, b, {})
  <2>1. NoOverlap(m, b) /\ Past(m, b, F)
    BY <1>7 DEF PeriodsAt, Once
  <2>2. NoOverlap(n, b)
    BY <2>1 DEF NoOverlap, IsPeriod
  <2>3. ASSUME NEW j \in InvoiceIds, IsPeriod(n, j, b)
        PROVE  n.invoices[j].end <= n.accounts[b].start
    <3>1. IsPeriod(m, j, b) /\ m.invoices[j] \in InvoiceRec
      BY <2>3 DEF IsPeriod
    <3>2. CASE j \in F
      <4>1. b = a /\ m.invoices[j].end = m.accounts[a].end
        BY <3>1, <3>2 DEF Bills, IsPeriod
      <4>2. QED BY <1>1, <1>2, <4>1, <3>1 DEF InvoiceRec, AccountRec
    <3>3. CASE j \notin F
      <4>1. m.invoices[j].end <= m.accounts[b].start
        BY <2>1, <3>1, <3>3 DEF Past
      <4>2. CASE b = a
        BY <1>1, <1>2, <1>3, <3>1, <4>1, <4>2 DEF InvoiceRec, AccountRec
      <4>3. CASE b # a
        BY <1>1, <4>1, <4>3
      <4>4. QED BY <4>2, <4>3
    <3>4. QED BY <3>2, <3>3
  <2>4. QED BY <2>2, <2>3 DEF Past
<1>8. QED BY <1>4, <1>6, <1>7 DEF PeriodsAt, Once

(* More steps cut short, and an invoice whose advance was cut short.       *)
LEMMA CutKeeps ==
  ASSUME NEW m \in Dataset, NEW F, NEW C, NEW D, PeriodsAt(m, F, C), C \subseteq D
  PROVE  PeriodsAt(m, F, D)
BY DEF PeriodsAt, Once

LEMMA AbandonKeeps ==
  ASSUME NEW m \in Dataset, NEW C, NEW D, C \subseteq D,
         NEW a \in Accounts, NEW i \in InvoiceIds, Bills(m, i, a), <<"advance", a>> \in D,
         PeriodsAt(m, {i}, C)
  PROVE  PeriodsAt(m, {}, D)
<1>1. ASSUME NEW b \in Accounts, <<"advance", b>> \notin D PROVE NoOverlap(m, b) /\ Past(m, b, {})
  <2>1. b # a /\ NoOverlap(m, b) /\ Past(m, b, {i})
    BY <1>1 DEF PeriodsAt, Once
  <2>2. ~IsPeriod(m, i, b)
    BY <2>1 DEF Bills, IsPeriod
  <2>3. QED BY <2>1, <2>2 DEF Past
<1>2. QED BY <1>1 DEF PeriodsAt, Once

LEMMA PeriodsInit == Init => PeriodsInv
<1> SUFFICES ASSUME Init PROVE PeriodsInv
  OBVIOUS
<1>1. mem = EmptyDataset /\ disk = EmptyDataset /\ InFlight = {} /\ job.pc # "advance"
  BY IdlePc DEF Init, InFlight
<1>2. /\ \A a \in Accounts : EmptyDataset.accounts[a] = NoAccount
      /\ \A i \in InvoiceIds : EmptyDataset.invoices[i] = NoInvoice
  BY DEF EmptyDataset
<1>3. Owned(EmptyDataset) /\ Ordered(EmptyDataset)
  BY <1>2, IdsAssumption DEF Owned, Ordered, NoAccount, NoInvoice
<1>4. Billed(EmptyDataset)
  BY <1>2, IdsAssumption DEF Billed, NoAccount
<1>5. Once(EmptyDataset, {}, cut)
  BY <1>2 DEF Once, NoOverlap, Past, IsPeriod, NoInvoice
<1>6. QED BY <1>1, <1>3, <1>4, <1>5 DEF PeriodsInv, PeriodsAt, JobBills

(* A write of a dataset with the same periods.                             *)
LEMMA PeriodsFrame ==
  ASSUME TypeInv, TypeInv', PeriodsInv, NEW ok \in BOOLEAN, SamePeriods(mem, mem'),
         disk' = (IF ok THEN mem' ELSE disk), cut \subseteq cut',
         \/ job'.pc = job.pc /\ job'.inv = job.inv /\ job'.acct = job.acct
         \/ job.pc # "advance" /\ job'.pc # "advance"
  PROVE  PeriodsInv'
<1> USE DEF TypeInv, TypeOK
<1>1. InFlight' = InFlight
  BY DEF InFlight
<1>2. PeriodsAt(mem', InFlight, cut)
  BY SameKeeps DEF PeriodsInv
<1>3. PeriodsAt(mem', InFlight', cut') /\ PeriodsAt(disk, InFlight', cut')
  BY <1>1, <1>2, CutKeeps DEF PeriodsInv
<1>4. JobBills(mem)' /\ JobBills(disk)'
  BY DEF PeriodsInv, JobBills, Bills, SamePeriods, JobOK, Job
<1>5. QED BY <1>3, <1>4 DEF PeriodsInv

(* The invoice of the period of a, as RunBilling saves it.                 *)
LEMMA PeriodsIssue ==
  ASSUME TypeInv, TypeInv', CopiesInv, PeriodsInv, NEW ok \in BOOLEAN,
         NEW a \in Accounts, a \in job.todo, NEW i \in InvoiceIds, mem.invoices[i] = NoInvoice,
         NEW st \in {"open", "paid"}, SaveInvoice(i, PeriodInvoice(a, st), ok),
         job.pc # "advance", CutUnless(ok, "advance", a),
         IF ok THEN job'.pc = "advance" /\ job'.acct = a /\ job'.inv = i ELSE job' = Idle
  PROVE  PeriodsInv'
<1> USE DEF TypeInv, TypeOK
<1> DEFINE r == PeriodInvoice(a, st)
<1>1. /\ r \in InvoiceRec /\ r.acct = a
      /\ r.start = mem.accounts[a].start /\ r.end = mem.accounts[a].end
      /\ mem.accounts[a].status # "none"
  BY InvoiceType DEF CopiesInv, HeldInv, JobCopies, PeriodInvoice
<1>2. /\ mem'.invoices = [mem.invoices EXCEPT ![i] = r] /\ mem'.accounts = mem.accounts
      /\ disk' = IF ok THEN mem' ELSE disk
  BY DEF SaveInvoice, Write, Dataset
<1>3. PeriodsAt(mem, {}, cut) /\ PeriodsAt(disk, {}, cut)
  BY DEF PeriodsInv, InFlight
<1>4. /\ mem'.accounts = mem.accounts /\ Bills(mem', i, a)
      /\ \A j \in InvoiceIds : j # i => mem'.invoices[j] = mem.invoices[j]
  BY <1>1, <1>2 DEF Bills, Dataset
<1>5. PeriodsAt(mem', {i}, cut)
  <2>1. mem \in Dataset /\ mem' \in Dataset /\ {} \subseteq {i} /\ i \in {i}
    OBVIOUS
  <2>2. mem'.invoices[i].acct = a
    BY <1>4 DEF Bills
  <2>3. QED BY <1>1, <1>3, <1>4, <2>1, <2>2, IssueKeeps
<1>6. CASE ok
  <2>1. InFlight' = {i} /\ cut' = cut /\ disk' = mem'
    BY <1>2, <1>6 DEF InFlight, CutUnless
  <2>2. JobBills(mem)' /\ JobBills(disk)'
    BY <1>4, <1>6, <2>1 DEF JobBills
  <2>3. QED BY <1>5, <2>1, <2>2 DEF PeriodsInv
<1>7. CASE ~ok
  <2>1. /\ InFlight' = {} /\ job'.pc # "advance" /\ disk' = disk
        /\ cut \subseteq cut' /\ <<"advance", a>> \in cut'
    BY <1>2, <1>7, IdlePc DEF InFlight, CutUnless
  <2>2. PeriodsAt(mem', {}, cut')
    BY <1>4, <1>5, <2>1, AbandonKeeps
  <2>3. PeriodsAt(disk, {}, cut')
    BY <1>3, <2>1, CutKeeps
  <2>4. QED BY <2>1, <2>2, <2>3 DEF PeriodsInv, JobBills
<1>8. QED BY <1>6, <1>7

LEMMA PeriodsAdvance ==
  ASSUME TypeInv, TypeInv', CopiesInv, PeriodsInv, NEW ok \in BOOLEAN,
         NEW a \in Accounts, a \in job.todo, SaveAdvanced(a, ok),
         \/ job.pc # "advance" /\ ~Priced(a)
         \/ job.pc = "advance" /\ a = job.acct
  PROVE  PeriodsInv'
<1> USE DEF TypeInv, TypeOK
<1>1. job.copy[a] = mem.accounts[a] /\ Advanced(mem.accounts[a]) \in AccountRec
  BY PeriodType DEF CopiesInv, HeldInv, JobCopies, Dataset
<1>2. /\ mem'.accounts = [mem.accounts EXCEPT ![a] = Advanced(mem.accounts[a])]
      /\ mem'.invoices = mem.invoices /\ disk' = IF ok THEN mem' ELSE disk
  BY <1>1 DEF SaveAdvanced, SaveAccount, Write, Dataset
<1>3. \/ InFlight = {} /\ mem.accounts[a].plan \notin PricedPlans
      \/ job.inv \in InvoiceIds /\ InFlight = {job.inv} /\ Bills(mem, job.inv, a)
         /\ Bills(disk, job.inv, a)
  BY DEF InFlight, Priced, JobOK, PeriodsInv, JobBills
<1>4. PeriodsAt(mem', {}, cut)
  BY <1>2, <1>3, AdvanceKeeps DEF PeriodsInv
<1>5. job'.pc # "advance" /\ InFlight' = {}
  <2>1. job.todo \ {a} \in SUBSET Accounts
    BY DEF Job
  <2>2. job'.pc \in {"idle", "bill", "enforce"}
    BY <2>1, IdlePc, NextJobType DEF SaveAdvanced
  <2>3. QED BY <2>2 DEF InFlight
<1>6. CASE ok
  <2>1. cut' = cut /\ disk' = mem'
    BY <1>2, <1>6 DEF SaveAdvanced, CutUnless
  <2>2. QED BY <1>4, <1>5, <2>1 DEF PeriodsInv, JobBills
<1>7. CASE ~ok
  <2>1. cut \subseteq cut' /\ <<"advance", a>> \in cut' /\ disk' = disk
    BY <1>2, <1>7 DEF SaveAdvanced, CutUnless
  <2>2. PeriodsAt(mem', {}, cut')
    BY <1>4, <2>1, CutKeeps
  <2>3. PeriodsAt(disk, {}, cut')
    <3>1. PeriodsAt(disk, InFlight, cut) /\ disk \in Dataset
      BY DEF PeriodsInv
    <3>2. CASE InFlight = {}
      BY <2>1, <3>1, <3>2, CutKeeps
    <3>3. CASE InFlight # {}
      BY <1>3, <2>1, <3>1, <3>3, AbandonKeeps
    <3>4. QED BY <3>2, <3>3
  <2>4. QED BY <1>5, <2>1, <2>2, <2>3 DEF PeriodsInv, JobBills
<1>8. QED BY <1>6, <1>7

LEMMA PeriodsNext ==
  TypeInv /\ SessionsOK /\ LedgerInv /\ CopiesInv /\ PeriodsInv /\ [Next]_vars => PeriodsInv'
<1> SUFFICES ASSUME TypeInv, SessionsOK, LedgerInv, CopiesInv, PeriodsInv, [Next]_vars
             PROVE  PeriodsInv'
  OBVIOUS
<1>0. TypeInv' /\ TypeOK
  BY NextType DEF TypeInv
<1>1. CASE Quiet
  BY <1>1 DEF Quiet, PeriodsInv, InFlight, JobBills
<1>2. ASSUME NEW p \in Plans, NEW ok \in BOOLEAN, CreatePlan(p, ok) PROVE PeriodsInv'
  <2>1. SamePeriods(mem, mem')
    BY <1>0, <1>2, PlanWrite DEF CreatePlan, SamePeriods
  <2>2. QED BY <1>0, <1>2, <2>1, PlanWrite, PeriodsFrame DEF CreatePlan
<1>3. ASSUME NEW a \in Accounts, NEW p \in Plans, NEW ok \in BOOLEAN, CreateAccount(a, p, ok)
      PROVE  PeriodsInv'
  <2> DEFINE r == [plan |-> p, status |-> "active", created |-> now,
                   start |-> now, end |-> advance(now)]
  <2>1. /\ mem'.accounts = [mem.accounts EXCEPT ![a] = r] /\ mem'.invoices = mem.invoices
        /\ disk' = IF ok THEN mem' ELSE disk
    <3>1. SaveAccount(a, r, ok)
      BY <1>3 DEF CreateAccount
    <3> HIDE DEF r
    <3> QED BY <1>0, <3>1, AccountWrite
  <2>2. /\ r \in AccountRec /\ r.status # "none" /\ r.created = r.start /\ r.start <= r.end
    BY <1>0, TimeAssumption DEF AccountRec, Statuses, advance, TypeOK
  <2>3. mem.accounts[a].status = "none" /\ job' = job /\ cut' = cut
    BY <1>3 DEF CreateAccount, Exists
  <2>4. PeriodsAt(mem', InFlight, cut)
    <3> HIDE DEF r
    <3>1. mem \in Dataset /\ mem' \in Dataset
      BY <1>0 DEF TypeInv, TypeOK
    <3>2. QED BY <2>1, <2>2, <2>3, <3>1, JoinKeeps DEF PeriodsInv
  <2>5. JobBills(mem')
    <3>1. ASSUME job.pc = "advance"
          PROVE  job.inv \in InvoiceIds /\ job.acct \in Accounts /\ job.acct # a
      BY <1>0, <2>3, <3>1 DEF JobOK, TypeInv, TypeOK, Job, CopiesInv, HeldInv, JobCopies
    <3>2. QED BY <1>0, <2>1, <3>1 DEF PeriodsInv, JobBills, Bills, TypeOK, Dataset
  <2>6. /\ InFlight' = InFlight
        /\ JobBills(mem') => JobBills(mem)'
        /\ JobBills(disk) /\ disk' = disk => JobBills(disk)'
    BY <2>3 DEF InFlight, JobBills
  <2>7. QED BY <2>1, <2>3, <2>4, <2>5, <2>6 DEF PeriodsInv, JobBills
<1>4. ASSUME NEW a, NEW st \in Statuses \ {"none"}, NEW ok \in BOOLEAN, SetsStatus(a, st, ok)
      PROVE  SamePeriods(mem, mem') /\ disk' = IF ok THEN mem' ELSE disk
  <2> DEFINE r == [mem.accounts[a] EXCEPT !.status = st]
  <2>1. /\ mem'.accounts = [mem.accounts EXCEPT ![a] = r] /\ mem'.invoices = mem.invoices
        /\ disk' = IF ok THEN mem' ELSE disk
    BY <1>0, <1>4 DEF SetsStatus, SaveAccount, Write, TypeOK, Dataset
  <2>2. a \in Accounts => /\ r.plan = mem.accounts[a].plan /\ r.created = mem.accounts[a].created
                          /\ r.start = mem.accounts[a].start /\ r.end = mem.accounts[a].end
                          /\ r.status = st
    BY <1>0 DEF TypeOK, Dataset, AccountRec
  <2>3. QED BY <1>0, <2>1, <2>2 DEF SamePeriods, TypeOK, Dataset
<1>5. ASSUME NEW a \in Accounts, NEW st \in OperatorStatuses, NEW ok \in BOOLEAN,
             SetStatus(a, st, ok)
      PROVE  PeriodsInv'
  <2>1. st \in Statuses \ {"none"}
    BY InputsAssumption DEF Statuses
  <2>2. SetsStatus(a, st, ok)
    BY <1>5 DEF SetStatus
  <2>3. SamePeriods(mem, mem') /\ disk' = IF ok THEN mem' ELSE disk
    BY <1>4, <2>1, <2>2
  <2>4. QED BY <1>0, <1>5, <2>3, PeriodsFrame DEF SetStatus
<1>6. ASSUME NEW a \in Accounts, NEW i \in InvoiceIds, NEW ok \in BOOLEAN, IssueInvoice(a, i, ok)
      PROVE  PeriodsInv'
  <2> DEFINE r == [acct |-> a, status |-> "open", start |-> now, end |-> now,
                   created |-> now, ref |-> None]
  <2>1. /\ mem'.invoices = [mem.invoices EXCEPT ![i] = r] /\ mem'.accounts = mem.accounts
        /\ disk' = IF ok THEN mem' ELSE disk
    BY <1>0, <1>6 DEF IssueInvoice, SaveInvoice, Write, TypeOK, Dataset
  <2>2. /\ mem.accounts[a].status # "none" /\ mem.invoices[i] = NoInvoice
        /\ job.pc # "advance" /\ job'.pc # "advance" /\ cut' = cut
    BY <1>6, IdlePc DEF IssueInvoice, Exists, Unlocked, LedgerInv, LedgerAt
  <2>3. mem \in Dataset /\ mem' \in Dataset /\ {} \subseteq {}
    BY <1>0 DEF TypeInv, TypeOK
  <2>4. mem'.invoices[i] = r /\ \A j \in InvoiceIds : j # i => mem'.invoices[j] = mem.invoices[j]
    BY <2>1, <2>3 DEF Dataset
  <2>5. /\ mem'.invoices[i].acct = a /\ mem'.invoices[i].start = mem'.invoices[i].end
        /\ mem'.accounts = mem.accounts
        /\ \A j \in InvoiceIds : j # i => mem'.invoices[j] = mem.invoices[j]
    BY <2>1, <2>4
  <2>6. InFlight = {} /\ InFlight' = {} /\ PeriodsAt(mem, {}, cut)
    BY <2>2 DEF InFlight, PeriodsInv
  <2>7. PeriodsAt(mem', {}, cut)
    BY <2>2, <2>3, <2>5, <2>6, IssueKeeps
  <2>8. QED BY <2>1, <2>2, <2>6, <2>7 DEF PeriodsInv, JobBills
<1>7. ASSUME NEW i \in InvoiceIds, NEW via \in SUBSET Sessions, NEW ok \in BOOLEAN,
             Settle(i, via, ok)
      PROVE  PeriodsInv'
  <2>1. /\ mem'.invoices = [mem.invoices EXCEPT ![i] = [mem.invoices[i] EXCEPT !.status = "paid"]]
        /\ mem'.accounts = mem.accounts
        /\ disk' = IF ok THEN mem' ELSE disk
    <3>1. SaveInvoice(i, [mem.invoices[i] EXCEPT !.status = "paid"], ok)
      BY <1>7 DEF Settle
    <3> QED BY <1>0, <3>1, InvoiceWrite
  <2>2. SamePeriods(mem, mem')
    BY <1>0, <2>1 DEF SamePeriods, TypeOK, Dataset, InvoiceRec
  <2>3. job.pc # "advance" /\ job'.pc # "advance" /\ cut \subseteq cut'
    BY <1>7, IdlePc DEF Settle, Unlocked, CutUnless, Idle
  <2>4. QED BY <1>0, <2>1, <2>2, <2>3, PeriodsFrame
<1>8. CASE StartBilling \/ StartEnforcement
  BY <1>8, IdlePc DEF StartBilling, StartEnforcement, Unlocked, Idle, PeriodsInv, InFlight, JobBills
<1>9. ASSUME NEW a \in Accounts, NEW i \in InvoiceIds, NEW ok \in BOOLEAN,
             ChargeCollected(a, i, ok)
      PROVE  PeriodsInv'
  <2>1. /\ mem'.invoices = mem.invoices /\ mem'.accounts = mem.accounts
        /\ disk' = IF ok THEN mem' ELSE disk
    BY <1>0, <1>9, PaymentWrite DEF ChargeCollected
  <2>2. SamePeriods(mem, mem')
    BY <2>1 DEF SamePeriods
  <2>3. job.pc # "advance" /\ job'.pc # "advance" /\ cut' = cut
    BY <1>0, <1>9 DEF ChargeCollected, TypeOK, Job
  <2>4. QED BY <1>0, <2>1, <2>2, <2>3, PeriodsFrame
<1>10. ASSUME NEW a \in Accounts, NEW i \in InvoiceIds, NEW ok \in BOOLEAN,
              IssueOpenInvoice(a, i, ok)
       PROVE  PeriodsInv'
  <2>1. /\ a \in job.todo /\ job.pc # "advance" /\ mem.invoices[i] = NoInvoice
        /\ SaveInvoice(i, PeriodInvoice(a, "open"), ok) /\ CutUnless(ok, "advance", a)
    BY <1>10 DEF IssueOpenInvoice, LedgerInv, LedgerAt
  <2>2. IF ok THEN job'.pc = "advance" /\ job'.acct = a /\ job'.inv = i ELSE job' = Idle
    BY <1>0, <1>10 DEF IssueOpenInvoice, TypeOK, Job
  <2>3. QED BY <1>0, <2>1, <2>2, PeriodsIssue
<1>11. ASSUME NEW ok \in BOOLEAN, IssuePaidInvoice(ok) PROVE PeriodsInv'
  <2>1. job.acct \in job.todo /\ job.acct \in Accounts /\ job.inv \in InvoiceIds
    BY <1>0, <1>11 DEF IssuePaidInvoice, TypeInv, TypeOK, JobOK, Job
  <2>2. /\ job.pc # "advance" /\ mem.invoices[job.inv] = NoInvoice
        /\ SaveInvoice(job.inv, PeriodInvoice(job.acct, "paid"), ok)
        /\ CutUnless(ok, "advance", job.acct)
    BY <1>11 DEF IssuePaidInvoice, LedgerInv, JobLedger
  <2>3. IF ok THEN job'.pc = "advance" /\ job'.acct = job.acct /\ job'.inv = job.inv
        ELSE job' = Idle
    BY <1>0, <1>11 DEF IssuePaidInvoice, TypeOK, Job
  <2>4. QED BY <1>0, <2>1, <2>2, <2>3, PeriodsIssue
<1>12. ASSUME NEW a \in Accounts, NEW ok \in BOOLEAN, AdvanceFree(a, ok) PROVE PeriodsInv'
  BY <1>0, <1>12, PeriodsAdvance DEF AdvanceFree
<1>13. ASSUME NEW ok \in BOOLEAN, AdvanceBilled(ok) PROVE PeriodsInv'
  <2>1. job.acct \in job.todo /\ job.acct \in Accounts
    BY <1>0, <1>13 DEF AdvanceBilled, TypeInv, TypeOK, JobOK, Job
  <2>2. QED BY <1>0, <1>13, <2>1, PeriodsAdvance DEF AdvanceBilled
<1>14. ASSUME NEW a \in Accounts, NEW ok \in BOOLEAN, Suspend(a, ok) PROVE PeriodsInv'
  <2>1. job.copy[a] = mem.accounts[a]
    BY <1>14 DEF Suspend, CopiesInv, HeldInv, JobCopies
  <2>2. SetsStatus(a, "suspended", ok) /\ "suspended" \in Statuses \ {"none"}
    BY <1>14, <2>1 DEF Suspend, SetsStatus, Statuses
  <2>3. job.todo \ {a} \in SUBSET Accounts
    BY <1>0 DEF TypeOK, Job
  <2>4. job.pc # "advance" /\ job'.pc # "advance" /\ cut' = cut
    BY <1>0, <1>14, <2>3, NextJobType DEF Suspend
  <2>5. QED BY <1>0, <1>4, <2>2, <2>4, PeriodsFrame
<1>15. ASSUME NEW ok \in BOOLEAN, RecordPayment(ok) PROVE PeriodsInv'
  <2>1. /\ mem'.invoices = mem.invoices /\ mem'.accounts = mem.accounts
        /\ disk' = IF ok THEN mem' ELSE disk
    BY <1>0, <1>15, PaymentWrite DEF RecordPayment
  <2>2. SamePeriods(mem, mem')
    BY <2>1 DEF SamePeriods
  <2>3. job.pc # "advance" /\ job'.pc # "advance" /\ cut \subseteq cut'
    BY <1>0, <1>15, IdlePc DEF RecordPayment, CutUnless, TypeOK, Job
  <2>4. QED BY <1>0, <2>1, <2>2, <2>3, PeriodsFrame
<1>16. ASSUME NEW ok \in BOOLEAN, Reactivate(ok) PROVE PeriodsInv'
  <2>1. "active" \in Statuses \ {"none"}
    BY DEF Statuses
  <2>2. SamePeriods(mem, mem') /\ disk' = IF ok THEN mem' ELSE disk
    BY <1>4, <1>16, <2>1 DEF Reactivate
  <2>3. job.pc # "advance" /\ job'.pc # "advance" /\ cut \subseteq cut'
    BY <1>16, IdlePc DEF Reactivate, CutUnless
  <2>4. QED BY <1>0, <2>2, <2>3, PeriodsFrame
<1>17. CASE LeaveStatus
  BY <1>17, IdlePc DEF LeaveStatus, PeriodsInv, InFlight, JobBills
<1>18. ASSUME NEW s \in Sessions, NEW ok \in BOOLEAN, session[s].inv \in InvoiceIds,
              RecordCheckout(s, ok)
       PROVE  PeriodsInv'
  <2> DEFINE i == session[s].inv
  <2>1. /\ mem'.invoices = [mem.invoices EXCEPT ![i] = [mem.invoices[i] EXCEPT !.ref = s]]
        /\ mem'.accounts = mem.accounts
        /\ disk' = IF ok THEN mem' ELSE disk
    BY <1>0, <1>18, InvoiceWrite DEF RecordCheckout
  <2>2. SamePeriods(mem, mem')
    BY <1>0, <1>18, <2>1 DEF SamePeriods, TypeOK, Dataset, InvoiceRec
  <2>3. job' = job /\ cut' = cut
    BY <1>18 DEF RecordCheckout
  <2>4. QED BY <1>0, <2>1, <2>2, <2>3, PeriodsFrame
<1>19. CASE Crash
  <2>1. mem' = disk /\ disk' = disk /\ job'.pc # "advance" /\ cut' = cut \cup Untaken
    BY <1>19, IdlePc DEF Crash
  <2>2. InFlight' = {} /\ disk \in Dataset
    BY <1>0, <2>1 DEF InFlight, TypeOK
  <2>3. PeriodsAt(disk, {}, cut')
    <3>1. CASE job.pc = "advance"
      <4>1. <<"advance", job.acct>> \in cut' /\ cut \subseteq cut'
        BY <2>1, <3>1 DEF Untaken
      <4>2. /\ job.acct \in Accounts /\ job.inv \in InvoiceIds /\ Bills(disk, job.inv, job.acct)
            /\ PeriodsAt(disk, {job.inv}, cut)
        BY <1>0, <3>1 DEF PeriodsInv, JobBills, InFlight, TypeInv, TypeOK, JobOK, Job
      <4>3. QED BY <2>2, <4>1, <4>2, AbandonKeeps
    <3>2. CASE job.pc # "advance"
      <4>1. PeriodsAt(disk, {}, cut) /\ cut \subseteq cut'
        BY <2>1, <3>2 DEF PeriodsInv, InFlight
      <4>2. QED BY <2>2, <4>1, CutKeeps
    <3>3. QED BY <3>1, <3>2
  <2>4. QED BY <2>1, <2>2, <2>3 DEF PeriodsInv, JobBills
<1>20. QED
  BY <1>1, <1>2, <1>3, <1>5, <1>6, <1>7, <1>8, <1>9, <1>10, <1>11, <1>12, <1>13, <1>14, <1>15,
     <1>16, <1>17, <1>18, <1>19, NextEffects, <1>0 DEF Effects

LEMMA PeriodsHold == Spec => []PeriodsInv
<1>1. TypeInv /\ SessionsOK /\ LedgerInv /\ CopiesInv /\ PeriodsInv /\ [Next]_vars => PeriodsInv'
  BY PeriodsNext
<1>2. QED BY <1>1, PeriodsInit, CopiesHold, PTL DEF Spec

(* RunBilling advances a period only behind an invoice for it: no instant  *)
(* of a priced account stays unbilled, in memory or on disk.               *)
THEOREM NothingSkipped == Spec => []NoPeriodSkipped
<1>1. PeriodsInv => NoPeriodSkipped
  BY DEF PeriodsInv, PeriodsAt, NoPeriodSkipped
<1>2. QED BY <1>1, PeriodsHold, PTL

(* RunBilling issues no two overlapping period invoices, unless it was cut *)
(* short between an invoice and the advance of its period.                 *)
THEOREM NothingBilledTwice == Spec => []BilledOnce
<1>1. PeriodsInv => BilledOnce
  BY DEF PeriodsInv, PeriodsAt, Once, BilledOnce
<1>2. QED BY <1>1, PeriodsHold, PTL

-----------------------------------------------------------------------------
(* Receipts: what is paid has its payment, what was answered 200 is on     *)
(* disk, what was charged is invoiced, and no tenant is suspended without  *)
(* a way back.                                                             *)

(* The moves of the ledger: what a step that is no crash does to invoices, *)
(* to payments and to the call that holds the lock.                        *)
CutAt(i) == <<"record", i>> \in cut
CutNow(i) == <<"record", i>> \in cut'
Between(i) == job.pc = "record" /\ job.inv = i

SameLedger == mem'.invoices = mem.invoices /\ mem'.payments = mem.payments
InvoiceAt(i, r) == mem'.invoices = [mem.invoices EXCEPT ![i] = r] /\ mem'.payments = mem.payments
PaymentAt(i) == mem'.payments = [mem.payments EXCEPT ![i] = @ + 1] /\ mem'.invoices = mem.invoices

Loops == /\ SameLedger /\ job.pc \in {"idle", "bill", "advance", "enforce"}
         /\ job'.pc \in {"idle", "bill", "enforce"}
Returns == SameLedger /\ job.pc = "reactivate" /\ job'.pc = "idle"
Opens(i, r) ==
  /\ i \notin drawn /\ i \in drawn' /\ InvoiceAt(i, r)
  /\ r.status = "open" /\ r.acct \in Accounts
  /\ \/ job.pc = "idle" /\ job' = job
     \/ job.pc = "bill" /\ job'.pc \in {"idle", "advance"}
MarksPaid(i) ==
  /\ job.pc = "idle" /\ IsOpen(i) /\ InvoiceAt(i, [mem.invoices[i] EXCEPT !.status = "paid"])
  /\ \/ CutNow(i) /\ job'.pc = "idle"
     \/ disk' = mem' /\ job'.pc = "record" /\ job'.inv = i
Charges(i) ==
  /\ job.pc = "bill" /\ i \notin drawn /\ PaymentAt(i)
  /\ job'.pc = "invoice" /\ job'.inv = i
Invoices(r) ==
  /\ job.pc = "invoice" /\ InvoiceAt(job.inv, r)
  /\ r.status = "paid" /\ r.acct \in Accounts
  /\ job'.pc \in {"idle", "advance"}
Records ==
  /\ job.pc = "record" /\ PaymentAt(job.inv)
  /\ \/ CutNow(job.inv) /\ job'.pc = "idle"
     \/ disk' = mem' /\ job'.pc = "reactivate" /\ job'.inv = job.inv /\ job'.via = job.via
Refers(i, s) ==
  /\ job.pc = "idle" /\ job' = job /\ IsOpen(i)
  /\ InvoiceAt(i, [mem.invoices[i] EXCEPT !.ref = s])

Move ==
  \/ SameLedger /\ job' = job
  \/ Loops \/ Returns \/ Records
  \/ \E i \in InvoiceIds, r \in InvoiceRec : Opens(i, r)
  \/ \E i \in InvoiceIds : MarksPaid(i) \/ Charges(i)
  \/ \E r \in InvoiceRec : Invoices(r)
  \/ \E i \in InvoiceIds, s \in Sessions : Refers(i, s)
Onward == cut \subseteq cut' /\ drawn \subseteq drawn' /\ (disk' = disk \/ disk' = mem')

LEMMA Moves ==
  ASSUME TypeInv, SessionsOK, [Next]_vars
  PROVE  Crash \/ (Onward /\ Move)
<1> DEFINE Goal == Crash \/ (Onward /\ Move)
<1> USE DEF TypeInv
<1>1. CASE Quiet
  BY <1>1 DEF Quiet, Onward, Move, SameLedger
<1>2. ASSUME NEW p \in Plans, NEW ok \in BOOLEAN, CreatePlan(p, ok) PROVE Goal
  BY <1>2, PlanWrite DEF CreatePlan, Onward, Move, SameLedger
<1>3. ASSUME NEW a \in Accounts, NEW p \in Plans, NEW ok \in BOOLEAN, CreateAccount(a, p, ok)
      PROVE  Goal
  BY <1>3, AccountWrite DEF CreateAccount, Onward, Move, SameLedger
<1>4. ASSUME NEW a \in Accounts, NEW st \in OperatorStatuses, NEW ok \in BOOLEAN,
             SetStatus(a, st, ok)
      PROVE  Goal
  BY <1>4, AccountWrite DEF SetStatus, SetsStatus, Onward, Move, SameLedger
<1>5. ASSUME NEW a \in Accounts, NEW i \in InvoiceIds, NEW ok \in BOOLEAN, IssueInvoice(a, i, ok)
      PROVE  Goal
  <2> DEFINE r == [acct |-> a, status |-> "open", start |-> now, end |-> now,
                   created |-> now, ref |-> None]
  <2>1. r \in InvoiceRec /\ r.status = "open" /\ r.acct \in Accounts
    BY DEF InvoiceRec, TypeOK
  <2> HIDE DEF r
  <2>2. /\ SaveInvoice(i, r, ok) /\ job' = job /\ job.pc = "idle" /\ cut' = cut
        /\ i \notin drawn /\ drawn' = drawn \cup {i}
    BY <1>5, IdlePc DEF IssueInvoice, Unlocked, r
  <2>3. InvoiceAt(i, r) /\ Onward
    BY <2>2, InvoiceWrite DEF InvoiceAt, Onward
  <2>4. Opens(i, r)
    BY <2>1, <2>2, <2>3 DEF Opens
  <2>5. QED
    BY <2>1, <2>3, <2>4 DEF Move
<1>6. ASSUME NEW i \in InvoiceIds, NEW via \in SUBSET Sessions, NEW ok \in BOOLEAN,
             Settle(i, via, ok)
      PROVE  Goal
  <2> DEFINE r == [mem.invoices[i] EXCEPT !.status = "paid"]
  <2>0. SaveInvoice(i, r, ok)
    BY <1>6 DEF Settle
  <2> HIDE DEF r
  <2>1. InvoiceAt(i, r) /\ disk' = IF ok THEN mem' ELSE disk
    BY <2>0, InvoiceWrite DEF InvoiceAt
  <2>2. job.pc = "idle" /\ IsOpen(i) /\ drawn' = drawn
    BY <1>6, IdlePc DEF Settle, Unlocked
  <2>3. cut' = IF ok THEN cut ELSE cut \cup {<<"record", i>>}
    BY <1>6 DEF Settle, CutUnless
  <2>4. job' = IF ok THEN [Idle EXCEPT !.pc = "record", !.inv = i, !.via = via] ELSE Idle
    BY <1>6 DEF Settle
  <2>5. /\ ok => job'.pc = "record" /\ job'.inv = i
        /\ ~ok => job'.pc = "idle"
    BY <2>4 DEF Idle
  <2>6. ~ok => <<"record", i>> \in cut'
    BY <2>3
  <2>7. \/ <<"record", i>> \in cut' /\ job'.pc = "idle"
        \/ disk' = mem' /\ job'.pc = "record" /\ job'.inv = i
    BY <2>1, <2>5, <2>6
  <2>8. MarksPaid(i)
    BY <2>1, <2>2, <2>7 DEF MarksPaid, CutNow, r
  <2>9. Onward
    BY <2>1, <2>2, <2>3 DEF Onward
  <2>10. QED
    BY <2>8, <2>9 DEF Move
<1>7. CASE StartBilling \/ StartEnforcement
  <2>1. UNCHANGED <<mem, disk, drawn, cut>> /\ job.pc = "idle"
    BY <1>7, IdlePc DEF StartBilling, StartEnforcement, Unlocked
  <2>2. job'.pc \in {"bill", "enforce"}
    BY <1>7 DEF StartBilling, StartEnforcement, Idle
  <2>3. QED
    BY <2>1, <2>2 DEF Onward, Move, Loops, SameLedger
<1>8. ASSUME NEW a \in Accounts, NEW i \in InvoiceIds, NEW ok \in BOOLEAN,
             ChargeCollected(a, i, ok)
      PROVE  Goal
  <2>1. PaymentAt(i) /\ (disk' = disk \/ disk' = mem')
    BY <1>8, PaymentWrite DEF ChargeCollected, PaymentAt
  <2>2. job.pc = "bill" /\ i \notin drawn /\ drawn' = drawn \cup {i} /\ cut' = cut
    BY <1>8 DEF ChargeCollected
  <2>3. job'.pc = "invoice" /\ job'.inv = i
    BY <1>8 DEF ChargeCollected, TypeOK, Job
  <2>4. QED
    BY <2>1, <2>2, <2>3 DEF Onward, Move, Charges
<1>9. ASSUME NEW a \in Accounts, NEW i \in InvoiceIds, NEW ok \in BOOLEAN,
             IssueOpenInvoice(a, i, ok)
      PROVE  Goal
  <2> DEFINE r == PeriodInvoice(a, "open")
  <2>1. r \in InvoiceRec /\ r.status = "open" /\ r.acct \in Accounts
    BY InvoiceType DEF PeriodInvoice
  <2> HIDE DEF r
  <2>2. /\ SaveInvoice(i, r, ok) /\ job.pc = "bill" /\ CutUnless(ok, "advance", a)
        /\ i \notin drawn /\ drawn' = drawn \cup {i}
    BY <1>9 DEF IssueOpenInvoice, r
  <2>3. InvoiceAt(i, r) /\ Onward
    BY <2>2, InvoiceWrite DEF InvoiceAt, Onward, CutUnless
  <2>4. job'.pc \in {"idle", "advance"}
    BY <1>9, IdlePc DEF IssueOpenInvoice, TypeOK, Job
  <2>5. Opens(i, r)
    BY <2>1, <2>2, <2>3, <2>4 DEF Opens
  <2>6. QED
    BY <2>1, <2>3, <2>5 DEF Move
<1>10. ASSUME NEW a \in Accounts, NEW ok \in BOOLEAN, SaveAdvanced(a, ok),
              job.pc \in {"bill", "advance"}
       PROVE  Goal
  <2>1. job.todo \ {a} \in SUBSET Accounts
    BY DEF TypeOK, Job
  <2>2. job'.pc \in {"idle", "bill", "enforce"}
    BY <1>10, <2>1, IdlePc, NextJobType DEF SaveAdvanced
  <2>3. SameLedger /\ Onward
    BY <1>10, AccountWrite DEF SaveAdvanced, SameLedger, Onward, CutUnless
  <2>4. QED
    BY <1>10, <2>2, <2>3 DEF Move, Loops
<1>11. ASSUME NEW a \in Accounts, NEW ok \in BOOLEAN, Suspend(a, ok) PROVE Goal
  <2>1. job.todo \ {a} \in SUBSET Accounts
    BY DEF TypeOK, Job
  <2>2. job'.pc \in {"idle", "bill", "enforce"} /\ job.pc = "enforce"
    BY <1>11, <2>1, NextJobType DEF Suspend
  <2>3. SameLedger /\ Onward
    BY <1>11, AccountWrite DEF Suspend, SameLedger, Onward
  <2>4. QED
    BY <2>2, <2>3 DEF Move, Loops
<1>12. ASSUME NEW ok \in BOOLEAN, IssuePaidInvoice(ok) PROVE Goal
  <2> DEFINE r == PeriodInvoice(job.acct, "paid")
  <2>0. job.pc = "invoice" /\ job.acct \in Accounts
    BY <1>12 DEF IssuePaidInvoice, JobOK, TypeOK, Job
  <2>1. r \in InvoiceRec /\ r.status = "paid" /\ r.acct \in Accounts
    BY <2>0, InvoiceType DEF PeriodInvoice
  <2> HIDE DEF r
  <2>2. SaveInvoice(job.inv, r, ok) /\ drawn' = drawn /\ CutUnless(ok, "advance", job.acct)
    BY <1>12 DEF IssuePaidInvoice, r
  <2>3. InvoiceAt(job.inv, r) /\ Onward
    BY <2>2, InvoiceWrite DEF InvoiceAt, Onward, CutUnless
  <2>4. job'.pc \in {"idle", "advance"}
    BY <1>12, IdlePc DEF IssuePaidInvoice, TypeOK, Job
  <2>5. QED
    BY <2>0, <2>1, <2>3, <2>4 DEF Move, Invoices
<1>13. ASSUME NEW ok \in BOOLEAN, RecordPayment(ok) PROVE Goal
  <2>1. PaymentAt(job.inv) /\ disk' = IF ok THEN mem' ELSE disk
    BY <1>13, PaymentWrite DEF RecordPayment, PaymentAt
  <2>2. job.pc = "record" /\ drawn' = drawn
    BY <1>13 DEF RecordPayment
  <2>3. cut' = IF ok THEN cut ELSE cut \cup {<<"record", job.inv>>}
    BY <1>13 DEF RecordPayment, CutUnless
  <2>4. /\ ok => job'.pc = "reactivate" /\ job'.inv = job.inv /\ job'.via = job.via
        /\ ~ok => job'.pc = "idle"
    BY <1>13, IdlePc DEF RecordPayment, TypeOK, Job
  <2>5. ~ok => <<"record", job.inv>> \in cut'
    BY <2>3
  <2>6. \/ <<"record", job.inv>> \in cut' /\ job'.pc = "idle"
        \/ disk' = mem' /\ job'.pc = "reactivate" /\ job'.inv = job.inv /\ job'.via = job.via
    BY <2>1, <2>4, <2>5
  <2>7. Onward
    BY <2>1, <2>2, <2>3 DEF Onward
  <2>8. QED
    BY <2>1, <2>2, <2>6, <2>7 DEF Move, Records, CutNow
<1>14. ASSUME NEW ok \in BOOLEAN, Reactivate(ok) PROVE Goal
  <2>1. SameLedger /\ Onward
    <3>1. /\ cut \subseteq cut' /\ drawn' = drawn
          /\ \E a, r : SaveAccount(a, r, ok)
      BY <1>14 DEF Reactivate, SetsStatus, CutUnless
    <3> QED BY <3>1, AccountWrite DEF SameLedger, Onward
  <2>2. QED
    BY <1>14, <2>1, IdlePc DEF Reactivate, Move, Returns
<1>15. CASE LeaveStatus
  BY <1>15, IdlePc DEF LeaveStatus, Move, Returns, SameLedger, Onward
<1>16. ASSUME NEW s \in Sessions, NEW ok \in BOOLEAN, session[s].inv \in InvoiceIds,
              RecordCheckout(s, ok)
       PROVE  Goal
  <2>1. PICK i \in InvoiceIds : i = session[s].inv
    BY <1>16
  <2>2. /\ SaveInvoice(i, [mem.invoices[i] EXCEPT !.ref = s], ok) /\ IsOpen(i)
        /\ UNCHANGED <<job, drawn, cut>> /\ job.pc = "idle"
    BY <1>16, <2>1, IdlePc DEF RecordCheckout, Unlocked
  <2>3. InvoiceAt(i, [mem.invoices[i] EXCEPT !.ref = s]) /\ Onward
    BY <2>2, InvoiceWrite DEF InvoiceAt, Onward
  <2>4. QED
    BY <2>2, <2>3 DEF Move, Refers
<1>17. QED
  BY <1>1, <1>2, <1>3, <1>4, <1>5, <1>6, <1>7, <1>8, <1>9, <1>10, <1>11, <1>12, <1>13, <1>14,
     <1>15, <1>16, NextEffects DEF Effects, AdvanceFree, AdvanceBilled, JobOK, TypeOK, Job

(* What a move does to one invoice: a paid invoice stays paid, a payment   *)
(* stays recorded, and only a charge under way, a settlement under way or  *)
(* one cut short may make an invoice paid.                                 *)
Keeps(i) ==
  /\ IsPaid(i) => IsPaid(i)'
  /\ mem.payments[i] = 1 => mem'.payments[i] = 1
  /\ IsPaid(i)' => IsPaid(i) \/ (job.pc = "invoice" /\ job.inv = i) \/ CutNow(i) \/ Between(i)'
  /\ Between(i) => job' = job \/ CutNow(i) \/ (disk' = mem' /\ mem'.payments[i] = 1)

LEMMA MoveKeeps ==
  ASSUME TypeInv, LedgerInv, Move, NEW i \in InvoiceIds
  PROVE  Keeps(i)
<1> USE DEF TypeInv
<1>0. /\ mem.invoices \in [InvoiceIds -> InvoiceRec]
      /\ mem.payments \in [InvoiceIds -> Nat]
      /\ \A j \in InvoiceIds : j \notin drawn => mem.invoices[j].status = "none" /\ mem.payments[j] = 0
  BY DEF TypeOK, Dataset, LedgerInv, LedgerAt, NoInvoice
<1>1. CASE SameLedger /\ (job' = job \/ Loops \/ Returns)
  BY <1>1 DEF SameLedger, Keeps, IsPaid, Between, Loops, Returns
<1>2. ASSUME NEW j \in InvoiceIds, NEW r \in InvoiceRec, Opens(j, r) PROVE Keeps(i)
  <2>1. /\ mem'.invoices = [mem.invoices EXCEPT ![j] = r]
        /\ mem'.payments = mem.payments /\ ~IsPaid(j) /\ r.status = "open" /\ job.pc # "record"
    BY <1>0, <1>2 DEF Opens, InvoiceAt, IsPaid
  <2>2. IsPaid(i)' <=> IsPaid(i)
    BY <1>0, <2>1 DEF IsPaid
  <2>3. QED
    BY <2>1, <2>2 DEF Keeps, Between
<1>3. ASSUME NEW j \in InvoiceIds, MarksPaid(j) PROVE Keeps(i)
  <2>1. /\ mem'.payments = mem.payments /\ job.pc = "idle"
        /\ mem'.invoices = [mem.invoices EXCEPT ![j] = [mem.invoices[j] EXCEPT !.status = "paid"]]
    BY <1>3 DEF MarksPaid, InvoiceAt
  <2>2. [mem.invoices[j] EXCEPT !.status = "paid"].status = "paid"
    BY <1>0 DEF InvoiceRec
  <2>3. /\ i # j => (IsPaid(i)' <=> IsPaid(i))
        /\ IsPaid(j)'
    BY <1>0, <2>1, <2>2 DEF IsPaid
  <2>4. CutNow(j) \/ Between(j)'
    BY <1>3 DEF MarksPaid, Between
  <2>5. QED
    BY <2>1, <2>3, <2>4 DEF Keeps, Between
<1>4. ASSUME NEW j \in InvoiceIds, Charges(j) PROVE Keeps(i)
  <2>1. /\ mem'.payments = [mem.payments EXCEPT ![j] = @ + 1]
        /\ mem'.invoices = mem.invoices /\ mem.payments[j] = 0 /\ job.pc = "bill"
    BY <1>0, <1>4 DEF Charges, PaymentAt
  <2>2. QED
    BY <1>0, <2>1 DEF Keeps, IsPaid, Between
<1>5. ASSUME NEW r \in InvoiceRec, Invoices(r) PROVE Keeps(i)
  <2>1. PICK j \in InvoiceIds : j = job.inv
    BY <1>5 DEF Invoices, JobOK
  <2>2. /\ mem'.invoices = [mem.invoices EXCEPT ![j] = r] /\ r.status = "paid"
        /\ mem'.payments = mem.payments /\ job.pc = "invoice"
    BY <1>5, <2>1 DEF Invoices, InvoiceAt
  <2>3. /\ i # j => (IsPaid(i)' <=> IsPaid(i))
        /\ IsPaid(j)'
    BY <1>0, <2>2 DEF IsPaid
  <2>4. QED
    BY <2>1, <2>2, <2>3 DEF Keeps, Between
<1>6. CASE Records
  <2>1. PICK j \in InvoiceIds : j = job.inv
    BY <1>6 DEF Records, JobOK
  <2>2. /\ mem'.payments = [mem.payments EXCEPT ![j] = @ + 1]
        /\ mem'.invoices = mem.invoices /\ mem.payments[j] = 0
        /\ CutNow(j) \/ disk' = mem'
    BY <1>6, <2>1 DEF Records, PaymentAt, LedgerInv, JobLedger
  <2>3. QED
    BY <1>0, <2>1, <2>2 DEF Keeps, IsPaid, Between
<1>7. ASSUME NEW j \in InvoiceIds, NEW s \in Sessions, Refers(j, s) PROVE Keeps(i)
  <2>1. /\ mem'.invoices = [mem.invoices EXCEPT ![j] = [mem.invoices[j] EXCEPT !.ref = s]]
        /\ mem'.payments = mem.payments /\ job' = job
    BY <1>7 DEF Refers, InvoiceAt
  <2>2. [mem.invoices[j] EXCEPT !.ref = s].status = mem.invoices[j].status
    BY <1>0 DEF InvoiceRec
  <2>3. IsPaid(i)' <=> IsPaid(i)
    BY <1>0, <2>1, <2>2 DEF IsPaid
  <2>4. QED
    BY <2>1, <2>3 DEF Keeps, Between
<1>8. QED
  BY <1>1, <1>2, <1>3, <1>4, <1>5, <1>6, <1>7 DEF Move, Loops, Returns

(* A call reaches the status of the tenant with the receipt on disk, and   *)
(* holds a new charge only for an invoice that was not drawn before.       *)
LEMMA MoveJob ==
  ASSUME TypeInv, TypeInv', LedgerInv, Move
  PROVE  /\ job'.pc = "reactivate" =>
              \/ job' = job
              \/ /\ job.pc = "record" /\ job'.inv = job.inv /\ job'.via = job.via
                 /\ Recorded(job.inv)'
         /\ job'.pc = "invoice" =>
              job' = job \/ (mem'.payments[job'.inv] = 1 /\ job'.inv \notin drawn)
<1> DEFINE Goal == /\ job'.pc = "reactivate" =>
                        \/ job' = job
                        \/ /\ job.pc = "record" /\ job'.inv = job.inv /\ job'.via = job.via
                           /\ Recorded(job.inv)'
                   /\ job'.pc = "invoice" =>
                        job' = job \/ (mem'.payments[job'.inv] = 1 /\ job'.inv \notin drawn)
<1> USE DEF TypeInv
<1>0. mem.payments \in [InvoiceIds -> Nat]
  BY DEF TypeOK, Dataset
<1>1. CASE job' = job
  BY <1>1
<1>2. CASE job'.pc \notin {"reactivate", "invoice"}
  BY <1>2
<1>3. CASE Records /\ job'.pc = "reactivate"
  <2>1. PICK j \in InvoiceIds : j = job.inv
    BY <1>3 DEF Records, JobOK
  <2>2. /\ mem'.payments = [mem.payments EXCEPT ![j] = @ + 1] /\ mem.payments[j] = 0
        /\ mem'.invoices = mem.invoices /\ mem.invoices[j].status = "paid"
    BY <1>3, <2>1 DEF Records, PaymentAt, LedgerInv, JobLedger
  <2>3. disk' = mem' /\ job'.inv = j /\ job'.via = job.via /\ job.pc = "record"
    BY <1>3, <2>1 DEF Records
  <2>4. mem'.payments[j] = 1
    BY <1>0, <2>2
  <2>5. Recorded(job.inv)'
    BY <2>2, <2>3, <2>4 DEF Recorded
  <2>6. QED
    BY <1>3, <2>1, <2>3, <2>5
<1>4. ASSUME NEW j \in InvoiceIds, Charges(j) PROVE Goal
  <2>1. mem'.payments = [mem.payments EXCEPT ![j] = @ + 1] /\ mem.payments[j] = 0
    BY <1>4 DEF Charges, PaymentAt, LedgerInv, LedgerAt
  <2>2. job'.inv = j /\ j \notin drawn /\ job'.pc = "invoice"
    BY <1>4 DEF Charges
  <2>3. QED
    BY <1>0, <2>1, <2>2
<1>5. QED
  BY <1>1, <1>2, <1>3, <1>4
    DEF Move, Loops, Returns, Records, Opens, MarksPaid, Invoices, Refers
-----------------------------------------------------------------------------
(* Receipts: beyond what is to be shown, a receipt on disk is in memory,   *)
(* and a charge and a settlement under way have left theirs.               *)
Receipt(m, i) == m.invoices[i].status = "paid" /\ m.payments[i] = 1
ReceiptsInv ==
  /\ PaidHasPayment
  /\ \A i \in InvoiceIds : disk.invoices[i].status = "paid" => IsPaid(i)
  /\ \A i \in InvoiceIds : Recorded(i) => Receipt(mem, i)
  /\ job.pc = "invoice" => mem.payments[job.inv] = 1
  /\ job.pc = "reactivate" => Recorded(job.inv)

LEMMA ReceiptsInit == Init => ReceiptsInv
BY IdlePc DEF Init, ReceiptsInv, PaidHasPayment, Receipted, IsPaid, Recorded, Receipt,
  EmptyDataset, NoInvoice

(* What is on disk stays there.                                            *)
LEMMA RecordedStays ==
  ASSUME TypeInv, LedgerInv, ReceiptsInv, Crash \/ (Onward /\ Move), NEW i \in InvoiceIds
  PROVE  /\ Recorded(i) => Recorded(i)'
         /\ disk.invoices[i].status = "paid" => disk'.invoices[i].status = "paid"
<1>1. CASE Crash
  BY <1>1 DEF Crash, Recorded
<1>2. CASE Onward /\ Move
  BY <1>2, MoveKeeps DEF Onward, Keeps, ReceiptsInv, Receipt, Recorded, IsPaid
<1>3. QED
  BY <1>1, <1>2

LEMMA CrashCuts ==
  ASSUME Crash, NEW i, Between(i)
  PROVE  CutNow(i)
BY DEF Crash, Untaken, Between, CutNow

LEMMA ReceiptsNext ==
  ASSUME TypeInv, SessionsOK, LedgerInv, ReceiptsInv, [Next]_vars
  PROVE  ReceiptsInv'
<1>0. TypeInv' /\ (Crash \/ (Onward /\ Move))
  BY NextType, Moves DEF TypeInv
<1>1. CASE Crash
  <2>1. mem' = disk /\ disk' = disk /\ job'.pc = "idle" /\ cut \subseteq cut'
    BY <1>1, IdlePc DEF Crash
  <2>2. Receipted(disk)'
    BY <1>1, <2>1, CrashCuts DEF ReceiptsInv, PaidHasPayment, Receipted, Between, CutNow
  <2>3. Receipted(mem)'
    BY <2>1, <2>2 DEF Receipted
  <2>4. QED
    BY <2>1, <2>2, <2>3 DEF ReceiptsInv, PaidHasPayment, IsPaid, Recorded, Receipt
<1>2. CASE Onward /\ Move
  <2>0. /\ \A i \in InvoiceIds : Keeps(i)
        /\ cut \subseteq cut' /\ (disk' = disk \/ disk' = mem')
    BY <1>2, MoveKeeps DEF Onward
  <2>1. ASSUME NEW i \in InvoiceIds, IsPaid(i)'
        PROVE  mem'.payments[i] = 1 \/ CutAt(i)' \/ Between(i)'
    <3>1. CASE ~IsPaid(i)
      BY <2>0, <2>1, <3>1 DEF Keeps, ReceiptsInv, CutNow, CutAt
    <3>2. CASE IsPaid(i)
      <4>1. mem.payments[i] = 1 \/ CutAt(i) \/ Between(i)
        BY <3>2 DEF ReceiptsInv, PaidHasPayment, Receipted, IsPaid, CutAt, Between
      <4>2. QED
        BY <2>0, <4>1 DEF Keeps, CutNow, CutAt, Between
    <3>3. QED
      BY <3>1, <3>2
  <2>2. Receipted(mem)'
    BY <2>1 DEF Receipted, IsPaid, CutAt, Between
  <2>3. Receipted(disk)'
    <3>1. CASE disk' = mem'
      BY <2>2, <3>1 DEF Receipted
    <3>2. ASSUME NEW i \in InvoiceIds, disk' = disk, disk.invoices[i].status = "paid"
          PROVE  disk.payments[i] = 1 \/ CutAt(i)' \/ Between(i)'
      <4>1. disk.payments[i] = 1 \/ CutAt(i) \/ Between(i)
        BY <3>2 DEF ReceiptsInv, PaidHasPayment, Receipted, CutAt, Between
      <4>2. QED
        BY <2>0, <3>2, <4>1 DEF Keeps, CutNow, CutAt, Between
    <3>3. QED
      BY <2>0, <3>1, <3>2 DEF Receipted, CutAt, Between
  <2>4. \A i \in InvoiceIds : disk'.invoices[i].status = "paid" => IsPaid(i)'
    BY <2>0 DEF Keeps, ReceiptsInv, IsPaid
  <2>5. \A i \in InvoiceIds : Recorded(i)' => Receipt(mem, i)'
    BY <2>0 DEF Keeps, ReceiptsInv, IsPaid, Recorded, Receipt
  <2>6. job'.pc = "invoice" => mem'.payments[job'.inv] = 1
    BY <1>0, <1>2, <2>0, MoveJob DEF Keeps, ReceiptsInv, TypeInv, JobOK
  <2>7. job'.pc = "reactivate" => Recorded(job.inv)'
    BY <1>0, <1>2, <2>0, MoveJob, RecordedStays DEF ReceiptsInv, TypeInv, JobOK, Recorded
  <2>8. QED
    BY <2>2, <2>3, <2>4, <2>5, <2>6, <2>7 DEF ReceiptsInv, PaidHasPayment
<1>3. QED
  BY <1>0, <1>1, <1>2

LEMMA ReceiptsHold == Spec => [](TypeInv /\ SessionsOK /\ LedgerInv /\ ReceiptsInv)
<1>1. TypeInv /\ SessionsOK /\ LedgerInv /\ ReceiptsInv /\ [Next]_vars => ReceiptsInv'
  BY ReceiptsNext
<1>2. QED
  BY <1>1, ReceiptsInit, Invariants, PTL DEF Spec

(* settleLocked marks an invoice paid in one write and saves its payment   *)
(* in the next: an invoice is paid without a payment, in memory or on      *)
(* disk, only between the two or after one of them was not reached.        *)
THEOREM PaidIsReceipted == Spec => []PaidHasPayment
<1>1. ReceiptsInv => PaidHasPayment
  BY DEF ReceiptsInv
<1>2. QED
  BY <1>1, ReceiptsHold, PTL

(* No handler opens a paid invoice again: not one that saves a copy it     *)
(* read before the provider was called, nor one that writes it twice.      *)
THEOREM PaidStaysPaid == Spec => PaidIsFinal
<1> DEFINE Final == \A i \in InvoiceIds :
             /\ disk.invoices[i].status = "paid" => disk'.invoices[i].status = "paid"
             /\ mem.invoices[i].status = "paid" => mem'.invoices[i].status = "paid" \/ mem' = disk
<1>1. TypeInv /\ SessionsOK /\ LedgerInv /\ ReceiptsInv /\ [Next]_vars => [Final]_vars
  <2> SUFFICES ASSUME TypeInv, SessionsOK, LedgerInv, ReceiptsInv, [Next]_vars PROVE Final
    OBVIOUS
  <2>1. Crash \/ (Onward /\ Move)
    BY Moves
  <2>2. CASE Crash
    BY <2>2 DEF Crash
  <2>3. CASE Onward /\ Move
    BY <2>3, MoveKeeps, RecordedStays DEF Keeps, IsPaid
  <2>4. QED
    BY <2>1, <2>2, <2>3
<1> HIDE DEF Final
<1>2. Spec => [][Final]_vars
  BY <1>1, ReceiptsHold, PTL DEF Spec
<1>3. QED
  BY <1>2 DEF PaidIsFinal, Final
-----------------------------------------------------------------------------
(* What a step that is no crash does to a checkout s.                      *)
StillDataset == UNCHANGED <<mem, disk, job, drawn, cut>>
Starts(s) == StillDataset /\ session'[s].state = "asked" /\ IsOpen(session'[s].inv)
Acks(s) == \/ job.pc = "reactivate" /\ s \in job.via
           \/ Unlocked /\ session[s].state = "collected" /\ IsPaid(session[s].inv) /\ StillDataset
StaysVia(s) == /\ s \in job.via
               /\ \/ job' = job \/ job'.pc \notin {"record", "reactivate"}
                  \/ job.pc = "record" /\ job'.inv = job.inv
ViaMove(s) == s \in job'.via => StaysVia(s) \/ session'[s].inv = job'.inv
SessionMove(s) ==
  /\ \/ session'[s].state = "none" \/ Starts(s)
     \/ session[s].state # "none" /\ session'[s].inv = session[s].inv
  /\ session'[s].state = "acked" => session[s].state = "acked" \/ Acks(s)
  /\ ViaMove(s)

LEMMA SessionMoves ==
  ASSUME TypeInv, SessionsOK, [Next]_vars, NEW s \in Sessions
  PROVE  Crash \/ SessionMove(s)
<1> DEFINE Goal == Crash \/ SessionMove(s)
<1> USE DEF TypeInv
<1>0. session \in [Sessions -> SessionRec] /\ Idle.via = {} /\ job \in Job
  BY DEF TypeOK, Idle
<1>1. ASSUME session' = session, ViaMove(s) PROVE Goal
  BY <1>0, <1>1 DEF SessionMove, SessionRec
<1>2. ASSUME session' = session, job'.via \subseteq job.via,
             job'.pc \notin {"record", "reactivate"}
      PROVE  Goal
  BY <1>1, <1>2 DEF ViaMove, StaysVia
<1>3. ASSUME UNCHANGED job PROVE ViaMove(s)
  BY <1>3 DEF ViaMove, StaysVia
<1>4. ASSUME NEW t \in Sessions, NEW i \in InvoiceIds, StartCheckout(t, i) PROVE Goal
  <2>1. /\ StillDataset /\ IsOpen(i)
        /\ session' = [session EXCEPT ![t] = [state |-> "asked", inv |-> i]]
    BY <1>4 DEF StartCheckout, StillDataset
  <2>2. t # s => session'[s] = session[s]
    BY <1>0, <2>1
  <2>3. t = s => Starts(s)
    BY <1>0, <2>1 DEF Starts
  <2>4. ViaMove(s)
    BY <1>3, <2>1 DEF StillDataset
  <2>5. QED
    BY <2>2, <2>3, <2>4 DEF SessionMove, Starts
<1>5. ASSUME NEW t \in Sessions, NEW st \in {"open", "collected"}, session[t].state # "none",
             session' = [session EXCEPT ![t].state = st], UNCHANGED job
      PROVE  Goal
  <2>1. \/ session'[s] = session[s]
        \/ s = t /\ session'[s].inv = session[s].inv /\ session'[s].state = st
    BY <1>0, <1>5 DEF SessionRec
  <2>2. ViaMove(s)
    BY <1>3, <1>5
  <2>3. QED
    BY <1>5, <2>1, <2>2 DEF SessionMove
<1>6. ASSUME NEW t \in Sessions,
             \/ \E ok \in BOOLEAN : RecordCheckout(t, ok)
             \/ SkipRecordCheckout(t) \/ CustomerPays(t)
      PROVE  Goal
  BY <1>5, <1>6 DEF RecordCheckout, SkipRecordCheckout, CustomerPays
<1>7. ASSUME NEW t \in Sessions, ProviderFails(t) PROVE Goal
  <2>1. session'[s] = session[s] \/ session'[s].state = "none"
    BY <1>0, <1>7 DEF ProviderFails, NoSession
  <2>2. ViaMove(s)
    BY <1>3, <1>7 DEF ProviderFails
  <2>3. QED
    BY <2>1, <2>2 DEF SessionMove
<1>8. ASSUME NEW S \in SUBSET Sessions, Acknowledge(S), s \in S => Acks(s), ViaMove(s)
      PROVE  Goal
  <2>1. /\ s \notin S => session'[s] = session[s]
        /\ s \in S => session'[s] = [session[s] EXCEPT !.state = "acked"]
    BY <1>8 DEF Acknowledge
  <2>2. session'[s].inv = session[s].inv /\ (s \notin S => session'[s] = session[s])
    BY <1>0, <2>1 DEF SessionRec
  <2>3. s \in S => session[s].state # "none" /\ Acks(s)
    BY <1>8, <1>0 DEF Acks, SessionsOK
  <2>4. CASE s \in S
    BY <1>8, <2>2, <2>3, <2>4 DEF SessionMove
  <2>5. CASE s \notin S
    BY <1>0, <1>8, <2>2, <2>5 DEF SessionMove
  <2>6. QED
    BY <2>4, <2>5
<1>9. ASSUME NEW i \in InvoiceIds, NEW via, via = {} \/ \E t \in Sessions :
               via = {t} /\ session[t].inv = i, NEW ok \in BOOLEAN, Settle(i, via, ok)
      PROVE  Goal
  <2>1. session' = session
    BY <1>9 DEF Settle
  <2>2. job'.via = {} \/ (job'.via = via /\ job'.inv = i)
    BY <1>0, <1>9 DEF Settle, Idle
  <2>3. QED
    BY <1>1, <1>9, <2>1, <2>2 DEF ViaMove
<1>10. ASSUME NEW t \in Sessions, Webhook(t) PROVE Goal
  <2>1. CASE AckWebhook(t)
    <3>1. /\ Acknowledge({t}) /\ ViaMove(s)
          /\ s = t => Acks(s)
      BY <1>3, <2>1 DEF AckWebhook, Acks, StillDataset
    <3>2. QED
      BY <1>8, <3>1
  <2>2. ASSUME NEW ok \in BOOLEAN, HandleWebhook(t, ok) PROVE Goal
    BY <1>9, <2>2 DEF HandleWebhook, SessionsOK
  <2>3. QED
    BY <1>10, <2>1, <2>2 DEF Webhook
<1>11. CASE JobStep
  <2>1. \A rest \in SUBSET Accounts :
          NextJob(rest).via \subseteq job.via /\ NextJob(rest).pc \in {"idle", "bill", "enforce"}
    BY <1>0, NextJobType DEF NextJob, Job
  <2>2. \A a : job.todo \ {a} \in SUBSET Accounts
    BY <1>0 DEF Job
  <2>3. ASSUME NEW a \in Accounts, NEW i \in InvoiceIds, NEW ok \in BOOLEAN,
               ChargeCollected(a, i, ok)
        PROVE  Goal
    <3>1. session' = session /\ job'.via = job.via /\ job'.pc = "invoice"
      BY <1>0, <2>3 DEF ChargeCollected, Job
    <3>2. QED
      BY <1>2, <3>1
  <2>4. ASSUME NEW a \in Accounts, NEW i \in InvoiceIds, NEW ok \in BOOLEAN,
               IssueOpenInvoice(a, i, ok)
        PROVE  Goal
    <3>1. session' = session /\ job'.via \subseteq job.via /\ job'.pc \in {"advance", "idle"}
      BY <1>0, <2>4, IdlePc DEF IssueOpenInvoice, Job
    <3>2. QED
      BY <1>2, <3>1
  <2>5. ASSUME NEW a, NEW ok \in BOOLEAN, SaveAdvanced(a, ok) \/ Suspend(a, ok) PROVE Goal
    <3>1. session' = session /\ job' \in {Idle, NextJob(job.todo \ {a})}
      BY <2>5 DEF SaveAdvanced, Suspend
    <3>2. job'.via \subseteq job.via /\ job'.pc \in {"idle", "bill", "enforce"}
      BY <1>0, <2>1, <2>2, <3>1, IdlePc
    <3>3. QED
      BY <1>2, <3>1, <3>2
  <2>6. ASSUME NEW ok \in BOOLEAN, IssuePaidInvoice(ok) PROVE Goal
    <3>1. session' = session /\ job'.via \subseteq job.via /\ job'.pc \in {"advance", "idle"}
      BY <1>0, <2>6, IdlePc DEF IssuePaidInvoice, Job
    <3>2. QED
      BY <1>2, <3>1
  <2>7. ASSUME NEW ok \in BOOLEAN, RecordPayment(ok) PROVE Goal
    <3>1. session' = session /\ job.pc = "record"
      BY <2>7 DEF RecordPayment
    <3>2. job'.via = {} \/ (job'.via = job.via /\ job'.inv = job.inv)
      BY <1>0, <2>7 DEF RecordPayment, Job
    <3>3. QED
      BY <1>1, <3>1, <3>2 DEF ViaMove, StaysVia
  <2>8. ASSUME Acknowledge(job.via), job.pc = "reactivate", job' = Idle PROVE Goal
    <3>1. ViaMove(s)
      BY <1>0, <2>8 DEF ViaMove
    <3>2. job.via \in SUBSET Sessions
      BY <1>0 DEF Job
    <3>3. QED
      BY <1>8, <2>8, <3>1, <3>2 DEF Acks
  <2>9. QED
    BY <1>11, <2>3, <2>4, <2>5, <2>6, <2>7, <2>8
      DEF JobStep, AdvanceFree, AdvanceBilled, Reactivate, LeaveStatus
<1>12. CASE UNCHANGED vars \/ Tick
  BY <1>1, <1>3, <1>12 DEF vars, Tick
<1>13. CASE \/ \E p \in Plans, ok \in BOOLEAN : CreatePlan(p, ok)
            \/ \E a \in Accounts, p \in Plans, ok \in BOOLEAN : CreateAccount(a, p, ok)
            \/ \E a \in Accounts, st \in OperatorStatuses, ok \in BOOLEAN : SetStatus(a, st, ok)
            \/ \E a \in Accounts, i \in InvoiceIds, ok \in BOOLEAN : IssueInvoice(a, i, ok)
  BY <1>1, <1>3, <1>13 DEF CreatePlan, CreateAccount, SetStatus, IssueInvoice
<1>14. CASE StartBilling \/ StartEnforcement
  <2>1. session' = session /\ job'.via = {} /\ job'.pc \in {"bill", "enforce"}
    BY <1>0, <1>14 DEF StartBilling, StartEnforcement, Idle
  <2>2. QED
    BY <1>2, <2>1
<1>15. ASSUME NEW i \in InvoiceIds, NEW ok \in BOOLEAN, PayInvoice(i, ok) PROVE Goal
  BY <1>9, <1>15 DEF PayInvoice
<1>16. QED
  BY <1>4, <1>6, <1>7, <1>10, <1>11, <1>12, <1>13, <1>14, <1>15 DEF Next, ServiceStep

(* Checkouts: one is only asked for an invoice that was drawn and is not   *)
(* being charged, and once its invoice is paid the receipt is on disk, or  *)
(* under way, or was cut short.                                            *)
Covered(i) == Recorded(i) \/ CutAt(i) \/ Between(i)
AckInv ==
  /\ AckedIsRecorded
  /\ \A s \in Sessions : session[s].state # "none" =>
       /\ session[s].inv \in drawn
       /\ IsPaid(session[s].inv) => Covered(session[s].inv)
       /\ job.pc = "invoice" => session[s].inv # job.inv
  /\ job.pc \in {"record", "reactivate"} => \A s \in job.via : session[s].inv = job.inv

LEMMA AckInit == Init => AckInv
BY IdlePc DEF Init, AckInv, AckedIsRecorded, NoSession

LEMMA AckNext ==
  ASSUME TypeInv, SessionsOK, LedgerInv, ReceiptsInv, AckInv, [Next]_vars
  PROVE  AckInv'
<1>0. TypeInv' /\ SessionsOK' /\ (Crash \/ (Onward /\ Move))
  BY NextType, NextSessions, Moves DEF TypeInv
<1>1. CASE Crash
  <2>1. mem' = disk /\ disk' = disk /\ drawn' = drawn /\ job'.pc = "idle" /\ cut \subseteq cut'
    BY <1>1, IdlePc DEF Crash
  <2>2. ASSUME NEW s \in Sessions, session'[s].state # "none" PROVE session'[s] = session[s]
    BY <1>1, <2>2 DEF Crash, NoSession
  <2>3. ASSUME NEW s \in Sessions, session'[s].state # "none"
        PROVE  /\ session'[s].inv \in drawn'
               /\ IsPaid(session[s].inv)' => Covered(session[s].inv)'
    <3>1. PICK i \in InvoiceIds : i = session[s].inv /\ i = session'[s].inv
      BY <2>2, <2>3 DEF SessionsOK
    <3>2. i \in drawn /\ (IsPaid(i) => Covered(i))
      BY <2>2, <2>3, <3>1 DEF AckInv
    <3>3. disk.invoices[i].status = "paid" => Covered(i)
      BY <3>2 DEF ReceiptsInv
    <3>4. IsPaid(i)' => Recorded(i)' \/ CutAt(i)'
      BY <1>1, <2>1, <3>3, CrashCuts DEF Covered, IsPaid, Recorded, CutAt, CutNow
    <3>5. QED
      BY <2>1, <3>1, <3>2, <3>4 DEF Covered, IsPaid, Recorded, CutAt
  <2>4. AckedIsRecorded'
    BY <2>1, <2>2 DEF AckInv, AckedIsRecorded, Recorded
  <2>5. QED
    BY <2>1, <2>3, <2>4 DEF AckInv
<1>2. CASE Onward /\ Move /\ ~Crash
  <2>0. /\ \A s \in Sessions : SessionMove(s)
        /\ \A i \in InvoiceIds : Keeps(i) /\ (Recorded(i) => Recorded(i)')
        /\ cut \subseteq cut' /\ drawn \subseteq drawn'
    BY <1>2, SessionMoves, MoveKeeps, RecordedStays DEF Onward
  <2>1. ASSUME NEW i \in InvoiceIds, IsPaid(i) => Covered(i), IsPaid(i)',
               ~(job.pc = "invoice" /\ job.inv = i)
        PROVE  Covered(i)'
    <3>1. Keeps(i) /\ (Recorded(i) => Recorded(i)')
      BY <2>0
    <3>2. CASE ~IsPaid(i)
      BY <2>1, <3>1, <3>2 DEF Keeps, Covered, CutNow, CutAt
    <3>3. CASE Recorded(i) \/ CutAt(i)
      BY <2>0, <3>1, <3>3 DEF Covered, CutAt
    <3>4. CASE Between(i)
      <4>1. job' = job \/ CutNow(i) \/ (disk' = mem' /\ mem'.payments[i] = 1)
        BY <3>1, <3>4 DEF Keeps
      <4>2. QED
        BY <2>1, <3>4, <4>1 DEF Covered, CutNow, CutAt, Between, Recorded, IsPaid
    <3>5. QED
      BY <2>1, <3>2, <3>3, <3>4 DEF Covered
  <2>2. ASSUME NEW s \in Sessions, Starts(s)
        PROVE  /\ session'[s].inv \in drawn'
               /\ ~IsPaid(session[s].inv)'
               /\ job'.pc = "invoice" => session'[s].inv # job'.inv
    <3>1. PICK i \in InvoiceIds : i = session'[s].inv
      BY <1>0, <2>2 DEF Starts, SessionsOK
    <3>2. mem.invoices[i].status = "open" /\ mem' = mem /\ job' = job
      BY <2>2, <3>1 DEF Starts, StillDataset, IsOpen
    <3>3. i \in drawn /\ (job.pc = "invoice" => job.inv # i)
      BY <3>2 DEF LedgerInv, LedgerAt, JobLedger, NoInvoice
    <3>4. QED
      BY <2>0, <3>1, <3>2, <3>3 DEF IsPaid
  <2>3. ASSUME NEW s \in Sessions, session[s].state # "none", session'[s].inv = session[s].inv
        PROVE  /\ session'[s].inv \in drawn'
               /\ IsPaid(session[s].inv)' => Covered(session[s].inv)'
               /\ job'.pc = "invoice" => session'[s].inv # job'.inv
    <3>1. PICK i \in InvoiceIds : i = session[s].inv /\ i = session'[s].inv
      BY <2>3 DEF SessionsOK
    <3>2. i \in drawn /\ (IsPaid(i) => Covered(i)) /\ (job.pc = "invoice" => job.inv # i)
      BY <2>3, <3>1 DEF AckInv
    <3>3. IsPaid(i)' => Covered(i)'
      BY <2>1, <3>2
    <3>4. job'.pc = "invoice" => job'.inv # i
      BY <1>0, <1>2, <3>2, MoveJob
    <3>5. i \in drawn'
      BY <2>0, <3>2
    <3>6. IsPaid(session[s].inv)' => Covered(session[s].inv)'
      BY <3>1, <3>3 DEF IsPaid, Covered, Recorded, CutAt, Between
    <3>7. QED
      BY <3>1, <3>4, <3>5, <3>6
  <2>4. ASSUME NEW s \in Sessions, session'[s].state = "acked"
        PROVE  Recorded(session[s].inv)' \/ <<"record", session'[s].inv>> \in cut'
    <3>1. /\ session'[s].inv = session[s].inv /\ session[s].state # "none"
          /\ session[s].state = "acked" \/ Acks(s)
      BY <2>0, <2>4 DEF SessionMove, Starts
    <3>2. PICK i \in InvoiceIds : i = session[s].inv /\ i = session'[s].inv
      BY <3>1 DEF SessionsOK
    <3>3. Recorded(i) \/ CutAt(i)
      <4>1. CASE session[s].state = "acked"
        BY <3>2, <4>1 DEF AckInv, AckedIsRecorded, CutAt
      <4>2. CASE job.pc = "reactivate" /\ s \in job.via
        BY <3>2, <4>2 DEF AckInv, ReceiptsInv
      <4>3. CASE Unlocked /\ IsPaid(session[s].inv)
        BY <3>1, <3>2, <4>3, IdlePc DEF AckInv, Covered, Unlocked, Between
      <4>4. QED
        BY <3>1, <4>1, <4>2, <4>3 DEF Acks
    <3>4. Recorded(i)' \/ <<"record", i>> \in cut'
      BY <2>0, <3>3 DEF CutAt
    <3>5. QED
      BY <3>2, <3>4 DEF Recorded
  <2>5. ASSUME NEW s \in job'.via, job'.pc \in {"record", "reactivate"}
        PROVE  session'[s].inv = job'.inv
    <3>1. s \in Sessions /\ session'[s].state \in {"collected", "acked"}
      BY <1>0, <2>5 DEF SessionsOK, TypeInv, TypeOK, Job
    <3>2. session'[s].inv = session[s].inv /\ (StaysVia(s) \/ session'[s].inv = job'.inv)
      BY <2>0, <2>5, <3>1 DEF SessionMove, ViaMove, Starts
    <3>3. QED
      BY <2>5, <3>2 DEF StaysVia, AckInv
  <2>6. \A s \in Sessions : session'[s].state # "none" =>
          Starts(s) \/ (session[s].state # "none" /\ session'[s].inv = session[s].inv)
    BY <2>0 DEF SessionMove
  <2>7. QED
    BY <2>2, <2>3, <2>4, <2>5, <2>6 DEF AckInv, AckedIsRecorded
<1>3. QED
  BY <1>0, <1>1, <1>2

LEMMA AckHold == Spec => []AckInv
<1>1. TypeInv /\ SessionsOK /\ LedgerInv /\ ReceiptsInv /\ AckInv /\ [Next]_vars => AckInv'
  BY AckNext
<1>2. QED
  BY <1>1, AckInit, ReceiptsHold, PTL DEF Spec

(* When a provider's callback has been answered 200, and so will not come  *)
(* again, the snapshot on disk holds the paid invoice and its payment: no  *)
(* crash loses money a provider was told has arrived, unless settleLocked  *)
(* was cut short on that invoice.                                          *)
THEOREM AckedStaysRecorded == Spec => []AckedIsRecorded
<1>1. AckInv => AckedIsRecorded
  BY DEF AckInv
<1>2. QED
  BY <1>1, AckHold, PTL
-----------------------------------------------------------------------------
(* Money received: a charge under way aside, each crash may take away the  *)
(* one invoice whose payment was saved just before, and what is on disk is *)
(* behind by at most the one that memory holds and a write failed to save. *)
Unbilled(m) == {i \in InvoiceIds : m.payments[i] > 0 /\ m.invoices[i].status = "none"}
OrphanInv ==
  /\ IsFiniteSet(Orphaned(mem)) /\ Cardinality(Orphaned(mem)) <= crashes
  /\ IsFiniteSet(Unbilled(disk)) /\ Cardinality(Unbilled(disk)) <= crashes + 1
  /\ failures = 0 => disk = mem

LEMMA OrphanInit == Init => OrphanInv
<1> SUFFICES ASSUME Init PROVE OrphanInv
  OBVIOUS
<1>1. Orphaned(mem) = {} /\ Unbilled(disk) = {}
  BY DEF Init, Orphaned, Unbilled, EmptyDataset
<1>2. QED
  BY <1>1, FS_EmptySet DEF Init, OrphanInv

(* A step crashes, or leaves the dataset, or saves it, or fails to.        *)
LEMMA WritesOrFails ==
  ASSUME TypeInv, [Next]_vars
  PROVE  \/ Crash
         \/ /\ crashes' = crashes
            /\ disk' = mem' \/ UNCHANGED <<mem, disk, failures>> \/ failures' # 0
<1> DEFINE Goal == \/ Crash
                   \/ /\ crashes' = crashes
                      /\ disk' = mem' \/ UNCHANGED <<mem, disk, failures>> \/ failures' # 0
<1>1. ASSUME NEW m, NEW ok \in BOOLEAN, Write(m, ok), crashes' = crashes PROVE Goal
  BY <1>1 DEF Write, TypeInv, TypeOK
<1>2. ASSUME UNCHANGED <<mem, disk, failures, crashes>> PROVE Goal
  BY <1>2
<1> SUFFICES Goal
  OBVIOUS
<1> HIDE DEF Goal
<1> USE DEF SavePlan, SaveAccount, SaveInvoice, SavePayment, SetsStatus
<1>3. CASE \/ \E p \in Plans, ok \in BOOLEAN : CreatePlan(p, ok)
           \/ \E a \in Accounts, p \in Plans, ok \in BOOLEAN : CreateAccount(a, p, ok)
           \/ \E a \in Accounts, st \in OperatorStatuses, ok \in BOOLEAN : SetStatus(a, st, ok)
  BY <1>1, <1>3 DEF CreatePlan, CreateAccount, SetStatus
<1>4. CASE \/ \E a \in Accounts, i \in InvoiceIds, ok \in BOOLEAN : IssueInvoice(a, i, ok)
           \/ \E s \in Sessions, ok \in BOOLEAN : RecordCheckout(s, ok)
  BY <1>1, <1>4 DEF IssueInvoice, RecordCheckout
<1>5. ASSUME NEW i, NEW via, NEW ok \in BOOLEAN, Settle(i, via, ok) PROVE Goal
  BY <1>1, <1>5 DEF Settle
<1>6. CASE JobStep
  <2>1. ASSUME NEW a \in Accounts, NEW i \in InvoiceIds, NEW ok \in BOOLEAN,
               ChargeCollected(a, i, ok) \/ IssueOpenInvoice(a, i, ok)
        PROVE  Goal
    BY <1>1, <2>1 DEF ChargeCollected, IssueOpenInvoice
  <2>2. ASSUME NEW a, NEW ok \in BOOLEAN, SaveAdvanced(a, ok) \/ Suspend(a, ok) PROVE Goal
    BY <1>1, <2>2 DEF SaveAdvanced, Suspend
  <2>3. ASSUME NEW ok \in BOOLEAN, IssuePaidInvoice(ok) \/ RecordPayment(ok) PROVE Goal
    BY <1>1, <2>3 DEF IssuePaidInvoice, RecordPayment
  <2>4. ASSUME NEW ok \in BOOLEAN, Reactivate(ok) PROVE Goal
    BY <1>1, <2>4 DEF Reactivate
  <2>5. CASE LeaveStatus
    BY <1>2, <2>5 DEF LeaveStatus
  <2>6. QED
    BY <1>6, <2>1, <2>2, <2>3, <2>4, <2>5 DEF JobStep, AdvanceFree, AdvanceBilled
<1>7. CASE \E s \in Sessions : SkipRecordCheckout(s) \/ ProviderFails(s) \/ CustomerPays(s)
  BY <1>2, <1>7 DEF SkipRecordCheckout, ProviderFails, CustomerPays
<1>8. CASE \E s \in Sessions : Webhook(s)
  BY <1>2, <1>5, <1>8 DEF Webhook, AckWebhook, HandleWebhook
<1>9. CASE \E s \in Sessions, i \in InvoiceIds : StartCheckout(s, i)
  BY <1>2, <1>9 DEF StartCheckout
<1>10. CASE UNCHANGED vars \/ StartBilling \/ StartEnforcement \/ Tick
  BY <1>2, <1>10 DEF vars, StartBilling, StartEnforcement, Tick
<1>11. CASE \E i \in InvoiceIds, ok \in BOOLEAN : PayInvoice(i, ok)
  BY <1>5, <1>11 DEF PayInvoice
<1>12. ASSUME NEW s \in Sessions, SkipRecordCheckout(s) PROVE Goal
  BY <1>7, <1>12
<1>13. CASE ServiceStep
  BY <1>3, <1>4, <1>6, <1>10, <1>11, <1>12, <1>13 DEF ServiceStep
<1>14. ASSUME NEW s \in Sessions, ProviderFails(s) \/ CustomerPays(s) PROVE Goal
  BY <1>7, <1>14
<1>15. CASE Crash
  BY <1>15 DEF Goal
<1>16. QED
  BY <1>8, <1>9, <1>10, <1>13, <1>14, <1>15 DEF Next

(* A payment is saved by a call that goes on to its invoice, and an        *)
(* invoice once issued stays: no move orphans a payment.                   *)
LEMMA MoveOrphans ==
  ASSUME TypeInv, LedgerInv, Move
  PROVE  Orphaned(mem)' \subseteq Orphaned(mem)
<1> SUFFICES ASSUME NEW i \in InvoiceIds, i \in Orphaned(mem)' PROVE i \in Orphaned(mem)
  BY DEF Orphaned
<1> USE DEF TypeInv
<1>0. /\ mem.invoices \in [InvoiceIds -> InvoiceRec]
      /\ mem.payments \in [InvoiceIds -> Nat]
      /\ mem'.payments[i] > 0 /\ mem'.invoices[i].status = "none"
      /\ ~(job'.pc = "invoice" /\ job'.inv = i)
  BY DEF TypeOK, Dataset, Orphaned
<1>1. ASSUME mem'.payments[i] = mem.payments[i], mem'.invoices[i].status = mem.invoices[i].status,
             job.pc = "invoice" => job' = job \/ job.inv # i
      PROVE  i \in Orphaned(mem)
  BY <1>0, <1>1 DEF Orphaned
<1>2. CASE SameLedger /\ (job' = job \/ Loops \/ Returns)
  BY <1>1, <1>2 DEF SameLedger, Loops, Returns
<1>3. ASSUME NEW j \in InvoiceIds, NEW r \in InvoiceRec, r.status # "none", InvoiceAt(j, r),
             job.pc = "invoice" => job' = job \/ job.inv = j
      PROVE  i \in Orphaned(mem)
  <2>1. mem'.invoices = [mem.invoices EXCEPT ![j] = r] /\ mem'.payments = mem.payments
    BY <1>3 DEF InvoiceAt
  <2>2. i # j
    BY <1>0, <1>3, <2>1
  <2>3. mem'.invoices[i] = mem.invoices[i]
    BY <1>0, <2>1, <2>2
  <2>4. QED
    BY <1>1, <1>3, <2>1, <2>2, <2>3
<1>4. ASSUME NEW j \in InvoiceIds, NEW r \in InvoiceRec, Opens(j, r) PROVE i \in Orphaned(mem)
  BY <1>3, <1>4 DEF Opens
<1>5. ASSUME NEW j \in InvoiceIds, MarksPaid(j) PROVE i \in Orphaned(mem)
  <2>1. /\ [mem.invoices[j] EXCEPT !.status = "paid"] \in InvoiceRec
        /\ [mem.invoices[j] EXCEPT !.status = "paid"].status = "paid"
    BY <1>0, PaidType DEF InvoiceRec
  <2>2. QED
    BY <1>3, <1>5, <2>1 DEF MarksPaid
<1>6. ASSUME NEW j \in InvoiceIds, PaymentAt(j), i # j, job.pc # "invoice"
      PROVE  i \in Orphaned(mem)
  BY <1>0, <1>1, <1>6 DEF PaymentAt
<1>7. ASSUME NEW j \in InvoiceIds, Charges(j) PROVE i \in Orphaned(mem)
  BY <1>0, <1>6, <1>7 DEF Charges
<1>8. ASSUME NEW r \in InvoiceRec, Invoices(r) PROVE i \in Orphaned(mem)
  BY <1>3, <1>8 DEF Invoices, JobOK
<1>9. CASE Records
  <2>1. PICK j \in InvoiceIds : j = job.inv
    BY <1>9 DEF Records, JobOK
  <2>2. PaymentAt(j) /\ job.pc # "invoice" /\ mem.invoices[j].status = "paid"
    BY <1>9, <2>1 DEF Records, LedgerInv, JobLedger
  <2>3. i # j
    BY <1>0, <2>2 DEF PaymentAt
  <2>4. QED
    BY <1>6, <2>2, <2>3
<1>10. ASSUME NEW j \in InvoiceIds, NEW s \in Sessions, Refers(j, s) PROVE i \in Orphaned(mem)
  <2>1. /\ [mem.invoices[j] EXCEPT !.ref = s] \in InvoiceRec
        /\ [mem.invoices[j] EXCEPT !.ref = s].status = mem.invoices[j].status
    BY <1>0, RefType DEF InvoiceRec
  <2>2. QED
    BY <1>3, <1>10, <2>1 DEF Refers, IsOpen
<1>11. QED
  BY <1>2, <1>4, <1>5, <1>7, <1>8, <1>9, <1>10 DEF Move, Loops, Returns

LEMMA OrphanNext ==
  ASSUME TypeInv, SessionsOK, LedgerInv, OrphanInv, [Next]_vars
  PROVE  OrphanInv'
<1>0. /\ crashes \in Nat /\ crashes' \in Nat
      /\ Crash \/ (Onward /\ Move)
  BY NextType, Moves DEF TypeInv, TypeOK
<1>1. CASE Crash
  <2>1. mem' = disk /\ disk' = disk /\ job'.pc = "idle" /\ crashes' = crashes + 1
    BY <1>1, IdlePc DEF Crash
  <2>2. Orphaned(mem)' = Unbilled(disk) /\ Unbilled(disk)' = Unbilled(disk)
    BY <2>1 DEF Orphaned, Unbilled
  <2>3. Cardinality(Unbilled(disk)) \in Nat
    BY FS_CardinalityType DEF OrphanInv
  <2>4. QED
    BY <1>0, <2>1, <2>2, <2>3 DEF OrphanInv
<1>2. CASE ~Crash
  <2>0. /\ Onward /\ Move /\ crashes' = crashes
        /\ disk' = mem' \/ UNCHANGED <<mem, disk, failures>> \/ failures' # 0
    BY <1>0, <1>2, WritesOrFails
  <2>1. /\ IsFiniteSet(Orphaned(mem)') /\ Cardinality(Orphaned(mem)') \in Nat
        /\ Cardinality(Orphaned(mem)') <= crashes'
    <3>1. Orphaned(mem)' \subseteq Orphaned(mem) /\ IsFiniteSet(Orphaned(mem))
      BY <2>0, MoveOrphans DEF OrphanInv
    <3>2. /\ IsFiniteSet(Orphaned(mem)')
          /\ Cardinality(Orphaned(mem)') <= Cardinality(Orphaned(mem))
      BY <3>1, FS_Subset
    <3>3. QED
      BY <1>0, <2>0, <3>1, <3>2, FS_CardinalityType DEF OrphanInv
  <2>2. IsFiniteSet(Unbilled(disk)') /\ Cardinality(Unbilled(disk)') <= crashes' + 1
    <3>1. CASE disk' = disk
      BY <2>0, <3>1 DEF OrphanInv, Unbilled
    <3>2. CASE disk' = mem'
      <4> DEFINE S == Orphaned(mem)' \cup {job'.inv}
      <4>1. Unbilled(disk)' \subseteq S
        BY <3>2 DEF Unbilled, Orphaned
      <4>2. /\ IsFiniteSet(S) /\ Cardinality(S) \in Nat
            /\ Cardinality(S) <= Cardinality(Orphaned(mem)') + 1
        <5> DEFINE O == Orphaned(mem)'
        <5>1. IsFiniteSet(O) /\ Cardinality(O) \in Nat
          BY <2>1
        <5> HIDE DEF O
        <5>2. /\ IsFiniteSet(O \cup {job'.inv})
              /\ \/ Cardinality(O \cup {job'.inv}) = Cardinality(O)
                 \/ Cardinality(O \cup {job'.inv}) = Cardinality(O) + 1
          BY <5>1, FS_AddElement
        <5>3. QED
          BY <5>1, <5>2 DEF O
      <4> HIDE DEF S
      <4>3. /\ IsFiniteSet(Unbilled(disk)')
            /\ Cardinality(Unbilled(disk)') <= Cardinality(S)
        BY <4>1, <4>2, FS_Subset
      <4>4. Cardinality(Unbilled(disk)') \in Nat
        BY <4>3, FS_CardinalityType
      <4>5. QED
        BY <1>0, <2>1, <4>2, <4>3, <4>4
    <3>3. QED
      BY <2>0, <3>1, <3>2 DEF Onward
  <2>3. failures' = 0 => disk' = mem'
    BY <2>0 DEF OrphanInv
  <2>4. QED
    BY <2>1, <2>2, <2>3 DEF OrphanInv
<1>3. QED
  BY <1>1, <1>2

LEMMA OrphanHold == Spec => [](TypeInv /\ OrphanInv)
<1>1. TypeInv /\ SessionsOK /\ LedgerInv /\ OrphanInv /\ [Next]_vars => OrphanInv'
  BY OrphanNext
<1>2. QED
  BY <1>1, OrphanInit, Invariants, PTL DEF Spec

(* RunBilling saves the payment it collected before its invoice: a crash,  *)
(* or a snapshot that a failed write left behind, separates at most one    *)
(* payment from its invoice each.                                          *)
THEOREM ChargesAreInvoiced == Spec => []ChargedIsInvoiced
<1>1. TypeInv /\ OrphanInv => ChargedIsInvoiced
  <2> SUFFICES ASSUME TypeInv, OrphanInv PROVE ChargedIsInvoiced
    OBVIOUS
  <2>1. crashes \in Nat /\ failures \in Nat
    BY DEF TypeInv, TypeOK
  <2>2. CASE failures = 0
    BY <2>1, <2>2 DEF OrphanInv, ChargedIsInvoiced
  <2>3. CASE failures > 0
    <3>1. Orphaned(disk) \subseteq Unbilled(disk)
      BY DEF Orphaned, Unbilled
    <3>2. /\ IsFiniteSet(Orphaned(disk))
          /\ Cardinality(Orphaned(disk)) <= Cardinality(Unbilled(disk))
      BY <3>1, FS_Subset DEF OrphanInv
    <3>3. Cardinality(Orphaned(disk)) \in Nat /\ Cardinality(Unbilled(disk)) \in Nat
      BY <3>2, FS_CardinalityType DEF OrphanInv
    <3>4. Cardinality(Orphaned(disk)) <= crashes + failures
      BY <2>1, <2>3, <3>2, <3>3 DEF OrphanInv
    <3>5. QED
      BY <3>4 DEF OrphanInv, ChargedIsInvoiced
  <2>4. QED
    BY <2>1, <2>2, <2>3
<1>2. QED
  BY <1>1, OrphanHold, PTL
-----------------------------------------------------------------------------
(* Tenants: whoever is suspended for delinquency is shown as suspended,    *)
(* the enforcement under way only has tenants with an open invoice to do,  *)
(* and while a settlement is under way the snapshot has its invoice.       *)
Suspended(decision) ==
  \A a \in Accounts : decision[a].delinquent => decision[a].status = "suspended"
Snapped == job.pc \in {"record", "reactivate"} =>
  /\ disk.invoices = mem.invoices
  /\ \A a \in Accounts : kept[a].delinquent => decided[a].delinquent
StrandInv ==
  /\ NoStrandedTenant
  /\ Suspended(decided) /\ Suspended(kept)
  /\ job.pc = "enforce" => \A a \in job.todo : OpenOf(a) # {}
  /\ Snapped

LEMMA StrandInit == Init => StrandInv
BY IdlePc DEF Init, StrandInv, NoStrandedTenant, NotStranded, Suspended, Snapped

(* What a step that is no crash does to the decisions on accounts.         *)
Decides(a) ==
  \/ decided'[a] = decided[a] \/ ~decided'[a].delinquent
  \/ job.pc = "enforce" /\ a \in job.todo /\ SameLedger /\ decided'[a].status = "suspended"
UnsavedNow(i) == <<"unsaved", i>> \in cut'
Leaves(a) ==
  \/ ~decided'[a].delinquent /\ (kept' = decided' \/ UnsavedNow(job.inv))
  \/ /\ decided'[a] = decided[a] /\ SameLedger
     /\ mem.accounts[a].status # "suspended" \/ OpenOf(a) # {}
Owes(a) == (job.pc = "enforce" /\ a \in job.todo) \/ OpenOf(a) # {}
StatusMove ==
  /\ \A a \in Accounts : Decides(a)
  /\ job.pc = "reactivate" /\ job' # job =>
       \A a \in Accounts : mem.invoices[job.inv].acct = a => Leaves(a)
  /\ job'.pc = "enforce" /\ job' # job => SameLedger /\ \A a \in job'.todo : Owes(a)

LEMMA StatusMoves ==
  ASSUME TypeInv, SessionsOK, [Next]_vars
  PROVE  Crash \/ StatusMove
<1> DEFINE Goal == Crash \/ StatusMove
<1> SUFFICES Goal
  OBVIOUS
<1> HIDE DEF Goal
<1> USE DEF TypeInv
<1>0. /\ decided \in [Accounts -> [status : Statuses, delinquent : BOOLEAN]]
      /\ job \in Job
  BY DEF TypeOK
<1>1. ASSUME decided' = decided, job' = job PROVE Goal
  BY <1>1 DEF Goal, StatusMove, Decides
<1>2. ASSUME decided' = decided, job.pc # "reactivate", job'.pc # "enforce" PROVE Goal
  BY <1>2 DEF Goal, StatusMove, Decides
<1>3. ASSUME NEW a, NEW st, Decide(a, st, FALSE), NEW b \in Accounts
      PROVE  /\ decided'[b] = decided[b] \/ ~decided'[b].delinquent
             /\ b = a => ~decided'[b].delinquent
  <2>1. decided' = [decided EXCEPT ![a] = [status |-> st, delinquent |-> FALSE]]
    BY <1>3 DEF Decide
  <2>2. CASE b = a
    BY <1>0, <2>1, <2>2
  <2>3. CASE b # a
    BY <1>0, <2>1, <2>3
  <2>4. QED
    BY <2>2, <2>3
<1>4. ASSUME NEW a, NEW st, Decide(a, st, FALSE), job' = job PROVE Goal
  BY <1>3, <1>4 DEF Goal, StatusMove, Decides
<1>5. CASE Quiet
  BY <1>1, <1>5 DEF Quiet
<1>6. CASE \/ \E p \in Plans, ok \in BOOLEAN : CreatePlan(p, ok)
           \/ \E a \in Accounts, i \in InvoiceIds, ok \in BOOLEAN : IssueInvoice(a, i, ok)
           \/ \E s \in Sessions, ok \in BOOLEAN : RecordCheckout(s, ok)
  BY <1>1, <1>6 DEF CreatePlan, IssueInvoice, RecordCheckout
<1>7. CASE \/ \E a \in Accounts, p \in Plans, ok \in BOOLEAN : CreateAccount(a, p, ok)
           \/ \E a \in Accounts, st \in OperatorStatuses, ok \in BOOLEAN : SetStatus(a, st, ok)
  BY <1>4, <1>7 DEF CreateAccount, SetStatus
<1>8. ASSUME NEW i, NEW via, NEW ok \in BOOLEAN, Settle(i, via, ok) PROVE Goal
  <2>1. decided' = decided /\ job.pc = "idle"
    BY <1>8, IdlePc DEF Settle, Unlocked
  <2>2. job'.pc \in {"record", "idle"}
    BY <1>8, IdlePc DEF Settle, Idle
  <2>3. QED
    BY <1>2, <2>1, <2>2
<1>9. CASE StartBilling
  <2>1. decided' = decided /\ job.pc = "idle" /\ job'.pc = "bill"
    BY <1>9, IdlePc DEF StartBilling, Unlocked, Idle
  <2>2. QED
    BY <1>2, <2>1
<1>10. CASE StartEnforcement
  <2>1. decided' = decided /\ job.pc = "idle" /\ SameLedger
    BY <1>10, IdlePc DEF StartEnforcement, Unlocked, SameLedger
  <2>2. job'.todo = Delinquent
    BY <1>10 DEF StartEnforcement, Idle
  <2>3. \A a \in job'.todo : Owes(a)
    BY <2>2 DEF Delinquent, Owes
  <2>4. QED
    BY <2>1, <2>3 DEF Goal, StatusMove, Decides
<1>11. ASSUME NEW a \in Accounts, NEW i \in InvoiceIds, NEW ok \in BOOLEAN,
              ChargeCollected(a, i, ok)
       PROVE  Goal
  <2>1. decided' = decided /\ job.pc = "bill" /\ job'.pc = "invoice"
    BY <1>0, <1>11 DEF ChargeCollected, Job
  <2>2. QED
    BY <1>2, <2>1
<1>12. ASSUME NEW a \in Accounts, NEW i \in InvoiceIds, NEW ok \in BOOLEAN,
              IssueOpenInvoice(a, i, ok)
       PROVE  Goal
  <2>1. decided' = decided /\ job.pc = "bill" /\ job'.pc \in {"advance", "idle"}
    BY <1>0, <1>12, IdlePc DEF IssueOpenInvoice, Job
  <2>2. QED
    BY <1>2, <2>1
<1>13. ASSUME NEW a, NEW ok \in BOOLEAN, SaveAdvanced(a, ok), job.pc \in {"bill", "advance"}
       PROVE  Goal
  <2>1. decided' = decided /\ job' \in {Idle, NextJob(job.todo \ {a})}
    BY <1>13 DEF SaveAdvanced
  <2>2. NextJob(job.todo \ {a}).pc \in {"idle", "bill"}
    BY <1>0, <1>13, IdlePc DEF NextJob, Job
  <2>3. QED
    BY <1>2, <1>13, <2>1, <2>2, IdlePc
<1>14. ASSUME NEW a \in Accounts, NEW ok \in BOOLEAN, Suspend(a, ok) PROVE Goal
  <2>1. job.pc = "enforce" /\ a \in job.todo /\ Decide(a, "suspended", TRUE)
        /\ job' = NextJob(job.todo \ {a})
    BY <1>14 DEF Suspend
  <2>2. SameLedger
    BY <1>14, AccountWrite DEF Suspend, SameLedger
  <2>3. \A b \in Accounts : Decides(b)
    BY <1>0, <2>1, <2>2 DEF Decide, Decides
  <2>4. job'.todo = job.todo \ {a}
    <3>1. job.todo \ {a} \in SUBSET Accounts
      BY <1>0 DEF Job
    <3>2. QED
      BY <2>1, <3>1, NextJobTodo
  <2>5. \A b \in job'.todo : Owes(b)
    BY <2>1, <2>4 DEF Owes
  <2>6. QED
    BY <2>1, <2>2, <2>3, <2>5 DEF Goal, StatusMove
<1>15. ASSUME NEW ok \in BOOLEAN, IssuePaidInvoice(ok) \/ RecordPayment(ok) PROVE Goal
  <2>1. decided' = decided /\ job.pc \in {"invoice", "record"}
    BY <1>15 DEF IssuePaidInvoice, RecordPayment
  <2>2. job'.pc \in {"advance", "reactivate", "idle"}
    BY <1>0, <1>15, IdlePc DEF IssuePaidInvoice, RecordPayment, Job
  <2>3. QED
    BY <1>2, <2>1, <2>2
<1>16. ASSUME NEW ok \in BOOLEAN, Reactivate(ok) PROVE Goal
  <2>1. /\ job' = Idle /\ job'.pc = "idle"
        /\ Decide(mem.invoices[job.inv].acct, "active", FALSE)
        /\ kept' = decided' \/ UnsavedNow(job.inv)
    BY <1>16, IdlePc DEF Reactivate, CutUnless, Keep, UnsavedNow
  <2>2. \A b \in Accounts : Decides(b) /\ (mem.invoices[job.inv].acct = b => Leaves(b))
    BY <1>3, <2>1 DEF Decides, Leaves
  <2>3. QED
    BY <2>1, <2>2 DEF Goal, StatusMove
<1>17. CASE LeaveStatus
  <2>1. decided' = decided /\ SameLedger /\ job'.pc = "idle"
    BY <1>17, IdlePc DEF LeaveStatus, SameLedger
  <2>2. \A b \in Accounts : mem.invoices[job.inv].acct = b => Leaves(b)
    BY <1>17, <2>1 DEF LeaveStatus, Reactivates, Leaves
  <2>3. QED
    BY <2>1, <2>2 DEF Goal, StatusMove, Decides
<1>18. CASE Crash
  BY <1>18 DEF Goal
<1>19. QED
  BY <1>5, <1>6, <1>7, <1>8, <1>9, <1>10, <1>11, <1>12, <1>13, <1>14, <1>15, <1>16, <1>17,
     <1>18, NextEffects DEF Effects, AdvanceFree, AdvanceBilled

(* An invoice keeps its account, and is open until it is settled.          *)
LEMMA MoveOwners ==
  ASSUME TypeInv, LedgerInv, Move, NEW i \in InvoiceIds
  PROVE  /\ mem.invoices[i].acct \in Accounts => mem'.invoices[i].acct = mem.invoices[i].acct
         /\ IsOpen(i) => IsOpen(i)' \/ CutNow(i) \/ Between(i)'
<1> USE DEF TypeInv
<1> DEFINE Goal == /\ mem.invoices[i].acct \in Accounts =>
                        mem'.invoices[i].acct = mem.invoices[i].acct
                   /\ IsOpen(i) => IsOpen(i)' \/ CutNow(i) \/ Between(i)'
<1> SUFFICES Goal
  OBVIOUS
<1>0. mem.invoices \in [InvoiceIds -> InvoiceRec]
  BY DEF TypeOK, Dataset
<1>1. ASSUME mem'.invoices[i] = mem.invoices[i] PROVE Goal
  BY <1>1 DEF IsOpen
<1>2. ASSUME NEW j \in InvoiceIds, NEW r, InvoiceAt(j, r),
             i = j => /\ mem.invoices[j].acct \in Accounts => r.acct = mem.invoices[j].acct
                      /\ IsOpen(j) => r.status = "open" \/ CutNow(j) \/ Between(j)'
      PROVE  Goal
  <2>1. mem'.invoices = [mem.invoices EXCEPT ![j] = r]
    BY <1>2 DEF InvoiceAt
  <2>2. i = j => mem'.invoices[i] = r
    BY <1>0, <2>1
  <2>3. i # j => mem'.invoices[i] = mem.invoices[i]
    BY <1>0, <2>1
  <2>4. QED
    BY <1>1, <1>2, <2>2, <2>3 DEF IsOpen
<1> HIDE DEF Goal
<1>3. CASE SameLedger \/ Loops \/ Returns \/ Records
  BY <1>1, <1>3 DEF SameLedger, Loops, Returns, Records, PaymentAt
<1>4. ASSUME NEW j \in InvoiceIds, mem.invoices[j] = NoInvoice, NEW r, InvoiceAt(j, r)
      PROVE  Goal
  <2>1. mem.invoices[j].acct \notin Accounts /\ ~IsOpen(j)
    BY <1>4, IdsAssumption DEF NoInvoice, IsOpen
  <2>2. QED
    BY <1>2, <1>4, <2>1
<1>5. ASSUME NEW j \in InvoiceIds, NEW r \in InvoiceRec, Opens(j, r) PROVE Goal
  BY <1>4, <1>5 DEF Opens, LedgerInv, LedgerAt
<1>6. ASSUME NEW r \in InvoiceRec, Invoices(r) PROVE Goal
  BY <1>4, <1>6 DEF Invoices, LedgerInv, JobLedger, JobOK
<1>7. ASSUME NEW j \in InvoiceIds, Charges(j) PROVE Goal
  BY <1>1, <1>7 DEF Charges, PaymentAt
<1>8. ASSUME NEW j \in InvoiceIds, MarksPaid(j) PROVE Goal
  <2>1. [mem.invoices[j] EXCEPT !.status = "paid"].acct = mem.invoices[j].acct
    BY <1>0 DEF InvoiceRec
  <2>2. CutNow(j) \/ Between(j)'
    BY <1>8 DEF MarksPaid, Between
  <2>3. QED
    BY <1>2, <1>8, <2>1, <2>2 DEF MarksPaid
<1>9. ASSUME NEW j \in InvoiceIds, NEW s \in Sessions, Refers(j, s) PROVE Goal
  <2>1. /\ [mem.invoices[j] EXCEPT !.ref = s].acct = mem.invoices[j].acct
        /\ [mem.invoices[j] EXCEPT !.ref = s].status = mem.invoices[j].status
    BY <1>0 DEF InvoiceRec
  <2>2. QED
    BY <1>2, <1>9, <2>1 DEF Refers, IsOpen
<1>10. QED
  BY <1>3, <1>5, <1>6, <1>7, <1>8, <1>9 DEF Move

(* Where the settlement of an invoice of a tenant ends: it goes on, or it  *)
(* was cut short or could not be saved, or it did what it does.            *)
LEMMA SettlingGoes ==
  ASSUME TypeInv, LedgerInv, Move, job.pc \in {"record", "reactivate"}
  PROVE  \/ job'.pc \in {"record", "reactivate"} /\ job'.inv = job.inv
         \/ CutNow(job.inv)
         \/ job.pc = "reactivate" /\ job' # job
BY DEF Move, Loops, Returns, Opens, MarksPaid, Charges, Invoices, Records, Refers

(* What is settled is in the snapshot as it is in memory.                  *)
LEMMA SnappedNext ==
  ASSUME TypeInv, SessionsOK, LedgerInv, CopiesInv, StrandInv, [Next]_vars
  PROVE  Snapped'
<1> USE DEF TypeInv
<1>0. Snapped /\ (UNCHANGED <<disk, kept>> \/ (disk' = mem' /\ kept' = decided'))
  BY Snapshot DEF StrandInv
<1>1. ASSUME disk' = mem', kept' = decided' PROVE Snapped'
  BY <1>1 DEF Snapped
<1>2. CASE Crash
  BY <1>2, IdlePc DEF Crash, Snapped
<1>3. ASSUME mem'.invoices = mem.invoices, decided' = decided, job' = job PROVE Snapped'
  BY <1>0, <1>1, <1>3 DEF Snapped
<1>4. ASSUME job'.pc \notin {"record", "reactivate"} PROVE Snapped'
  BY <1>4 DEF Snapped
<1>5. CASE Quiet
  BY <1>3, <1>5 DEF Quiet
<1>6. ASSUME NEW p \in Plans, NEW ok \in BOOLEAN, CreatePlan(p, ok) PROVE Snapped'
  BY <1>3, <1>6, PlanWrite DEF CreatePlan
<1>7. ASSUME NEW a \in Accounts, NEW p \in Plans, NEW ok \in BOOLEAN, CreateAccount(a, p, ok)
      PROVE  Snapped'
  <2>1. job' = job /\ mem.accounts[a].status = "none" /\ Decide(a, "active", FALSE)
    BY <1>7 DEF CreateAccount, Exists
  <2>2. mem'.invoices = mem.invoices
    <3>1. PICK r : SaveAccount(a, r, ok)
      BY <1>7 DEF CreateAccount
    <3> QED BY <3>1, AccountWrite
  <2>3. CASE disk' = mem' /\ kept' = decided'
    BY <1>1, <2>3
  <2>4. CASE UNCHANGED <<disk, kept>>
    <3>1. SUFFICES ASSUME job.pc \in {"record", "reactivate"},
                          NEW b \in Accounts, kept[b].delinquent
                   PROVE  decided'[b].delinquent
      BY <1>0, <2>1, <2>2, <2>4 DEF Snapped
    <3>2. decided[b].delinquent /\ decided[b].status = "suspended"
      BY <1>0, <3>1 DEF Snapped, StrandInv, Suspended
    <3>3. b # a
      BY <2>1, <3>2 DEF CopiesInv, HeldInv, LastDecided
    <3> QED BY <2>1, <3>2, <3>3 DEF Decide, TypeOK
  <2> QED BY <1>0, <2>3, <2>4
<1>8. CASE \/ \E a \in Accounts, st \in OperatorStatuses, ok \in BOOLEAN : SetStatus(a, st, ok)
           \/ \E a \in Accounts, i \in InvoiceIds, ok \in BOOLEAN : IssueInvoice(a, i, ok)
           \/ \E s \in Sessions, ok \in BOOLEAN : RecordCheckout(s, ok)
  BY <1>4, <1>8, IdlePc DEF SetStatus, IssueInvoice, RecordCheckout, Unlocked
<1>9. ASSUME NEW i \in InvoiceIds, NEW via \in SUBSET Sessions, NEW ok \in BOOLEAN,
             Settle(i, via, ok)
      PROVE  Snapped'
  <2>1. CASE ok
    BY <1>1, <1>9, <2>1 DEF Settle, SaveInvoice, Write, Keep
  <2>2. CASE ~ok
    BY <1>4, <1>9, <2>2, IdlePc DEF Settle
  <2> QED BY <2>1, <2>2
<1>10. ASSUME NEW ok \in BOOLEAN, RecordPayment(ok) PROVE Snapped'
  <2>1. CASE ok
    BY <1>1, <1>10, <2>1 DEF RecordPayment, SavePayment, Write, Keep
  <2>2. CASE ~ok
    BY <1>4, <1>10, <2>2, IdlePc DEF RecordPayment
  <2> QED BY <2>1, <2>2
<1>11. CASE StartBilling \/ StartEnforcement \/ LeaveStatus \/ \E ok \in BOOLEAN : Reactivate(ok)
  BY <1>4, <1>11, IdlePc DEF StartBilling, StartEnforcement, LeaveStatus, Reactivate, Idle
<1>12. ASSUME NEW a \in Accounts, NEW i \in InvoiceIds, NEW ok \in BOOLEAN,
              ChargeCollected(a, i, ok) \/ IssueOpenInvoice(a, i, ok)
       PROVE  Snapped'
  BY <1>4, <1>12, IdlePc DEF ChargeCollected, IssueOpenInvoice, TypeOK, Job
<1>13. ASSUME NEW ok \in BOOLEAN, IssuePaidInvoice(ok) PROVE Snapped'
  BY <1>4, <1>13, IdlePc DEF IssuePaidInvoice, TypeOK, Job
<1>14. ASSUME NEW a, NEW ok \in BOOLEAN,
              (SaveAdvanced(a, ok) /\ job.pc \in {"bill", "advance"}) \/ Suspend(a, ok)
       PROVE  Snapped'
  <2>1. job' = Idle \/ job' = NextJob(job.todo \ {a})
    BY <1>14 DEF SaveAdvanced, Suspend
  <2>2. job'.pc \in {"idle", "bill", "enforce"}
    <3>1. job.todo \ {a} \in SUBSET Accounts
      BY DEF TypeOK, Job
    <3> QED BY <2>1, <3>1, IdlePc, NextJobType
  <2> QED BY <1>4, <2>2
<1> QED
  BY <1>2, <1>5, <1>6, <1>7, <1>8, <1>9, <1>10, <1>11, <1>12, <1>13, <1>14, NextEffects
  DEF Effects, AdvanceFree, AdvanceBilled

(* What frees a tenant from being stranded in a dataset.                   *)
Free(m, a) == \E i \in InvoiceIds : /\ m.invoices[i].acct = a
                                    /\ \/ m.invoices[i].status = "open"
                                       \/ job.pc \in {"record", "reactivate"} /\ job.inv = i
                                       \/ CutSettling(i) \/ Unsaved(i)

LEMMA Frees ==
  /\ NoStrandedTenant <=> \A a \in Accounts : /\ decided[a].delinquent => Free(mem, a)
                                              /\ kept[a].delinquent => Free(disk, a)
  /\ NoStrandedTenant' <=> \A a \in Accounts : /\ decided'[a].delinquent => Free(mem, a)'
                                               /\ kept'[a].delinquent => Free(disk, a)'
BY DEF NoStrandedTenant, NotStranded, Free

(* A restart loads the snapshot, and the call it cuts short is noted.      *)
LEMMA StrandCrash ==
  ASSUME TypeInv, StrandInv, Crash
  PROVE  StrandInv'
<1>1. /\ job' = Idle /\ job'.pc = "idle" /\ cut' = cut \cup Untaken
      /\ mem' = disk /\ disk' = disk /\ decided' = kept /\ kept' = kept
  BY IdlePc DEF Crash
<1>2. ASSUME NEW a \in Accounts, kept[a].delinquent
      PROVE  Free(mem, a)' /\ Free(disk, a)'
  <2>1. PICK i \in InvoiceIds : /\ disk.invoices[i].acct = a
                                /\ \/ disk.invoices[i].status = "open"
                                   \/ job.pc \in {"record", "reactivate"} /\ job.inv = i
                                   \/ CutSettling(i) \/ Unsaved(i)
    BY <1>2, Frees DEF StrandInv, Free
  <2>2. disk.invoices[i].status = "open" \/ CutSettling(i)' \/ Unsaved(i)'
    BY <1>1, <2>1 DEF CutSettling, Unsaved, Untaken
  <2> QED
    BY <1>1, <2>1, <2>2 DEF Free
<1>3. NoStrandedTenant'
  BY <1>1, <1>2, Frees
<1> QED
  BY <1>1, <1>3 DEF StrandInv, Suspended, Snapped

LEMMA StrandNext ==
  ASSUME TypeInv, SessionsOK, LedgerInv, CopiesInv, StrandInv, [Next]_vars
  PROVE  StrandInv'
<1>0. TypeInv' /\ (Crash \/ (Onward /\ Move))
  BY NextType, Moves DEF TypeInv
<1>1. CASE Crash
  BY <1>1, StrandCrash
<1>2. CASE Onward /\ Move /\ ~Crash
  <2>0. StatusMove /\ cut \subseteq cut'
    BY <1>2, StatusMoves DEF Onward
  <2>1. ASSUME NEW a \in Accounts, OpenOf(a) # {}, SameLedger PROVE OpenOf(a)' # {}
    BY <2>1 DEF OpenOf, IsOpen, SameLedger
  <2>2. ASSUME NEW i \in InvoiceIds, NEW a \in Accounts, mem.invoices[i].acct = a,
               IsOpen(i) \/ CutSettling(i) \/ Unsaved(i)
        PROVE  Free(mem, a)'
    <3>1. mem'.invoices[i].acct = a /\ (IsOpen(i) => IsOpen(i)' \/ CutNow(i) \/ Between(i)')
      BY <1>2, <2>2, MoveOwners
    <3> QED
      BY <2>0, <2>2, <3>1 DEF Free, IsOpen, CutNow, CutSettling, Unsaved, Between
  <2>3. ASSUME NEW a \in Accounts, OpenOf(a)' # {} PROVE Free(mem, a)'
    BY <2>3 DEF OpenOf, IsOpen, Free
  (* The tenant whose settlement is under way, in memory.                  *)
  <2>4. ASSUME NEW a \in Accounts, decided[a].delinquent, decided'[a].delinquent,
               job.pc \in {"record", "reactivate"}, mem.invoices[job.inv].acct = a
        PROVE  Free(mem, a)'
    <3>1. PICK i \in InvoiceIds : i = job.inv
      BY <2>4 DEF TypeInv, JobOK
    <3>2. mem'.invoices[i].acct = a
      BY <1>2, <2>4, <3>1, MoveOwners
    <3>3. CASE job.pc = "reactivate" /\ job' # job
      <4>1. Leaves(a)
        BY <2>0, <2>4, <3>3 DEF StatusMove
      <4>2. mem.accounts[a].status = "suspended"
        BY <2>4 DEF StrandInv, Suspended, CopiesInv, HeldInv, LastDecided
      <4> QED
        BY <2>1, <2>3, <2>4, <4>1, <4>2 DEF Leaves
    <3>4. CASE ~(job.pc = "reactivate" /\ job' # job)
      BY <1>2, <2>4, <3>1, <3>2, <3>4, SettlingGoes DEF Free, CutNow, CutSettling
    <3> QED BY <3>3, <3>4
  <2>5. ASSUME NEW a \in Accounts, decided'[a].delinquent
        PROVE  Free(mem, a)' /\ decided'[a].status = "suspended"
    <3>1. Decides(a)
      BY <2>0 DEF StatusMove
    <3>2. CASE decided'[a] = decided[a]
      <4>1. decided[a].delinquent /\ decided[a].status = "suspended"
        BY <2>5, <3>2 DEF StrandInv, Suspended
      <4>2. PICK i \in InvoiceIds : /\ mem.invoices[i].acct = a
                                    /\ \/ IsOpen(i)
                                       \/ job.pc \in {"record", "reactivate"} /\ job.inv = i
                                       \/ CutSettling(i) \/ Unsaved(i)
        BY <4>1, Frees DEF StrandInv, Free, IsOpen
      <4> QED
        BY <2>2, <2>4, <2>5, <3>2, <4>1, <4>2
    <3>3. CASE job.pc = "enforce" /\ a \in job.todo /\ SameLedger /\ decided'[a].status = "suspended"
      BY <2>1, <2>3, <3>3 DEF StrandInv
    <3> QED
      BY <2>5, <3>1, <3>2, <3>3 DEF Decides
  (* The snapshot is what memory was when it was written, or is now.       *)
  <2>6. ASSUME NEW a \in Accounts, kept'[a].delinquent
        PROVE  Free(disk, a)' /\ kept'[a].status = "suspended"
    <3>1. CASE disk' = mem' /\ kept' = decided'
      BY <2>5, <2>6, <3>1 DEF Free
    <3>2. CASE UNCHANGED <<disk, kept>>
      <4>1. kept[a].delinquent /\ kept[a].status = "suspended"
        BY <2>6, <3>2 DEF StrandInv, Suspended
      <4>2. PICK i \in InvoiceIds : /\ disk.invoices[i].acct = a
                                    /\ \/ disk.invoices[i].status = "open"
                                       \/ job.pc \in {"record", "reactivate"} /\ job.inv = i
                                       \/ CutSettling(i) \/ Unsaved(i)
        BY <4>1, Frees DEF StrandInv, Free
      <4>3. CASE disk.invoices[i].status = "open" \/ CutSettling(i) \/ Unsaved(i)
        BY <2>0, <3>2, <4>1, <4>2, <4>3 DEF Free, CutSettling, Unsaved
      <4>4. CASE job.pc \in {"record", "reactivate"} /\ job.inv = i
        <5>1. disk.invoices = mem.invoices /\ decided[a].delinquent
          BY <4>1, <4>4 DEF StrandInv, Snapped
        <5>2. CASE job.pc = "reactivate" /\ job' # job
          <6>1. Leaves(a)
            BY <2>0, <4>2, <5>1, <5>2, <4>4 DEF StatusMove
          <6>2. mem.accounts[a].status = "suspended"
            BY <5>1 DEF StrandInv, Suspended, CopiesInv, HeldInv, LastDecided
          <6>3. UnsavedNow(i) \/ OpenOf(a) # {}
            BY <2>6, <4>4, <6>1, <6>2 DEF Leaves
          <6>4. CASE UnsavedNow(i)
            BY <3>2, <4>1, <4>2, <6>4 DEF UnsavedNow, Unsaved, Free
          <6>5. CASE OpenOf(a) # {}
            BY <3>2, <4>1, <5>1, <6>5 DEF OpenOf, IsOpen, Free
          <6> QED BY <3>2, <4>1, <6>3, <6>4, <6>5
        <5>3. CASE ~(job.pc = "reactivate" /\ job' # job)
          BY <1>2, <3>2, <4>1, <4>2, <4>4, <5>3, SettlingGoes DEF Free, CutNow, CutSettling
        <5> QED BY <5>2, <5>3
      <4> QED BY <3>2, <4>1, <4>2, <4>3, <4>4
    <3> QED BY <3>1, <3>2, Snapshot
  <2>7. ASSUME NEW a \in job'.todo, job'.pc = "enforce" PROVE OpenOf(a)' # {}
    <3>1. a \in Accounts
      BY <1>0, <2>7 DEF TypeInv, TypeOK, Job
    <3>2. CASE job' # job
      BY <2>0, <2>1, <2>7, <3>1, <3>2 DEF StatusMove, Owes, StrandInv
    <3>3. CASE job' = job
      <4>1. SameLedger
        BY <1>2, <2>7, <3>3
          DEF Move, Loops, Returns, Opens, MarksPaid, Charges, Invoices, Records, Refers
      <4>2. QED
        BY <2>1, <2>7, <3>1, <3>3, <4>1 DEF StrandInv
    <3>4. QED
      BY <3>2, <3>3
  <2>8. NoStrandedTenant'
    BY <2>5, <2>6, Frees
  <2>9. QED
    BY <2>5, <2>6, <2>7, <2>8, SnappedNext DEF StrandInv, Suspended
<1>3. QED
  BY <1>0, <1>1, <1>2

LEMMA StrandHold == Spec => []StrandInv
<1>1. TypeInv /\ SessionsOK /\ LedgerInv /\ CopiesInv /\ StrandInv /\ [Next]_vars => StrandInv'
  BY StrandNext
<1>2. QED
  BY <1>1, StrandInit, CopiesHold, PTL DEF Spec

(* A tenant that EnforceDelinquency suspended has, in memory and in the    *)
(* snapshot a restart loads, an open invoice whose payment reactivates it, *)
(* or an invoice whose settlement is under way, was cut short, or ended    *)
(* with a reactivation that was not saved: nothing else strands a tenant.  *)
THEOREM NobodyIsStranded == Spec => []NoStrandedTenant
<1>1. StrandInv => NoStrandedTenant
  BY DEF StrandInv
<1>2. QED
  BY <1>1, StrandHold, PTL
=============================================================================
