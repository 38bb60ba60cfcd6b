--------------------------- MODULE BillingPromise ---------------------------
(***************************************************************************)
(* What the control plane promises its tenants about money, with every     *)
(* handler atomic: each period of a priced tenant is billed by one invoice *)
(* in the step that advances the period; an invoice is settled in one step *)
(* with its receipt and the reactivation of its tenant; a tenant is        *)
(* suspended only while it has an overdue invoice.  A fault may void the   *)
(* promise to a tenant, and to no other one.                               *)
(***************************************************************************)
EXTENDS Integers

CONSTANTS Accounts, InvoiceIds, DecidedStatuses, PeriodLength, Grace, None

VARIABLES tenant, invoice, now
vars == <<tenant, invoice, now>>

NoTenant == [status |-> "none", void |-> FALSE, priced |-> FALSE, start |-> 0, end |-> 0]
Void     == [status |-> "none", void |-> TRUE, priced |-> FALSE, start |-> 0, end |-> 0]
NoInvoice == [acct |-> None, state |-> "none", start |-> 0, end |-> 0, created |-> 0]

Init == /\ tenant = [a \in Accounts |-> NoTenant]
        /\ invoice = [i \in InvoiceIds |-> NoInvoice]
        /\ now = 0

Served(a) == tenant[a].status # "none"
OpenOf(a) == {i \in InvoiceIds : invoice[i].acct = a /\ invoice[i].state = "open"}
Advance(a) == tenant' = [tenant EXCEPT ![a].start = tenant[a].end,
                                       ![a].end = tenant[a].end + PeriodLength]

Join(a, priced) ==
  /\ tenant[a].status = "none" /\ ~tenant[a].void
  /\ tenant' = [tenant EXCEPT ![a] = [status |-> "active", void |-> FALSE, priced |-> priced,
                                      start |-> now, end |-> now + PeriodLength]]
  /\ UNCHANGED <<invoice, now>>

Decide(a, st) ==
  /\ Served(a)
  /\ tenant' = [tenant EXCEPT ![a].status = st]
  /\ UNCHANGED <<invoice, now>>

(* One invoice for the whole period that ended, decided on at t.           *)
BillPeriod(a, i, state, t) ==
  /\ Served(a) /\ tenant[a].priced /\ invoice[i].state = "none"
  /\ tenant[a].status # "closed"
  /\ tenant[a].end <= t /\ t <= now
  /\ invoice' = [invoice EXCEPT ![i] =
       [acct |-> a, state |-> state, start |-> tenant[a].start,
        end |-> tenant[a].end, created |-> t]]
  /\ Advance(a)
  /\ UNCHANGED now

PassFreePeriod(a) ==
  /\ Served(a) /\ ~tenant[a].priced /\ tenant[a].end <= now
  /\ tenant[a].status # "closed"
  /\ Advance(a)
  /\ UNCHANGED <<invoice, now>>

TopUp(a, i) ==
  /\ Served(a) /\ invoice[i].state = "none"
  /\ invoice' = [invoice EXCEPT ![i] =
       [acct |-> a, state |-> "open", start |-> now, end |-> now, created |-> now]]
  /\ UNCHANGED <<tenant, now>>

(* "settled": paid, with one receipt.                                      *)
Settle(i) ==
  /\ invoice[i].state = "open"
  /\ invoice' = [invoice EXCEPT ![i].state = "settled"]
  /\ LET a == invoice[i].acct
     IN  tenant' = IF tenant[a].status = "suspended" /\ OpenOf(a) = {i}
                   THEN [tenant EXCEPT ![a].status = "active"] ELSE tenant
  /\ UNCHANGED now

Suspend(a) ==
  /\ tenant[a].status = "active"
  /\ \E i \in OpenOf(a) : invoice[i].created < now - Grace
  /\ tenant' = [tenant EXCEPT ![a].status = "suspended"]
  /\ UNCHANGED <<invoice, now>>

Abandon(a) ==
  /\ Served(a)
  /\ tenant' = [tenant EXCEPT ![a] = Void]
  /\ invoice' = [i \in InvoiceIds |-> IF invoice[i].acct = a THEN NoInvoice ELSE invoice[i]]
  /\ UNCHANGED now

Tick == now' = now + 1 /\ UNCHANGED <<tenant, invoice>>

Next ==
  \/ \E a \in Accounts : \/ \E priced \in BOOLEAN : Join(a, priced)
                         \/ \E st \in DecidedStatuses : Decide(a, st)
                         \/ PassFreePeriod(a) \/ Suspend(a) \/ Abandon(a)
  \/ \E a \in Accounts, i \in InvoiceIds :
       \/ TopUp(a, i)
       \/ \E state \in {"open", "settled"}, t \in 0 .. now : BillPeriod(a, i, state, t)
  \/ \E i \in InvoiceIds : Settle(i)
  \/ Tick

Spec == Init /\ [][Next]_vars
=============================================================================
