--------------------------- MODULE Checkout_proofs ---------------------------
(***************************************************************************)
(* Proofs about Checkout for every value of its constants.  Whatever the   *)
(* providers send, in whatever order and however often, the service takes  *)
(* only steps of ControlBilling: what is proved there holds here.          *)
(***************************************************************************)
EXTENDS Checkout, ControlBilling_proofs

(* Where the money is, and what was sent about it.                         *)
Begun(s) == session[s].state \in {"open", "collected", "acked"}
EventsOK ==
  /\ \A s \in Sessions : money[s] # "none" => Begun(s)
  /\ \A e \in sent : Begun(e.session)
  /\ \A e \in sent : Paid(e) => /\ session[e.session].state \in {"collected", "acked"}
                                /\ money[e.session] = "in"
  /\ \A s \in Sessions : confs[s] > 0 => money[s] = "in"
  /\ \A s \in Sessions : money[s] = "in" =>
       \/ provider[s] = "bitcoin"
       \/ provider[s] = "stripe" /\ Completed(s, "paid") \in sent

CheckoutInv == TypeInv /\ SessionsOK /\ OutsideOK /\ EventsOK
-----------------------------------------------------------------------------
(* What a session becomes in a step of the service.                        *)
LEMMA ServiceSessions ==
  ASSUME TypeOK, SessionsOK, ServiceStep, NEW s \in Sessions
  PROVE  \/ session'[s] = session[s]
         \/ /\ session'[s].inv = session[s].inv
            /\ \/ session[s].state = "asked" /\ session'[s].state = "open"
               \/ session[s].state \in {"collected", "acked"} /\ session'[s].state = "acked"
<1> DEFINE Goal == \/ session'[s] = session[s]
                   \/ /\ session'[s].inv = session[s].inv
                      /\ \/ session[s].state = "asked" /\ session'[s].state = "open"
                         \/ /\ session[s].state \in {"collected", "acked"}
                            /\ session'[s].state = "acked"
<1>1. session[s] \in SessionRec /\ session \in [Sessions -> SessionRec]
  BY DEF TypeOK
<1>2. ASSUME NEW r \in Sessions, NEW ok \in BOOLEAN, RecordCheckout(r, ok) PROVE Goal
  BY <1>1, <1>2 DEF RecordCheckout, SessionRec
<1>3. ASSUME NEW r \in Sessions, SkipRecordCheckout(r) PROVE Goal
  BY <1>1, <1>3 DEF SkipRecordCheckout, SessionRec
<1>4. ASSUME Acknowledge(job.via) PROVE Goal
  BY <1>1, <1>4 DEF Acknowledge, SessionRec, SessionsOK
<1>5. CASE JobStep
  <2>1. ASSUME UNCHANGED session PROVE Goal
    BY <2>1
  <2>2. ASSUME NEW a \in Accounts, NEW i \in InvoiceIds, NEW ok \in BOOLEAN,
               ChargeCollected(a, i, ok) \/ IssueOpenInvoice(a, i, ok)
        PROVE  Goal
    BY <2>1, <2>2 DEF ChargeCollected, IssueOpenInvoice
  <2>3. ASSUME NEW a \in Accounts, NEW ok \in BOOLEAN, AdvanceFree(a, ok) \/ Suspend(a, ok)
        PROVE  Goal
    BY <2>1, <2>3 DEF AdvanceFree, SaveAdvanced, Suspend
  <2>4. ASSUME NEW ok \in BOOLEAN, \/ IssuePaidInvoice(ok) \/ AdvanceBilled(ok)
                                   \/ RecordPayment(ok) \/ Reactivate(ok)
        PROVE  Goal
    BY <1>4, <2>1, <2>4 DEF IssuePaidInvoice, AdvanceBilled, SaveAdvanced, RecordPayment, Reactivate
  <2>5. CASE LeaveStatus
    BY <1>4, <2>5 DEF LeaveStatus
  <2>6. QED BY <1>5, <2>2, <2>3, <2>4, <2>5 DEF JobStep
<1>6. ASSUME UNCHANGED session PROVE Goal
  BY <1>6
<1>7. CASE StartBilling \/ StartEnforcement \/ Tick
  BY <1>6, <1>7 DEF StartBilling, StartEnforcement, Tick
<1>8. CASE \E p \in Plans, ok \in BOOLEAN : CreatePlan(p, ok)
  BY <1>6, <1>8 DEF CreatePlan
<1>9. CASE \E a \in Accounts, p \in Plans, ok \in BOOLEAN : CreateAccount(a, p, ok)
  BY <1>6, <1>9 DEF CreateAccount
<1>10. CASE \E a \in Accounts, st \in OperatorStatuses, ok \in BOOLEAN : SetStatus(a, st, ok)
  BY <1>6, <1>10 DEF SetStatus
<1>11. CASE \E a \in Accounts, i \in InvoiceIds, ok \in BOOLEAN : IssueInvoice(a, i, ok)
  BY <1>6, <1>11 DEF IssueInvoice
<1>12. CASE \E i \in InvoiceIds, ok \in BOOLEAN : PayInvoice(i, ok)
  BY <1>6, <1>12 DEF PayInvoice, Settle
<1>13. QED
  BY <1>2, <1>3, <1>5, <1>7, <1>8, <1>9, <1>10, <1>11, <1>12 DEF ServiceStep

(* Every step is a step of ControlBilling, or leaves its state alone.      *)
LEMMA Implements ==
  ASSUME TypeOK, OutsideOK, EventsOK, [CheckoutNext]_checkoutVars PROVE [Next]_vars
<1>1. ASSUME NEW a \in Accounts, NEW s \in Sessions, NEW i \in InvoiceIds, NEW p \in Names,
             AskProvider(a, s, i, p)
      PROVE  Next
  BY <1>1 DEF AskProvider, Next
<1>2. ASSUME NEW s \in Sessions, ProviderRefuses(s) \/ PayByCard(s) PROVE Next
  BY <1>2 DEF ProviderRefuses, PayByCard, Next
<1>3. ASSUME NEW s \in Sessions, PayByDebit(s) \/ DebitEnds(s) \/ Broadcast(s) \/ Confirm(s)
      PROVE  UNCHANGED vars
  BY <1>3 DEF PayByDebit, DebitEnds, Broadcast, Confirm
<1>4. ASSUME NEW s \in Sessions, Watch(s) PROVE [Next]_vars
  BY <1>4 DEF Watch, Next
<1>5. ASSUME NEW e \in sent, IsRepeated(e) PROVE [Next]_vars
  <2>1. e.session \in Sessions
    BY DEF OutsideOK, Event
  <2>2. CASE session[e.session].state = "collected"
    BY <1>5, <2>1, <2>2 DEF IsRepeated, AckWebhook, Webhook, Next
  <2>3. CASE session[e.session].state = "acked"
    <3>1. session' = session
      BY <1>5, <2>3 DEF IsRepeated, Acknowledge, TypeOK, SessionRec
    <3>2. QED BY <1>5, <3>1 DEF IsRepeated, vars
  <2>4. QED BY <1>5, <2>2, <2>3 DEF IsRepeated, EventsOK
<1>6. ASSUME NEW e \in sent, NEW ok \in BOOLEAN, Settles(e, ok) PROVE Next
  <2>1. e.session \in Sessions
    BY DEF OutsideOK, Event
  <2>2. HandleWebhook(e.session, ok)
    BY <1>6 DEF Settles, HandleWebhook, EventsOK
  <2>3. QED BY <2>1, <2>2 DEF Webhook, Next
<1>7. CASE Serve \/ Restart
  BY <1>7 DEF Serve, Restart, Next
<1>8. CASE UNCHANGED checkoutVars
  BY <1>8 DEF checkoutVars
<1>9. QED
  BY <1>1, <1>2, <1>3, <1>4, <1>5, <1>6, <1>7, <1>8 DEF CheckoutNext
-----------------------------------------------------------------------------
(* A checkout that is begun stays so, and for the same invoice; one that   *)
(* is not begun was not paid and no event was sent about it.               *)
LEMMA SessionsGo ==
  ASSUME TypeOK, SessionsOK, [Next]_vars, NEW s \in Sessions
  PROVE  /\ Begun(s) => Begun(s)' /\ session'[s].inv = session[s].inv
         /\ session[s].state \in {"collected", "acked"}
              => session'[s].state \in {"collected", "acked"}
<1> DEFINE Goal == /\ Begun(s) => Begun(s)' /\ session'[s].inv = session[s].inv
                   /\ session[s].state \in {"collected", "acked"}
                        => session'[s].state \in {"collected", "acked"}
<1>1. session \in [Sessions -> SessionRec]
  BY DEF TypeOK
<1>2. CASE ServiceStep
  BY <1>2, ServiceSessions DEF Begun
<1>3. ASSUME NEW r \in Sessions, NEW i \in InvoiceIds, StartCheckout(r, i) PROVE Goal
  BY <1>1, <1>3 DEF StartCheckout, NoSession, Begun
<1>4. ASSUME NEW r \in Sessions, ProviderFails(r) \/ CustomerPays(r) PROVE Goal
  BY <1>1, <1>4 DEF ProviderFails, CustomerPays, NoSession, Begun, SessionRec
<1>5. ASSUME NEW r \in Sessions, Webhook(r) PROVE Goal
  <2>1. CASE AckWebhook(r)
    BY <1>1, <2>1 DEF AckWebhook, Acknowledge, Begun, SessionRec
  <2>2. ASSUME NEW ok \in BOOLEAN, HandleWebhook(r, ok) PROVE Goal
    BY <2>2 DEF HandleWebhook, Settle, Begun
  <2>3. QED BY <1>5, <2>1, <2>2 DEF Webhook
<1>6. CASE Crash
  BY <1>1, <1>6 DEF Crash, NoSession, Begun
<1>7. CASE UNCHANGED vars
  BY <1>7 DEF vars, Begun
<1>8. QED
  BY <1>2, <1>3, <1>4, <1>5, <1>6, <1>7 DEF Next

(* The state outside the service keeps its shape.                          *)
LEMMA OutsideNext ==
  ASSUME OutsideOK, [CheckoutNext]_checkoutVars PROVE OutsideOK'
<1> USE DEF OutsideOK
<1>1. ASSUME NEW a \in Accounts, NEW s \in Sessions, NEW i \in InvoiceIds, NEW p \in Names,
             AskProvider(a, s, i, p)
      PROVE  OutsideOK'
  BY <1>1 DEF AskProvider, Get
<1>2. ASSUME NEW s \in Sessions, ProviderRefuses(s) PROVE OutsideOK'
  BY <1>2 DEF ProviderRefuses
<1>3. ASSUME NEW s \in Sessions, PayByCard(s) \/ PayByDebit(s) \/ DebitEnds(s)
      PROVE  OutsideOK'
  <2>1. \A st \in {"paid", "unpaid"} : {Completed(s, st), Async(s, st)} \subseteq Event
    BY DEF Completed, Async, Event
  <2>2. QED BY <1>3, <2>1 DEF PayByCard, PayByDebit, DebitEnds
<1>4. ASSUME NEW s \in Sessions, Broadcast(s) \/ Confirm(s) PROVE OutsideOK'
  BY <1>4 DEF Broadcast, Confirm
<1>5. ASSUME NEW s \in Sessions, Watch(s) PROVE OutsideOK'
  <2>1. Watched(s, confs[s]) \in Event
    BY DEF Watched, Event
  <2>2. QED BY <1>5, <2>1 DEF Watch
<1>6. ASSUME NEW e \in sent, NEW ok \in BOOLEAN, IsRepeated(e) \/ Settles(e, ok)
      PROVE  OutsideOK'
  BY <1>6 DEF IsRepeated, Settles, outside
<1>7. CASE Serve
  BY <1>7 DEF Serve, outside
<1>8. CASE Restart
  BY <1>8 DEF Restart
<1>9. CASE UNCHANGED checkoutVars
  BY <1>9 DEF checkoutVars, outside
<1>10. QED
  BY <1>1, <1>2, <1>3, <1>4, <1>5, <1>6, <1>7, <1>8, <1>9 DEF CheckoutNext

(* Events and money: what one more event, one more confirmation or one     *)
(* more session changes.                                                   *)
LEMMA EventsNext ==
  ASSUME TypeOK, SessionsOK, OutsideOK, EventsOK, [CheckoutNext]_checkoutVars
  PROVE  EventsOK'
<1>1. \A s \in Sessions : /\ Begun(s) => Begun(s)'
                          /\ session[s].state \in {"collected", "acked"}
                               => session'[s].state \in {"collected", "acked"}
  BY Implements, SessionsGo
<1>2. \A e \in sent : e.session \in Sessions
  BY DEF OutsideOK, Event
<1>3. ASSUME UNCHANGED outside PROVE EventsOK'
  BY <1>1, <1>2, <1>3 DEF EventsOK, outside, Paid, StripePaid, BitcoinPaid
<1>4. ASSUME \A s \in Sessions : Begun(s) => provider'[s] = provider[s],
             UNCHANGED <<money, confs, sent>>
      PROVE  EventsOK'
  <2>1. \A e \in sent : provider'[e.session] = provider[e.session]
    BY <1>2, <1>4 DEF EventsOK
  <2>2. \A e \in sent : Paid(e)' => Paid(e)
    BY <1>4, <2>1 DEF Paid, StripePaid, BitcoinPaid
  <2>3. \A s \in Sessions : money[s] = "in" => provider'[s] = provider[s]
    BY <1>4 DEF EventsOK
  <2>4. QED
    BY <1>1, <1>2, <1>4, <2>2, <2>3 DEF EventsOK
<1>5. ASSUME NEW a \in Accounts, NEW s \in Sessions, NEW i \in InvoiceIds, NEW p \in Names,
             AskProvider(a, s, i, p)
      PROVE  EventsOK'
  <2>1. session[s].state = "none"
    BY <1>5 DEF AskProvider, StartCheckout, NoSession
  <2>2. QED
    BY <1>4, <1>5, <2>1 DEF AskProvider, Begun, OutsideOK
<1>6. ASSUME NEW s \in Sessions, ProviderRefuses(s) PROVE EventsOK'
  BY <1>4, <1>6 DEF ProviderRefuses, ProviderFails, Begun, OutsideOK
<1>7. CASE Restart
  BY <1>4, <1>7 DEF Restart, Begun
<1>8. ASSUME NEW s \in Sessions, NEW e,
             e.session = s, sent' = sent \cup {e}, UNCHANGED <<provider, confs>>,
             \A r \in Sessions \ {s} : money'[r] = money[r],
             money[s] = "in" => money'[s] = "in",
             confs[s] > 0 => money'[s] = "in",
             Begun(s)',
             Paid(e) => money'[s] = "in" /\ session'[s].state \in {"collected", "acked"},
             money'[s] = "in" => \/ provider[s] = "bitcoin"
                                 \/ provider[s] = "stripe" /\ Completed(s, "paid") \in sent'
      PROVE  EventsOK'
  <2>1. \A f \in sent' : f \in sent \/ f = e
    BY <1>8
  <2>2. \A f : Paid(f)' <=> Paid(f)
    BY <1>8 DEF Paid, StripePaid, BitcoinPaid
  <2>3. \A r \in Sessions : money'[r] # "none" => Begun(r)'
    BY <1>1, <1>8 DEF EventsOK
  <2>4. \A f \in sent' : Begun(f.session)'
    BY <1>1, <1>2, <1>8, <2>1 DEF EventsOK
  <2>5. \A f \in sent' : Paid(f) => /\ session'[f.session].state \in {"collected", "acked"}
                                    /\ money'[f.session] = "in"
    BY <1>1, <1>2, <1>8, <2>1 DEF EventsOK
  <2>6. \A r \in Sessions : confs'[r] > 0 => money'[r] = "in"
    BY <1>8 DEF EventsOK
  <2>7. \A r \in Sessions : money'[r] = "in" =>
          \/ provider'[r] = "bitcoin"
          \/ provider'[r] = "stripe" /\ Completed(r, "paid") \in sent'
    BY <1>8 DEF EventsOK
  <2>8. QED
    BY <2>2, <2>3, <2>4, <2>5, <2>6, <2>7 DEF EventsOK
<1>9. ASSUME NEW s \in Sessions, PayByCard(s) PROVE EventsOK'
  <2>1. session'[s].state = "collected"
    BY <1>9 DEF PayByCard, CustomerPays, TypeOK, SessionRec
  <2>2. QED
    BY <1>8, <1>9, <2>1 DEF PayByCard, OutsideOK, Begun, Completed, Paid
<1>10. ASSUME NEW s \in Sessions, PayByDebit(s) \/ DebitEnds(s) PROVE EventsOK'
  <2>1. Begun(s) /\ session' = session
    BY <1>10 DEF PayByDebit, DebitEnds, Begun, EventsOK, vars
  <2>2. money[s] # "in" /\ ~(confs[s] > 0) /\ provider[s] = "stripe"
    BY <1>10 DEF PayByDebit, DebitEnds, EventsOK
  <2>3. ~Paid(Completed(s, "unpaid")) /\ ~Paid(Async(s, "paid")) /\ ~Paid(Async(s, "unpaid"))
    BY <2>2 DEF Paid, StripePaid, Completed, Async
  <2>4. ASSUME NEW e, e \in {Completed(s, "unpaid"), Async(s, "paid"), Async(s, "unpaid")}
        PROVE  e.session = s
    BY <2>4 DEF Completed, Async
  <2>5. PICK e \in {Completed(s, "unpaid"), Async(s, "paid"), Async(s, "unpaid")} :
          sent' = sent \cup {e}
    BY <1>10 DEF PayByDebit, DebitEnds
  <2>6. money'[s] # "in" /\ \A r \in Sessions \ {s} : money'[r] = money[r]
    BY <1>10 DEF PayByDebit, DebitEnds, OutsideOK
  <2>7. UNCHANGED <<provider, confs>>
    BY <1>10 DEF PayByDebit, DebitEnds
  <2>8. Begun(s)'
    BY <2>1 DEF Begun
  <2>9. QED
    BY <1>8, <2>2, <2>3, <2>4, <2>5, <2>6, <2>7, <2>8
<1>11. ASSUME NEW s \in Sessions, Broadcast(s) PROVE EventsOK'
  <2>1. Begun(s) /\ ~(confs[s] > 0)
    BY <1>11 DEF Broadcast, Begun, EventsOK
  <2>2. \A f : Paid(f)' <=> Paid(f)
    BY <1>11 DEF Broadcast, Paid, StripePaid, BitcoinPaid
  <2>3. \A r \in Sessions : r # s => money'[r] = money[r]
    BY <1>11 DEF Broadcast, OutsideOK
  <2>4. money[s] = "none" /\ money'[s] = "promised"
    BY <1>11 DEF Broadcast, OutsideOK
  <2>5. QED
    BY <1>1, <1>2, <1>11, <2>1, <2>2, <2>3, <2>4 DEF Broadcast, EventsOK
<1>12. ASSUME NEW s \in Sessions, Confirm(s) PROVE EventsOK'
  <2>1. \A f : Paid(f)' <=> Paid(f)
    BY <1>12 DEF Confirm, Paid, StripePaid, BitcoinPaid
  <2>2. \A r \in Sessions : r # s => money'[r] = money[r] /\ confs'[r] = confs[r]
    BY <1>12 DEF Confirm, OutsideOK
  <2>3. money[s] # "none" /\ money'[s] = "in" /\ provider[s] = "bitcoin"
    BY <1>12 DEF Confirm, OutsideOK
  <2>4. QED
    BY <1>1, <1>2, <1>12, <2>1, <2>2, <2>3 DEF Confirm, EventsOK
<1>13. ASSUME NEW s \in Sessions, Watch(s) PROVE EventsOK'
  <2> DEFINE e == Watched(s, confs[s])
  <2>1. e.session = s /\ e.confs = confs[s]
    BY DEF Watched
  <2>2. Begun(s)
    BY <1>13 DEF Watch, EventsOK
  <2>3. Begun(s)'
    BY <1>1, <2>2
  <2>4. Paid(e) => BitcoinPaid(e)
    BY <1>13, <2>1 DEF Paid, Watch
  <2>5. BitcoinPaid(e) => confs[s] > 0
    BY <2>1, ConfirmationsAssumption DEF BitcoinPaid, minConf, OutsideOK
  <2>6. Paid(e) => money[s] = "in"
    BY <2>4, <2>5 DEF EventsOK
  <2>7. Paid(e) => session'[s].state \in {"collected", "acked"}
    <3>1. CASE session[s].state = "open"
      BY <1>13, <2>4, <3>1 DEF Watch, CustomerPays, TypeOK, SessionRec
    <3>2. CASE session[s].state # "open"
      BY <1>1, <2>2, <3>2 DEF Begun
    <3>3. QED BY <3>1, <3>2
  <2>8. UNCHANGED <<provider, confs, money>> /\ sent' = sent \cup {e}
    BY <1>13 DEF Watch
  <2>9. provider[s] = "bitcoin" /\ (confs[s] > 0 => money[s] = "in")
    BY <1>13 DEF Watch, EventsOK
  <2> HIDE DEF e
  <2>10. QED
    BY <1>8, <2>1, <2>3, <2>6, <2>7, <2>8, <2>9
<1>14. ASSUME NEW e \in sent, NEW ok \in BOOLEAN, IsRepeated(e) \/ Settles(e, ok)
       PROVE  EventsOK'
  BY <1>3, <1>14 DEF IsRepeated, Settles
<1>15. CASE Serve \/ UNCHANGED checkoutVars
  BY <1>3, <1>15 DEF Serve, checkoutVars
<1>16. QED
  BY <1>5, <1>6, <1>7, <1>9, <1>10, <1>11, <1>12, <1>13, <1>14, <1>15 DEF CheckoutNext
-----------------------------------------------------------------------------
(* An invoice paid in memory or on disk was collected.                     *)
Collected(i) == \/ i \in otherwise
                \/ \E s \in Sessions : session[s].inv = i /\ money[s] = "in"
PaidInv == \A i \in InvoiceIds :
  mem.invoices[i].status = "paid" \/ disk.invoices[i].status = "paid" => Collected(i)

LEMMA CollectedNext ==
  ASSUME TypeOK, SessionsOK, OutsideOK, EventsOK, [CheckoutNext]_checkoutVars,
         NEW i \in InvoiceIds, Collected(i)
  PROVE  Collected(i)'
<1> DEFINE Kept == \A s \in Sessions : money[s] = "in" => money'[s] = "in"
<1>1. Kept
  <2>1. ASSUME NEW s \in Sessions, PayByCard(s) \/ PayByDebit(s) \/ DebitEnds(s) PROVE Kept
    BY <2>1 DEF PayByCard, PayByDebit, DebitEnds, OutsideOK
  <2>2. ASSUME NEW s \in Sessions, Broadcast(s) \/ Confirm(s) PROVE Kept
    BY <2>2 DEF Broadcast, Confirm, OutsideOK
  <2>3. ASSUME UNCHANGED money PROVE Kept
    BY <2>3
  <2>4. ASSUME NEW s \in Sessions, ProviderRefuses(s) \/ Watch(s) PROVE UNCHANGED money
    BY <2>4 DEF ProviderRefuses, Watch
  <2>5. ASSUME NEW e \in sent, NEW ok \in BOOLEAN, IsRepeated(e) \/ Settles(e, ok)
        PROVE  UNCHANGED money
    BY <2>5 DEF IsRepeated, Settles, outside
  <2>6. ASSUME NEW a \in Accounts, NEW s \in Sessions, NEW j \in InvoiceIds, NEW p \in Names,
               AskProvider(a, s, j, p)
        PROVE  UNCHANGED money
    BY <2>6 DEF AskProvider
  <2>7. CASE Serve \/ Restart \/ UNCHANGED checkoutVars
    BY <2>7 DEF Serve, Restart, checkoutVars, outside
  <2> HIDE DEF Kept
  <2>8. QED
    BY <2>1, <2>2, <2>3, <2>4, <2>5, <2>6, <2>7 DEF CheckoutNext
<1>2. \A s \in Sessions : money[s] = "in" => session'[s].inv = session[s].inv
  BY Implements, SessionsGo DEF EventsOK
<1>3. otherwise \subseteq otherwise'
  BY DEF CheckoutNext, checkoutVars, AskProvider, ProviderRefuses, PayByCard, PayByDebit,
    DebitEnds, Broadcast, Confirm, Watch, IsRepeated, Settles, Serve, Restart
<1>4. QED
  BY <1>1, <1>2, <1>3 DEF Collected

(* What a step pays for in memory, the operator or the charge paid for, or *)
(* an event of a checkout of the invoice; the disk only follows.           *)
LEMMA PaidNext ==
  ASSUME TypeInv, SessionsOK, OutsideOK, EventsOK, PaidInv, [CheckoutNext]_checkoutVars
  PROVE  PaidInv'
<1> USE DEF TypeInv
<1>1. \A i \in InvoiceIds : Collected(i) => Collected(i)'
  BY CollectedNext
<1>2. ASSUME \A i \in InvoiceIds : mem'.invoices[i].status = "paid" => Collected(i)',
             disk' \in {mem', disk}
      PROVE  PaidInv'
  BY <1>1, <1>2 DEF PaidInv
<1>3. ASSUME UNCHANGED <<mem, disk>> PROVE PaidInv'
  BY <1>1, <1>2, <1>3 DEF PaidInv
<1>4. ASSUME NEW e \in sent, NEW ok \in BOOLEAN, Settles(e, ok) PROVE PaidInv'
  <2> DEFINE inv == session[e.session].inv
  <2>1. e.session \in Sessions /\ money[e.session] = "in"
    BY <1>4 DEF Settles, EventsOK, OutsideOK, Event
  <2>2. mem'.invoices = [mem.invoices EXCEPT ![inv] = [mem.invoices[inv] EXCEPT !.status = "paid"]]
        /\ disk' = IF ok THEN mem' ELSE disk
    <3> DEFINE r == [mem.invoices[inv] EXCEPT !.status = "paid"]
    <3>1. SaveInvoice(inv, r, ok)
      BY <1>4 DEF Settles, Settle
    <3>2. TypeOK
      OBVIOUS
    <3> HIDE DEF inv, r
    <3>3. mem'.invoices = [mem.invoices EXCEPT ![inv] = r] /\ disk' = IF ok THEN mem' ELSE disk
      BY <3>1, <3>2 DEF TypeOK, Dataset, SaveInvoice, Write
    <3>4. QED BY <3>3, Zenon DEF r
  <2>3. Collected(inv)
    BY <2>1 DEF Collected
  <2>4. \A i \in InvoiceIds : mem'.invoices[i].status = "paid" => Collected(i)
    BY <2>2, <2>3 DEF PaidInv, TypeOK, Dataset
  <2>5. QED
    BY <1>1, <1>2, <2>2, <2>4
<1>5. CASE Serve
  <2>1. \A i \in InvoiceIds :
          mem'.invoices[i].status = "paid" => i \in otherwise' \/ mem.invoices[i].status = "paid"
    BY <1>5 DEF Serve, IsPaid
  <2>2. \A i \in InvoiceIds : mem'.invoices[i].status = "paid" => Collected(i)'
    BY <1>1, <2>1 DEF PaidInv, Collected
  <2>3. disk' \in {mem', disk}
    <3>1. \A m : \A ok \in BOOLEAN : Write(m, ok) => disk' \in {mem', disk}
      BY DEF Write
    <3>2. ASSUME UNCHANGED disk PROVE disk' \in {mem', disk}
      BY <3>2
    <3>3. CASE JobStep
      BY <3>1, <3>2, <3>3 DEF JobStep, ChargeCollected, IssueOpenInvoice, AdvanceFree, Suspend,
        IssuePaidInvoice, AdvanceBilled, SaveAdvanced, RecordPayment, Reactivate, LeaveStatus,
        SavePayment, SaveInvoice, SaveAccount, SetsStatus
    <3>4. CASE StartBilling \/ StartEnforcement \/ Tick
      BY <3>2, <3>4 DEF StartBilling, StartEnforcement, Tick
    <3>5. CASE \/ \E p \in Plans, ok \in BOOLEAN : CreatePlan(p, ok)
               \/ \E a \in Accounts, p \in Plans, ok \in BOOLEAN : CreateAccount(a, p, ok)
               \/ \E a \in Accounts, st \in OperatorStatuses, ok \in BOOLEAN : SetStatus(a, st, ok)
      BY <3>1, <3>5 DEF CreatePlan, CreateAccount, SetStatus, SavePlan, SaveAccount, SetsStatus
    <3>6. CASE \/ \E a \in Accounts, i \in InvoiceIds, ok \in BOOLEAN : IssueInvoice(a, i, ok)
               \/ \E i \in InvoiceIds, ok \in BOOLEAN : PayInvoice(i, ok)
      BY <3>1, <3>6 DEF IssueInvoice, PayInvoice, Settle, SaveInvoice
    <3>7. CASE \/ \E s \in Sessions, ok \in BOOLEAN : RecordCheckout(s, ok)
               \/ \E s \in Sessions : SkipRecordCheckout(s)
      BY <3>1, <3>2, <3>7 DEF RecordCheckout, SkipRecordCheckout, SaveInvoice
    <3>8. QED BY <1>5, <3>3, <3>4, <3>5, <3>6, <3>7 DEF Serve, ServiceStep
  <2>4. QED BY <1>2, <2>2, <2>3
<1>6. CASE Restart
  BY <1>1, <1>2, <1>6 DEF Restart, Crash, PaidInv
<1>7. ASSUME NEW s \in Sessions, \/ ProviderRefuses(s) \/ PayByCard(s) \/ PayByDebit(s)
                                 \/ DebitEnds(s) \/ Broadcast(s) \/ Confirm(s) \/ Watch(s)
      PROVE  UNCHANGED <<mem, disk>>
  BY <1>7 DEF ProviderRefuses, ProviderFails, PayByCard, CustomerPays, PayByDebit, DebitEnds,
    Broadcast, Confirm, Watch, vars
<1>8. ASSUME NEW a \in Accounts, NEW s \in Sessions, NEW i \in InvoiceIds, NEW p \in Names,
             AskProvider(a, s, i, p)
      PROVE  UNCHANGED <<mem, disk>>
  BY <1>8 DEF AskProvider, StartCheckout
<1>9. ASSUME NEW e \in sent, IsRepeated(e) PROVE UNCHANGED <<mem, disk>>
  BY <1>9 DEF IsRepeated
<1>10. CASE UNCHANGED checkoutVars
  BY <1>3, <1>10 DEF checkoutVars, vars
<1>11. QED
  BY <1>3, <1>4, <1>5, <1>6, <1>7, <1>8, <1>9, <1>10 DEF CheckoutNext
-----------------------------------------------------------------------------
(* The inductive invariant of the composition.                             *)
LEMMA CheckoutInvariant == CheckoutSpec => [](CheckoutInv /\ PaidInv)
<1>1. CheckoutInit => CheckoutInv /\ PaidInv
  <2>1. CheckoutInit => TypeInv /\ SessionsOK
    BY InitType DEF CheckoutInit
  <2>2. CheckoutInit => OutsideOK
    BY DEF CheckoutInit, OutsideOK
  <2>3. CheckoutInit => EventsOK
    BY DEF CheckoutInit, EventsOK
  <2>4. CheckoutInit => PaidInv
    BY DEF CheckoutInit, Init, EmptyDataset, NoInvoice, PaidInv
  <2>5. QED BY <2>1, <2>2, <2>3, <2>4 DEF CheckoutInv
<1>2. CheckoutInv /\ PaidInv /\ [CheckoutNext]_checkoutVars => (CheckoutInv /\ PaidInv)'
  <2> SUFFICES ASSUME CheckoutInv, PaidInv, [CheckoutNext]_checkoutVars
               PROVE  (CheckoutInv /\ PaidInv)'
    OBVIOUS
  <2> USE DEF CheckoutInv
  <2>1. [Next]_vars
    BY Implements DEF TypeInv
  <2>2. (TypeInv /\ SessionsOK)'
    BY <2>1, NextType, NextSessions DEF TypeInv
  <2>3. OutsideOK'
    BY OutsideNext
  <2>4. EventsOK'
    BY EventsNext DEF TypeInv
  <2>5. PaidInv'
    BY PaidNext
  <2>6. QED BY <2>2, <2>3, <2>4, <2>5
<1>3. QED
  BY <1>1, <1>2, PTL DEF CheckoutSpec

(* No step of the composition, whatever a provider sends and whenever it   *)
(* arrives, is one that ControlBilling does not allow.                     *)
THEOREM CheckoutImplements == CheckoutSpec => ServicePromise
<1>1. CheckoutInit => Init
  BY DEF CheckoutInit
<1>2. CheckoutInv /\ [CheckoutNext]_checkoutVars => [Next]_vars
  BY Implements DEF CheckoutInv, TypeInv
<1>3. QED
  BY <1>1, <1>2, CheckoutInvariant, PTL DEF CheckoutSpec, ServicePromise

(* No invoice is settled by an event of a promise, of an unconfirmed       *)
(* transaction or of another checkout, for any number of confirmations.    *)
THEOREM PaidCollected == CheckoutSpec => []PaidIsCollected
<1>1. PaidInv => PaidIsCollected
  BY DEF PaidInv, PaidIsCollected, Collected, IsPaid
<1>2. QED
  BY <1>1, CheckoutInvariant, PTL

(* Money that is in on time can always settle its invoice.                 *)
THEOREM MoneyNoticed == CheckoutSpec => []MoneyIsNoticed
<1>1. CheckoutInv => MoneyIsNoticed
  <2> SUFFICES ASSUME CheckoutInv, NEW s \in Sessions, money[s] = "in"
               PROVE  \/ \E e \in sent : e.session = s /\ Paid(e)
                      \/ /\ provider[s] = "bitcoin"
                         /\ confs[s] < minConf \/ Watched(s, confs[s]) \notin sent
    BY DEF MoneyIsNoticed
  <2>1. CASE provider[s] = "stripe" /\ Completed(s, "paid") \in sent
    BY <2>1 DEF Completed, Paid, StripePaid
  <2>2. CASE provider[s] = "bitcoin" /\ confs[s] >= minConf /\ Watched(s, confs[s]) \in sent
    BY <2>2 DEF Watched, Paid, BitcoinPaid
  <2>3. confs[s] \in Nat /\ minConf \in Nat
    BY ConfirmationsAssumption DEF CheckoutInv, OutsideOK, minConf
  <2>4. QED
    BY <2>1, <2>2, <2>3 DEF CheckoutInv, EventsOK
<1>2. QED
  BY <1>1, CheckoutInvariant, PTL

(* The ledger stays consistent behind real providers.                      *)
THEOREM CheckoutLedger == CheckoutSpec => []LedgerConsistent
BY CheckoutImplements, LedgerIsConsistent, PTL DEF ServicePromise, Spec

(* The state of every checkout outside the service keeps its shape: only a *)
(* registered provider ever holds one.                                     *)
THEOREM OutsideTyped == CheckoutSpec => []OutsideOK
<1>1. CheckoutInv => OutsideOK
  BY DEF CheckoutInv
<1>2. QED
  BY <1>1, CheckoutInvariant, PTL

(* Behind real providers too, what is paid has its payment, and what was   *)
(* answered 200 is in the snapshot, whatever events arrive and how often.  *)
THEOREM CheckoutReceipted == CheckoutSpec => [](PaidHasPayment /\ AckedIsRecorded)
BY CheckoutImplements, PaidIsReceipted, AckedStaysRecorded, PTL DEF ServicePromise, Spec

(* No event that a provider sends makes a paid invoice open again.         *)
THEOREM CheckoutPaidStays == CheckoutSpec => PaidIsFinal
BY CheckoutImplements, PaidStaysPaid, PTL DEF ServicePromise, Spec

(* What RunBilling and EnforceDelinquency keep for the tenants they keep   *)
(* with the webhooks of real providers running in between.                 *)
THEOREM CheckoutTenants ==
  CheckoutSpec => [](NoPeriodSkipped /\ BilledOnce /\ ChargedIsInvoiced /\ NoStrandedTenant)
BY CheckoutImplements, NothingSkipped, NothingBilledTwice, ChargesAreInvoiced,
   NobodyIsStranded, PTL DEF ServicePromise, Spec
=============================================================================
