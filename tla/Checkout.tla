------------------------------ MODULE Checkout ------------------------------
(***************************************************************************)
(* The payment middleware: the providers of core/payment behind the        *)
(* routes of core/control/api.go, composed with the service that           *)
(* ControlBilling models.  There a provider only says that a checkout was  *)
(* paid; here it sends events, some of which report no payment, as often   *)
(* as it likes and in any order, and VerifyWebhook reads them.             *)
(***************************************************************************)
EXTENDS ControlBilling

CONSTANTS
  Registered,        \* what buildPayments registers
  MinConfirmations,  \* BITCOIN_MIN_CONF; 0 when it is not set
  MaxConfirmations   \* bound: the confirmations a watcher counts

Providers == {"manual", "stripe", "bitcoin"}
Names     == Providers \cup {"another"}     \* what --provider may be given

ASSUME ProvidersAssumption ==
  /\ Registered \subseteq Providers /\ "manual" \in Registered
  /\ None \notin Names
ASSUME ConfirmationsAssumption == MinConfirmations \in Nat /\ MaxConfirmations \in Nat

VARIABLES
  provider,          \* of each checkout
  money,             \* of each checkout: promised, failed, in, or in late
  confs,             \* the confirmations of the payer's transaction
  sent,              \* the events sent: any of them may arrive again, in any order
  otherwise          \* history: the invoices paid, but not by a webhook

outside == <<provider, money, confs, sent>>
checkoutVars == <<vars, outside, otherwise>>

Event == [session : Sessions, type : {"completed", "async"}, status : {"paid", "unpaid"}]
         \cup [session : Sessions, confs : Nat]
Completed(s, status) == [session |-> s, type |-> "completed", status |-> status]
Async(s, status)     == [session |-> s, type |-> "async", status |-> status]
Watched(s, n)        == [session |-> s, confs |-> n]

CheckoutInit ==
  /\ Init
  /\ provider = [s \in Sessions |-> None]
  /\ money = [s \in Sessions |-> "none"]
  /\ confs = [s \in Sessions |-> 0]
  /\ sent = {} /\ otherwise = {}
-----------------------------------------------------------------------------
(* VerifyWebhook of each provider: whether an authentic event says paid.   *)

AnyCompleted(e) == e.type = "completed"    \* a mistake: payment_status not read
StripePaid(e) == e.type = "completed" /\ e.status = "paid"

Unclamped == MinConfirmations        \* a mistake: zero confirmations are taken
minConf   == IF MinConfirmations < 1 THEN 1 ELSE MinConfirmations

OneMore(e) == e.confs > minConf      \* a mistake: one confirmation too many
BitcoinPaid(e) == e.confs >= minConf

Paid(e) == \/ provider[e.session] = "stripe" /\ StripePaid(e)
           \/ provider[e.session] = "bitcoin" /\ BitcoinPaid(e)
-----------------------------------------------------------------------------
AnyName(p) == TRUE                   \* a mistake: the registry is not asked
Get(p)     == p \in Registered

(* checkout: an account asks for a session of one of its own invoices.     *)
AskProvider(a, s, i, p) ==
  /\ Exists(a) /\ mem.invoices[i].acct = a
  /\ Get(p)
  /\ StartCheckout(s, i)
  /\ provider' = [provider EXCEPT ![s] = p]
  /\ UNCHANGED <<money, confs, sent, otherwise>>

(* Only Stripe is asked over a network: the others answer from memory.     *)
ProviderRefuses(s) ==
  /\ provider[s] = "stripe"
  /\ ProviderFails(s)
  /\ provider' = [provider EXCEPT ![s] = None]
  /\ UNCHANGED <<money, confs, sent, otherwise>>

(* The payer at the hosted page of Stripe, by a card, or by a method that  *)
(* takes days: then the session is completed first and unpaid.             *)
PayByCard(s) ==
  /\ provider[s] = "stripe" /\ money[s] = "none"
  /\ CustomerPays(s)
  /\ money' = [money EXCEPT ![s] = "in"]
  /\ sent' = sent \cup {Completed(s, "paid")}
  /\ UNCHANGED <<provider, confs, otherwise>>

PayByDebit(s) ==
  /\ provider[s] = "stripe" /\ money[s] = "none" /\ session[s].state = "open"
  /\ money' = [money EXCEPT ![s] = "promised"]
  /\ sent' = sent \cup {Completed(s, "unpaid")}
  /\ UNCHANGED <<vars, provider, confs, otherwise>>

DebitEnds(s) ==
  /\ provider[s] = "stripe" /\ money[s] = "promised"
  /\ \/ money' = [money EXCEPT ![s] = "late"] /\ sent' = sent \cup {Async(s, "paid")}
     \/ money' = [money EXCEPT ![s] = "failed"] /\ sent' = sent \cup {Async(s, "unpaid")}
  /\ UNCHANGED <<vars, provider, confs, otherwise>>

(* The payer broadcasts a transaction; blocks confirm it.                  *)
Broadcast(s) ==
  /\ provider[s] = "bitcoin" /\ money[s] = "none" /\ session[s].state = "open"
  /\ money' = [money EXCEPT ![s] = "promised"]
  /\ UNCHANGED <<vars, provider, confs, sent, otherwise>>

Confirm(s) ==
  /\ provider[s] = "bitcoin" /\ money[s] # "none" /\ confs[s] < MaxConfirmations
  /\ money' = [money EXCEPT ![s] = "in"]
  /\ confs' = [confs EXCEPT ![s] = @ + 1]
  /\ UNCHANGED <<vars, provider, sent, otherwise>>

(* The watcher reports what it counts; the first report that suffices is   *)
(* the payment that ControlBilling knows.                                  *)
Watch(s) ==
  /\ provider[s] = "bitcoin" /\ money[s] # "none" /\ Watched(s, confs[s]) \notin sent
  /\ IF BitcoinPaid(Watched(s, confs[s])) /\ session[s].state = "open"
     THEN CustomerPays(s) ELSE UNCHANGED vars
  /\ sent' = sent \cup {Watched(s, confs[s])}
  /\ UNCHANGED <<provider, money, confs, otherwise>>
-----------------------------------------------------------------------------
(* webhook and HandleWebhook.  An event that reports no payment, or that   *)
(* fails verification, changes nothing, whatever it is answered.           *)
Settles(e, ok) ==
  /\ Paid(e)
  /\ Settle(session[e.session].inv, {e.session}, ok)
  /\ UNCHANGED <<outside, otherwise>>

IsRepeatedUnlocked(e) ==             \* a mistake: answered while a settlement is under way
  /\ Paid(e) /\ IsPaid(session[e.session].inv)
  /\ Acknowledge({e.session})
  /\ UNCHANGED <<mem, disk, job, now, drawn, failures, crashes, decided, kept, cut>>
  /\ UNCHANGED <<outside, otherwise>>

IsRepeated(e) ==
  /\ Unlocked
  /\ Paid(e) /\ IsPaid(session[e.session].inv)
  /\ Acknowledge({e.session})
  /\ UNCHANGED <<mem, disk, job, now, drawn, failures, crashes, decided, kept, cut>>
  /\ UNCHANGED <<outside, otherwise>>

(* The service and its operator, who settles what the manual provider and  *)
(* the late payments leave open.                                           *)
Serve ==
  /\ ServiceStep
  /\ otherwise' = otherwise \cup {i \in InvoiceIds : mem'.invoices[i].status = "paid" /\ ~IsPaid(i)}
  /\ UNCHANGED outside

Restart ==
  /\ Crash
  /\ provider' = [s \in Sessions |-> IF session[s].state = "asked" THEN None
                                     ELSE provider[s]]
  /\ UNCHANGED <<money, confs, sent, otherwise>>

CheckoutNext ==
  \/ \E a \in Accounts, s \in Sessions, i \in InvoiceIds, p \in Names : AskProvider(a, s, i, p)
  \/ \E s \in Sessions : \/ ProviderRefuses(s)
                         \/ PayByCard(s) \/ PayByDebit(s) \/ DebitEnds(s)
                         \/ Broadcast(s) \/ Confirm(s) \/ Watch(s)
  \/ \E e \in sent : IsRepeated(e) \/ \E ok \in BOOLEAN : Settles(e, ok)
  \/ Serve \/ Restart

CheckoutSpec == CheckoutInit /\ [][CheckoutNext]_checkoutVars
-----------------------------------------------------------------------------
(* Properties *)

(* The state of every checkout outside the service keeps its shape.        *)
OutsideOK ==
  /\ provider \in [Sessions -> Registered \cup {None}]
  /\ money \in [Sessions -> {"none", "promised", "in", "late", "failed"}]
  /\ confs \in [Sessions -> Nat]
  /\ sent \subseteq Event /\ otherwise \subseteq InvoiceIds

(* An invoice is paid only if a checkout of it collected its money, or the *)
(* operator or the automatic charge settled it: no event of a promise, of  *)
(* an unconfirmed transaction, or of another checkout settles an invoice.  *)
PaidIsCollected == \A i \in InvoiceIds : IsPaid(i) =>
  \/ i \in otherwise
  \/ \E s \in Sessions : session[s].inv = i /\ money[s] = "in"

(* Money that is in can settle its invoice: an event that says paid was    *)
(* sent, unless the watcher has yet to report the block.  Only a payment   *)
(* that cleared after its session was completed has none, ever.            *)
MoneyIsNoticed == \A s \in Sessions : money[s] = "in" =>
  \/ \E e \in sent : e.session = s /\ Paid(e)
  \/ provider[s] = "bitcoin" /\ (confs[s] < minConf \/ Watched(s, confs[s]) \notin sent)

(* Every step is one that ControlBilling allows: an event settles or is    *)
(* answered only where ControlBilling says the provider has been paid.     *)
ServicePromise == Init /\ [][Next]_vars
=============================================================================
