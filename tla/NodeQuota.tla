------------------------------ MODULE NodeQuota ------------------------------
(***************************************************************************)
(* Storage nodes in per-account mode (core/node with WithQuota) against    *)
(* the space accounting of the control plane (Service.Reserve, Release).   *)
(* A PUT probes its backend, asks the control server to charge the tenant  *)
(* for a block the node does not hold, and stores the block; PUTs run      *)
(* concurrently, on several nodes, with nothing locked between the three.  *)
(* The control server handles a call in one step, under Service.mu, over a *)
(* dataset that it rewrites to disk after each change.                     *)
(***************************************************************************)
EXTENDS Integers, FiniteSets

CONSTANTS
  Nodes, Accounts, Blocks,
  Requests,          \* the PUTs that may be under way at once
  Size, Quota,       \* of a block, and of the plan every account is on
  DirectAmounts,     \* what tenants reserve or release by calling the API
  MaxInt,            \* the largest value of the counter (an int64)
  None,
  MaxFailures, MaxCrashes, MaxDirect      \* bounds of a finite instance

ASSUME SpaceAssumption ==
  /\ Size \in Nat \ {0} /\ Quota \in Nat \ {0} /\ MaxInt \in Nat
  /\ DirectAmounts \subseteq 0 .. MaxInt
  /\ Quota + Size <= MaxInt          \* maxBody is far below the range of int64
ASSUME NoneAssumption == None \notin Nodes \cup Accounts \cup Blocks
ASSUME LimitsAssumption == MaxFailures \in Nat /\ MaxCrashes \in Nat /\ MaxDirect \in Nat

VARIABLES
  mem, disk,   \* the control server's books: usage and status per account
  held,        \* the blocks each node holds
  req,         \* the PUTs under way
  failures, crashes, direct,
  charges,     \* history: how often a block of a node was charged for
  owner,       \* history: the account a block of a node was first stored for
  released,    \* history: what Release took off the usage of an account
  excused,     \* history: blocks with a fault or two PUTs at once
  wrapped      \* history: accounts whose usage counter overflowed

vars == <<mem, disk, held, req, failures, crashes, direct,
          charges, owner, released, excused, wrapped>>
books == <<mem, disk, released, wrapped>>
Places == Nodes \X Blocks
-----------------------------------------------------------------------------
NoRequest == [pc |-> "free", node |-> None, acct |-> None, block |-> None]

Init ==
  /\ mem = [used |-> [a \in Accounts |-> 0], status |-> [a \in Accounts |-> "active"]]
  /\ disk = mem
  /\ held = [n \in Nodes |-> {}]
  /\ req = [q \in Requests |-> NoRequest]
  /\ failures = 0 /\ crashes = 0 /\ direct = 0
  /\ charges = [x \in Places |-> 0]
  /\ owner = [x \in Places |-> None]
  /\ released = [a \in Accounts |-> 0]
  /\ excused = {} /\ wrapped = {}

Place(q) == <<req[q].node, req[q].block>>
InUse(x) == {q \in Requests : req[q].pc # "free" /\ Place(q) = x}
To(q, pc) == req' = [req EXCEPT ![q].pc = pc]
Finish(q) == req' = [req EXCEPT ![q] = NoRequest]
Excuse(S) == excused' = excused \cup S
-----------------------------------------------------------------------------
(* The control server.  A definition marked "a mistake" is a wrong variant *)
(* of the one after it, and is used only to show a property tells them     *)
(* apart.                                                                  *)

(* The memory changes first; the rewrite of the snapshot may fail.         *)
Write(m, ok) ==
  /\ ok \/ failures < MaxFailures
  /\ mem' = m
  /\ disk' = IF ok THEN m ELSE disk
  /\ failures' = IF ok THEN failures ELSE failures + 1

(* Sums and differences of two counters wrap around as those of int64 do.  *)
Wrap(n) == IF n > MaxInt THEN n - 2 * (MaxInt + 1)
           ELSE IF n < -MaxInt - 1 THEN n + 2 * (MaxInt + 1) ELSE n

FitsAlready(a, n) == mem.used[a] <= Quota                  \* a mistake
Fits(a, n)     == Wrap(mem.used[a] + n) <= Quota
Added(a, n)    == Wrap(mem.used[a] + n)                   \* a mistake: a sign error
Less(a, n)     == LET left == Wrap(mem.used[a] - n) IN IF left < 0 THEN 0 ELSE left
Admits(a, n)   == mem.status[a] = "active" /\ Fits(a, n)

Reserve(a, n, ok) ==
  /\ Admits(a, n)
  /\ Write([mem EXCEPT !.used[a] = Wrap(@ + n)], ok)
  /\ wrapped' = IF mem.used[a] + n > MaxInt THEN wrapped \cup {a} ELSE wrapped
  /\ UNCHANGED released

Release(a, n, ok) ==
  /\ Write([mem EXCEPT !.used[a] = Less(a, n)], ok)
  /\ released' = [released EXCEPT ![a] = @ + (mem.used[a] - Less(a, n))]
  /\ UNCHANGED wrapped

(* A tenant or an operator calls the API itself; the number of such calls,  *)
(* changes of status included, is a bound.                                  *)
DirectCall(a, n, ok) ==
  /\ direct < MaxDirect
  /\ direct' = direct + 1
  /\ Reserve(a, n, ok) \/ Release(a, n, ok)
  /\ UNCHANGED <<held, req, crashes, charges, owner, excused>>

SetStatus(a, st, ok) ==
  /\ mem.status[a] # st
  /\ direct < MaxDirect
  /\ direct' = direct + 1
  /\ Write([mem EXCEPT !.status[a] = st], ok)
  /\ UNCHANGED <<held, req, crashes, charges, owner, released, excused, wrapped>>

ControlCrash ==
  /\ crashes < MaxCrashes
  /\ crashes' = crashes + 1
  /\ mem' = disk
  /\ UNCHANGED <<disk, held, req, failures, direct, charges, owner, released, excused, wrapped>>
-----------------------------------------------------------------------------
(* A PUT at a node *)

(* The bytes of an accepted PUT hash to its address, so a block stands for *)
(* both.                                                                   *)
Arrive(q, n, a, b) ==
  /\ req[q].pc = "free"
  /\ req' = [req EXCEPT ![q] = [pc |-> "probe", node |-> n, acct |-> a, block |-> b]]
  /\ Excuse(IF InUse(<<n, b>>) = {} THEN {} ELSE {<<n, b>>})
  /\ UNCHANGED <<books, held, failures, crashes, direct, charges, owner>>

ProbeNothing(q) ==                   \* a mistake: a block held is charged again
  /\ req[q].pc = "probe"
  /\ To(q, "reserve")
  /\ UNCHANGED <<books, held, failures, crashes, direct, charges, owner, excused>>

Probe(q) ==
  /\ req[q].pc = "probe"
  /\ To(q, IF req[q].block \in held[req[q].node] THEN "put" ELSE "reserve")
  /\ UNCHANGED <<books, held, failures, crashes, direct, charges, owner, excused>>

(* An error of Has is ignored, and the block taken for absent.             *)
ProbeFails(q) ==
  /\ req[q].pc = "probe"
  /\ failures < MaxFailures
  /\ failures' = failures + 1
  /\ To(q, "reserve")
  /\ Excuse({Place(q)})
  /\ UNCHANGED <<books, held, crashes, direct, charges, owner>>

GrantUnsaved(q, ok) ==               \* a mistake: an error of SaveUsage is ignored
  /\ req[q].pc = "reserve"
  /\ Reserve(req[q].acct, Size, ok)
  /\ charges' = [charges EXCEPT ![Place(q)] = @ + 1]
  /\ To(q, "granted")
  /\ UNCHANGED <<held, crashes, direct, owner, excused>>

(* The control server charges; when the charge is not saved it stays in    *)
(* memory and the call fails.                                              *)
ControlReserve(q, ok) ==
  /\ req[q].pc = "reserve"
  /\ Reserve(req[q].acct, Size, ok)
  /\ charges' = [charges EXCEPT ![Place(q)] = @ + 1]
  /\ IF ok THEN To(q, "granted") /\ UNCHANGED excused
           ELSE Finish(q) /\ Excuse({Place(q)})
  /\ UNCHANGED <<held, crashes, direct, owner>>

(* Over the quota or not active: the PUT is answered 507 or 403.           *)
ControlRefuse(q) ==
  /\ req[q].pc = "reserve"
  /\ ~Admits(req[q].acct, Size)
  /\ Finish(q)
  /\ UNCHANGED <<books, held, failures, crashes, direct, charges, owner, excused>>

ReceiveGrant(q) ==
  /\ req[q].pc = "granted"
  /\ To(q, "put")
  /\ UNCHANGED <<books, held, failures, crashes, direct, charges, owner, excused>>

WaitForever(q) == FALSE /\ UNCHANGED vars    \* a mistake: a client without a timeout

(* The call is lost, answered too late, or its answer is: after 15 seconds *)
(* the node refuses the PUT.                                               *)
TimeOut(q) ==
  /\ req[q].pc \in {"reserve", "granted"}
  /\ IF req[q].pc = "reserve" THEN To(q, "late") ELSE Finish(q)
  /\ Excuse({Place(q)})
  /\ UNCHANGED <<books, held, failures, crashes, direct, charges, owner>>

(* The call the node has given up reaches the control server after all.    *)
LateReserve(q, ok) ==
  /\ req[q].pc = "late"
  /\ Reserve(req[q].acct, Size, ok)
  /\ charges' = [charges EXCEPT ![Place(q)] = @ + 1]
  /\ Finish(q)
  /\ UNCHANGED <<held, crashes, direct, owner, excused>>

DropLate(q) ==
  /\ req[q].pc = "late"
  /\ Finish(q)
  /\ UNCHANGED <<books, held, failures, crashes, direct, charges, owner, excused>>

(* The backend keeps a block it already has.                               *)
StoreBlock(q) ==
  /\ req[q].pc = "put"
  /\ held' = [held EXCEPT ![req[q].node] = @ \cup {req[q].block}]
  /\ owner' = IF req[q].block \in held[req[q].node] THEN owner
              ELSE [owner EXCEPT ![Place(q)] = req[q].acct]
  /\ Finish(q)
  /\ UNCHANGED <<books, failures, crashes, direct, charges, excused>>

(* The PUT is answered 500, and what was reserved for it stays reserved.   *)
StoreFails(q) ==
  /\ req[q].pc = "put"
  /\ failures < MaxFailures
  /\ failures' = failures + 1
  /\ Finish(q)
  /\ Excuse({Place(q)})
  /\ UNCHANGED <<books, held, crashes, direct, charges, owner>>

(* The node dies: what it stored stays, the PUTs it was serving are gone.  *)
NodeCrash(n) ==
  /\ crashes < MaxCrashes
  /\ crashes' = crashes + 1
  /\ req' = [q \in Requests |->
       IF req[q].node # n \/ req[q].pc = "late" THEN req[q]
       ELSE IF req[q].pc = "reserve" THEN [req[q] EXCEPT !.pc = "late"] ELSE NoRequest]
  /\ Excuse({Place(q) : q \in {r \in Requests : /\ req[r].node = n
                                                /\ req[r].pc # "probe"}})
  /\ UNCHANGED <<books, held, failures, direct, charges, owner>>

NodeStep(q) == Probe(q) \/ ReceiveGrant(q) \/ TimeOut(q) \/ StoreBlock(q)

Next ==
  \/ \E a \in Accounts, ok \in BOOLEAN :
       \/ \E n \in DirectAmounts : DirectCall(a, n, ok)
       \/ \E st \in {"active", "suspended"} : SetStatus(a, st, ok)
  \/ \E q \in Requests, n \in Nodes, a \in Accounts, b \in Blocks : Arrive(q, n, a, b)
  \/ \E q \in Requests : \/ NodeStep(q) \/ ProbeFails(q) \/ StoreFails(q)
                         \/ ControlRefuse(q) \/ DropLate(q)
                         \/ \E ok \in BOOLEAN : ControlReserve(q, ok) \/ LateReserve(q, ok)
  \/ \E n \in Nodes : NodeCrash(n)
  \/ ControlCrash

Spec == Init /\ [][Next]_vars

(* A node goes on with a PUT it serves, and its client of the control      *)
(* server gives up after a timeout; nothing is assumed of that server.     *)
FairSpec == Spec /\ \A q \in Requests : WF_vars(NodeStep(q))
-----------------------------------------------------------------------------
(* Properties *)

(* Every variable keeps its shape, and the usage its width.  No release    *)
(* adds to the usage of an account whose counter has not overflowed.       *)
TypeOK ==
  /\ {mem, disk} \subseteq [used : [Accounts -> -MaxInt - 1 .. MaxInt],
                            status : [Accounts -> {"active", "suspended"}]]
  /\ held \in [Nodes -> SUBSET Blocks]
  /\ req \in [Requests -> [pc : {"free", "probe", "reserve", "granted", "put", "late"},
                           node : Nodes \cup {None}, acct : Accounts \cup {None},
                           block : Blocks \cup {None}]]
  /\ \A q \in Requests : req[q] # NoRequest =>
       req[q].node \in Nodes /\ req[q].acct \in Accounts /\ req[q].block \in Blocks
  /\ failures \in Nat /\ crashes \in Nat /\ direct \in Nat
  /\ charges \in [Places -> Nat] /\ owner \in [Places -> Accounts \cup {None}]
  /\ released \in [Accounts -> Int] /\ \A a \in Accounts \ wrapped : released[a] >= 0
  /\ excused \subseteq Places /\ wrapped \subseteq Accounts

(* However many PUTs reserve at once on however many nodes, no account is  *)
(* admitted over its quota, in memory or on disk, until a direct call has  *)
(* overflowed its counter.                                                 *)
Within(m) == \A a \in Accounts \ wrapped : m.used[a] \in 0 .. Quota
QuotaHeld == Within(mem) /\ Within(disk)

(* What the nodes store for an account is covered by what its snapshot on  *)
(* disk says it uses, and by what it released: no lost answer, late call,  *)
(* failed write or crash of either side stores a block for free.           *)
StoredFor(a) == {x \in Places : owner[x] = a}
Covered(m) == \A a \in Accounts \ wrapped :
  Size * Cardinality(StoredFor(a)) <= m.used[a] + released[a]
StoredIsCharged == Covered(mem) /\ Covered(disk)

(* A block of a node is charged once, for whichever tenants PUT it, unless *)
(* two PUTs of it ran at once or one of them met a fault.                  *)
ChargedOnce == \A x \in Places \ excused : charges[x] <= 1

(* A node answers every PUT, although the control server may never do.     *)
Served(q) == req[q].pc \in {"probe", "reserve", "granted", "put"}
Answered == \A q \in Requests : Served(q) ~> ~Served(q)

(* quota_test.go:57: "Re-putting the SAME first block must not             *)
(* double-charge".                                                         *)
NeverChargedTwice == \A x \in Places : charges[x] <= 1
=============================================================================
