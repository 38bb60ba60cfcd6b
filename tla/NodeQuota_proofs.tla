-------------------------- MODULE NodeQuota_proofs --------------------------
(***************************************************************************)
(* The space accounting of the storage nodes and the control plane keeps   *)
(* its promises for any number of nodes, tenants, blocks and concurrent    *)
(* PUTs, and for any number of faults.                                     *)
(***************************************************************************)
EXTENDS NodeQuota, FiniteSetTheorems, TLAPS

Books == [used : [Accounts -> -MaxInt - 1 .. MaxInt],
          status : [Accounts -> {"active", "suspended"}]]
BooksType == /\ mem \in Books /\ disk \in Books
             /\ failures \in Nat
             /\ released \in [Accounts -> Int]
             /\ wrapped \subseteq Accounts

Request == [pc : {"free", "probe", "reserve", "granted", "put", "late"},
            node : Nodes \cup {None}, acct : Accounts \cup {None},
            block : Blocks \cup {None}]
RequestsType == /\ req \in [Requests -> Request]
                /\ \A q \in Requests : req[q] # NoRequest =>
                     req[q].node \in Nodes /\ req[q].acct \in Accounts /\ req[q].block \in Blocks

Parts == /\ BooksType /\ RequestsType
         /\ held \in [Nodes -> SUBSET Blocks]
         /\ crashes \in Nat /\ direct \in Nat
         /\ charges \in [Places -> Nat] /\ owner \in [Places -> Accounts \cup {None}]
         /\ excused \subseteq Places

NothingAdded == \A a \in Accounts \ wrapped : released[a] >= 0

LEMMA TypeParts == /\ TypeOK <=> Parts /\ NothingAdded
                   /\ TypeOK' <=> Parts' /\ NothingAdded'
BY DEF Parts, NothingAdded, TypeOK, BooksType, Books, RequestsType, Request

(* A request that is not free names a node, an account and a block.        *)
LEMMA InService ==
  ASSUME RequestsType, NEW q \in Requests, req[q].pc # "free"
  PROVE  /\ req[q] # NoRequest
         /\ req[q].node \in Nodes /\ req[q].acct \in Accounts /\ req[q].block \in Blocks
         /\ Place(q) \in Places
BY DEF RequestsType, NoRequest, Place, Places

(* An int64 sum or difference wraps into the range again; a difference     *)
(* wraps only when it starts below zero.                                   *)
LEMMA WrapType ==
  ASSUME NEW u \in -MaxInt - 1 .. MaxInt, NEW n \in 0 .. MaxInt
  PROVE  /\ Wrap(u + n) \in -MaxInt - 1 .. MaxInt
         /\ Wrap(u - n) \in -MaxInt - 1 .. MaxInt
         /\ u >= 0 => Wrap(u - n) = u - n
BY SpaceAssumption DEF Wrap

LEMMA LessType ==
  ASSUME BooksType, NEW a \in Accounts, NEW n \in 0 .. MaxInt
  PROVE  /\ Less(a, n) \in -MaxInt - 1 .. MaxInt
         /\ mem.used[a] - Less(a, n) \in Int
<1>1. mem.used[a] \in -MaxInt - 1 .. MaxInt
  BY DEF BooksType, Books
<1>2. Wrap(mem.used[a] - n) \in -MaxInt - 1 .. MaxInt
  BY <1>1, WrapType
<1> DEFINE left == Wrap(mem.used[a] - n)
<1>3. Less(a, n) = IF left < 0 THEN 0 ELSE left
  BY DEF Less
<1> HIDE DEF left
<1>4. left \in -MaxInt - 1 .. MaxInt
  BY <1>2 DEF left
<1>5. QED
  BY <1>1, <1>3, <1>4, SpaceAssumption

LEMMA WriteType ==
  ASSUME BooksType, NEW m \in Books, NEW ok \in BOOLEAN, Write(m, ok)
  PROVE  mem' \in Books /\ disk' \in Books /\ failures' \in Nat
BY DEF BooksType, Write

LEMMA ReserveType ==
  ASSUME BooksType, NEW a \in Accounts, NEW n \in 0 .. MaxInt, NEW ok \in BOOLEAN,
         Reserve(a, n, ok)
  PROVE  BooksType'
<1>1. mem.used[a] \in -MaxInt - 1 .. MaxInt
  BY DEF BooksType, Books
<1>2. [mem EXCEPT !.used[a] = Wrap(@ + n)] \in Books
  BY <1>1, WrapType DEF BooksType, Books
<1>3. mem' \in Books /\ disk' \in Books /\ failures' \in Nat
  BY <1>2, WriteType DEF Reserve
<1>4. QED
  BY <1>3 DEF Reserve, BooksType

LEMMA ReleaseType ==
  ASSUME BooksType, NEW a \in Accounts, NEW n \in 0 .. MaxInt, NEW ok \in BOOLEAN,
         Release(a, n, ok)
  PROVE  BooksType'
<1>1. [mem EXCEPT !.used[a] = Less(a, n)] \in Books
  BY LessType DEF BooksType, Books
<1>2. mem' \in Books /\ disk' \in Books /\ failures' \in Nat
  BY <1>1, WriteType DEF Release
<1>3. released' \in [Accounts -> Int]
  BY LessType DEF Release, BooksType
<1>4. QED
  BY <1>2, <1>3 DEF Release, BooksType

LEMMA StatusType ==
  ASSUME BooksType, NEW a \in Accounts, NEW st \in {"active", "suspended"}, NEW ok \in BOOLEAN,
         Write([mem EXCEPT !.status[a] = st], ok), UNCHANGED <<released, wrapped>>
  PROVE  BooksType'
<1>1. [mem EXCEPT !.status[a] = st] \in Books
  BY DEF BooksType, Books
<1>2. QED
  BY <1>1, WriteType DEF BooksType

LEMMA BooksFrame == BooksType /\ UNCHANGED books /\ failures' \in Nat => BooksType'
BY DEF BooksType, books

(* The steps a request makes keep the requests well formed.                *)
LEMMA ToType ==
  ASSUME RequestsType, NEW q \in Requests, req[q].pc # "free",
         NEW pc \in {"probe", "reserve", "granted", "put", "late"}, To(q, pc)
  PROVE  RequestsType'
BY InService DEF To, RequestsType, Request

LEMMA FinishType ==
  ASSUME RequestsType, NEW q \in Requests, Finish(q)
  PROVE  RequestsType'
BY DEF Finish, RequestsType, Request, NoRequest

LEMMA QuotaShape == TypeOK /\ [Next]_vars => Parts'
<1> SUFFICES ASSUME TypeOK, [Next]_vars PROVE Parts'
  OBVIOUS
<1>0. BooksType /\ RequestsType
  BY TypeParts DEF Parts
<1> USE SpaceAssumption
<1>1. ASSUME NEW a \in Accounts, NEW n \in DirectAmounts, NEW ok \in BOOLEAN, DirectCall(a, n, ok)
      PROVE  Parts'
  <2>1. n \in 0 .. MaxInt
    OBVIOUS
  <2>2. BooksType'
    BY <1>0, <1>1, <2>1, ReserveType, ReleaseType DEF DirectCall
  <2>3. RequestsType'
    BY <1>0, <1>1 DEF DirectCall, RequestsType
  <2>4. QED
    BY <1>1, <2>2, <2>3, TypeParts DEF DirectCall, TypeOK, Parts
<1>2. ASSUME NEW a \in Accounts, NEW st \in {"active", "suspended"}, NEW ok \in BOOLEAN,
             SetStatus(a, st, ok)
      PROVE  Parts'
  <2>1. BooksType'
    BY <1>0, <1>2, StatusType DEF SetStatus
  <2>2. RequestsType'
    BY <1>0, <1>2 DEF SetStatus, RequestsType
  <2>3. QED
    BY <1>2, <2>1, <2>2, TypeParts DEF SetStatus, TypeOK, Parts
<1>3. ASSUME NEW q \in Requests, NEW n \in Nodes, NEW a \in Accounts, NEW b \in Blocks,
             Arrive(q, n, a, b)
      PROVE  Parts'
  <2>1. RequestsType'
    BY <1>0, <1>3 DEF Arrive, RequestsType, Request
  <2>2. BooksType'
    BY <1>0, <1>3, BooksFrame DEF Arrive, TypeOK
  <2>3. excused' \subseteq Places
    BY <1>3 DEF Arrive, Excuse, TypeOK, Places
  <2>4. QED
    BY <1>3, <2>1, <2>2, <2>3, TypeParts DEF Arrive, TypeOK, Parts
<1>4. ASSUME NEW q \in Requests, \/ Probe(q) \/ ReceiveGrant(q) \/ TimeOut(q) \/ ProbeFails(q)
                                \/ StoreFails(q) \/ ControlRefuse(q) \/ DropLate(q)
      PROVE  Parts'
  <2>1. failures' \in Nat /\ UNCHANGED <<books, held, crashes, direct, charges, owner>>
    BY <1>4 DEF TypeOK, Probe, ReceiveGrant, TimeOut, ProbeFails, StoreFails, ControlRefuse,
                DropLate
  <2>2. BooksType'
    BY <1>0, <2>1, BooksFrame
  <2>3. req[q].pc # "free"
    BY <1>4 DEF Probe, ReceiveGrant, TimeOut, ProbeFails, StoreFails, ControlRefuse, DropLate
  <2>4. RequestsType'
    BY <1>0, <1>4, <2>3, ToType, FinishType
       DEF Probe, ReceiveGrant, TimeOut, ProbeFails, StoreFails, ControlRefuse, DropLate
  <2>5. excused' \subseteq Places
    BY <1>0, <1>4, <2>3, InService
       DEF Probe, ReceiveGrant, TimeOut, ProbeFails, StoreFails, ControlRefuse, DropLate, Excuse,
           TypeOK
  <2>6. QED
    BY <2>1, <2>2, <2>4, <2>5, TypeParts DEF TypeOK, Parts
<1>5. ASSUME NEW q \in Requests, NEW ok \in BOOLEAN, ControlReserve(q, ok) \/ LateReserve(q, ok)
      PROVE  Parts'
  <2>1. req[q].pc # "free"
    BY <1>5 DEF ControlReserve, LateReserve
  <2>2. req[q].acct \in Accounts /\ Place(q) \in Places /\ Size \in 0 .. MaxInt
    BY <1>0, <2>1, InService
  <2>3. BooksType'
    BY <1>0, <1>5, <2>2, ReserveType DEF ControlReserve, LateReserve
  <2>4. RequestsType'
    BY <1>0, <1>5, <2>1, ToType, FinishType DEF ControlReserve, LateReserve
  <2>5. charges' \in [Places -> Nat] /\ excused' \subseteq Places
    BY <1>5, <2>2 DEF ControlReserve, LateReserve, Excuse, TypeOK
  <2>6. QED
    BY <1>5, <2>3, <2>4, <2>5, TypeParts DEF ControlReserve, LateReserve, TypeOK, Parts
<1>6. ASSUME NEW q \in Requests, StoreBlock(q) PROVE Parts'
  <2>1. req[q].pc # "free"
    BY <1>6 DEF StoreBlock
  <2>2. /\ req[q].node \in Nodes /\ req[q].acct \in Accounts /\ req[q].block \in Blocks
        /\ Place(q) \in Places
    BY <1>0, <2>1, InService
  <2>3. held' \in [Nodes -> SUBSET Blocks] /\ owner' \in [Places -> Accounts \cup {None}]
    BY <1>6, <2>2 DEF StoreBlock, TypeOK
  <2>4. RequestsType'
    BY <1>0, <1>6, FinishType DEF StoreBlock
  <2>5. BooksType'
    BY <1>0, <1>6, BooksFrame DEF StoreBlock, TypeOK
  <2>6. QED
    BY <1>6, <2>3, <2>4, <2>5, TypeParts DEF StoreBlock, TypeOK, Parts
<1>7. ASSUME NEW n \in Nodes, NodeCrash(n) PROVE Parts'
  <2>1. RequestsType'
    BY <1>0, <1>7 DEF NodeCrash, RequestsType, Request, NoRequest
  <2>2. BooksType'
    BY <1>0, <1>7, BooksFrame DEF NodeCrash, TypeOK
  <2>3. ASSUME NEW q \in Requests, req[q].node = n
        PROVE  Place(q) \in Places
    <3>1. req[q] # NoRequest
      BY <2>3, NoneAssumption DEF NoRequest
    <3>2. QED
      BY <1>0, <3>1 DEF RequestsType, Place, Places
  <2> DEFINE Ended == {r \in Requests : req[r].node = n /\ req[r].pc # "probe"}
  <2> HIDE DEF Ended
  <2>a. {Place(q) : q \in Ended} \subseteq Places
    <3>1. \A q \in Ended : Place(q) \in Places
      BY <2>3 DEF Ended
    <3>2. QED
      BY <3>1
  <2>b. excused' = excused \cup {Place(q) : q \in Ended}
    BY <1>7 DEF NodeCrash, Excuse, Ended
  <2>4. excused' \subseteq Places
    BY <2>a, <2>b DEF TypeOK
  <2>5. QED
    BY <1>7, <2>1, <2>2, <2>4, TypeParts DEF NodeCrash, TypeOK, Parts
<1>8. CASE ControlCrash
  <2>1. BooksType' /\ RequestsType'
    BY <1>0, <1>8 DEF ControlCrash, BooksType, RequestsType
  <2>2. QED
    BY <1>8, <2>1, TypeParts DEF ControlCrash, TypeOK, Parts
<1>9. CASE UNCHANGED vars
  BY <1>0, <1>9, TypeParts
     DEF vars, Parts, BooksType, RequestsType
<1>10. QED
  BY <1>1, <1>2, <1>3, <1>4, <1>5, <1>6, <1>7, <1>8, <1>9 DEF Next, NodeStep

LEMMA QuotaInitType == Init => TypeOK
<1> SUFFICES ASSUME Init PROVE TypeOK
  OBVIOUS
<1>1. BooksType
  BY SpaceAssumption DEF Init, BooksType, Books
<1>2. RequestsType
  BY DEF Init, RequestsType, Request, NoRequest
<1>3. QED
  BY <1>1, <1>2, TypeParts DEF Init, Parts, NothingAdded
-----------------------------------------------------------------------------
(* A reservation that overflows no counter adds to the usage of its        *)
(* account, and one that is admitted stays within the quota.               *)
LEMMA ReserveUsage ==
  ASSUME TypeOK, QuotaHeld, NEW a \in Accounts, NEW n \in 0 .. MaxInt, NEW ok \in BOOLEAN,
         Reserve(a, n, ok), NEW x \in Accounts, x \notin wrapped'
  PROVE  /\ x \notin wrapped
         /\ mem'.used[x] = mem.used[x] + (IF x = a THEN n ELSE 0)
         /\ mem'.used[x] \in 0 .. Quota
         /\ disk' = (IF ok THEN mem' ELSE disk)
         /\ released' = released
<1>1. mem.used \in [Accounts -> -MaxInt - 1 .. MaxInt] /\ mem \in Books
  BY TypeParts DEF Parts, BooksType, Books
<1>2. /\ mem' = [mem EXCEPT !.used[a] = Wrap(@ + n)]
      /\ disk' = (IF ok THEN mem' ELSE disk) /\ released' = released
  BY DEF Reserve, Write
<1>3. x \notin wrapped
  BY DEF Reserve
<1>4. mem.used[x] \in 0 .. Quota
  BY <1>3 DEF QuotaHeld, Within
<1>5. mem'.used[x] = IF x = a THEN Wrap(mem.used[x] + n) ELSE mem.used[x]
  BY <1>1, <1>2 DEF Books
<1>6. x = a => Wrap(mem.used[x] + n) = mem.used[x] + n /\ Wrap(mem.used[x] + n) <= Quota
  BY <1>1, <1>4, SpaceAssumption DEF Reserve, Admits, Fits, Wrap
<1>7. QED
  BY <1>2, <1>3, <1>4, <1>5, <1>6, SpaceAssumption

(* What Release takes off the usage of an account it puts to what the      *)
(* account released.                                                       *)
LEMMA ReleaseUsage ==
  ASSUME TypeOK, QuotaHeld, NEW a \in Accounts, NEW n \in 0 .. MaxInt, NEW ok \in BOOLEAN,
         Release(a, n, ok), NEW x \in Accounts, x \notin wrapped'
  PROVE  /\ x \notin wrapped
         /\ mem'.used[x] \in 0 .. Quota
         /\ mem'.used[x] + released'[x] = mem.used[x] + released[x]
         /\ released'[x] >= released[x]
         /\ disk' = (IF ok THEN mem' ELSE disk)
<1>1. /\ mem.used \in [Accounts -> -MaxInt - 1 .. MaxInt] /\ mem \in Books
      /\ released \in [Accounts -> Int]
  BY TypeParts DEF Parts, BooksType, Books
<1>2. /\ mem' = [mem EXCEPT !.used[a] = Less(a, n)]
      /\ disk' = (IF ok THEN mem' ELSE disk)
      /\ released' = [released EXCEPT ![a] = @ + (mem.used[a] - Less(a, n))]
  BY DEF Release, Write
<1>3. x \notin wrapped
  BY DEF Release
<1>4. mem.used[x] \in 0 .. Quota
  BY <1>3 DEF QuotaHeld, Within
<1>5. mem'.used[x] = IF x = a THEN Less(a, n) ELSE mem.used[x]
  BY <1>1, <1>2 DEF Books
<1>6. released'[x] = IF x = a THEN released[x] + (mem.used[a] - Less(a, n)) ELSE released[x]
  BY <1>1, <1>2
<1>7. x = a => Less(a, n) \in 0 .. Quota /\ Less(a, n) <= mem.used[a]
  <2>1. SUFFICES ASSUME x = a PROVE Less(a, n) \in 0 .. Quota /\ Less(a, n) <= mem.used[a]
    OBVIOUS
  <2>2. mem.used[a] \in -MaxInt - 1 .. MaxInt /\ mem.used[a] \in 0 .. Quota
    BY <1>1, <1>4, <2>1
  <2>3. Wrap(mem.used[a] - n) = mem.used[a] - n
    BY <2>2, WrapType, SpaceAssumption
  <2>4. Less(a, n) = IF mem.used[a] - n < 0 THEN 0 ELSE mem.used[a] - n
    BY <2>3 DEF Less
  <2> QED BY <2>2, <2>4, SpaceAssumption
<1>8. released[x] \in Int /\ mem.used[x] \in Int
  BY <1>1, <1>4
<1>9. QED
  BY <1>2, <1>3, <1>4, <1>5, <1>6, <1>7, <1>8, SpaceAssumption

(* A step of any kind does one of four things to the books.                *)
BooksStep ==
  \/ \E a \in Accounts, n \in 0 .. MaxInt, ok \in BOOLEAN : Reserve(a, n, ok) \/ Release(a, n, ok)
  \/ /\ mem'.used = mem.used /\ disk' \in {disk, mem'} /\ UNCHANGED <<released, wrapped>>
  \/ mem' = disk /\ UNCHANGED <<disk, released, wrapped>>

LEMMA EveryStep == TypeOK /\ [Next]_vars => BooksStep
<1> SUFFICES ASSUME TypeOK, [Next]_vars PROVE BooksStep
  OBVIOUS
<1>1. ASSUME NEW a \in Accounts, NEW n \in DirectAmounts, NEW ok \in BOOLEAN, DirectCall(a, n, ok)
      PROVE  BooksStep
  BY <1>1, SpaceAssumption DEF DirectCall, BooksStep
<1>2. ASSUME NEW a \in Accounts, NEW st \in {"active", "suspended"}, NEW ok \in BOOLEAN,
             SetStatus(a, st, ok)
      PROVE  BooksStep
  <2>1. mem' = [mem EXCEPT !.status[a] = st] /\ disk' \in {disk, mem'}
    BY <1>2 DEF SetStatus, Write
  <2>2. mem'.used = mem.used
    BY <2>1, TypeParts DEF Parts, BooksType, Books
  <2>3. QED
    BY <1>2, <2>1, <2>2 DEF SetStatus, BooksStep
<1>3. ASSUME NEW q \in Requests, NEW ok \in BOOLEAN, ControlReserve(q, ok) \/ LateReserve(q, ok)
      PROVE  BooksStep
  <2>1. req[q].acct \in Accounts
    BY <1>3, TypeParts, InService DEF Parts, ControlReserve, LateReserve
  <2>2. QED
    BY <1>3, <2>1, SpaceAssumption DEF ControlReserve, LateReserve, BooksStep
<1>4. ASSUME UNCHANGED books PROVE BooksStep
  BY <1>4 DEF books, BooksStep
<1>5. CASE ControlCrash
  BY <1>5 DEF ControlCrash, BooksStep
<1>6. ASSUME NEW q \in Requests, NodeStep(q) \/ ProbeFails(q) \/ StoreFails(q) \/ ControlRefuse(q)
                                \/ DropLate(q)
      PROVE  BooksStep
  BY <1>4, <1>6 DEF NodeStep, Probe, ReceiveGrant, TimeOut, StoreBlock, ProbeFails, StoreFails,
                    ControlRefuse, DropLate
<1>7. ASSUME NEW q \in Requests, NEW n \in Nodes, NEW a \in Accounts, NEW b \in Blocks,
             Arrive(q, n, a, b)
      PROVE  BooksStep
  BY <1>4, <1>7 DEF Arrive
<1>8. ASSUME NEW n \in Nodes, NodeCrash(n) PROVE BooksStep
  BY <1>4, <1>8 DEF NodeCrash
<1>9. CASE UNCHANGED vars
  BY <1>4, <1>9 DEF vars, books
<1>10. QED
  BY <1>1, <1>2, <1>3, <1>5, <1>6, <1>7, <1>8, <1>9 DEF Next

LEMMA QuotaNext == TypeOK /\ QuotaHeld /\ [Next]_vars => QuotaHeld'
<1> SUFFICES ASSUME TypeOK, QuotaHeld, [Next]_vars, NEW x \in Accounts, x \notin wrapped'
             PROVE  mem'.used[x] \in 0 .. Quota /\ disk'.used[x] \in 0 .. Quota
  BY DEF QuotaHeld, Within
<1> DEFINE Goal == mem'.used[x] \in 0 .. Quota /\ disk'.used[x] \in 0 .. Quota
<1>0. x \notin wrapped => mem.used[x] \in 0 .. Quota /\ disk.used[x] \in 0 .. Quota
  BY DEF QuotaHeld, Within
<1>1. ASSUME NEW a \in Accounts, NEW n \in 0 .. MaxInt, NEW ok \in BOOLEAN, Reserve(a, n, ok)
      PROVE  Goal
  BY <1>0, <1>1, ReserveUsage
<1>2. ASSUME NEW a \in Accounts, NEW n \in 0 .. MaxInt, NEW ok \in BOOLEAN, Release(a, n, ok)
      PROVE  Goal
  BY <1>0, <1>2, ReleaseUsage
<1>3. QED
  BY <1>0, <1>1, <1>2, EveryStep DEF BooksStep

(* What an account is said to have released never falls.                   *)
LEMMA ReleasedNext == TypeOK /\ QuotaHeld /\ [Next]_vars => NothingAdded'
<1> SUFFICES ASSUME TypeOK, QuotaHeld, [Next]_vars, NEW x \in Accounts, x \notin wrapped'
             PROVE  released'[x] >= 0
  BY DEF NothingAdded
<1>0. released[x] \in Int /\ (x \notin wrapped => released[x] >= 0)
  BY TypeParts DEF Parts, BooksType, NothingAdded
<1>1. ASSUME NEW a \in Accounts, NEW n \in 0 .. MaxInt, NEW ok \in BOOLEAN, Reserve(a, n, ok)
      PROVE  released'[x] >= 0
  BY <1>0, <1>1, ReserveUsage
<1>2. ASSUME NEW a \in Accounts, NEW n \in 0 .. MaxInt, NEW ok \in BOOLEAN, Release(a, n, ok)
      PROVE  released'[x] >= 0
  <2>1. x \notin wrapped /\ released'[x] >= released[x] /\ released'[x] \in Int
    BY <1>2, ReleaseUsage, ReleaseType, TypeParts DEF Parts, BooksType
  <2> QED BY <1>0, <2>1
<1>3. QED
  BY <1>0, <1>1, <1>2, EveryStep DEF BooksStep

LEMMA QuotaType == TypeOK /\ QuotaHeld /\ [Next]_vars => TypeOK'
BY QuotaShape, ReleasedNext, TypeParts

(* The books keep the width of their counters whatever tenants reserve and *)
(* release, before and after a sum or a difference overflowed; and Release *)
(* adds to the usage of no account whose counter has not overflowed.  That *)
(* part needs QuotaHeld: from a usage below zero Release could wrap up.    *)
THEOREM QuotaTypeCorrect == Spec => []TypeOK
<1>1. Init => QuotaHeld
  BY SpaceAssumption DEF Init, QuotaHeld, Within
<1>2. QED
  BY <1>1, QuotaInitType, QuotaType, QuotaNext, PTL DEF Spec

(* However many PUTs reserve at once on however many nodes, no account is  *)
(* admitted over its quota, in memory or on disk, until a direct call has  *)
(* overflowed its counter: Service.Reserve checks and adds under one lock, *)
(* and Release never takes usage below zero.                               *)
THEOREM QuotaIsHeld == Spec => []QuotaHeld
<1>1. Init => QuotaHeld
  BY SpaceAssumption DEF Init, QuotaHeld, Within
<1>2. QED
  BY <1>1, QuotaNext, QuotaTypeCorrect, PTL DEF Spec
-----------------------------------------------------------------------------
(* StoredIsCharged is not inductive by itself: a PUT whose charge was      *)
(* granted will store its block later, unless another PUT has stored it    *)
(* by then.  Its charge is counted with the blocks that are stored.        *)
Waiting(a) == {q \in Requests : /\ req[q].pc \in {"granted", "put"} /\ req[q].acct = a
                                /\ req[q].block \notin held[req[q].node]}
Due(a) == Cardinality(StoredFor(a)) + Cardinality(Waiting(a))
FiniteDue == \A a \in Accounts : IsFiniteSet(StoredFor(a)) /\ IsFiniteSet(Waiting(a))
Backed(m) == \A a \in Accounts \ wrapped : Size * Due(a) <= m.used[a] + released[a]
CoverInv == FiniteDue /\ Backed(mem) /\ Backed(disk)

(* ChargedOnce needs that a block without a fault is PUT by one request at *)
(* a time, and that one that was charged for is stored or about to be.     *)
OnceAt(x) ==
  /\ charges[x] <= 1
  /\ \A q, r \in InUse(x) : q = r
  /\ \A q \in InUse(x) : req[q].pc # "late" /\ (req[q].pc = "reserve" => charges[x] = 0)
  /\ charges[x] = 1 => \/ x[2] \in held[x[1]]
                       \/ \E q \in InUse(x) : req[q].pc \in {"granted", "put"}
OnceInv == \A x \in Places \ excused : OnceAt(x)

LEMMA Multiples ==
  ASSUME NEW i \in Nat, NEW j \in Nat
  PROVE  (i <= j => Size * i <= Size * j) /\ Size * (i + 1) = Size * i + Size /\ Size * i \in Nat
<1>1. Size \in Nat
  BY SpaceAssumption
<1>2. QED
  BY <1>1

LEMMA DueType ==
  ASSUME FiniteDue, NEW x \in Accounts
  PROVE  Cardinality(StoredFor(x)) \in Nat /\ Cardinality(Waiting(x)) \in Nat /\ Due(x) \in Nat
BY FS_CardinalityType DEF FiniteDue, Due

LEMMA Fewer ==
  ASSUME NEW S, IsFiniteSet(S), NEW T, T \subseteq S
  PROVE  IsFiniteSet(T) /\ Cardinality(T) \in Nat /\ Cardinality(T) <= Cardinality(S)
BY FS_Subset, FS_CardinalityType

LEMMA OneMore ==
  ASSUME NEW S, IsFiniteSet(S), NEW e, NEW T, T \subseteq S \cup {e}
  PROVE  IsFiniteSet(T) /\ Cardinality(T) \in Nat /\ Cardinality(T) <= Cardinality(S) + 1
<1>1. Cardinality(S) \in Nat
  BY FS_CardinalityType
<1>2. /\ IsFiniteSet(S \cup {e})
      /\ Cardinality(S \cup {e}) = IF e \in S THEN Cardinality(S) ELSE Cardinality(S) + 1
  BY FS_AddElement
<1>3. Cardinality(S \cup {e}) <= Cardinality(S) + 1
  BY <1>1, <1>2
<1>4. IsFiniteSet(T) /\ Cardinality(T) \in Nat /\ Cardinality(T) <= Cardinality(S \cup {e})
  BY <1>2, Fewer
<1>5. QED
  BY <1>1, <1>2, <1>3, <1>4

LEMMA OneFewer ==
  ASSUME NEW S, IsFiniteSet(S), NEW e \in S, NEW T, T \subseteq S \ {e}
  PROVE  IsFiniteSet(T) /\ Cardinality(T) \in Nat /\ Cardinality(T) <= Cardinality(S) - 1
<1>1. IsFiniteSet(S \ {e}) /\ Cardinality(S \ {e}) = Cardinality(S) - 1
  BY FS_RemoveElement
<1>2. QED
  BY <1>1, Fewer, FS_CardinalityType

(* A step that stores nothing and grants nothing leaves no more due.       *)
LEMMA DueFalls ==
  ASSUME FiniteDue, NEW x \in Accounts,
         StoredFor(x)' \subseteq StoredFor(x), Waiting(x)' \subseteq Waiting(x)
  PROVE  /\ IsFiniteSet(StoredFor(x)') /\ IsFiniteSet(Waiting(x)')
         /\ Due(x)' \in Nat /\ Due(x)' <= Due(x)
<1>1. IsFiniteSet(StoredFor(x)) /\ IsFiniteSet(Waiting(x))
  BY DEF FiniteDue
<1>2. /\ IsFiniteSet(StoredFor(x)') /\ Cardinality(StoredFor(x)') \in Nat
      /\ Cardinality(StoredFor(x)') <= Cardinality(StoredFor(x))
  BY <1>1, Fewer
<1>3. /\ IsFiniteSet(Waiting(x)') /\ Cardinality(Waiting(x)') \in Nat
      /\ Cardinality(Waiting(x)') <= Cardinality(Waiting(x))
  BY <1>1, Fewer
<1>4. QED
  BY <1>2, <1>3, DueType DEF Due

Granted(x) == \E q \in Requests : req[q].acct = x /\ ControlReserve(q, TRUE)

(* Only a charge that is saved makes more due, and by one block.           *)
DueStep(x) == /\ IsFiniteSet(StoredFor(x)') /\ IsFiniteSet(Waiting(x)')
              /\ Due(x)' \in Nat
              /\ Due(x)' <= Due(x) \/ (Granted(x) /\ Due(x)' <= Due(x) + 1)

LEMMA DueNext == ASSUME TypeOK, FiniteDue, [Next]_vars, NEW x \in Accounts PROVE DueStep(x)
<1>0. /\ RequestsType /\ req \in [Requests -> Request]
      /\ held \in [Nodes -> SUBSET Blocks] /\ owner \in [Places -> Accounts \cup {None}]
  BY TypeParts DEF Parts, RequestsType
<1>a. ASSUME StoredFor(x)' \subseteq StoredFor(x), Waiting(x)' \subseteq Waiting(x) PROVE DueStep(x)
  BY <1>a, DueFalls DEF DueStep
<1>b. ASSUME UNCHANGED owner PROVE StoredFor(x)' \subseteq StoredFor(x)
  BY <1>b DEF StoredFor
<1>c. ASSUME UNCHANGED <<req, held, owner>> PROVE DueStep(x)
  <2>1. Waiting(x)' \subseteq Waiting(x)
    BY <1>c DEF Waiting
  <2>2. QED
    BY <1>a, <1>b, <1>c, <2>1
<1>d. ASSUME NEW q \in Requests, Finish(q), UNCHANGED <<held, owner>> PROVE DueStep(x)
  <2>1. Waiting(x)' \subseteq Waiting(x)
    BY <1>d DEF Waiting, Finish, NoRequest
  <2>2. QED
    BY <1>a, <1>b, <1>d, <2>1
<1>1. ASSUME NEW a \in Accounts, NEW n \in DirectAmounts, NEW ok \in BOOLEAN, DirectCall(a, n, ok)
      PROVE  DueStep(x)
  BY <1>1, <1>c DEF DirectCall
<1>2. ASSUME NEW a \in Accounts, NEW st \in {"active", "suspended"}, NEW ok \in BOOLEAN,
             SetStatus(a, st, ok)
      PROVE  DueStep(x)
  BY <1>2, <1>c DEF SetStatus
<1>3. ASSUME NEW q \in Requests, NEW n \in Nodes, NEW a \in Accounts, NEW b \in Blocks,
             Arrive(q, n, a, b)
      PROVE  DueStep(x)
  <2>1. Waiting(x)' \subseteq Waiting(x)
    BY <1>0, <1>3 DEF Waiting, Arrive
  <2>2. QED
    BY <1>a, <1>b, <1>3, <2>1 DEF Arrive
<1>4. ASSUME NEW q \in Requests, Probe(q) \/ ReceiveGrant(q) \/ ProbeFails(q) PROVE DueStep(x)
  <2>1. Waiting(x)' \subseteq Waiting(x)
    BY <1>0, <1>4 DEF Waiting, Probe, ReceiveGrant, ProbeFails, To, Request
  <2>2. UNCHANGED owner
    BY <1>4 DEF Probe, ReceiveGrant, ProbeFails
  <2>3. QED
    BY <1>a, <1>b, <2>1, <2>2
<1>5. ASSUME NEW q \in Requests, TimeOut(q) PROVE DueStep(x)
  <2>1. CASE req[q].pc = "reserve"
    <3>1. Waiting(x)' \subseteq Waiting(x)
      BY <1>0, <1>5, <2>1 DEF Waiting, TimeOut, To, Request
    <3>2. QED
      BY <1>5, <1>a, <1>b, <3>1 DEF TimeOut
  <2>2. QED
    BY <1>5, <2>1, <1>d DEF TimeOut
<1>6. ASSUME NEW q \in Requests, StoreFails(q) \/ ControlRefuse(q) \/ DropLate(q)
      PROVE  DueStep(x)
  BY <1>6, <1>d DEF StoreFails, ControlRefuse, DropLate
<1>7. ASSUME NEW q \in Requests, NEW ok \in BOOLEAN, LateReserve(q, ok) PROVE DueStep(x)
  BY <1>7, <1>d DEF LateReserve
<1>8. ASSUME NEW q \in Requests, NEW ok \in BOOLEAN, ControlReserve(q, ok) PROVE DueStep(x)
  <2>1. CASE ok = FALSE
    BY <1>8, <2>1, <1>d DEF ControlReserve
  <2>2. CASE ok = TRUE
    <3>1. Waiting(x)' \subseteq Waiting(x) \cup (IF req[q].acct = x THEN {q} ELSE {})
      BY <1>0, <1>8, <2>2 DEF Waiting, ControlReserve, To, Request
    <3>2. StoredFor(x)' \subseteq StoredFor(x)
      BY <1>8, <1>b DEF ControlReserve
    <3>3. CASE req[q].acct # x
      BY <3>1, <3>2, <3>3, <1>a
    <3>4. CASE req[q].acct = x
      <4>1. /\ IsFiniteSet(StoredFor(x)') /\ Cardinality(StoredFor(x)') \in Nat
            /\ Cardinality(StoredFor(x)') <= Cardinality(StoredFor(x))
        BY <3>2, Fewer DEF FiniteDue
      <4>2. /\ IsFiniteSet(Waiting(x)') /\ Cardinality(Waiting(x)') \in Nat
            /\ Cardinality(Waiting(x)') <= Cardinality(Waiting(x)) + 1
        BY <3>1, <3>4, OneMore DEF FiniteDue
      <4>3. Due(x)' \in Nat /\ Due(x)' <= Due(x) + 1
        BY <4>1, <4>2, DueType DEF Due
      <4>4. Granted(x)
        BY <1>8, <2>2, <3>4 DEF Granted
      <4>5. QED
        BY <4>1, <4>2, <4>3, <4>4 DEF DueStep
    <3>5. QED
      BY <3>3, <3>4
  <2>3. QED
    BY <2>1, <2>2
<1>9. ASSUME NEW q \in Requests, StoreBlock(q) PROVE DueStep(x)
  <2>1. /\ req[q].node \in Nodes /\ Place(q) \in Places /\ req[q].block \in Blocks
        /\ req[q].pc = "put"
    BY <1>0, <1>9, InService DEF StoreBlock
  <2>2. held' = [held EXCEPT ![req[q].node] = @ \cup {req[q].block}]
    BY <1>9 DEF StoreBlock
  <2>3. Waiting(x)' \subseteq Waiting(x) \ {q}
    <3>1. ASSUME NEW r \in Requests, r \in Waiting(x)' PROVE r # q /\ req'[r] = req[r]
      BY <1>0, <1>9, <3>1 DEF Waiting, StoreBlock, Finish, NoRequest
    <3>2. ASSUME NEW r \in Requests, r \in Waiting(x)' PROVE r \in Waiting(x)
      <4>1. req[r].pc # "free" /\ req[r].node \in Nodes
        BY <1>0, <3>1, <3>2, InService DEF Waiting
      <4>2. held[req[r].node] \subseteq held'[req[r].node]
        BY <1>0, <2>2, <4>1
      <4>3. QED
        BY <3>1, <3>2, <4>2 DEF Waiting
    <3>3. QED
      BY <3>1, <3>2 DEF Waiting
  <2>4. CASE req[q].block \in held[req[q].node] \/ req[q].acct # x
    <3>1. StoredFor(x)' \subseteq StoredFor(x)
      BY <1>0, <1>9, <2>1, <2>4 DEF StoreBlock, StoredFor
    <3>2. QED
      BY <2>3, <3>1, <1>a
  <2>5. CASE req[q].block \notin held[req[q].node] /\ req[q].acct = x
    <3>1. StoredFor(x)' \subseteq StoredFor(x) \cup {Place(q)}
      BY <1>0, <1>9, <2>1, <2>5 DEF StoreBlock, StoredFor
    <3>2. q \in Waiting(x)
      BY <2>1, <2>5 DEF Waiting
    <3>3. /\ IsFiniteSet(StoredFor(x)') /\ Cardinality(StoredFor(x)') \in Nat
          /\ Cardinality(StoredFor(x)') <= Cardinality(StoredFor(x)) + 1
      BY <3>1, OneMore DEF FiniteDue
    <3>4. /\ IsFiniteSet(Waiting(x)') /\ Cardinality(Waiting(x)') \in Nat
          /\ Cardinality(Waiting(x)') <= Cardinality(Waiting(x)) - 1
      BY <2>3, <3>2, OneFewer DEF FiniteDue
    <3>5. QED
      BY <3>3, <3>4, DueType DEF Due, DueStep
  <2>6. QED
    BY <2>4, <2>5
<1>10. ASSUME NEW n \in Nodes, NodeCrash(n) PROVE DueStep(x)
  <2>1. Waiting(x)' \subseteq Waiting(x)
    BY <1>0, <1>10 DEF Waiting, NodeCrash, NoRequest, Request
  <2>2. QED
    BY <1>a, <1>b, <1>10, <2>1 DEF NodeCrash
<1>11. CASE ControlCrash
  BY <1>11, <1>c DEF ControlCrash
<1>12. CASE UNCHANGED vars
  BY <1>12, <1>c DEF vars
<1>13. QED
  BY <1>1, <1>2, <1>3, <1>4, <1>5, <1>6, <1>7, <1>8, <1>9, <1>10, <1>11, <1>12 DEF Next, NodeStep

(* What a step does to the books covers what it makes due.                 *)
LEMMA CoverNext == TypeOK /\ QuotaHeld /\ CoverInv /\ [Next]_vars => CoverInv'
<1> SUFFICES ASSUME TypeOK, QuotaHeld, CoverInv, [Next]_vars PROVE CoverInv'
  OBVIOUS
<1>1. FiniteDue /\ \A x \in Accounts : DueStep(x)
  BY DueNext DEF CoverInv
<1>2. FiniteDue'
  BY <1>1 DEF FiniteDue, DueStep
<1> SUFFICES ASSUME NEW x \in Accounts, x \notin wrapped'
             PROVE  /\ Size * Due(x)' <= mem'.used[x] + released'[x]
                    /\ Size * Due(x)' <= disk'.used[x] + released'[x]
  BY <1>2 DEF CoverInv, Backed
<1> DEFINE Goal == /\ Size * Due(x)' <= mem'.used[x] + released'[x]
                   /\ Size * Due(x)' <= disk'.used[x] + released'[x]
<1>3. /\ mem.used[x] \in Int /\ disk.used[x] \in Int /\ released[x] \in Int
      /\ mem'.used[x] \in Int /\ disk'.used[x] \in Int /\ released'[x] \in Int
  BY QuotaShape, TypeParts, SpaceAssumption DEF Parts, BooksType, Books
<1>4. x \notin wrapped => /\ Size * Due(x) <= mem.used[x] + released[x]
                         /\ Size * Due(x) <= disk.used[x] + released[x]
  BY DEF CoverInv, Backed
<1>5. /\ Size \in Nat /\ Due(x) \in Nat /\ Due(x)' \in Nat
      /\ Size * Due(x) \in Nat /\ Size * Due(x)' \in Nat
      /\ Due(x)' <= Due(x) => Size * Due(x)' <= Size * Due(x)
      /\ Due(x)' <= Due(x) + 1 => Size * Due(x)' <= Size * Due(x) + Size
  <2>1. Size \in Nat /\ Due(x) \in Nat /\ Due(x)' \in Nat /\ Due(x) + 1 \in Nat
    BY <1>1, DueType, SpaceAssumption DEF DueStep
  <2>2. Size * Due(x)' \in Nat /\ Size * Due(x) \in Nat /\ Size * (Due(x) + 1) = Size * Due(x) + Size
    BY <2>1, Multiples
  <2>3. Due(x)' <= Due(x) => Size * Due(x)' <= Size * Due(x)
    BY <2>1, Multiples
  <2>4. Due(x)' <= Due(x) + 1 => Size * Due(x)' <= Size * (Due(x) + 1)
    BY <2>1, Multiples
  <2>5. QED
    BY <2>1, <2>2, <2>3, <2>4
<1>6. CASE Due(x)' <= Due(x)
  <2>1. ASSUME NEW a \in Accounts, NEW n \in 0 .. MaxInt, NEW ok \in BOOLEAN, Reserve(a, n, ok)
        PROVE  Goal
    <3>1. /\ x \notin wrapped /\ released' = released /\ disk' = (IF ok THEN mem' ELSE disk)
          /\ mem'.used[x] >= mem.used[x]
      BY <1>3, <2>1, ReserveUsage
    <3>2. QED
      BY <1>3, <1>4, <1>5, <1>6, <3>1
  <2>2. ASSUME NEW a \in Accounts, NEW n \in 0 .. MaxInt, NEW ok \in BOOLEAN, Release(a, n, ok)
        PROVE  Goal
    <3>1. /\ x \notin wrapped /\ released'[x] >= released[x]
          /\ disk' = (IF ok THEN mem' ELSE disk)
          /\ mem'.used[x] + released'[x] = mem.used[x] + released[x]
      BY <2>2, ReleaseUsage
    <3>2. QED
      BY <1>3, <1>4, <1>5, <1>6, <3>1
  <2>3. ASSUME mem'.used = mem.used, disk' \in {disk, mem'}, UNCHANGED <<released, wrapped>>
        PROVE  Goal
    BY <1>3, <1>4, <1>5, <1>6, <2>3
  <2>4. ASSUME mem' = disk, UNCHANGED <<disk, released, wrapped>> PROVE Goal
    BY <1>3, <1>4, <1>5, <1>6, <2>4
  <2>5. QED
    BY <2>1, <2>2, <2>3, <2>4, EveryStep DEF BooksStep
<1>7. CASE Granted(x) /\ Due(x)' <= Due(x) + 1
  <2>1. PICK q \in Requests : req[q].acct = x /\ ControlReserve(q, TRUE)
    BY <1>7 DEF Granted
  <2>2. Size \in 0 .. MaxInt /\ req[q].acct \in Accounts /\ Reserve(req[q].acct, Size, TRUE)
    <3>1. Size \in 0 .. MaxInt
      BY SpaceAssumption
    <3>2. QED
      BY <2>1, <3>1 DEF ControlReserve
  <2>3. /\ x \notin wrapped /\ released' = released /\ disk' = mem'
        /\ mem'.used[x] = mem.used[x] + Size
    BY <2>1, <2>2, ReserveUsage
  <2>4. QED
    BY <1>3, <1>4, <1>5, <1>7, <2>3
<1>8. QED
  BY <1>1, <1>6, <1>7 DEF DueStep

LEMMA CoverInit == Init => CoverInv
<1> SUFFICES ASSUME Init PROVE CoverInv
  OBVIOUS
<1>1. ASSUME NEW x \in Accounts PROVE StoredFor(x) = {} /\ Waiting(x) = {}
  <2>1. x # None
    BY NoneAssumption
  <2>2. QED
    BY <2>1 DEF Init, StoredFor, Waiting, NoRequest
<1>2. \A x \in Accounts : Cardinality(StoredFor(x)) = 0 /\ Cardinality(Waiting(x)) = 0
  BY <1>1, FS_EmptySet
<1>3. \A x \in Accounts : Size * Due(x) = 0
  BY <1>2, SpaceAssumption DEF Due
<1>4. FiniteDue
  BY <1>1, FS_EmptySet DEF FiniteDue
<1>5. QED
  BY <1>3, <1>4 DEF Init, CoverInv, Backed

(* No block is stored for free: what the nodes store for an account is     *)
(* covered by its usage in memory and on disk, and by what it released,    *)
(* through every lost answer, late call, failed write and crash, for every *)
(* account whose counter no direct call has overflowed.                    *)
THEOREM StoredIsPaidFor == Spec => []StoredIsCharged
<1>1. TypeOK /\ CoverInv => StoredIsCharged
  <2> SUFFICES ASSUME TypeOK, CoverInv, NEW x \in Accounts \ wrapped
               PROVE  /\ Size * Cardinality(StoredFor(x)) <= mem.used[x] + released[x]
                      /\ Size * Cardinality(StoredFor(x)) <= disk.used[x] + released[x]
    BY DEF StoredIsCharged, Covered
  <2>1. /\ Size * Due(x) <= mem.used[x] + released[x]
        /\ Size * Due(x) <= disk.used[x] + released[x]
    BY DEF CoverInv, Backed
  <2>2. Due(x) \in Nat /\ Cardinality(StoredFor(x)) \in Nat /\ Cardinality(StoredFor(x)) <= Due(x)
    BY DueType DEF CoverInv, Due
  <2>3. /\ Size * Cardinality(StoredFor(x)) <= Size * Due(x)
        /\ Size * Cardinality(StoredFor(x)) \in Nat /\ Size * Due(x) \in Nat
    BY <2>2, Multiples
  <2>4. mem.used[x] \in Int /\ disk.used[x] \in Int /\ released[x] \in Int
    BY TypeParts, SpaceAssumption DEF Parts, BooksType, Books
  <2>5. QED
    BY <2>1, <2>3, <2>4
<1>2. QED
  BY <1>1, CoverInit, CoverNext, QuotaTypeCorrect, QuotaIsHeld, PTL DEF Spec
-----------------------------------------------------------------------------
(* A step that charges for no PUT of a block, begins none, and ends one    *)
(* that was charged for only when the block is held.                       *)
LEMMA OnceKept ==
  ASSUME NEW x \in Places, OnceAt(x), charges'[x] = charges[x],
         x[2] \in held[x[1]] => x[2] \in held'[x[1]],
         \A q \in InUse(x)' : q \in InUse(x) /\ req'[q] = req[q],
         \A q \in InUse(x) \ InUse(x)' :
           req[q].pc \in {"granted", "put"} => x[2] \in held'[x[1]]
  PROVE  OnceAt(x)'
BY DEF OnceAt

LEMMA OnceNext == TypeOK /\ OnceInv /\ [Next]_vars => OnceInv'
<1> SUFFICES ASSUME TypeOK, OnceInv, [Next]_vars, NEW x \in Places, x \notin excused'
             PROVE  OnceAt(x)'
  BY DEF OnceInv
<1>0. /\ RequestsType /\ req \in [Requests -> Request]
      /\ held \in [Nodes -> SUBSET Blocks] /\ charges \in [Places -> Nat]
  BY TypeParts DEF Parts, RequestsType
<1>a. ASSUME excused \subseteq excused' PROVE OnceAt(x)
  BY <1>a DEF OnceInv
<1>b. x[1] \in Nodes /\ x[2] \in Blocks /\ x = <<x[1], x[2]>>
  BY DEF Places
<1>c. ASSUME UNCHANGED <<req, held, charges>>, excused \subseteq excused' PROVE OnceAt(x)'
  BY <1>a, <1>c DEF OnceAt, InUse, Place
<1>d. ASSUME NEW q \in Requests, Finish(q), UNCHANGED <<held, charges>>, excused \subseteq excused',
             q \in InUse(x) => req[q].pc \notin {"granted", "put"}
      PROVE  OnceAt(x)'
  <2>1. \A r \in InUse(x)' : r \in InUse(x) /\ req'[r] = req[r]
    BY <1>0, <1>d DEF InUse, Place, Finish, NoRequest
  <2>2. \A r \in InUse(x) \ InUse(x)' : r = q
    BY <1>0, <1>d DEF InUse, Place, Finish
  <2>3. QED
    BY <1>a, <1>d, <2>1, <2>2, OnceKept
<1>e. ASSUME NEW q \in Requests, NEW pc \in {"reserve", "granted", "put", "late"}, To(q, pc),
             q \notin InUse(x), req[q].pc # "free", UNCHANGED held, charges'[x] = charges[x],
             excused \subseteq excused'
      PROVE  OnceAt(x)'
  <2>1. \A r \in InUse(x)' : r \in InUse(x) /\ req'[r] = req[r]
    BY <1>0, <1>e DEF InUse, Place, To, Request
  <2>2. InUse(x) \ InUse(x)' = {}
    BY <1>0, <1>e DEF InUse, Place, To
  <2>3. QED
    BY <1>a, <1>e, <2>1, <2>2, OnceKept
<1>1. ASSUME NEW a \in Accounts, NEW n \in DirectAmounts, NEW ok \in BOOLEAN, DirectCall(a, n, ok)
      PROVE  OnceAt(x)'
  BY <1>1, <1>c DEF DirectCall
<1>2. ASSUME NEW a \in Accounts, NEW st \in {"active", "suspended"}, NEW ok \in BOOLEAN,
             SetStatus(a, st, ok)
      PROVE  OnceAt(x)'
  BY <1>2, <1>c DEF SetStatus
<1>3. ASSUME NEW q \in Requests, NEW n \in Nodes, NEW a \in Accounts, NEW b \in Blocks,
             Arrive(q, n, a, b)
      PROVE  OnceAt(x)'
  <2>1. /\ req' = [req EXCEPT ![q] = [pc |-> "probe", node |-> n, acct |-> a, block |-> b]]
        /\ UNCHANGED <<held, charges>> /\ req[q].pc = "free"
        /\ excused' = excused \cup (IF InUse(<<n, b>>) = {} THEN {} ELSE {<<n, b>>})
    BY <1>3 DEF Arrive, Excuse
  <2>2. OnceAt(x)
    BY <1>a, <2>1
  <2>3. CASE x # <<n, b>>
    <3>1. \A r \in InUse(x)' : r \in InUse(x) /\ req'[r] = req[r]
      BY <1>0, <2>1, <2>3 DEF InUse, Place
    <3>2. InUse(x) \ InUse(x)' = {}
      BY <1>0, <2>1, <2>3 DEF InUse, Place
    <3>3. QED
      BY <2>1, <2>2, <3>1, <3>2, OnceKept
  <2>4. CASE x = <<n, b>>
    <3>1. InUse(x) = {}
      BY <2>1, <2>4
    <3>2. \A r \in InUse(x)' : r = q /\ req'[r].pc = "probe"
      BY <1>0, <2>1, <3>1 DEF InUse, Place
    <3>3. charges[x] = 1 => x[2] \in held[x[1]]
      BY <2>2, <3>1 DEF OnceAt
    <3>4. QED
      BY <2>1, <2>2, <3>2, <3>3 DEF OnceAt
  <2>5. QED
    BY <2>3, <2>4
<1>4. ASSUME NEW q \in Requests, Probe(q) PROVE OnceAt(x)'
  <2> DEFINE pc == IF req[q].block \in held[req[q].node] THEN "put" ELSE "reserve"
  <2>1. /\ req[q].pc = "probe" /\ To(q, pc) /\ pc \in {"put", "reserve"}
        /\ UNCHANGED <<held, charges, excused>>
    BY <1>4 DEF Probe
  <2>2. OnceAt(x)
    BY <1>a, <2>1
  <2>3. CASE q \notin InUse(x)
    BY <1>e, <2>1, <2>3
  <2>4. CASE q \in InUse(x)
    <3>1. InUse(x) = {q} /\ Place(q) = x
      BY <2>2, <2>4 DEF OnceAt, InUse
    <3>2. charges[x] = 1 => x[2] \in held[x[1]]
      BY <2>1, <2>2, <3>1 DEF OnceAt
    <3>3. pc = "reserve" => x[2] \notin held[x[1]]
      BY <3>1 DEF Place
    <3>4. \A r \in InUse(x)' : r = q /\ req'[r].pc = pc
      BY <1>0, <2>1, <3>1 DEF InUse, Place, To, Request
    <3>5. charges[x] \in Nat
      BY <1>0
    <3> HIDE DEF pc
    <3>6. pc = "reserve" => charges[x] = 0
      BY <2>2, <3>2, <3>3, <3>5 DEF OnceAt
    <3>7. QED
      BY <2>1, <2>2, <3>2, <3>4, <3>6 DEF OnceAt
  <2>5. QED
    BY <2>3, <2>4
<1>5. ASSUME NEW q \in Requests, ReceiveGrant(q) PROVE OnceAt(x)'
  <2>1. req[q].pc = "granted" /\ To(q, "put") /\ UNCHANGED <<held, charges, excused>>
    BY <1>5 DEF ReceiveGrant
  <2>2. OnceAt(x)
    BY <1>a, <2>1
  <2>3. CASE q \notin InUse(x)
    BY <1>e, <2>1, <2>3
  <2>4. CASE q \in InUse(x)
    <3>1. InUse(x) = {q}
      BY <2>2, <2>4 DEF OnceAt
    <3>2. InUse(x)' = {q} /\ req'[q].pc = "put"
      BY <1>0, <2>1, <3>1 DEF InUse, Place, To, Request
    <3>3. QED
      BY <2>1, <2>2, <3>2 DEF OnceAt
  <2>5. QED
    BY <2>3, <2>4
<1>6. ASSUME NEW q \in Requests, TimeOut(q) \/ StoreFails(q) \/ ProbeFails(q) PROVE OnceAt(x)'
  <2>1. /\ excused \subseteq excused' /\ Place(q) \in excused' /\ req[q].pc # "free"
        /\ UNCHANGED <<held, charges>>
        /\ Finish(q) \/ To(q, "late") \/ To(q, "reserve")
    BY <1>6 DEF TimeOut, StoreFails, ProbeFails, Excuse
  <2>2. q \notin InUse(x)
    BY <2>1 DEF InUse
  <2>3. QED
    BY <1>d, <1>e, <2>1, <2>2
<1>7. ASSUME NEW q \in Requests, ControlRefuse(q) \/ DropLate(q) PROVE OnceAt(x)'
  BY <1>d, <1>7 DEF ControlRefuse, DropLate
<1>8. ASSUME NEW q \in Requests, NEW ok \in BOOLEAN, LateReserve(q, ok) PROVE OnceAt(x)'
  <2>1. /\ req[q].pc = "late" /\ Finish(q) /\ UNCHANGED <<held, excused>>
        /\ charges' = [charges EXCEPT ![Place(q)] = @ + 1]
    BY <1>8 DEF LateReserve
  <2>2. OnceAt(x)
    BY <1>a, <2>1
  <2>3. q \notin InUse(x) /\ Place(q) # x
    BY <2>1, <2>2 DEF OnceAt, InUse
  <2>4. charges'[x] = charges[x]
    BY <1>0, <2>1, <2>3
  <2>5. \A r \in InUse(x)' : r \in InUse(x) /\ req'[r] = req[r]
    BY <1>0, <2>1 DEF InUse, Place, Finish, NoRequest
  <2>6. InUse(x) \ InUse(x)' = {}
    BY <1>0, <2>1, <2>3 DEF InUse, Place, Finish
  <2>7. QED
    BY <2>1, <2>2, <2>4, <2>5, <2>6, OnceKept
<1>9. ASSUME NEW q \in Requests, NEW ok \in BOOLEAN, ControlReserve(q, ok) PROVE OnceAt(x)'
  <2>1. /\ req[q].pc = "reserve" /\ UNCHANGED held /\ excused \subseteq excused'
        /\ charges' = [charges EXCEPT ![Place(q)] = @ + 1]
    BY <1>9 DEF ControlReserve, Excuse
  <2>2. OnceAt(x)
    BY <1>a, <2>1
  <2>3. CASE Place(q) # x
    <3>1. q \notin InUse(x) /\ charges'[x] = charges[x]
      BY <1>0, <2>1, <2>3 DEF InUse
    <3>2. CASE ok = TRUE
      BY <1>9, <1>e, <2>1, <3>1, <3>2 DEF ControlReserve
    <3>3. CASE ok = FALSE
      <4>1. Finish(q)
        BY <1>9, <3>3 DEF ControlReserve
      <4>2. \A r \in InUse(x)' : r \in InUse(x) /\ req'[r] = req[r]
        BY <1>0, <4>1 DEF InUse, Place, Finish, NoRequest
      <4>3. InUse(x) \ InUse(x)' = {}
        BY <1>0, <3>1, <4>1 DEF InUse, Place, Finish
      <4>4. QED
        BY <2>1, <2>2, <3>1, <4>2, <4>3, OnceKept
    <3>4. QED
      BY <3>2, <3>3
  <2>4. CASE Place(q) = x
    <3>1. ok = TRUE
      BY <1>9, <2>4 DEF ControlReserve, Excuse
    <3>2. To(q, "granted")
      BY <1>9, <3>1 DEF ControlReserve
    <3>3. q \in InUse(x)
      BY <2>1, <2>4 DEF InUse
    <3>4. InUse(x) = {q} /\ charges[x] = 0
      BY <2>1, <2>2, <3>3 DEF OnceAt
    <3>5. InUse(x)' = {q} /\ req'[q].pc = "granted"
      BY <1>0, <3>2, <3>4 DEF InUse, Place, To, Request
    <3>6. charges'[x] = 1
      BY <1>0, <2>1, <2>4, <3>4
    <3>7. QED
      BY <3>5, <3>6 DEF OnceAt
  <2>5. QED
    BY <2>3, <2>4
<1>10. ASSUME NEW q \in Requests, StoreBlock(q) PROVE OnceAt(x)'
  <2>1. /\ req[q].pc = "put" /\ Finish(q) /\ UNCHANGED <<charges, excused>>
        /\ held' = [held EXCEPT ![req[q].node] = @ \cup {req[q].block}]
    BY <1>10 DEF StoreBlock
  <2>2. req[q].node \in Nodes
    BY <1>0, <2>1, InService
  <2>3. x[2] \in held[x[1]] => x[2] \in held'[x[1]]
    BY <1>0, <1>b, <2>1, <2>2
  <2>4. Place(q) = x => x[2] \in held'[x[1]]
    BY <1>0, <1>b, <2>1, <2>2 DEF Place
  <2>5. \A r \in InUse(x)' : r \in InUse(x) /\ req'[r] = req[r]
    BY <1>0, <2>1 DEF InUse, Place, Finish, NoRequest
  <2>6. \A r \in InUse(x) \ InUse(x)' : r = q /\ Place(q) = x
    BY <1>0, <2>1 DEF InUse, Place, Finish
  <2>7. OnceAt(x)
    BY <1>a, <2>1
  <2>8. QED
    BY <2>1, <2>3, <2>4, <2>5, <2>6, <2>7, OnceKept
<1>11. ASSUME NEW n \in Nodes, NodeCrash(n) PROVE OnceAt(x)'
  <2>1. /\ UNCHANGED <<held, charges>> /\ excused \subseteq excused'
        /\ \A q \in Requests : req[q].node = n /\ req[q].pc # "probe" => Place(q) \in excused'
    BY <1>11 DEF NodeCrash, Excuse
  <2>2. \A q \in Requests :
          \/ req'[q] = req[q]
          \/ req'[q] = NoRequest /\ (req[q].pc = "probe" \/ Place(q) \in excused')
          \/ Place(q) \in excused' /\ Place(q)' = Place(q)
    <3> SUFFICES ASSUME NEW q \in Requests, req'[q] # req[q]
                 PROVE  \/ req'[q] = NoRequest /\ (req[q].pc = "probe" \/ Place(q) \in excused')
                        \/ Place(q) \in excused' /\ Place(q)' = Place(q)
      OBVIOUS
    <3>1. /\ req[q].node = n /\ req[q].pc # "late"
          /\ req'[q] = IF req[q].pc = "reserve" THEN [req[q] EXCEPT !.pc = "late"] ELSE NoRequest
      BY <1>11 DEF NodeCrash
    <3>2. req[q].pc # "probe" => Place(q) \in excused'
      BY <2>1, <3>1
    <3>3. CASE req[q].pc = "reserve"
      <4>1. req'[q].node = req[q].node /\ req'[q].block = req[q].block
        BY <1>0, <3>1, <3>3 DEF Request
      <4>2. QED
        BY <3>2, <3>3, <4>1 DEF Place
    <3>4. CASE req[q].pc # "reserve"
      BY <3>1, <3>2, <3>4
    <3>5. QED
      BY <3>3, <3>4
  <2>3. \A r \in InUse(x)' : r \in InUse(x) /\ req'[r] = req[r]
    <3> SUFFICES ASSUME NEW r \in Requests, r \in InUse(x)' PROVE r \in InUse(x) /\ req'[r] = req[r]
      BY DEF InUse
    <3>1. req'[r].pc # "free" /\ Place(r)' = x
      BY DEF InUse
    <3>2. req'[r] # NoRequest
      BY <3>1 DEF NoRequest
    <3>3. req'[r] = req[r]
      BY <2>2, <3>1, <3>2
    <3>4. QED
      BY <3>1, <3>3 DEF InUse, Place
  <2>4. \A r \in InUse(x) \ InUse(x)' : req[r].pc = "probe"
    BY <2>2 DEF InUse, Place
  <2>5. OnceAt(x)
    BY <1>a, <2>1
  <2>6. QED
    BY <2>1, <2>3, <2>4, <2>5, OnceKept
<1>12. CASE ControlCrash
  BY <1>12, <1>c DEF ControlCrash
<1>13. CASE UNCHANGED vars
  BY <1>13, <1>c DEF vars
<1>14. QED
  BY <1>1, <1>2, <1>3, <1>4, <1>5, <1>6, <1>7, <1>8, <1>9, <1>10, <1>11, <1>12, <1>13
     DEF Next, NodeStep

(* A block of a node is charged once, whichever tenants PUT it, unless two *)
(* PUTs of it ran at once or one met a fault: the probe before the charge  *)
(* sees every block that an earlier PUT was charged for.                   *)
THEOREM BlockIsChargedOnce == Spec => []ChargedOnce
<1>1. Init => OnceInv
  BY DEF Init, OnceInv, OnceAt, InUse, NoRequest
<1>2. OnceInv => ChargedOnce
  BY DEF OnceInv, OnceAt, ChargedOnce
<1>3. QED
  BY <1>1, <1>2, OnceNext, QuotaTypeCorrect, PTL DEF Spec
=============================================================================
