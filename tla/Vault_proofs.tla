---------------------------- MODULE Vault_proofs ----------------------------
(***************************************************************************)
(* The file layer on the redundant block store keeps every promise of its  *)
(* runs for any number of backends, clients, files, chunks and faults.     *)
(***************************************************************************)
EXTENDS Vault, FiniteSetTheorems, TLAPS

PutPc == {"write", "stored", "short"}
GetPc == {"read", "missing", "heal", "found"}

(* A client's call is of its command, is for a block, and has counted no   *)
(* more backends than it has been to.                                      *)
CallOK(c) ==
  /\ job[c].op = "idle" <=> call[c].pc = "idle"
  /\ job[c].op = "put" <=> call[c].pc \in PutPc
  /\ call[c].pc # "idle" => call[c].block \in Blocks
  /\ call[c].pc = "write" => call[c].took < call[c].at
  /\ call[c].pc = "read" => call[c].missed < call[c].at
CallsOK == \A c \in Clients : CallOK(c)

Puts(c) == job[c].op = "put"
Gets(c) == job[c].op = "get"

(* A file is put by one command, which keeps its parts in order, and asked *)
(* for when all of them are kept.                                          *)
FilesOK ==
  /\ \A c \in Clients :
       /\ Puts(c) => FileOf(c) \notin acked
       /\ Gets(c) => FileOf(c) \in acked
       /\ Puts(c) => \A k \in Parts : k < job[c].part => <<FileOf(c), k>> \in kept
       /\ call[c].pc = "stored" => call[c].block \in kept
  /\ \A c, d \in Clients : Puts(c) /\ Puts(d) /\ FileOf(c) = FileOf(d) => c = d
  /\ \A f \in acked, k \in Parts : <<f, k>> \in kept

(* No backend holds a part that has not been put there.                    *)
Nowhere(x) == \A b \in Backends : copy[x][b] = "none"
FreshInv ==
  /\ \A f \in Files \ begun, k \in Parts : Nowhere(<<f, k>>)
  /\ \A c \in Clients : Puts(c) => \A k \in Parts : k > job[c].part => Nowhere(<<FileOf(c), k>>)
  /\ \A c \in Clients : call[c].pc = "write" =>
       \A b \in Backends : b >= call[c].at => copy[call[c].block][b] = "none"

(* Copies and the faults that cost one, for a block that is kept, for one  *)
(* being put, and for one being read from the backends not yet asked.      *)
GoodFrom(x, n) == {b \in Backends : copy[x][b] = "good" /\ b >= n}
Copies(x, n) == Cardinality(GoodFrom(x, n)) + faults[x]
CallCopies(c) ==
  /\ call[c].pc = "write" => Copies(call[c].block, 1) >= call[c].took
  /\ call[c].pc = "read" => Copies(call[c].block, call[c].at) + call[c].missed >= 2
  /\ call[c].pc = "missing" => faults[call[c].block] + call[c].missed >= 2
CopiesInv ==
  /\ \A x \in kept : Copies(x, 1) >= 2
  /\ \A c \in Clients : CallCopies(c)

(* A clean Get has left a copy at every backend it has been to.            *)
CallHeals(c) == call[c].pc = "heal" /\ call[c].clean =>
  \A b \in Backends : b < call[c].at => copy[call[c].block][b] # "none"
HealInv == HealedPresence /\ \A c \in Clients : CallHeals(c)
-----------------------------------------------------------------------------
(* The steps of the model, by what they do to a client's call and job.     *)
StoreSame == UNCHANGED <<copy, failures, rot, kept, faults, healed>>
Ends(c) ==
  /\ job[c].op # "idle" /\ EndCall(c) /\ StoreSame /\ begun' = begun
  /\ \/ acked' = acked
     \/ /\ call[c].pc = "stored" /\ job[c].part = Manifest
        /\ acked' = acked \cup {FileOf(c)}
StartsPut(c, f, k) ==
  /\ PutPart(c, f, k) /\ StoreSame /\ acked' = acked
  /\ \/ job[c].op = "idle" /\ f \notin begun /\ begun' = begun \cup {f} /\ k = 1
     \/ call[c].pc = "stored" /\ f = FileOf(c) /\ begun' = begun /\ k = job[c].part + 1
StartsGet(c, f, k) ==
  /\ GetPart(c, f, k) /\ StoreSame /\ UNCHANGED <<begun, acked>>
  /\ \/ job[c].op = "idle" /\ f \in acked
     \/ call[c].pc = "found" /\ f = FileOf(c)
ClientStep(c) ==
  \/ Ends(c)
  \/ \E f \in Files, k \in Parts : StartsPut(c, f, k) \/ StartsGet(c, f, k)
  \/ /\ StoreStep(c)
     /\ UNCHANGED <<job, begun, acked>>
FaultStep == /\ \E x \in Blocks, b \in Backends, to \in {"none", "bad"} : CopyFault(x, b, to)
             /\ UNCHANGED <<job, begun, acked>>
AnyStep == (\E c \in Clients : ClientStep(c)) \/ FaultStep \/ UNCHANGED vars

LEMMA CallBlock ==
  ASSUME TypeOK, CallsOK, NEW c \in Clients, job[c].op # "idle" \/ call[c].pc # "idle"
  PROVE  /\ job[c].op # "idle" /\ call[c].pc # "idle"
         /\ call[c].block \in Blocks /\ FileOf(c) \in Files /\ FileOf(c) \in begun
         /\ job[c].part \in Parts /\ call[c].block = <<FileOf(c), job[c].part>>
<1>1. /\ job[c].op # "idle" /\ call[c].pc # "idle" /\ call[c].block \in Blocks
  BY DEF CallsOK, CallOK
<1>2. FileOf(c) \in begun /\ call[c].block[2] = job[c].part /\ job[c].part \in Parts
  BY <1>1 DEF TypeOK, FileOf
<1>3. call[c].block \in Files \X Parts
  BY <1>1, FilesAssumption
<1>4. QED
  BY <1>1, <1>2, <1>3 DEF FileOf

LEMMA Numbers ==
  /\ N \in Nat /\ N >= 2 /\ Backends = 1 .. N
  /\ Chunks \in Nat /\ Manifest = Chunks + 1 /\ Manifest \in Parts /\ 1 \in Parts
  /\ Parts = 1 .. Manifest /\ Blocks = Files \X Parts
BY StoreAssumption, FilesAssumption DEF Backends, Manifest, Parts

LEMMA Steps == ASSUME TypeOK, CallsOK, [Next]_vars PROVE AnyStep
<1>1. ASSUME NEW c \in Clients, NEW f \in Files, PutFile(c, f) PROVE ClientStep(c)
  BY <1>1, Numbers DEF PutFile, frame, StoreSame, StartsPut, ClientStep
<1>2. ASSUME NEW c \in Clients, NEW f \in Files, GetFile(c, f) PROVE ClientStep(c)
  BY <1>2, Numbers DEF GetFile, frame, StoreSame, StartsGet, ClientStep
<1>3. ASSUME NEW c \in Clients, PutNext(c) PROVE ClientStep(c)
  <2>1. FileOf(c) \in Files /\ job[c].part \in Parts
    BY <1>3, CallBlock DEF PutNext
  <2>2. job[c].part + 1 \in Parts
    BY <1>3, <2>1, Numbers DEF PutNext
  <2>3. StartsPut(c, FileOf(c), job[c].part + 1)
    BY <1>3 DEF PutNext, frame, StoreSame, StartsPut
  <2>4. QED
    BY <2>1, <2>2, <2>3 DEF ClientStep
<1>4. ASSUME NEW c \in Clients, GetNext(c) PROVE ClientStep(c)
  <2> DEFINE k == IF job[c].part = Manifest THEN 1 ELSE job[c].part + 1
  <2>1. FileOf(c) \in Files /\ job[c].part \in Parts
    BY <1>4, CallBlock DEF GetNext
  <2>2. k \in Parts
    BY <2>1, Numbers
  <2>3. StartsGet(c, FileOf(c), k)
    BY <1>4 DEF GetNext, frame, StoreSame, StartsGet
  <2>4. QED
    BY <2>1, <2>2, <2>3 DEF ClientStep
<1>5. ASSUME NEW c \in Clients, PutDone(c) \/ PutFails(c) \/ GetDone(c) \/ GetFails(c) \/ Abort(c)
      PROVE  ClientStep(c)
  <2>1. job[c].op # "idle"
    BY <1>5, CallBlock DEF PutDone, PutFails, GetDone, GetFails, Abort
  <2>2. Ends(c)
    BY <1>5, <2>1 DEF PutDone, PutFails, GetDone, GetFails, Abort, frame, StoreSame, Ends
  <2>3. QED
    BY <2>2 DEF ClientStep
<1>6. ASSUME NEW c \in Clients, StoreStep(c), UNCHANGED <<job, begun, acked>> PROVE ClientStep(c)
  BY <1>6 DEF ClientStep
<1>7. QED
  BY <1>1, <1>2, <1>3, <1>4, <1>5, <1>6 DEF Next, AnyStep, FaultStep
-----------------------------------------------------------------------------
CallType == [pc : {"idle", "write", "stored", "short", "read", "missing", "heal", "found"},
             block : Blocks \cup {None}, at : Backends, took : 0 .. N,
             missed : 0 .. N, clean : BOOLEAN]
CallsType == call \in [Clients -> CallType]
JobType == [op : {"idle", "put", "get"}, part : Parts]
DataType == /\ copy \in [Blocks -> [Backends -> {"none", "good", "bad"}]]
            /\ failures \in Nat /\ rot \in Nat
            /\ kept \subseteq Blocks /\ healed \subseteq Blocks
            /\ faults \in [Blocks -> Nat]
JobsOK == \A c \in Clients : job[c].op # "idle" =>
            call[c].block[1] \in begun /\ call[c].block[2] = job[c].part

LEMMA TypeSplit ==
  /\ TypeOK <=> /\ DataType /\ CallsType /\ job \in [Clients -> JobType] /\ JobsOK
                /\ acked \subseteq begun /\ begun \subseteq Files
  /\ TypeOK' <=> /\ DataType' /\ CallsType' /\ job' \in [Clients -> JobType] /\ JobsOK'
                 /\ acked' \subseteq begun' /\ begun' \subseteq Files
BY DEF TypeOK, StoreTypeOK, DataType, CallsType, CallType, JobType, JobsOK

LEMMA PlacedType ==
  ASSUME DataType, NEW x \in Blocks, NEW b \in Backends
  PROVE  Placed(x, b) \in [Blocks -> [Backends -> {"none", "good", "bad"}]]
BY DEF DataType, Placed

(* What one backend of Put, of Get's reading and of its healing does.      *)
LEMMA PutAtEffect ==
  ASSUME DataType, CallsType, NEW c \in Clients, NEW takes \in BOOLEAN, NEW fail \in BOOLEAN,
         PutAt(c, takes, fail), CallOK(c)
  PROVE  /\ call[c].pc = "write" /\ call[c].block \in Blocks
         /\ CallsType' /\ failures' \in Nat /\ UNCHANGED <<rot, faults, healed>>
         /\ \A d \in Clients : d # c => call'[d] = call[d]
         /\ call'[c].block = call[c].block
         /\ call'[c].took = IF fail THEN call[c].took ELSE call[c].took + 1
         /\ call[c].at < N => call'[c].pc = "write" /\ call'[c].at = call[c].at + 1
         /\ call[c].at = N => call'[c].pc = IF call'[c].took >= 2 THEN "stored" ELSE "short"
         /\ copy' = IF takes THEN Placed(call[c].block, call[c].at) ELSE copy
         /\ takes \/ fail
         /\ kept' = IF call[c].at = N /\ call'[c].took >= 2 THEN kept \cup {call[c].block} ELSE kept
<1> DEFINE r == call[c]
           took == IF fail THEN r.took ELSE r.took + 1
           s == IF r.at < N THEN [r EXCEPT !.at = r.at + 1, !.took = took]
                ELSE [r EXCEPT !.took = took, !.pc = IF Enough(took) THEN "stored" ELSE "short"]
<1>1. /\ r.pc = "write" /\ Fails(fail) /\ call' = [call EXCEPT ![c] = s]
      /\ takes \/ fail
      /\ UNCHANGED <<rot, faults, healed>>
      /\ copy' = IF takes THEN Placed(r.block, r.at) ELSE copy
      /\ kept' = IF r.at = N /\ Enough(took) THEN kept \cup {r.block} ELSE kept
  BY DEF PutAt
<1>2. r \in CallType /\ r.block \in Blocks /\ r.took < r.at /\ r.at \in 1 .. N
  BY <1>1, Numbers DEF CallsType, CallOK, CallType
<1>3. took \in 0 .. N
  BY <1>2, Numbers DEF CallType
<1>4. s \in CallType
  <2>1. CASE r.at < N
    <3>1. r.at + 1 \in Backends
      BY <1>2, <2>1, Numbers
    <3>2. QED
      BY <1>2, <1>3, <2>1, <3>1 DEF CallType
  <2>2. CASE ~(r.at < N)
    BY <1>2, <1>3, <2>2 DEF CallType
  <2>3. QED
    BY <2>1, <2>2
<1>5. /\ s.block = r.block /\ s.took = took
      /\ r.at < N => s.pc = "write" /\ s.at = r.at + 1
      /\ r.at = N => s.pc = IF took >= 2 THEN "stored" ELSE "short"
  BY <1>1, <1>2, Numbers DEF CallType, Enough
<1> HIDE DEF s
<1>6. CallsType' /\ call'[c] = s /\ \A d \in Clients : d # c => call'[d] = call[d]
  BY <1>1, <1>4 DEF CallsType
<1>7. failures' \in Nat
  BY <1>1 DEF Fails, DataType
<1>8. QED
  BY <1>1, <1>2, <1>5, <1>6, <1>7 DEF Enough

LEMMA ReadNextEffect ==
  ASSUME DataType, CallsType, NEW c \in Clients, NEW fail \in BOOLEAN, ReadNext(c, fail), CallOK(c)
  PROVE  /\ call[c].pc = "read" /\ call[c].block \in Blocks
         /\ CallsType' /\ failures' \in Nat /\ UNCHANGED <<copy, rot, kept, faults, healed>>
         /\ \A d \in Clients : d # c => call'[d] = call[d]
         /\ call'[c].block = call[c].block
         /\ fail \/ copy[call[c].block][call[c].at] # "good"
         /\ call'[c].missed = IF fail THEN call[c].missed + 1 ELSE call[c].missed
         /\ call[c].at < N => call'[c].pc = "read" /\ call'[c].at = call[c].at + 1
         /\ call[c].at = N => call'[c].pc = "missing"
<1> DEFINE r == call[c]
           missed == IF fail THEN r.missed + 1 ELSE r.missed
           s == IF r.at < N THEN [r EXCEPT !.at = r.at + 1, !.missed = missed]
                ELSE [r EXCEPT !.missed = missed, !.pc = "missing"]
<1>1. /\ r.pc = "read" /\ Fails(fail) /\ call' = [call EXCEPT ![c] = s]
      /\ fail \/ copy[r.block][r.at] # "good"
      /\ UNCHANGED <<copy, rot, kept, faults, healed>>
  BY DEF ReadNext
<1>2. r \in CallType /\ r.block \in Blocks /\ r.missed < r.at /\ r.at \in 1 .. N
  BY <1>1, Numbers DEF CallsType, CallOK, CallType
<1>3. missed \in 0 .. N
  BY <1>2, Numbers DEF CallType
<1>4. s \in CallType
  <2>1. CASE r.at < N
    <3>1. r.at + 1 \in Backends
      BY <1>2, <2>1, Numbers
    <3>2. QED
      BY <1>2, <1>3, <2>1, <3>1 DEF CallType
  <2>2. CASE ~(r.at < N)
    BY <1>2, <1>3, <2>2 DEF CallType
  <2>3. QED
    BY <2>1, <2>2
<1>5. /\ s.block = r.block /\ s.missed = missed
      /\ r.at < N => s.pc = "read" /\ s.at = r.at + 1
      /\ r.at = N => s.pc = "missing"
  BY <1>1, <1>2, Numbers DEF CallType
<1> HIDE DEF s
<1>6. CallsType' /\ call'[c] = s /\ \A d \in Clients : d # c => call'[d] = call[d]
  BY <1>1, <1>4 DEF CallsType
<1>7. failures' \in Nat
  BY <1>1 DEF Fails, DataType
<1>8. QED
  BY <1>1, <1>2, <1>5, <1>6, <1>7

LEMMA ReadGoodEffect ==
  ASSUME DataType, CallsType, NEW c \in Clients, ReadGood(c), CallOK(c)
  PROVE  /\ call[c].pc = "read" /\ call[c].block \in Blocks
         /\ CallsType' /\ UNCHANGED <<copy, failures, rot, kept, faults, healed>>
         /\ \A d \in Clients : d # c => call'[d] = call[d]
         /\ call'[c].block = call[c].block /\ call'[c].pc = "heal" /\ call'[c].at = 1
<1>1. /\ call[c].pc = "read" /\ UNCHANGED <<copy, failures, rot, kept, faults, healed>>
      /\ call' = [call EXCEPT ![c] = [call[c] EXCEPT !.pc = "heal", !.at = 1]]
  BY DEF ReadGood, CallsType, CallType
<1>2. call[c] \in CallType /\ 1 \in Backends
  BY Numbers DEF CallsType
<1>3. [call[c] EXCEPT !.pc = "heal", !.at = 1] \in CallType
  BY <1>2 DEF CallType
<1>4. call[c].block \in Blocks
  BY <1>1 DEF CallOK
<1>5. QED
  BY <1>1, <1>2, <1>3, <1>4 DEF CallsType, CallType

LEMMA HealingEffect ==
  ASSUME CallsType, NEW c \in Clients, call[c].pc = "heal", NEW clean \in BOOLEAN, Healing(c, clean)
  PROVE  /\ CallsType' /\ \A d \in Clients : d # c => call'[d] = call[d]
         /\ call'[c].block = call[c].block /\ call'[c].clean = clean
         /\ call[c].at < N => call'[c].pc = "heal" /\ call'[c].at = call[c].at + 1
         /\ call[c].at = N => call'[c].pc = "found"
         /\ healed' = IF call[c].at = N /\ clean THEN healed \cup {call[c].block} ELSE healed
<1> DEFINE r == call[c]
           s == IF r.at < N THEN [r EXCEPT !.at = r.at + 1, !.clean = clean]
                ELSE [r EXCEPT !.clean = clean, !.pc = "found"]
<1>1. /\ call' = [call EXCEPT ![c] = s]
      /\ healed' = IF r.at = N /\ clean THEN healed \cup {r.block} ELSE healed
  BY DEF Healing
<1>2. r \in CallType /\ r.at \in 1 .. N
  BY Numbers DEF CallsType, CallType
<1>4. s \in CallType
  <2>1. CASE r.at < N
    <3>1. r.at + 1 \in Backends
      BY <1>2, <2>1, Numbers
    <3>2. QED
      BY <1>2, <2>1, <3>1 DEF CallType
  <2>2. CASE ~(r.at < N)
    BY <1>2, <2>2 DEF CallType
  <2>3. QED
    BY <2>1, <2>2
<1>5. /\ s.block = r.block /\ s.clean = clean
      /\ r.at < N => s.pc = "heal" /\ s.at = r.at + 1
      /\ r.at = N => s.pc = "found"
  BY <1>1, <1>2, Numbers DEF CallType
<1> HIDE DEF s
<1>6. CallsType' /\ call'[c] = s /\ \A d \in Clients : d # c => call'[d] = call[d]
  BY <1>1, <1>4 DEF CallsType
<1>8. QED
  BY <1>1, <1>5, <1>6

Heals(c) == HealSkip(c) \/ \E takes, fail \in BOOLEAN : HealPut(c, takes, fail)

LEMMA PlacedAt ==
  ASSUME DataType, NEW x \in Blocks, NEW b \in Backends
  PROVE  /\ Placed(x, b)[x][b] # "none"
         /\ \A y \in Blocks, d \in Backends :
              /\ y # x \/ d # b => Placed(x, b)[y][d] = copy[y][d]
              /\ copy[y][d] # "none" => Placed(x, b)[y][d] = copy[y][d]
              /\ copy[y][d] = "none" => Placed(x, b)[y][d] \in {"none", "good"}
BY DEF DataType, Placed

LEMMA HealEffect ==
  ASSUME DataType, CallsType, NEW c \in Clients, Heals(c), CallOK(c)
  PROVE  /\ call[c].pc = "heal" /\ call[c].block \in Blocks
         /\ CallsType' /\ failures' \in Nat /\ UNCHANGED <<rot, kept, faults>>
         /\ \A d \in Clients : d # c => call'[d] = call[d]
         /\ call'[c].block = call[c].block
         /\ call[c].at < N => call'[c].pc = "heal" /\ call'[c].at = call[c].at + 1
         /\ call[c].at = N => call'[c].pc = "found"
         /\ copy' = copy \/ copy' = Placed(call[c].block, call[c].at)
         /\ call'[c].clean => call[c].clean /\ copy'[call[c].block][call[c].at] # "none"
         /\ healed' = IF call[c].at = N /\ call'[c].clean THEN healed \cup {call[c].block} ELSE healed
<1>0. call[c].clean \in BOOLEAN /\ call[c].at \in Backends
  BY DEF CallsType, CallType
<1>1. CASE HealSkip(c)
  <2>1. /\ call[c].pc = "heal" /\ copy[call[c].block][call[c].at] # "none"
        /\ Healing(c, call[c].clean) /\ UNCHANGED <<copy, failures, rot, kept, faults>>
    BY <1>1 DEF HealSkip
  <2>2. call[c].block \in Blocks
    BY <2>1 DEF CallOK
  <2>3. failures' \in Nat
    BY <2>1 DEF DataType
  <2>4. QED
    BY <1>0, <2>1, <2>2, <2>3, HealingEffect
<1>2. ASSUME NEW takes \in BOOLEAN, NEW fail \in BOOLEAN, HealPut(c, takes, fail)
      PROVE  /\ call[c].pc = "heal" /\ call[c].block \in Blocks
             /\ CallsType' /\ failures' \in Nat /\ UNCHANGED <<rot, kept, faults>>
             /\ \A d \in Clients : d # c => call'[d] = call[d]
             /\ call'[c].block = call[c].block
             /\ call[c].at < N => call'[c].pc = "heal" /\ call'[c].at = call[c].at + 1
             /\ call[c].at = N => call'[c].pc = "found"
             /\ copy' = copy \/ copy' = Placed(call[c].block, call[c].at)
             /\ call'[c].clean => call[c].clean /\ copy'[call[c].block][call[c].at] # "none"
             /\ healed' = IF call[c].at = N /\ call'[c].clean THEN healed \cup {call[c].block}
                          ELSE healed
  <2> DEFINE clean == call[c].clean /\ ~fail
  <2>1. /\ call[c].pc = "heal" /\ Fails(fail) /\ Healing(c, clean) /\ UNCHANGED <<rot, kept, faults>>
        /\ takes \/ fail
        /\ copy' = IF takes THEN Placed(call[c].block, call[c].at) ELSE copy
    BY <1>2 DEF HealPut
  <2>2. clean \in BOOLEAN
    OBVIOUS
  <2>3. call[c].block \in Blocks
    BY <2>1 DEF CallOK
  <2>4. failures' \in Nat
    BY <2>1 DEF Fails, DataType
  <2>5. clean => call[c].clean /\ copy'[call[c].block][call[c].at] # "none"
    <3> SUFFICES ASSUME clean PROVE call[c].clean /\ copy'[call[c].block][call[c].at] # "none"
      OBVIOUS
    <3>1. call[c].clean /\ takes
      BY <2>1
    <3>2. copy' = Placed(call[c].block, call[c].at)
      BY <2>1, <3>1
    <3>3. QED
      BY <1>0, <2>3, <3>1, <3>2, PlacedAt
  <2> HIDE DEF clean
  <2>6. /\ CallsType' /\ \A d \in Clients : d # c => call'[d] = call[d]
        /\ call'[c].block = call[c].block /\ call'[c].clean = clean
        /\ call[c].at < N => call'[c].pc = "heal" /\ call'[c].at = call[c].at + 1
        /\ call[c].at = N => call'[c].pc = "found"
        /\ healed' = IF call[c].at = N /\ clean THEN healed \cup {call[c].block} ELSE healed
    BY <2>1, <2>2, HealingEffect
  <2>7. copy' = copy \/ copy' = Placed(call[c].block, call[c].at)
    BY <2>1
  <2>8. QED
    BY <2>1, <2>3, <2>4, <2>5, <2>6, <2>7
<1>3. QED
  BY <1>1, <1>2 DEF Heals

(* What the steps of the file layer do.                                    *)
Fresh(pc, x) == [pc |-> pc, block |-> x, at |-> 1, took |-> 0, missed |-> 0, clean |-> TRUE]

LEMMA StartEffect ==
  ASSUME CallsType, job \in [Clients -> JobType], NEW c \in Clients, NEW f \in Files, NEW k \in Parts
  PROVE  /\ PutPart(c, f, k) =>
              /\ CallsType' /\ job' \in [Clients -> JobType]
              /\ call'[c] = Fresh("write", <<f, k>>) /\ job'[c] = [op |-> "put", part |-> k]
              /\ \A d \in Clients : d # c => call'[d] = call[d] /\ job'[d] = job[d]
         /\ GetPart(c, f, k) =>
              /\ CallsType' /\ job' \in [Clients -> JobType]
              /\ call'[c] = Fresh("read", <<f, k>>) /\ job'[c] = [op |-> "get", part |-> k]
              /\ \A d \in Clients : d # c => call'[d] = call[d] /\ job'[d] = job[d]
<1>1. \A pc \in {"write", "read"} :
        /\ [NoCall EXCEPT !.pc = pc, !.block = <<f, k>>] = Fresh(pc, <<f, k>>)
        /\ Fresh(pc, <<f, k>>) \in CallType
  <2>1. 1 \in Backends /\ 0 \in 0 .. N /\ <<f, k>> \in Blocks
    BY Numbers
  <2>2. ASSUME NEW pc \in {"write", "read"}, NEW x \in Blocks
        PROVE  Fresh(pc, x) \in CallType
    <3>1. TRUE \in BOOLEAN
      OBVIOUS
    <3>2. pc \in {"idle", "write", "stored", "short", "read", "missing", "heal", "found"}
      OBVIOUS
    <3>3. QED
      BY <2>1, <3>1, <3>2 DEF Fresh, CallType
  <2>3. NoCall \in CallType
    BY <2>1 DEF NoCall, CallType
  <2>4. ASSUME NEW pc \in {"write", "read"}, NEW x \in Blocks
        PROVE  [NoCall EXCEPT !.pc = pc, !.block = x] = Fresh(pc, x)
    <3> DEFINE r == [NoCall EXCEPT !.pc = pc, !.block = x]
               q == Fresh(pc, x)
    <3>1. r \in CallType
      BY <2>3 DEF CallType
    <3>2. q \in CallType
      BY <2>2
    <3>3. r.pc = pc /\ r.block = x /\ r.at = 1 /\ r.took = 0 /\ r.missed = 0
      BY DEF NoCall
    <3>4. r.clean = TRUE
      BY DEF NoCall
    <3>5. q.pc = pc /\ q.block = x /\ q.at = 1 /\ q.took = 0 /\ q.missed = 0 /\ q.clean = TRUE
      BY DEF Fresh
    <3> HIDE DEF r, q
    <3>6. r = q
      BY <3>1, <3>2, <3>3, <3>4, <3>5 DEF CallType
    <3>7. QED
      BY <3>6 DEF r, q
  <2>5. QED
    BY <2>1, <2>2, <2>4
<1>2. [op |-> "put", part |-> k] \in JobType /\ [op |-> "get", part |-> k] \in JobType
  BY DEF JobType
<1>3. ASSUME PutPart(c, f, k)
      PROVE  /\ CallsType' /\ job' \in [Clients -> JobType]
             /\ call'[c] = Fresh("write", <<f, k>>) /\ job'[c] = [op |-> "put", part |-> k]
             /\ \A d \in Clients : d # c => call'[d] = call[d] /\ job'[d] = job[d]
  BY <1>1, <1>2, <1>3 DEF PutPart, BeginPut, CallsType
<1>4. ASSUME GetPart(c, f, k)
      PROVE  /\ CallsType' /\ job' \in [Clients -> JobType]
             /\ call'[c] = Fresh("read", <<f, k>>) /\ job'[c] = [op |-> "get", part |-> k]
             /\ \A d \in Clients : d # c => call'[d] = call[d] /\ job'[d] = job[d]
  BY <1>1, <1>2, <1>4 DEF GetPart, BeginGet, CallsType
<1>5. QED
  BY <1>3, <1>4

LEMMA EndEffect ==
  ASSUME CallsType, job \in [Clients -> JobType], NEW c \in Clients, EndCall(c)
  PROVE  /\ CallsType' /\ job' \in [Clients -> JobType]
         /\ call'[c].pc = "idle" /\ job'[c].op = "idle"
         /\ \A d \in Clients : d # c => call'[d] = call[d] /\ job'[d] = job[d]
<1>1. NoCall \in CallType /\ NoJob \in JobType
  BY Numbers DEF NoCall, NoJob, CallType, JobType
<1>2. NoCall.pc = "idle" /\ NoJob.op = "idle"
  BY DEF NoCall, NoJob
<1>3. QED
  BY <1>1, <1>2 DEF EndCall, CallsType

LEMMA FaultEffect ==
  ASSUME DataType, CallsType, NEW x \in Blocks, NEW b \in Backends, NEW to \in {"none", "bad"},
         CopyFault(x, b, to)
  PROVE  /\ DataType' /\ CallsType' /\ kept' = kept /\ healed' = healed \ {x}
         /\ \A c \in Clients :
              /\ call'[c].pc = call[c].pc /\ call'[c].block = call[c].block
              /\ call'[c].at = call[c].at
              /\ call'[c].took = call[c].took /\ call'[c].missed = call[c].missed
              /\ call'[c].clean => call[c].clean /\ call[c].block # x
         /\ copy' = [copy EXCEPT ![x][b] = to]
         /\ faults' = IF copy[x][b] = "good" THEN [faults EXCEPT ![x] = @ + 1] ELSE faults
<1>1. /\ rot' = rot + 1 /\ copy' = [copy EXCEPT ![x][b] = to]
      /\ faults' = IF copy[x][b] = "good" THEN [faults EXCEPT ![x] = @ + 1] ELSE faults
      /\ healed' = healed \ {x} /\ UNCHANGED <<failures, kept>>
      /\ call' = [c \in Clients |-> IF call[c].block = x THEN [call[c] EXCEPT !.clean = FALSE]
                                    ELSE call[c]]
  BY DEF CopyFault
<1>2. DataType'
  BY <1>1 DEF DataType
<1>3. \A c \in Clients : [call[c] EXCEPT !.clean = FALSE] \in CallType
  BY DEF CallsType, CallType
<1>4. CallsType'
  BY <1>1, <1>3 DEF CallsType
<1>5. ASSUME NEW c \in Clients
      PROVE  /\ call'[c].pc = call[c].pc /\ call'[c].block = call[c].block
             /\ call'[c].at = call[c].at
             /\ call'[c].took = call[c].took /\ call'[c].missed = call[c].missed
             /\ call'[c].clean => call[c].clean /\ call[c].block # x
  <2>0. call[c] \in CallType
    BY DEF CallsType
  <2>1. CASE call[c].block = x
    <3>1. call'[c] = [call[c] EXCEPT !.clean = FALSE]
      BY <1>1, <2>1
    <3>2. QED
      BY <2>0, <3>1 DEF CallType
  <2>2. CASE call[c].block # x
    <3>1. call'[c] = call[c]
      BY <1>1, <2>2
    <3>2. QED
      BY <2>2, <3>1
  <2>3. QED
    BY <2>1, <2>2
<1>6. QED
  BY <1>1, <1>2, <1>4, <1>5
-----------------------------------------------------------------------------
LEMMA VaultTypeNext ==
  ASSUME TypeOK, CallsOK, [Next]_vars
  PROVE  TypeOK' /\ CallsOK'
<1>0. /\ DataType /\ CallsType /\ job \in [Clients -> JobType] /\ JobsOK
      /\ acked \subseteq begun /\ begun \subseteq Files
  BY TypeSplit
<1> DEFINE Goal == /\ DataType' /\ CallsType' /\ job' \in [Clients -> JobType] /\ JobsOK'
                   /\ acked' \subseteq begun' /\ begun' \subseteq Files /\ CallsOK'
<1>a. StoreSame => DataType'
  BY <1>0 DEF StoreSame, DataType
<1>1. ASSUME NEW c \in Clients, Ends(c) PROVE Goal
  <2>1. /\ CallsType' /\ job' \in [Clients -> JobType]
        /\ call'[c].pc = "idle" /\ job'[c].op = "idle"
        /\ \A d \in Clients : d # c => call'[d] = call[d] /\ job'[d] = job[d]
    BY <1>0, <1>1, EndEffect DEF Ends
  <2>2. begun' = begun /\ StoreSame /\ FileOf(c) \in begun
    BY <1>1, CallBlock DEF Ends
  <2>3. acked' \subseteq begun'
    BY <1>0, <1>1, <2>2 DEF Ends
  <2>4. JobsOK'
    BY <1>0, <2>1, <2>2 DEF JobsOK
  <2>5. CallsOK'
    BY <2>1 DEF CallsOK, CallOK, PutPc
  <2>6. QED
    BY <1>0, <1>a, <2>1, <2>2, <2>3, <2>4, <2>5
<1>2. ASSUME NEW c \in Clients, NEW f \in Files, NEW k \in Parts, StartsPut(c, f, k) PROVE Goal
  <2>1. /\ CallsType' /\ job' \in [Clients -> JobType]
        /\ call'[c] = Fresh("write", <<f, k>>) /\ job'[c] = [op |-> "put", part |-> k]
        /\ \A d \in Clients : d # c => call'[d] = call[d] /\ job'[d] = job[d]
    BY <1>0, <1>2, StartEffect DEF StartsPut
  <2>2. /\ StoreSame /\ begun \subseteq begun' /\ f \in begun' /\ begun' \subseteq Files
        /\ acked' = acked
    BY <1>0, <1>2, CallBlock DEF StartsPut
  <2>3. JobsOK'
    BY <1>0, <2>1, <2>2 DEF JobsOK, Fresh
  <2>4. CallOK(c)'
    BY <2>1, Numbers DEF CallOK, PutPc, Fresh
  <2>5. CallsOK'
    BY <2>1, <2>4 DEF CallsOK, CallOK
  <2>6. QED
    BY <1>0, <1>a, <2>1, <2>2, <2>3, <2>5
<1>3. ASSUME NEW c \in Clients, NEW f \in Files, NEW k \in Parts, StartsGet(c, f, k) PROVE Goal
  <2>1. /\ CallsType' /\ job' \in [Clients -> JobType]
        /\ call'[c] = Fresh("read", <<f, k>>) /\ job'[c] = [op |-> "get", part |-> k]
        /\ \A d \in Clients : d # c => call'[d] = call[d] /\ job'[d] = job[d]
    BY <1>0, <1>3, StartEffect DEF StartsGet
  <2>2. StoreSame /\ begun' = begun /\ acked' = acked /\ f \in begun
    BY <1>0, <1>3, CallBlock DEF StartsGet
  <2>3. JobsOK'
    BY <1>0, <2>1, <2>2 DEF JobsOK, Fresh
  <2>4. CallOK(c)'
    BY <2>1, Numbers DEF CallOK, PutPc, Fresh
  <2>5. CallsOK'
    BY <2>1, <2>4 DEF CallsOK, CallOK
  <2>6. QED
    BY <1>0, <1>a, <2>1, <2>2, <2>3, <2>5
(* A step of the block store is of the same command and block.             *)
<1>b. ASSUME NEW c \in Clients, DataType', CallsType', UNCHANGED <<job, begun, acked>>, CallOK(c)',
             \A d \in Clients : call'[d].block = call[d].block,
             \A d \in Clients : d # c => call'[d] = call[d]
      PROVE  Goal
  <2>1. JobsOK'
    BY <1>0, <1>b DEF JobsOK
  <2>2. CallsOK'
    BY <1>b DEF CallsOK, CallOK
  <2>3. QED
    BY <1>0, <1>b, <2>1, <2>2
<1>c. \A c \in Clients : CallOK(c) /\ call[c] \in CallType
  BY <1>0 DEF CallsOK, CallsType
<1>4. ASSUME NEW c \in Clients, NEW takes \in BOOLEAN, NEW fail \in BOOLEAN, PutAt(c, takes, fail),
             UNCHANGED <<job, begun, acked>>
      PROVE  Goal
  <2>1. /\ call[c].pc = "write" /\ call[c].block \in Blocks
        /\ CallsType' /\ failures' \in Nat /\ UNCHANGED <<rot, faults, healed>>
        /\ \A d \in Clients : d # c => call'[d] = call[d]
        /\ call'[c].block = call[c].block
        /\ call'[c].took = IF fail THEN call[c].took ELSE call[c].took + 1
        /\ call[c].at < N => call'[c].pc = "write" /\ call'[c].at = call[c].at + 1
        /\ call[c].at = N => call'[c].pc \in {"stored", "short"}
        /\ copy' = IF takes THEN Placed(call[c].block, call[c].at) ELSE copy
        /\ kept' \subseteq kept \cup {call[c].block}
    BY <1>0, <1>4, <1>c, PutAtEffect
  <2>2. call[c].at \in 1 .. N /\ call[c].took \in 0 .. N
    BY <1>c, Numbers DEF CallType
  <2>3. DataType'
    BY <1>0, <2>1, <2>2, PlacedType, Numbers DEF DataType
  <2>4. CallOK(c)'
    BY <1>4, <1>c, <2>1, <2>2, Numbers DEF CallOK, PutPc
  <2>5. QED
    BY <1>4, <1>b, <2>1, <2>3, <2>4
<1>5. ASSUME NEW c \in Clients, NEW fail \in BOOLEAN, ReadNext(c, fail), UNCHANGED <<job, begun, acked>>
      PROVE  Goal
  <2>1. /\ call[c].pc = "read" /\ call[c].block \in Blocks
        /\ CallsType' /\ failures' \in Nat /\ UNCHANGED <<copy, rot, kept, faults, healed>>
        /\ \A d \in Clients : d # c => call'[d] = call[d]
        /\ call'[c].block = call[c].block
        /\ call'[c].missed = IF fail THEN call[c].missed + 1 ELSE call[c].missed
        /\ call[c].at < N => call'[c].pc = "read" /\ call'[c].at = call[c].at + 1
        /\ call[c].at = N => call'[c].pc = "missing"
    BY <1>0, <1>5, <1>c, ReadNextEffect
  <2>2. call[c].at \in 1 .. N /\ call[c].missed \in 0 .. N
    BY <1>c, Numbers DEF CallType
  <2>3. DataType'
    BY <1>0, <2>1 DEF DataType
  <2>4. CallOK(c)'
    BY <1>5, <1>c, <2>1, <2>2, Numbers DEF CallOK, PutPc
  <2>5. QED
    BY <1>5, <1>b, <2>1, <2>3, <2>4
<1>6. ASSUME NEW c \in Clients, ReadGood(c), UNCHANGED <<job, begun, acked>> PROVE Goal
  <2>1. /\ call[c].pc = "read" /\ call[c].block \in Blocks
        /\ CallsType' /\ UNCHANGED <<copy, failures, rot, kept, faults, healed>>
        /\ \A d \in Clients : d # c => call'[d] = call[d]
        /\ call'[c].block = call[c].block /\ call'[c].pc = "heal"
    BY <1>0, <1>6, <1>c, ReadGoodEffect
  <2>2. DataType'
    BY <1>0, <2>1 DEF DataType
  <2>3. CallOK(c)'
    BY <1>6, <1>c, <2>1 DEF CallOK, PutPc
  <2>4. QED
    BY <1>6, <1>b, <2>1, <2>2, <2>3
<1>7. ASSUME NEW c \in Clients, Heals(c), UNCHANGED <<job, begun, acked>> PROVE Goal
  <2>1. /\ call[c].pc = "heal" /\ call[c].block \in Blocks
        /\ CallsType' /\ failures' \in Nat /\ UNCHANGED <<rot, kept, faults>>
        /\ \A d \in Clients : d # c => call'[d] = call[d]
        /\ call'[c].block = call[c].block
        /\ call[c].at < N => call'[c].pc = "heal"
        /\ call[c].at = N => call'[c].pc = "found"
        /\ copy' = copy \/ copy' = Placed(call[c].block, call[c].at)
        /\ healed' \subseteq healed \cup {call[c].block}
    BY <1>0, <1>7, <1>c, HealEffect
  <2>2. call[c].at \in 1 .. N
    BY <1>c, Numbers DEF CallType
  <2>a. call[c].at \in Backends
    BY <2>2, Numbers
  <2>b. copy' \in [Blocks -> [Backends -> {"none", "good", "bad"}]]
    <3>1. copy \in [Blocks -> [Backends -> {"none", "good", "bad"}]]
      BY <1>0 DEF DataType
    <3>2. Placed(call[c].block, call[c].at) \in [Blocks -> [Backends -> {"none", "good", "bad"}]]
      BY <1>0, <2>1, <2>a, PlacedType
    <3>3. QED
      BY <2>1, <3>1, <3>2
  <2>c. healed' \subseteq Blocks
    BY <1>0, <2>1 DEF DataType
  <2>3. DataType'
    BY <1>0, <2>1, <2>b, <2>c DEF DataType
  <2>4. CallOK(c)'
    BY <1>7, <1>c, <2>1, <2>2, Numbers DEF CallOK, PutPc
  <2>5. QED
    BY <1>7, <1>b, <2>1, <2>3, <2>4
<1>8. ASSUME NEW x \in Blocks, NEW b \in Backends, NEW to \in {"none", "bad"}, CopyFault(x, b, to),
             UNCHANGED <<job, begun, acked>>
      PROVE  Goal
  <2>1. /\ DataType' /\ CallsType'
        /\ \A c \in Clients :
             /\ call'[c].pc = call[c].pc /\ call'[c].block = call[c].block
             /\ call'[c].at = call[c].at
             /\ call'[c].took = call[c].took /\ call'[c].missed = call[c].missed
    BY <1>0, <1>8, FaultEffect
  <2>2. JobsOK'
    BY <1>0, <1>8, <2>1 DEF JobsOK
  <2>3. CallsOK'
    BY <1>8, <2>1 DEF CallsOK, CallOK
  <2>4. QED
    BY <1>0, <1>8, <2>1, <2>2, <2>3
<1>9. ASSUME UNCHANGED vars PROVE Goal
  <2>1. UNCHANGED <<copy, call, failures, rot, kept, faults, healed, job, begun, acked>>
    BY <1>9 DEF vars, storeVars
  <2>2. DataType' /\ CallsType'
    BY <1>0, <2>1 DEF DataType, CallsType
  <2>3. JobsOK'
    BY <1>0, <2>1 DEF JobsOK
  <2>4. CallsOK'
    BY <2>1 DEF CallsOK, CallOK
  <2>5. QED
    BY <1>0, <2>1, <2>2, <2>3, <2>4
<1>10. Goal
  <2> HIDE DEF Goal
  <2>1. AnyStep
    BY Steps
  <2>2. ASSUME NEW c \in Clients, StoreStep(c), UNCHANGED <<job, begun, acked>> PROVE Goal
    <3>1. \/ \E takes, fail \in BOOLEAN : PutAt(c, takes, fail)
          \/ \E fail \in BOOLEAN : ReadNext(c, fail)
          \/ ReadGood(c)
          \/ Heals(c)
      BY <2>2 DEF StoreStep, Heals
    <3>2. CASE \E takes, fail \in BOOLEAN : PutAt(c, takes, fail)
      BY <1>4, <2>2, <3>2
    <3>3. CASE \E fail \in BOOLEAN : ReadNext(c, fail)
      BY <1>5, <2>2, <3>3
    <3>4. CASE ReadGood(c)
      BY <1>6, <2>2, <3>4
    <3>5. CASE Heals(c)
      BY <1>7, <2>2, <3>5
    <3>6. QED
      BY <3>1, <3>2, <3>3, <3>4, <3>5
  <2>3. QED
    BY <1>1, <1>2, <1>3, <1>8, <1>9, <2>1, <2>2 DEF AnyStep, ClientStep, FaultStep
<1>11. QED
  BY <1>10, TypeSplit

LEMMA InitCalls == ASSUME Init PROVE TypeOK /\ CallsOK /\ \A c \in Clients : call[c].pc = "idle"
<1>1. /\ StoreInit /\ job = [c \in Clients |-> NoJob] /\ begun = {} /\ acked = {}
  BY DEF Init
<1>2. NoCall \in CallType /\ NoJob \in JobType
  BY Numbers DEF NoCall, NoJob, CallType, JobType
<1>3. NoCall.pc = "idle" /\ NoJob.op = "idle"
  BY DEF NoCall, NoJob
<1>4. DataType /\ call = [c \in Clients |-> NoCall]
  BY <1>1 DEF StoreInit, DataType
<1>5. CallsType /\ job \in [Clients -> JobType] /\ JobsOK
  BY <1>1, <1>2, <1>3, <1>4 DEF CallsType, JobsOK
<1>6. CallsOK
  BY <1>1, <1>3, <1>4 DEF CallsOK, CallOK, PutPc
<1>7. QED
  BY <1>1, <1>3, <1>4, <1>5, <1>6, TypeSplit

(* Every variable keeps its shape, and a client's call is of the command   *)
(* it runs: PutFile and GetFile go on only where their last call of the    *)
(* store left off.                                                         *)
THEOREM VaultTypeCorrect == Spec => []TypeOK
<1>1. Init => TypeOK /\ CallsOK
  BY InitCalls
<1>2. TypeOK /\ CallsOK /\ [Next]_vars => (TypeOK /\ CallsOK)'
  BY VaultTypeNext
<1>3. Spec => [](TypeOK /\ CallsOK)
  BY <1>1, <1>2, PTL DEF Spec
<1>4. QED
  BY <1>3, PTL
-----------------------------------------------------------------------------
(* What a step of the block store leaves of the copies: those that were    *)
(* there stay as they are, and only the backend that is asked gets one.    *)
Stays == \A y \in Blocks, b \in Backends : copy[y][b] # "none" => copy'[y][b] = copy[y][b]
Fills(c) == \A y \in Blocks, b \in Backends :
  copy[y][b] = "none" /\ copy'[y][b] # "none" =>
    y = call[c].block /\ b = call[c].at /\ call[c].pc \in {"write", "heal"}

LEMMA PlacedFills ==
  ASSUME DataType, NEW c \in Clients, call[c].block \in Blocks, call[c].at \in Backends,
         call[c].pc \in {"write", "heal"},
         copy' = copy \/ copy' = Placed(call[c].block, call[c].at)
  PROVE  Stays /\ Fills(c)
<1>1. CASE copy' = copy
  BY <1>1 DEF Stays, Fills
<1>2. CASE copy' = Placed(call[c].block, call[c].at)
  BY <1>2, PlacedAt DEF Stays, Fills
<1>3. QED
  BY <1>1, <1>2

LEMMA StoreEffect ==
  ASSUME TypeOK, CallsOK, NEW c \in Clients, StoreStep(c)
  PROVE  /\ kept \subseteq kept' /\ faults' = faults
         /\ \A d \in Clients : d # c => call'[d] = call[d]
         /\ call'[c].block = call[c].block /\ call[c].block \in Blocks
         /\ call'[c].pc = "stored" => call[c].block \in kept'
         /\ call'[c].pc = "write" => call[c].pc = "write" /\ call'[c].at = call[c].at + 1
         /\ Stays /\ Fills(c)
<1>0. DataType /\ CallsType /\ CallOK(c) /\ call[c].at \in Backends /\ call[c].at \in 1 .. N
  BY TypeSplit, Numbers DEF CallsOK, CallsType, CallType
<1> DEFINE Goal ==
         /\ kept \subseteq kept' /\ faults' = faults
         /\ \A d \in Clients : d # c => call'[d] = call[d]
         /\ call'[c].block = call[c].block /\ call[c].block \in Blocks
         /\ call'[c].pc = "stored" => call[c].block \in kept'
         /\ call'[c].pc = "write" => call[c].pc = "write" /\ call'[c].at = call[c].at + 1
         /\ Stays /\ Fills(c)
<1>1. ASSUME NEW takes \in BOOLEAN, NEW fail \in BOOLEAN, PutAt(c, takes, fail) PROVE Goal
  <2>1. /\ call[c].pc = "write" /\ call[c].block \in Blocks /\ faults' = faults
        /\ \A d \in Clients : d # c => call'[d] = call[d]
        /\ call'[c].block = call[c].block
        /\ call[c].at < N => call'[c].pc = "write" /\ call'[c].at = call[c].at + 1
        /\ call[c].at = N => call'[c].pc = IF call'[c].took >= 2 THEN "stored" ELSE "short"
        /\ copy' = copy \/ copy' = Placed(call[c].block, call[c].at)
        /\ kept' = IF call[c].at = N /\ call'[c].took >= 2 THEN kept \cup {call[c].block} ELSE kept
    BY <1>0, <1>1, PutAtEffect
  <2>2. Stays /\ Fills(c)
    BY <1>0, <2>1, PlacedFills
  <2>3. QED
    BY <1>0, <2>1, <2>2, Numbers
<1>2. ASSUME NEW fail \in BOOLEAN, ReadNext(c, fail) PROVE Goal
  <2>1. /\ call[c].pc = "read" /\ call[c].block \in Blocks
        /\ UNCHANGED <<copy, kept, faults>>
        /\ \A d \in Clients : d # c => call'[d] = call[d]
        /\ call'[c].block = call[c].block
        /\ call[c].at < N => call'[c].pc = "read"
        /\ call[c].at = N => call'[c].pc = "missing"
    BY <1>0, <1>2, ReadNextEffect
  <2>2. Stays /\ Fills(c)
    BY <2>1 DEF Stays, Fills
  <2>3. QED
    BY <1>0, <2>1, <2>2, Numbers
<1>3. ASSUME ReadGood(c) PROVE Goal
  <2>1. /\ call[c].block \in Blocks /\ UNCHANGED <<copy, kept, faults>>
        /\ \A d \in Clients : d # c => call'[d] = call[d]
        /\ call'[c].block = call[c].block /\ call'[c].pc = "heal"
    BY <1>0, <1>3, ReadGoodEffect
  <2>2. Stays /\ Fills(c)
    BY <2>1 DEF Stays, Fills
  <2>3. QED
    BY <2>1, <2>2
<1>4. ASSUME Heals(c) PROVE Goal
  <2>1. /\ call[c].pc = "heal" /\ call[c].block \in Blocks /\ UNCHANGED <<kept, faults>>
        /\ \A d \in Clients : d # c => call'[d] = call[d]
        /\ call'[c].block = call[c].block
        /\ call[c].at < N => call'[c].pc = "heal"
        /\ call[c].at = N => call'[c].pc = "found"
        /\ copy' = copy \/ copy' = Placed(call[c].block, call[c].at)
    BY <1>0, <1>4, HealEffect
  <2>2. Stays /\ Fills(c)
    BY <1>0, <2>1, PlacedFills
  <2>3. QED
    BY <1>0, <2>1, <2>2, Numbers
<1>5. Goal
  <2> HIDE DEF Goal
  <2>1. \/ \E takes, fail \in BOOLEAN : PutAt(c, takes, fail)
        \/ \E fail \in BOOLEAN : ReadNext(c, fail)
        \/ ReadGood(c)
        \/ Heals(c)
    BY DEF StoreStep, Heals
  <2>2. CASE \E takes, fail \in BOOLEAN : PutAt(c, takes, fail)
    BY <1>1, <2>2
  <2>3. CASE \E fail \in BOOLEAN : ReadNext(c, fail)
    BY <1>2, <2>3
  <2>4. QED
    BY <1>3, <1>4, <2>1, <2>2, <2>3
<1>6. QED
  BY <1>5
-----------------------------------------------------------------------------
(* A step that is not of the file layer leaves its commands as they are.   *)
LEMMA FilesSame ==
  ASSUME FilesOK, UNCHANGED <<job, begun, acked>>, kept \subseteq kept',
         \A d \in Clients : call'[d].block = call[d].block,
         \A d \in Clients : call'[d].pc = "stored" => call[d].pc = "stored" \/ call[d].block \in kept'
  PROVE  FilesOK'
BY DEF FilesOK, Puts, Gets, FileOf

LEMMA FilesEnd ==
  ASSUME TypeOK, CallsOK, FilesOK, NEW c \in Clients, Ends(c)
  PROVE  FilesOK'
<1>1. /\ call'[c].pc = "idle" /\ job'[c].op = "idle"
      /\ \A d \in Clients : d # c => call'[d] = call[d] /\ job'[d] = job[d]
      /\ kept' = kept
  BY TypeSplit, EndEffect DEF Ends, StoreSame
<1>2. ASSUME NEW d \in Clients, d # c, Puts(d) PROVE FileOf(d) \notin acked'
  <2>1. FileOf(d) \notin acked
    BY <1>2 DEF FilesOK
  <2>2. CASE acked' = acked
    BY <2>1, <2>2
  <2>3. CASE call[c].pc = "stored" /\ acked' = acked \cup {FileOf(c)}
    <3>1. Puts(c)
      BY <2>3 DEF CallsOK, CallOK, PutPc, Puts
    <3>2. FileOf(d) # FileOf(c)
      BY <1>2, <3>1 DEF FilesOK
    <3>3. QED
      BY <2>1, <2>3, <3>2
  <2>4. QED
    BY <2>2, <2>3 DEF Ends
<1>3. acked \subseteq acked'
  BY DEF Ends
<1>4. ASSUME NEW f \in acked', NEW k \in Parts PROVE <<f, k>> \in kept
  <2>1. CASE f \in acked
    BY <2>1 DEF FilesOK
  <2>2. CASE f \notin acked
    <3>1. call[c].pc = "stored" /\ job[c].part = Manifest /\ f = FileOf(c)
      BY <1>4, <2>2 DEF Ends
    <3>2. Puts(c) /\ call[c].block = <<f, Manifest>>
      BY <3>1, CallBlock DEF CallsOK, CallOK, PutPc, Puts
    <3>3. k < Manifest \/ k = Manifest
      BY Numbers
    <3>4. QED
      BY <3>1, <3>2, <3>3 DEF FilesOK
  <2>3. QED
    BY <2>1, <2>2
<1>5. ASSUME NEW d \in Clients
      PROVE  /\ Puts(d)' => d # c /\ Puts(d) /\ FileOf(d)' = FileOf(d) /\ job'[d] = job[d]
             /\ Gets(d)' => d # c /\ Gets(d) /\ FileOf(d)' = FileOf(d)
             /\ call'[d].pc = "stored" => d # c /\ call[d].pc = "stored" /\ call'[d] = call[d]
  BY <1>1 DEF Puts, Gets, FileOf
<1>6. ASSUME NEW d \in Clients
      PROVE  /\ Puts(d)' => FileOf(d)' \notin acked'
             /\ Gets(d)' => FileOf(d)' \in acked'
             /\ Puts(d)' => \A k \in Parts : k < job'[d].part => <<FileOf(d)', k>> \in kept'
             /\ call'[d].pc = "stored" => call'[d].block \in kept'
  BY <1>1, <1>2, <1>3, <1>5 DEF FilesOK
<1>7. \A d, e \in Clients : Puts(d)' /\ Puts(e)' /\ FileOf(d)' = FileOf(e)' => d = e
  BY <1>5 DEF FilesOK
<1>8. QED
  BY <1>1, <1>4, <1>6, <1>7 DEF FilesOK

LEMMA FilesStartPut ==
  ASSUME TypeOK, CallsOK, FilesOK, NEW c \in Clients, NEW f \in Files, NEW k \in Parts,
         StartsPut(c, f, k)
  PROVE  FilesOK'
<1>1. /\ call'[c] = Fresh("write", <<f, k>>) /\ job'[c] = [op |-> "put", part |-> k]
      /\ \A d \in Clients : d # c => call'[d] = call[d] /\ job'[d] = job[d]
      /\ kept' = kept /\ acked' = acked
  BY TypeSplit, StartEffect DEF StartsPut, StoreSame
<1>2. FileOf(c)' = f /\ Puts(c)' /\ ~Gets(c)' /\ call'[c].pc = "write" /\ job'[c].part = k
  BY <1>1 DEF FileOf, Puts, Gets, Fresh
<1>3. /\ f \notin acked
      /\ \A j \in Parts : j < k => <<f, j>> \in kept
      /\ \A d \in Clients : d # c /\ Puts(d) => FileOf(d) # f
  <2>1. CASE job[c].op = "idle" /\ f \notin begun /\ k = 1
    <3>1. \A d \in Clients : Puts(d) => FileOf(d) \in begun
      BY CallBlock DEF Puts
    <3>2. \A j \in Parts : ~(j < 1)
      BY Numbers
    <3>3. QED
      BY <2>1, <3>1, <3>2 DEF TypeOK
  <2>2. CASE call[c].pc = "stored" /\ f = FileOf(c) /\ k = job[c].part + 1
    <3>1. Puts(c) /\ job[c].part \in Parts /\ call[c].block = <<f, job[c].part>>
      BY <2>2, CallBlock DEF CallsOK, CallOK, PutPc, Puts
    <3>2. ASSUME NEW j \in Parts, j < k PROVE <<f, j>> \in kept
      <4>1. j < job[c].part \/ j = job[c].part
        BY <2>2, <3>1, <3>2, Numbers
      <4>2. QED
        BY <2>2, <3>1, <4>1 DEF FilesOK
    <3>3. QED
      BY <2>2, <3>1, <3>2 DEF FilesOK
  <2>3. QED
    BY <2>1, <2>2 DEF StartsPut
<1>4. ASSUME NEW d \in Clients, d # c
      PROVE  /\ Puts(d)' <=> Puts(d)
             /\ Gets(d)' <=> Gets(d)
             /\ FileOf(d)' = FileOf(d) /\ job'[d] = job[d] /\ call'[d] = call[d]
  BY <1>1, <1>4 DEF Puts, Gets, FileOf
<1>5. ASSUME NEW d \in Clients
      PROVE  /\ Puts(d)' => FileOf(d)' \notin acked'
             /\ Gets(d)' => FileOf(d)' \in acked'
             /\ Puts(d)' => \A j \in Parts : j < job'[d].part => <<FileOf(d)', j>> \in kept'
             /\ call'[d].pc = "stored" => call'[d].block \in kept'
  <2>1. CASE d = c
    BY <1>1, <1>2, <1>3, <2>1
  <2>2. CASE d # c
    BY <1>1, <1>4, <2>2 DEF FilesOK
  <2>3. QED
    BY <2>1, <2>2
<1>6. \A d, e \in Clients : Puts(d)' /\ Puts(e)' /\ FileOf(d)' = FileOf(e)' => d = e
  BY <1>2, <1>3, <1>4 DEF FilesOK
<1>7. \A g \in acked', j \in Parts : <<g, j>> \in kept'
  BY <1>1 DEF FilesOK
<1>8. QED
  BY <1>5, <1>6, <1>7 DEF FilesOK

LEMMA FilesStartGet ==
  ASSUME TypeOK, CallsOK, FilesOK, NEW c \in Clients, NEW f \in Files, NEW k \in Parts,
         StartsGet(c, f, k)
  PROVE  FilesOK' /\ f \in acked
<1>1. /\ call'[c] = Fresh("read", <<f, k>>) /\ job'[c] = [op |-> "get", part |-> k]
      /\ \A d \in Clients : d # c => call'[d] = call[d] /\ job'[d] = job[d]
      /\ kept' = kept /\ acked' = acked
  BY TypeSplit, StartEffect DEF StartsGet, StoreSame
<1>2. FileOf(c)' = f /\ ~Puts(c)' /\ call'[c].pc = "read"
  BY <1>1 DEF FileOf, Puts, Fresh
<1>3. f \in acked
  <2>1. CASE call[c].pc = "found" /\ f = FileOf(c)
    <3>1. Gets(c)
      BY <2>1, TypeSplit DEF CallsOK, CallOK, PutPc, Gets, JobType
    <3>2. QED
      BY <2>1, <3>1 DEF FilesOK
  <2>2. QED
    BY <2>1 DEF StartsGet
<1>4. ASSUME NEW d \in Clients, d # c
      PROVE  /\ Puts(d)' <=> Puts(d)
             /\ Gets(d)' <=> Gets(d)
             /\ FileOf(d)' = FileOf(d) /\ job'[d] = job[d] /\ call'[d] = call[d]
  BY <1>1, <1>4 DEF Puts, Gets, FileOf
<1>5. ASSUME NEW d \in Clients
      PROVE  /\ Puts(d)' => FileOf(d)' \notin acked'
             /\ Gets(d)' => FileOf(d)' \in acked'
             /\ Puts(d)' => \A j \in Parts : j < job'[d].part => <<FileOf(d)', j>> \in kept'
             /\ call'[d].pc = "stored" => call'[d].block \in kept'
  <2>1. CASE d = c
    BY <1>1, <1>2, <1>3, <2>1
  <2>2. CASE d # c
    BY <1>1, <1>4, <2>2 DEF FilesOK
  <2>3. QED
    BY <2>1, <2>2
<1>6. \A d, e \in Clients : Puts(d)' /\ Puts(e)' /\ FileOf(d)' = FileOf(e)' => d = e
  BY <1>2, <1>4 DEF FilesOK
<1>7. \A g \in acked', j \in Parts : <<g, j>> \in kept'
  BY <1>1 DEF FilesOK
<1>8. QED
  BY <1>3, <1>5, <1>6, <1>7 DEF FilesOK

LEMMA FilesNext ==
  ASSUME TypeOK, CallsOK, FilesOK, AnyStep
  PROVE  FilesOK'
<1>1. ASSUME NEW c \in Clients, StoreStep(c), UNCHANGED <<job, begun, acked>> PROVE FilesOK'
  <2>1. /\ kept \subseteq kept'
        /\ \A d \in Clients : d # c => call'[d] = call[d]
        /\ call'[c].block = call[c].block
        /\ call'[c].pc = "stored" => call[c].block \in kept'
    BY <1>1, StoreEffect
  <2>2. QED
    BY <1>1, <2>1, FilesSame
<1>2. CASE FaultStep
  <2>1. PICK x \in Blocks, b \in Backends, to \in {"none", "bad"} : CopyFault(x, b, to)
    BY <1>2 DEF FaultStep
  <2>2. kept' = kept /\ \A c \in Clients : call'[c].pc = call[c].pc /\ call'[c].block = call[c].block
    BY <2>1, TypeSplit, FaultEffect
  <2>3. QED
    BY <1>2, <2>2, FilesSame DEF FaultStep
<1>3. CASE UNCHANGED vars
  BY <1>3, FilesSame DEF vars, storeVars
<1>4. QED
  BY <1>1, <1>2, <1>3, FilesEnd, FilesStartPut, FilesStartGet DEF AnyStep, ClientStep
-----------------------------------------------------------------------------
(* Only a PutFile that has reached a part, or a Get of a file that is      *)
(* stored whole, gives a backend a copy.                                   *)
NoFault == \A y \in Blocks, b \in Backends : copy[y][b] = "none" => copy'[y][b] = "none"

LEMMA FaultFills ==
  ASSUME TypeOK, FaultStep
  PROVE  /\ NoFault /\ kept' = kept
         /\ \A c \in Clients :
              /\ call'[c].pc = call[c].pc /\ call'[c].block = call[c].block
              /\ call'[c].at = call[c].at
<1>1. PICK x \in Blocks, b \in Backends, to \in {"none", "bad"} : CopyFault(x, b, to)
  BY DEF FaultStep
<1>2. /\ copy' = [copy EXCEPT ![x][b] = to] /\ kept' = kept
      /\ \A c \in Clients :
           /\ call'[c].pc = call[c].pc /\ call'[c].block = call[c].block
           /\ call'[c].at = call[c].at
  BY <1>1, TypeSplit, FaultEffect
<1>3. copy[x][b] # "none"
  BY <1>1 DEF CopyFault
<1>4. NoFault
  BY <1>2, <1>3 DEF NoFault, TypeOK, StoreTypeOK
<1>5. QED
  BY <1>2, <1>4

LEMMA FreshSame ==
  ASSUME FreshInv, NoFault, UNCHANGED <<job, begun>>, TypeOK, CallsOK,
         \A c \in Clients : call'[c].pc = call[c].pc /\ call'[c].block = call[c].block
                            /\ call'[c].at = call[c].at
  PROVE  FreshInv'
<1>1. \A f \in Files, k \in Parts : Nowhere(<<f, k>>) => Nowhere(<<f, k>>)'
  BY Numbers DEF Nowhere, NoFault
<1>2. \A f \in Files \ begun', k \in Parts : Nowhere(<<f, k>>)'
  BY <1>1 DEF FreshInv
<1>3. ASSUME NEW c \in Clients, Puts(c)', NEW k \in Parts, k > job'[c].part
      PROVE  Nowhere(<<FileOf(c), k>>)'
  <2>1. Puts(c) /\ FileOf(c)' = FileOf(c) /\ FileOf(c) \in Files /\ k > job[c].part
    BY <1>3, CallBlock DEF Puts, FileOf
  <2>2. Nowhere(<<FileOf(c), k>>)
    BY <2>1 DEF FreshInv
  <2>3. \A b \in Backends : copy'[<<FileOf(c), k>>][b] = "none"
    BY <2>1, <2>2, Numbers DEF Nowhere, NoFault
  <2>4. QED
    BY <2>1, <2>3 DEF Nowhere
<1>4. ASSUME NEW c \in Clients, call'[c].pc = "write", NEW b \in Backends, b >= call'[c].at
      PROVE  copy'[call'[c].block][b] = "none"
  <2>1. copy[call[c].block][b] = "none" /\ call[c].block \in Blocks
    BY <1>4, CallBlock DEF FreshInv
  <2>2. QED
    BY <2>1 DEF NoFault
<1>5. QED
  BY <1>2, <1>3, <1>4 DEF FreshInv

LEMMA FreshFile ==
  ASSUME TypeOK, CallsOK, FilesOK, FreshInv, copy' = copy, begun \subseteq begun', NEW c \in Clients,
         \A d \in Clients : d # c => call'[d] = call[d] /\ job'[d] = job[d],
         Puts(c)' => /\ FileOf(c)' \in Files
                     /\ \A k \in Parts : k > job'[c].part => Nowhere(<<FileOf(c)', k>>)
                     /\ Nowhere(call'[c].block),
         call'[c].pc = "write" => Puts(c)'
  PROVE  FreshInv'
<1>1. \A f \in Files \ begun', k \in Parts : Nowhere(<<f, k>>)'
  BY DEF FreshInv, Nowhere
<1>2. ASSUME NEW d \in Clients, Puts(d)', NEW k \in Parts, k > job'[d].part
      PROVE  Nowhere(<<FileOf(d), k>>)'
  <2>1. CASE d = c
    BY <1>2, <2>1 DEF Nowhere
  <2>2. CASE d # c
    <3>1. Puts(d) /\ FileOf(d)' = FileOf(d) /\ k > job[d].part
      BY <1>2, <2>2 DEF Puts, FileOf
    <3>2. QED
      BY <3>1 DEF FreshInv, Nowhere
  <2>3. QED
    BY <2>1, <2>2
<1>3. ASSUME NEW d \in Clients, call'[d].pc = "write", NEW b \in Backends, b >= call'[d].at
      PROVE  copy'[call'[d].block][b] = "none"
  <2>1. CASE d = c
    BY <1>3, <2>1 DEF Nowhere
  <2>2. CASE d # c
    BY <1>3, <2>2 DEF FreshInv
  <2>3. QED
    BY <2>1, <2>2
<1>4. QED
  BY <1>1, <1>2, <1>3 DEF FreshInv

LEMMA FreshStore ==
  ASSUME TypeOK, CallsOK, FilesOK, FreshInv, NEW c \in Clients, StoreStep(c),
         UNCHANGED <<job, begun, acked>>
  PROVE  FreshInv'
<1>1. /\ \A d \in Clients : d # c => call'[d] = call[d]
      /\ call'[c].block = call[c].block /\ call[c].block \in Blocks
      /\ call'[c].pc = "write" => call[c].pc = "write" /\ call'[c].at = call[c].at + 1
      /\ Fills(c)
  BY StoreEffect
<1>2. \A y \in Blocks, b \in Backends :
        copy[y][b] = "none" /\ copy'[y][b] # "none" =>
          /\ y = call[c].block /\ b = call[c].at /\ y = <<FileOf(c), job[c].part>>
          /\ FileOf(c) \in begun
          /\ Puts(c) \/ FileOf(c) \in acked
  <2>1. call[c].pc \in {"write", "heal"} =>
          /\ call[c].block = <<FileOf(c), job[c].part>> /\ FileOf(c) \in begun
          /\ Puts(c) \/ Gets(c)
    BY CallBlock, TypeSplit DEF Puts, Gets, JobType
  <2>2. QED
    BY <1>1, <2>1 DEF Fills, FilesOK
<1>3. ASSUME NEW f \in Files \ begun', NEW k \in Parts PROVE Nowhere(<<f, k>>)'
  <2>1. <<f, k>> \in Blocks /\ Nowhere(<<f, k>>)
    BY Numbers DEF FreshInv
  <2>2. QED
    BY <1>2, <2>1 DEF Nowhere
<1>4. ASSUME NEW d \in Clients, Puts(d)', NEW k \in Parts, k > job'[d].part
      PROVE  Nowhere(<<FileOf(d), k>>)'
  <2>1. /\ Puts(d) /\ FileOf(d)' = FileOf(d) /\ FileOf(d) \in Files /\ k > job[d].part
        /\ job[d].part \in Parts
    BY <1>1, <1>4, CallBlock DEF Puts, FileOf
  <2>2. <<FileOf(d), k>> \in Blocks /\ Nowhere(<<FileOf(d), k>>)
    BY <2>1, Numbers DEF FreshInv
  <2>3. ASSUME <<FileOf(d), k>> = <<FileOf(c), job[c].part>>, Puts(c) \/ FileOf(c) \in acked
        PROVE  FALSE
    <3>1. FileOf(d) = FileOf(c) /\ k = job[c].part
      BY <2>3
    <3>2. FileOf(d) \notin acked
      BY <2>1 DEF FilesOK
    <3>3. d = c
      BY <2>1, <2>3, <3>1, <3>2 DEF FilesOK
    <3>4. QED
      BY <2>1, <3>1, <3>3, Numbers
  <2>4. \A b \in Backends : copy'[<<FileOf(d), k>>][b] = "none"
    BY <1>2, <2>2, <2>3 DEF Nowhere
  <2>5. QED
    BY <2>1, <2>4 DEF Nowhere
<1>5. ASSUME NEW d \in Clients, call'[d].pc = "write", NEW b \in Backends, b >= call'[d].at
      PROVE  copy'[call'[d].block][b] = "none"
  <2>1. call[d].pc = "write" /\ call'[d].block = call[d].block
    BY <1>1, <1>5
  <2>2. /\ Puts(d) /\ call[d].block = <<FileOf(d), job[d].part>> /\ call[d].block \in Blocks
        /\ call[d].at \in 1 .. N
    BY <2>1, CallBlock, Numbers DEF CallsOK, CallOK, PutPc, Puts, TypeOK, StoreTypeOK
  <2>3. b >= call[d].at
    BY <1>1, <1>5, <2>2, Numbers
  <2>4. copy[call[d].block][b] = "none"
    BY <2>1, <2>3 DEF FreshInv
  <2>5. ASSUME copy'[call[d].block][b] # "none" PROVE FALSE
    <3>1. /\ call[d].block = <<FileOf(c), job[c].part>> /\ b = call[c].at
          /\ Puts(c) \/ FileOf(c) \in acked
      BY <1>2, <2>2, <2>4, <2>5
    <3>2. FileOf(d) = FileOf(c) /\ FileOf(d) \notin acked
      BY <2>2, <3>1 DEF FilesOK
    <3>3. d = c
      BY <2>2, <3>1, <3>2 DEF FilesOK
    <3>4. QED
      BY <1>1, <1>5, <2>2, <3>1, <3>3, Numbers
  <2>6. QED
    BY <2>1, <2>5
<1>6. QED
  BY <1>3, <1>4, <1>5 DEF FreshInv

LEMMA FreshNext ==
  ASSUME TypeOK, CallsOK, FilesOK, FreshInv, AnyStep
  PROVE  FreshInv'
<1>1. ASSUME NEW c \in Clients, Ends(c) PROVE FreshInv'
  <2>1. /\ call'[c].pc = "idle" /\ job'[c].op = "idle"
        /\ \A d \in Clients : d # c => call'[d] = call[d] /\ job'[d] = job[d]
        /\ copy' = copy /\ begun' = begun
    BY <1>1, TypeSplit, EndEffect DEF Ends, StoreSame
  <2>2. ~Puts(c)' /\ call'[c].pc # "write"
    BY <2>1 DEF Puts
  <2>3. QED
    BY <2>1, <2>2, FreshFile
<1>2. ASSUME NEW c \in Clients, NEW f \in Files, NEW k \in Parts, StartsPut(c, f, k) PROVE FreshInv'
  <2>1. /\ call'[c] = Fresh("write", <<f, k>>) /\ job'[c] = [op |-> "put", part |-> k]
        /\ \A d \in Clients : d # c => call'[d] = call[d] /\ job'[d] = job[d]
        /\ copy' = copy /\ begun \subseteq begun'
    BY <1>2, TypeSplit, StartEffect DEF StartsPut, StoreSame
  <2>2. /\ FileOf(c)' = f /\ Puts(c)' /\ call'[c].block = <<f, k>> /\ job'[c].part = k
    BY <2>1 DEF FileOf, Puts, Fresh
  <2>3. \A j \in Parts : j >= k => Nowhere(<<f, j>>)
    <3>1. CASE job[c].op = "idle" /\ f \notin begun
      BY <3>1 DEF FreshInv
    <3>2. CASE call[c].pc = "stored" /\ f = FileOf(c) /\ k = job[c].part + 1
      <4>1. Puts(c) /\ job[c].part \in Parts
        BY <3>2, CallBlock DEF CallsOK, CallOK, PutPc, Puts
      <4>2. \A j \in Parts : j >= k => j > job[c].part
        BY <3>2, <4>1, Numbers
      <4>3. QED
        BY <3>2, <4>1, <4>2 DEF FreshInv
    <3>3. QED
      BY <1>2, <3>1, <3>2 DEF StartsPut
  <2>4. k >= k /\ \A j \in Parts : j > k => j >= k
    BY Numbers
  <2>5. QED
    BY <2>1, <2>2, <2>3, <2>4, FreshFile
<1>3. ASSUME NEW c \in Clients, NEW f \in Files, NEW k \in Parts, StartsGet(c, f, k) PROVE FreshInv'
  <2>1. /\ call'[c] = Fresh("read", <<f, k>>) /\ job'[c] = [op |-> "get", part |-> k]
        /\ \A d \in Clients : d # c => call'[d] = call[d] /\ job'[d] = job[d]
        /\ copy' = copy /\ begun' = begun
    BY <1>3, TypeSplit, StartEffect DEF StartsGet, StoreSame
  <2>2. ~Puts(c)' /\ call'[c].pc # "write"
    BY <2>1 DEF Puts, Fresh
  <2>3. QED
    BY <2>1, <2>2, FreshFile
<1>4. CASE FaultStep
  BY <1>4, FaultFills, FreshSame DEF FaultStep
<1>5. CASE UNCHANGED vars
  <2>1. UNCHANGED <<copy, call, job, begun>>
    BY <1>5 DEF vars, storeVars
  <2>2. NoFault
    BY <2>1 DEF NoFault
  <2>3. QED
    BY <2>1, <2>2, FreshSame
<1>6. QED
  BY <1>1, <1>2, <1>3, <1>4, <1>5, FreshStore DEF AnyStep, ClientStep

(* A backend that gets a manifest gets it when every chunk is kept.        *)
LEMMA ManifestNext ==
  ASSUME TypeOK, CallsOK, FilesOK, ManifestLast, AnyStep
  PROVE  ManifestLast'
<1>0. \A k \in 1 .. Chunks : k \in Parts /\ k < Manifest
  BY Numbers
<1>1. ASSUME kept \subseteq kept', NoFault PROVE ManifestLast'
  BY <1>1, Numbers DEF ManifestLast, NoFault
<1>2. ASSUME NEW c \in Clients, StoreStep(c) PROVE ManifestLast'
  <2>1. kept \subseteq kept' /\ Fills(c)
    BY <1>2, StoreEffect
  <2>2. ASSUME NEW f \in Files, NEW b \in Backends, copy'[<<f, Manifest>>][b] # "none",
               NEW k \in 1 .. Chunks
        PROVE  <<f, k>> \in kept
    <3>1. CASE copy[<<f, Manifest>>][b] # "none"
      BY <2>2, <3>1 DEF ManifestLast
    <3>2. CASE copy[<<f, Manifest>>][b] = "none"
      <4>1. <<f, Manifest>> \in Blocks
        BY Numbers
      <4>2. <<f, Manifest>> = call[c].block /\ call[c].pc \in {"write", "heal"}
        BY <2>1, <2>2, <3>2, <4>1 DEF Fills
      <4>3. /\ call[c].block = <<FileOf(c), job[c].part>>
            /\ Puts(c) \/ Gets(c)
        BY <4>2, CallBlock, TypeSplit DEF Puts, Gets, JobType
      <4>4. f = FileOf(c) /\ job[c].part = Manifest
        BY <4>2, <4>3
      <4>5. QED
        BY <1>0, <4>3, <4>4 DEF FilesOK
    <3>3. QED
      BY <3>1, <3>2
  <2>3. QED
    BY <2>1, <2>2 DEF ManifestLast
<1>3. ASSUME StoreSame PROVE ManifestLast'
  BY <1>1, <1>3 DEF StoreSame, NoFault
<1>4. CASE FaultStep
  BY <1>1, <1>4, FaultFills
<1>5. CASE UNCHANGED vars
  BY <1>3, <1>5 DEF vars, storeVars, StoreSame
<1>6. QED
  BY <1>2, <1>3, <1>4, <1>5 DEF AnyStep, ClientStep, Ends, StartsPut, StartsGet

FilesInv == TypeOK /\ CallsOK /\ FilesOK /\ FreshInv /\ ManifestLast

LEMMA FilesInit == ASSUME Init PROVE FilesInv
<1>1. TypeOK /\ CallsOK /\ \A c \in Clients : call[c].pc = "idle"
  BY InitCalls
<1>2. \A c \in Clients : ~Puts(c) /\ ~Gets(c)
  BY <1>1 DEF CallsOK, CallOK, Puts, Gets
<1>3. acked = {} /\ copy = [x \in Blocks |-> [b \in Backends |-> "none"]]
  BY DEF Init, StoreInit
<1>4. \A x \in Blocks : Nowhere(x)
  BY <1>3 DEF Nowhere
<1>5. FilesOK
  BY <1>1, <1>2, <1>3 DEF FilesOK
<1>6. FreshInv
  BY <1>1, <1>2, <1>4, Numbers DEF FreshInv
<1>7. ManifestLast
  BY <1>4, Numbers DEF ManifestLast, Nowhere
<1>8. QED
  BY <1>1, <1>5, <1>6, <1>7 DEF FilesInv

LEMMA FilesInvNext == ASSUME FilesInv, [Next]_vars PROVE FilesInv'
BY VaultTypeNext, Steps, FilesNext, FreshNext, ManifestNext DEF FilesInv

(* PutFile stores the manifest after the chunks, so no backend ever holds  *)
(* a manifest before every chunk is kept, whenever a PutFile is killed,    *)
(* whatever fails, and whatever a Get puts back.                           *)
THEOREM ManifestIsLast == Spec => []ManifestLast
<1>1. Init => FilesInv
  BY FilesInit
<1>2. FilesInv /\ [Next]_vars => FilesInv'
  BY FilesInvNext
<1>3. FilesInv => ManifestLast
  BY DEF FilesInv
<1>4. QED
  BY <1>1, <1>2, <1>3, PTL DEF Spec
-----------------------------------------------------------------------------
(* Copies: no step costs one that is not counted.                          *)
LEMMA GoodFinite ==
  ASSUME NEW x \in Blocks, NEW n
  PROVE  /\ IsFiniteSet(GoodFrom(x, n)) /\ Cardinality(GoodFrom(x, n)) \in Nat
         /\ IsFiniteSet(GoodFrom(x, n)') /\ Cardinality(GoodFrom(x, n)') \in Nat
<1>1. IsFiniteSet(Backends)
  BY Numbers, FS_Interval
<1>2. GoodFrom(x, n) \subseteq Backends /\ GoodFrom(x, n)' \subseteq Backends
  BY DEF GoodFrom
<1>3. IsFiniteSet(GoodFrom(x, n)) /\ IsFiniteSet(GoodFrom(x, n)')
  BY <1>1, <1>2, FS_Subset
<1>4. QED
  BY <1>3, FS_CardinalityType

LEMMA Shrinks ==
  ASSUME NEW S, NEW T, NEW e, IsFiniteSet(S), IsFiniteSet(T), S \ {e} \subseteq T
  PROVE  Cardinality(T) >= Cardinality(S) - 1
<1>1. /\ IsFiniteSet(S \ {e})
      /\ Cardinality(S \ {e}) = IF e \in S THEN Cardinality(S) - 1 ELSE Cardinality(S)
  BY FS_RemoveElement
<1>2. Cardinality(S \ {e}) <= Cardinality(T)
  BY <1>1, FS_Subset
<1>3. Cardinality(S) \in Nat /\ Cardinality(T) \in Nat /\ Cardinality(S \ {e}) \in Nat
  BY <1>1, FS_CardinalityType
<1>4. QED
  BY <1>1, <1>2, <1>3

LEMMA Grows ==
  ASSUME NEW S, NEW T, IsFiniteSet(T), S \subseteq T
  PROVE  /\ IsFiniteSet(S) /\ Cardinality(T) >= Cardinality(S)
         /\ \A e \in T \ S : Cardinality(T) >= Cardinality(S) + 1
<1>1. IsFiniteSet(S) /\ Cardinality(S) <= Cardinality(T)
  BY FS_Subset
<1>2. Cardinality(S) \in Nat /\ Cardinality(T) \in Nat
  BY <1>1, FS_CardinalityType
<1>3. ASSUME NEW e \in T \ S PROVE Cardinality(T) >= Cardinality(S) + 1
  <2>1. IsFiniteSet(S \cup {e}) /\ Cardinality(S \cup {e}) = Cardinality(S) + 1
    BY <1>1, <1>3, FS_AddElement
  <2>2. Cardinality(S \cup {e}) <= Cardinality(T)
    BY <1>3, FS_Subset
  <2>3. QED
    BY <1>2, <2>1, <2>2
<1>4. QED
  BY <1>1, <1>2, <1>3

(* A block that has no fewer copies and no fewer faults.                   *)
LEMMA CopiesStay ==
  ASSUME TypeOK, NEW x \in Blocks, NEW n, faults'[x] = faults[x],
         \A b \in Backends : copy[x][b] = "good" => copy'[x][b] = "good"
  PROVE  Copies(x, n)' >= Copies(x, n)
<1>1. GoodFrom(x, n) \subseteq GoodFrom(x, n)'
  BY DEF GoodFrom
<1>2. Cardinality(GoodFrom(x, n)') >= Cardinality(GoodFrom(x, n))
  BY <1>1, GoodFinite, Grows
<1>3. faults[x] \in Nat
  BY DEF TypeOK, StoreTypeOK
<1>4. QED
  BY <1>2, <1>3, GoodFinite DEF Copies

Keeps == \A x \in Blocks, n \in Nat : Copies(x, n)' >= Copies(x, n)

LEMMA StoreKeeps ==
  ASSUME TypeOK, CallsOK, NEW c \in Clients, StoreStep(c)
  PROVE  Keeps
<1>1. faults' = faults /\ Stays
  BY StoreEffect
<1>2. QED
  BY <1>1, CopiesStay DEF Stays, Keeps

LEMMA FaultKeeps == ASSUME TypeOK, FaultStep PROVE Keeps
<1>1. PICK x \in Blocks, b \in Backends, to \in {"none", "bad"} : CopyFault(x, b, to)
  BY DEF FaultStep
<1>2. /\ copy' = [copy EXCEPT ![x][b] = to]
      /\ faults' = IF copy[x][b] = "good" THEN [faults EXCEPT ![x] = @ + 1] ELSE faults
  BY <1>1, TypeSplit, FaultEffect
<1>3. \A y \in Blocks, d \in Backends : y # x \/ d # b => copy'[y][d] = copy[y][d]
  BY <1>2 DEF TypeOK, StoreTypeOK
<1>4. \A y \in Blocks : y # x => faults'[y] = faults[y]
  BY <1>2 DEF TypeOK, StoreTypeOK
<1>5. ASSUME NEW n \in Nat PROVE Copies(x, n)' >= Copies(x, n)
  <2>1. CASE copy[x][b] = "good"
    <3>1. faults'[x] = faults[x] + 1 /\ faults[x] \in Nat
      BY <1>2, <2>1 DEF TypeOK, StoreTypeOK
    <3>2. GoodFrom(x, n) \ {b} \subseteq GoodFrom(x, n)'
      BY <1>3 DEF GoodFrom
    <3>3. Cardinality(GoodFrom(x, n)') >= Cardinality(GoodFrom(x, n)) - 1
      BY <3>2, GoodFinite, Shrinks
    <3>4. QED
      BY <3>1, <3>3, GoodFinite DEF Copies
  <2>2. CASE copy[x][b] # "good"
    BY <1>2, <1>3, <2>2, CopiesStay
  <2>3. QED
    BY <2>1, <2>2
<1>6. QED
  BY <1>3, <1>4, <1>5, CopiesStay DEF Keeps

LEMMA SameKeeps == ASSUME TypeOK, StoreSame PROVE Keeps
BY CopiesStay DEF StoreSame, Keeps

(* A backend that is passed over costs a copy only if it failed, and one   *)
(* that takes the block is one more.                                       *)
LEMMA PassedOver ==
  ASSUME TypeOK, NEW x \in Blocks, NEW n \in Nat, UNCHANGED <<copy, faults>>
  PROVE  /\ Copies(x, n + 1)' >= Copies(x, n) - 1
         /\ copy[x][n] # "good" => Copies(x, n + 1)' >= Copies(x, n)
<1>1. GoodFrom(x, n) \ {n} \subseteq GoodFrom(x, n + 1)'
  <2>1. \A b \in Backends : b >= n /\ b # n => b >= n + 1
    BY Numbers
  <2>2. QED
    BY <2>1 DEF GoodFrom
<1>2. Cardinality(GoodFrom(x, n + 1)') >= Cardinality(GoodFrom(x, n)) - 1
  BY <1>1, GoodFinite, Shrinks
<1>3. faults[x] \in Nat /\ faults'[x] = faults[x]
  BY DEF TypeOK, StoreTypeOK
<1>4. ASSUME copy[x][n] # "good" PROVE Cardinality(GoodFrom(x, n + 1)') >= Cardinality(GoodFrom(x, n))
  <2>1. GoodFrom(x, n) \subseteq GoodFrom(x, n + 1)'
    BY <1>1, <1>4 DEF GoodFrom
  <2>2. QED
    BY <2>1, GoodFinite, Grows
<1>5. QED
  BY <1>2, <1>3, <1>4, GoodFinite DEF Copies

LEMMA PastTheLast ==
  ASSUME TypeOK, TypeOK', NEW x \in Blocks, NEW n, n = N + 1
  PROVE  Copies(x, n) = faults[x] /\ Copies(x, n)' = faults'[x]
<1>1. \A b \in Backends : ~(b >= n)
  BY Numbers
<1>2. GoodFrom(x, n) = {} /\ GoodFrom(x, n)' = {}
  BY <1>1 DEF GoodFrom
<1>3. Cardinality({}) = 0
  BY FS_EmptySet
<1>4. faults[x] \in Nat /\ faults'[x] \in Nat
  BY DEF TypeOK, StoreTypeOK
<1>5. QED
  BY <1>2, <1>3, <1>4 DEF Copies

LEMMA CopiesNat ==
  ASSUME TypeOK, TypeOK', NEW x \in Blocks, NEW n
  PROVE  Copies(x, n) \in Nat /\ Copies(x, n)' \in Nat
<1>1. faults[x] \in Nat /\ faults'[x] \in Nat
  BY DEF TypeOK, StoreTypeOK
<1>2. QED
  BY <1>1, GoodFinite DEF Copies

(* A call that does not move has no less than it had.                      *)
LEMMA CallStays ==
  ASSUME TypeOK, TypeOK', CallsOK, Keeps, NEW d \in Clients, CallCopies(d),
         call'[d].pc = call[d].pc, call'[d].block = call[d].block, call'[d].at = call[d].at,
         call'[d].took = call[d].took, call'[d].missed = call[d].missed
  PROVE  CallCopies(d)'
<1>1. call[d].at \in Nat /\ call[d].took \in Nat /\ call[d].missed \in Nat /\ 1 \in Nat /\ N + 1 \in Nat
  BY Numbers DEF TypeOK, StoreTypeOK
<1>2. PICK x, n : x = call[d].block /\ n = call[d].at
  OBVIOUS
<1>3. CASE call[d].pc \in {"write", "read", "missing"}
  <2>1. x \in Blocks /\ n \in Nat
    BY <1>1, <1>2, <1>3 DEF CallsOK, CallOK
  <2>2. /\ Copies(x, 1)' >= Copies(x, 1) /\ Copies(x, n)' >= Copies(x, n)
        /\ Copies(x, N + 1)' >= Copies(x, N + 1)
    BY <1>1, <2>1 DEF Keeps
  <2>3. /\ Copies(x, 1) \in Nat /\ Copies(x, 1)' \in Nat
        /\ Copies(x, n) \in Nat /\ Copies(x, n)' \in Nat
    BY <2>1, CopiesNat
  <2>4. Copies(x, N + 1) = faults[x] /\ Copies(x, N + 1)' = faults'[x]
    BY <2>1, PastTheLast
  <2>5. faults[x] \in Nat /\ faults'[x] \in Nat
    BY <2>1 DEF TypeOK, StoreTypeOK
  <2>6. /\ call[d].pc = "write" => Copies(x, 1)' >= call[d].took
        /\ call[d].pc = "read" => Copies(x, n)' + call[d].missed >= 2
        /\ call[d].pc = "missing" => faults'[x] + call[d].missed >= 2
    BY <1>1, <1>2, <2>2, <2>3, <2>4, <2>5 DEF CallCopies
  <2>7. QED
    BY <1>2, <2>6 DEF CallCopies, Copies, GoodFrom
<1>4. CASE call[d].pc \notin {"write", "read", "missing"}
  BY <1>4 DEF CallCopies
<1>5. QED
  BY <1>3, <1>4

(* One backend of Put: one that takes the block is one more copy of it.    *)
LEMMA PutCopies ==
  ASSUME TypeOK, TypeOK', CallsOK, FreshInv, CopiesInv, Keeps, NEW c \in Clients,
         NEW takes \in BOOLEAN, NEW fail \in BOOLEAN, PutAt(c, takes, fail)
  PROVE  /\ \A x : x = call[c].block => Copies(x, 1)' >= call'[c].took
         /\ CallCopies(c)'
<1>0. DataType /\ CallsType /\ CallOK(c) /\ call[c] \in CallType
  BY TypeSplit DEF CallsOK, CallsType
<1>1. PICK x, n, k : x = call[c].block /\ n = call[c].at /\ k = call[c].took
  OBVIOUS
<1>2. /\ call[c].pc = "write" /\ x \in Blocks /\ faults' = faults
      /\ call'[c].block = x
      /\ call'[c].took = IF fail THEN k ELSE k + 1
      /\ call[c].at < N => call'[c].pc = "write"
      /\ call[c].at = N => call'[c].pc = IF call'[c].took >= 2 THEN "stored" ELSE "short"
      /\ copy' = IF takes THEN Placed(x, n) ELSE copy
      /\ takes \/ fail
  BY <1>0, <1>1, PutAtEffect
<1>3. n \in 1 .. N /\ n \in Backends /\ k \in 0 .. N
  BY <1>0, <1>1, Numbers DEF CallType
<1>4. Copies(x, 1) >= k /\ Copies(x, 1)' >= Copies(x, 1)
  BY <1>1, <1>2, Numbers DEF CopiesInv, CallCopies, Keeps
<1>5. Copies(x, 1) \in Nat /\ Copies(x, 1)' \in Nat
  BY <1>2, CopiesNat
<1>6. ASSUME ~fail PROVE Copies(x, 1)' >= k + 1
  <2>1. copy' = Placed(x, n)
    BY <1>2, <1>6
  <2>2. copy[x][n] = "none"
    BY <1>1, <1>2, <1>3 DEF FreshInv
  <2>3. copy'[x][n] = "good" /\ \A b \in Backends : b # n => copy'[x][b] = copy[x][b]
    BY <1>2, <1>3, <2>1, <2>2 DEF Placed, TypeOK, StoreTypeOK
  <2>4. GoodFrom(x, 1) \subseteq GoodFrom(x, 1)' /\ n \in GoodFrom(x, 1)' \ GoodFrom(x, 1)
    BY <1>3, <2>2, <2>3 DEF GoodFrom
  <2>5. Cardinality(GoodFrom(x, 1)') >= Cardinality(GoodFrom(x, 1)) + 1
    BY <1>2, <2>4, GoodFinite, Grows
  <2>6. faults'[x] = faults[x] /\ faults[x] \in Nat
    BY <1>2 DEF TypeOK, StoreTypeOK
  <2>7. Copies(x, 1)' >= Copies(x, 1) + 1
    BY <1>2, <2>5, <2>6, GoodFinite DEF Copies
  <2>8. QED
    BY <1>3, <1>4, <1>5, <2>7
<1>7. Copies(x, 1)' >= call'[c].took
  <2>1. CASE fail
    <3>1. call'[c].took = k
      BY <1>2, <2>1
    <3>2. QED
      BY <1>3, <1>4, <1>5, <3>1
  <2>2. CASE ~fail
    <3>1. call'[c].took = k + 1
      BY <1>2, <2>2
    <3>2. QED
      BY <1>6, <2>2, <3>1
  <2>3. QED
    BY <2>1, <2>2
<1>8. call'[c].pc \in PutPc
  BY <1>1, <1>2, <1>3, Numbers DEF PutPc
<1>9. CallCopies(c)'
  BY <1>2, <1>7, <1>8 DEF CallCopies, PutPc, Copies, GoodFrom
<1>10. QED
  BY <1>1, <1>7, <1>9

(* One backend of Get that does not give the block: it is counted, or has  *)
(* no good copy.                                                           *)
LEMMA MissCopies ==
  ASSUME TypeOK, TypeOK', CallsOK, CopiesInv, NEW c \in Clients,
         NEW fail \in BOOLEAN, ReadNext(c, fail)
  PROVE  CallCopies(c)'
<1>0. DataType /\ CallsType /\ CallOK(c) /\ call[c] \in CallType
  BY TypeSplit DEF CallsOK, CallsType
<1>1. PICK x, n, k : x = call[c].block /\ n = call[c].at /\ k = call[c].missed
  OBVIOUS
<1>2. /\ call[c].pc = "read" /\ x \in Blocks /\ UNCHANGED <<copy, faults>>
      /\ call'[c].block = x
      /\ fail \/ copy[x][n] # "good"
      /\ call'[c].missed = IF fail THEN k + 1 ELSE k
      /\ n < N => call'[c].pc = "read" /\ call'[c].at = n + 1
      /\ n = N => call'[c].pc = "missing"
  BY <1>0, <1>1, ReadNextEffect
<1>3. n \in 1 .. N /\ n \in Nat /\ k \in 0 .. N
  BY <1>0, <1>1, Numbers DEF CallType
<1>4. Copies(x, n) + k >= 2 /\ Copies(x, n) \in Nat /\ Copies(x, n + 1)' \in Nat
  BY <1>1, <1>2, CopiesNat DEF CopiesInv, CallCopies
<1>5. /\ Copies(x, n + 1)' >= Copies(x, n) - 1
      /\ copy[x][n] # "good" => Copies(x, n + 1)' >= Copies(x, n)
  BY <1>2, <1>3, PassedOver
<1>6. Copies(x, n + 1)' + call'[c].missed >= 2
  <2>1. CASE fail
    <3>1. call'[c].missed = k + 1
      BY <1>2, <2>1
    <3>2. QED
      BY <1>3, <1>4, <1>5, <3>1
  <2>2. CASE ~fail
    <3>1. call'[c].missed = k /\ copy[x][n] # "good"
      BY <1>2, <2>2
    <3>2. QED
      BY <1>3, <1>4, <1>5, <3>1
  <2>3. QED
    BY <2>1, <2>2
<1>7. CASE n < N
  BY <1>2, <1>6, <1>7 DEF CallCopies, Copies, GoodFrom
<1>8. CASE n = N
  <2>1. faults'[x] + call'[c].missed >= 2
    BY <1>2, <1>6, <1>8, PastTheLast
  <2>2. QED
    BY <1>2, <1>8, <2>1 DEF CallCopies
<1>9. n < N \/ n = N
  BY <1>3, Numbers
<1>10. QED
  BY <1>7, <1>8, <1>9

LEMMA CopiesNext ==
  ASSUME TypeOK, CallsOK, FilesOK, FreshInv, CopiesInv, AnyStep, TypeOK', CallsOK'
  PROVE  CopiesInv'
<1>1. Keeps
  BY StoreKeeps, FaultKeeps, SameKeeps DEF AnyStep, ClientStep, Ends, StartsPut, StartsGet, vars,
     storeVars, StoreSame
<1>2. \A x \in kept : x \in Blocks /\ Copies(x, 1)' >= 2
  <2> SUFFICES ASSUME NEW x \in kept PROVE x \in Blocks /\ Copies(x, 1)' >= 2
    OBVIOUS
  <2>1. x \in Blocks /\ Copies(x, 1) >= 2
    BY DEF TypeOK, StoreTypeOK, CopiesInv
  <2>2. Copies(x, 1)' >= Copies(x, 1) /\ Copies(x, 1) \in Nat /\ Copies(x, 1)' \in Nat
    BY <1>1, <2>1, CopiesNat DEF Keeps
  <2>3. QED
    BY <2>1, <2>2
<1>3. ASSUME NEW c \in Clients, \A d \in Clients : d # c => call'[d] = call[d],
             CallCopies(c)', \A x \in kept' \ kept : Copies(x, 1)' >= 2
      PROVE  CopiesInv'
  <2>1. \A d \in Clients : d # c => CallCopies(d)'
    BY <1>1, <1>3, CallStays DEF CopiesInv
  <2>2. QED
    BY <1>2, <1>3, <2>1 DEF CopiesInv
<1>4. ASSUME NEW c \in Clients, Ends(c) PROVE CopiesInv'
  <2>1. /\ call'[c].pc = "idle" /\ kept' = kept
        /\ \A d \in Clients : d # c => call'[d] = call[d]
    BY <1>4, TypeSplit, EndEffect DEF Ends, StoreSame
  <2>2. CallCopies(c)'
    BY <2>1 DEF CallCopies
  <2>3. QED
    BY <1>3, <2>1, <2>2
<1>5. ASSUME NEW c \in Clients, NEW f \in Files, NEW k \in Parts, StartsPut(c, f, k)
      PROVE  CopiesInv'
  <2>1. /\ call'[c] = Fresh("write", <<f, k>>) /\ kept' = kept
        /\ \A d \in Clients : d # c => call'[d] = call[d]
    BY <1>5, TypeSplit, StartEffect DEF StartsPut, StoreSame
  <2>2. call'[c].pc = "write" /\ call'[c].block = <<f, k>> /\ call'[c].took = 0
    BY <2>1 DEF Fresh
  <2>3. Copies(<<f, k>>, 1)' \in Nat
    BY CopiesNat, Numbers
  <2>4. Copies(<<f, k>>, 1)' >= 0
    BY <2>3
  <2>5. CallCopies(c)'
    BY <2>2, <2>4 DEF CallCopies, Copies, GoodFrom
  <2>6. QED
    BY <1>3, <2>1, <2>5
<1>6. ASSUME NEW c \in Clients, NEW f \in Files, NEW k \in Parts, StartsGet(c, f, k)
      PROVE  CopiesInv'
  <2>1. /\ call'[c] = Fresh("read", <<f, k>>) /\ kept' = kept
        /\ \A d \in Clients : d # c => call'[d] = call[d]
    BY <1>6, TypeSplit, StartEffect DEF StartsGet, StoreSame
  <2>2. /\ call'[c].pc = "read" /\ call'[c].block = <<f, k>> /\ call'[c].at = 1
        /\ call'[c].missed = 0
    BY <2>1 DEF Fresh
  <2>3. <<f, k>> \in kept
    BY <1>6, FilesStartGet DEF FilesOK
  <2>4. Copies(<<f, k>>, 1)' >= 2 /\ Copies(<<f, k>>, 1)' \in Nat
    BY <1>2, <2>3, CopiesNat
  <2>5. Copies(<<f, k>>, 1)' + 0 >= 2
    BY <2>4
  <2>6. CallCopies(c)'
    BY <2>2, <2>5 DEF CallCopies, Copies, GoodFrom
  <2>7. QED
    BY <1>3, <2>1, <2>6
<1>7. ASSUME NEW c \in Clients, NEW takes \in BOOLEAN, NEW fail \in BOOLEAN, PutAt(c, takes, fail)
      PROVE  CopiesInv'
  <2>0. CallOK(c) /\ DataType /\ CallsType
    BY TypeSplit DEF CallsOK
  <2>1. /\ call[c].block \in Blocks /\ call'[c].block = call[c].block
        /\ \A d \in Clients : d # c => call'[d] = call[d]
        /\ kept' = IF call[c].at = N /\ call'[c].took >= 2 THEN kept \cup {call[c].block} ELSE kept
    BY <1>7, <2>0, PutAtEffect
  <2>2. PICK x : x = call[c].block
    OBVIOUS
  <2>3. CallCopies(c)' /\ \A y : y = call[c].block => Copies(y, 1)' >= call'[c].took
    BY <1>1, <1>7, PutCopies
  <2>4. Copies(x, 1)' >= call'[c].took
    BY <2>2, <2>3
  <2>5. call'[c].took \in 0 .. N
    BY TypeSplit DEF CallsType, CallType
  <2>6. call'[c].took \in Nat /\ Copies(x, 1)' \in Nat
    BY <2>1, <2>2, <2>5, CopiesNat, Numbers
  <2>7. ASSUME NEW y \in kept' \ kept PROVE Copies(y, 1)' >= 2
    <3>1. y = x /\ call'[c].took >= 2
      BY <2>1, <2>2, <2>7
    <3>2. QED
      BY <2>4, <2>6, <3>1
  <2>8. QED
    BY <1>3, <2>1, <2>3, <2>7
<1>8. ASSUME NEW c \in Clients, NEW fail \in BOOLEAN, ReadNext(c, fail) PROVE CopiesInv'
  <2>1. kept' = kept /\ \A d \in Clients : d # c => call'[d] = call[d]
    BY <1>8, TypeSplit, ReadNextEffect DEF CallsOK
  <2>2. CallCopies(c)'
    BY <1>8, MissCopies
  <2>3. QED
    BY <1>3, <2>1, <2>2
<1>9. ASSUME NEW c \in Clients, ReadGood(c) \/ Heals(c) PROVE CopiesInv'
  <2>0. DataType /\ CallsType /\ CallOK(c) /\ call[c].at \in 1 .. N
    BY TypeSplit, Numbers DEF CallsOK, CallsType, CallType
  <2>1. CASE ReadGood(c)
    <3>1. /\ kept' = kept /\ call'[c].pc = "heal"
          /\ \A d \in Clients : d # c => call'[d] = call[d]
      BY <2>0, <2>1, ReadGoodEffect
    <3>2. CallCopies(c)'
      BY <3>1 DEF CallCopies
    <3>3. QED
      BY <1>3, <3>1, <3>2
  <2>2. CASE Heals(c)
    <3>1. /\ kept' = kept
          /\ \A d \in Clients : d # c => call'[d] = call[d]
          /\ call[c].at < N => call'[c].pc = "heal"
          /\ call[c].at = N => call'[c].pc = "found"
      BY <2>0, <2>2, HealEffect
    <3>2. call'[c].pc \in {"heal", "found"}
      BY <2>0, <3>1, Numbers
    <3>3. CallCopies(c)'
      BY <3>2 DEF CallCopies
    <3>4. QED
      BY <1>3, <3>1, <3>3
  <2>3. QED
    BY <1>9, <2>1, <2>2
<1>10. CASE FaultStep
  <2>1. PICK x \in Blocks, b \in Backends, to \in {"none", "bad"} : CopyFault(x, b, to)
    BY <1>10 DEF FaultStep
  <2>2. /\ kept' = kept
        /\ \A c \in Clients :
             /\ call'[c].pc = call[c].pc /\ call'[c].block = call[c].block
             /\ call'[c].at = call[c].at
             /\ call'[c].took = call[c].took /\ call'[c].missed = call[c].missed
    BY <2>1, TypeSplit, FaultEffect
  <2>3. \A c \in Clients : CallCopies(c)'
    BY <1>1, <2>2, CallStays DEF CopiesInv
  <2>4. QED
    BY <1>2, <2>2, <2>3 DEF CopiesInv
<1>11. CASE UNCHANGED vars
  <2>1. kept' = kept /\ call' = call
    BY <1>11 DEF vars, storeVars
  <2>2. \A c \in Clients : CallCopies(c)'
    BY <1>1, <2>1, CallStays DEF CopiesInv
  <2>3. QED
    BY <1>2, <2>1, <2>2 DEF CopiesInv
<1>12. ASSUME NEW c \in Clients, StoreStep(c) PROVE CopiesInv'
  <2>1. \/ \E takes, fail \in BOOLEAN : PutAt(c, takes, fail)
        \/ \E fail \in BOOLEAN : ReadNext(c, fail)
        \/ ReadGood(c) \/ Heals(c)
    BY <1>12 DEF StoreStep, Heals
  <2>2. QED
    BY <1>7, <1>8, <1>9, <2>1
<1>13. QED
  BY <1>4, <1>5, <1>6, <1>10, <1>11, <1>12 DEF AnyStep, ClientStep

StoreInv == FilesInv /\ CopiesInv

LEMMA StoreInvariant == Spec => []StoreInv
<1>1. Init => StoreInv
  <2> SUFFICES ASSUME Init PROVE CopiesInv
    BY FilesInit DEF StoreInv
  <2>1. kept = {} /\ \A c \in Clients : call[c].pc = "idle"
    BY InitCalls DEF Init, StoreInit
  <2>2. QED
    BY <2>1 DEF CopiesInv, CallCopies
<1>2. StoreInv /\ [Next]_vars => StoreInv'
  BY FilesInvNext, Steps, CopiesNext DEF StoreInv, FilesInv
<1>3. QED
  BY <1>1, <1>2, PTL DEF Spec

(* A block whose Put succeeded has two good copies, less one for each that *)
(* was lost or rotted since: a Put that counts two backends has two copies *)
(* although others failed or were not heard, and no later call of the      *)
(* store, however often it fails, costs one.                               *)
THEOREM CopiesAreKept == Spec => []Redundant
<1>1. ASSUME StoreInv PROVE Redundant
  <2>1. \A b \in Backends : b >= 1
    BY Numbers
  <2>2. \A x : GoodAt(x) = GoodFrom(x, 1)
    BY <2>1 DEF GoodAt, GoodFrom
  <2>3. QED
    BY <1>1, <2>2 DEF StoreInv, CopiesInv, Copies, Redundant
<1>2. QED
  BY <1>1, StoreInvariant, PTL

(* Get gives up on a block whose Put succeeded only after two of: copies   *)
(* lost or rotted, backends that failed this Get.  One of either never     *)
(* hides a block, in whatever order the backends are asked and whatever    *)
(* other clients put back meanwhile.                                       *)
THEOREM GetFailsOver == Spec => []Failover
<1>1. ASSUME StoreInv PROVE Failover
  BY <1>1 DEF StoreInv, CopiesInv, CallCopies, Failover
<1>2. QED
  BY <1>1, StoreInvariant, PTL
-----------------------------------------------------------------------------
(* Once a clean Get has been to every backend, the block is everywhere.    *)
LEMMA HealsStay ==
  ASSUME CallsOK, NEW d \in Clients, CallHeals(d),
         call'[d].pc = call[d].pc, call'[d].block = call[d].block, call'[d].at = call[d].at,
         call'[d].clean => call[d].clean,
         call'[d].clean /\ call[d].block \in Blocks =>
           \A b \in Backends : copy[call[d].block][b] # "none" => copy'[call[d].block][b] # "none"
  PROVE  CallHeals(d)'
<1> SUFFICES ASSUME call'[d].pc = "heal", call'[d].clean, NEW b \in Backends, b < call'[d].at
             PROVE  copy'[call'[d].block][b] # "none"
  BY DEF CallHeals
<1>1. call[d].pc = "heal" /\ call[d].clean /\ b < call[d].at
  OBVIOUS
<1>2. call[d].block \in Blocks
  BY <1>1 DEF CallsOK, CallOK
<1>3. copy[call[d].block][b] # "none"
  BY <1>1 DEF CallHeals
<1>4. QED
  BY <1>2, <1>3

LEMMA HealsSame ==
  ASSUME TypeOK, CallsOK, HealInv, Stays, healed' = healed, NEW c \in Clients, CallHeals(c)',
         \A d \in Clients : d # c => call'[d] = call[d]
  PROVE  HealInv'
<1>1. HealedPresence'
  BY DEF HealInv, HealedPresence, Stays, TypeOK, StoreTypeOK
<1>2. ASSUME NEW d \in Clients, d # c PROVE CallHeals(d)'
  <2>1. CallHeals(d) /\ call'[d] = call[d]
    BY <1>2 DEF HealInv
  <2>2. \A y \in Blocks, b \in Backends : copy[y][b] # "none" => copy'[y][b] # "none"
    BY DEF Stays
  <2>3. QED
    BY <2>1, <2>2, HealsStay
<1>3. \A d \in Clients : CallHeals(d)'
  BY <1>2
<1>4. QED
  BY <1>1, <1>3 DEF HealInv

LEMMA HealNext ==
  ASSUME TypeOK, CallsOK, HealInv, AnyStep
  PROVE  HealInv'
<1>1. ASSUME NEW c \in Clients, call'[c].pc # "heal", \A d \in Clients : d # c => call'[d] = call[d],
             Stays, healed' = healed
      PROVE  HealInv'
  BY <1>1, HealsSame DEF CallHeals
<1>2. StoreSame => Stays /\ healed' = healed
  BY DEF StoreSame, Stays
<1>3. ASSUME NEW c \in Clients, Ends(c) PROVE HealInv'
  <2>1. call'[c].pc = "idle" /\ \A d \in Clients : d # c => call'[d] = call[d]
    BY <1>3, TypeSplit, EndEffect DEF Ends
  <2>2. QED
    BY <1>1, <1>2, <1>3, <2>1 DEF Ends
<1>4. ASSUME NEW c \in Clients, NEW f \in Files, NEW k \in Parts,
             StartsPut(c, f, k) \/ StartsGet(c, f, k)
      PROVE  HealInv'
  <2>1. /\ call'[c] = Fresh("write", <<f, k>>) \/ call'[c] = Fresh("read", <<f, k>>)
        /\ \A d \in Clients : d # c => call'[d] = call[d]
    BY <1>4, TypeSplit, StartEffect DEF StartsPut, StartsGet
  <2>2. call'[c].pc # "heal"
    BY <2>1 DEF Fresh
  <2>3. QED
    BY <1>1, <1>2, <1>4, <2>1, <2>2 DEF StartsPut, StartsGet
<1>5. ASSUME NEW c \in Clients, StoreStep(c) PROVE HealInv'
  <2>0. DataType /\ CallsType /\ CallOK(c) /\ call[c].at \in 1 .. N
    BY TypeSplit, Numbers DEF CallsOK, CallsType, CallType
  <2>1. Stays /\ \A d \in Clients : d # c => call'[d] = call[d]
    BY <1>5, StoreEffect
  <2>2. ASSUME NEW takes \in BOOLEAN, NEW fail \in BOOLEAN, PutAt(c, takes, fail) PROVE HealInv'
    <3>1. /\ healed' = healed
          /\ call[c].at < N => call'[c].pc = "write"
          /\ call[c].at = N => call'[c].pc = IF call'[c].took >= 2 THEN "stored" ELSE "short"
      BY <2>0, <2>2, PutAtEffect
    <3>2. call'[c].pc # "heal"
      BY <2>0, <3>1, Numbers
    <3>3. QED
      BY <1>1, <2>1, <3>1, <3>2
  <2>3. ASSUME NEW fail \in BOOLEAN, ReadNext(c, fail) PROVE HealInv'
    <3>1. /\ healed' = healed
          /\ call[c].at < N => call'[c].pc = "read"
          /\ call[c].at = N => call'[c].pc = "missing"
      BY <2>0, <2>3, ReadNextEffect
    <3>2. call'[c].pc # "heal"
      BY <2>0, <3>1, Numbers
    <3>3. QED
      BY <1>1, <2>1, <3>1, <3>2
  <2>4. CASE ReadGood(c)
    <3>1. healed' = healed /\ call'[c].at = 1
      BY <2>0, <2>4, ReadGoodEffect
    <3>2. \A b \in Backends : ~(b < 1)
      BY Numbers
    <3>3. CallHeals(c)'
      BY <3>1, <3>2 DEF CallHeals
    <3>4. QED
      BY <2>1, <3>1, <3>3, HealsSame
  <2>5. CASE Heals(c)
    <3>1. PICK x, n : x = call[c].block /\ n = call[c].at
      OBVIOUS
    <3>2. /\ call[c].pc = "heal" /\ x \in Blocks /\ call'[c].block = x
          /\ n < N => call'[c].pc = "heal" /\ call'[c].at = n + 1
          /\ n = N => call'[c].pc = "found"
          /\ call'[c].clean => call[c].clean /\ copy'[x][n] # "none"
          /\ healed' = IF n = N /\ call'[c].clean THEN healed \cup {x} ELSE healed
      BY <2>0, <2>5, <3>1, HealEffect
    <3>3. n \in 1 .. N
      BY <2>0, <3>1
    <3>4. ASSUME call'[c].clean, NEW b \in Backends, b < n + 1 PROVE copy'[x][b] # "none"
      <4>1. CASE b = n
        BY <3>2, <3>4, <4>1
      <4>2. CASE b # n
        <5>1. b < n
          BY <3>3, <3>4, <4>2, Numbers
        <5>2. copy[x][b] # "none"
          BY <3>1, <3>2, <3>4, <5>1 DEF HealInv, CallHeals
        <5>3. QED
          BY <2>1, <3>2, <5>2 DEF Stays
      <4>3. QED
        BY <4>1, <4>2
    <3>5. CASE n < N
      <4>1. CallHeals(c)'
        BY <3>2, <3>4, <3>5 DEF CallHeals
      <4>2. healed' = healed
        BY <3>2, <3>3, <3>5, Numbers
      <4>3. QED
        BY <2>1, <4>1, <4>2, HealsSame
    <3>6. CASE n = N
      <4>1. call'[c].pc = "found"
        BY <3>2, <3>6
      <4>2. \A b \in Backends : b < n + 1
        BY <3>6, Numbers
      <4>3. call'[c].clean => \A b \in Backends : copy'[x][b] # "none"
        BY <3>4, <4>2
      <4>4. healed' = healed \/ (call'[c].clean /\ healed' = healed \cup {x})
        BY <3>2, <3>6
      <4>5. HealedPresence'
        <5>1. ASSUME NEW y \in healed, NEW b \in Backends PROVE copy'[y][b] # "none"
          BY <2>1, <5>1 DEF HealInv, HealedPresence, Stays, TypeOK, StoreTypeOK
        <5>2. QED
          BY <4>3, <4>4, <5>1 DEF HealedPresence
      <4>6. \A d \in Clients : d # c => CallHeals(d)'
        <5> SUFFICES ASSUME NEW d \in Clients, d # c PROVE CallHeals(d)'
          OBVIOUS
        <5>1. CallHeals(d) /\ call'[d] = call[d]
          BY <2>1 DEF HealInv
        <5>2. \A y \in Blocks, b \in Backends : copy[y][b] # "none" => copy'[y][b] # "none"
          BY <2>1 DEF Stays
        <5>3. QED
          BY <5>1, <5>2, HealsStay
      <4>7. \A d \in Clients : CallHeals(d)'
        BY <4>1, <4>6 DEF CallHeals
      <4>8. QED
        BY <4>5, <4>7 DEF HealInv
    <3>7. n < N \/ n = N
      BY <3>3, Numbers
    <3>8. QED
      BY <3>5, <3>6, <3>7
  <2>6. \/ \E takes, fail \in BOOLEAN : PutAt(c, takes, fail)
        \/ \E fail \in BOOLEAN : ReadNext(c, fail)
        \/ ReadGood(c) \/ Heals(c)
    BY <1>5 DEF StoreStep, Heals
  <2>7. QED
    BY <2>2, <2>3, <2>4, <2>5, <2>6
<1>6. CASE FaultStep
  <2>1. PICK x \in Blocks, b \in Backends, to \in {"none", "bad"} : CopyFault(x, b, to)
    BY <1>6 DEF FaultStep
  <2>2. /\ healed' = healed \ {x} /\ copy' = [copy EXCEPT ![x][b] = to]
        /\ \A c \in Clients :
             /\ call'[c].pc = call[c].pc /\ call'[c].block = call[c].block
             /\ call'[c].at = call[c].at
             /\ call'[c].clean => call[c].clean /\ call[c].block # x
    BY <2>1, TypeSplit, FaultEffect
  <2>3. \A y \in Blocks : y # x => copy'[y] = copy[y]
    BY <2>2 DEF TypeOK, StoreTypeOK
  <2>4. HealedPresence'
    BY <2>2, <2>3 DEF HealInv, HealedPresence, TypeOK, StoreTypeOK
  <2>5. \A c \in Clients : CallHeals(c)'
    <3> SUFFICES ASSUME NEW c \in Clients PROVE CallHeals(c)'
      OBVIOUS
    <3>1. CallHeals(c)
      BY DEF HealInv
    <3>2. call'[c].clean /\ call[c].block \in Blocks => copy'[call[c].block] = copy[call[c].block]
      BY <2>2, <2>3
    <3>3. QED
      BY <2>2, <3>1, <3>2, HealsStay
  <2>6. QED
    BY <2>4, <2>5 DEF HealInv
<1>7. CASE UNCHANGED vars
  BY <1>7 DEF vars, storeVars, HealInv, HealedPresence, CallHeals
<1>8. QED
  BY <1>3, <1>4, <1>5, <1>6, <1>7 DEF AnyStep, ClientStep

(* After a Get that met no fault of a backend or of a copy, every backend  *)
(* has something under the address, until the next fault: the healing loop *)
(* leaves out no backend, although other clients put and heal the block at *)
(* the same time.  (That what is there is good is refuted by a run.)       *)
THEOREM HealedIsPresent == Spec => []HealedPresence
<1>1. Init => TypeOK /\ CallsOK /\ HealInv
  <2> SUFFICES ASSUME Init PROVE TypeOK /\ CallsOK /\ HealInv
    OBVIOUS
  <2>1. TypeOK /\ CallsOK /\ healed = {} /\ \A c \in Clients : call[c].pc = "idle"
    BY InitCalls DEF Init, StoreInit
  <2>2. QED
    BY <2>1 DEF HealInv, HealedPresence, CallHeals
<1>2. TypeOK /\ CallsOK /\ HealInv /\ [Next]_vars => (TypeOK /\ CallsOK /\ HealInv)'
  BY VaultTypeNext, Steps, HealNext
<1>3. HealInv => HealedPresence
  BY DEF HealInv
<1>4. QED
  BY <1>1, <1>2, <1>3, PTL DEF Spec
=============================================================================
