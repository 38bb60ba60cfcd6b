------------------------------- MODULE CasStore -------------------------------
(***************************************************************************)
(* The redundant block store (core/cas): Store.Put fans a block out to all *)
(* backends and wants two of them to take it; Store.Get reads the backends *)
(* in order, takes the first copy that hashes to the address, and puts the *)
(* block wherever it is absent.  Each client runs one call at a time, one  *)
(* backend after the other; clients interleave.  A backend is a directory  *)
(* (FSBackend) or a node over HTTP (RemoteBackend), which may not answer,  *)
(* or may do what it was asked and not be heard.                           *)
(***************************************************************************)
EXTENDS Integers, FiniteSets

CONSTANTS
  N,                 \* the number of backends
  Blocks, Clients, None,
  MaxFaults,         \* bound: copies lost or corrupted
  MaxFailures        \* bound: calls of a backend that fail

ASSUME StoreAssumption == N \in Nat \ {0, 1}      \* NewStore wants two
ASSUME NoBlockAssumption == None \notin Blocks
ASSUME FaultsAssumption == MaxFaults \in Nat /\ MaxFailures \in Nat

VARIABLES
  copy,      \* what each backend holds under an address
  call,      \* the call of each client
  failures, rot,       \* calls of a backend that failed, and faults of copies
  kept,      \* history: the blocks whose Put succeeded
  faults,    \* history: how often a good copy of a block was lost or corrupted
  healed     \* history: the blocks that had no fault since a faultless Get

storeVars == <<copy, call, failures, rot, kept, faults, healed>>
Backends == 1 .. N
-----------------------------------------------------------------------------
NoCall == [pc |-> "idle", block |-> None, at |-> 1, took |-> 0, missed |-> 0, clean |-> TRUE]

StoreInit ==
  /\ copy = [x \in Blocks |-> [b \in Backends |-> "none"]]
  /\ call = [c \in Clients |-> NoCall]
  /\ failures = 0 /\ rot = 0
  /\ kept = {} /\ faults = [x \in Blocks |-> 0] /\ healed = {}

(* A backend call that fails counts against the bound.                     *)
Fails(fail) == /\ fail => failures < MaxFailures
               /\ failures' = IF fail THEN failures + 1 ELSE failures

(* A definition marked "a mistake" is a wrong variant of the one after it, *)
(* and is used only to show that a property tells them apart.              *)
EnoughOne(k) == k >= 1               \* a mistake: one copy is enough
Enough(k)    == k >= 2

(* A backend keeps what it already has under an address, good or bad.      *)
Placed(x, b) == IF copy[x][b] = "none" THEN [copy EXCEPT ![x][b] = "good"] ELSE copy

BeginPut(c, x) ==
  call' = [call EXCEPT ![c] = [NoCall EXCEPT !.pc = "write", !.block = x]]
BeginGet(c, x) ==
  call' = [call EXCEPT ![c] = [NoCall EXCEPT !.pc = "read", !.block = x]]

(* One backend of Put: it takes the block, or fails with or without it.    *)
PutAt(c, takes, fail) ==
  LET r == call[c]
      took == IF fail THEN r.took ELSE r.took + 1
  IN  /\ r.pc = "write"
      /\ takes \/ fail
      /\ Fails(fail)
      /\ copy' = IF takes THEN Placed(r.block, r.at) ELSE copy
      /\ call' = [call EXCEPT ![c] =
           IF r.at < N THEN [r EXCEPT !.at = r.at + 1, !.took = took]
           ELSE [r EXCEPT !.took = took, !.pc = IF Enough(took) THEN "stored" ELSE "short"]]
      /\ kept' = IF r.at = N /\ Enough(took) THEN kept \cup {r.block} ELSE kept
      /\ UNCHANGED <<rot, faults, healed>>

(* One backend of Get that gives the block, checked against its address.   *)
ReadGood(c) ==
  LET r == call[c]
  IN  /\ r.pc = "read" /\ copy[r.block][r.at] = "good"
      /\ call' = [call EXCEPT ![c].pc = "heal", ![c].at = 1]
      /\ UNCHANGED <<copy, failures, rot, kept, faults, healed>>

ReadCorruptEnds(c, fail) ==          \* a mistake: a corrupt copy ends the Get
  LET r == call[c]
  IN  /\ r.pc = "read"
      /\ fail \/ copy[r.block][r.at] # "good"
      /\ Fails(fail)
      /\ call' = [call EXCEPT ![c] =
           IF r.at < N /\ copy[r.block][r.at] # "bad" THEN [r EXCEPT !.at = r.at + 1]
           ELSE [r EXCEPT !.pc = "missing"]]
      /\ UNCHANGED <<copy, rot, kept, faults, healed>>

(* One backend of Get that fails, is without the block or has a bad copy.  *)
ReadNext(c, fail) ==
  LET r == call[c]
      missed == IF fail THEN r.missed + 1 ELSE r.missed
  IN  /\ r.pc = "read"
      /\ fail \/ copy[r.block][r.at] # "good"
      /\ Fails(fail)
      /\ call' = [call EXCEPT ![c] =
           IF r.at < N THEN [r EXCEPT !.at = r.at + 1, !.missed = missed]
           ELSE [r EXCEPT !.missed = missed, !.pc = "missing"]]
      /\ UNCHANGED <<copy, rot, kept, faults, healed>>

(* The next backend of the self-healing loop, or the end of the Get.       *)
Healing(c, clean) ==
  LET r == call[c]
  IN  /\ call' = [call EXCEPT ![c] =
           IF r.at < N THEN [r EXCEPT !.at = r.at + 1, !.clean = clean]
           ELSE [r EXCEPT !.clean = clean, !.pc = "found"]]
      /\ healed' = IF r.at = N /\ clean THEN healed \cup {r.block} ELSE healed

(* Has finds a file under the address: its content is not looked at.       *)
HealSkip(c) ==
  /\ call[c].pc = "heal" /\ copy[call[c].block][call[c].at] # "none"
  /\ Healing(c, call[c].clean)
  /\ UNCHANGED <<copy, failures, rot, kept, faults>>

HealNothing(c, takes, fail) ==       \* a mistake: the block is not put back
  /\ call[c].pc = "heal"
  /\ fail \/ copy[call[c].block][call[c].at] = "none"
  /\ takes \/ fail
  /\ Fails(fail)
  /\ Healing(c, call[c].clean /\ ~fail)
  /\ UNCHANGED <<copy, rot, kept, faults>>

(* Has finds nothing, or fails: the block is put, and an error ignored.    *)
HealPut(c, takes, fail) ==
  /\ call[c].pc = "heal"
  /\ fail \/ copy[call[c].block][call[c].at] = "none"
  /\ takes \/ fail
  /\ Fails(fail)
  /\ copy' = IF takes THEN Placed(call[c].block, call[c].at) ELSE copy
  /\ Healing(c, call[c].clean /\ ~fail)
  /\ UNCHANGED <<rot, kept, faults>>

StoreStep(c) ==
  \/ \E takes, fail \in BOOLEAN : PutAt(c, takes, fail) \/ HealPut(c, takes, fail)
  \/ ReadGood(c) \/ (\E fail \in BOOLEAN : ReadNext(c, fail))
  \/ HealSkip(c)

(* A storage point loses a copy, or its bytes rot.                         *)
CopyFault(x, b, to) ==
  /\ rot < MaxFaults
  /\ rot' = rot + 1
  /\ copy[x][b] # "none"
  /\ to = "bad" => copy[x][b] = "good"
  /\ copy' = [copy EXCEPT ![x][b] = to]
  /\ faults' = IF copy[x][b] = "good" THEN [faults EXCEPT ![x] = @ + 1] ELSE faults
  /\ healed' = healed \ {x}
  /\ call' = [c \in Clients |-> IF call[c].block = x THEN [call[c] EXCEPT !.clean = FALSE]
                                ELSE call[c]]
  /\ UNCHANGED <<failures, kept>>
-----------------------------------------------------------------------------
(* Properties *)

StoreTypeOK ==
  /\ copy \in [Blocks -> [Backends -> {"none", "good", "bad"}]]
  /\ call \in [Clients -> [pc : {"idle", "write", "stored", "short",
                                 "read", "missing", "heal", "found"},
                           block : Blocks \cup {None}, at : Backends, took : 0 .. N,
                           missed : 0 .. N, clean : BOOLEAN]]
  /\ failures \in Nat /\ rot \in Nat
  /\ kept \subseteq Blocks /\ healed \subseteq Blocks
  /\ faults \in [Blocks -> Nat]

GoodAt(x) == {b \in Backends : copy[x][b] = "good"}

(* A block whose Put succeeded has two good copies, less one for each copy *)
(* that was lost or corrupted since: no failed or unheard call of a        *)
(* backend costs a copy.                                                   *)
Redundant == \A x \in kept : Cardinality(GoodAt(x)) + faults[x] >= 2

(* Get misses a block whose Put succeeded only after two faults: copies    *)
(* lost or corrupted, and backends that failed it.                         *)
Failover == \A c \in Clients :
  call[c].pc = "missing" /\ call[c].block \in kept =>
    faults[call[c].block] + call[c].missed >= 2

(* After a Get that met no fault every backend holds the block again,      *)
(* until the next fault.                                                   *)
HealedPresence == \A x \in healed, b \in Backends : copy[x][b] # "none"

(* cas.go:100: "ensure every backend holds a good copy"; cas.go:82: Get    *)
(* re-replicates to a backend that "has a corrupted copy".                 *)
HealedGood == \A x \in healed : GoodAt(x) = Backends
=============================================================================
