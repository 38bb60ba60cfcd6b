-------------------------------- MODULE Vault --------------------------------
(***************************************************************************)
(* The file layer (core/vault, and vaultctl's put and get) on the block    *)
(* store: PutFile seals and stores the chunks of a file in order and its   *)
(* manifest last, and returns the manifest's address; GetFile reads the    *)
(* manifest and then the chunks.  Every block is sealed with a fresh nonce *)
(* and so has an address of its own: no address is ever put twice but by a *)
(* Get that heals.                                                         *)
(***************************************************************************)
EXTENDS CasStore

CONSTANTS Files,     \* the PutFile calls
          Chunks     \* of each file; an empty file has none

Manifest == Chunks + 1
Parts    == 1 .. Manifest

ASSUME FilesAssumption == Chunks \in Nat /\ Blocks = Files \X Parts

VARIABLES job,       \* the command each client runs
          begun,     \* the files whose PutFile has been called
          acked      \* the files whose address has been returned

vars == <<storeVars, job, begun, acked>>
-----------------------------------------------------------------------------
NoJob == [op |-> "idle", part |-> 1]
FileOf(c) == call[c].block[1]

Init ==
  /\ StoreInit
  /\ job = [c \in Clients |-> NoJob]
  /\ begun = {} /\ acked = {}

frame == <<copy, failures, rot, kept, faults, healed>>

EndCall(c) == /\ call' = [call EXCEPT ![c] = NoCall]
              /\ job' = [job EXCEPT ![c] = NoJob]

PutPart(c, f, k) == BeginPut(c, <<f, k>>) /\ job' = [job EXCEPT ![c] = [op |-> "put", part |-> k]]
GetPart(c, f, k) == BeginGet(c, <<f, k>>) /\ job' = [job EXCEPT ![c] = [op |-> "get", part |-> k]]

PutFile(c, f) ==
  /\ job[c].op = "idle" /\ f \notin begun
  /\ begun' = begun \cup {f}
  /\ PutPart(c, f, 1)
  /\ UNCHANGED <<frame, acked>>

PutOnward(c) ==                      \* a mistake: an error of Store.Put is ignored
  /\ call[c].pc \in {"stored", "short"} /\ job[c].part < Manifest
  /\ PutPart(c, FileOf(c), job[c].part + 1)
  /\ UNCHANGED <<frame, begun, acked>>

PutPast(c) ==                        \* a mistake: off by one
  /\ call[c].pc = "stored" /\ job[c].part <= Manifest
  /\ PutPart(c, FileOf(c), job[c].part + 1)
  /\ UNCHANGED <<frame, begun, acked>>

PutNext(c) ==
  /\ call[c].pc = "stored" /\ job[c].part < Manifest
  /\ PutPart(c, FileOf(c), job[c].part + 1)
  /\ UNCHANGED <<frame, begun, acked>>

PutDone(c) ==
  /\ call[c].pc = "stored" /\ job[c].part = Manifest
  /\ acked' = acked \cup {FileOf(c)}
  /\ EndCall(c)
  /\ UNCHANGED <<frame, begun>>

(* Fewer than two backends took the block; what was stored stays there.    *)
PutFails(c) ==
  /\ call[c].pc = "short"
  /\ EndCall(c)
  /\ UNCHANGED <<frame, begun, acked>>

GetFile(c, f) ==
  /\ job[c].op = "idle" /\ f \in acked
  /\ GetPart(c, f, Manifest)
  /\ UNCHANGED <<frame, begun, acked>>

Last(k) == k = Chunks \/ (k = Manifest /\ Chunks = 0)

GetNext(c) ==
  /\ call[c].pc = "found" /\ ~Last(job[c].part)
  /\ GetPart(c, FileOf(c), IF job[c].part = Manifest THEN 1 ELSE job[c].part + 1)
  /\ UNCHANGED <<frame, begun, acked>>

GetDone(c) ==
  /\ call[c].pc = "found" /\ Last(job[c].part)
  /\ EndCall(c)
  /\ UNCHANGED <<frame, begun, acked>>

GetFails(c) ==
  /\ call[c].pc = "missing"
  /\ EndCall(c)
  /\ UNCHANGED <<frame, begun, acked>>

(* The command is killed, or its source or target cannot be read or        *)
(* written; nothing that was stored is taken back.                         *)
Abort(c) ==
  /\ job[c].op # "idle"
  /\ EndCall(c)
  /\ UNCHANGED <<frame, begun, acked>>

Next ==
  \/ \E c \in Clients :
       \/ \E f \in Files : PutFile(c, f) \/ GetFile(c, f)
       \/ PutNext(c) \/ PutDone(c) \/ PutFails(c)
       \/ GetNext(c) \/ GetDone(c) \/ GetFails(c) \/ Abort(c)
       \/ StoreStep(c) /\ UNCHANGED <<job, begun, acked>>
  \/ \E x \in Blocks, b \in Backends, to \in {"none", "bad"} :
       /\ CopyFault(x, b, to)
       /\ UNCHANGED <<job, begun, acked>>

Spec == Init /\ [][Next]_vars
-----------------------------------------------------------------------------
(* Properties *)

(* Every variable keeps its shape, and a client's call is of its command.  *)
TypeOK ==
  /\ StoreTypeOK
  /\ job \in [Clients -> [op : {"idle", "put", "get"}, part : Parts]]
  /\ \A c \in Clients : job[c].op # "idle" =>
       call[c].block[1] \in begun /\ call[c].block[2] = job[c].part
  /\ acked \subseteq begun /\ begun \subseteq Files

(* A manifest is nowhere to be found before every chunk it lists is kept,  *)
(* whatever fails and whenever PutFile is killed: a file is stored whole   *)
(* or cannot be asked for.                                                 *)
ManifestLast == \A f \in Files :
  (\E b \in Backends : copy[<<f, Manifest>>][b] # "none") =>
    \A k \in 1 .. Chunks : <<f, k>> \in kept
=============================================================================
