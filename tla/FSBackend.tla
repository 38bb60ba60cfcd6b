------------------------------- MODULE FSBackend -------------------------------
(***************************************************************************)
(* FSBackend.Put (core/cas/fsbackend.go) on one block: look whether the    *)
(* block is there, write it to <path>.tmp, rename that to <path>.  All the *)
(* calls for an address share the one temporary name, so two of them may   *)
(* write to one file, or one may rename the file of another.  The calls    *)
(* are those of the handlers of a node, or of commands that share a        *)
(* directory; all of them bring the same bytes, those the address names.   *)
(***************************************************************************)
EXTENDS Integers, Sequences

CONSTANTS
  Writers,           \* the callers; each runs one Put at a time
  Pieces,            \* of a block, in the order they are written
  MaxPuts,           \* bound: calls
  MaxCuts            \* bound: calls cut short: killed, or out of space

ASSUME PiecesAssumption == Pieces \in Nat \ {0}
ASSUME BoundAssumption  == MaxPuts \in Nat /\ MaxCuts \in Nat

VARIABLES
  files,     \* the files created: of each, the pieces of the block it holds
  tmp, final,          \* what the two names refer to in files; 0 is nothing
  put,       \* the call of each writer: where it is, its file, pieces written
  calls, cuts,         \* counted against their bounds
  answered,  \* history: some call answered that the block is stored
  overlapped,          \* history: two calls were past their os.Stat at once
  lost       \* history: the disk lost what had been written or renamed

vars == <<files, tmp, final, put, calls, cuts, answered, overlapped, lost>>
-----------------------------------------------------------------------------
NoPut == [pc |-> "idle", file |-> 0, done |-> 0]

Init ==
  /\ files = <<>> /\ tmp = 0 /\ final = 0
  /\ put = [w \in Writers |-> NoPut]
  /\ calls = 0 /\ cuts = 0
  /\ answered = FALSE /\ overlapped = FALSE /\ lost = FALSE

Writing(i) == {w \in Writers : put[w].file = i}

(* A definition marked "a mistake" is a wrong variant of the one after it, *)
(* and is used only to show that a property tells them apart.              *)
PresentOrComing == final # 0 \/ tmp # 0      \* a mistake: .tmp counts too
Present         == final # 0

(* os.Stat finds the block and Put has nothing to do, or goes on.          *)
Begin(w) ==
  /\ put[w].pc = "idle" /\ calls < MaxPuts
  /\ calls' = calls + 1
  /\ put' = IF Present THEN put ELSE [put EXCEPT ![w].pc = "open"]
  /\ answered' = (answered \/ Present)
  /\ overlapped' = (overlapped \/ (~Present /\ \E x \in Writers : put[x].pc # "idle"))
  /\ UNCHANGED <<files, tmp, final, cuts, lost>>

OpenInPlace(w) ==                    \* a mistake: the block is written in place
  /\ put[w].pc = "open"
  /\ files' = Append(files, {})
  /\ tmp' = Len(files) + 1 /\ final' = Len(files) + 1
  /\ put' = [put EXCEPT ![w] = [pc |-> "write", file |-> Len(files) + 1, done |-> 0]]
  /\ UNCHANGED <<calls, cuts, answered, overlapped, lost>>

(* os.WriteFile creates the temporary file, or empties the one it finds.   *)
Open(w) ==
  /\ put[w].pc = "open"
  /\ LET i == IF tmp = 0 THEN Len(files) + 1 ELSE tmp
     IN  /\ files' = IF tmp = 0 THEN Append(files, {}) ELSE [files EXCEPT ![i] = {}]
         /\ tmp' = i
         /\ put' = [put EXCEPT ![w] = [pc |-> "write", file |-> i, done |-> 0]]
  /\ UNCHANGED <<final, calls, cuts, answered, overlapped, lost>>

(* It writes each piece in its place, whatever has become of the file.     *)
WritePiece(w) ==
  LET r == put[w]
  IN  /\ r.pc = "write" /\ r.done < Pieces
      /\ files' = [files EXCEPT ![r.file] = @ \cup {r.done + 1}]
      /\ put' = [put EXCEPT ![w].done = @ + 1]
      /\ UNCHANGED <<tmp, final, calls, cuts, answered, overlapped, lost>>

WrittenButOne(w) == put[w].done >= Pieces - 1 \* a mistake: off by one
Written(w)       == put[w].done = Pieces

Close(w) ==
  /\ put[w].pc = "write" /\ Written(w)
  /\ put' = [put EXCEPT ![w] = [pc |-> "rename", file |-> 0, done |-> 0]]
  /\ UNCHANGED <<files, tmp, final, calls, cuts, answered, overlapped, lost>>

(* The temporary name may by now be another call's file, or be gone: then  *)
(* Put fails though the block was stored.                                  *)
Rename(w) ==
  /\ put[w].pc = "rename"
  /\ put' = [put EXCEPT ![w] = NoPut]
  /\ IF tmp # 0 THEN final' = tmp /\ tmp' = 0 /\ answered' = TRUE
                ELSE UNCHANGED <<final, tmp, answered>>
  /\ UNCHANGED <<files, calls, cuts, overlapped, lost>>

(* The disk is full, or the call's process is killed: the temporary file   *)
(* stays as it is.                                                         *)
Cut(w) ==
  /\ put[w].pc # "idle" /\ cuts < MaxCuts
  /\ cuts' = cuts + 1
  /\ put' = [put EXCEPT ![w] = NoPut]
  /\ UNCHANGED <<files, tmp, final, calls, answered, overlapped, lost>>

(* The machine stops.  Put never syncs: any bytes of a file may be gone    *)
(* though its name is not, and the rename may not have reached the disk.   *)
PowerLoss(i, left, undone) ==
  /\ cuts < MaxCuts
  /\ cuts' = cuts + 1
  /\ files' = [files EXCEPT ![i] = left]
  /\ IF undone THEN final' = 0 /\ tmp' = final ELSE UNCHANGED <<final, tmp>>
  /\ lost' = (lost \/ undone \/ left # files[i])
  /\ put' = [w \in Writers |-> NoPut]
  /\ UNCHANGED <<calls, answered, overlapped>>

Next ==
  \/ \E w \in Writers : \/ Begin(w) \/ Open(w) \/ WritePiece(w) \/ Close(w)
                        \/ Rename(w) \/ Cut(w)
  \/ \E i \in 1 .. Len(files) : \E left \in SUBSET files[i], undone \in BOOLEAN :
       /\ undone => final # 0 /\ tmp = 0
       /\ PowerLoss(i, left, undone)

Spec == Init /\ [][Next]_vars
-----------------------------------------------------------------------------
(* Properties *)

(* Every variable keeps its shape, and a name refers to a file there is.   *)
TypeOK ==
  /\ files \in Seq(SUBSET (1 .. Pieces))
  /\ tmp \in 0 .. Len(files) /\ final \in 0 .. Len(files)
  /\ tmp = 0 \/ tmp # final
  /\ put \in [Writers -> [pc : {"idle", "open", "write", "rename"},
                          file : 0 .. Len(files), done : 0 .. Pieces]]
  /\ \A w \in Writers : (put[w].file # 0) = (put[w].pc = "write")
  /\ calls \in 0 .. MaxPuts /\ cuts \in 0 .. MaxCuts
  /\ answered \in BOOLEAN /\ lost \in BOOLEAN
  /\ overlapped \in BOOLEAN

Torn == final # 0 /\ files[final] # 1 .. Pieces

(* What the rename is for (fsbackend.go:44-48): a call that is killed or   *)
(* fails leaves no torn block under the address.  It takes another call    *)
(* that uses the same temporary name meanwhile, or a disk that lost bytes. *)
TornOnlyIfOverlapped == Torn /\ ~lost => overlapped

(* However the calls overlap and take each other's files, a torn block     *)
(* becomes whole when the calls that write to it end, unless one of them   *)
(* was cut short: no finished call is undone by a slower one.              *)
TornOnlyInWriting == Torn /\ cuts = 0 => Writing(final) # {}

(* Once a call has answered that the block is stored, or finds its own     *)
(* temporary file gone, there is a block under the address, unless the     *)
(* disk lost it.                                                           *)
AnsweredIsPresent ==
  \/ lost \/ final # 0
  \/ ~answered /\ ~(tmp = 0 /\ \E w \in Writers : put[w].pc = "rename")

Promise == INSTANCE BackendPromise WITH
  held <- IF final = 0 THEN "none" ELSE IF Torn THEN "torn" ELSE "good",
  busy <- {w \in Writers : put[w].pc # "idle"},
  faults <- cuts

(* The directory is the backend the block store wants: though a Put is     *)
(* several system calls, it is one step of BackendPromise: the block       *)
(* appears whole, stays as it is until a fault, and no call that was       *)
(* neither overlapped nor cut short fails.                                 *)
KeepsPromise == Promise!Spec
=============================================================================
