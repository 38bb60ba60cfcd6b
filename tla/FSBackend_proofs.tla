-------------------------- MODULE FSBackend_proofs --------------------------
(***************************************************************************)
(* The directory backend keeps what the block store relies on, for any     *)
(* number of callers, of pieces of a block, of calls and of faults.        *)
(***************************************************************************)
EXTENDS FSBackend, TLAPS

Whole == 1 .. Pieces

(* Calls that have not overlapped: there is one, it writes to the file the *)
(* temporary name refers to, and no other has touched that file.           *)
Alone == \A u, w \in Writers : put[u].pc # "idle" /\ put[w].pc # "idle" => u = w
OwnFile == \A w \in Writers :
  /\ put[w].pc = "write" => put[w].file = tmp /\ files[tmp] = 1 .. put[w].done
  /\ put[w].pc = "rename" => tmp # 0 /\ files[tmp] = Whole
AloneInv == ~overlapped => Alone /\ OwnFile /\ (~lost => ~Torn)

(* Until a call is cut short, a file that is not whole has a writer that   *)
(* was the last to empty it, and has written all its pieces since.         *)
CatchesUp(i) == files[i] = Whole \/ \E w \in Writing(i) : 1 .. put[w].done \subseteq files[i]
WriterInv == cuts = 0 => \A i \in 1 .. Len(files) : CatchesUp(i)

(* No call is past os.WriteFile while neither name is there.               *)
Past(w) == put[w].pc \in {"write", "rename"}
PresentInv == ~lost /\ final = 0 => ~answered /\ (tmp = 0 => \A w \in Writers : ~Past(w))
-----------------------------------------------------------------------------
(* The three flags of the model apart from the rest of its state.          *)
Flags == answered \in BOOLEAN /\ overlapped \in BOOLEAN /\ lost \in BOOLEAN
Shape ==
  /\ files \in Seq(SUBSET (1 .. Pieces))
  /\ tmp \in 0 .. Len(files) /\ final \in 0 .. Len(files)
  /\ tmp = 0 \/ tmp # final
  /\ put \in [Writers -> [pc : {"idle", "open", "write", "rename"},
                          file : 0 .. Len(files), done : 0 .. Pieces]]
  /\ \A w \in Writers : (put[w].file # 0) = (put[w].pc = "write")
  /\ calls \in 0 .. MaxPuts /\ cuts \in 0 .. MaxCuts

LEMMA TypeSplit == (TypeOK <=> Shape /\ Flags) /\ (TypeOK' <=> Shape' /\ Flags')
BY DEF TypeOK, Shape, Flags

LEMMA FlagsNext == Flags /\ [Next]_vars => Flags'
BY DEF Flags, Next, vars, Begin, Open, WritePiece, Close, Rename, Cut, PowerLoss

LEMMA TypeNext == TypeOK /\ [Next]_vars => TypeOK'
<1> SUFFICES ASSUME TypeOK, [Next]_vars PROVE Shape'
  BY TypeSplit, FlagsNext
<1> USE PiecesAssumption, BoundAssumption
<1>a. Shape
  BY TypeSplit
<1>0. Len(files) \in Nat
  BY <1>a DEF Shape
<1>1. ASSUME NEW w \in Writers, Begin(w) PROVE Shape'
  <2>1. /\ put' = put \/ put' = [put EXCEPT ![w].pc = "open"]
        /\ put[w].pc = "idle" /\ calls' = calls + 1 /\ calls < MaxPuts
        /\ UNCHANGED <<files, tmp, final, cuts>>
    BY <1>1 DEF Begin
  <2>2. calls' \in 0 .. MaxPuts
    BY <1>a, <2>1 DEF Shape
  <2>3. CASE put' = put
    BY <1>a, <1>0, <2>1, <2>2, <2>3 DEF Shape
  <2>4. CASE put' = [put EXCEPT ![w].pc = "open"]
    BY <1>a, <1>0, <2>1, <2>2, <2>4 DEF Shape
  <2>5. QED
    BY <2>1, <2>3, <2>4
<1>2. ASSUME NEW w \in Writers, Open(w) PROVE Shape'
  <2>1. CASE tmp = 0
    <3>1. /\ files' = Append(files, {}) /\ tmp' = Len(files) + 1
          /\ put' = [put EXCEPT ![w] = [pc |-> "write", file |-> Len(files) + 1, done |-> 0]]
      BY <1>2, <2>1 DEF Open
    <3>2. files' \in Seq(SUBSET (1 .. Pieces)) /\ Len(files') = Len(files) + 1
      BY <1>a, <3>1 DEF Shape
    <3>3. QED
      BY <1>a, <1>0, <1>2, <3>1, <3>2 DEF Open, Shape
  <2>2. CASE tmp # 0
    <3>1. /\ files' = [files EXCEPT ![tmp] = {}] /\ tmp' = tmp
          /\ put' = [put EXCEPT ![w] = [pc |-> "write", file |-> tmp, done |-> 0]]
      BY <1>2, <2>2 DEF Open
    <3>2. files' \in Seq(SUBSET (1 .. Pieces)) /\ Len(files') = Len(files)
      BY <1>a, <1>0, <2>2, <3>1 DEF Shape
    <3>3. QED
      BY <1>a, <1>0, <1>2, <2>2, <3>1, <3>2 DEF Open, Shape
  <2>3. QED
    BY <2>1, <2>2
<1>3. ASSUME NEW w \in Writers, WritePiece(w) PROVE Shape'
  <2>1. /\ put[w].pc = "write" /\ put[w].done < Pieces
        /\ files' = [files EXCEPT ![put[w].file] = @ \cup {put[w].done + 1}]
        /\ put' = [put EXCEPT ![w].done = @ + 1]
    BY <1>3 DEF WritePiece
  <2>2. put[w].file \in 1 .. Len(files) /\ put[w].done + 1 \in 1 .. Pieces
    BY <1>a, <1>0, <2>1 DEF Shape
  <2>3. files' \in Seq(SUBSET (1 .. Pieces)) /\ Len(files') = Len(files)
    BY <1>a, <1>0, <2>1, <2>2 DEF Shape
  <2>4. QED
    BY <1>a, <1>0, <1>3, <2>1, <2>2, <2>3 DEF WritePiece, Shape
<1>4. ASSUME NEW w \in Writers, Close(w) \/ Rename(w) \/ Cut(w) PROVE Shape'
  <2>1. CASE Close(w)
    BY <1>a, <1>0, <2>1 DEF Close, Shape
  <2>2. CASE Rename(w)
    BY <1>a, <1>0, <2>2 DEF Rename, NoPut, Shape
  <2>3. CASE Cut(w)
    BY <1>a, <1>0, <2>3 DEF Cut, NoPut, Shape
  <2>4. QED
    BY <1>4, <2>1, <2>2, <2>3
<1>5. ASSUME NEW i \in 1 .. Len(files), NEW left \in SUBSET files[i], NEW undone \in BOOLEAN,
             undone => final # 0 /\ tmp = 0, PowerLoss(i, left, undone)
      PROVE  Shape'
  <2>1. files' \in Seq(SUBSET (1 .. Pieces)) /\ Len(files') = Len(files)
    BY <1>a, <1>0, <1>5 DEF PowerLoss, Shape
  <2>2. QED
    BY <1>a, <1>0, <1>5, <2>1 DEF PowerLoss, NoPut, Shape
<1>6. CASE UNCHANGED vars
  BY <1>a, <1>6 DEF vars, Shape
<1>7. QED
  BY <1>1, <1>2, <1>3, <1>4, <1>5, <1>6 DEF Next

(* Every name refers to a file there is, and a call writes to one exactly  *)
(* while it is in os.WriteFile.                                            *)
THEOREM BackendTypeCorrect == Spec => []TypeOK
<1>1. Init => TypeOK
  <2>1. Init => Shape
    BY PiecesAssumption, BoundAssumption DEF Init, Shape, NoPut
  <2>2. Init => Flags
    BY DEF Init, Flags
  <2>3. QED
    BY <2>1, <2>2, TypeSplit
<1>2. QED
  BY <1>1, TypeNext, PTL DEF Spec
-----------------------------------------------------------------------------
(* What a call or the disk did once is remembered.                         *)
LEMMA HistoryKept ==
  [Next]_vars => (overlapped => overlapped') /\ (lost => lost') /\ (answered => answered')
<1> SUFFICES ASSUME [Next]_vars
             PROVE  (overlapped => overlapped') /\ (lost => lost') /\ (answered => answered')
  OBVIOUS
<1> DEFINE Kept == (overlapped => overlapped') /\ (lost => lost') /\ (answered => answered')
<1>1. ASSUME NEW w \in Writers, Begin(w) PROVE Kept
  BY <1>1 DEF Begin
<1>2. ASSUME NEW w \in Writers, Open(w) \/ WritePiece(w) \/ Close(w) \/ Cut(w) PROVE Kept
  BY <1>2 DEF Open, WritePiece, Close, Cut
<1>3. ASSUME NEW w \in Writers, Rename(w) PROVE Kept
  BY <1>3 DEF Rename
<1>4. ASSUME NEW i \in 1 .. Len(files), NEW left \in SUBSET files[i], NEW undone \in BOOLEAN,
             PowerLoss(i, left, undone)
      PROVE  Kept
  BY <1>4 DEF PowerLoss
<1>5. CASE UNCHANGED vars
  BY <1>5 DEF vars
<1>6. QED
  BY <1>1, <1>2, <1>3, <1>4, <1>5 DEF Next

LEMMA NextPiece == \A d \in Nat : (1 .. d) \cup {d + 1} = 1 .. d + 1
<1> SUFFICES ASSUME NEW d \in Nat PROVE \A k : k \in (1 .. d) \cup {d + 1} <=> k \in 1 .. d + 1
  OBVIOUS
<1>1. QED
  OBVIOUS

LEMMA AloneNext == TypeOK /\ AloneInv /\ [Next]_vars => AloneInv'
<1> SUFFICES ASSUME TypeOK, AloneInv, [Next]_vars, ~overlapped'
             PROVE  Alone' /\ OwnFile' /\ (~lost' => ~Torn')
  BY DEF AloneInv
<1> DEFINE Goal == Alone' /\ OwnFile' /\ (~lost' => ~Torn')
<1>0. Alone /\ OwnFile /\ (~lost => ~Torn) /\ (~lost' => ~lost)
  BY HistoryKept DEF AloneInv
<1>a. Shape /\ Len(files) \in Nat
  BY TypeSplit DEF Shape
<1>b. ASSUME UNCHANGED <<files, final>> PROVE ~lost' => ~Torn'
  BY <1>0, <1>b DEF Torn
<1> USE PiecesAssumption
<1>1. ASSUME NEW w \in Writers, Begin(w) PROVE Goal
  <2>1. UNCHANGED <<files, tmp, final>>
    BY <1>1 DEF Begin
  <2>2. CASE Present
    <3>1. put' = put
      BY <1>1, <2>2 DEF Begin
    <3>2. Alone' /\ OwnFile'
      BY <1>0, <2>1, <3>1 DEF Alone, OwnFile
    <3>3. QED
      BY <1>b, <2>1, <3>2
  <2>3. CASE ~Present
    <3>1. \A x \in Writers : put[x].pc = "idle"
      BY <1>1, <2>3 DEF Begin
    <3>2. put' = [put EXCEPT ![w].pc = "open"]
      BY <1>1, <2>3 DEF Begin
    <3>3. \A x \in Writers : put'[x].pc = IF x = w THEN "open" ELSE "idle"
      BY <1>a, <3>1, <3>2 DEF Shape
    <3>4. Alone' /\ OwnFile'
      BY <3>3 DEF Alone, OwnFile
    <3>5. QED
      BY <1>b, <2>1, <3>4
  <2>4. QED
    BY <2>2, <2>3
<1>2. ASSUME NEW w \in Writers, Open(w) PROVE Goal
  <2> DEFINE i == IF tmp = 0 THEN Len(files) + 1 ELSE tmp
  <2>1. /\ put[w].pc = "open" /\ tmp' = i /\ final' = final
        /\ put' = [put EXCEPT ![w] = [pc |-> "write", file |-> i, done |-> 0]]
        /\ files' = IF tmp = 0 THEN Append(files, {}) ELSE [files EXCEPT ![i] = {}]
    BY <1>2 DEF Open
  <2>2. /\ files'[i] = {}
        /\ \A k \in 1 .. Len(files) : k # i => files'[k] = files[k]
        /\ i # final
    BY <1>a, <2>1 DEF Shape
  <2> HIDE DEF i
  <2>3. \A x \in Writers : put[x].pc # "idle" => x = w
    BY <1>0, <2>1 DEF Alone
  <2>4. put'[w] = [pc |-> "write", file |-> i, done |-> 0] /\ \A x \in Writers : x # w => put'[x].pc = "idle"
    BY <1>a, <2>1, <2>3 DEF Shape
  <2>5. Alone' /\ OwnFile'
    <3>1. put'[w].done = 0 /\ put'[w].file = tmp' /\ put'[w].pc = "write"
      BY <2>1, <2>4
    <3>2. files'[tmp'] = 1 .. put'[w].done
      <4>1. 1 .. 0 = {}
        OBVIOUS
      <4>2. files'[tmp'] = {}
        BY <2>1, <2>2
      <4>3. QED
        BY <3>1, <4>1, <4>2
    <3>3. QED
      BY <2>4, <3>1, <3>2 DEF Alone, OwnFile
  <2>6. Torn' <=> Torn
    BY <1>a, <2>1, <2>2 DEF Torn, Shape
  <2>7. QED
    BY <1>0, <2>5, <2>6
<1>3. ASSUME NEW w \in Writers, WritePiece(w) PROVE Goal
  <2>1. /\ put[w].pc = "write" /\ put[w].done < Pieces /\ tmp' = tmp /\ final' = final
        /\ files' = [files EXCEPT ![put[w].file] = @ \cup {put[w].done + 1}]
        /\ put' = [put EXCEPT ![w].done = @ + 1]
    BY <1>3 DEF WritePiece
  <2>2. put[w].file = tmp /\ files[tmp] = 1 .. put[w].done /\ put[w].done \in 0 .. Pieces
    BY <1>0, <1>a, <2>1 DEF OwnFile, Shape
  <2>3. tmp \in 1 .. Len(files) /\ tmp # final
    BY <1>a, <2>1, <2>2 DEF Shape
  <2>4. /\ files'[tmp] = 1 .. put[w].done + 1
        /\ \A k \in 1 .. Len(files) : k # tmp => files'[k] = files[k]
    <3>1. (1 .. put[w].done) \cup {put[w].done + 1} = 1 .. put[w].done + 1
      BY <2>2, NextPiece
    <3>2. /\ files'[tmp] = files[tmp] \cup {put[w].done + 1}
          /\ \A k \in 1 .. Len(files) : k # tmp => files'[k] = files[k]
      BY <1>a, <2>1, <2>2, <2>3 DEF Shape
    <3>3. QED
      BY <2>2, <3>1, <3>2
  <2>5. \A x \in Writers : put[x].pc # "idle" => x = w
    BY <1>0, <2>1 DEF Alone
  <2>6. /\ put'[w].pc = "write" /\ put'[w].file = tmp /\ put'[w].done = put[w].done + 1
        /\ \A x \in Writers : x # w => put'[x].pc = "idle"
    BY <1>a, <2>1, <2>2, <2>5 DEF Shape
  <2>7. Alone' /\ OwnFile'
    BY <2>1, <2>4, <2>6 DEF Alone, OwnFile
  <2>8. Torn' <=> Torn
    <3>1. final # 0 => files'[final] = files[final]
      BY <1>a, <2>3, <2>4 DEF Shape
    <3>2. QED
      BY <2>1, <3>1 DEF Torn
  <2>9. QED
    BY <1>0, <2>7, <2>8
<1>4. ASSUME NEW w \in Writers, Close(w) PROVE Goal
  <2>1. /\ put[w].pc = "write" /\ put[w].done = Pieces /\ UNCHANGED <<files, tmp, final>>
        /\ put' = [put EXCEPT ![w] = [pc |-> "rename", file |-> 0, done |-> 0]]
    BY <1>4 DEF Close, Written
  <2>2. tmp # 0 /\ files[tmp] = Whole
    BY <1>0, <1>a, <2>1 DEF OwnFile, Shape, Whole
  <2>3. \A x \in Writers : x # w => put[x].pc = "idle"
    BY <1>0, <2>1 DEF Alone
  <2>4. put'[w].pc = "rename" /\ \A x \in Writers : x # w => put'[x].pc = "idle"
    BY <1>a, <2>1, <2>3 DEF Shape
  <2>5. Alone' /\ OwnFile'
    BY <2>1, <2>2, <2>4 DEF Alone, OwnFile, Whole
  <2>6. QED
    BY <1>b, <2>1, <2>5
<1>5. ASSUME NEW w \in Writers, Rename(w) PROVE Goal
  <2>1. /\ put[w].pc = "rename" /\ files' = files /\ put' = [put EXCEPT ![w] = NoPut]
        /\ tmp # 0 => final' = tmp
    BY <1>5 DEF Rename
  <2>2. tmp # 0 /\ files[tmp] = Whole
    BY <1>0, <2>1 DEF OwnFile
  <2>3. \A x \in Writers : x # w => put[x].pc = "idle"
    BY <1>0, <2>1 DEF Alone
  <2>4. \A x \in Writers : put'[x].pc = "idle"
    BY <1>a, <2>1, <2>3 DEF Shape, NoPut
  <2>5. Alone' /\ OwnFile'
    BY <2>4 DEF Alone, OwnFile
  <2>6. ~Torn'
    BY <2>1, <2>2 DEF Torn, Whole
  <2>7. QED
    BY <2>5, <2>6
<1>6. ASSUME NEW w \in Writers, Cut(w) PROVE Goal
  <2>1. put' = [put EXCEPT ![w] = NoPut] /\ UNCHANGED <<files, tmp, final>>
    BY <1>6 DEF Cut
  <2>2. \A x \in Writers : put'[x] = put[x] \/ put'[x].pc = "idle"
    BY <1>a, <2>1 DEF Shape, NoPut
  <2>3. Alone' /\ OwnFile'
    BY <1>0, <2>1, <2>2 DEF Alone, OwnFile, Whole
  <2>4. QED
    BY <1>b, <2>1, <2>3
<1>7. ASSUME NEW i \in 1 .. Len(files), NEW left \in SUBSET files[i], NEW undone \in BOOLEAN,
             PowerLoss(i, left, undone)
      PROVE  Goal
  <2>1. put' = [w \in Writers |-> NoPut] /\ files' = [files EXCEPT ![i] = left]
    BY <1>7 DEF PowerLoss
  <2>2. \A x \in Writers : put'[x].pc = "idle"
    BY <2>1 DEF NoPut
  <2>3. Alone' /\ OwnFile'
    BY <2>2 DEF Alone, OwnFile
  <2>4. ~lost' => ~undone /\ left = files[i]
    BY <1>7 DEF PowerLoss
  <2>5. ASSUME ~lost' PROVE final' = final /\ files' = files
    <3>1. final' = final
      BY <1>7, <2>4, <2>5 DEF PowerLoss
    <3>2. left = files[i]
      BY <2>4, <2>5
    <3>3. files' = files
      BY <1>a, <2>1, <3>2 DEF Shape
    <3>4. QED
      BY <3>1, <3>3
  <2>6. QED
    BY <1>b, <2>3, <2>5
<1>8. CASE UNCHANGED vars
  <2>1. UNCHANGED <<files, tmp, final, put>>
    BY <1>8 DEF vars
  <2>2. Alone' /\ OwnFile'
    BY <1>0, <2>1 DEF Alone, OwnFile
  <2>3. QED
    BY <1>b, <2>1, <2>2
<1>9. QED
  BY <1>1, <1>2, <1>3, <1>4, <1>5, <1>6, <1>7, <1>8 DEF Next

LEMMA AloneInit == Init => AloneInv
BY DEF Init, AloneInv, Alone, OwnFile, Torn, NoPut

(* A call that is killed or fails leaves no torn block under the address:  *)
(* what the rename is for.  It takes another call that uses the same       *)
(* temporary name meanwhile, or a disk that lost bytes.                    *)
THEOREM TornNeedsOverlap == Spec => []TornOnlyIfOverlapped
<1>1. AloneInv => TornOnlyIfOverlapped
  BY DEF AloneInv, TornOnlyIfOverlapped
<1>2. QED
  BY <1>1, AloneInit, AloneNext, BackendTypeCorrect, PTL DEF Spec
-----------------------------------------------------------------------------
(* A step that leaves a file and its writers alone.                        *)
LEMMA CatchesUpKept ==
  ASSUME NEW i \in 1 .. Len(files), CatchesUp(i), files'[i] = files[i],
         \A w \in Writing(i) : put'[w].file = put[w].file /\ put'[w].done = put[w].done
  PROVE  CatchesUp(i)'
BY DEF CatchesUp, Writing

LEMMA WriterNext == TypeOK /\ WriterInv /\ [Next]_vars => WriterInv'
<1> SUFFICES ASSUME TypeOK, WriterInv, [Next]_vars, cuts' = 0, NEW i \in 1 .. Len(files')
             PROVE  CatchesUp(i)'
  BY DEF WriterInv
<1>a. Shape /\ Len(files) \in Nat
  BY TypeSplit DEF Shape
<1>b. cuts = 0 => \A k \in 1 .. Len(files) : CatchesUp(k)
  BY DEF WriterInv
<1> USE PiecesAssumption
<1>1. ASSUME NEW w \in Writers, Begin(w) PROVE CatchesUp(i)'
  <2>1. /\ put' = put \/ put' = [put EXCEPT ![w].pc = "open"]
        /\ files' = files /\ cuts' = cuts
    BY <1>1 DEF Begin
  <2>2. \A x \in Writers : put'[x].file = put[x].file /\ put'[x].done = put[x].done
    <3>1. CASE put' = put
      BY <3>1
    <3>2. CASE put' = [put EXCEPT ![w].pc = "open"]
      BY <1>a, <3>2 DEF Shape
    <3>3. QED
      BY <2>1, <3>1, <3>2
  <2>3. QED
    BY <1>b, <2>1, <2>2, CatchesUpKept DEF Writing
<1>2. ASSUME NEW w \in Writers, Open(w) PROVE CatchesUp(i)'
  <2> DEFINE j == IF tmp = 0 THEN Len(files) + 1 ELSE tmp
  <2>1. /\ put[w].pc = "open" /\ tmp' = j /\ cuts' = cuts
        /\ put' = [put EXCEPT ![w] = [pc |-> "write", file |-> j, done |-> 0]]
        /\ files' = IF tmp = 0 THEN Append(files, {}) ELSE [files EXCEPT ![j] = {}]
    BY <1>2 DEF Open
  <2>2. /\ files'[j] = {}
        /\ i # j => i \in 1 .. Len(files)
        /\ \A k \in 1 .. Len(files) : k # j => files'[k] = files[k]
    BY <1>a, <2>1 DEF Shape
  <2> HIDE DEF j
  <2>3. /\ put'[w].file = j /\ put'[w].done = 0 /\ put[w].file = 0
        /\ \A x \in Writers : x # w => put'[x] = put[x]
    BY <1>a, <2>1 DEF Shape
  <2>4. CASE i = j
    <3>1. 1 .. 0 = {}
      OBVIOUS
    <3>2. w \in Writing(i)'
      BY <2>3, <2>4 DEF Writing
    <3>3. 1 .. put'[w].done \subseteq files'[i]
      BY <2>3, <3>1
    <3>4. QED
      BY <3>2, <3>3 DEF CatchesUp
  <2>5. CASE i # j
    <3>1. i \in 1 .. Len(files) /\ files'[i] = files[i] /\ CatchesUp(i)
      BY <1>b, <2>1, <2>2, <2>5
    <3>2. \A x \in Writing(i) : put'[x] = put[x]
      BY <2>3, <3>1 DEF Writing
    <3>3. QED
      BY <3>1, <3>2, CatchesUpKept
  <2>6. QED
    BY <2>4, <2>5
<1>3. ASSUME NEW w \in Writers, WritePiece(w) PROVE CatchesUp(i)'
  <2> DEFINE j == put[w].file
             d == put[w].done
  <2>1. /\ put[w].pc = "write" /\ d < Pieces /\ cuts' = cuts
        /\ files' = [files EXCEPT ![j] = @ \cup {d + 1}]
        /\ put' = [put EXCEPT ![w].done = @ + 1]
    BY <1>3 DEF WritePiece
  <2>2. j \in 1 .. Len(files) /\ d \in Nat /\ d + 1 \in Whole
    BY <1>a, <2>1 DEF Shape, Whole
  <2>3. /\ i \in 1 .. Len(files) /\ CatchesUp(i)
        /\ files'[j] = files[j] \cup {d + 1}
        /\ i # j => files'[i] = files[i]
    BY <1>a, <1>b, <2>1, <2>2 DEF Shape
  <2>4. /\ \A x \in Writers : put'[x].file = put[x].file
        /\ put'[w].done = d + 1 /\ \A x \in Writers : x # w => put'[x].done = put[x].done
    BY <1>a, <2>1 DEF Shape
  <2> HIDE DEF d
  <2>5. CASE i # j
    BY <2>3, <2>4, <2>5, CatchesUpKept DEF Writing
  <2>6. CASE i = j /\ files[i] = Whole
    BY <2>2, <2>3, <2>6 DEF CatchesUp, Whole
  <2>7. ASSUME i = j, NEW x \in Writing(i), 1 .. put[x].done \subseteq files[i]
        PROVE  CatchesUp(i)'
    <3>1. x \in Writing(i)'
      BY <2>4 DEF Writing
    <3>2. CASE x # w
      BY <2>3, <2>4, <2>7, <3>1, <3>2 DEF CatchesUp, Writing
    <3>3. CASE x = w
      <4>1. (1 .. d) \cup {d + 1} = 1 .. d + 1
        BY <2>2, NextPiece
      <4>2. 1 .. d \subseteq files[j]
        BY <2>7, <3>3 DEF d
      <4>3. 1 .. d + 1 \subseteq files'[j]
        BY <2>3, <4>1, <4>2
      <4>4. 1 .. put'[x].done \subseteq files'[i]
        BY <2>4, <2>7, <3>3, <4>3
      <4>5. QED
        BY <3>1, <4>4 DEF CatchesUp
    <3>4. QED
      BY <3>2, <3>3
  <2>8. QED
    BY <2>3, <2>5, <2>6, <2>7 DEF CatchesUp
<1>4. ASSUME NEW w \in Writers, Close(w) PROVE CatchesUp(i)'
  <2>1. /\ put[w].pc = "write" /\ put[w].done = Pieces /\ files' = files /\ cuts' = cuts
        /\ put' = [put EXCEPT ![w] = [pc |-> "rename", file |-> 0, done |-> 0]]
    BY <1>4 DEF Close, Written
  <2>2. i \in 1 .. Len(files) /\ CatchesUp(i) /\ files[i] \subseteq Whole
    BY <1>a, <1>b, <2>1 DEF Shape, Whole
  <2>3. CASE files[i] = Whole
    BY <2>1, <2>3 DEF CatchesUp, Whole
  <2>4. ASSUME NEW x \in Writing(i), 1 .. put[x].done \subseteq files[i] PROVE CatchesUp(i)'
    <3>1. CASE x = w
      <4>1. files[i] = Whole
        BY <2>1, <2>2, <2>4, <3>1 DEF Whole
      <4>2. QED
        BY <2>3, <4>1
    <3>2. CASE x # w
      <4>1. put'[x] = put[x]
        BY <1>a, <2>1, <3>2 DEF Shape, Writing
      <4>2. QED
        BY <2>1, <2>4, <4>1 DEF CatchesUp, Writing
    <3>3. QED
      BY <3>1, <3>2
  <2>5. QED
    BY <2>2, <2>3, <2>4 DEF CatchesUp
<1>5. ASSUME NEW w \in Writers, Rename(w) PROVE CatchesUp(i)'
  <2>1. /\ put[w].pc = "rename" /\ files' = files /\ cuts' = cuts
        /\ put' = [put EXCEPT ![w] = NoPut]
    BY <1>5 DEF Rename
  <2>2. put[w].file = 0 /\ \A x \in Writers : x # w => put'[x] = put[x]
    BY <1>a, <2>1 DEF Shape
  <2>3. i \in 1 .. Len(files) /\ CatchesUp(i)
    BY <1>b, <2>1
  <2>4. \A x \in Writing(i) : put'[x] = put[x]
    BY <2>2, <2>3 DEF Writing
  <2>5. QED
    BY <2>1, <2>3, <2>4, CatchesUpKept
<1>6. ASSUME cuts' = cuts + 1 PROVE FALSE
  BY <1>a, <1>6 DEF Shape
<1>7. ASSUME NEW w \in Writers, Cut(w) PROVE FALSE
  BY <1>6, <1>7 DEF Cut
<1>8. ASSUME NEW k \in 1 .. Len(files), NEW left \in SUBSET files[k], NEW undone \in BOOLEAN,
             PowerLoss(k, left, undone)
      PROVE  FALSE
  BY <1>6, <1>8 DEF PowerLoss
<1>9. CASE UNCHANGED vars
  BY <1>b, <1>9 DEF vars, CatchesUp, Writing
<1>10. QED
  BY <1>1, <1>2, <1>3, <1>4, <1>5, <1>7, <1>8, <1>9 DEF Next

(* However the calls overlap and take each other's files, a torn block     *)
(* becomes whole when the calls that write to it end, unless one of them   *)
(* was cut short.                                                          *)
THEOREM TornIsMended == Spec => []TornOnlyInWriting
<1>1. Init => WriterInv
  BY DEF Init, WriterInv
<1>2. TypeOK /\ WriterInv => TornOnlyInWriting
  <2>1. TypeOK => final \in 0 .. Len(files) /\ Len(files) \in Nat
    BY DEF TypeOK
  <2>2. QED
    BY <2>1 DEF WriterInv, CatchesUp, Writing, Whole, Torn, TornOnlyInWriting
<1>3. QED
  BY <1>1, <1>2, WriterNext, BackendTypeCorrect, PTL DEF Spec
-----------------------------------------------------------------------------
LEMMA PresentNext == TypeOK /\ PresentInv /\ [Next]_vars => PresentInv'
<1> SUFFICES ASSUME TypeOK, PresentInv, [Next]_vars, ~lost', final' = 0
             PROVE  ~answered' /\ (tmp' = 0 => \A w \in Writers : ~Past(w)')
  BY DEF PresentInv
<1> DEFINE Goal == ~answered' /\ (tmp' = 0 => \A w \in Writers : ~Past(w)')
<1>0. ~lost /\ (final = 0 => ~answered /\ (tmp = 0 => \A w \in Writers : ~Past(w)))
  BY HistoryKept DEF PresentInv
<1>a. Shape
  BY TypeSplit
<1>1. ASSUME NEW w \in Writers, Begin(w) PROVE Goal
  <2>1. /\ final = 0 /\ tmp' = tmp /\ ~Present
        /\ put' = [put EXCEPT ![w].pc = "open"]
    BY <1>1 DEF Begin, Present
  <2>2. answered' <=> answered
    BY <1>1, <2>1 DEF Begin
  <2>3. \A x \in Writers : Past(x)' => Past(x)
    BY <1>a, <2>1 DEF Shape, Past
  <2>4. QED
    BY <1>0, <2>1, <2>2, <2>3
<1>2. ASSUME NEW w \in Writers, Open(w) PROVE Goal
  <2>1. final' = final /\ answered' = answered /\ tmp' = (IF tmp = 0 THEN Len(files) + 1 ELSE tmp)
    BY <1>2 DEF Open
  <2>2. tmp' # 0
    BY <1>a, <2>1 DEF Shape
  <2>3. QED
    BY <1>0, <2>1, <2>2
<1>3. ASSUME NEW w \in Writers, WritePiece(w) \/ Close(w) PROVE Goal
  <2>1. final' = final /\ answered' = answered /\ tmp' = tmp
    BY <1>3 DEF WritePiece, Close
  <2>2. put[w].pc = "write" /\ \A x \in Writers : x # w => put'[x] = put[x]
    BY <1>a, <1>3 DEF WritePiece, Close, Shape
  <2>3. \A x \in Writers : Past(x)' => Past(x)
    BY <2>2 DEF Past
  <2>4. QED
    BY <1>0, <2>1, <2>3
<1>4. ASSUME NEW w \in Writers, Rename(w) PROVE Goal
  <2>1. /\ put[w].pc = "rename"
        /\ tmp # 0 => final' = tmp
        /\ tmp = 0 => final' = final /\ tmp' = tmp /\ answered' = answered
    BY <1>4 DEF Rename
  <2>2. tmp = 0 /\ final = 0
    BY <2>1
  <2>3. QED
    BY <1>0, <2>1, <2>2 DEF Past
<1>5. ASSUME NEW w \in Writers, Cut(w) PROVE Goal
  <2>1. /\ final' = final /\ answered' = answered /\ tmp' = tmp
        /\ put' = [put EXCEPT ![w] = NoPut]
    BY <1>5 DEF Cut
  <2>2. \A x \in Writers : Past(x)' => Past(x)
    BY <1>a, <2>1 DEF Shape, Past, NoPut
  <2>3. QED
    BY <1>0, <2>1, <2>2
<1>6. ASSUME NEW i \in 1 .. Len(files), NEW left \in SUBSET files[i], NEW undone \in BOOLEAN,
             PowerLoss(i, left, undone)
      PROVE  Goal
  <2>1. ~undone
    BY <1>6 DEF PowerLoss
  <2>2. final' = final /\ answered' = answered /\ put' = [w \in Writers |-> NoPut]
    BY <1>6, <2>1 DEF PowerLoss
  <2>3. \A x \in Writers : ~Past(x)'
    BY <2>2 DEF Past, NoPut
  <2>4. QED
    BY <1>0, <2>2, <2>3
<1>7. CASE UNCHANGED vars
  <2>1. UNCHANGED <<final, answered, tmp, put>>
    BY <1>7 DEF vars
  <2>2. QED
    BY <1>0, <2>1 DEF Past
<1>8. QED
  BY <1>1, <1>2, <1>3, <1>4, <1>5, <1>6, <1>7 DEF Next

(* Once a call has answered that the block is stored, or finds its own     *)
(* temporary file gone, there is a block under the address, unless the     *)
(* disk lost it.                                                           *)
THEOREM AnsweredStays == Spec => []AnsweredIsPresent
<1>1. Init => PresentInv
  BY DEF Init, PresentInv, Past, NoPut
<1>2. PresentInv => AnsweredIsPresent
  BY DEF PresentInv, Past, AnsweredIsPresent
<1>3. QED
  BY <1>1, <1>2, PresentNext, BackendTypeCorrect, PTL DEF Spec
-----------------------------------------------------------------------------
(* The mapping to the promise, by name.                                    *)
Held == IF final = 0 THEN "none" ELSE IF Torn THEN "torn" ELSE "good"
Busy == {w \in Writers : put[w].pc # "idle"}

LEMMA PromiseStep ==
  ASSUME TypeOK, AloneInv, [Next]_vars
  PROVE  [Promise!Next]_Promise!vars
<1>a. Shape /\ Len(files) \in Nat
  BY TypeSplit DEF Shape
<1>b. ~overlapped => Alone /\ OwnFile
  BY DEF AloneInv
<1>c. ASSUME UNCHANGED <<final, overlapped, cuts>>, Busy' = Busy, final # 0 => files'[final] = files[final]
      PROVE  UNCHANGED Promise!vars
  <2>1. Held' = Held
    BY <1>c DEF Held, Torn
  <2>2. QED
    BY <1>c, <2>1 DEF Promise!vars, Held, Busy
<1> USE PiecesAssumption
<1>1. ASSUME NEW w \in Writers, Begin(w) PROVE [Promise!Next]_Promise!vars
  <2>1. UNCHANGED <<files, final, cuts>> /\ put[w].pc = "idle"
    BY <1>1 DEF Begin
  <2>2. CASE Present
    <3>1. put' = put /\ (overlapped' <=> overlapped)
      BY <1>1, <2>2 DEF Begin
    <3>2. overlapped' = overlapped
      BY <1>1, <2>2, TypeNext DEF TypeOK, Begin
    <3>3. QED
      BY <1>c, <2>1, <3>1, <3>2 DEF Busy
  <2>3. CASE ~Present
    <3>1. final = 0 /\ put' = [put EXCEPT ![w].pc = "open"]
      BY <1>1, <2>3 DEF Begin, Present
    <3>2. overlapped' = (overlapped \/ Busy # {})
      BY <1>1, <2>3 DEF Begin, Busy
    <3>3. Busy' = Busy \cup {w} /\ w \notin Busy
      BY <1>a, <2>1, <3>1 DEF Busy, Shape
    <3>4. Held = "none" /\ Held' = Held
      BY <2>1, <3>1 DEF Held
    <3>5. Promise!Call(w)
      BY <2>1, <3>2, <3>3, <3>4 DEF Promise!Call, Held, Busy
    <3>6. QED
      BY <3>5 DEF Promise!Next
  <2>4. QED
    BY <2>2, <2>3
<1>2. ASSUME NEW w \in Writers, Open(w) PROVE [Promise!Next]_Promise!vars
  <2> DEFINE j == IF tmp = 0 THEN Len(files) + 1 ELSE tmp
  <2>1. /\ put[w].pc = "open" /\ UNCHANGED <<final, overlapped, cuts>>
        /\ put' = [put EXCEPT ![w] = [pc |-> "write", file |-> j, done |-> 0]]
        /\ files' = IF tmp = 0 THEN Append(files, {}) ELSE [files EXCEPT ![j] = {}]
    BY <1>2 DEF Open
  <2>2. final # 0 => files'[final] = files[final]
    BY <1>a, <2>1 DEF Shape
  <2> HIDE DEF j
  <2>3. Busy' = Busy
    BY <1>a, <2>1 DEF Busy, Shape
  <2>4. QED
    BY <1>c, <2>1, <2>2, <2>3
<1>3. ASSUME NEW w \in Writers, WritePiece(w) PROVE [Promise!Next]_Promise!vars
  <2> DEFINE j == put[w].file
             d == put[w].done
  <2>1. /\ put[w].pc = "write" /\ d < Pieces /\ UNCHANGED <<tmp, final, overlapped, cuts>>
        /\ files' = [files EXCEPT ![j] = @ \cup {d + 1}]
        /\ put' = [put EXCEPT ![w].done = @ + 1]
    BY <1>3 DEF WritePiece
  <2>2. j \in 1 .. Len(files) /\ d + 1 \in Whole
    BY <1>a, <2>1 DEF Shape, Whole
  <2>3. Busy' = Busy /\ w \in Busy
    BY <1>a, <2>1 DEF Busy, Shape
  <2>4. CASE final # j
    <3>1. final # 0 => files'[final] = files[final]
      BY <1>a, <2>1, <2>2, <2>4 DEF Shape
    <3>2. QED
      BY <1>c, <2>1, <2>3, <3>1
  <2>5. CASE final = j
    <3>1. overlapped
      BY <1>a, <1>b, <2>1, <2>2, <2>5 DEF OwnFile, Shape
    <3>2. final # 0 /\ files'[final] = files[final] \cup {d + 1}
      BY <1>a, <2>1, <2>2, <2>5 DEF Shape
    <3>3. CASE ~Torn
      <4>1. files'[final] = files[final]
        BY <2>2, <3>2, <3>3 DEF Torn, Whole
      <4>2. QED
        BY <1>c, <2>1, <2>3, <4>1
    <3>4. CASE Torn /\ ~Torn'
      <4>1. Held = "torn" /\ Held' = "good"
        BY <2>1, <3>2, <3>4 DEF Held
      <4>2. Promise!Mends
        BY <2>1, <2>3, <3>1, <4>1 DEF Promise!Mends, Held, Busy
      <4>3. QED
        BY <4>2 DEF Promise!Next
    <3>5. CASE Torn /\ Torn'
      <4>1. Held' = Held
        BY <2>1, <3>2, <3>5 DEF Held
      <4>2. UNCHANGED Promise!vars
        BY <2>1, <2>3, <4>1 DEF Promise!vars, Held, Busy
      <4>3. QED
        BY <4>2
    <3>6. QED
      BY <3>3, <3>4, <3>5
  <2>6. QED
    BY <2>4, <2>5
<1>4. ASSUME NEW w \in Writers, Close(w) PROVE [Promise!Next]_Promise!vars
  <2>1. /\ put[w].pc = "write" /\ UNCHANGED <<files, final, overlapped, cuts>>
        /\ put' = [put EXCEPT ![w] = [pc |-> "rename", file |-> 0, done |-> 0]]
    BY <1>4 DEF Close
  <2>2. Busy' = Busy
    BY <1>a, <2>1 DEF Busy, Shape
  <2>3. QED
    BY <1>c, <2>1, <2>2
<1>d. ASSUME NEW w \in Writers, put[w].pc # "idle", put' = [put EXCEPT ![w] = NoPut]
      PROVE  w \in Busy /\ Busy' = Busy \ {w}
  BY <1>a, <1>d DEF Busy, Shape, NoPut
<1>5. ASSUME NEW w \in Writers, Rename(w) PROVE [Promise!Next]_Promise!vars
  <2>1. /\ put[w].pc = "rename" /\ put' = [put EXCEPT ![w] = NoPut]
        /\ UNCHANGED <<files, overlapped, cuts>>
        /\ tmp # 0 => final' = tmp
        /\ tmp = 0 => final' = final
    BY <1>5 DEF Rename
  <2>2. w \in Busy /\ Busy' = Busy \ {w}
    BY <1>d, <2>1
  <2>3. CASE tmp = 0
    <3>1. overlapped
      BY <1>b, <2>1, <2>3 DEF OwnFile
    <3>2. Held' = Held
      BY <2>1, <2>3 DEF Held, Torn
    <3>3. Promise!Fails(w)
      BY <2>1, <2>2, <3>1, <3>2 DEF Promise!Fails, Held, Busy
    <3>4. QED
      BY <3>3 DEF Promise!Next
  <2>4. CASE tmp # 0
    <3>1. final' # 0
      BY <2>1, <2>4
    <3>2. ~overlapped => ~Torn'
      BY <1>b, <2>1, <2>4 DEF OwnFile, Torn, Whole
    <3>3. Held' = "good" \/ (overlapped /\ Held' = "torn")
      BY <3>1, <3>2 DEF Held
    <3>4. Promise!Takes(w)
      BY <2>1, <2>2, <3>3 DEF Promise!Takes, Held, Busy
    <3>5. QED
      BY <3>4 DEF Promise!Next
  <2>5. QED
    BY <2>3, <2>4
<1>6. ASSUME NEW w \in Writers, Cut(w) PROVE [Promise!Next]_Promise!vars
  <2>1. /\ put[w].pc # "idle" /\ put' = [put EXCEPT ![w] = NoPut]
        /\ cuts' = cuts + 1 /\ UNCHANGED <<files, final, overlapped>>
    BY <1>6 DEF Cut
  <2>2. w \in Busy /\ Busy' = Busy \ {w}
    BY <1>d, <2>1
  <2>3. Held' = Held
    BY <2>1 DEF Held, Torn
  <2>4. Promise!Fails(w)
    BY <2>1, <2>2, <2>3 DEF Promise!Fails, Held, Busy
  <2>5. QED
    BY <2>4 DEF Promise!Next
<1>7. ASSUME NEW i \in 1 .. Len(files), NEW left \in SUBSET files[i], NEW undone \in BOOLEAN,
             PowerLoss(i, left, undone)
      PROVE  [Promise!Next]_Promise!vars
  <2>1. cuts' = cuts + 1 /\ put' = [w \in Writers |-> NoPut] /\ UNCHANGED overlapped
    BY <1>7 DEF PowerLoss
  <2>2. Busy' = {}
    BY <2>1 DEF Busy, NoPut
  <2>3. Held' \in {"none", "good", "torn"}
    BY DEF Held
  <2>4. Promise!Fault
    BY <2>1, <2>2, <2>3 DEF Promise!Fault, Held, Busy
  <2>5. QED
    BY <2>4 DEF Promise!Next
<1>8. CASE UNCHANGED vars
  <2>1. UNCHANGED <<files, final, overlapped, cuts, put>>
    BY <1>8 DEF vars
  <2>2. QED
    BY <1>c, <2>1 DEF Busy
<1>9. QED
  BY <1>1, <1>2, <1>3, <1>4, <1>5, <1>6, <1>7, <1>8 DEF Next

(* The directory is the backend the block store wants: os.Stat, the        *)
(* writes and the rename of a Put amount to one step of BackendPromise.    *)
THEOREM BackendKeepsPromise == Spec => KeepsPromise
<1>1. Init => Promise!Init
  <2> SUFFICES ASSUME Init PROVE Promise!Init
    OBVIOUS
  <2>1. Held = "none" /\ Busy = {} /\ overlapped = FALSE /\ cuts = 0
    BY DEF Init, Held, Busy, NoPut
  <2>2. QED
    BY <2>1 DEF Promise!Init, Held, Busy
<1>2. TypeOK /\ AloneInv /\ [Next]_vars => [Promise!Next]_Promise!vars
  BY PromiseStep
<1>3. QED
  BY <1>1, <1>2, AloneInit, AloneNext, BackendTypeCorrect, PTL DEF Spec, KeepsPromise, Promise!Spec
=============================================================================
