----------------------------- MODULE FuzzProofs -----------------------------
(***************************************************************************)
(* Theorems about the fuzzing loop, for every corpus, target, segment      *)
(* layout and number of runs.                                              *)
(***************************************************************************)
EXTENDS Fuzz, FiniteSetTheorems, TLAPS

(* Where a run has its input file. *)
InRun == {"mutate", "pop", "run"}

(* A file is locked when it has been the input of a run, and the input of a *)
(* run is locked, while no stray write has hit a lock; before the first     *)
(* mutation the history is empty.                                           *)
LockInv ==
    /\ runs_of \in [Corpus -> Nat]
    /\ ~stray => \A f \in Corpus : /\ runs_of[f] \in {0, 1}
                                   /\ f \in locked <=> runs_of[f] = 1
    /\ pc \in InRun => input \in Corpus /\ (~stray => input \in locked)
    /\ pc = "get" => hist = Empty /\ base = data[Target]

(* Each locked file used up a run, and so does the file still to be found.  *)
CountInv ==
    ~stray => IF pc = "get" THEN Cardinality(locked) + runs < Runs
                            ELSE Cardinality(locked) + runs <= Runs

Inv == TypeOK /\ LockInv /\ HistoryUndoes /\ OneRunPerFile /\ CountInv

-----------------------------------------------------------------------------
(* The operators. *)

(* Undoing an empty history changes nothing. *)
LEMMA UndoneEmpty ==
    ASSUME NEW S, NEW image \in [S -> Byte]
    PROVE  Undone(image, Empty) = image
BY DEF Undone, Empty

(* Undoing keeps an image an image. *)
LEMMA UndoneType ==
    ASSUME NEW S, NEW image \in [S -> Byte], NEW h, \A p \in DOMAIN h : h[p] \in Byte
    PROVE  Undone(image, h) \in [S -> Byte]
BY DEF Undone

(* One more mutation and one more entry of the history, if there was none   *)
(* for the position, undo to the same image as before.                      *)
LEMMA UndoneMutation ==
    ASSUME NEW p \in DOMAIN data[Target], NEW v,
           data[Target] = [q \in DOMAIN data[Target] |-> data[Target][q]]
    PROVE  Undone([data[Target] EXCEPT ![p] = v], Remembered(p)) = Undone(data[Target], hist)
<1> DEFINE image == data[Target]
           h == Remembered(p)
           mutated == [image EXCEPT ![p] = v]
<1>1. DOMAIN mutated = DOMAIN image
  OBVIOUS
<1>2. ASSUME NEW q \in DOMAIN image
      PROVE  (IF q \in DOMAIN h THEN h[q] ELSE mutated[q])
                = (IF q \in DOMAIN hist THEN hist[q] ELSE image[q])
  <2>1. CASE p \in DOMAIN hist
    BY <2>1 DEF Remembered
  <2>2. CASE p \notin DOMAIN hist
    <3>1. /\ DOMAIN h = DOMAIN hist \cup {p}
          /\ \A r \in DOMAIN h : h[r] = IF r = p THEN image[p] ELSE hist[r]
      BY <2>2 DEF Remembered, RememberedLatest
    <3> QED
      BY <2>2, <3>1
  <2> QED
    BY <2>1, <2>2
<1> QED
  BY <1>1, <1>2 DEF Undone

(* The positions that PushMutate can draw are positions of the target. *)
LEMMA DrawnPosition ==
    ASSUME NEW s \in 0 .. Len(SegSizes[Target]) - 1, NEW b \in 0 .. SegSizes[Target][s + 1] - 1
    PROVE  <<s, b>> \in Positions(Target)
BY DEF Positions

LEMMA CorpusFinite ==
    ASSUME NEW S \in SUBSET Corpus
    PROVE  IsFiniteSet(S) /\ Cardinality(S) \in Nat
BY FuzzAssumption, FS_Subset, FS_CardinalityType

-----------------------------------------------------------------------------
LEMMA InitInv == Init => Inv
<1> SUFFICES ASSUME Init PROVE Inv
  OBVIOUS
<1>1. TypeOK
  <2>1. stray \in BOOLEAN
    BY Zenon DEF Init
  <2>2. runs \in 0 .. Runs /\ nbytes \in 0 .. MaxMutations
    BY FuzzAssumption DEF Init
  <2> QED
    BY FuzzAssumption, <2>1, <2>2 DEF Init, TypeOK, Files, Empty
<1>2. LockInv /\ HistoryUndoes /\ OneRunPerFile
  BY DEF Init, LockInv, InRun, HistoryUndoes, OneRunPerFile
<1>3. CountInv
  BY FS_EmptySet, FuzzAssumption DEF Init, CountInv
<1> QED
  BY <1>1, <1>2, <1>3 DEF Inv

(* A step that only moves control, and not into the search for a file. *)
LEMMA GoToInv ==
    ASSUME Inv, NEW place \in {"loop", "pop"} \cup Ended, GoTo(place),
           place = "pop" => pc \in InRun
    PROVE  Inv'
<1> USE DEF GoTo
<1>1. pc' # "get" /\ pc' # "mutate" /\ pc' # "run" /\ (pc' = "pop" => pc \in InRun)
  BY DEF Ended
<1>2. TypeOK'
  BY DEF Inv, TypeOK
<1>3. LockInv'
  BY <1>1 DEF Inv, LockInv, InRun
<1>4. HistoryUndoes' /\ OneRunPerFile'
  BY <1>1 DEF Inv, HistoryUndoes, OneRunPerFile, Undone, InRun
<1>5. CountInv'
  <2>1. Cardinality(locked) \in Nat /\ runs \in Nat /\ Runs \in Nat
    BY CorpusFinite, FuzzAssumption DEF Inv, TypeOK
  <2> QED
    BY <1>1, <2>1 DEF Inv, CountInv
<1> QED
  BY <1>2, <1>3, <1>4, <1>5 DEF Inv

LEMMA BeginRunInv == Inv /\ BeginRun => Inv'
<1> SUFFICES ASSUME Inv, BeginRun PROVE Inv'
  OBVIOUS
<1>1. CASE runs = 0
  BY <1>1, GoToInv DEF BeginRun, Ended
<1>2. CASE runs # 0
  <2>1. /\ pc = "loop" /\ pc' = "get" /\ runs' = runs - 1 /\ hist' = Empty /\ base' = data[Target]
        /\ UNCHANGED <<data, locked, input, nbytes, stray, runs_of>>
    BY <1>2 DEF BeginRun
  <2>2. Cardinality(locked) \in Nat /\ runs \in Nat /\ Runs \in Nat /\ runs <= Runs
    BY CorpusFinite, FuzzAssumption DEF Inv, TypeOK
  <2>3. TypeOK'
    BY <1>2, <2>1, <2>2 DEF Inv, TypeOK, Empty
  <2>4. LockInv'
    BY <2>1 DEF Inv, LockInv, InRun
  <2>5. HistoryUndoes' /\ OneRunPerFile'
    BY <2>1 DEF Inv, HistoryUndoes, OneRunPerFile
  <2>6. CountInv'
    BY <1>2, <2>1, <2>2 DEF Inv, CountInv
  <2> QED
    BY <2>3, <2>4, <2>5, <2>6 DEF Inv
<1> QED
  BY <1>1, <1>2

LEMMA GetFileInv == Inv /\ GetFile => Inv'
<1> SUFFICES ASSUME Inv, GetFile PROVE Inv'
  OBVIOUS
<1>1. CASE Corpus = {}
  BY <1>1, GoToInv DEF GetFile, Ended
<1>2. CASE Corpus # {}
  <2>1. PICK f \in Free, n \in 0 .. MaxMutations :
           /\ input' = f /\ locked' = locked \cup {f}
           /\ runs_of' = [runs_of EXCEPT ![f] = @ + 1]
           /\ nbytes' = n /\ pc' = "mutate" /\ UNCHANGED <<data, runs, hist, stray, base>>
    BY <1>2 DEF GetFile
  <2>2. pc = "get" /\ f \in Corpus /\ f \notin locked /\ f \in Files
    BY <2>1 DEF GetFile, Free, Files
  <2>3. TypeOK'
    BY <2>1, <2>2 DEF Inv, TypeOK
  <2>4. /\ runs_of' \in [Corpus -> Nat]
        /\ ~stray => runs_of[f] = 0 /\ runs_of' = [runs_of EXCEPT ![f] = 1]
    <3>1. runs_of \in [Corpus -> Nat] /\ runs_of' \in [Corpus -> Nat]
      BY <2>1, <2>2 DEF Inv, LockInv
    <3>2. ASSUME ~stray PROVE runs_of[f] = 0 /\ runs_of[f] + 1 = 1
      <4>1. LockInv
        BY DEF Inv
      <4>2. \A g \in Corpus : runs_of[g] \in {0, 1} /\ (g \in locked <=> runs_of[g] = 1)
        BY <3>2, <4>1, Zenon DEF LockInv
      <4>3. runs_of[f] \in {0, 1} /\ runs_of[f] # 1
        BY <2>2, <4>2
      <4> QED
        BY <4>3
    <3> QED
      BY <2>1, <3>1, <3>2
  <2>5. LockInv'
    BY <2>1, <2>2, <2>4 DEF Inv, LockInv, InRun
  <2>6. HistoryUndoes'
    <3>1. data[Target] \in [Positions(Target) -> Byte]
      BY DEF Inv, TypeOK, Files
    <3>2. Undone(data[Target], Empty) = data[Target]
      BY <3>1, UndoneEmpty
    <3> QED
      BY <2>1, <2>2, <3>2 DEF Inv, LockInv, HistoryUndoes
  <2>7. OneRunPerFile'
    BY <2>1, <2>2, <2>4 DEF Inv, LockInv, OneRunPerFile
  <2>8. CountInv'
    <3>1. IsFiniteSet(locked) /\ Cardinality(locked) \in Nat /\ runs \in Nat /\ Runs \in Nat
      BY CorpusFinite, FuzzAssumption DEF Inv, TypeOK
    <3>2. Cardinality(locked') = Cardinality(locked) + 1
      BY <2>1, <2>2, <3>1, FS_AddElement
    <3> QED
      BY <2>1, <2>2, <3>1, <3>2 DEF Inv, CountInv
  <2> QED
    BY <2>3, <2>5, <2>6, <2>7, <2>8 DEF Inv
<1> QED
  BY <1>1, <1>2

LEMMA MutateInv ==
    ASSUME Inv, pc = "mutate", nbytes > 0, NEW p \in Positions(Target), NEW v \in Rands,
           Mutate(p, v)
    PROVE  Inv'
<1>1. /\ hist' = Remembered(p) /\ data' = [data EXCEPT ![Target][p] = v] /\ nbytes' = nbytes - 1
      /\ UNCHANGED <<pc, locked, runs, input, stray, base, runs_of>>
  BY DEF Mutate
<1>2. Target \in Files /\ Target \notin Corpus /\ v \in Byte /\ MaxMutations \in Nat
  BY FuzzAssumption DEF Files
<1>3. data[Target] \in [Positions(Target) -> Byte] /\ DOMAIN data = Files
  BY <1>2 DEF Inv, TypeOK
<1>4. data'[Target] = [data[Target] EXCEPT ![p] = v] /\ DOMAIN data' = Files
      /\ \A f \in Corpus : data'[f] = data[f]
  BY <1>1, <1>2, <1>3 DEF Files
<1>5. TypeOK'
  <2>1. \A f \in Files : data'[f] \in [Positions(f) -> Byte]
    BY <1>2, <1>3, <1>4 DEF Inv, TypeOK, Files
  <2>2. DOMAIN hist' \subseteq Positions(Target) /\ \A q \in DOMAIN hist' : hist'[q] \in Byte
    BY <1>1, <1>3 DEF Inv, TypeOK, Remembered, RememberedLatest
  <2> QED
    BY <1>1, <1>2, <1>4, <2>1, <2>2 DEF Inv, TypeOK
<1>6. LockInv'
  BY <1>1 DEF Inv, LockInv
<1>7. HistoryUndoes'
  <2>1. Undone(data'[Target], hist') = Undone(data[Target], hist)
    BY <1>1, <1>3, <1>4, UndoneMutation
  <2> QED
    BY <1>1, <2>1 DEF Inv, HistoryUndoes
<1>8. OneRunPerFile' /\ CountInv'
  BY <1>1, <1>4 DEF Inv, OneRunPerFile, CountInv
<1> QED
  BY <1>5, <1>6, <1>7, <1>8 DEF Inv

LEMMA PushMutateInv == Inv /\ PushMutate => Inv'
<1> SUFFICES ASSUME Inv, PushMutate PROVE Inv'
  OBVIOUS
<1>1. CASE GoTo("crashed")
  BY <1>1, GoToInv DEF Ended
<1>2. ASSUME NEW s \in 0 .. Len(SegSizes[Target]) - 1, NEW b \in 0 .. SegSizes[Target][s + 1] - 1,
             NEW v \in Rands, Mutate(<<s, b>>, v)
      PROVE  Inv'
  BY <1>2, DrawnPosition, MutateInv DEF PushMutate
<1> QED
  BY <1>1, <1>2 DEF PushMutate

LEMMA PopMutateInv == Inv /\ PopMutate => Inv'
<1> SUFFICES ASSUME Inv, PopMutate PROVE Inv'
  OBVIOUS
<1>1. CASE GoTo("crashed")
  BY <1>1, GoToInv DEF Ended
<1>2. CASE ~GoTo("crashed")
  <2>1. /\ pc = "pop" /\ pc' = "run" /\ UNCHANGED <<runs, input, nbytes, hist, base, runs_of>>
        /\ RestoreInside \/ RestoreOutside
    BY <1>2 DEF PopMutate
  <2>2. input \in Corpus /\ input \in Files /\ Target \in Files
        /\ Target # input /\ DOMAIN data = Files
    BY <2>1, FuzzAssumption DEF Inv, TypeOK, LockInv, InRun, Files
  <2>3. /\ Restored[input] = Undone(data[input], hist) /\ DOMAIN Restored = Files
        /\ \A f \in Files : f # input => Restored[f] = data[f]
    BY <2>2 DEF Restored
  <2>4. \A f \in Files : Restored[f] \in [Positions(f) -> Byte]
    <3>1. Restored[input] \in [Positions(input) -> Byte]
      BY <2>2, <2>3, UndoneType DEF Inv, TypeOK
    <3> QED
      BY <2>3, <3>1 DEF Inv, TypeOK
  <2>5. CASE RestoreInside
    <3>1. data' = Restored /\ locked' = locked /\ stray' = stray
      BY <2>5 DEF RestoreInside
    <3>2. TypeOK'
      BY <2>1, <2>3, <2>4, <3>1 DEF Inv, TypeOK
    <3>3. LockInv'
      BY <2>1, <3>1 DEF Inv, LockInv, InRun
    <3>4. HistoryUndoes'
      BY <2>1, <2>2, <2>3, <3>1 DEF Inv, HistoryUndoes
    <3>5. OneRunPerFile'
      BY <2>1, <2>2, <2>3, <3>1 DEF Inv, LockInv, InRun, OneRunPerFile, Files
    <3>6. CountInv'
      BY <2>1, <3>1 DEF Inv, CountInv
    <3> QED
      BY <3>2, <3>3, <3>4, <3>5, <3>6 DEF Inv
  <2>6. CASE RestoreOutside
    <3>1. stray' = TRUE /\ locked' \subseteq Corpus
      BY <2>6 DEF RestoreOutside
    <3>2. PICK hit \in SUBSET Places : \E bytes \in [hit -> {hist[p] : p \in Outside}] :
                                         data' = Scribbled(Restored, bytes)
      BY <2>6 DEF RestoreOutside
    <3>3. PICK bytes \in [hit -> {hist[p] : p \in Outside}] : data' = Scribbled(Restored, bytes)
      BY <3>2
    <3>4. \A q \in DOMAIN bytes : bytes[q] \in Byte
      BY <3>3 DEF Outside, Inv, TypeOK
    <3>5. DOMAIN data' = Files /\ \A f \in Files : data'[f] \in [Positions(f) -> Byte]
      BY <2>4, <3>3, <3>4 DEF Scribbled
    <3>6. TypeOK'
      BY <2>1, <3>1, <3>5 DEF Inv, TypeOK
    <3> QED
      BY <2>1, <2>2, <3>1, <3>6 DEF Inv, LockInv, InRun, HistoryUndoes, OneRunPerFile, CountInv
  <2> QED
    BY <2>1, <2>5, <2>6
<1> QED
  BY <1>1, <1>2

LEMMA NextInv == Inv /\ [Next]_vars => Inv'
<1> SUFFICES ASSUME Inv, [Next]_vars PROVE Inv'
  OBVIOUS
<1>1. CASE ReadFiles
  BY <1>1, GoToInv DEF ReadFiles, Ended
<1>2. CASE Build
  BY <1>2, GoToInv DEF Build, Ended, InRun
<1>3. CASE Run
  BY <1>3, GoToInv DEF Run, Ended
<1>4. CASE UNCHANGED vars
  BY <1>4 DEF vars, Inv, TypeOK, LockInv, HistoryUndoes, Undone, OneRunPerFile, CountInv
<1> QED
  BY <1>1, <1>2, <1>3, <1>4, BeginRunInv, GetFileInv, PushMutateInv, PopMutateInv DEF Next, Loop

LEMMA Invariance == Spec => []Inv
BY InitInv, NextInv, PTL DEF Spec

-----------------------------------------------------------------------------
(* The variables of main() and dispatch() keep their types: every image     *)
(* keeps its positions and holds bytes.                                     *)
THEOREM TypeCorrect == Spec => []TypeOK
<1>1. Inv => TypeOK
  BY DEF Inv
<1> QED
  BY <1>1, Invariance, PTL

(* What push_mutate remembers restores the image of the run's beginning,    *)
(* for any number of mutations of the same bytes.                           *)
THEOREM MutationsUndone == Spec => []HistoryUndoes
<1>1. Inv => HistoryUndoes
  BY DEF Inv
<1> QED
  BY <1>1, Invariance, PTL

(* get_random_free_file gives no file to two runs, and pop_mutate touches   *)
(* no file that was not given to a run, unless it writes outside its file.  *)
THEOREM FilesRunOnce == Spec => []OneRunPerFile
<1>1. Inv => OneRunPerFile
  BY DEF Inv
<1> QED
  BY <1>1, Invariance, PTL

(* With a file for each run the search of get_random_free_file never goes   *)
(* round for ever: whenever it begins there is a file it can lock.  This is *)
(* what the termination of dispatch() rests on; it holds until a stray      *)
(* write of pop_mutate hits a lock.                                         *)
SearchSucceeds == pc = "get" /\ ~stray /\ Runs <= Cardinality(Corpus) => Free # {}

(* The search for a free file (get_random_free_file) can always succeed.    *)
THEOREM FreeFileExists == Spec => []SearchSucceeds
<1>1. Inv => SearchSucceeds
  <2> SUFFICES ASSUME Inv, pc = "get", ~stray, Runs <= Cardinality(Corpus), Free = {} PROVE FALSE
    BY DEF SearchSucceeds
  <2>1. locked = Corpus
    BY DEF Inv, TypeOK, Free
  <2>2. Cardinality(Corpus) \in Nat /\ runs \in Nat /\ Runs \in Nat
    BY CorpusFinite, FuzzAssumption DEF Inv, TypeOK
  <2> QED
    BY <2>1, <2>2 DEF Inv, CountInv
<1> QED
  BY <1>1, Invariance, PTL
=============================================================================
