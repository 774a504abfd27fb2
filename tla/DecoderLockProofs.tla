-------------------------- MODULE DecoderLockProofs --------------------------
(* Safety of the decoder lock for any set of contexts and any bounds.      *)
EXTENDS DecoderLock, TLAPS

(* What the local copies of the word are known to hold, and who owns the   *)
(* word, at each step of the macros.                                       *)
LocalCopies ==
  \A c \in Contexts :
     /\ pc[c] = "cas" => ~ lockVal[c].held /\ ~ lockVal[c].cont
     /\ pc[c] = "mark" => lockVal[c].held

WordOwned ==
  \A c \in Contexts :
     /\ pc[c] \in {"have", "clear"} => lock.ctx = c /\ lock.held
     /\ pc[c] = "clearCont" => lock = ContWord(HeldWord(c))

IInv == TypeOK /\ LocalCopies /\ WordOwned

(* The words the macros build are words.                                   *)
LEMMA WordFacts ==
  ASSUME NEW c \in Contexts \cup {NoCtx}, NEW w \in Word
  PROVE  /\ FreeWord(c) \in Word
         /\ HeldWord(c) \in Word
         /\ ContWord(w) \in Word
         /\ ContWord(w).ctx = w.ctx
         /\ ContWord(w).held = w.held
         /\ ContWord(w).cont
BY DEF Word, FreeWord, HeldWord, ContWord

(* A context in the critical section is the one the word names.            *)
LEMMA HolderOwns ==
  ASSUME WordOwned, NEW c \in Contexts, pc[c] \in Holding
  PROVE  lock.ctx = c /\ lock.held
BY DEF WordOwned, Holding, ContWord, HeldWord

(* The initial word is free and no context has entered a macro.            *)
LEMMA InitIInv == Init => IInv
BY LockAssumption, WordFacts
   DEF Init, IInv, TypeOK, LocalCopies, WordOwned, FreeWord, Word, Grabs, PCs,
       Locking, Unlocking

(* Every step of the lock preserves the inductive invariant.               *)
LEMMA StepIInv == IInv /\ [Next]_vars => IInv'
<1> SUFFICES ASSUME IInv, [Next]_vars PROVE IInv'
  OBVIOUS
<1> USE DEF IInv, LocalUnchanged, Goto
<1>u. CASE UNCHANGED vars
  BY <1>u DEF vars, TypeOK, LocalCopies, WordOwned
<1>n. CASE Next
  <2> PICK c \in Contexts : \/ Grab(c) \/ StartRelease(c) \/ MacroStep(c)
                            \/ ContextGone(c) \/ ContextCreated(c)
    BY <1>n DEF Next
  <2>t. /\ lock \in Word /\ pc \in [Contexts -> PCs]
        /\ lockVal \in [Contexts -> Word] /\ futexVal \in [Contexts -> Word]
        /\ (lock.cont => lock.held)
    BY DEF TypeOK
  <2>w. FreeWord(NoCtx) \in Word /\ <<NoCtx, 0>> \in Grabs
    BY DEF FreeWord, Word, Grabs
  <2>1. CASE Grab(c)
    <3>1. TypeOK'
      BY <2>1, LockAssumption DEF Grab, TypeOK, PCs, Locking
    <3>2. LocalCopies' /\ WordOwned'
      BY <2>1, <2>t DEF Grab, LocalCopies, WordOwned
    <3> QED BY <3>1, <3>2
  <2>2. CASE StartRelease(c)
    <3>1. TypeOK'
      BY <2>2, <2>w DEF StartRelease, TypeOK, PCs, Unlocking
    <3>2. LocalCopies' /\ WordOwned'
      BY <2>2, <2>t DEF StartRelease, LocalCopies, WordOwned
    <3> QED BY <3>1, <3>2
  <2>3. CASE LoadWord(c)
    <3>1. FreeWord(lock.ctx) \in Word /\ ~ FreeWord(lock.ctx).held
          /\ ~ FreeWord(lock.ctx).cont
      BY <2>t DEF FreeWord, Word
    <3>2. TypeOK'
      BY <2>3, <3>1 DEF LoadWord, TypeOK, PCs, Locking
    <3>3. LocalCopies' /\ WordOwned'
      BY <2>3, <2>t, <3>1 DEF LoadWord, LocalCopies, WordOwned
    <3> QED BY <3>2, <3>3
  <2>4. CASE CasAcquire(c)
    <3>1. HeldWord(c) \in Word /\ HeldWord(c).ctx = c /\ HeldWord(c).held
          /\ ~ HeldWord(c).cont
      BY DEF HeldWord, Word
    <3>2. ~ lock.held
      BY <2>4 DEF CasAcquire, LocalCopies
    <3>6. FreeWord(NoCtx) \in Word /\ ~ FreeWord(NoCtx).held
          /\ ~ FreeWord(NoCtx).cont
      BY DEF FreeWord, Word
    <3>3. TypeOK'
      BY <2>4, <3>1, <3>6 DEF CasAcquire, LocalsGone, TypeOK, PCs, Grabs
    <3>4. \A d \in Contexts : pc[d] \notin Holding
      BY <3>2, HolderOwns
    <3>5. LocalCopies' /\ WordOwned'
      BY <2>4, <2>t, <3>1, <3>4, <3>6
         DEF CasAcquire, LocalsGone, LocalCopies, WordOwned, Holding
    <3> QED BY <3>3, <3>5
  <2>5. CASE CasMiss(c)
    <3>1. TypeOK'
      BY <2>5 DEF CasMiss, TypeOK, PCs, Locking
    <3>2. LocalCopies' /\ WordOwned'
      BY <2>5, <2>t DEF CasMiss, LocalCopies, WordOwned
    <3> QED BY <3>1, <3>2
  <2>6. CASE Reload(c)
    <3>1. TypeOK'
      BY <2>6, <2>w DEF Reload, TypeOK, PCs, Locking
    <3>2. LocalCopies' /\ WordOwned'
      BY <2>6, <2>t DEF Reload, LocalCopies, WordOwned
    <3> QED BY <3>1, <3>2
  <2>7. CASE MarkContended(c)
    <3>1. ContWord(lockVal[c]) \in Word
      BY <2>t DEF ContWord, Word
    <3>2. /\ ContWord(lock) \in Word /\ ContWord(lock).ctx = lock.ctx
          /\ ContWord(lock).held = lock.held
      BY <2>t, WordFacts
    <3>3. lock' = lock \/ (lock' = ContWord(lock) /\ lock.held)
      BY <2>7 DEF MarkContended, LocalCopies
    <3>4. TypeOK'
      BY <2>7, <3>1, <3>2, <3>3 DEF MarkContended, TypeOK, PCs, Locking
    <3>5. \A d \in Contexts : lock = ContWord(HeldWord(d)) => lock' = lock
      BY <3>3, <2>t DEF ContWord, HeldWord, Word
    <3>6. LocalCopies' /\ WordOwned'
      BY <2>7, <2>t, <3>2, <3>3, <3>5 DEF MarkContended, LocalCopies, WordOwned
    <3> QED BY <3>4, <3>6
  <2>8. CASE Remark(c)
    <3>1. TypeOK'
      BY <2>8, <2>w DEF Remark, LocalsGone, TypeOK, PCs, Locking
    <3>2. LocalCopies' /\ WordOwned'
      BY <2>8, <2>t DEF Remark, LocalsGone, LocalCopies, WordOwned
    <3> QED BY <3>1, <3>2
  <2>9. CASE FutexWait(c)
    <3>1. TypeOK'
      BY <2>9, <2>w DEF FutexWait, LocalsGone, TypeOK, PCs, Locking
    <3>2. LocalCopies' /\ WordOwned'
      BY <2>9, <2>t DEF FutexWait, LocalsGone, LocalCopies, WordOwned
    <3> QED BY <3>1, <3>2
  <2>10. CASE FutexRecheck(c)
    <3>1. TypeOK'
      BY <2>10, <2>w DEF FutexRecheck, LocalsGone, TypeOK, PCs, Locking
    <3>2. LocalCopies' /\ WordOwned'
      BY <2>10, <2>t DEF FutexRecheck, LocalsGone, LocalCopies, WordOwned
    <3> QED BY <3>1, <3>2
  <2>11. CASE FutexTimeout(c)
    <3>1. FreeWord(NoCtx) \in Word
      BY DEF FreeWord, Word
    <3>2. TypeOK'
      BY <2>11, <3>1 DEF FutexTimeout, LocalsGone, TypeOK, PCs, Locking
    <3>3. LocalCopies' /\ WordOwned'
      BY <2>11, <2>t DEF FutexTimeout, LocalsGone, LocalCopies, WordOwned
    <3> QED BY <3>2, <3>3
  <2>12. CASE GuardRead(c)
    <3>1. TypeOK'
      BY <2>12 DEF GuardRead, TypeOK, PCs, Unlocking
    <3>2. LocalCopies' /\ WordOwned'
      BY <2>12, <2>t DEF GuardRead, LocalCopies, WordOwned
    <3> QED BY <3>1, <3>2
  <2>13. CASE Clear(c)
    <3>1. FreeWord(c) \in Word /\ ~ FreeWord(c).cont
      BY DEF FreeWord, Word
    <3>2. TypeOK'
      BY <2>13, <3>1 DEF Clear, TypeOK, PCs, Unlocking
    <3>3. lock.ctx = c /\ lock.held
      BY <2>13 DEF Clear, WordOwned
    <3>4. lock = HeldWord(c) \/ lock = ContWord(HeldWord(c))
      <4>1. lock = [ctx |-> c, held |-> TRUE, cont |-> lock.cont]
        BY <3>3, <2>t DEF Word
      <4>2. lock.cont = TRUE \/ lock.cont = FALSE
        BY <2>t DEF Word
      <4>3. /\ HeldWord(c) = [ctx |-> c, held |-> TRUE, cont |-> FALSE]
            /\ ContWord(HeldWord(c)) = [ctx |-> c, held |-> TRUE, cont |-> TRUE]
        BY DEF HeldWord, ContWord
      <4> QED
        BY <4>1, <4>2, <4>3
    <3>5. \A d \in Contexts : d # c => pc[d] \notin Holding
      BY <3>3, HolderOwns
    <3>6. LocalCopies' /\ WordOwned'
      BY <2>13, <2>t, <3>4, <3>5 DEF Clear, LocalCopies, WordOwned, Holding
    <3> QED BY <3>2, <3>6
  <2>14. CASE ClearContended(c)
    <3>1. FreeWord(c) \in Word /\ ~ FreeWord(c).cont
      BY DEF FreeWord, Word
    <3>2. TypeOK'
      BY <2>14, <3>1 DEF ClearContended, TypeOK, PCs, Unlocking
    <3>3. lock.ctx = c
      BY <2>14 DEF ClearContended, WordOwned, ContWord, HeldWord
    <3>4. \A d \in Contexts : d # c => pc[d] \notin Holding
      BY <3>3, HolderOwns
    <3>5. LocalCopies' /\ WordOwned'
      BY <2>14, <2>t, <3>4 DEF ClearContended, LocalCopies, WordOwned, Holding
    <3> QED BY <3>2, <3>5
  <2>15. CASE FutexWake(c)
    <3>1. TypeOK'
      BY <2>15 DEF FutexWake, TypeOK, PCs, Unlocking, Asleep
    <3>2. LocalCopies' /\ WordOwned'
      BY <2>15, <2>t DEF FutexWake, LocalCopies, WordOwned
    <3> QED BY <3>1, <3>2
  <2>16. CASE ContextGone(c)
    <3>1. FreeWord(NoCtx) \in Word /\ ~ FreeWord(NoCtx).cont
      BY DEF FreeWord, Word
    <3>2. TypeOK'
      BY <2>16, <3>1 DEF ContextGone, Forget, LocalsGone, TypeOK, PCs, Asleep, Grabs
    <3>3. \A d \in Contexts : d # c /\ pc[d] \in Holding => lock' = lock
      BY <2>16, HolderOwns DEF ContextGone
    <3>4. LocalCopies' /\ WordOwned'
      BY <2>16, <2>t, <3>3 DEF ContextGone, Forget, LocalsGone, LocalCopies, WordOwned, Holding
    <3> QED BY <3>2, <3>4
  <2>17. CASE ContextCreated(c)
    <3>1. TypeOK'
      BY <2>17, LockAssumption DEF ContextCreated, TypeOK, PCs
    <3>2. LocalCopies' /\ WordOwned'
      BY <2>17, <2>t DEF ContextCreated, LocalCopies, WordOwned
    <3> QED BY <3>1, <3>2
  <2> QED
    BY <2>1, <2>2, <2>3, <2>4, <2>5, <2>6, <2>7, <2>8, <2>9, <2>10, <2>11,
       <2>12, <2>13, <2>14, <2>15, <2>16, <2>17 DEF MacroStep
<1> QED
  BY <1>u, <1>n

(* DecoderLock's state is well typed in every behaviour, and a contended   *)
(* word is held: UNICHROME_LOCK can always be taken again.                 *)
THEOREM TypeCorrect == Spec => []TypeOK
<1>1. Init => IInv BY InitIInv
<1>2. IInv /\ [Next]_vars => IInv' BY StepIInv
<1>3. IInv => TypeOK BY DEF IInv
<1> QED BY <1>1, <1>2, <1>3, PTL DEF Spec

(* Two contexts never hold the decoder together, for any number of XvMC    *)
(* contexts, grabs and deaths.                                             *)
THEOREM DecoderExclusive == Spec => []MutualExclusion
<1>1. Init => IInv BY InitIInv
<1>2. IInv /\ [Next]_vars => IInv' BY StepIInv
<1>3. IInv => MutualExclusion
  BY HolderOwns DEF IInv, MutualExclusion
<1> QED BY <1>1, <1>2, <1>3, PTL DEF Spec

-----------------------------------------------------------------------------
(* Every step of the two macros, the futex calls and the death of a        *)
(* context is a step of the abstract lock or changes nothing it can see.   *)
LEMMA StepSimulates ==
  IInv /\ [Next]_vars => [Mutex!MutexNext]_Mutex!mutexVars
<1> SUFFICES ASSUME IInv, [Next]_vars
             PROVE  [Mutex!MutexNext]_Mutex!mutexVars
  OBVIOUS
<1> USE DEF IInv, LocalUnchanged, Goto, Mutex!mutexVars
<1>u. CASE UNCHANGED lock
  BY <1>u
<1>n. CASE Next /\ lock' # lock
  <2> PICK c \in Contexts : \/ Grab(c) \/ StartRelease(c) \/ MacroStep(c)
                            \/ ContextGone(c) \/ ContextCreated(c)
    BY <1>n DEF Next
  <2>0. c # NoCtx /\ lock \in Word
    BY LockAssumption DEF TypeOK
  <2>1. CASE CasAcquire(c)
    <3>1. ~ lock.held /\ lock'.held /\ lock'.ctx = c
      BY <2>1 DEF CasAcquire, LocalCopies, HeldWord
    <3>2. Mutex!Acquire(c)
      BY <3>1 DEF Mutex!Acquire
    <3> QED BY <3>2 DEF Mutex!MutexNext
  <2>2. CASE MarkContended(c)
    <3>1. lock' = ContWord(lock)
      BY <2>2, <1>n DEF MarkContended
    <3>2. lock'.ctx = lock.ctx /\ lock'.held = lock.held
      BY <3>1 DEF ContWord
    <3> QED BY <3>2
  <2>3. CASE Clear(c) \/ ClearContended(c)
    <3>1. lock.held /\ lock.ctx = c
      BY <2>3, HolderOwns DEF Clear, ClearContended, Holding
    <3>2. lock' = FreeWord(c)
      BY <2>3, <1>n DEF Clear, ClearContended
    <3>3. ~ lock'.held /\ lock'.ctx = c
      BY <3>2 DEF FreeWord
    <3>4. Mutex!Release(c)
      BY <3>1, <3>3 DEF Mutex!Release
    <3> QED BY <3>4 DEF Mutex!MutexNext
  <2>4. CASE ContextGone(c)
    <3>1. lock.ctx = c /\ lock' = FreeWord(NoCtx)
      BY <2>4, <1>n DEF ContextGone
    <3>2. ~ lock'.held /\ lock'.ctx = NoCtx
      BY <3>1 DEF FreeWord
    <3>3. Mutex!Vanish(c)
      BY <2>0, <3>1, <3>2 DEF Mutex!Vanish
    <3> QED BY <3>3 DEF Mutex!MutexNext
  <2>5. ~ (Grab(c) \/ StartRelease(c) \/ ContextCreated(c))
    BY <1>n DEF Grab, StartRelease, ContextCreated
  <2>6. ~ (LoadWord(c) \/ CasMiss(c) \/ Reload(c) \/ Remark(c) \/ FutexWait(c)
           \/ FutexRecheck(c) \/ FutexTimeout(c) \/ GuardRead(c)
           \/ FutexWake(c))
    BY <1>n DEF LoadWord, CasMiss, Reload, Remark, FutexWait, FutexRecheck,
                FutexTimeout, GuardRead, FutexWake
  <2> QED BY <2>1, <2>2, <2>3, <2>4, <2>5, <2>6 DEF MacroStep
<1> QED
  BY <1>u, <1>n DEF vars

(* The futex word implements the abstract decoder lock, for every set of   *)
(* contexts: only the holder gives the decoder back, and the word always   *)
(* names the context that had it last.                                     *)
THEOREM LockRefinesMutex == Spec => ImplementsMutex
<1>1. Init => Mutex!MutexInit
  BY DEF Init, FreeWord, Mutex!MutexInit
<1>2. Init => IInv BY InitIInv
<1>3. IInv /\ [Next]_vars => IInv' BY StepIInv
<1>4. IInv /\ [Next]_vars => [Mutex!MutexNext]_Mutex!mutexVars
  BY StepSimulates
<1> QED
  BY <1>1, <1>2, <1>3, <1>4, PTL DEF Spec, ImplementsMutex, Mutex!MutexSpec

-----------------------------------------------------------------------------
(* A word that names a context was written by the latest grab, by that     *)
(* context in its present life, and a held word's context is in the        *)
(* critical section.                                                       *)
WordNamesLastGrab ==
  /\ lock.ctx # NoCtx => /\ lastGrab = <<lock.ctx, life[lock.ctx]>>
                         /\ pc[lock.ctx] # "dead"
  /\ lock.held => lock.ctx # NoCtx /\ pc[lock.ctx] \in Holding \cup {"guard"}

HadInv == WordNamesLastGrab /\ HadLastIsMine

(* Every step keeps what is known of the thread that held the lock last.   *)
LEMMA StepHadInv == IInv /\ HadInv /\ [Next]_vars => HadInv'
<1> SUFFICES ASSUME IInv, HadInv, [Next]_vars PROVE HadInv'
  OBVIOUS
<1> USE DEF IInv, HadInv, LocalUnchanged, Goto
<1>t. /\ lock \in Word /\ pc \in [Contexts -> PCs]
      /\ lockVal \in [Contexts -> Word]
      /\ hadLast \in [Contexts -> BOOLEAN] /\ prior \in [Contexts -> Grabs]
      /\ life \in [Contexts -> Nat] /\ NoCtx \notin Contexts
  BY LockAssumption DEF TypeOK
<1>c. lock.ctx # NoCtx => lock.ctx \in Contexts
  BY <1>t DEF Word
<1>u. CASE UNCHANGED vars
  BY <1>u DEF vars, WordNamesLastGrab, HadLastIsMine
<1>n. CASE Next
  <2> PICK c \in Contexts : \/ Grab(c) \/ StartRelease(c) \/ MacroStep(c)
                            \/ ContextGone(c) \/ ContextCreated(c)
    BY <1>n DEF Next
  <2>1. CASE Grab(c)
    BY <2>1, <1>t, <1>c DEF Grab, WordNamesLastGrab, HadLastIsMine, Holding
  <2>2. CASE StartRelease(c)
    BY <2>2, <1>t, <1>c
       DEF StartRelease, WordNamesLastGrab, HadLastIsMine, Holding
  <2>3. CASE LoadWord(c)
    BY <2>3, <1>t, <1>c DEF LoadWord, WordNamesLastGrab, HadLastIsMine, Holding
  <2>4. CASE CasAcquire(c)
    <3>1. lock'.ctx = c /\ lock'.held
      BY <2>4 DEF CasAcquire, HeldWord
    <3>2. WordNamesLastGrab'
      BY <2>4, <3>1, <1>t DEF CasAcquire, WordNamesLastGrab, Holding
    <3>3. hadLast'[c] => prior'[c] = <<c, life[c]>>
      BY <2>4, <1>t DEF CasAcquire, WordNamesLastGrab
    <3>4. HadLastIsMine'
      BY <2>4, <3>3, <1>t DEF CasAcquire, HadLastIsMine
    <3> QED BY <3>2, <3>4
  <2>5. CASE CasMiss(c)
    BY <2>5, <1>t, <1>c DEF CasMiss, WordNamesLastGrab, HadLastIsMine, Holding
  <2>6. CASE Reload(c)
    <3>1. ~ (lock.held /\ lock.ctx = c)
      BY <2>6, <1>t DEF Reload, WordNamesLastGrab, Holding
    <3>2. pc'[c] # "have"
      BY <2>6, <3>1, <1>t DEF Reload
    <3>3. HadLastIsMine'
      BY <2>6, <3>2, <1>t DEF Reload, HadLastIsMine
    <3>4. WordNamesLastGrab'
      BY <2>6, <1>t, <1>c, <3>1 DEF Reload, WordNamesLastGrab, Holding
    <3> QED BY <3>3, <3>4
  <2>7. CASE MarkContended(c)
    <3>1. lock'.ctx = lock.ctx /\ lock'.held = lock.held
      BY <2>7 DEF MarkContended, ContWord
    <3> QED
      BY <2>7, <3>1, <1>t, <1>c
         DEF MarkContended, WordNamesLastGrab, HadLastIsMine, Holding
  <2>8. CASE Remark(c)
    BY <2>8, <1>t, <1>c DEF Remark, WordNamesLastGrab, HadLastIsMine, Holding
  <2>9. CASE FutexWait(c)
    BY <2>9, <1>t, <1>c DEF FutexWait, WordNamesLastGrab, HadLastIsMine, Holding
  <2>10. CASE FutexRecheck(c)
    BY <2>10, <1>t, <1>c
       DEF FutexRecheck, WordNamesLastGrab, HadLastIsMine, Holding
  <2>11. CASE FutexTimeout(c)
    BY <2>11, <1>t, <1>c
       DEF FutexTimeout, WordNamesLastGrab, HadLastIsMine, Holding
  <2>12. CASE GuardRead(c)
    BY <2>12, <1>t, <1>c DEF GuardRead, WordNamesLastGrab, HadLastIsMine, Holding
  <2>13. CASE Clear(c) \/ ClearContended(c)
    <3>1. lock.held /\ lock.ctx = c
      BY <2>13, HolderOwns DEF Clear, ClearContended, Holding
    <3>2. /\ lock'.ctx = c
          /\ lock'.held => pc'[c] \in Holding
      <4>1. CASE Clear(c)
        BY <4>1, <3>1, <1>t DEF Clear, FreeWord, Holding
      <4>2. CASE ClearContended(c)
        <5>1. lock = ContWord(HeldWord(c))
          BY <4>2 DEF ClearContended, WordOwned
        <5> QED BY <4>2, <5>1 DEF ClearContended, FreeWord
      <4> QED BY <2>13, <4>1, <4>2
    <3>3. pc'[c] \notin {"dead", "have"}
      BY <2>13, <1>t DEF Clear, ClearContended
    <3> QED
      BY <2>13, <3>1, <3>2, <3>3, <1>t
         DEF Clear, ClearContended, WordNamesLastGrab, HadLastIsMine
  <2>14. CASE FutexWake(c)
    BY <2>14, <1>t, <1>c DEF FutexWake, WordNamesLastGrab, HadLastIsMine, Holding
  <2>15. CASE ContextGone(c)
    <3>1. lock'.ctx # c /\ (lock'.ctx # NoCtx => lock' = lock)
          /\ (lock'.held => lock' = lock)
      BY <2>15, <1>t DEF ContextGone, FreeWord
    <3> QED
      BY <2>15, <3>1, <1>t, <1>c
         DEF ContextGone, Forget, WordNamesLastGrab, HadLastIsMine, Holding
  <2>16. CASE ContextCreated(c)
    <3>1. lock.ctx # c
      BY <2>16, <1>t DEF ContextCreated, WordNamesLastGrab
    <3> QED
      BY <2>16, <3>1, <1>t, <1>c
         DEF ContextCreated, WordNamesLastGrab, HadLastIsMine, Holding
  <2> QED
    BY <2>1, <2>2, <2>3, <2>4, <2>5, <2>6, <2>7, <2>8, <2>9, <2>10, <2>11,
       <2>12, <2>13, <2>14, <2>15, <2>16 DEF MacroStep
<1> QED
  BY <1>u, <1>n

(* A context told it had the lock last did hold the decoder just before,   *)
(* in this life: grabDecoder's hadLastLock is never wrong.                 *)
THEOREM HadLastCorrect == Spec => []HadLastIsMine
<1>1. Init => IInv /\ HadInv
  <2>1. Init => HadInv
    BY LockAssumption
       DEF Init, HadInv, WordNamesLastGrab, HadLastIsMine, FreeWord
  <2> QED BY <2>1, InitIInv
<1>2. IInv /\ HadInv /\ [Next]_vars => (IInv /\ HadInv)'
  BY StepIInv, StepHadInv
<1>3. HadInv => HadLastIsMine BY DEF HadInv
<1> QED BY <1>1, <1>2, <1>3, PTL DEF Spec

-----------------------------------------------------------------------------
(* The word a context waits on is held and contended, so that only the     *)
(* slow path of UNICHROME_UNLOCK, which goes on to wake, or the death of   *)
(* its holder makes it another; and lives are counted from 1.              *)
Waiting == {"remark", "remarkMiss", "wait", "asleep"}

WaitsOnHeldWord ==
  \A c \in Contexts :
     /\ pc[c] \in Waiting => futexVal[c].held /\ futexVal[c].cont
     /\ life[c] >= 1

WakeInv == WaitsOnHeldWord /\ NoLostWakeup

(* Who may be about to wake the sleepers.                                  *)
Waker(d) == pc[d] \in {"wake", "dead"} \/ life[d] > 1

(* A step by which no context falls asleep or is forgotten among the woken, *)
(* with no change of the word or of what sleepers wait on, and no waker    *)
(* that stops being one, loses no wake-up.                                 *)
LEMMA QuietStep ==
  ASSUME NoLostWakeup,
         lock' = lock,
         \A d \in Contexts : Waker(d) => Waker(d)',
         \A d \in Contexts : pc'[d] = "asleep" /\ d \notin woken' =>
            \/ lock = futexVal'[d]
            \/ pc[d] = "asleep" /\ d \notin woken /\ futexVal'[d] = futexVal[d]
  PROVE  NoLostWakeup'
BY DEF NoLostWakeup, Waker

(* A waker is there.                                                       *)
LEMMA WakerThere ==
  ASSUME NEW d \in Contexts, Waker(d)' PROVE NoLostWakeup'
BY DEF NoLostWakeup, Waker

(* Every step keeps a wakeup on its way to a thread that sleeps on a free  *)
(* lock.                                                                   *)
LEMMA StepWakeInv == IInv /\ WakeInv /\ [Next]_vars => WakeInv'
<1> SUFFICES ASSUME IInv, WakeInv, [Next]_vars PROVE WakeInv'
  OBVIOUS
<1> USE DEF IInv, WakeInv, LocalUnchanged, Goto
<1>t. /\ lock \in Word /\ pc \in [Contexts -> PCs]
      /\ lockVal \in [Contexts -> Word] /\ futexVal \in [Contexts -> Word]
      /\ life \in [Contexts -> Nat]
  BY DEF TypeOK
<1>u. CASE UNCHANGED vars
  BY <1>u DEF vars, WaitsOnHeldWord, NoLostWakeup
<1>n. CASE Next
  <2> PICK c \in Contexts : \/ Grab(c) \/ StartRelease(c) \/ MacroStep(c)
                            \/ ContextGone(c) \/ ContextCreated(c)
    BY <1>n DEF Next
  <2>1. CASE Grab(c)
    <3>1. WaitsOnHeldWord'
      BY <2>1, <1>t DEF Grab, WaitsOnHeldWord, Waiting
    <3>2. NoLostWakeup'
      BY <2>1, <1>t, QuietStep DEF Grab, Waker
    <3> QED BY <3>1, <3>2
  <2>2. CASE StartRelease(c)
    <3>1. WaitsOnHeldWord'
      BY <2>2, <1>t DEF StartRelease, WaitsOnHeldWord, Waiting
    <3>2. NoLostWakeup'
      BY <2>2, <1>t, QuietStep DEF StartRelease, Waker
    <3> QED BY <3>1, <3>2
  <2>3. CASE LoadWord(c) \/ CasMiss(c) \/ GuardRead(c) \/ Reload(c)
    <3>1. WaitsOnHeldWord'
      BY <2>3, <1>t DEF LoadWord, CasMiss, GuardRead, Reload, WaitsOnHeldWord, Waiting
    <3>2. NoLostWakeup'
      BY <2>3, <1>t, QuietStep DEF LoadWord, CasMiss, GuardRead, Reload, Waker
    <3> QED BY <3>1, <3>2
  (* A free word is no word that anybody waits on.                         *)
  <2>4. CASE CasAcquire(c)
    <3>1. ~ lock.held
      BY <2>4 DEF CasAcquire, LocalCopies
    <3>2. WaitsOnHeldWord'
      BY <2>4, <1>t DEF CasAcquire, LocalsGone, WaitsOnHeldWord, Waiting
    <3>3. NoLostWakeup'
      <4> SUFFICES ASSUME NEW d \in Contexts, pc'[d] = "asleep", d \notin woken'
                   PROVE  \E e \in Contexts : Waker(e)'
        BY DEF NoLostWakeup, Waker
      <4>1. pc[d] = "asleep" /\ d \notin woken /\ lock # futexVal[d]
        BY <2>4, <3>1, <1>t DEF CasAcquire, WaitsOnHeldWord, Waiting
      <4>2. PICK e \in Contexts : Waker(e)
        BY <4>1 DEF NoLostWakeup, Waker
      <4> QED BY <2>4, <4>2, <1>t DEF CasAcquire, Waker
    <3> QED BY <3>2, <3>3
  (* The mark makes no difference to a word that is waited on already.     *)
  <2>5. CASE MarkContended(c)
    <3>1. lock.ctx = lock'.ctx /\ lock.held = lock'.held /\ lock' \in Word
      BY <2>5, <1>t, WordFacts DEF MarkContended, ContWord
    <3>2. WaitsOnHeldWord'
      <4>1. ContWord(lockVal[c]).cont /\ ContWord(lockVal[c]).held
        BY <2>5, <1>t, WordFacts DEF MarkContended, LocalCopies
      <4> QED BY <2>5, <4>1, <1>t DEF MarkContended, WaitsOnHeldWord, Waiting
    <3>3. NoLostWakeup'
      <4> SUFFICES ASSUME NEW d \in Contexts, pc'[d] = "asleep", d \notin woken',
                          lock' # futexVal'[d]
                   PROVE  \E e \in Contexts : Waker(e)'
        BY DEF NoLostWakeup, Waker
      <4>1. pc[d] = "asleep" /\ d \notin woken /\ futexVal'[d] = futexVal[d]
        BY <2>5, <1>t DEF MarkContended
      <4>2. lock # futexVal[d]
        <5>1. SUFFICES ASSUME lock = futexVal[d] PROVE lock' = lock
          BY <4>1
        <5>2. lock.cont
          BY <4>1, <5>1 DEF WaitsOnHeldWord, Waiting
        <5> QED BY <2>5, <5>2, <1>t DEF MarkContended, ContWord, Word
      <4>3. PICK e \in Contexts : Waker(e)
        BY <4>1, <4>2 DEF NoLostWakeup, Waker
      <4> QED BY <2>5, <4>3, <1>t DEF MarkContended, Waker
    <3> QED BY <3>2, <3>3
  <2>6. CASE Remark(c) \/ FutexWait(c) \/ FutexRecheck(c)
    <3>1. WaitsOnHeldWord'
      BY <2>6, <1>t
         DEF Remark, FutexWait, FutexRecheck, LocalsGone, WaitsOnHeldWord, Waiting
    <3>2. NoLostWakeup'
      BY <2>6, <1>t, QuietStep DEF Remark, FutexWait, FutexRecheck, LocalsGone, Waker
    <3> QED BY <3>1, <3>2
  <2>7. CASE FutexTimeout(c)
    <3>1. WaitsOnHeldWord'
      BY <2>7, <1>t DEF FutexTimeout, LocalsGone, WaitsOnHeldWord, Waiting
    <3>2. NoLostWakeup'
      BY <2>7, <1>t, QuietStep DEF FutexTimeout, LocalsGone, Waker
    <3> QED BY <3>1, <3>2
  (* A word that is free to clear at the first try is not contended.       *)
  <2>8. CASE Clear(c)
    <3>1. WaitsOnHeldWord'
      BY <2>8, <1>t DEF Clear, WaitsOnHeldWord, Waiting
    <3>2. NoLostWakeup'
      <4> SUFFICES ASSUME NEW d \in Contexts, pc'[d] = "asleep", d \notin woken',
                          lock' # futexVal'[d]
                   PROVE  \E e \in Contexts : Waker(e)'
        BY DEF NoLostWakeup, Waker
      <4>1. pc[d] = "asleep" /\ d \notin woken /\ futexVal'[d] = futexVal[d]
        BY <2>8, <1>t DEF Clear
      <4>2. lock # futexVal[d]
        BY <2>8, <4>1 DEF Clear, HeldWord, WaitsOnHeldWord, Waiting
      <4>3. PICK e \in Contexts : Waker(e)
        BY <4>1, <4>2 DEF NoLostWakeup, Waker
      <4> QED BY <2>8, <4>3, <1>t DEF Clear, Waker
    <3> QED BY <3>1, <3>2
  <2>9. CASE ClearContended(c)
    <3>1. WaitsOnHeldWord'
      BY <2>9, <1>t DEF ClearContended, WaitsOnHeldWord, Waiting
    <3>2. NoLostWakeup'
      BY <2>9, <1>t, WakerThere DEF ClearContended, Waker
    <3> QED BY <3>1, <3>2
  (* Nobody who sleeps is left out.                                        *)
  <2>10. CASE FutexWake(c)
    <3>1. WaitsOnHeldWord'
      BY <2>10, <1>t DEF FutexWake, WaitsOnHeldWord, Waiting
    <3>2. \A d \in Contexts : pc'[d] = "asleep" => d \in woken'
      BY <2>10, <1>t DEF FutexWake, Asleep
    <3> QED BY <3>1, <3>2 DEF NoLostWakeup
  <2>11. CASE ContextGone(c)
    <3>1. WaitsOnHeldWord'
      BY <2>11, <1>t DEF ContextGone, Forget, LocalsGone, WaitsOnHeldWord, Waiting
    <3>2. NoLostWakeup'
      BY <2>11, <1>t, WakerThere DEF ContextGone, Waker
    <3> QED BY <3>1, <3>2
  <2>12. CASE ContextCreated(c)
    <3>1. WaitsOnHeldWord' /\ life'[c] > 1
      BY <2>12, <1>t DEF ContextCreated, WaitsOnHeldWord, Waiting
    <3>2. NoLostWakeup'
      BY <3>1, WakerThere DEF Waker
    <3> QED BY <3>1, <3>2
  <2> QED
    BY <2>1, <2>2, <2>3, <2>4, <2>5, <2>6, <2>7, <2>8, <2>9, <2>10, <2>11, <2>12
       DEF MacroStep
<1> QED
  BY <1>u, <1>n

(* No contender sleeps on a word that has changed unless it has been       *)
(* woken, or somebody who changed the word is about to wake it or has died *)
(* first: whatever the macros and the futex calls of other contexts        *)
(* interleave with.                                                        *)
THEOREM WakeupNotLost == Spec => []NoLostWakeup
<1>1. Init => IInv /\ WakeInv
  <2>1. Init => WakeInv
    BY DEF Init, WakeInv, WaitsOnHeldWord, Waiting, NoLostWakeup
  <2> QED BY <2>1, InitIInv
<1>2. IInv /\ WakeInv /\ [Next]_vars => (IInv /\ WakeInv)'
  BY StepIInv, StepWakeInv
<1>3. WakeInv => NoLostWakeup BY DEF WakeInv
<1> QED BY <1>1, <1>2, <1>3, PTL DEF Spec
=============================================================================
