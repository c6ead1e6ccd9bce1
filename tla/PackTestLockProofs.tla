------------------------- MODULE PackTestLockProofs -------------------------
(***************************************************************************)
(* Proofs about the runner lock, for any number of runners and faults: the *)
(* lock of an undisturbed runner lasts as long as its session, and its     *)
(* metadata no longer than its lock; without signals the metadata lasts as *)
(* long as the session, too.                                               *)
(***************************************************************************)
EXTENDS PackTestLock, TLAPS

\* Positions of the main thread: the lock is held, the metadata is written,
\* the cleanup has begun.
Holding == {"locked", "published", "armed", "waiting", "enter", "test", "delete", "release"}
Publishing == {"published", "armed", "waiting", "enter", "test", "delete"}
CleaningUp == {"test", "delete", "release", "exit", "blocked"}

\* An undisturbed runner cleans up once, on its main thread; its hook starts
\* after that, and finds nothing left to do.
Orderly(r) ==
    /\ main[r] \in Holding => lock = r
    /\ owner = r => main[r] \in Publishing
    /\ session[r] = "running" => main[r] = "waiting"
    /\ cleaned[r] => main[r] \in CleaningUp \cup {"off"}
    /\ main[r] \in CleaningUp => cleaned[r]
    /\ hook[r] \in {"enter", "ended"} => main[r] = "blocked"
    /\ hook[r] \notin {"test", "delete", "release"}

\* A kill leaves nothing of a runner that could still remove metadata.
Quiet ==
    /\ \A r \in struck : main[r] = "off" /\ hook[r] = "off"
    /\ \A r \in Runners \ struck : main[r] \in Publishing => owner = r

LockInv ==
    /\ TypeOK
    /\ \A r \in Runners \ struck : Orderly(r)
    /\ signalled = {} => Quiet

-----------------------------------------------------------------------------
(* Lemmas.                                                                 *)

LEMMA LockInit == Init => LockInv
BY RunnerAssumption
   DEF Init, LockInv, TypeOK, Orderly, Quiet, struck, Holding, Publishing, CleaningUp

LEMMA LockType == TypeOK /\ [Next]_vars => TypeOK'
<1> SUFFICES ASSUME TypeOK, [Next]_vars PROVE TypeOK'
  OBVIOUS
<1>1. CASE UNCHANGED vars
  BY <1>1 DEF TypeOK, vars
<1>2. ASSUME NEW r \in Runners, TryLock(r) \/ Run(r) \/ SessionEnds(r) \/ Nest(r)
                                \/ Signal(r) \/ Kill(r)
      PROVE  TypeOK'
  <2> USE RunnerAssumption DEF TypeOK, Main, disturbances, struck
  <2>1. CASE TryLock(r)
    BY <2>1 DEF TryLock
  <2>2. CASE WriteOwner(r) \/ ArmHook(r)
    BY <2>2 DEF WriteOwner, ArmHook
  <2>3. CASE StartSession(r) \/ AwaitSession(r)
    BY <2>3 DEF StartSession, AwaitSession
  <2>4. CASE Exit(r)
    BY <2>4 DEF Exit
  <2>5. CASE Halt(r)
    BY <2>5 DEF Halt, Ends, FreeLock
  <2>6. ASSUME NEW t \in Threads, Cleanup(r, t) PROVE TypeOK'
    BY <2>6 DEF Cleanup, EnterCleanup, TestOwner, DeleteOwner, ReleaseLock, FreeLock,
                Step, End
  <2>7. CASE SessionEnds(r) \/ Nest(r)
    BY <2>7 DEF SessionEnds, Nest
  <2>8. CASE Signal(r)
    BY <2>8 DEF Signal, Strike, Ends, FreeLock
  <2>9. CASE Kill(r)
    BY <2>9 DEF Kill, Strike, Ends, FreeLock
  <2> QED
    BY <1>2, <2>1, <2>2, <2>3, <2>4, <2>5, <2>6, <2>7, <2>8, <2>9 DEF Run
<1> QED
  BY <1>1, <1>2 DEF Next

\* What one step of runner s does to the order of any runner.
LEMMA OrderlyStep ==
    ASSUME LockInv, NEW s \in Runners, NEW r \in Runners \ struck',
           TryLock(s) \/ Run(s) \/ SessionEnds(s) \/ Nest(s) \/ Signal(s) \/ Kill(s)
    PROVE  Orderly(r)'
<1> r \in Runners \ struck
  BY DEF TryLock, Run, WriteOwner, ArmHook, StartSession, AwaitSession, Exit, Halt,
         Cleanup, EnterCleanup, TestOwner, DeleteOwner, ReleaseLock, SessionEnds,
         Nest, Signal, Kill, Strike, disturbances, struck
<1> Orderly(r) /\ TypeOK
  BY DEF LockInv
<1>0. s \in struck \/ Orderly(s)
  BY DEF LockInv
<1> USE RunnerAssumption
    DEF TypeOK, Orderly, Holding, Publishing, CleaningUp, Main, disturbances, struck
<1>1. CASE TryLock(s)
  BY <1>1 DEF TryLock
<1>2. CASE WriteOwner(s)
  BY <1>0, <1>2 DEF WriteOwner
<1>3. CASE ArmHook(s)
  BY <1>3 DEF ArmHook
<1>4. CASE StartSession(s)
  BY <1>4 DEF StartSession
<1>5. CASE AwaitSession(s)
  BY <1>5 DEF AwaitSession
<1>6. CASE Exit(s)
  BY <1>6 DEF Exit
<1>7. CASE Halt(s)
  BY <1>7 DEF Halt, Ends, FreeLock
<1>8. ASSUME NEW t \in Threads, EnterCleanup(s, t) PROVE Orderly(r)'
  BY <1>8 DEF EnterCleanup, Step, End, Thread, Threads
<1>9. ASSUME NEW t \in Threads, TestOwner(s, t) PROVE Orderly(r)'
  BY <1>9 DEF TestOwner, Step, Thread, Threads
<1>10. ASSUME NEW t \in Threads, DeleteOwner(s, t) PROVE Orderly(r)'
  BY <1>10 DEF DeleteOwner, Step, Thread, Threads
<1>11. ASSUME NEW t \in Threads, ReleaseLock(s, t) PROVE Orderly(r)'
  BY <1>11 DEF ReleaseLock, FreeLock, Step, End, Thread, Threads
<1>12. CASE SessionEnds(s) \/ Nest(s)
  BY <1>12 DEF SessionEnds, Nest
<1>13. CASE Signal(s)
  BY <1>13 DEF Signal, Strike, Ends, FreeLock
<1>14. CASE Kill(s)
  BY <1>14 DEF Kill, Strike, Ends, FreeLock
<1> QED
  BY <1>1, <1>2, <1>3, <1>4, <1>5, <1>6, <1>7, <1>8, <1>9, <1>10, <1>11, <1>12,
     <1>13, <1>14 DEF Run, Cleanup

\* Without signals a step touches metadata only of the runner that takes it.
LEMMA QuietStep ==
    ASSUME LockInv, signalled' = {}, NEW s \in Runners,
           TryLock(s) \/ Run(s) \/ SessionEnds(s) \/ Nest(s) \/ Signal(s) \/ Kill(s)
    PROVE  Quiet'
<1>a. signalled = {}
  BY DEF TryLock, Run, WriteOwner, ArmHook, StartSession, AwaitSession, Exit, Halt,
         Cleanup, EnterCleanup, TestOwner, DeleteOwner, ReleaseLock, SessionEnds,
         Nest, Signal, Kill, Strike, disturbances
<1>0. /\ TypeOK /\ Quiet
      /\ s \in struck => main[s] = "off" /\ hook[s] = "off"
      /\ \A r \in Runners \ struck : main[r] \in Holding => lock = r
      /\ s \notin struck => Orderly(s)
  BY <1>a DEF LockInv, Quiet, Orderly
<1> USE <1>0, RunnerAssumption
    DEF TypeOK, Quiet, Holding, Publishing, CleaningUp, Main, disturbances, struck
<1>1. CASE TryLock(s)
  BY <1>1 DEF TryLock
<1>2. CASE WriteOwner(s)
  BY <1>2 DEF WriteOwner
<1>3. CASE ArmHook(s)
  BY <1>3 DEF ArmHook
<1>4. CASE StartSession(s)
  BY <1>4 DEF StartSession
<1>5. CASE AwaitSession(s)
  BY <1>5 DEF AwaitSession
<1>6. CASE Exit(s)
  BY <1>6 DEF Exit
<1>7. CASE Halt(s)
  BY <1>7 DEF Halt, Ends, FreeLock
<1>8. ASSUME NEW t \in Threads, EnterCleanup(s, t) PROVE Quiet'
  BY <1>8 DEF EnterCleanup, Step, End, Thread, Threads
<1>9. ASSUME NEW t \in Threads, TestOwner(s, t) PROVE Quiet'
  BY <1>9 DEF TestOwner, Step, Thread, Threads
<1>10. ASSUME NEW t \in Threads, DeleteOwner(s, t) PROVE Quiet'
  BY <1>10 DEF DeleteOwner, Step, Thread, Threads, Orderly
<1>11. ASSUME NEW t \in Threads, ReleaseLock(s, t) PROVE Quiet'
  BY <1>11 DEF ReleaseLock, FreeLock, Step, End, Thread, Threads
<1>12. CASE SessionEnds(s) \/ Nest(s)
  BY <1>12 DEF SessionEnds, Nest
<1>13. CASE Signal(s)
  BY <1>13 DEF Signal, Strike
<1>14. CASE Kill(s)
  BY <1>14 DEF Kill, Strike, Ends, FreeLock
<1> QED
  BY <1>1, <1>2, <1>3, <1>4, <1>5, <1>6, <1>7, <1>8, <1>9, <1>10, <1>11, <1>12,
     <1>13, <1>14 DEF Run, Cleanup

LEMMA LockStep == LockInv /\ [Next]_vars => LockInv'
<1> SUFFICES ASSUME LockInv, [Next]_vars PROVE LockInv'
  OBVIOUS
<1>1. TypeOK'
  BY LockType DEF LockInv
<1>2. CASE Next
  BY <1>1, <1>2, OrderlyStep, QuietStep DEF Next, LockInv
<1>3. CASE UNCHANGED vars
  BY <1>1, <1>3 DEF LockInv, Orderly, Quiet, struck, vars
<1> QED
  BY <1>2, <1>3

\* The invariant is inductive: it holds of every state a run reaches.
LEMMA LockInductive == Spec => []LockInv
<1> QED
  BY LockInit, LockStep, PTL DEF Spec

-----------------------------------------------------------------------------
(* Theorems.                                                               *)

\* Lock, metadata and threads of every runner keep their types.
THEOREM LockTypeCorrect == Spec => []TypeOK
<1>1. LockInv => TypeOK
  BY DEF LockInv
<1> QED
  BY <1>1, LockInductive, PTL

\* An undisturbed runner holds the kernel lock throughout its session (65-112).
THEOREM SessionsUnderLock == Spec => []SessionUnderLock
<1>1. LockInv => SessionUnderLock
  BY DEF LockInv, Orderly, SessionUnderLock, Holding
<1> QED
  BY <1>1, LockInductive, PTL

\* owner.json names no undisturbed runner that has given up its lock (99-107).
THEOREM OwnersHoldLock == Spec => []OwnerHoldsLock
<1>1. LockInv => OwnerHoldsLock
  BY DEF LockInv, Orderly, OwnerHoldsLock, Holding, Publishing
<1> QED
  BY <1>1, LockInductive, PTL

\* While no runner has been signalled, owner.json names the runner throughout its session:
\* a runner nested in it is admitted (lines 57-61).
THEOREM OwnersPublished == Spec => []OwnerPublished
<1>1. LockInv => OwnerPublished
  BY DEF LockInv, Orderly, Quiet, OwnerPublished, Publishing, struck
<1> QED
  BY <1>1, LockInductive, PTL
=============================================================================
