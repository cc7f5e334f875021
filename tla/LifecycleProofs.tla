-------------------------- MODULE LifecycleProofs --------------------------
(***************************************************************************)
(* Proofs about Lifecycle, for any number of emitters.                     *)
(***************************************************************************)
EXTENDS Lifecycle, TLAPS

\* OnlyTheHolderIsActive is not inductive: an emitter that has the lock and is
\* about to start its watcher must be the holder too.
Past(e) == state[e] = "acquired" \/ Active(e)

IInv ==
  /\ TypeOK
  /\ \A e \in Emitters : Past(e) => holder = e \/ e \in expired

LEMMA InitIInv == Init => IInv
BY DEF Init, IInv, TypeOK, Past, Active, States

\* Only AcquireLock gives an emitter the lock, and it finds it free; whoever
\* loses it while active has expired.
LEMMA NextIInv == IInv /\ [Next]_vars => IInv'
<1> SUFFICES ASSUME IInv, [Next]_vars
             PROVE  IInv'
  OBVIOUS
<1> USE DEF IInv, TypeOK, Past, Active, States, Starting, Goto
<1>1. ASSUME NEW e \in Emitters, Start(e)
      PROVE  IInv'
  BY <1>1 DEF Start
<1>2. ASSUME NEW e \in Emitters, Step(e)
      PROVE  IInv'
  <2>1. CASE Ping(e)
    BY <2>1 DEF Ping, Check
  <2>2. CASE ReadConfig(e)
    BY <2>2 DEF ReadConfig, Check
  <2>3. CASE FetchKey(e)
    BY <2>3 DEF FetchKey, Check
  <2>4. CASE AcquireLock(e)
    BY <2>4, LifecycleAssumption DEF AcquireLock
  <2>5. CASE StartWatcher(e)
    BY <2>5 DEF StartWatcher
  <2>6. CASE StartSyncer(e)
    BY <2>6 DEF StartSyncer
  <2>7. CASE NoticeLoss(e)
    BY <2>7 DEF NoticeLoss, StopFrom
  <2>8. CASE StopSyncer(e)
    BY <2>8 DEF StopSyncer
  <2>9. CASE StopWatcher(e)
    BY <2>9 DEF StopWatcher
  <2>10. CASE ReleaseLock(e)
    BY <2>10 DEF ReleaseLock
  <2>11. CASE CheckAddress(e)
    BY <2>11 DEF CheckAddress, Check
  <2>12. CASE CheckTTL(e)
    BY <2>12 DEF CheckTTL, Check
  <2> QED
    BY <1>2, <2>1, <2>2, <2>3, <2>4, <2>5, <2>6, <2>7, <2>8, <2>9, <2>10, <2>11, <2>12
       DEF Step
<1>3. ASSUME NEW e \in Emitters, Signal(e)
      PROVE  IInv'
  BY <1>3 DEF Signal, StopFrom
<1>4. ASSUME NEW e \in Emitters, Crash(e)
      PROVE  IInv'
  BY <1>4 DEF Crash
<1>5. ASSUME NEW e \in Emitters, SessionExpires(e)
      PROVE  IInv'
  BY <1>5 DEF SessionExpires
<1>6. CASE OrphanExpires
  BY <1>6, LifecycleAssumption DEF OrphanExpires
<1>7. ASSUME NEW s \in Services, Outage(s)
      PROVE  IInv'
  BY <1>7 DEF Outage
<1>8. CASE CalmDown
  BY <1>8 DEF CalmDown
<1>9. CASE UNCHANGED vars
  BY <1>9 DEF vars
<1> QED BY <1>1, <1>2, <1>3, <1>4, <1>5, <1>6, <1>7, <1>8, <1>9 DEF Next

\* No emitter is active without the lock, whatever crashes, signals and lost
\* sessions come, and however many emitters wait: the start and stop order of
\* the group in main is enough.
THEOREM LifecycleOnlyTheHolderIsActive == Spec => []OnlyTheHolderIsActive
<1>1. IInv => OnlyTheHolderIsActive
  BY DEF IInv, Past, OnlyTheHolderIsActive
<1> QED BY <1>1, InitIInv, NextIInv, PTL DEF Spec
=============================================================================
