------------------------ MODULE ActivityManagerProofs -------------------------
(***************************************************************************)
(* Proofs about ActivityManager, for any set of activity objects and any   *)
(* number of calls per pass.                                               *)
(***************************************************************************)
EXTENDS ActivityManager, SequenceTheorems, TLAPS

\* The stack without its top.
LEMMA FrontLast ==
  ASSUME NEW s \in Seq(Act), s # <<>>
  PROVE  /\ Len(s) \in Nat \ {0}
         /\ Front(s) \in Seq(Act)
         /\ Len(Front(s)) = Len(s) - 1
         /\ \A i \in 1..(Len(s) - 1) : Front(s)[i] = s[i]
         /\ Last(s) = s[Len(s)]
         /\ Last(s) \in Act
<1> DEFINE n == Len(s)
<1>1. n \in Nat \ {0} /\ \A i \in 1..n : s[i] \in Act
  OBVIOUS
<1>2. Front(s) = SubSeq(s, 1, n - 1) /\ Last(s) = s[n]
  BY DEF Front, Last
<1> HIDE DEF n
<1>3. n - 1 \in Int /\ (n - 1) - 1 + 1 = n - 1
  BY <1>1
<1>4. \A i \in 1..(n - 1) : s[i] \in Act
  BY <1>1
<1>5. /\ Front(s) \in Seq(Act)
      /\ Len(Front(s)) = IF 1 <= n - 1 THEN n - 1 ELSE 0
      /\ \A i \in 1..(n - 1) : Front(s)[i] = s[1 + i - 1]
  BY <1>2, <1>3, <1>4, SubSeqProperties
<1>6. Len(Front(s)) = n - 1
  BY <1>1, <1>5
<1>7. \A i \in 1..(n - 1) : Front(s)[i] = s[i]
  BY <1>1, <1>5
<1>8. Last(s) = s[n] /\ s[n] \in Act
  BY <1>1, <1>2
<1> QED
  BY <1>1, <1>5, <1>6, <1>7, <1>8 DEF n

\* What a pop leaves: the parent is current and gone from the stack.
LEMMA ResumeFacts ==
  ASSUME IInv, ResumeParent
  PROVE  /\ Len(stack) \in Nat \ {0}
         /\ stack' \in Seq(Act)
         /\ Len(stack') = Len(stack) - 1
         /\ \A i \in 1..(Len(stack) - 1) : stack'[i] = stack[i]
         /\ current' = stack[Len(stack)]
         /\ current' \in Act
         /\ Last(stack) = current'
  BY FrontLast DEF ResumeParent, IInv, TypeOK

\* A pop to a parent, whose handler is called when it has one, preserves the
\* inductive invariant.
LEMMA ResumeStep ==
  ASSUME IInv, PopToHandler \/ PopToParent
  PROVE  IInv'
<1>1. ResumeParent
  BY DEF PopToHandler, PopToParent
<1>2. current \in Act /\ current # Null
  BY <1>1 DEF ResumeParent, IInv, TypeOK, CurrentInv
<1>3. /\ handler' \in [Act -> Act \union {Null}]
      /\ handler'[current] = Null /\ handler'[current'] = Null
      /\ \A a \in Act : handler'[a] \in {Null, handler[a]}
  BY <1>1, <1>2, ResumeFacts DEF PopToHandler, PopToParent, IInv, TypeOK
<1>4. /\ mainPc' \in {"code", "queue"}
      /\ mainPc' = "code" => ret' = "queue"
      /\ mainPc' = "queue" => ret' = ret
  BY DEF PopToHandler, PopToParent
<1>5. unpainted' = unpainted \ {current}
  BY <1>1 DEF ResumeParent
<1>6. TypeOK'
  BY <1>1, <1>3, <1>4, ResumeFacts
     DEF ResumeParent, IInv, TypeOK, FlagsOK, MainPcs, Returns, Actions, Tasks,
         Free, sleepVars, signalVars, paintVars
<1>7. /\ LockInv'
      /\ CurrentInv'
      /\ RenderInv'
      /\ PendingInv'
      /\ SetupInv'
      /\ WaitInv'
  BY <1>1, <1>4, ResumeFacts, NullAssumption
     DEF ResumeParent, IInv, LockInv, CurrentInv, RenderInv, PendingInv,
         PendingMatchesAction, SetupInv, WaitInv, RenderPcs, Tasks, Free,
         sleepVars, signalVars, paintVars
<1>8. OwnerInv'
  BY <1>1, ResumeFacts DEF ResumeParent, IInv, OwnerInv
<1>9. HandlerInv'
  <2>1. ASSUME NEW a \in Act, handler'[a] # Null
        PROVE  a = current' \/ \E i \in 1..Len(stack') : stack'[i] = a
    <3>1. a # current /\ a # current' /\ handler[a] # Null
      BY <1>3, <2>1
    <3>2. PICK i \in 1..Len(stack) : stack[i] = a
      BY <3>1 DEF IInv, HandlerInv
    <3> QED
      BY <1>1, <3>1, <3>2, ResumeFacts
  <2>2. ASSUME NEW i \in 1..Len(stack')
        PROVE  handler'[stack'[i]]
                 \in {Null, IF i = Len(stack') THEN current' ELSE stack'[i + 1]}
    <3>1. /\ i \in 1..(Len(stack) - 1) /\ i \in 1..Len(stack)
          /\ i + 1 \in 1..Len(stack) /\ i # Len(stack)
          /\ stack'[i] = stack[i] /\ stack[i] \in Act
      BY <1>1, ResumeFacts DEF IInv, TypeOK
    <3>2. handler'[stack[i]] \in {Null, stack[i + 1]}
      BY <1>3, <3>1 DEF IInv, HandlerInv
    <3>3. CASE i = Len(stack')
      BY <1>1, <3>1, <3>2, <3>3, ResumeFacts
    <3>4. CASE i # Len(stack')
      BY <1>1, <3>1, <3>2, <3>4, ResumeFacts
    <3> QED
      BY <3>3, <3>4
  <2> QED
    BY <1>1, <1>3, <1>4, <2>1, <2>2 DEF HandlerInv, ResumeParent
<1>10. PaintInv'
  <2>1. ASSUME NEW a \in unpainted'
        PROVE  a = current' \/ \E i \in 1..Len(stack') : stack'[i] = a
    <3>1. PICK i \in 1..Len(stack) : stack[i] = a
      BY <1>5, <2>1 DEF IInv, PaintInv
    <3> QED
      BY <1>1, <3>1, ResumeFacts
  <2>2. renderPc' \notin {"rendering", "finish", "wake", "release"}
    BY <1>1 DEF ResumeParent, IInv, TypeOK, LockInv, RenderPcs, Tasks, Free,
       paintVars
  <2> QED
    BY <1>4, <2>1, <2>2 DEF PaintInv
<1> QED
  BY <1>6, <1>7, <1>8, <1>9, <1>10 DEF IInv

\* The device starts in the inductive invariant.
LEMMA InitInv == Init => IInv
<1> SUFFICES ASSUME Init PROVE IInv
  OBVIOUS
<1>1. FlagsOK
  BY DEF Init, FlagsOK
<1>2. TypeOK
  BY <1>1, MaxCallsAssumption
     DEF Init, TypeOK, MainPcs, Returns, Actions, RenderPcs, Tasks, Free
<1>3. /\ LockInv
      /\ CurrentInv
      /\ RenderInv
      /\ PendingInv
      /\ OwnerInv
      /\ SetupInv
      /\ WaitInv
      /\ PaintInv
  BY NullAssumption
     DEF Init, LockInv, CurrentInv, RenderInv, PendingInv, PendingMatchesAction,
         OwnerInv, SetupInv, WaitInv, PaintInv, RenderPcs, Free
<1>4. HandlerInv
  BY NullAssumption DEF Init, HandlerInv
<1> QED
  BY <1>2, <1>3, <1>4 DEF IInv

\* A call of activity code preserves the inductive invariant.
LEMMA CodeStep ==
  ASSUME IInv, ActivityCode
  PROVE  IInv'
<1> USE NullAssumption, MaxCallsAssumption
      DEF IInv, TypeOK, LockInv, CurrentInv, RenderInv, PendingInv,
          PendingMatchesAction, OwnerInv, SetupInv, HandlerInv, WaitInv, PaintInv,
          MainPcs, Returns, Actions, RenderPcs, Tasks, Free, navVars, sleepVars,
          signalVars, paintVars
<1>1. CASE RequestUpdate
  BY <1>1 DEF RequestUpdate, InCode, FlagsOK
<1>2. CASE RequestUpdateNow
  BY <1>2 DEF RequestUpdateNow, InCode, FlagsOK
<1>3. CASE TakeLock
  BY <1>3 DEF TakeLock, InCode, FlagsOK
<1>4. CASE WriteAndUnlock
  BY <1>4 DEF WriteAndUnlock, FlagsOK
<1>5. CASE RejectedWait
  BY <1>5 DEF RejectedWait, FlagsOK
<1>6. CASE UpdateAndWait
  <2>1. FlagsOK'
    BY <1>6 DEF UpdateAndWait, InCode, RegisterWaiter, FlagsOK
  <2> QED
    BY <1>6, <2>1 DEF UpdateAndWait, InCode, RegisterWaiter
<1>7. ASSUME NEW a \in Act, Replace(a) PROVE IInv'
  BY <1>7 DEF Replace, InCode, ReplaceActivity, New, Owned, ToSet, FlagsOK
<1>8. ASSUME NEW a \in Act, StartActivityForResult(a) PROVE IInv'
  BY <1>8 DEF StartActivityForResult, InCode, PushActivity, New, Owned, ToSet,
       FlagsOK
<1>9. CASE Finish
  BY <1>9 DEF Finish, InCode, PopActivity, FlagsOK
<1>10. CASE RaiseAlert
  BY <1>10 DEF RaiseAlert, InCode, FlagsOK
<1>11. CASE Return
  BY <1>11 DEF Return, FlagsOK
<1> QED
  BY <1>1, <1>2, <1>3, <1>4, <1>5, <1>6, <1>7, <1>8, <1>9, <1>10, <1>11 DEF
       ActivityCode

\* A step of setup() or loop() in main.cpp preserves it.
LEMMA MainCppStep ==
  ASSUME IInv, MainCpp
  PROVE  IInv'
<1> USE NullAssumption, MaxCallsAssumption
      DEF IInv, TypeOK, LockInv, CurrentInv, RenderInv, PendingInv,
          PendingMatchesAction, OwnerInv, SetupInv, HandlerInv, WaitInv, PaintInv,
          MainPcs, Returns, Actions, RenderPcs, Tasks, Free, navVars, sleepVars,
          signalVars, paintVars
<1>1. ASSUME NEW a \in Act, SetupLaunch(a) PROVE IInv'
  BY <1>1 DEF SetupLaunch, LaunchNow, New, Owned, ToSet, FlagsOK
<1>2. ASSUME NEW a \in Act, SetupRoute(a) PROVE IInv'
  BY <1>2 DEF SetupRoute, ReplaceActivity, New, Owned, ToSet, FlagsOK
<1>3. CASE SetupPaint
  <2>1. FlagsOK'
    BY <1>3 DEF SetupPaint, RegisterWaiter, FlagsOK
  <2> QED
    BY <1>3, <2>1 DEF SetupPaint, RegisterWaiter
<1>4. CASE Loop
  BY <1>4 DEF Loop, RunActivity, FlagsOK
<1>5. CASE UsbChanged
  BY <1>5 DEF UsbChanged, InOuter, FlagsOK
<1>6. ASSUME NEW a \in Act, GlobalPush(a) PROVE IInv'
  BY <1>6 DEF GlobalPush, InOuter, PushActivity, New, Owned, ToSet, FlagsOK
<1>7. ASSUME NEW a \in Act, GlobalGoTo(a) PROVE IInv'
  BY <1>7 DEF GlobalGoTo, InOuter, ReplaceActivity, New, Owned, ToSet, FlagsOK
<1>8. ASSUME NEW a \in Act, GoToSleep(a) PROVE IInv'
  BY <1>8 DEF GoToSleep, ReplaceActivity, RunActivity, New, Owned, ToSet,
       FlagsOK
<1> QED
  BY <1>1, <1>2, <1>3, <1>4, <1>5, <1>6, <1>7, <1>8 DEF MainCpp

\* A step of the manager's drain, alert and flush preserves it.
LEMMA ManagerLoopStep ==
  ASSUME IInv, ManagerLoop
  PROVE  IInv'
<1> USE NullAssumption, MaxCallsAssumption
      DEF IInv, TypeOK, LockInv, CurrentInv, RenderInv, PendingInv,
          PendingMatchesAction, OwnerInv, SetupInv, HandlerInv, WaitInv, PaintInv,
          MainPcs, Returns, Actions, RenderPcs, Tasks, Free, navVars, sleepVars,
          signalVars, paintVars
<1>1. CASE NotifyRender
  BY <1>1 DEF NotifyRender, FlagsOK
<1>2. CASE WaitReturns
  <2>1. FlagsOK'
    BY <1>2 DEF WaitReturns, FlagsOK
  <2> QED
    BY <1>2, <2>1 DEF WaitReturns
<1>3. CASE DrainDone
  BY <1>3 DEF DrainDone, FlagsOK
<1>4. CASE DrainPop
  BY <1>4 DEF DrainPop, FlagsOK
<1>5. CASE DrainLaunch
  BY <1>5 DEF DrainLaunch, FlagsOK
<1>6. CASE PopLast
  BY <1>6 DEF PopLast, EndLast, FlagsOK
<1>7. ASSUME NEW a \in Act, GoHome(a) PROVE IInv'
  BY <1>7 DEF GoHome, LaunchNow, New, Owned, ToSet, FlagsOK
<1>8. CASE PopToHandler
  BY <1>8, ResumeStep
<1>9. CASE PopToParent
  BY <1>9, ResumeStep
<1>10. CASE QueueRepaint
  BY <1>10 DEF QueueRepaint, FlagsOK
<1>11. CASE SkipRepaint
  BY <1>11 DEF SkipRepaint, FlagsOK
<1>12. CASE LaunchReplacing
  BY <1>12 DEF LaunchReplacing, Launch, FlagsOK
<1>13. CASE LaunchPushing
  BY <1>13, SMTT(30) DEF LaunchPushing, Launch, FlagsOK
<1>14. ASSUME NEW a \in Act, TailAlert(a) PROVE IInv'
  <2>1. FlagsOK'
    BY <1>14 DEF TailAlert, PushActivity, New, Owned, ToSet, FlagsOK
  <2> QED
    BY <1>14, <2>1 DEF TailAlert, PushActivity, New, Owned, ToSet
<1>15. CASE HeapExhausted
  <2>1. FlagsOK'
    BY <1>15 DEF HeapExhausted, Reset, FlagsOK
  <2> QED
    BY <1>15, <2>1 DEF HeapExhausted, Reset
<1>16. CASE TailNoAlert
  BY <1>16 DEF TailNoAlert, FlagsOK
<1>17. CASE Flush
  <2>1. FlagsOK'
    BY <1>17 DEF Flush, FlagsOK
  <2> QED
    BY <1>17, <2>1 DEF Flush
<1> QED
  BY <1>1, <1>2, <1>3, <1>4, <1>5, <1>6, <1>7, <1>8, <1>9, <1>10, <1>11,
       <1>12, <1>13, <1>14, <1>15, <1>16, <1>17 DEF ManagerLoop

\* A step of the render task preserves it, and so does a wake-up.
LEMMA RenderStep ==
  ASSUME IInv, RenderLoop \/ RenderRequests \/ RenderAlerts \/ WakeUp
  PROVE  IInv'
<1> USE NullAssumption, MaxCallsAssumption
      DEF IInv, TypeOK, LockInv, CurrentInv, RenderInv, PendingInv,
          PendingMatchesAction, OwnerInv, SetupInv, HandlerInv, WaitInv, PaintInv,
          MainPcs, Returns, Actions, RenderPcs, Tasks, Free, navVars, sleepVars,
          signalVars, paintVars
<1>1. CASE RenderTake
  <2>1. FlagsOK'
    BY <1>1 DEF RenderTake, FlagsOK
  <2> QED
    BY <1>1, <2>1 DEF RenderTake
<1>2. CASE RenderAcquire
  BY <1>2 DEF RenderAcquire, FlagsOK
<1>3. CASE RenderBegin
  BY <1>3 DEF RenderBegin, FlagsOK
<1>4. CASE RenderNothing
  BY <1>4 DEF RenderNothing, FlagsOK
<1>5. CASE RenderRequests
  BY <1>5 DEF RenderRequests, FlagsOK
<1>6. CASE RenderAlerts
  BY <1>6 DEF RenderAlerts, FlagsOK
<1>7. CASE RenderEnd
  BY <1>7 DEF RenderEnd, FlagsOK
<1>8. CASE TakeWaiter
  <2>1. FlagsOK'
    BY <1>8 DEF TakeWaiter, FlagsOK
  <2> QED
    BY <1>8, <2>1 DEF TakeWaiter
<1>9. CASE WakeWaiter
  BY <1>9 DEF WakeWaiter, FlagsOK
<1>10. CASE RenderRelease
  BY <1>10 DEF RenderRelease, FlagsOK
<1>11. CASE WakeUp
  <2>1. FlagsOK'
    BY <1>11 DEF WakeUp, Reset, FlagsOK
  <2> QED
    BY <1>11, <2>1 DEF WakeUp, Reset
<1> QED
  BY <1>1, <1>2, <1>3, <1>4, <1>5, <1>6, <1>7, <1>8, <1>9, <1>10, <1>11 DEF
       RenderLoop
\* Every step preserves the inductive invariant.
LEMMA NextInv == IInv /\ [Next]_vars => IInv'
<1> SUFFICES ASSUME IInv, [Next]_vars PROVE IInv'
  OBVIOUS
<1>1. CASE Main
  BY <1>1, CodeStep, MainCppStep, ManagerLoopStep DEF Main
<1>2. CASE RenderLoop \/ RenderRequests \/ RenderAlerts \/ WakeUp
  BY <1>2, RenderStep
<1>3. CASE UNCHANGED vars
  BY <1>3 DEF vars, navVars, sleepVars, signalVars, paintVars, IInv,
     TypeOK, FlagsOK, LockInv, CurrentInv, RenderInv, PendingInv,
     PendingMatchesAction, OwnerInv, SetupInv, HandlerInv, WaitInv, PaintInv
<1> QED
  BY <1>1, <1>2, <1>3 DEF Next

\* The inductive invariant holds of every reachable state: who owns which
\* activity object, who holds the rendering mutex and who waits for whom.
THEOREM Invariance == Spec => []IInv
  BY InitInv, NextInv, PTL DEF Spec

\* Every variable keeps its type.
THEOREM TypeCorrect == Spec => []TypeOK
<1>1. IInv => TypeOK
  BY DEF IInv
<1> QED
  BY <1>1, Invariance, PTL

\* The render task never paints an activity that the main task has destroyed or
\* moved to the stack.
THEOREM RenderSafety == Spec => []RenderedIsCurrent
<1>1. IInv => RenderedIsCurrent
  BY DEF IInv, RenderInv, RenderedIsCurrent
<1> QED
  BY <1>1, Invariance, PTL

\* A launch is pending exactly when there is an activity to launch.
THEOREM PendingSafety == Spec => []PendingMatchesAction
<1>1. IInv => PendingMatchesAction
  BY DEF IInv, PendingInv
<1> QED
  BY <1>1, Invariance, PTL

\* The result of a finishing activity goes to the handler given for it.
THEOREM ResultSafety == Spec => []ResultForLauncher
<1>1. IInv => ResultForLauncher
  <2> SUFFICES ASSUME IInv, mainPc = "pop", stack # <<>>
               PROVE  handler[Last(stack)] \in {Null, current}
    BY DEF ResultForLauncher
  <2>1. stack \in Seq(Act)
    BY DEF IInv, TypeOK
  <2>2. Len(stack) \in 1..Len(stack) /\ Last(stack) = stack[Len(stack)]
    BY <2>1, FrontLast
  <2> QED
    BY <2>2 DEF IInv, HandlerInv
<1> QED
  BY <1>1, Invariance, PTL

\* Nobody waits for a paint while holding the mutex the paint needs.
THEOREM NoDeadlockOnWait == Spec => []NoCircularWait
<1>1. IInv => NoCircularWait
  BY DEF IInv, LockInv, NoCircularWait
<1> QED
  BY <1>1, Invariance, PTL

\* The main task falls asleep by one step only, and wakes of its own by one.
LEMMA FallsAsleep ==
  ASSUME IInv, Main, mainPc' = "blocked"
  PROVE  NotifyRender
<1>1. ActivityCode => mainPc' # "blocked"
  BY DEF IInv, TypeOK, Returns, ActivityCode, RequestUpdate, RequestUpdateNow,
     TakeLock, WriteAndUnlock, RejectedWait, UpdateAndWait, RegisterWaiter, Replace,
     StartActivityForResult, Finish, RaiseAlert, Return, InCode
<1>2. MainCpp => mainPc' # "blocked"
  BY DEF MainCpp, SetupLaunch, LaunchNow, SetupRoute, SetupPaint, RegisterWaiter, Loop,
     RunActivity, UsbChanged, GlobalPush, GlobalGoTo, GoToSleep, InOuter
<1>3. ManagerLoop => mainPc' # "blocked" \/ NotifyRender
  BY DEF ManagerLoop, WaitReturns, DrainDone, DrainPop, DrainLaunch, PopLast, EndLast,
     GoHome, LaunchNow, PopToHandler, PopToParent, QueueRepaint, SkipRepaint,
     LaunchReplacing, LaunchPushing, Launch, TailAlert, HeapExhausted, Reset,
     TailNoAlert, Flush
<1> QED
  BY <1>1, <1>2, <1>3 DEF Main

\* While the main task sleeps in requestUpdateAndWait(), what will wake it is on
\* its way: the notification that asks for the paint is neither lost nor taken by
\* a render that has looked for the waiter before.
THEOREM NoLostWakeup == Spec => []WakeupIsComing
<1>1. Init => WakeupIsComing
  BY DEF Init, WakeupIsComing
<1>2. IInv /\ IInv' /\ WakeupIsComing /\ [Next]_vars => WakeupIsComing'
  <2> SUFFICES ASSUME IInv, IInv', WakeupIsComing, [Next]_vars, mainPc' = "blocked"
               PROVE  WakeupIsComing'
    BY DEF WakeupIsComing
  <2>1. mutex' # "main"
    BY DEF IInv, LockInv
  <2>2. CASE Main
    BY <2>1, <2>2, FallsAsleep DEF NotifyRender, WakeupIsComing, IInv, WaitInv, paintVars
  <2>3. CASE RenderLoop
    <3>1. mainPc = "blocked" /\ renderPc \in RenderPcs
      BY <2>3 DEF RenderLoop, RenderTake, RenderAcquire, RenderBegin, RenderNothing,
         RenderEnd, TakeWaiter, WakeWaiter, RenderRelease, IInv, TypeOK
    <3>2. \/ mainNotified \/ renderPc = "wake"
          \/ /\ waiter
             /\ renderNotified \/ renderPc \in {"acquire", "check", "rendering", "finish"}
      BY <3>1 DEF WakeupIsComing
    <3> QED
      BY <2>1, <2>3, <3>1, <3>2
         DEF RenderLoop, RenderTake, RenderAcquire, RenderBegin, RenderNothing, RenderEnd,
             TakeWaiter, WakeWaiter, RenderRelease, signalVars, WakeupIsComing
  <2>4. CASE RenderRequests \/ RenderAlerts
    BY <2>1, <2>4 DEF RenderRequests, RenderAlerts, paintVars, WakeupIsComing
  <2>5. CASE WakeUp
    BY <2>5 DEF WakeUp, Reset
  <2>6. CASE UNCHANGED vars
    BY <2>6 DEF vars, signalVars, paintVars, WakeupIsComing
  <2> QED
    BY <2>2, <2>3, <2>4, <2>5, <2>6 DEF Next
<1> QED
  BY <1>1, <1>2, Invariance, PTL DEF Spec

\* The wait for a paint comes back with every earlier locked write painted.
THEOREM WaitIsCurrent == Spec => WaitShowsLockedWrites
<1> DEFINE Shown == mainPc = "blocked" /\ mainPc' # "blocked"
                      => current \notin unpainted
<1>1. IInv /\ [Next]_vars => [Shown]_vars
  <2> SUFFICES ASSUME IInv, Next, mainPc = "blocked", mainPc' # "blocked"
               PROVE  current \notin unpainted
    OBVIOUS
  <2>1. WaitReturns
    BY DEF Next, Main, ActivityCode, MainCpp, ManagerLoop, RenderLoop,
       RequestUpdate, RequestUpdateNow, TakeLock, WriteAndUnlock, RejectedWait,
       UpdateAndWait, Replace, StartActivityForResult, Finish, RaiseAlert,
       Return, InCode, SetupLaunch, SetupRoute, SetupPaint, Loop, UsbChanged,
       GlobalPush, GlobalGoTo, GoToSleep, InOuter, NotifyRender, DrainDone,
       DrainPop, DrainLaunch, PopLast, EndLast, GoHome, PopToHandler, PopToParent,
       ResumeParent, QueueRepaint, SkipRepaint, LaunchReplacing, LaunchPushing,
       Launch, TailAlert, HeapExhausted, TailNoAlert, Flush, RenderTake,
       RenderAcquire, RenderBegin, RenderNothing, RenderRequests, RenderAlerts,
       RenderEnd, TakeWaiter, WakeWaiter, RenderRelease, WakeUp
  <2>2. ~waiter
    BY <2>1 DEF WaitReturns, IInv, WaitInv
  <2> QED
    BY <2>2 DEF IInv, PaintInv
<1> QED
  BY <1>1, Invariance, PTL DEF Spec, WaitShowsLockedWrites

(***************************************************************************)
(* A pass of loop() ends: a bound on the steps it has left.                *)
(***************************************************************************)

\* The places of a pass.
LEMMA Places ==
  /\ \A p : p \in DOMAIN PlacesLeft <=>
       p \in {"flush", "tail", "pop", "launch", "drain", "queue", "code", "locked",
              "blocked", "home", "notify"}
  /\ PlacesLeft["flush"] = 1 /\ PlacesLeft["tail"] = 2
  /\ PlacesLeft["pop"] = 3 /\ PlacesLeft["launch"] = 3
  /\ PlacesLeft["drain"] = 4 /\ PlacesLeft["queue"] = 5
  /\ PlacesLeft["code"] = 6 /\ PlacesLeft["locked"] = 7
  /\ PlacesLeft["blocked"] = 7 /\ PlacesLeft["home"] = 7
  /\ PlacesLeft["notify"] = 8
  BY DEF PlacesLeft

LEMMA CallsFacts ==
  ASSUME IInv
  PROVE  calls \in Nat /\ MaxCalls - calls \in Nat
  BY MaxCallsAssumption DEF IInv, TypeOK

LEMMA Lighter ==
  ASSUME NEW c \in Nat, NEW n \in Nat, NEW m \in Nat, NEW p \in Nat, NEW q \in Nat,
         (q = p /\ m - n <= 5) \/ (q - p <= 2 /\ m = n)
  PROVE  6 * (c - 1) + m + q < 6 * c + n + p
  OBVIOUS

\* A call of activity code weighs more than what it may bring about.
LEMMA CallDescends ==
  ASSUME IInv, calls < MaxCalls, calls' = calls + 1, mainPc \in {"code", "locked"},
         \/ mainPc' = mainPc
         \/ mainPc' \in {"locked", "notify"} /\ action' = action
  PROVE  StepsLeft' < StepsLeft
<1> DEFINE c == MaxCalls - calls
           n == IF Navigates THEN 5 ELSE 0
<1>1. c \in Nat /\ MaxCalls - calls' = c - 1
  BY CallsFacts, MaxCallsAssumption
<1>2. PlacesLeft[mainPc] \in {6, 7} /\ PlacesLeft[mainPc'] \in {6, 7, 8}
  BY Places
<1>3. StepsLeft = 6 * c + n + PlacesLeft[mainPc]
  BY DEF StepsLeft
<1>4. StepsLeft' = 6 * (c - 1) + n' + PlacesLeft[mainPc']
  BY <1>1 DEF StepsLeft, PlacesLeft
<1>5. \/ PlacesLeft[mainPc'] = PlacesLeft[mainPc] /\ n' - n <= 5
      \/ PlacesLeft[mainPc'] - PlacesLeft[mainPc] <= 2 /\ n' = n
  BY <1>2 DEF Navigates
<1>6. n \in Nat /\ n' \in Nat
  BY DEF Navigates
<1>7. 6 * (c - 1) + n' + PlacesLeft[mainPc'] < 6 * c + n + PlacesLeft[mainPc]
  BY <1>1, <1>2, <1>5, <1>6, Lighter
<1> QED
  BY <1>3, <1>4, <1>7

LEMMA CodeDescends ==
  ASSUME IInv, ActivityCode, InPass, InPass'
  PROVE  StepsLeft' < StepsLeft
<1>1. CASE \/ RequestUpdate \/ RequestUpdateNow \/ TakeLock \/ RejectedWait
           \/ UpdateAndWait \/ Finish \/ RaiseAlert
           \/ \E a \in Act : Replace(a) \/ StartActivityForResult(a)
  <2> DEFINE Called ==
        /\ calls < MaxCalls /\ calls' = calls + 1 /\ mainPc \in {"code", "locked"}
        /\ \/ mainPc' = mainPc
           \/ mainPc' \in {"locked", "notify"} /\ action' = action
  <2>1. RequestUpdate \/ RequestUpdateNow \/ Finish \/ RaiseAlert => Called
    BY DEF RequestUpdate, RequestUpdateNow, Finish, RaiseAlert, InCode
  <2>2. TakeLock \/ RejectedWait \/ UpdateAndWait => Called
    BY DEF TakeLock, RejectedWait, UpdateAndWait, RegisterWaiter, InCode, navVars
  <2>3. ASSUME NEW a \in Act, Replace(a) \/ StartActivityForResult(a) PROVE Called
    BY <2>3 DEF Replace, StartActivityForResult, InCode
  <2>4. Called
    BY <1>1, <2>1, <2>2, <2>3
  <2> QED
    BY <2>4, CallDescends
<1>2. CASE WriteAndUnlock
  BY <1>2, Places, CallsFacts DEF WriteAndUnlock, InPass, StepsLeft, Navigates, navVars
<1>3. CASE Return
  <2>1. ret \in Returns
    BY DEF IInv, TypeOK
  <2> QED
    BY <1>3, <2>1, Places, CallsFacts DEF Return, Returns, InPass, StepsLeft, Navigates, navVars
<1> QED
  BY <1>1, <1>2, <1>3 DEF ActivityCode

\* A pop or a launch weighs less than the navigation it serves.
LEMMA LoopDescends ==
  ASSUME IInv, ManagerLoop, InPass, InPass'
  PROVE  StepsLeft' < StepsLeft
<1>1. CASE NotifyRender
  BY <1>1, Places, CallsFacts DEF NotifyRender, InPass, StepsLeft, Navigates, navVars
<1>2. CASE WaitReturns
  BY <1>2, Places, CallsFacts DEF WaitReturns, InPass, StepsLeft, Navigates, navVars
<1>3. CASE DrainDone
  BY <1>3, Places, CallsFacts DEF DrainDone, InPass, StepsLeft, Navigates, navVars
<1>4. CASE DrainPop
  BY <1>4, Places, CallsFacts DEF DrainPop, InPass, StepsLeft, Navigates, navVars
<1>5. CASE DrainLaunch
  BY <1>5, Places, CallsFacts DEF DrainLaunch, InPass, StepsLeft, Navigates, navVars
<1>6. CASE PopLast
  <2>1. action = "Pop"
    BY <1>6 DEF PopLast, EndLast, IInv, PendingInv
  <2> QED
    BY <1>6, <2>1, Places, CallsFacts DEF PopLast, EndLast, InPass, StepsLeft, Navigates
<1>7. CASE \E a \in Act : GoHome(a)
  BY <1>7, Places, CallsFacts DEF GoHome, LaunchNow, InPass, StepsLeft, Navigates
<1>8. CASE PopToHandler \/ PopToParent
  <2>1. action = "Pop" /\ action' = "None" /\ calls' = calls /\ mainPc = "pop"
    BY <1>8 DEF PopToHandler, PopToParent, ResumeParent, IInv, PendingInv
  <2>2. mainPc' \in {"code", "queue"}
    BY <1>8 DEF PopToHandler, PopToParent
  <2> QED
    BY <2>1, <2>2, Places, CallsFacts DEF StepsLeft, Navigates
<1>9. CASE QueueRepaint
  BY <1>9, Places, CallsFacts DEF QueueRepaint, InPass, StepsLeft, Navigates, navVars
<1>10. CASE SkipRepaint
  BY <1>10, Places, CallsFacts DEF SkipRepaint, InPass, StepsLeft, Navigates, navVars
<1>11. CASE LaunchReplacing \/ LaunchPushing
  <2>1. /\ action # "None" /\ action' = "None" /\ calls' = calls
        /\ mainPc = "launch" /\ mainPc' = "code"
    BY <1>11 DEF LaunchReplacing, LaunchPushing, Launch
  <2> QED
    BY <2>1, Places, CallsFacts DEF StepsLeft, Navigates
<1>12. CASE \E a \in Act : TailAlert(a)
  <2>1. mainPc = "tail" /\ mainPc' = "flush" /\ calls' = calls
    BY <1>12 DEF TailAlert, InPass
  <2>2. ~Navigates'
    BY <2>1 DEF Navigates
  <2> QED
    BY <2>1, <2>2, Places, CallsFacts DEF StepsLeft
<1>13. CASE HeapExhausted
  <2>1. mainPc' = "setup"
    BY <1>13 DEF HeapExhausted, Reset
  <2>2. mainPc' \in DOMAIN PlacesLeft
    BY DEF InPass, PlacesLeft
  <2> QED
    BY <2>1, <2>2, Places
<1>14. CASE TailNoAlert
  BY <1>14, Places, CallsFacts DEF TailNoAlert, InPass, StepsLeft, Navigates, navVars
<1>15. CASE Flush
  BY <1>15, Places DEF Flush, InPass
<1> QED
  BY <1>1, <1>2, <1>3, <1>4, <1>5, <1>6, <1>7, <1>8, <1>9, <1>10, <1>11, <1>12,
     <1>13, <1>14, <1>15 DEF ManagerLoop

\* Neither main.cpp nor the render task acts on what is left of a pass.
LEMMA OthersKeepPass ==
  /\ MainCpp => ~InPass
  /\ RenderLoop \/ RenderRequests \/ RenderAlerts => UNCHANGED <<mainPc, calls, action>>
<1>1. MainCpp => ~InPass
  BY Places DEF MainCpp, SetupLaunch, SetupRoute, SetupPaint, Loop, UsbChanged,
     GlobalPush, GlobalGoTo, GoToSleep, InOuter, InPass
<1>2. RenderLoop \/ RenderRequests \/ RenderAlerts => UNCHANGED <<mainPc, calls, action>>
  BY DEF RenderLoop, RenderTake, RenderAcquire, RenderBegin, RenderNothing,
     RenderRequests, RenderAlerts, RenderEnd, TakeWaiter, WakeWaiter,
     RenderRelease, navVars
<1> QED
  BY <1>1, <1>2

\* A pass of loop() has a bound on its steps, which every step of the main task
\* lowers and no step of the render task changes: the drain loop does not spin,
\* whatever the code of the activities does.
THEOREM PassEnds == Spec => PassDescends /\ [](InPass => StepsLeft \in 0 .. 6 * MaxCalls + 13)
<1> DEFINE Descends ==
      InPass /\ InPass' => IF Main THEN StepsLeft' < StepsLeft ELSE StepsLeft' = StepsLeft
<1>1. IInv /\ [Next]_vars => [Descends]_vars
  <2> SUFFICES ASSUME IInv, Next, InPass, InPass'
               PROVE  IF Main THEN StepsLeft' < StepsLeft ELSE StepsLeft' = StepsLeft
    OBVIOUS
  <2>1. CASE Main
    BY <2>1, CodeDescends, LoopDescends, OthersKeepPass DEF Main
  <2>2. CASE ~Main
    <3>1. ~WakeUp
      BY Places DEF WakeUp, InPass
    <3>2. UNCHANGED <<mainPc, calls, action>>
      BY <2>2, <3>1, OthersKeepPass DEF Next
    <3>3. StepsLeft' = StepsLeft
      BY <3>2 DEF StepsLeft, Navigates, PlacesLeft
    <3> QED
      BY <2>2, <3>3
  <2> QED
    BY <2>1, <2>2
<1>2. IInv => (InPass => StepsLeft \in 0 .. 6 * MaxCalls + 13)
  <2> SUFFICES ASSUME IInv, InPass PROVE StepsLeft \in 0 .. 6 * MaxCalls + 13
    OBVIOUS
  <2>1. PlacesLeft[mainPc] \in 1 .. 8
    BY Places DEF InPass
  <2>2. calls \in 0 .. MaxCalls
    BY DEF IInv, TypeOK
  <2> QED
    BY <2>1, <2>2, MaxCallsAssumption DEF StepsLeft
<1> QED
  BY <1>1, <1>2, Invariance, PTL DEF Spec, PassDescends

(***************************************************************************)
(* The refinement: every step of the two tasks is a step of the stack of   *)
(* screens, or does not change it.                                         *)
(***************************************************************************)

\* The stack's variable in terms of the manager's.
screens == IF current = Null THEN <<>> ELSE Append(stack, current)

\* A sequence, its top and what is below.
LEMMA AppendFacts ==
  ASSUME NEW s \in Seq(Act), NEW a \in Act
  PROVE  /\ Append(s, a) \in Seq(Act)
         /\ Append(s, a) # <<>>
         /\ Last(Append(s, a)) = a
         /\ Front(Append(s, a)) = s
         /\ \A b : b \in ToSet(Append(s, a)) => b = a \/ \E i \in 1..Len(s) : s[i] = b
<1> DEFINE t == Append(s, a)
           n == Len(s)
<1>1. /\ t \in Seq(Act) /\ t # <<>> /\ Len(t) = n + 1 /\ n \in Nat
      /\ \A i \in 1..n : t[i] = s[i]
      /\ t[n + 1] = a
  BY AppendProperties
<1> HIDE DEF t
<1>2. /\ Front(t) \in Seq(Act) /\ Len(Front(t)) = Len(t) - 1
      /\ \A i \in 1..(Len(t) - 1) : Front(t)[i] = t[i]
      /\ Last(t) = t[Len(t)]
  BY <1>1, FrontLast
<1>3. Last(t) = a
  BY <1>1, <1>2
<1>4. Len(Front(t)) = Len(s) /\ \A i \in 1..Len(s) : Front(t)[i] = s[i]
  BY <1>1, <1>2
<1>5. Front(t) = s
  BY <1>2, <1>4, SeqEqual
<1>6. ASSUME NEW b \in ToSet(t) PROVE b = a \/ \E i \in 1..Len(s) : s[i] = b
  <2>1. PICK i \in 1..Len(t) : t[i] = b
    BY <1>1, <1>6 DEF ToSet
  <2> QED
    BY <1>1, <2>1
<1> QED
  BY <1>1, <1>3, <1>5, <1>6 DEF t

\* The parent on top of what was below it.
LEMMA FrontAppendLast ==
  ASSUME NEW s \in Seq(Act), s # <<>>
  PROVE  Append(Front(s), Last(s)) = s
<1> DEFINE t == Append(Front(s), Last(s))
           n == Len(s)
<1>1. /\ Front(s) \in Seq(Act) /\ Len(Front(s)) = n - 1 /\ n \in Nat \ {0}
      /\ \A i \in 1..(n - 1) : Front(s)[i] = s[i]
      /\ Last(s) = s[n] /\ Last(s) \in Act
  BY FrontLast
<1>2. /\ t \in Seq(Act) /\ Len(t) = n
      /\ \A i \in 1..(n - 1) : t[i] = Front(s)[i]
      /\ t[n] = Last(s)
  BY <1>1, AppendProperties
<1> HIDE DEF t
<1>3. \A i \in 1..n : t[i] = s[i]
  BY <1>1, <1>2
<1>4. t = s
  BY <1>2, <1>3, SeqEqual
<1> QED
  BY <1>4 DEF t

\* The operators on sequences of the two modules are the same.
LEMMA SameSequences ==
  \A s : Screens!Front(s) = Front(s) /\ Screens!Last(s) = Last(s) /\ Screens!ToSet(s) = ToSet(s)
BY DEF Screens!Front, Front, Screens!Last, Last, Screens!ToSet, ToSet

\* While the main task navigates it holds the mutex, or there is no activity:
\* nothing is painted.
LEMMA NothingPainted ==
  ASSUME IInv, mainPc \in {"setup", "home", "pop", "launch"}
  PROVE  rendering = Null
BY DEF IInv, LockInv, CurrentInv, RenderInv, TypeOK, RenderPcs, Tasks, Free

\* The steps that neither navigate, nor ask for it, nor paint.
LEMMA OtherStepRefines ==
  ASSUME UNCHANGED <<current, stack, rendering, action, pending>>
  PROVE  UNCHANGED Screens!stackVars
BY DEF Screens!stackVars

\* What is on the stack.
LEMMA ScreensFacts ==
  ASSUME IInv
  PROVE  /\ screens \in Seq(Act)
         /\ \A b \in ToSet(screens) : b \in Act /\ (b = current \/ b \in ToSet(stack))
<1>1. current \in Act \union {Null} /\ stack \in Seq(Act)
  BY DEF IInv, TypeOK
<1>2. CASE current = Null
  BY <1>2 DEF screens, ToSet
<1>3. CASE current # Null
  <2>1. screens \in Seq(Act)
    BY <1>1, <1>3, AppendFacts DEF screens
  <2>2. ASSUME NEW b \in ToSet(screens) PROVE b = current \/ b \in ToSet(stack)
    <3>1. b = current \/ \E i \in 1..Len(stack) : stack[i] = b
      BY <1>1, <1>3, <2>2, AppendFacts DEF screens
    <3> QED
      BY <1>1, <3>1 DEF ToSet
  <2>3. ToSet(screens) \subseteq Act
    BY <2>1 DEF ToSet
  <2> QED
    BY <2>1, <2>2, <2>3
<1> QED
  BY <1>2, <1>3

\* A call that asks for a navigation, in the code of an activity, in main.cpp or
\* for an alert: a new activity is on no stack.
LEMMA AskRefines ==
  ASSUME IInv, UNCHANGED <<current, stack, rendering>>,
         \/ PopActivity
         \/ \E a \in Act : PushActivity(a) \/ ReplaceActivity(a)
  PROVE  Screens!Next
<1>1. CASE PopActivity
  <2>1. Null \notin ToSet(screens)
    BY ScreensFacts, NullAssumption
  <2>2. Screens!Ask("Pop", Null)
    BY <1>1, <2>1, SameSequences DEF PopActivity, Screens!Ask, screens
  <2> QED
    BY <2>2 DEF Screens!Next
<1>2. ASSUME NEW a \in Act, PushActivity(a) \/ ReplaceActivity(a) PROVE Screens!Next
  <2>1. a \notin ToSet(stack) /\ a # current
    BY <1>2, NullAssumption DEF PushActivity, ReplaceActivity, New, Owned
  <2>2. a \notin ToSet(screens)
    BY <2>1, ScreensFacts
  <2>3. Screens!Ask("Push", a) \/ Screens!Ask("Replace", a)
    BY <1>2, <2>2, SameSequences DEF PushActivity, ReplaceActivity, Screens!Ask, screens
  <2> QED
    BY <2>3 DEF Screens!Next
<1> QED
  BY <1>1, <1>2

LEMMA LaunchNowRefines ==
  ASSUME IInv, NEW a \in Act, NEW next, LaunchNow(a, next), mainPc \in {"setup", "home"}
  PROVE  Screens!First(a)
<1>1. current = Null /\ stack = <<>> /\ rendering = Null /\ action = "None" /\ pending = Null
  BY NothingPainted DEF IInv, CurrentInv, PendingInv, PendingMatchesAction
<1>2. current' = a /\ a # Null /\ UNCHANGED <<stack, rendering, action, pending>>
  BY NullAssumption DEF LaunchNow, paintVars
<1>3. Append(<<>>, a) = <<a>>
  OBVIOUS
<1> QED
  BY <1>1, <1>2, <1>3 DEF Screens!First, Screens!Still, Screens!Nothing

LEMMA PopRefines ==
  ASSUME IInv, PopLast \/ PopToHandler \/ PopToParent
  PROVE  Screens!Pop
<1>1. /\ mainPc = "pop" /\ rendering' = rendering /\ action' = "None" /\ pending' = pending
      /\ action = "Pop" /\ pending = Null
  BY DEF PopLast, EndLast, PopToHandler, PopToParent, ResumeParent, paintVars, IInv, PendingInv,
         PendingMatchesAction
<1>2. rendering = Null /\ current \in Act /\ current # Null /\ stack \in Seq(Act)
  BY <1>1, NothingPainted DEF IInv, CurrentInv, TypeOK
<1>3. screens # <<>> /\ Front(screens) = stack
  BY <1>2, AppendFacts DEF screens
<1>4. screens' = stack
  <2>1. CASE PopLast
    BY <2>1 DEF PopLast, EndLast, screens
  <2>2. CASE PopToHandler \/ PopToParent
    <3>1. stack # <<>> /\ current' = Last(stack) /\ stack' = Front(stack)
      BY <2>2 DEF PopToHandler, PopToParent, ResumeParent
    <3>2. current' # Null
      BY <1>2, <3>1, FrontLast, NullAssumption
    <3> QED
      BY <1>2, <3>1, <3>2, FrontAppendLast DEF screens
  <2> QED
    BY <2>1, <2>2
<1> QED
  BY <1>1, <1>2, <1>3, <1>4, SameSequences
     DEF Screens!Pop, Screens!Serve, Screens!Still, Screens!Nothing, screens

LEMMA LaunchRefines ==
  ASSUME IInv, LaunchReplacing \/ LaunchPushing
  PROVE  Screens!Push \/ Screens!Replace
<1>1. /\ mainPc = "launch" /\ current' = pending /\ rendering' = rendering
      /\ action' = "None" /\ pending' = Null
  BY DEF LaunchReplacing, LaunchPushing, Launch, paintVars
<1>2. rendering = Null /\ current \in Act /\ current # Null /\ stack \in Seq(Act)
  BY <1>1, NothingPainted DEF IInv, CurrentInv, TypeOK
<1>3. pending \in Act /\ pending # Null
  BY <1>1, NullAssumption DEF IInv, TypeOK, PendingInv, PendingMatchesAction
<1>4. screens # <<>> /\ screens = Append(stack, current)
  BY <1>2, AppendFacts DEF screens
<1>5. CASE LaunchReplacing
  <2>1. action = "Replace" /\ stack' = <<>>
    BY <1>5 DEF LaunchReplacing
  <2>2. screens' = <<pending>>
    BY <1>1, <1>3, <2>1 DEF screens
  <2> QED
    BY <1>1, <1>2, <1>4, <2>1, <2>2
       DEF Screens!Replace, Screens!Serve, Screens!Still, Screens!Nothing, screens
<1>6. CASE LaunchPushing
  <2>1. action = "Push" /\ stack' = screens
    BY <1>4, <1>6 DEF LaunchPushing
  <2>2. screens' = Append(screens, pending)
    BY <1>1, <1>3, <2>1 DEF screens
  <2> QED
    BY <1>1, <1>2, <1>4, <2>1, <2>2
       DEF Screens!Push, Screens!Serve, Screens!Still, Screens!Nothing, screens
<1> QED
  BY <1>5, <1>6

LEMMA PaintRefines ==
  ASSUME IInv, RenderBegin \/ RenderEnd
  PROVE  Screens!BeginPaint \/ Screens!EndPaint
<1>1. UNCHANGED <<current, stack, action, pending>>
  BY DEF RenderBegin, RenderEnd, navVars
<1>2. CASE RenderBegin
  <2>1. rendering = Null /\ rendering' = current /\ current # Null /\ current \in Act
    BY <1>2 DEF RenderBegin, IInv, RenderInv, TypeOK
  <2>2. screens # <<>> /\ Last(screens) = current
    BY <2>1, AppendFacts DEF screens, IInv, TypeOK
  <2> QED
    BY <1>1, <2>1, <2>2, SameSequences DEF Screens!BeginPaint, screens
<1>3. CASE RenderEnd
  BY <1>1, <1>3 DEF RenderEnd, IInv, RenderInv, Screens!EndPaint
<1> QED
  BY <1>2, <1>3

LEMMA StepRefines ==
  ASSUME IInv, [Next]_vars
  PROVE  [Screens!Next]_Screens!stackVars
<1> USE DEF navVars, paintVars
<1>1. CASE ActivityCode
  <2>1. CASE Finish \/ \E a \in Act : Replace(a) \/ StartActivityForResult(a)
    BY <2>1, AskRefines DEF Finish, Replace, StartActivityForResult
  <2>2. CASE \/ RequestUpdate \/ RequestUpdateNow \/ TakeLock \/ WriteAndUnlock \/ RejectedWait
             \/ UpdateAndWait \/ RaiseAlert \/ Return
    BY <2>2, OtherStepRefines
       DEF RequestUpdate, RequestUpdateNow, TakeLock, WriteAndUnlock, RejectedWait,
           UpdateAndWait, RegisterWaiter, RaiseAlert, Return
  <2> QED
    BY <1>1, <2>1, <2>2 DEF ActivityCode
<1>2. CASE MainCpp
  <2>1. ASSUME NEW a \in Act, SetupLaunch(a) PROVE Screens!Next
    BY <2>1, LaunchNowRefines DEF SetupLaunch, Screens!Next
  <2>2. ASSUME NEW a \in Act, SetupRoute(a) \/ GlobalPush(a) \/ GlobalGoTo(a) \/ GoToSleep(a)
        PROVE  Screens!Next
    BY <2>2, AskRefines DEF SetupRoute, GlobalPush, GlobalGoTo, GoToSleep
  <2>3. CASE SetupPaint \/ Loop \/ UsbChanged
    BY <2>3, OtherStepRefines DEF SetupPaint, RegisterWaiter, Loop, UsbChanged
  <2> QED
    BY <1>2, <2>1, <2>2, <2>3 DEF MainCpp
<1>3. CASE ManagerLoop
  <2>1. ASSUME NEW a \in Act, GoHome(a) PROVE Screens!Next
    BY <2>1, LaunchNowRefines DEF GoHome, Screens!Next
  <2>2. CASE PopLast \/ PopToHandler \/ PopToParent
    BY <2>2, PopRefines DEF Screens!Next
  <2>3. CASE LaunchReplacing \/ LaunchPushing
    BY <2>3, LaunchRefines DEF Screens!Next
  <2>4. CASE HeapExhausted
    BY <2>4 DEF HeapExhausted, Reset, Screens!Next, Screens!Off, Screens!Nothing
  <2>5. ASSUME NEW a \in Act, TailAlert(a) PROVE Screens!Next
    BY <2>5, AskRefines DEF TailAlert
  <2>6. CASE \/ NotifyRender \/ WaitReturns \/ DrainDone \/ DrainPop \/ DrainLaunch
             \/ QueueRepaint \/ SkipRepaint \/ TailNoAlert \/ Flush
    BY <2>6, OtherStepRefines
       DEF NotifyRender, WaitReturns, DrainDone, DrainPop, DrainLaunch, QueueRepaint, SkipRepaint,
           TailNoAlert, Flush
  <2> QED
    BY <1>3, <2>1, <2>2, <2>3, <2>4, <2>5, <2>6 DEF ManagerLoop
<1>4. CASE RenderLoop \/ RenderRequests \/ RenderAlerts
  <2>1. CASE RenderBegin \/ RenderEnd
    BY <2>1, PaintRefines DEF Screens!Next
  <2>2. CASE ~(RenderBegin \/ RenderEnd)
    BY <1>4, <2>2, OtherStepRefines
       DEF RenderLoop, RenderTake, RenderAcquire, RenderNothing, TakeWaiter, WakeWaiter,
           RenderRelease, RenderRequests, RenderAlerts
  <2> QED
    BY <2>1, <2>2
<1>5. CASE WakeUp
  BY <1>5 DEF WakeUp, Reset, Screens!Next, Screens!Off, Screens!Nothing
<1>6. CASE UNCHANGED vars
  BY <1>6, OtherStepRefines DEF vars
<1> QED
  BY <1>1, <1>2, <1>3, <1>4, <1>5, <1>6 DEF Next, Main

LEMMA InitRefines == Init => Screens!Init
BY DEF Init, Screens!Init, Screens!Nothing

\* Pushes, pops and replacements, asked for in any order by the code of the
\* activities, by main.cpp and by an alert, take effect as one navigation of a
\* stack of screens at a time, and never under a paint.
THEOREM ManagerIsScreenStack == Spec => ImplementsScreenStack
<1>1. Init => Screens!Init
  BY InitRefines
<1>2. IInv /\ [Next]_vars => [Screens!Next]_Screens!stackVars
  BY StepRefines
<1> QED
  BY <1>1, <1>2, Invariance, PTL DEF Spec, ImplementsScreenStack, Screens!Spec
=============================================================================
