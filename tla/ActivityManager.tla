--------------------------- MODULE ActivityManager ---------------------------
(***************************************************************************)
(* The screen manager of the firmware: src/src/activities/ActivityManager  *)
(* and the RenderLock and Activity calls it serves.                        *)
(*                                                                         *)
(* Two FreeRTOS tasks run here.  The main task runs main.cpp's loop(),     *)
(* which calls ActivityManager::loop(): it runs the code of the current    *)
(* activity, then the navigation that code asked for (push, pop, replace), *)
(* then flushes one deferred repaint.  The render task sleeps on its task  *)
(* notification and paints the current activity under the one rendering    *)
(* mutex.                                                                  *)
(*                                                                         *)
(* An activity is a heap object: a member of Act.  An object that nobody   *)
(* owns may be allocated again, as a heap address may.  What the code of   *)
(* an activity does is left open: any sequence of the calls Activity.h     *)
(* offers, at most MaxCalls of them in one pass of the manager's loop.     *)
(***************************************************************************)
EXTENDS Naturals, Sequences, SequencesExt

CONSTANTS
    Act,        \* the activity objects
    Null,       \* the null pointer
    MaxCalls    \* bound: calls of activity code and main.cpp in one pass

ASSUME NullAssumption == Null \notin Act
ASSUME MaxCallsAssumption == MaxCalls \in Nat

VARIABLES
    mainPc,           \* where the main task is
    ret,              \* where the running activity code returns to
    calls,            \* calls made in this pass (bounded by MaxCalls)
    current,          \* currentActivity
    stack,            \* stackActivities
    pending,          \* pendingActivity
    action,           \* pendingAction
    handler,          \* resultHandler of an activity: the child it waits for
    sleepAct,         \* the SleepActivity goToSleep() created, once it has
    armed,            \* millis() >= allowSleepAt: global actions are served
    mutex,            \* holder of renderingMutex
    requestedUpdate,  \* the deferred repaint flag
    renderNotified,   \* the render task's notification count is not 0
    mainNotified,     \* the main task's notification count is not 0
    waiter,           \* waitingTaskHandle is the main task
    alert,            \* APP_STATE.hasPendingAlert
    renderPc,         \* where the render task is
    rendering,        \* the object whose render() runs
    unpainted         \* history: activities with a locked write no render saw

sleepVars  == <<sleepAct, armed>>
navVars    == <<current, stack, pending, action, handler, sleepVars>>
signalVars == <<requestedUpdate, renderNotified, mainNotified, waiter, alert>>
paintVars  == <<renderPc, rendering>>
vars == <<mainPc, ret, calls, navVars, mutex, signalVars, paintVars, unpainted>>

MainPcs   == {"setup", "route", "paint", "outer", "code", "locked", "notify",
              "blocked", "drain", "pop", "home", "queue", "launch", "tail",
              "flush", "asleep"}
Returns   == {"route", "paint", "painted", "outer", "drain", "queue"}
Actions   == {"None", "Push", "Pop", "Replace"}
RenderPcs == {"idle", "acquire", "check", "rendering", "finish", "wake",
              "release"}
Tasks     == {"main", "render"}
Free      == "free"

Owned == ({current, pending, sleepAct} \ {Null}) \union ToSet(stack)

\* std::make_unique: an object that nothing owns.
New(a) == a \in Act \ Owned

(***************************************************************************)
(* Power-on: no activity, an idle render task (ActivityManager::begin).    *)
(***************************************************************************)
Init ==
    /\ mainPc = "setup"
    /\ ret = "outer"
    /\ calls = 0
    /\ current = Null
    /\ stack = <<>>
    /\ pending = Null
    /\ action = "None"
    /\ handler = [a \in Act |-> Null]
    /\ sleepAct = Null
    /\ armed = FALSE
    /\ mutex = Free
    /\ requestedUpdate = FALSE
    /\ renderNotified = FALSE
    /\ mainNotified = FALSE
    /\ waiter = FALSE
    /\ alert = FALSE
    /\ renderPc = "idle"
    /\ rendering = Null
    /\ unpainted = {}

\* A reset loses everything in RAM.
Reset ==
    /\ mainPc' = "setup"
    /\ ret' = "outer"
    /\ calls' = 0
    /\ current' = Null
    /\ stack' = <<>>
    /\ pending' = Null
    /\ action' = "None"
    /\ handler' = [a \in Act |-> Null]
    /\ sleepAct' = Null
    /\ armed' = FALSE
    /\ mutex' = Free
    /\ requestedUpdate' = FALSE
    /\ renderNotified' = FALSE
    /\ mainNotified' = FALSE
    /\ waiter' = FALSE
    /\ alert' = FALSE
    /\ renderPc' = "idle"
    /\ rendering' = Null
    /\ unpainted' = {}

(***************************************************************************)
(* The calls an activity makes.  Each is a step of the main task at        *)
(* mainPc = "code", between the points where it returns.                   *)
(***************************************************************************)
InCode ==
    /\ mainPc = "code"
    /\ calls < MaxCalls
    /\ calls' = calls + 1

\* requestUpdate(false): repaint after this pass.
RequestUpdate ==
    /\ InCode
    /\ requestedUpdate' = TRUE
    /\ UNCHANGED <<mainPc, ret, navVars, mutex, renderNotified, mainNotified,
                   waiter, alert, paintVars, unpainted>>

\* requestUpdate(true): notify the render task now.
RequestUpdateNow ==
    /\ InCode
    /\ renderNotified' = TRUE
    /\ UNCHANGED <<mainPc, ret, navVars, mutex, requestedUpdate, mainNotified,
                   waiter, alert, paintVars, unpainted>>

\* Fault: the lock does not exclude the other task.
TakeLockUnguarded ==
    /\ InCode
    /\ mutex' = "main"
    /\ mainPc' = "locked"
    /\ UNCHANGED <<ret, navVars, signalVars, paintVars, unpainted>>

\* RenderLock lock: blocks while the render task holds the mutex.
TakeLock ==
    /\ InCode
    /\ mutex = Free
    /\ mutex' = "main"
    /\ mainPc' = "locked"
    /\ UNCHANGED <<ret, navVars, signalVars, paintVars, unpainted>>

\* The guarded write of what render() reads, and the end of the lock's scope.
WriteAndUnlock ==
    /\ mainPc = "locked"
    /\ mutex' = Free
    /\ mainPc' = "code"
    /\ unpainted' = unpainted \union {current}
    /\ UNCHANGED <<ret, calls, navVars, signalVars, paintVars>>

\* Fault: requestUpdateAndWait() does not look at the mutex holder.
RejectedWaitAccepted ==
    /\ mainPc = "locked"
    /\ calls < MaxCalls
    /\ calls' = calls + 1
    /\ waiter' = TRUE
    /\ mainPc' = "notify"
    /\ UNCHANGED <<ret, navVars, mutex, requestedUpdate, renderNotified,
                   mainNotified, alert, paintVars, unpainted>>

\* requestUpdateAndWait() with the lock held: Rejected, nothing is registered.
RejectedWait ==
    /\ mainPc = "locked"
    /\ calls < MaxCalls
    /\ calls' = calls + 1
    /\ UNCHANGED <<mainPc, ret, navVars, mutex, signalVars, paintVars, unpainted>>

\* requestUpdateAndWait(): the critical section that registers the waiter.
RegisterWaiter ==
    /\ ~waiter
    /\ waiter' = TRUE
    /\ mainPc' = "notify"
    /\ UNCHANGED <<navVars, mutex, requestedUpdate, renderNotified,
                   mainNotified, alert, paintVars, unpainted>>

UpdateAndWait == InCode /\ RegisterWaiter /\ UNCHANGED ret

\* ... then the notification of the render task ...
NotifyRender ==
    /\ mainPc = "notify"
    /\ renderNotified' = TRUE
    /\ mainPc' = "blocked"
    /\ UNCHANGED <<ret, calls, navVars, mutex, requestedUpdate, mainNotified,
                   waiter, alert, paintVars, unpainted>>

\* ... then the wait for the render task's notification: Rendered.
WaitReturns ==
    /\ mainPc = "blocked"
    /\ mainNotified
    /\ mainNotified' = FALSE
    /\ mainPc' = IF ret = "painted" THEN "outer" ELSE "code"
    /\ UNCHANGED <<ret, calls, navVars, mutex, requestedUpdate, renderNotified,
                   waiter, alert, paintVars, unpainted>>

(***************************************************************************)
(* The navigation calls.                                                   *)
(***************************************************************************)

\* replaceActivity() with an activity running: deferred.
ReplaceActivity(a) ==
    /\ New(a)
    /\ pending' = a
    /\ action' = "Replace"

\* pushActivity(): an activity already pending is dropped.
PushActivity(a) ==
    /\ New(a)
    /\ pending' = a
    /\ action' = "Push"

\* Fault: an activity already pending is left behind.
PopActivityKeepingPending ==
    /\ action' = "Pop"
    /\ UNCHANGED pending

\* popActivity(): an activity already pending is dropped.
PopActivity ==
    /\ action' = "Pop"
    /\ pending' = Null

Replace(a) ==
    /\ InCode
    /\ ReplaceActivity(a)
    /\ UNCHANGED <<mainPc, ret, current, stack, handler, sleepVars, mutex,
                   signalVars, paintVars, unpainted>>

StartActivityForResult(a) ==
    /\ InCode
    /\ PushActivity(a)
    /\ handler' = [handler EXCEPT ![current] = a]
    /\ UNCHANGED <<mainPc, ret, current, stack, sleepVars, mutex, signalVars,
                   paintVars, unpainted>>

Finish ==
    /\ InCode
    /\ PopActivity
    /\ UNCHANGED <<mainPc, ret, current, stack, handler, sleepVars, mutex,
                   signalVars, paintVars, unpainted>>

\* BookActions and the reader leave a message for the alert screen.
RaiseAlert ==
    /\ InCode
    /\ alert' = TRUE
    /\ UNCHANGED <<mainPc, ret, navVars, mutex, requestedUpdate,
                   renderNotified, mainNotified, waiter, paintVars, unpainted>>

Return ==
    /\ mainPc = "code"
    /\ mainPc' = ret
    /\ UNCHANGED <<ret, calls, navVars, mutex, signalVars, paintVars, unpainted>>

ActivityCode ==
    \/ RequestUpdate
    \/ RequestUpdateNow
    \/ TakeLock
    \/ WriteAndUnlock
    \/ RejectedWait
    \/ UpdateAndWait
    \/ \E a \in Act : Replace(a)
    \/ \E a \in Act : StartActivityForResult(a)
    \/ Finish
    \/ RaiseAlert
    \/ Return

(***************************************************************************)
(* setup() and loop() of main.cpp.                                         *)
(***************************************************************************)

\* replaceActivity() with no activity running: launched at once, no lock.
LaunchNow(a, next) ==
    /\ New(a)
    /\ current' = a
    /\ ret' = next
    /\ mainPc' = "code"
    /\ UNCHANGED <<stack, pending, action, handler, sleepVars, mutex,
                   signalVars, paintVars, unpainted>>

\* The first activity: the splash screen, which setup() then replaces
\* ("route"); the target of a silent restart, which setup() waits to see
\* painted ("paint"); or the target of a quick resume.
SetupLaunch(a) ==
    /\ mainPc = "setup"
    /\ calls' = 0
    /\ \E next \in {"route", "paint", "outer"} : LaunchNow(a, next)

SetupRoute(a) ==
    /\ mainPc = "route"
    /\ ReplaceActivity(a)
    /\ mainPc' = "outer"
    /\ UNCHANGED <<ret, calls, current, stack, handler, sleepVars, mutex,
                   signalVars, paintVars, unpainted>>

SetupPaint ==
    /\ mainPc = "paint"
    /\ RegisterWaiter
    /\ ret' = "painted"
    /\ UNCHANGED calls

\* One pass of activityManager.loop(): first the current activity's loop().
RunActivity ==
    /\ mainPc' = "code"
    /\ ret' = "drain"
    /\ calls' = 0

Loop ==
    /\ mainPc = "outer"
    /\ RunActivity
    /\ UNCHANGED <<navVars, mutex, signalVars, paintVars, unpainted>>

\* Between two passes: a USB plug, or a power button or long-press action,
\* which main.cpp serves once allowSleepAt has passed.
InOuter ==
    /\ mainPc = "outer"
    /\ calls < MaxCalls
    /\ calls' = calls + 1

UsbChanged ==
    /\ InOuter
    /\ requestedUpdate' = TRUE
    /\ UNCHANGED <<mainPc, ret, navVars, mutex, renderNotified, mainNotified,
                   waiter, alert, paintVars, unpainted>>

GlobalPush(a) ==
    /\ InOuter
    /\ armed
    /\ PushActivity(a)
    /\ UNCHANGED <<mainPc, ret, current, stack, handler, sleepVars, mutex,
                   signalVars, paintVars, unpainted>>

GlobalGoTo(a) ==
    /\ InOuter
    /\ armed
    /\ ReplaceActivity(a)
    /\ UNCHANGED <<mainPc, ret, current, stack, handler, sleepVars, mutex,
                   signalVars, paintVars, unpainted>>

\* goToSleep(): replaceActivity(SleepActivity), then a nested loop().
GoToSleep(a) ==
    /\ mainPc = "outer"
    /\ armed
    /\ ReplaceActivity(a)
    /\ sleepAct' = a
    /\ RunActivity
    /\ UNCHANGED <<current, stack, handler, armed, mutex, signalVars, paintVars,
                   unpainted>>

\* Waking from deep sleep is a reset: RAM is lost, setup() runs again.
WakeUp == mainPc = "asleep" /\ Reset

MainCpp ==
    \/ \E a \in Act : SetupLaunch(a)
    \/ \E a \in Act : SetupRoute(a)
    \/ SetupPaint
    \/ Loop
    \/ UsbChanged
    \/ \E a \in Act : GlobalPush(a)
    \/ \E a \in Act : GlobalGoTo(a)
    \/ \E a \in Act : GoToSleep(a)

(***************************************************************************)
(* The rest of ActivityManager::loop(): drain the pending actions.         *)
(***************************************************************************)
DrainDone ==
    /\ mainPc = "drain"
    /\ action = "None"
    /\ mainPc' = "tail"
    /\ UNCHANGED <<ret, calls, navVars, mutex, signalVars, paintVars, unpainted>>

DrainPop ==
    /\ mainPc = "drain"
    /\ action = "Pop"
    /\ mutex = Free
    /\ mutex' = "main"
    /\ mainPc' = "pop"
    /\ UNCHANGED <<ret, calls, navVars, signalVars, paintVars, unpainted>>

\* Fault: the navigation does not wait for a render that is under way.
DrainLaunchUnlocked ==
    /\ mainPc = "drain"
    /\ action \in {"Push", "Replace"}
    /\ pending # Null
    /\ mainPc' = "launch"
    /\ UNCHANGED <<ret, calls, navVars, mutex, signalVars, paintVars, unpainted>>

DrainLaunch ==
    /\ mainPc = "drain"
    /\ action \in {"Push", "Replace"}
    /\ pending # Null
    /\ mutex = Free
    /\ mutex' = "main"
    /\ mainPc' = "launch"
    /\ UNCHANGED <<ret, calls, navVars, signalVars, paintVars, unpainted>>

\* The last activity finished and is destroyed under the lock.
EndLast ==
    /\ mainPc = "pop"
    /\ stack = <<>>
    /\ handler' = [handler EXCEPT ![current] = Null]
    /\ unpainted' = unpainted \ {current}
    /\ current' = Null
    /\ mutex' = Free
    /\ UNCHANGED <<ret, calls, stack, pending, sleepVars, signalVars, paintVars>>

\* Fault: nothing takes the place of the last activity.
PopLastNotHome == EndLast /\ action' = "None" /\ mainPc' = "drain"

\* Fault: the pop stays pending, and ends the next activity too.
PopLastAgain == EndLast /\ UNCHANGED action /\ mainPc' = "home"

\* goHome() comes next.
PopLast == EndLast /\ action' = "None" /\ mainPc' = "home"

GoHome(a) ==
    /\ mainPc = "home"
    /\ UNCHANGED calls
    /\ LaunchNow(a, "drain")

\* The parent comes back; the finished activity is destroyed under the lock.
ResumeParent ==
    /\ mainPc = "pop"
    /\ stack # <<>>
    /\ unpainted' = unpainted \ {current}
    /\ current' = Last(stack)
    /\ stack' = Front(stack)
    /\ action' = "None"
    /\ mutex' = Free
    /\ UNCHANGED <<calls, pending, sleepVars, signalVars, paintVars>>

\* Fault: the parent's handler is called but stays in place.
PopToHandlerKept ==
    /\ ResumeParent
    /\ handler[Last(stack)] # Null
    /\ handler' = [handler EXCEPT ![current] = Null]
    /\ mainPc' = "code"
    /\ ret' = "queue"

\* The parent has a result handler: moved out, then called without the lock.
PopToHandler ==
    /\ ResumeParent
    /\ handler[Last(stack)] # Null
    /\ handler' = [handler EXCEPT ![current] = Null, ![Last(stack)] = Null]
    /\ mainPc' = "code"
    /\ ret' = "queue"

PopToParent ==
    /\ ResumeParent
    /\ handler[Last(stack)] = Null
    /\ handler' = [handler EXCEPT ![current] = Null]
    /\ mainPc' = "queue"
    /\ UNCHANGED ret

\* The popped-to activity is repainted unless its handler navigates away.
QueueRepaint ==
    /\ mainPc = "queue"
    /\ action = "None"
    /\ requestedUpdate' = TRUE
    /\ mainPc' = "drain"
    /\ UNCHANGED <<ret, calls, navVars, mutex, renderNotified, mainNotified,
                   waiter, alert, paintVars, unpainted>>

SkipRepaint ==
    /\ mainPc = "queue"
    /\ action # "None"
    /\ mainPc' = "drain"
    /\ UNCHANGED <<ret, calls, navVars, mutex, signalVars, paintVars, unpainted>>

\* The pending activity becomes current and its onEnter() runs, unlocked.
Launch ==
    /\ mainPc = "launch"
    /\ current' = pending
    /\ pending' = Null
    /\ action' = "None"
    /\ mutex' = Free
    /\ mainPc' = "code"
    /\ ret' = "drain"
    /\ UNCHANGED <<calls, sleepVars, signalVars, paintVars>>

LaunchReplacing ==
    /\ action = "Replace"
    /\ Launch
    /\ stack' = <<>>
    /\ handler' = [a \in Act |-> Null]
    /\ unpainted' = {}

\* Fault: the activity that goes below is not kept.
LaunchPushingOver ==
    /\ action = "Push"
    /\ Launch
    /\ UNCHANGED <<stack, handler, unpainted>>

LaunchPushing ==
    /\ action = "Push"
    /\ Launch
    /\ stack' = Append(stack, current)
    /\ UNCHANGED <<handler, unpainted>>

\* After the drain: an alert left by either task is pushed for the next pass.
TailAlert(a) ==
    /\ mainPc = "tail"
    /\ alert
    /\ alert' = FALSE
    /\ PushActivity(a)
    /\ mainPc' = "flush"
    /\ UNCHANGED <<ret, calls, current, stack, handler, sleepVars, mutex,
                   requestedUpdate, renderNotified, mainNotified, waiter,
                   paintVars, unpainted>>

\* Bound: Act is the heap.  std::make_unique of one object more aborts, and the
\* panic handler resets the device.
HeapExhausted ==
    /\ mainPc = "tail"
    /\ alert
    /\ Act \ Owned = {}
    /\ Reset

TailNoAlert ==
    /\ mainPc = "tail"
    /\ ~alert
    /\ mainPc' = "flush"
    /\ UNCHANGED <<ret, calls, navVars, mutex, signalVars, paintVars, unpainted>>

\* Fault: the deferred repaint is cleared but the render task not notified.
FlushForgetting ==
    /\ mainPc = "flush"
    /\ requestedUpdate' = FALSE
    /\ mainPc' = IF sleepAct = Null THEN "outer" ELSE "asleep"
    /\ calls' = 0
    /\ armed' = TRUE
    /\ UNCHANGED <<ret, current, stack, pending, action, handler, sleepAct,
                   mutex, renderNotified, mainNotified, waiter, alert,
                   paintVars, unpainted>>

\* requestedUpdate.exchange(false); goToSleep()'s caller then powers down.
\* setup() set allowSleepAt two seconds ahead, so the first pass comes before it.
Flush ==
    /\ mainPc = "flush"
    /\ renderNotified' = (renderNotified \/ requestedUpdate)
    /\ requestedUpdate' = FALSE
    /\ mainPc' = IF sleepAct = Null THEN "outer" ELSE "asleep"
    /\ calls' = 0
    /\ armed' = TRUE
    /\ UNCHANGED <<ret, current, stack, pending, action, handler, sleepAct,
                   mutex, mainNotified, waiter, alert, paintVars, unpainted>>

ManagerLoop ==
    \/ NotifyRender
    \/ WaitReturns
    \/ DrainDone
    \/ DrainPop
    \/ DrainLaunch
    \/ PopLast
    \/ \E a \in Act : GoHome(a)
    \/ PopToHandler
    \/ PopToParent
    \/ QueueRepaint
    \/ SkipRepaint
    \/ LaunchReplacing
    \/ LaunchPushing
    \/ \E a \in Act : TailAlert(a)
    \/ HeapExhausted
    \/ TailNoAlert
    \/ Flush

Main == ActivityCode \/ MainCpp \/ ManagerLoop

(***************************************************************************)
(* renderTaskLoop().                                                       *)
(***************************************************************************)
RenderTake ==
    /\ renderPc = "idle"
    /\ renderNotified
    /\ renderNotified' = FALSE
    /\ renderPc' = "acquire"
    /\ UNCHANGED <<mainPc, ret, calls, navVars, mutex, requestedUpdate,
                   mainNotified, waiter, alert, rendering, unpainted>>

RenderAcquire ==
    /\ renderPc = "acquire"
    /\ mutex = Free
    /\ mutex' = "render"
    /\ renderPc' = "check"
    /\ UNCHANGED <<mainPc, ret, calls, navVars, signalVars, rendering, unpainted>>

RenderBegin ==
    /\ renderPc = "check"
    /\ current # Null
    /\ rendering' = current
    /\ unpainted' = unpainted \ {current}
    /\ renderPc' = "rendering"
    /\ UNCHANGED <<mainPc, ret, calls, navVars, mutex, signalVars>>

RenderNothing ==
    /\ renderPc = "check"
    /\ current = Null
    /\ renderPc' = "finish"
    /\ UNCHANGED <<mainPc, ret, calls, navVars, mutex, signalVars, rendering,
                   unpainted>>

\* render() may ask for another repaint (Home, the EPUB reader) ...
RenderRequests ==
    /\ renderPc = "rendering"
    /\ requestedUpdate' = TRUE
    /\ UNCHANGED <<mainPc, ret, calls, navVars, mutex, renderNotified,
                   mainNotified, waiter, alert, paintVars, unpainted>>

\* ... or leave an alert (the EPUB reader, out of memory).
RenderAlerts ==
    /\ renderPc = "rendering"
    /\ alert' = TRUE
    /\ UNCHANGED <<mainPc, ret, calls, navVars, mutex, requestedUpdate,
                   renderNotified, mainNotified, waiter, paintVars, unpainted>>

RenderEnd ==
    /\ renderPc = "rendering"
    /\ rendering' = Null
    /\ renderPc' = "finish"
    /\ UNCHANGED <<mainPc, ret, calls, navVars, mutex, signalVars, unpainted>>

\* The critical section that takes the waiter, if there is one.
TakeWaiter ==
    /\ renderPc = "finish"
    /\ waiter' = FALSE
    /\ renderPc' = IF waiter THEN "wake" ELSE "release"
    /\ UNCHANGED <<mainPc, ret, calls, navVars, mutex, requestedUpdate,
                   renderNotified, mainNotified, alert, rendering, unpainted>>

\* Fault: the waiter is taken but never notified.
WakeNobody ==
    /\ renderPc = "wake"
    /\ renderPc' = "release"
    /\ UNCHANGED <<mainPc, ret, calls, navVars, mutex, signalVars, rendering,
                   unpainted>>

WakeWaiter ==
    /\ renderPc = "wake"
    /\ mainNotified' = TRUE
    /\ renderPc' = "release"
    /\ UNCHANGED <<mainPc, ret, calls, navVars, mutex, requestedUpdate,
                   renderNotified, waiter, alert, rendering, unpainted>>

RenderRelease ==
    /\ renderPc = "release"
    /\ mutex' = Free
    /\ renderPc' = "idle"
    /\ UNCHANGED <<mainPc, ret, calls, navVars, signalVars, rendering, unpainted>>

RenderLoop ==
    \/ RenderTake
    \/ RenderAcquire
    \/ RenderBegin
    \/ RenderNothing
    \/ RenderEnd
    \/ TakeWaiter
    \/ WakeWaiter
    \/ RenderRelease

Next == Main \/ WakeUp \/ RenderLoop \/ RenderRequests \/ RenderAlerts

Spec == Init /\ [][Next]_vars

(***************************************************************************)
(* Both tasks have priority 1 and are time-sliced, so each takes its next  *)
(* step when it can; activity code returns (MaxCalls).  The main task gives *)
(* the processor away in every pass of loop() while it holds no lock       *)
(* (main.cpp's delay() and yield()), so the render task is not passed over *)
(* for the mutex for ever.  Nobody has to wake the device.                 *)
(***************************************************************************)
Fairness ==
    /\ WF_vars(Main)
    /\ WF_vars(RenderLoop)
    /\ SF_vars(RenderAcquire)

FairSpec == Spec /\ Fairness

-----------------------------------------------------------------------------
(***************************************************************************)
(* Properties.                                                             *)
(***************************************************************************)

\* Every variable has its type.
FlagsOK ==
    /\ armed \in BOOLEAN
    /\ requestedUpdate \in BOOLEAN
    /\ renderNotified \in BOOLEAN
    /\ mainNotified \in BOOLEAN
    /\ waiter \in BOOLEAN
    /\ alert \in BOOLEAN

TypeOK ==
    /\ mainPc \in MainPcs
    /\ ret \in Returns
    /\ calls \in 0..MaxCalls
    /\ current \in Act \union {Null}
    /\ stack \in Seq(Act)
    /\ pending \in Act \union {Null}
    /\ action \in Actions
    /\ handler \in [Act -> Act \union {Null}]
    /\ sleepAct \in Act \union {Null}
    /\ mutex \in Tasks \union {Free}
    /\ renderPc \in RenderPcs
    /\ rendering \in Act \union {Null}
    /\ unpainted \in SUBSET Act
    /\ FlagsOK

\* The object whose render() runs on the render task is the current activity:
\* the main task neither destroys it nor moves it to the stack meanwhile
\* (renderTaskLoop() takes the lock before it reads currentActivity).
RenderedIsCurrent == rendering # Null => rendering = current

\* A launch is pending exactly when there is an activity to launch: otherwise
\* the drain loop of ActivityManager::loop() would spin for ever, or a later
\* launch would start an activity that was given up.
PendingMatchesAction == action \in {"Push", "Replace"} <=> pending # Null

\* The result of a finishing activity reaches the handler that was given when
\* that very activity was started, never one left over from an earlier child,
\* whatever main.cpp or an alert pushes in between.
ResultForLauncher ==
    mainPc = "pop" /\ stack # <<>> => handler[Last(stack)] \in {Null, current}

\* No task waits for a paint while it holds the mutex the paint needs: the
\* deadlock that requestUpdateAndWait() checks the mutex holder for.
NoCircularWait == ~(mainPc \in {"notify", "blocked"} /\ mutex = "main")

\* No wakeup is lost: while the main task sleeps in requestUpdateAndWait(), its
\* notification has been given, or the render task is about to give it, or it has a
\* paint before it at whose end it will find the waiter; and nothing but that paint
\* holds the mutex.
WakeupIsComing ==
    mainPc = "blocked" =>
        /\ mutex # "main"
        /\ \/ mainNotified
           \/ renderPc = "wake"
           \/ /\ waiter
              /\ renderNotified \/ renderPc \in {"acquire", "check", "rendering", "finish"}

\* requestUpdateAndWait() comes back with a paint that includes every write
\* made under RenderLock before the call.
WaitShowsLockedWrites ==
    [][mainPc = "blocked" /\ mainPc' # "blocked" => current \notin unpainted]_vars

\* Within a pass of loop(), what its place and the calls and the navigation that
\* are left make of the steps the main task still has to do.
PlacesLeft == [flush |-> 1, tail |-> 2, pop |-> 3, launch |-> 3, drain |-> 4, queue |-> 5,
               code |-> 6, locked |-> 7, blocked |-> 7, home |-> 7, notify |-> 8]
InPass    == mainPc \in DOMAIN PlacesLeft
Navigates == action # "None" /\ mainPc # "flush"
StepsLeft == 6 * (MaxCalls - calls) + (IF Navigates THEN 5 ELSE 0) + PlacesLeft[mainPc]

\* The drain loop cannot spin: whatever activities are pushed, popped and replaced
\* by onEnter() and the result handlers it calls, every step of the main task
\* brings the end of the pass nearer, and none of the render task takes it away.
PassDescends ==
    [][InPass /\ InPass' => IF Main THEN StepsLeft' < StepsLeft ELSE StepsLeft' = StepsLeft]_vars

Painting == renderPc = "rendering"

\* The screens are gone: the device sleeps, resets, or the last activity ended.
ScreensGone == mainPc = "asleep" \/ current = Null

\* A repaint that was asked for, deferred or at once, by either task, is begun,
\* unless the activities it was asked for are gone first.
UpdateIsPainted ==
    /\ requestedUpdate ~> (Painting \/ ScreensGone)
    /\ renderNotified ~> (Painting \/ ScreensGone)

\* A task blocked in requestUpdateAndWait() is released: no deadlock on the
\* rendering mutex, no lost notification.
WaiterIsReleased == mainPc = "blocked" ~> mainPc # "blocked"

\* The drain loop ends: the main task always comes back to main.cpp or sleeps.
LoopReturns == []<>(mainPc \in {"outer", "asleep"})

-----------------------------------------------------------------------------
(***************************************************************************)
(* The inductive invariant behind the safety properties.                   *)
(***************************************************************************)

\* Who holds the mutex follows from where the tasks are.
LockInv ==
    /\ mutex = "main" <=> mainPc \in {"locked", "pop", "launch"}
    /\ mutex = "render" <=> renderPc \in RenderPcs \ {"idle", "acquire"}

\* There is no current activity only before the first launch and between the
\* end of the last activity and goHome(); and then nothing is stacked.
CurrentInv ==
    /\ current = Null <=> mainPc \in {"setup", "home"}
    /\ current = Null => stack = <<>>

\* What the render task paints is current.
RenderInv ==
    /\ rendering # Null <=> renderPc = "rendering"
    /\ rendering # Null => rendering = current

\* Pending activity, pending action and the main task's place agree.
PendingInv ==
    /\ PendingMatchesAction
    /\ mainPc = "pop" => action = "Pop"
    /\ mainPc = "launch" => action \in {"Push", "Replace"}
    /\ mainPc \in {"setup", "home", "tail"} => action = "None"
    /\ mainPc = "flush" => action \in {"None", "Push"}

\* Every object has one owner.
OwnerInv ==
    /\ current # Null => pending # current
    /\ \A i \in 1..Len(stack) : stack[i] # current /\ stack[i] # pending
    /\ \A i, j \in 1..Len(stack) : i # j => stack[i] # stack[j]

\* Until the first pass of the loop is over, global actions are not served; and
\* no activity code runs in the wait of setup().
SetupInv ==
    /\ ret \in {"route", "paint", "painted", "outer"} => ~armed
    /\ mainPc \in {"setup", "route", "paint"}
         => ret \in {"route", "paint", "painted", "outer"}
    /\ mainPc \in {"code", "locked"} => ret # "painted"
    /\ mainPc \in {"drain", "pop", "home", "queue", "launch", "tail", "flush"}
         => ret \in {"drain", "queue"}

\* A handler waits for the activity just above its owner, or for the one about
\* to be pushed; only an activity that is current or stacked has one.
HandlerInv ==
    /\ \A a \in Act : handler[a] # Null
         => a = current \/ \E i \in 1..Len(stack) : stack[i] = a
    /\ \A i \in 1..Len(stack) : handler[stack[i]]
         \in {Null, IF i = Len(stack) THEN current ELSE stack[i + 1]}
    /\ current # Null /\ action = "None" => handler[current] = Null
    /\ current # Null /\ action = "Push" => handler[current] \in {Null, pending}
    /\ mainPc = "flush" => handler[current] = Null
    /\ mainPc = "outer" /\ armed => handler[current] = Null

\* A waiter is registered, about to be woken or notified: never more than one of
\* these, and only while the main task waits.
WaitInv ==
    /\ waiter \/ renderPc = "wake" \/ mainNotified
         <=> mainPc \in {"notify", "blocked"}
    /\ ~(waiter /\ renderPc = "wake")
    /\ ~(waiter /\ mainNotified)
    /\ ~(renderPc = "wake" /\ mainNotified)

\* Locked writes are painted by the render that is ending, and stay painted while
\* the main task waits for nothing but its notification.
PaintInv ==
    /\ \A a \in unpainted : a = current \/ \E i \in 1..Len(stack) : stack[i] = a
    /\ renderPc \in {"rendering", "finish", "wake", "release"}
         => current \notin unpainted
    /\ mainPc \in {"notify", "blocked"} /\ ~waiter => current \notin unpainted

IInv ==
    /\ TypeOK
    /\ LockInv
    /\ CurrentInv
    /\ RenderInv
    /\ PendingInv
    /\ OwnerInv
    /\ SetupInv
    /\ HandlerInv
    /\ WaitInv
    /\ PaintInv

-----------------------------------------------------------------------------
(***************************************************************************)
(* What it implements: a navigation takes effect in one step, when the     *)
(* drain loop serves it under the lock.                                    *)
(***************************************************************************)
Screens == INSTANCE ScreenStack WITH
    Screen   <- Act,
    None     <- Null,
    screens  <- IF current = Null THEN <<>> ELSE Append(stack, current),
    painting <- rendering,
    asked    <- <<action, pending>>

\* currentActivity, stackActivities and the render task together are a stack of
\* screens: it changes by one push, pop or replacement at a time, the one that was
\* asked for last, never while its top is painted; and no activity is asked for
\* that is already in it.
ImplementsScreenStack == Screens!Spec

=============================================================================
