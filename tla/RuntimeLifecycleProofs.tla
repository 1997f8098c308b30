------------------------ MODULE RuntimeLifecycleProofs ------------------------
(***************************************************************************)
(* The managed runtime is safe for any number of runtime tasks and of      *)
(* requests.  The inductive invariant has three parts: the types; that at  *)
(* most one task exists and which answers exclude it; and how the counters *)
(* follow the position of that task within a restart.                      *)
(***************************************************************************)
EXTENDS RuntimeLifecycle, TLAPS

\* The bounds of the model.
Bounds == MaxStarts \in Nat /\ MaxRequests \in Nat

Labels == {"unborn", "born", "loop", "taken", "quiesce", "replace", "create", "creating",
           "fail", "failed", "startup", "run", "leave", "clear", "mark", "give", "gone"}

\* The types, by what they are about: the runtime's flags, its requests, the
\* host and the tasks.
FlagTypes ==
    /\ alive \in BOOLEAN /\ task \in Tasks \union {None} /\ running \in BOOLEAN
    /\ stop_requested \in BOOLEAN /\ stopped \in BOOLEAN
StateTypes == state \in States /\ ctx \in BOOLEAN /\ reset \in BOOLEAN
ControlTypes ==
    /\ pending \in {"none", "restart", "reboot"} /\ due \in BOOLEAN
    /\ action \in {"none", "restart", "reboot"} /\ (due => pending # "none")
HostTypes ==
    /\ host \in {"idle", "start", "stop", "ask", "wait"} /\ saw_failed \in BOOLEAN
    /\ answer \in {"new", "started", "stopped", "early", "timeout"}
TaskTypes == pc \in [Tasks -> Labels] /\ failed \in [Tasks -> BOOLEAN]
Types == FlagTypes /\ StateTypes /\ ControlTypes /\ HostTypes /\ TaskTypes

\* One task at most; runtime->task names it until it clears the field; and the
\* signal, a start under way and an answer that the runtime is stopped all mean
\* that there is none.
NoneExists == \A t \in Tasks : ~Exists(t)
OneTask ==
    /\ \A t, u \in Tasks : Exists(t) /\ Exists(u) => t = u
    /\ \A t \in Tasks : Exists(t) /\ ~InWindow(t) => task = t
    /\ stopped \/ host = "start" \/ answer \in {"stopped", "early"} => NoneExists

\* A restart that was taken is not yet replaced; one whose new generation has
\* been counted is being created.
Between == {"create", "creating"}
Replacing == {"taken", "quiesce", "replace"} \union Between
At(labels) == \E t \in Tasks : pc[t] \in labels
Counts ==
    /\ generation \in Nat /\ restart_count \in Nat /\ accepted \in 0..MaxRequests
    /\ performed \in Nat /\ replaced \in Nat
    /\ accepted = performed + (IF pending = "none" THEN 0 ELSE 1)
    /\ generation = restart_count + 1
    /\ restart_count = replaced + (IF At(Between) THEN 1 ELSE 0)
    /\ replaced + (IF At(Replacing) THEN 1 ELSE 0) <= performed

IInv == Types /\ OneTask /\ Counts
-------------------------------------------------------------------------------
\* The initial state satisfies the invariant.
LEMMA RuntimeInit == Bounds /\ Init => IInv
<1> SUFFICES ASSUME Bounds, Init PROVE IInv
  OBVIOUS
<1> USE DEF Bounds, Init, None
<1>1. Types
  BY DEF Types, FlagTypes, StateTypes, ControlTypes, HostTypes, TaskTypes, Labels, States
<1>2. OneTask
  BY DEF OneTask, NoneExists, Exists, InWindow
<1>3. ~At(Between) /\ ~At(Replacing)
  BY DEF At, Between, Replacing
<1>4. Counts
  BY <1>3 DEF Counts
<1>5. QED
  BY <1>1, <1>2, <1>4 DEF IInv

\* The flags.
LEMMA FlagTypesStep == FlagTypes /\ [Next]_vars => FlagTypes'
<1> SUFFICES ASSUME FlagTypes, [Next]_vars PROVE FlagTypes'
  OBVIOUS
<1> USE DEF FlagTypes, None
<1>1. ASSUME NEW t \in Tasks, Begin(t) PROVE FlagTypes'
  BY <1>1 DEF Begin
<1>2. ASSUME NEW t \in Tasks, Leave(t) PROVE FlagTypes'
  BY <1>2 DEF Leave
<1>3. ASSUME NEW t \in Tasks, Clear(t) PROVE FlagTypes'
  BY <1>3 DEF Clear
<1>4. ASSUME NEW t \in Tasks, Give(t) PROVE FlagTypes'
  BY <1>4 DEF Give
<1>5. CASE start
  BY <1>5 DEF start
<1>6. CASE StartCreate
  BY <1>6 DEF StartCreate, ClearSignal
<1>7. CASE StopAsk
  BY <1>7 DEF StopAsk
<1>8. CASE StopWait
  BY <1>8 DEF StopWait
<1>9. CASE destroy
  BY <1>9 DEF destroy, flags
<1>10. CASE UNCHANGED <<alive, task, running, stop_requested, stopped>>
  BY <1>10
<1>11. QED
  BY <1>1, <1>2, <1>3, <1>4, <1>5, <1>6, <1>7, <1>8, <1>9, <1>10 DEF Next, TaskStep,
     HostStep, vars, flags, counters, control, history, Loop, HandleTaken, Quiesce,
     Replace, CreateBegin, CreateEnd, Fail, ReadFailed, Startup, Run, Mark, stop,
     StopState, FallsDue, request_control
\* The state of the runtime and of its context.
LEMMA StateTypesStep == StateTypes /\ [Next]_vars => StateTypes'
<1> SUFFICES ASSUME StateTypes, [Next]_vars PROVE StateTypes'
  OBVIOUS
<1> USE DEF StateTypes, States
<1>1. ASSUME NEW t \in Tasks, HandleTaken(t) PROVE StateTypes'
  BY <1>1 DEF HandleTaken
<1>2. ASSUME NEW t \in Tasks, Quiesce(t) PROVE StateTypes'
  BY <1>2 DEF Quiesce
<1>3. ASSUME NEW t \in Tasks, Replace(t) PROVE StateTypes'
  BY <1>3 DEF Replace, CountNew
<1>4. ASSUME NEW t \in Tasks, CreateBegin(t) PROVE StateTypes'
  BY <1>4 DEF CreateBegin
<1>5. ASSUME NEW t \in Tasks, CreateEnd(t) PROVE StateTypes'
  BY <1>5 DEF CreateEnd, Rollback
<1>6. ASSUME NEW t \in Tasks, Fail(t) PROVE StateTypes'
  BY <1>6 DEF Fail
<1>7. ASSUME NEW t \in Tasks, Startup(t) PROVE StateTypes'
  BY <1>7 DEF Startup
<1>8. ASSUME NEW t \in Tasks, Mark(t) PROVE StateTypes'
  BY <1>8 DEF Mark
<1>9. CASE start
  BY <1>9 DEF start
<1>10. CASE StartCreate
  BY <1>10 DEF StartCreate, ClearSignal
<1>11. CASE StopState
  BY <1>11 DEF StopState
<1>12. CASE destroy
  BY <1>12 DEF destroy
<1>13. CASE UNCHANGED <<state, ctx, reset>>
  BY <1>13
<1>14. QED
  BY <1>1, <1>2, <1>3, <1>4, <1>5, <1>6, <1>7, <1>8, <1>9, <1>10, <1>11, <1>12, <1>13
     DEF Next, TaskStep, HostStep, vars, flags, counters, control, history, Begin, Loop,
     ReadFailed, Run, Leave, Clear, Give, stop, StopAsk, StopWait, FallsDue,
     request_control
\* The requests.
LEMMA ControlTypesStep == ControlTypes /\ [Next]_vars => ControlTypes'
<1> SUFFICES ASSUME ControlTypes, [Next]_vars PROVE ControlTypes'
  OBVIOUS
<1> USE DEF ControlTypes
<1>1. ASSUME NEW a \in {"restart", "reboot"}, request_control(a) PROVE ControlTypes'
  BY <1>1 DEF request_control
<1>2. CASE FallsDue
  BY <1>2 DEF FallsDue
<1>3. ASSUME NEW t \in Tasks, Loop(t) PROVE ControlTypes'
  <2>1. CASE TakeDue
    BY <2>1 DEF TakeDue
  <2>2. CASE UNCHANGED control
    BY <2>2 DEF control
  <2>3. QED
    BY <1>3, <2>1, <2>2 DEF Loop
<1>4. ASSUME NEW t \in Tasks, HandleTaken(t) PROVE ControlTypes'
  BY <1>4 DEF HandleTaken
<1>5. CASE UNCHANGED <<pending, due, action>>
  BY <1>5
<1>6. QED
  BY <1>1, <1>2, <1>3, <1>4, <1>5 DEF Next, TaskStep, HostStep, vars, flags, counters,
     control, history, Begin, Quiesce, Replace, CreateBegin, CreateEnd, Fail,
     ReadFailed, Startup, Run, Leave, Clear, Mark, Give, start, StartCreate, stop,
     StopState, StopAsk, StopWait, destroy
\* The host.
LEMMA HostTypesStep == HostTypes /\ [Next]_vars => HostTypes'
<1> SUFFICES ASSUME HostTypes, [Next]_vars PROVE HostTypes'
  OBVIOUS
<1> USE DEF HostTypes
<1>1. CASE start
  BY <1>1 DEF start
<1>2. CASE StartCreate
  BY <1>2 DEF StartCreate, ClearSignal
<1>3. CASE stop
  BY <1>3 DEF stop
<1>4. CASE StopState
  BY <1>4 DEF StopState
<1>5. CASE StopAsk
  BY <1>5 DEF StopAsk
<1>6. CASE StopWait
  BY <1>6 DEF StopWait
<1>7. CASE UNCHANGED <<host, saw_failed, answer>>
  BY <1>7
<1>8. QED
  BY <1>1, <1>2, <1>3, <1>4, <1>5, <1>6, <1>7 DEF Next, TaskStep, HostStep, vars, flags,
     counters, control, history, Begin, Loop, HandleTaken, Quiesce, Replace,
     CreateBegin, CreateEnd, Fail, ReadFailed, Startup, Run, Leave, Clear, Mark, Give,
     destroy, FallsDue, request_control
\* The tasks.
LEMMA TaskTypesStep == TaskTypes /\ [Next]_vars => TaskTypes'
<1> SUFFICES ASSUME TaskTypes, [Next]_vars PROVE TaskTypes'
  OBVIOUS
<1> USE DEF TaskTypes, Labels, Goto
<1>1. ASSUME NEW t \in Tasks, Begin(t) PROVE TaskTypes'
  BY <1>1 DEF Begin
<1>2. ASSUME NEW t \in Tasks, Loop(t) PROVE TaskTypes'
  BY <1>2 DEF Loop, TakeDue
<1>3. ASSUME NEW t \in Tasks, HandleTaken(t) PROVE TaskTypes'
  BY <1>3 DEF HandleTaken
<1>4. ASSUME NEW t \in Tasks, Quiesce(t) PROVE TaskTypes'
  BY <1>4 DEF Quiesce
<1>5. ASSUME NEW t \in Tasks, Replace(t) PROVE TaskTypes'
  BY <1>5 DEF Replace, CountNew
<1>6. ASSUME NEW t \in Tasks, CreateBegin(t) PROVE TaskTypes'
  BY <1>6 DEF CreateBegin
<1>7. ASSUME NEW t \in Tasks, CreateEnd(t) PROVE TaskTypes'
  BY <1>7 DEF CreateEnd, Rollback
<1>8. ASSUME NEW t \in Tasks, Fail(t) PROVE TaskTypes'
  BY <1>8 DEF Fail
<1>9. ASSUME NEW t \in Tasks, ReadFailed(t) PROVE TaskTypes'
  BY <1>9 DEF ReadFailed
<1>10. ASSUME NEW t \in Tasks, Startup(t) PROVE TaskTypes'
  BY <1>10 DEF Startup
<1>11. ASSUME NEW t \in Tasks, Run(t) PROVE TaskTypes'
  BY <1>11 DEF Run
<1>12. ASSUME NEW t \in Tasks, Leave(t) PROVE TaskTypes'
  BY <1>12 DEF Leave
<1>13. ASSUME NEW t \in Tasks, Clear(t) PROVE TaskTypes'
  BY <1>13 DEF Clear
<1>14. ASSUME NEW t \in Tasks, Mark(t) PROVE TaskTypes'
  BY <1>14 DEF Mark
<1>15. ASSUME NEW t \in Tasks, Give(t) PROVE TaskTypes'
  BY <1>15 DEF Give
<1>16. CASE StartCreate
  BY <1>16 DEF StartCreate, ClearSignal
<1>17. CASE UNCHANGED <<pc, failed>>
  BY <1>17
<1>18. QED
  BY <1>1, <1>2, <1>3, <1>4, <1>5, <1>6, <1>7, <1>8, <1>9, <1>10, <1>11, <1>12, <1>13,
     <1>14, <1>15, <1>16, <1>17 DEF Next, TaskStep, HostStep, vars, flags, counters,
     control, history, start, stop, StopState, StopAsk, StopWait, destroy, FallsDue,
     request_control

\* Every step keeps the types.
LEMMA TypesStep == Types /\ [Next]_vars => Types'
  BY FlagTypesStep, StateTypesStep, ControlTypesStep, HostTypesStep, TaskTypesStep DEF Types
-------------------------------------------------------------------------------
\* A task that exists moves on, and runtime->task goes on naming it unless it
\* is in the window where it has cleared the field: it is still the only one.
LEMMA MoveKeepsOne ==
    ASSUME Types, OneTask, NEW t \in Tasks, Exists(t), NEW l \in Labels, l # "unborn",
           Goto(t, l), UNCHANGED <<stopped, host, answer>>,
           l \in {"mark", "give", "gone"} \/ (task' = task /\ ~InWindow(t))
    PROVE  OneTask'
<1>1. \A u \in Tasks : pc'[u] = IF u = t THEN l ELSE pc[u]
  BY DEF Goto, Types, TaskTypes
<1>2. \A u \in Tasks : Exists(u)' => Exists(u)
  BY <1>1 DEF Exists
<1>3. \A u, v \in Tasks : Exists(u)' /\ Exists(v)' => u = v
  BY <1>2 DEF OneTask
<1>4. \A u \in Tasks : Exists(u)' /\ ~InWindow(u)' => task' = u
  BY <1>1, <1>2 DEF OneTask, Exists, InWindow
<1>5. QED
  BY <1>2, <1>3, <1>4 DEF OneTask, NoneExists

\* Every step keeps the only task the only one.
LEMMA OneTaskStep == Types /\ OneTask /\ [Next]_vars => OneTask'
<1> SUFFICES ASSUME Types, OneTask, [Next]_vars PROVE OneTask'
  OBVIOUS
<1>1. ASSUME NEW t \in Tasks, ~reset, TaskStep(t) PROVE OneTask'
  <2> USE DEF Labels, Exists, InWindow, flags
  <2>1. CASE Begin(t)
    BY <2>1, MoveKeepsOne DEF Begin
  <2>2. CASE Loop(t)
    BY <2>2, MoveKeepsOne DEF Loop
  <2>3. CASE HandleTaken(t)
    <3>1. CASE Goto(t, "quiesce")
      BY <2>3, <3>1, MoveKeepsOne DEF HandleTaken
    <3>2. CASE UNCHANGED pc
      BY <2>3, <3>2 DEF HandleTaken, OneTask, NoneExists
    <3>3. QED
      BY <2>3, <3>1, <3>2 DEF HandleTaken
  <2>4. CASE Quiesce(t)
    BY <2>4, MoveKeepsOne DEF Quiesce
  <2>5. CASE Replace(t)
    BY <2>5, MoveKeepsOne DEF Replace
  <2>6. CASE CreateBegin(t)
    BY <2>6, MoveKeepsOne DEF CreateBegin
  <2>7. CASE CreateEnd(t)
    BY <2>7, MoveKeepsOne DEF CreateEnd
  <2>8. CASE Fail(t)
    <3>1. CASE Goto(t, "failed")
      BY <2>8, <3>1, MoveKeepsOne DEF Fail
    <3>2. CASE UNCHANGED pc
      BY <2>8, <3>2 DEF Fail, OneTask, NoneExists
    <3>3. QED
      BY <2>8, <3>1, <3>2 DEF Fail
  <2>9. CASE ReadFailed(t)
    BY <2>9, MoveKeepsOne DEF ReadFailed
  <2>10. CASE Startup(t)
    <3>1. CASE Goto(t, "run")
      BY <2>10, <3>1, MoveKeepsOne DEF Startup
    <3>2. CASE UNCHANGED pc
      BY <2>10, <3>2 DEF Startup, OneTask, NoneExists
    <3>3. QED
      BY <2>10, <3>1, <3>2 DEF Startup
  <2>11. CASE Run(t)
    BY <2>11, MoveKeepsOne DEF Run
  <2>12. CASE Leave(t)
    BY <2>12, MoveKeepsOne DEF Leave
  <2>13. CASE Clear(t)
    BY <2>13, MoveKeepsOne DEF Clear
  <2>14. CASE Mark(t)
    BY <2>14, MoveKeepsOne DEF Mark
  <2>15. CASE Give(t)
    \* The signal says that the only task is gone.
    <3>1. \A u \in Tasks : pc'[u] = IF u = t THEN "gone" ELSE pc[u]
      BY <2>15 DEF Give, Goto, Types, TaskTypes
    <3>2. \A u \in Tasks : ~Exists(u)'
      BY <2>15, <3>1 DEF Give, OneTask
    <3>3. QED
      BY <3>2 DEF OneTask, NoneExists
  <2>16. QED
    BY <1>1, <2>1, <2>2, <2>3, <2>4, <2>5, <2>6, <2>7, <2>8, <2>9, <2>10, <2>11, <2>12,
       <2>13, <2>14, <2>15 DEF TaskStep
\* Outside the window a runtime without a task has none left.
<1>2. HostMayAct /\ NoTask => NoneExists
  BY DEF HostMayAct, NoTask, OneTask, NoneExists, None, Tasks, Types
<1> USE DEF OneTask, NoneExists, Exists, InWindow, flags
<1>3. CASE start
  BY <1>2, <1>3 DEF start
<1>4. CASE StartCreate
  <2>1. NoneExists
    BY <1>4 DEF StartCreate
  <2>2. CASE UNCHANGED pc
    BY <1>4, <2>1, <2>2 DEF StartCreate, ClearSignal, Types
  <2>3. ASSUME NEW t \in Tasks, task' = t, Goto(t, "born"), answer' = "started"
        PROVE  OneTask'
    <3>1. \A u \in Tasks : Exists(u)' => u = t
      BY <2>1, <2>3 DEF Goto, Types, TaskTypes
    <3>2. QED
      BY <1>4, <2>3, <3>1 DEF StartCreate, ClearSignal
  <2>4. QED
    BY <1>4, <2>2, <2>3 DEF StartCreate
<1>5. CASE stop
  BY <1>2, <1>5 DEF stop
<1>6. CASE StopState
  BY <1>6 DEF StopState
<1>7. CASE StopAsk
  BY <1>7 DEF StopAsk
<1>8. CASE StopWait
  BY <1>8 DEF StopWait
<1>9. CASE destroy
  BY <1>9 DEF destroy
<1>10. ASSUME NEW a \in {"restart", "reboot"}, request_control(a) PROVE OneTask'
  BY <1>10 DEF request_control
<1>11. CASE FallsDue
  BY <1>11 DEF FallsDue
<1>12. CASE UNCHANGED vars
  BY <1>12 DEF vars
<1>13. QED
  BY <1>1, <1>3, <1>4, <1>5, <1>6, <1>7, <1>8, <1>9, <1>10, <1>11, <1>12
     DEF Next, HostStep, TaskStep
-------------------------------------------------------------------------------
\* Where the only task goes is where the runtime is.
LEMMA OnlyTaskAt ==
    ASSUME Types, OneTask, NEW t \in Tasks, Exists(t), NEW l \in Labels, Goto(t, l)
    PROVE  /\ At(Between) <=> pc[t] \in Between
           /\ At(Replacing) <=> pc[t] \in Replacing
           /\ At(Between)' <=> l \in Between
           /\ At(Replacing)' <=> l \in Replacing
<1>1. \A u \in Tasks : u # t => pc[u] \in {"unborn", "gone"} /\ pc'[u] = pc[u]
  BY DEF OneTask, Exists, Goto, Types
<1>2. pc'[t] = l
  BY DEF Goto, Types, TaskTypes
<1>3. QED
  BY <1>1, <1>2 DEF At, Between, Replacing

\* Every step keeps the counters in step with the task.
LEMMA CountsStep == Bounds /\ Types /\ OneTask /\ Counts /\ [Next]_vars => Counts'
<1> SUFFICES ASSUME Bounds, Types, OneTask, Counts, [Next]_vars PROVE Counts'
  OBVIOUS
<1> USE DEF Bounds, Counts, flags, counters, control, history
<1>1. ASSUME NEW a \in {"restart", "reboot"}, request_control(a) PROVE Counts'
  BY <1>1 DEF request_control, At
<1>2. CASE FallsDue
  BY <1>2 DEF FallsDue, At
<1>3. ASSUME NEW t \in Tasks, TaskStep(t) PROVE Counts'
  <2> USE DEF Labels, Exists, Between, Replacing
  <2>1. CASE Begin(t)
    BY <2>1, OnlyTaskAt DEF Begin
  <2>2. CASE Loop(t)
    <3>1. CASE due /\ TakeDue /\ Goto(t, "taken") /\ performed' = performed + 1
               /\ UNCHANGED <<accepted, replaced>>
      BY <2>2, <3>1, OnlyTaskAt DEF Loop, TakeDue, Types, ControlTypes
    <3>2. CASE Goto(t, "leave") /\ UNCHANGED <<control, history>>
      BY <2>2, <3>2, OnlyTaskAt DEF Loop
    <3>3. CASE Goto(t, "startup") /\ UNCHANGED <<control, history>>
      BY <2>2, <3>3, OnlyTaskAt DEF Loop
    <3>4. QED
      BY <2>2, <3>1, <3>2, <3>3 DEF Loop
  <2>3. CASE HandleTaken(t)
    <3>1. CASE Goto(t, "quiesce")
      BY <2>3, <3>1, OnlyTaskAt DEF HandleTaken
    <3>2. CASE UNCHANGED pc
      BY <2>3, <3>2 DEF HandleTaken, At
    <3>3. QED
      BY <2>3, <3>1, <3>2 DEF HandleTaken
  <2>4. CASE Quiesce(t)
    BY <2>4, OnlyTaskAt DEF Quiesce
  <2>5. CASE Replace(t)
    BY <2>5, OnlyTaskAt DEF Replace, CountNew
  <2>6. CASE CreateBegin(t)
    BY <2>6, OnlyTaskAt DEF CreateBegin
  <2>7. CASE CreateEnd(t)
    <3>1. CASE Goto(t, "startup") /\ replaced' = replaced + 1
               /\ UNCHANGED <<counters, accepted, performed>>
      BY <2>7, <3>1, OnlyTaskAt DEF CreateEnd
    <3>2. CASE Rollback /\ Goto(t, "fail") /\ UNCHANGED history
      BY <2>7, <3>2, OnlyTaskAt DEF CreateEnd, Rollback
    <3>3. QED
      BY <2>7, <3>1, <3>2 DEF CreateEnd
  <2>8. CASE Fail(t)
    <3>1. CASE Goto(t, "failed")
      BY <2>8, <3>1, OnlyTaskAt DEF Fail
    <3>2. CASE UNCHANGED pc
      BY <2>8, <3>2 DEF Fail, At
    <3>3. QED
      BY <2>8, <3>1, <3>2 DEF Fail
  <2>9. CASE ReadFailed(t)
    BY <2>9, OnlyTaskAt DEF ReadFailed
  <2>10. CASE Startup(t)
    <3>1. CASE Goto(t, "run")
      BY <2>10, <3>1, OnlyTaskAt DEF Startup
    <3>2. CASE UNCHANGED pc
      BY <2>10, <3>2 DEF Startup, At
    <3>3. QED
      BY <2>10, <3>1, <3>2 DEF Startup
  <2>11. CASE Run(t)
    BY <2>11, OnlyTaskAt DEF Run
  <2>12. CASE Leave(t)
    BY <2>12, OnlyTaskAt DEF Leave
  <2>13. CASE Clear(t)
    BY <2>13, OnlyTaskAt DEF Clear
  <2>14. CASE Mark(t)
    BY <2>14, OnlyTaskAt DEF Mark
  <2>15. CASE Give(t)
    BY <2>15, OnlyTaskAt DEF Give
  <2>16. QED
    BY <1>3, <2>1, <2>2, <2>3, <2>4, <2>5, <2>6, <2>7, <2>8, <2>9, <2>10, <2>11, <2>12,
       <2>13, <2>14, <2>15 DEF TaskStep
<1>4. CASE start
  BY <1>4 DEF start, At
<1>5. CASE StartCreate
  <2>1. CASE UNCHANGED pc
    BY <1>5, <2>1 DEF StartCreate, At
  <2>2. ASSUME NEW t \in Tasks, pc[t] = "unborn", Goto(t, "born") PROVE Counts'
    <3>1. At(Between)' = At(Between) /\ At(Replacing)' = At(Replacing)
      BY <2>2 DEF Goto, At, Types, Between, Replacing
    <3>2. QED
      BY <1>5, <3>1 DEF StartCreate
  <2>3. QED
    BY <1>5, <2>1, <2>2 DEF StartCreate
<1>6. CASE stop
  BY <1>6 DEF stop, At
<1>7. CASE StopState
  BY <1>7 DEF StopState, At
<1>8. CASE StopAsk
  BY <1>8 DEF StopAsk, At
<1>9. CASE StopWait
  BY <1>9 DEF StopWait, At
<1>10. CASE destroy
  BY <1>10 DEF destroy, At
<1>11. CASE UNCHANGED vars
  BY <1>11 DEF vars, At
<1>12. QED
  BY <1>1, <1>2, <1>3, <1>4, <1>5, <1>6, <1>7, <1>8, <1>9, <1>10, <1>11 DEF Next, HostStep
-------------------------------------------------------------------------------
\* The invariant gives the types of the model and its two safety properties.
LEMMA RuntimeFollows == Bounds /\ IInv => RuntimeSafe
<1> SUFFICES ASSUME Bounds, IInv PROVE RuntimeSafe
  OBVIOUS
<1> USE DEF IInv, Bounds
<1>1. TypeOK
  <2>1. restart_count \in 0..MaxRequests /\ generation \in 1..MaxRequests + 1
    BY DEF Counts, At, Between, Replacing
  <2>2. QED
    BY <2>1 DEF TypeOK, Types, FlagTypes, StateTypes, ControlTypes, HostTypes, TaskTypes, Labels, Counts
<1>2. StoppedIsStopped
  BY <1>1 DEF StoppedIsStopped, OneTask, NoneExists
<1>3. RequestsExact
  <2>1. (\A t \in Tasks : pc[t] \notin {"create", "creating"}) => ~At(Between)
    BY DEF At, Between
  <2>2. QED
    BY <2>1 DEF RequestsExact, Counts
<1>4. QED
  BY <1>2, <1>3 DEF RuntimeSafe

\* The managed runtime never has two tasks, never answers that it is stopped
\* while one is left, performs an accepted request at most once and counts only
\* the generations that came up; whatever the bounds are.
THEOREM RuntimeIsSafe == Bounds => (Spec => []RuntimeSafe)
<1> SUFFICES ASSUME Bounds PROVE Spec => []RuntimeSafe
  OBVIOUS
<1>1. Init => IInv
  BY RuntimeInit
<1>2. IInv /\ [Next]_vars => IInv'
  BY TypesStep, OneTaskStep, CountsStep DEF IInv
<1>3. IInv => RuntimeSafe
  BY RuntimeFollows
<1>4. QED
  BY <1>1, <1>2, <1>3, PTL DEF Spec
===============================================================================
