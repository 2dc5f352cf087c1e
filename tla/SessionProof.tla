----------------------------- MODULE SessionProof -----------------------------
(***************************************************************************)
(* Proofs about Session, for any number of runs and any set of bots, and   *)
(* about the server that holds it.  The safety of the session rests on no  *)
(* run settling the status behind the back of another, which a panicking   *)
(* hook does: the theorems assume ~HookMayPanic.                           *)
(*                                                                         *)
(* Every behaviour of SessionServer is one of Session, so what the first   *)
(* part proves holds under the handlers, the hook's guard and the trade    *)
(* callbacks; the last part is about the books.                            *)
(***************************************************************************)
EXTENDS SessionServer, TLAPS

(* The orchestrator belongs to the one run that has not settled.           *)
Ownership ==
  /\ held = None /\ status # "error"
  /\ status = "running" => \E r \in Run : Active(r)
  /\ \A r \in Run : Active(r) => status = "running" /\ cancel = r
  /\ \A r \in Run : pc[r] = "wait" => isRunning /\ eg = r
  /\ isRunning => \E r \in Run : pc[r] = "wait"
  /\ \A r \in Run : pc[r] = "stopWait" => join[r] = r
  /\ \A r \in Run : alive[r] # {} => pc[r] \in {"wait", "stopWait"}

(* Runs are spawned in order, so sid stays in bounds.                      *)
Numbering == \A r \in Run : pc[r] = "none" => sid < r

IInv == TypeOK /\ Ownership /\ Numbering

(* The invariant holds in every initial state.                             *)
LEMMA InitIInv == Init => IInv
<1> SUFFICES ASSUME Init PROVE IInv
  OBVIOUS
<1> USE DEF Init
<1>1. TypeOK
  <2>1. 0 \in 0 .. MaxRuns /\ 0 \in Run \cup {None}
    BY SessionAssumption DEF SessionAssumption, None
  <2>2. /\ pc \in [Run -> {"none"} \cup Before \cup During \cup After]
        /\ ctx \in [Run -> {"none", "live", "cancelled", "expired"}]
        /\ budget \in [Run -> Nat] /\ hooks \in [Run -> Nat]
        /\ alive \in [Run -> SUBSET Bots]
    OBVIOUS
  <2>3. join \in [Run -> Run \cup {None}] /\ session \in [Run -> 0 .. MaxRuns]
    BY <2>1 DEF None
  <2>4. QED
    BY <2>1, <2>2, <2>3 DEF TypeOK, Statuses
<1>2. Ownership
  BY DEF Ownership, Active, Before, During
<1>3. Numbering
  BY DEF Numbering, Run
<1>4. QED
  BY <1>1, <1>2, <1>3 DEF IInv

(* A client's call preserves the types.                                    *)
LEMMA ClientTypeOK == IInv /\ Client => TypeOK'
<1> SUFFICES ASSUME IInv, Client PROVE TypeOK'
  OBVIOUS
<1> USE SessionAssumption
   DEF SessionAssumption, IInv, TypeOK, Numbering, Run, None, Statuses, flags, orch,
      runs, history, Before, During, After, Ownership, Active
<1>1. CASE \E d \in Durations : SetDuration(d)
  BY <1>1 DEF SetDuration
<1>2. CASE Start
  <2>1. PICK r \in Fresh : Spawn(r, duration)
    BY <1>2 DEF Start
  <2>2. duration \in Nat
    OBVIOUS
  <2>3. sid' \in 0 .. MaxRuns
    BY <1>2, <2>1 DEF Start, Fresh
  <2>4. QED
    BY <1>2, <2>1, <2>2, <2>3 DEF Start, Spawn, Fresh
<1>3. CASE Resume
  <2>1. PICK r \in Fresh : Spawn(r, duration - elapsed)
    BY <1>3 DEF Resume
  <2>2. duration - elapsed \in Nat
    BY <1>3 DEF Resume
  <2>3. QED
    BY <1>3, <2>1, <2>2 DEF Resume, Spawn, Fresh
<1>4. CASE ResumeSpent
  BY <1>4 DEF ResumeSpent
<1>5. CASE StopRunning
  BY <1>5 DEF StopRunning, Cancel
<1>6. CASE StopSettled
  BY <1>6 DEF StopSettled
<1>7. CASE Pause
  BY <1>7 DEF Pause, Cancel
<1>8. CASE Reset
  BY <1>8 DEF Reset, ClearForReset
<1>9. CASE ResetStop
  BY <1>9 DEF ResetStop
<1>10. CASE ResetJoined
  BY <1>10 DEF ResetJoined, Unlocked
<1>11. QED
  BY <1>1, <1>2, <1>3, <1>4, <1>5, <1>6, <1>7, <1>8, <1>9, <1>10 DEF Client

(* A step of the system preserves the types.                               *)
LEMMA SystemTypeOK ==
  ASSUME ~HookMayPanic, IInv, NEW r \in Run, System(r)
  PROVE  TypeOK'
<1> USE SessionAssumption DEF SessionAssumption, IInv, TypeOK, None, Statuses, flags,
      orch, runs, history, Before, During, After, Goto, WaitFor
<1>1. CASE RunFirst(r) \/ RunLaunch(r)
  <2>1. /\ alive' \in [Run -> SUBSET Bots]
        /\ pc' \in [Run -> {"none"} \cup Before \cup During \cup After]
    BY <1>1 DEF RunFirst, RunLaunch, LaunchBots
  <2>2. QED
    BY <1>1, <2>1 DEF RunFirst, RunLaunch, LaunchBots
<1>2. CASE RunWaitPrev(r) \/ RunStillRunning(r) \/ RunAlreadyStopped(r) \/ RunJoined(r)
  BY <1>2 DEF RunWaitPrev, RunStillRunning, RunAlreadyStopped, RunJoined
<1>3. CASE RunRestop(r) \/ RunStop(r)
  <2>1. eg \in Run
    BY <1>3 DEF RunRestop, RunStop, Ownership
  <2>2. /\ pc' \in [Run -> {"none"} \cup Before \cup During \cup After]
        /\ join' \in [Run -> Run \cup {None}]
    BY <1>3, <2>1 DEF RunRestop, RunStop
  <2>3. QED
    BY <1>3, <2>1, <2>2 DEF RunRestop, RunStop
<1>4. CASE RunPaused(r) \/ RunCompleted(r)
  <2>1. elapsed' \in Nat
    <3>1. CASE elapsed' = elapsed
      BY <3>1
    <3>2. CASE elapsed' \in Elapsed(r)
      BY <3>2 DEF Elapsed
    <3>3. QED
      BY <1>4, <3>1, <3>2 DEF RunPaused, RunCompleted, Settle
  <2>2. QED
    BY <1>4, <2>1 DEF RunPaused, RunCompleted, Settle
<1>5. CASE RunHook(r)
  <2>1. hooks' = [s \in Run |-> IF s = session[r] THEN hooks[s] + 1 ELSE hooks[s]]
    BY <1>5, Zenon DEF RunHook
  <2>2. \A s \in Run : hooks[s] + 1 \in Nat
    OBVIOUS
  <2>3. hooks' \in [Run -> Nat]
    BY <2>1, <2>2
  <2>4. QED
    BY <1>5, <2>3 DEF RunHook
<1>6. CASE Expire(r)
  BY <1>6 DEF Expire
<1>7. CASE \E b \in Bots : BotReturns(r, b) \/ BotPanics(r, b)
  BY <1>7 DEF BotReturns, BotPanics, BotLeaves
<1>8. QED
  BY <1>1, <1>2, <1>3, <1>4, <1>5, <1>6, <1>7 DEF System, RunStep, RunBody, RunPanic

(* A client's call leaves the orchestrator to the run that owns it.        *)
LEMMA ClientOwnership == IInv /\ Client => Ownership'
<1> SUFFICES ASSUME IInv, Client PROVE Ownership'
  OBVIOUS
<1> USE SessionAssumption DEF SessionAssumption, IInv, TypeOK, Ownership, Active, None,
      flags, orch, runs, history, Before, During, After
<1>1. CASE Start \/ Resume
  <2>1. PICK r \in Fresh, t \in {duration, duration - elapsed} : Spawn(r, t)
    BY <1>1 DEF Start, Resume
  <2>2. status # "running" /\ \A q \in Run : ~Active(q)
    BY <1>1 DEF Start, Resume
  <2>3. /\ r \in Run /\ pc[r] = "none" /\ pc'[r] = "start"
        /\ \A q \in Run : q # r => pc'[q] = pc[q]
    BY <2>1 DEF Fresh, Spawn
  <2>4. QED
    BY <2>1, <2>2, <2>3 DEF Spawn
<1>2. CASE (\E d \in Durations : SetDuration(d)) \/ ResetStop \/ ResetJoined
  BY <1>2 DEF SetDuration, ResetStop, ResetJoined, Unlocked
<1>3. CASE ResumeSpent \/ StopSettled \/ Reset
  BY <1>3 DEF ResumeSpent, StopSettled, Reset, ClearForReset
<1>4. CASE StopRunning \/ Pause
  BY <1>4 DEF StopRunning, Pause, Cancel
<1>5. QED
  BY <1>1, <1>2, <1>3, <1>4 DEF Client

(* So does a step of the system: the owner hands over only once its bots   *)
(* have returned.                                                          *)
LEMMA SystemOwnership ==
  ASSUME ~HookMayPanic, IInv, NEW r \in Run, System(r)
  PROVE  Ownership'
<1> USE SessionAssumption DEF SessionAssumption, IInv, TypeOK, Ownership, Active, None,
      flags, orch, runs, history, Before, During, After, Goto, WaitFor
<1>1. CASE RunFirst(r) \/ RunLaunch(r)
  BY <1>1 DEF RunFirst, RunLaunch, LaunchBots
<1>2. CASE RunWaitPrev(r)
  BY <1>2 DEF RunWaitPrev
<1>3. CASE RunStillRunning(r) \/ RunRestop(r) \/ RunAlreadyStopped(r)
  BY <1>3 DEF RunStillRunning, RunRestop, RunAlreadyStopped
<1>4. CASE RunStop(r)
  BY <1>4 DEF RunStop
<1>5. CASE RunJoined(r)
  BY <1>5 DEF RunJoined
<1>6. CASE RunPaused(r) \/ RunCompleted(r)
  BY <1>6 DEF RunPaused, RunCompleted, Settle
<1>7. CASE RunHook(r) \/ Expire(r)
  BY <1>7 DEF RunHook, Expire
<1>8. CASE \E b \in Bots : BotReturns(r, b) \/ BotPanics(r, b)
  BY <1>8 DEF BotReturns, BotPanics, BotLeaves
<1>9. QED
  BY <1>1, <1>2, <1>3, <1>4, <1>5, <1>6, <1>7, <1>8 DEF System, RunStep, RunBody, RunPanic

(* Every step keeps the spawned runs a prefix of Run no shorter than sid.  *)
LEMMA StepNumbering ==
  ASSUME ~HookMayPanic, IInv, Client \/ \E r \in Run : System(r)
  PROVE  Numbering'
<1> USE DEF IInv, TypeOK, Numbering, flags, orch, runs, history
<1>1. CASE Start
  <2>1. PICK r \in Fresh : Spawn(r, duration)
    BY <1>1 DEF Start
  <2>2. /\ r \in Run /\ sid < r /\ sid' = sid + 1
        /\ \A q \in Run : pc'[q] = "none" => pc[q] = "none" /\ q # r /\ ~(q < r)
    BY <1>1, <2>1 DEF Start, Fresh, Spawn
  <2>3. QED
    BY <2>2 DEF Run
<1>2. CASE Resume
  BY <1>2 DEF Resume, Spawn, Fresh
<1>3. CASE Client /\ ~Start /\ ~Resume
  BY <1>3 DEF Client, SetDuration, ResumeSpent, StopRunning, StopSettled, Pause, Reset,
              ResetStop, ResetJoined
<1>4. CASE \E r \in Run : System(r)
  <2>1. PICK r \in Run : System(r)
    BY <1>4
  <2>2. sid' = sid /\ \A q \in Run : pc'[q] = "none" => pc[q] = "none"
    BY <2>1 DEF System, RunStep, RunBody, RunFirst, RunLaunch, LaunchBots, RunWaitPrev,
       RunStillRunning, RunRestop, RunStop, RunAlreadyStopped, RunJoined, RunPaused,
       RunCompleted, Settle, RunHook, RunPanic, Expire, BotReturns, BotPanics, BotLeaves,
       Goto, WaitFor
  <2>3. QED
    BY <2>2
<1>5. QED
  BY <1>1, <1>2, <1>3, <1>4

(* IInv is inductive.                                                      *)
LEMMA IInvInductive == ~HookMayPanic /\ IInv /\ [Next]_vars => IInv'
<1> SUFFICES ASSUME ~HookMayPanic, IInv, [Next]_vars PROVE IInv'
  OBVIOUS
<1>1. CASE Next
  BY <1>1, ClientTypeOK, SystemTypeOK, ClientOwnership, SystemOwnership, StepNumbering
  DEF Next, IInv
<1>2. CASE UNCHANGED vars
  BY <1>2 DEF vars, flags, orch, runs, history, IInv, TypeOK, Ownership, Numbering, Active
<1>3. QED
  BY <1>1, <1>2

(* IInv holds throughout.                                                  *)
LEMMA Invariance == ASSUME ~HookMayPanic PROVE Safe => []IInv
<1>1. Init => IInv
  BY InitIInv
<1>2. IInv /\ [Next]_vars => IInv'
  BY IInvInductive
<1>3. QED
  BY <1>1, <1>2, PTL DEF Safe
-------------------------------------------------------------------------------
(* Every variable of the session keeps its type.                           *)
THEOREM TypeCorrect == ASSUME ~HookMayPanic PROVE Safe => []TypeOK
  BY Invariance, PTL DEF IInv

(* At most one run has not settled, and the status says so.                *)
THEOREM SingleRunHolds == ASSUME ~HookMayPanic PROVE Safe => []SingleRun
<1>1. IInv => SingleRun
  BY DEF IInv, Ownership, SingleRun
<1>2. QED
  BY <1>1, Invariance, PTL

(* Bots trade only while the status is "running".                          *)
THEOREM BotsOnlyWhileRunningHolds ==
  ASSUME ~HookMayPanic PROVE Safe => []BotsOnlyWhileRunning
<1>1. IInv => BotsOnlyWhileRunning
  BY DEF IInv, Ownership, BotsOnlyWhileRunning, Active, During
<1>2. QED
  BY <1>1, Invariance, PTL

(* Stop and Pause always hold the cancel function of the live run.         *)
THEOREM LiveRunCancellableHolds ==
  ASSUME ~HookMayPanic PROVE Safe => []LiveRunCancellable
<1>1. IInv => LiveRunCancellable
  BY DEF IInv, Ownership, LiveRunCancellable
<1>2. QED
  BY <1>1, Invariance, PTL

(* A run that calls the hook has joined its bots.                          *)
THEOREM HookAfterOwnBotsHolds ==
  ASSUME ~HookMayPanic PROVE Safe => []HookAfterOwnBots
<1>1. IInv => HookAfterOwnBots
  BY DEF IInv, Ownership, HookAfterOwnBots, After
<1>2. QED
  BY <1>1, Invariance, PTL

(* Only the critical section of a run takes the status out of "running".   *)
THEOREM OnlyRunsEndRunningHolds ==
  ASSUME ~HookMayPanic PROVE Safe => OnlyRunsEndRunning
<1> DEFINE Ends == \E r \in Run : pc[r] = "finish" /\ pc'[r] # "finish"
<1>1. ASSUME IInv, [Next]_vars, status = "running", status' # "running" PROVE Ends
  <2>1. PICK r \in Run : System(r)
    BY <1>1 DEF Next, Client, SetDuration, Start, Resume, Spawn, ResumeSpent, StopRunning,
       StopSettled, Pause, Reset, ResetStop, ResetJoined, Unlocked, IInv, Ownership, vars
  <2>2. pc \in [Run -> {"none"} \cup Before \cup During \cup After]
    BY <1>1 DEF IInv, TypeOK
  <2>3. RunPaused(r) \/ RunCompleted(r)
    BY <1>1, <2>1 DEF System, RunStep, RunBody, RunFirst, RunLaunch, LaunchBots, RunWaitPrev,
       RunStillRunning, RunRestop, RunStop, RunAlreadyStopped, RunJoined, RunHook,
       RunPanic, Expire, BotReturns, BotPanics, BotLeaves
  <2>4. QED
    BY <2>2, <2>3 DEF RunPaused, RunCompleted, Goto
<1>2. QED
  BY <1>1, Invariance, PTL DEF Safe, OnlyRunsEndRunning
-------------------------------------------------------------------------------
(* A session that may still complete has had no hook, and none under way;  *)
(* two runs never hold the hook of the same session.                       *)
HookInv ==
  /\ \A r \in Run : pc[r] # "none" => session[r] \in Run /\ session[r] <= sid
  /\ \A r \in Run : Active(r) => session[r] = sid
  /\ \A r \in Run : pc[r] = "hook" => hooks[session[r]] = 0
  /\ \A r, q \in Run :
       pc[r] = "hook" /\ pc[q] = "hook" /\ session[r] = session[q] => r = q
  /\ \A s \in Run : s > sid => hooks[s] = 0
  /\ status \in {"running", "paused"} =>
       /\ sid \in Run /\ hooks[sid] = 0
       /\ \A r \in Run : pc[r] = "hook" => session[r] # sid

(* Every step preserves HookInv and the bound it is kept for.              *)
LEMMA HookInvInductive ==
  ASSUME ~HookMayPanic, IInv, IInv', HookInv, HookAtMostOnce, [Next]_vars
  PROVE  HookInv' /\ HookAtMostOnce'
<1> USE DEF HookInv, HookAtMostOnce, Active, Before, During, After, flags, orch, runs, history
<1>0. /\ pc \in [Run -> {"none"} \cup Before \cup During \cup After]
      /\ hooks \in [Run -> Nat] /\ session \in [Run -> 0 .. MaxRuns] /\ sid \in Nat
      /\ sid' \in 0 .. MaxRuns /\ Run \subseteq Nat
  BY DEF IInv, TypeOK, Run
<1>1. CASE Start
  <2>1. PICK r \in Fresh : Spawn(r, duration)
    BY <1>1 DEF Start
  <2>2. sid' = sid + 1 /\ sid' \in Run
    BY <1>0, <1>1 DEF Start, Run
  <2>3. r \in Run /\ pc[r] = "none" /\ pc'[r] = "start" /\ session'[r] = sid'
    BY <1>0, <2>1 DEF Fresh, Spawn
  <2>4. /\ \A q \in Run : q # r => pc'[q] = pc[q] /\ session'[q] = session[q]
        /\ \A q \in Run : ~Active(q)
        /\ hooks' = hooks
    BY <1>0, <1>1, <2>1 DEF Start, Spawn, IInv, Ownership
  <2>5. hooks[sid'] = 0 /\ \A q \in Run : pc'[q] = "hook" => q # r /\ session'[q] # sid'
    BY <1>0, <2>2, <2>3, <2>4
  <2>6. \A q \in Run : pc'[q] # "none" => session'[q] \in Run /\ session'[q] <= sid'
    BY <1>0, <2>2, <2>3, <2>4
  <2>7. \A s \in Run : s > sid' => hooks'[s] = 0
    BY <1>0, <2>2, <2>4
  <2>8. QED
    BY <1>0, <2>2, <2>3, <2>4, <2>5, <2>6, <2>7
<1>2. CASE Resume
  <2>1. PICK r \in Fresh : Spawn(r, duration - elapsed)
    BY <1>2 DEF Resume
  <2>2. sid' = sid /\ sid \in Run /\ status = "paused" /\ hooks' = hooks
    BY <1>2, <2>1 DEF Resume, Spawn
  <2>3. r \in Run /\ pc[r] = "none" /\ pc'[r] = "start" /\ session'[r] = sid
    BY <1>0, <2>1, <2>2 DEF Fresh, Spawn
  <2>4. \A q \in Run : q # r => pc'[q] = pc[q] /\ session'[q] = session[q]
    BY <1>0, <2>1 DEF Spawn
  <2>5. QED
    BY <1>0, <2>2, <2>3, <2>4
<1>3. CASE (\E d \in Durations : SetDuration(d)) \/ StopRunning \/ Pause
  BY <1>3 DEF SetDuration, StopRunning, Pause
<1>4. CASE ResumeSpent \/ StopSettled \/ Reset \/ ResetStop \/ ResetJoined
  BY <1>4 DEF ResumeSpent, StopSettled, Reset, ClearForReset, ResetStop, ResetJoined,
              IInv, Ownership, Unlocked
<1>5. ASSUME NEW r \in Run,
             \/ RunFirst(r) \/ RunLaunch(r) \/ RunWaitPrev(r) \/ RunStillRunning(r)
             \/ RunRestop(r) \/ RunStop(r) \/ RunAlreadyStopped(r) \/ RunJoined(r)
      PROVE  HookInv' /\ HookAtMostOnce'
  <2>1. /\ Active(r) /\ pc'[r] \notin {"none", "hook"}
        /\ \A q \in Run : q # r => pc'[q] = pc[q]
    BY <1>0, <1>5 DEF RunFirst, RunLaunch, LaunchBots, RunWaitPrev, RunStillRunning,
       RunRestop, RunStop, RunAlreadyStopped, RunJoined, Goto, WaitFor
  <2>2. UNCHANGED <<status, history>>
    BY <1>5 DEF RunFirst, RunLaunch, LaunchBots, RunWaitPrev, RunStillRunning,
       RunRestop, RunStop, RunAlreadyStopped, RunJoined
  <2>3. QED
    BY <1>0, <2>1, <2>2
<1>6. ASSUME NEW r \in Run, RunPaused(r) \/ RunCompleted(r)
      PROVE  HookInv' /\ HookAtMostOnce'
  <2>1. /\ Active(r) /\ status = "running" /\ ~Active(r)'
        /\ pc'[r] = "hook" => status' = "completed"
        /\ \A q \in Run : q # r => pc'[q] = pc[q] /\ ~Active(q)
        /\ status' \in {"paused", "completed"} /\ pc'[r] \in {"hook", "done"}
    BY <1>0, <1>6 DEF RunPaused, RunCompleted, Goto, IInv, Ownership
  <2>2. UNCHANGED history
    BY <1>6 DEF RunPaused, RunCompleted, Settle
  <2>3. QED
    BY <1>0, <2>1, <2>2
<1>7. ASSUME NEW r \in Run, RunHook(r) PROVE HookInv' /\ HookAtMostOnce'
  <2>1. /\ pc[r] = "hook" /\ pc'[r] = "done" /\ session[r] \in Run /\ hooks[session[r]] = 0
        /\ \A q \in Run : q # r => pc'[q] = pc[q]
        /\ UNCHANGED <<status, sid, session>>
    BY <1>0, <1>7 DEF RunHook, Goto
  <2>2. /\ hooks'[session[r]] = 1
        /\ \A s \in Run : s # session[r] => hooks'[s] = hooks[s]
    BY <1>0, <1>7, <2>1 DEF RunHook
  <2>3. /\ \A q \in Run : pc'[q] = "hook" => q # r /\ pc[q] = "hook" /\ session[q] # session[r]
        /\ \A s \in Run : hooks'[s] \in Nat /\ hooks'[s] <= 1
    BY <1>0, <2>1, <2>2
  <2>4. \A q \in Run : Active(q)' => Active(q)
    BY <2>1
  <2>5. \A s \in Run : s > sid => s # session[r]
    BY <1>0, <2>1
  <2>6. status \in {"running", "paused"} => sid # session[r]
    BY <2>1
  <2>7. HookAtMostOnce'
    BY <2>3 DEF HookAtMostOnce
  <2>8. \A q \in Run : pc'[q] = "hook" => hooks'[session'[q]] = 0
    BY <1>0, <2>1, <2>2, <2>3
  <2>9. \A s \in Run : s > sid' => hooks'[s] = 0
    BY <2>1, <2>2, <2>5
  <2>10. status' \in {"running", "paused"} =>
           /\ sid' \in Run /\ hooks'[sid'] = 0
           /\ \A q \in Run : pc'[q] = "hook" => session'[q] # sid'
    BY <2>1, <2>2, <2>3, <2>6
  <2>11. \A q \in Run : pc'[q] # "none" => session'[q] \in Run /\ session'[q] <= sid'
    BY <2>1
  <2>12. QED
    BY <2>1, <2>3, <2>4, <2>7, <2>8, <2>9, <2>10, <2>11
<1>8. ASSUME NEW r \in Run,
             Expire(r) \/ \E b \in Bots : BotReturns(r, b) \/ BotPanics(r, b)
      PROVE  HookInv' /\ HookAtMostOnce'
  BY <1>8 DEF Expire, BotReturns, BotPanics, BotLeaves
<1>9. CASE UNCHANGED vars
  BY <1>9 DEF vars
<1>10. QED
  BY <1>1, <1>2, <1>3, <1>4, <1>5, <1>6, <1>7, <1>8, <1>9
  DEF Next, Client, System, RunStep, RunBody, RunPanic

(* HookInv holds throughout, and with it the bound.                        *)
LEMMA HookInvariance == ASSUME ~HookMayPanic PROVE Safe => [](HookInv /\ HookAtMostOnce)
<1>1. Init => HookInv /\ HookAtMostOnce
  <2> SUFFICES ASSUME Init PROVE HookInv /\ HookAtMostOnce
    OBVIOUS
  <2>1. /\ \A r \in Run : pc[r] = "none" /\ hooks[r] = 0
        /\ status = "idle"
    BY DEF Init
  <2>2. \A r \in Run : ~Active(r) /\ pc[r] # "hook"
    BY <2>1 DEF Active, Before, During
  <2>3. HookAtMostOnce
    BY <2>1 DEF HookAtMostOnce
  <2>4. HookInv
    BY <2>1, <2>2 DEF HookInv
  <2>5. QED
    BY <2>3, <2>4
<1>2. IInv /\ IInv' /\ HookInv /\ HookAtMostOnce /\ [Next]_vars => HookInv' /\ HookAtMostOnce'
  BY HookInvInductive
<1>3. QED
  BY <1>1, <1>2, Invariance, PTL DEF Safe

(* The hook runs at most once for each session.                            *)
THEOREM HookAtMostOnceHolds == ASSUME ~HookMayPanic PROVE Safe => []HookAtMostOnce
  BY HookInvariance, PTL

-------------------------------------------------------------------------------
(* What the mapping needs of the phase of the bots.                        *)
LEMMA Phases ==
  ASSUME IInv
  PROVE  /\ BotsPhase \in {"down", "up", "joined"}
         /\ BotsPhase = "down" <=> \E r \in Run : pc[r] \in Before
         /\ status # "running" => BotsPhase = "joined"
         /\ (\E r \in Run : pc[r] = "finish") => BotsPhase = "joined"
  BY DEF BotsPhase, IInv, Ownership, Active, Before, During

(* Every step of the session is a step of its lifecycle, or hidden by it.  *)
LEMMA StepImplements ==
  ASSUME ~HookMayPanic, IInv, IInv', [Next]_vars
  PROVE  [Lifecycle!Next]_(Lifecycle!lvars)
<1> USE DEF Lifecycle!Next, Lifecycle!lvars, Lifecycle!Settled, flags, orch, runs, history
<1>0. /\ pc \in [Run -> {"none"} \cup Before \cup During \cup After]
      /\ alive \in [Run -> SUBSET Bots] /\ status \in Statuses /\ status # "error"
  BY DEF IInv, TypeOK, Ownership
<1>1. CASE Start \/ Resume
  <2>1. PICK r \in Fresh, t \in {duration, duration - elapsed} : Spawn(r, t) /\ status # "running"
    BY <1>1 DEF Start, Resume
  <2>2. status' = "running" /\ BotsPhase = "joined"
    BY <2>1, Phases DEF Spawn
  <2>3. r \in Run /\ pc'[r] = "start"
    BY <1>0, <2>1 DEF Fresh, Spawn
  <2>4. BotsPhase' = "down"
    BY <2>3 DEF BotsPhase, Before
  <2>5. QED
    BY <1>0, <2>1, <2>2, <2>4 DEF Lifecycle!Begin, Statuses
<1>2. CASE ResumeSpent \/ StopSettled \/ Reset
  <2>1. UNCHANGED BotsPhase
    BY <1>2 DEF ResumeSpent, StopSettled, Reset, BotsPhase
  <2>2. QED
    BY <1>0, <1>2, <2>1 DEF ResumeSpent, StopSettled, Reset, ClearForReset, Statuses,
       Lifecycle!RunOut, Lifecycle!Clear
<1>3. CASE (\E d \in Durations : SetDuration(d)) \/ StopRunning \/ Pause \/ UNCHANGED vars
  BY <1>3 DEF SetDuration, StopRunning, Pause, vars, BotsPhase
<1>4. CASE ResetStop \/ ResetJoined
  BY <1>4 DEF ResetStop, ResetJoined, Unlocked, IInv, Ownership, Active, During
<1>5. ASSUME NEW r \in Run, RunFirst(r) \/ RunLaunch(r) PROVE Lifecycle!Launch
  <2>1. /\ Active(r) /\ pc[r] \in Before
        /\ pc'[r] = "wait" /\ alive'[r] = Bots /\ UNCHANGED status
    BY <1>0, <1>5 DEF RunFirst, RunLaunch, LaunchBots, Goto, Active, Before
  <2>2. \A q \in Run : pc'[q] \notin Before
    BY <1>0, <1>5, <2>1 DEF RunFirst, RunLaunch, LaunchBots, Goto, Before, IInv, Ownership, Active
  <2>3. BotsPhase' = "up"
    BY <2>1, <2>2, SessionAssumption DEF SessionAssumption, BotsPhase
  <2>4. QED
    BY <2>1, <2>3, Phases DEF Lifecycle!Launch, IInv, Ownership
<1>6. ASSUME NEW r \in Run, RunWaitPrev(r) \/ RunStillRunning(r) \/ RunRestop(r)
      PROVE  UNCHANGED <<status, BotsPhase>>
  BY <1>0, <1>6 DEF RunWaitPrev, RunStillRunning, RunRestop, Goto, WaitFor, BotsPhase, Before
<1>7. ASSUME NEW r \in Run, RunStop(r) \/ RunAlreadyStopped(r) \/ RunJoined(r) \/ RunHook(r)
      PROVE  UNCHANGED <<status, BotsPhase>>
  <2>1. \A q \in Run : pc'[q] \in Before <=> pc[q] \in Before
    BY <1>0, <1>7 DEF RunStop, RunAlreadyStopped, RunJoined, RunHook, Goto, WaitFor, Before
  <2>2. UNCHANGED <<status, alive>>
    BY <1>7 DEF RunStop, RunAlreadyStopped, RunJoined, RunHook
  <2>3. QED
    BY <2>1, <2>2 DEF BotsPhase
<1>8. ASSUME NEW r \in Run, RunPaused(r) \/ RunCompleted(r) PROVE Lifecycle!End
  <2>1. /\ pc[r] = "finish" /\ status' \in {"paused", "completed"}
    BY <1>8 DEF RunPaused, RunCompleted
  <2>2. status = "running" /\ BotsPhase = "joined"
    BY <2>1, Phases DEF IInv, Ownership, Active, During
  <2>3. BotsPhase' = "joined"
    <3>1. /\ \A q \in Run : pc'[q] \in Before => pc[q] \in Before
          /\ UNCHANGED alive
      BY <1>0, <1>8 DEF RunPaused, RunCompleted, Settle, Goto, Before
    <3>2. QED
      BY <2>2, <3>1 DEF BotsPhase
  <2>4. QED
    BY <2>1, <2>2, <2>3 DEF Lifecycle!End
<1>9. ASSUME NEW r \in Run, Expire(r) PROVE UNCHANGED <<status, BotsPhase>>
  BY <1>9 DEF Expire, BotsPhase
<1>10. ASSUME NEW g \in Run, NEW b \in Bots, BotReturns(g, b) \/ BotPanics(g, b)
       PROVE  Lifecycle!Join \/ UNCHANGED <<status, BotsPhase>>
  <2>1. alive[g] # {} /\ UNCHANGED <<status, pc>>
    BY <1>10 DEF BotReturns, BotPanics, BotLeaves
  <2>2. status = "running" /\ BotsPhase = "up"
    BY <2>1 DEF IInv, Ownership, Active, During, Before, BotsPhase
  <2>3. BotsPhase' \in {"up", "joined"}
    BY <2>1, <2>2 DEF BotsPhase
  <2>4. QED
    BY <2>1, <2>2, <2>3 DEF Lifecycle!Join
<1>11. QED
  BY <1>1, <1>2, <1>3, <1>4, <1>5, <1>6, <1>7, <1>8, <1>9, <1>10
  DEF Next, Client, System, RunStep, RunBody, RunPanic

(* Session implements the safety of SessionLifecycle.                      *)
THEOREM ImplementsLifecycle == ASSUME ~HookMayPanic PROVE Safe => Lifecycle!Safe
<1>1. Init => Lifecycle!Init
  BY DEF Init, Lifecycle!Init, BotsPhase, Before
<1>2. IInv /\ IInv' /\ [Next]_vars => [Lifecycle!Next]_(Lifecycle!lvars)
  BY StepImplements
<1>3. QED
  BY <1>1, <1>2, Invariance, PTL DEF Safe, Lifecycle!Safe
-------------------------------------------------------------------------------
(* A step of the server is a step of the session it holds, or hidden.      *)
LEMMA ServerStep == SNext => [Next]_vars
  <1> SUFFICES ASSUME SNext PROVE [Next]_vars
    OBVIOUS
  <1>1. ASSUME NEW h \in Handlers, Handler(h) PROVE [Next]_vars
    BY <1>1, Zenon
       DEF Handler, StartDuration, StartGuard, StartAccounts, StartCall, ResumeAccounts,
           ResumeCall, ResetCall, ResetHard, ResetReseed, Next, Client
  <1>2. ASSUME StopOrPause PROVE [Next]_vars
    BY <1>2, Zenon DEF StopOrPause, Next, Client
  <1>3. ASSUME NEW r \in Run, ServerRun(r) PROVE [Next]_vars
    BY <1>3, Zenon
       DEF ServerRun, HookWins, HookLoses, HookFinalizes, Next, System, RunStep
  <1>4. ASSUME NEW t \in Trades, Sends(t) \/ Callback(t) PROVE [Next]_vars
    BY <1>4, Zenon DEF Sends, Callback, CallbackLooks, CallbackRecords
  <1> QED BY <1>1, <1>2, <1>3, <1>4, Zenon DEF SNext, BotSends, UserSends, Trades

(* The handlers, the hook and the callbacks only ever take steps of        *)
(* Session.                                                                *)
THEOREM ServerRunsSession == SSafe => Safe
  <1>1. SInit => Init
    BY DEF SInit
  <1>2. [SNext]_allvars => [Next]_vars
    BY ServerStep, Zenon DEF allvars
  <1> QED BY <1>1, <1>2, PTL DEF SSafe, Safe

(* Hence one run at a time, however requests interleave.                   *)
THEOREM ServerSingleRun == SSafe => []SingleRun
  BY ServerRunsSession, SingleRunHolds, ServerAssumption DEF ServerAssumption

(* And no bot inside Run while the status shows anything but running.      *)
THEOREM ServerBots == SSafe => []BotsOnlyWhileRunning
  BY ServerRunsSession, BotsOnlyWhileRunningHolds, ServerAssumption DEF ServerAssumption
-------------------------------------------------------------------------------
(* The number of the next session is in bounds too.                        *)
LEMMA NextInBounds ==
  ASSUME NEW m \in Nat, NEW n \in 0 .. m
  PROVE  n \in 0 .. m + 1 /\ n + 1 \in 0 .. m + 1
  OBVIOUS

(* The variables of the server keep their types.                           *)
LEMMA ServerTypesKept ==
  ASSUME STypeOK, TypeOK', SNext
  PROVE  STypeOK'
  <1> USE DEF STypeOK
  <1>1. ASSUME NEW h \in Handlers, Handler(h) PROVE STypeOK'
    <2>1. /\ UNCHANGED <<closing, cb, sentIn, finals>>
          /\ finalized' \in BOOLEAN
      BY <1>1 DEF Handler, StartDuration, StartGuard, StartAccounts, StartCall, ResumeAccounts,
         ResumeCall, ResetCall, ResetHard, ResetReseed, OnlyHandler
    <2>2. \E to \in {"idle", "guard", "accounts", "start", "resume", "hard", "reseed", "reopen"} :
            GotoH(h, to)
      BY <1>1, Zenon
      DEF Handler, StartDuration, StartGuard, StartAccounts, StartCall, ResumeAccounts,
          ResumeCall, ResetCall, ResetHard, ResetReseed
    <2>3. ResetForSession \/ ClearBooks \/ UNCHANGED books
      BY <1>1, Zenon
      DEF Handler, StartDuration, StartGuard, StartAccounts, StartCall, ResumeAccounts,
          ResumeCall, ResetCall, ResetHard, ResetReseed, OnlyHandler
    <2>4. /\ opened' \in BOOLEAN /\ ended' \in BOOLEAN
          /\ book' \subseteq Trades /\ priced' \subseteq book' /\ late' \subseteq Trades
      BY <2>3 DEF ResetForSession, ClearBooks, books, Pending
    <2>5. disturbed' \subseteq 0 .. MaxRuns + 1
      <3>1. sid' \in 0 .. MaxRuns /\ MaxRuns \in Nat
        BY SessionAssumption DEF SessionAssumption, TypeOK
      <3>2. sid' \in 0 .. MaxRuns + 1 /\ sid' + 1 \in 0 .. MaxRuns + 1
        BY <3>1, NextInBounds, Zenon
      <3>3. disturbed' \subseteq disturbed \cup {sid', sid' + 1}
        BY <2>2, Zenon DEF GotoH
      <3> QED BY <3>2, <3>3
    <2> QED BY <2>1, <2>2, <2>4, <2>5 DEF GotoH
  <1>2. ASSUME UNCHANGED server PROVE STypeOK'
    BY <1>2 DEF server, books
  <1>3. ASSUME NEW r \in Run, HookWins(r) PROVE STypeOK'
    BY <1>3 DEF HookWins, books
  <1>4. ASSUME NEW r \in Run, HookFinalizes(r) PROVE STypeOK'
    <2>1. CASE opened
      <3>1. finals' = [q \in Run |-> IF q = sid THEN finals[q] + 1 ELSE finals[q]]
        BY <1>4, <2>1, Zenon DEF HookFinalizes, FinalizeBooks
      <3>2. finals' \in [Run -> Nat]
        BY <3>1
      <3> QED BY <1>4, <2>1, <3>2 DEF HookFinalizes, FinalizeBooks
    <2>2. CASE ~opened
      BY <1>4, <2>2 DEF HookFinalizes, FinalizeBooks, books
    <2> QED BY <2>1, <2>2
  <1>5. ASSUME NEW t \in Trades, Sends(t), UNCHANGED sentIn \/ sentIn' = [sentIn EXCEPT ![t] = sid]
        PROVE  STypeOK'
    <2>1. sentIn' \in [BotTrades -> 0 .. MaxRuns]
      BY <1>5 DEF TypeOK
    <2> QED BY <1>5, <2>1 DEF Sends, books
  <1>6. ASSUME NEW t \in Trades, Callback(t) PROVE STypeOK'
    BY <1>6 DEF Callback, CallbackLooks, CallbackRecords, books
  <1> QED
    BY <1>1, <1>2, <1>3, <1>4, <1>5, <1>6, Zenon
    DEF SNext, StopOrPause, ServerRun, HookLoses, BotSends, UserSends, Trades

(* Every variable of the server keeps its type, whatever clients do.       *)
THEOREM ServerTypeCorrect == SSafe => []STypeOK
  <1>1. SInit /\ TypeOK => STypeOK
    <2>1. 0 \in 0 .. MaxRuns
      BY SessionAssumption DEF SessionAssumption
    <2>2. ASSUME SInit PROVE sentIn \in [BotTrades -> 0 .. MaxRuns]
      BY <2>1, <2>2, Zenon DEF SInit
    <2>3. ASSUME SInit PROVE finals \in [Run -> Nat]
      BY <2>3 DEF SInit
    <2> QED BY <2>2, <2>3 DEF SInit, STypeOK
  <1>2. STypeOK /\ TypeOK' /\ [SNext]_allvars => STypeOK'
    <2>1. CASE SNext
      BY <2>1, ServerTypesKept
    <2>2. CASE UNCHANGED allvars
      BY <2>2 DEF allvars, server, books, STypeOK
    <2> QED BY <2>1, <2>2
  <1>3. SSafe => []TypeOK
    BY ServerRunsSession, TypeCorrect, ServerAssumption DEF ServerAssumption
  <1> QED BY <1>1, <1>2, <1>3, PTL DEF SSafe

-------------------------------------------------------------------------------
(* What overlaps is noted at once.                                         *)
OverlapNoted == Overlap => sid \in disturbed /\ sid + 1 \in disturbed

(* A hook under way is of the current session, or both are disturbed.      *)
HooksNoted ==
  /\ \A r \in Run : pc[r] = "hook" =>
       session[r] = sid \/ (session[r] \in disturbed /\ sid \in disturbed)
  /\ \A r \in closing : pc[r] = "hook"
  /\ \A s \in Run : s > sid => finals[s] = 0

(* A start in flight that nothing overlaps prepares the guard and the      *)
(* books for the next session.                                             *)
StartReady ==
  sid + 1 \notin disturbed =>
    \A h \in Handlers :
      /\ hpc[h] \in {"accounts", "start"} => ~finalized
      /\ hpc[h] = "start" => opened /\ (book \cup Pending) \cap BotTrades \subseteq late

(* A session that nothing overlapped finds the guard open and its books    *)
(* there, up to its hook, and no trade of another in them but late ones.   *)
SessionReady ==
  sid \notin disturbed =>
    /\ \A r \in Run : Active(r) => opened /\ ~finalized
    /\ \A r \in Run : pc[r] = "hook" => opened /\ (finalized => r \in closing)
    /\ status = "paused" =>
         /\ opened /\ ~finalized
         /\ \A h \in Handlers : hpc[h] \notin Clearing
    /\ \A t \in (book \cup Pending) \cap BotTrades : sentIn[t] = sid \/ t \in late

ServerInv == OverlapNoted /\ HooksNoted /\ StartReady /\ SessionReady /\ LostFinalExplained

(* Every handler's step notes the overlap it makes.                        *)
LEMMA HandlerNotes ==
  ASSUME STypeOK, NEW h \in Handlers, Handler(h)
  PROVE  /\ \E to \in {"idle", "guard", "accounts", "start", "resume", "hard", "reseed", "reopen"} :
              hpc' = [hpc EXCEPT ![h] = to]
         /\ disturbed \subseteq disturbed'
         /\ OverlapNoted'
  <1>1. \E to \in {"idle", "guard", "accounts", "start", "resume", "hard", "reseed", "reopen"} :
          GotoH(h, to)
    BY Zenon
    DEF Handler, StartDuration, StartGuard, StartAccounts, StartCall, ResumeAccounts,
        ResumeCall, ResetCall, ResetHard, ResetReseed
  <1> QED BY <1>1 DEF GotoH, OverlapNoted

(* A request preserves the invariant: what it cuts off was overlapped.     *)
LEMMA HandlersKept ==
  ASSUME STypeOK, ServerInv, IInv, HookInv, NEW h \in Handlers, Handler(h)
  PROVE  ServerInv'
  <1> USE DEF ServerInv, HooksNoted, StartReady, SessionReady, LostFinalExplained, Active,
     Before, During
  <1>0. /\ disturbed \subseteq disturbed' /\ OverlapNoted'
        /\ \A g \in Handlers : g # h => hpc'[g] = hpc[g]
        /\ sid \in Nat
    BY HandlerNotes DEF STypeOK, TypeOK
  <1>1. CASE StartDuration(h)
    BY <1>0, <1>1
       DEF StartDuration, Arrives, GotoH, STypeOK, OnlyHandler, books, SetDuration, runs, history,
           Pending, Clearing
  <1>2. CASE StartGuard(h)
    BY <1>0, <1>2
       DEF StartGuard, GotoH, STypeOK, books, vars, runs, history, Pending, Clearing
  <1>3. CASE StartAccounts(h)
    BY <1>0, <1>3
       DEF StartAccounts, GotoH, STypeOK, vars, runs, history, ResetForSession, Pending, Clearing
  <1>4. CASE ResumeAccounts(h)
    BY <1>0, <1>4
       DEF ResumeAccounts, Arrives, GotoH, STypeOK, vars, runs, history, ResetForSession,
           Pending, Clearing
  <1>5. CASE ResetCall(h)
    BY <1>0, <1>5
       DEF ResetCall, Reset, ClearForReset, GotoH, STypeOK, OnlyHandler, books, runs, history,
           Pending
  <1>6. CASE ResetHard(h)
    <2>1. hpc[h] \in Clearing
      BY <1>6 DEF ResetHard, Clearing
    <2>2. sid \notin disturbed => RunsOver /\ status # "paused"
      BY <2>1 DEF OverlapNoted, Overlap
    <2>3. sid + 1 \notin disturbed => \A g \in Handlers : hpc[g] # "start"
      BY <2>1 DEF OverlapNoted, Overlap, Opening, Clearing
    <2> QED
      BY <1>0, <1>6, <2>2, <2>3
         DEF ResetHard, GotoH, STypeOK, vars, runs, history, ClearBooks, Pending, RunsOver
  <1>7. CASE ResetReseed(h)
    BY <1>0, <1>7
       DEF ResetReseed, GotoH, STypeOK, vars, runs, history, ResetForSession, books, Pending,
           Clearing
  <1>8. CASE StartCall(h)
    <2>1. CASE status = "running" /\ UNCHANGED vars
      BY <1>0, <1>8, <2>1
         DEF StartCall, GotoH, STypeOK, OnlyHandler, books, vars, runs, history, Pending, Clearing
    <2>2. CASE Start
      <3>1. PICK r \in Fresh : Spawn(r, duration)
        BY <2>2 DEF Start
      <3>2. /\ pc' = [pc EXCEPT ![r] = "start"] /\ r \in Run /\ sid' = sid + 1
            /\ session' = [session EXCEPT ![r] = sid'] /\ hooks' = hooks /\ status' = "running"
            /\ hpc[h] = "start" /\ OnlyHandler
        BY <1>8, <2>2, <3>1 DEF Start, Spawn, Fresh, StartCall
      <3>3. hpc' = [hpc EXCEPT ![h] = "idle"]
        BY <1>8 DEF StartCall, GotoH
      <3>4. ~RunsOver => sid \in disturbed /\ sid + 1 \in disturbed
        BY <3>2 DEF OverlapNoted, Overlap, Opening
      <3>5. pc'[r] = "start" /\ ~RunsOver'
        BY <3>2 DEF STypeOK, TypeOK, RunsOver
      <3>6. \A g \in Handlers : hpc'[g] \in {"accounts", "start"} => sid' + 1 \in disturbed'
        BY <1>0, <3>5 DEF OverlapNoted, Overlap, Opening
      <3>7. HooksNoted'
        <4>1. ASSUME NEW q \in Run, pc'[q] = "hook"
              PROVE  session'[q] \in disturbed' /\ sid' \in disturbed'
          <5>1. q # r /\ pc[q] = "hook" /\ session'[q] = session[q] /\ ~RunsOver
            BY <3>2, <4>1 DEF STypeOK, TypeOK, RunsOver
          <5> QED BY <1>0, <3>2, <3>4, <5>1
        <4>2. \A q \in closing' : pc'[q] = "hook"
          BY <3>1, <3>2 DEF STypeOK, TypeOK, OnlyHandler, Fresh
        <4>3. \A s \in Run : s > sid' => finals'[s] = 0
          BY <1>0, <3>2 DEF OnlyHandler, Run
        <4> QED BY <4>1, <4>2, <4>3
      <3>8. SessionReady'
        <4> SUFFICES ASSUME sid' \notin disturbed' PROVE SessionReady'
          OBVIOUS
        <4>1. sid + 1 \notin disturbed /\ RunsOver
          BY <1>0, <3>2, <3>4
        <4>2. opened /\ ~finalized /\ (book \cup Pending) \cap BotTrades \subseteq late
          BY <3>2, <4>1
        <4>3. \A q \in Run : pc'[q] # "hook"
          BY <3>2, <4>1 DEF RunsOver, STypeOK, TypeOK
        <4> QED
          BY <3>2, <4>2, <4>3 DEF OnlyHandler, books, Pending
      <3> QED
        BY <1>0, <3>2, <3>6, <3>7, <3>8 DEF OnlyHandler
    <2> QED BY <1>8, <2>1, <2>2 DEF StartCall
  <1>9. CASE ResumeCall(h)
    <2>1. CASE (status # "paused" /\ UNCHANGED vars) \/ ResumeSpent
      BY <1>0, <1>9, <2>1
         DEF ResumeCall, GotoH, STypeOK, OnlyHandler, books, vars, runs, history, ResumeSpent,
             Pending, Clearing
    <2>2. CASE Resume
      <3>1. PICK r \in Fresh : Spawn(r, duration - elapsed)
        BY <2>2 DEF Resume
      <3>2. /\ pc' = [pc EXCEPT ![r] = "start"] /\ r \in Run /\ sid' = sid
            /\ session' = [session EXCEPT ![r] = sid'] /\ hooks' = hooks
            /\ status = "paused" /\ status' = "running" /\ pc[r] = "none" /\ OnlyHandler
        BY <1>9, <2>2, <3>1 DEF Resume, Spawn, Fresh, ResumeCall
      <3>3. pc'[r] = "start" /\ ~RunsOver'
        BY <3>2 DEF STypeOK, TypeOK, RunsOver
      <3>4. \A g \in Handlers : hpc'[g] \in {"accounts", "start"} => sid' + 1 \in disturbed'
        BY <1>0, <3>3 DEF OverlapNoted, Overlap, Opening
      <3>5. \A q \in Run : pc'[q] = "hook" =>
                             q # r /\ pc[q] = "hook" /\ session'[q] = session[q]
        BY <3>2 DEF STypeOK, TypeOK
      <3>6. HooksNoted'
        BY <1>0, <3>2, <3>5 DEF OnlyHandler, STypeOK, TypeOK
      <3>7. SessionReady'
        BY <1>0, <3>2, <3>5 DEF OnlyHandler, books, Pending
      <3> QED
        BY <1>0, <3>2, <3>4, <3>6, <3>7 DEF OnlyHandler
    <2> QED BY <1>9, <2>1, <2>2 DEF ResumeCall
  <1> QED
    BY <1>1, <1>2, <1>3, <1>4, <1>5, <1>6, <1>7, <1>8, <1>9 DEF Handler

(* So does every step of a run: the hook of a session that nothing         *)
(* overlapped wins the guard and finds its own books.                      *)
LEMMA RunsKept ==
  ASSUME STypeOK, ServerInv, IInv, HookInv, NEW r \in Run, ServerRun(r)
  PROVE  ServerInv'
  <1> USE DEF ServerInv, HooksNoted, StartReady, SessionReady, LostFinalExplained, Active,
     Before, During
  <1>0. /\ ~HookMayPanic
        /\ pc \in [Run -> {"none"} \cup Before \cup During \cup After]
        /\ session \in [Run -> 0 .. MaxRuns]
    BY ServerAssumption DEF ServerAssumption, STypeOK, TypeOK
  <1>1. ~RunsOver /\ (\E h \in Handlers : hpc[h] \in Opening \cup Clearing) =>
          sid \in disturbed /\ sid + 1 \in disturbed
    BY DEF OverlapNoted, Overlap
  <1>2. CASE UNCHANGED server /\
             \/ RunFirst(r) \/ RunLaunch(r) \/ RunWaitPrev(r) \/ RunStillRunning(r)
             \/ RunRestop(r) \/ RunStop(r) \/ RunAlreadyStopped(r) \/ RunJoined(r)
    <2>1. /\ Active(r) /\ Active(r)' /\ pc' = [pc EXCEPT ![r] = pc'[r]]
          /\ UNCHANGED <<status, history, server>>
      BY <1>0, <1>2
      DEF RunFirst, RunLaunch, LaunchBots, RunWaitPrev, RunStillRunning, RunRestop, RunStop,
          RunAlreadyStopped, RunJoined, Goto, WaitFor
    <2>2. \A q \in Run : /\ q # r => pc'[q] = pc[q]
                         /\ pc'[q] = "hook" <=> pc[q] = "hook"
                         /\ pc'[q] \in {"none", "done"} <=> pc[q] \in {"none", "done"}
                         /\ Active(q)' <=> Active(q)
      BY <1>0, <2>1
    <2>3. OverlapNoted'
      BY <2>1, <2>2 DEF history, server, OverlapNoted, Overlap, RunsOver
    <2> QED BY <2>1, <2>2, <2>3 DEF history, server, books, STypeOK, Pending
  <1>3. CASE UNCHANGED server /\ (RunPaused(r) \/ RunCompleted(r))
    <2>1. /\ Active(r) /\ pc'[r] \in {"hook", "done"} /\ pc' = [pc EXCEPT ![r] = pc'[r]]
          /\ status' \in {"paused", "completed"}
      BY <1>0, <1>3 DEF RunPaused, RunCompleted, Goto
    <2>2. session[r] = sid
      BY <2>1 DEF HookInv
    <2>3. UNCHANGED <<session, sid, hooks, server>>
      BY <1>3 DEF RunPaused, RunCompleted, Settle, history
    <2>4. \A q \in Run : /\ q # r => pc'[q] = pc[q] /\ ~Active(q)
                         /\ ~Active(q)'
      BY <1>0, <2>1 DEF IInv, Ownership
    <2>5. r \notin closing /\ ~RunsOver
      BY <2>1 DEF RunsOver
    <2>6. OverlapNoted'
      BY <1>1, <2>3, <2>5 DEF server, OverlapNoted, Overlap
    <2>7. HooksNoted'
      BY <2>2, <2>3, <2>4, <2>5 DEF server, STypeOK
    <2>8. SessionReady'
      <3> SUFFICES ASSUME sid \notin disturbed PROVE SessionReady'
        BY <2>3 DEF server
      <3>1. opened /\ ~finalized /\ \A h \in Handlers : hpc[h] \notin Clearing
        BY <1>1, <2>1, <2>5
      <3> QED BY <2>1, <2>3, <2>4, <3>1 DEF server, books, Pending
    <2> QED BY <2>3, <2>6, <2>7, <2>8 DEF server, books, Pending
  <1>4. CASE UNCHANGED server /\ (Expire(r) \/ \E b \in Bots : BotReturns(r, b) \/ BotPanics(r, b))
    BY <1>4 DEF Expire, BotReturns, BotPanics, BotLeaves, server, books, runs, history,
                Pending, OverlapNoted, Overlap, RunsOver
  <1>5. CASE HookWins(r)
    <2>1. sid \notin disturbed => \A q \in Run : pc[q] = "hook" => q = r
      BY <1>5 DEF HookWins, HookInv
    <2>2. sid \notin disturbed => status # "paused" /\ \A q \in Run : ~Active(q)
      BY <1>5 DEF HookWins, HookInv, IInv, Ownership
    <2>3. /\ UNCHANGED <<pc, session, sid, hooks, status, hpc, cb, sentIn, books, finals,
                         disturbed>>
          /\ closing' = closing \cup {r} /\ finalized' = TRUE /\ pc[r] = "hook"
      BY <1>5 DEF HookWins, vars, runs, history
    <2>4. ~RunsOver
      BY <2>3 DEF RunsOver
    <2>5. OverlapNoted'
      BY <1>1, <2>3, <2>4 DEF OverlapNoted, Overlap
    <2>6. StartReady'
      BY <1>1, <2>3, <2>4 DEF books, Pending, Opening
    <2>7. SessionReady'
      BY <2>1, <2>2, <2>3 DEF books, Pending
    <2> QED BY <2>3, <2>5, <2>6, <2>7
  <1>6. CASE HookFinalizes(r) \/ HookLoses(r)
    <2>1. /\ pc[r] = "hook" /\ pc' = [pc EXCEPT ![r] = "done"]
          /\ hooks' = [hooks EXCEPT ![session[r]] = @ + 1]
          /\ UNCHANGED <<status, session, sid, hpc, finalized, cb, sentIn, book, opened, late,
                         disturbed>>
      BY <1>6, Zenon DEF HookFinalizes, HookLoses, RunHook, Goto, FinalizeBooks, books, server
    <2>2. closing' = closing \ {r}
      BY <1>6 DEF HookFinalizes, HookLoses, server, STypeOK
    <2>3. \A q \in Run : /\ Active(q)' => Active(q)
                         /\ pc'[q] = "hook" => pc[q] = "hook" /\ q # r
                         /\ pc[q] \in {"none", "done"} => pc'[q] \in {"none", "done"}
                         /\ q # r => pc'[q] = pc[q]
      BY <1>0, <2>1
    <2>4. OverlapNoted'
      BY <2>1, <2>3 DEF OverlapNoted, Overlap, RunsOver
    <2>5. /\ session[r] \in Run /\ session[r] <= sid /\ sid \in 0 .. MaxRuns
          /\ hooks \in [Run -> Nat] /\ finals \in [Run -> Nat]
      BY <2>1 DEF HookInv, STypeOK, TypeOK
    <2>6. sid \in Run
      BY <2>5 DEF Run
    <2>7. \/ finals' = finals
          \/ finals' = [finals EXCEPT ![sid] = @ + 1]
      BY <1>6 DEF HookFinalizes, HookLoses, FinalizeBooks, server
    <2>8. HooksNoted'
      <3>1. \A s \in Run : s # sid => finals'[s] = finals[s]
        BY <2>5, <2>7
      <3>3. \A s \in Run : s > sid => s # sid
        BY <2>5 DEF Run
      <3>2. \A q \in closing' : pc'[q] = "hook"
        BY <2>2, <2>3 DEF STypeOK
      <3> QED BY <2>1, <2>3, <3>1, <3>2, <3>3
    <2>9. StartReady' /\ SessionReady'
      BY <2>1, <2>2, <2>3 DEF Pending
    <2>10. LostFinalExplained'
      <3>1. CASE sid \notin disturbed
        <4>1. session[r] = sid /\ opened /\ (finalized => r \in closing)
          BY <2>1, <3>1
        <4>2. ~HookLoses(r)
          BY <4>1 DEF HookLoses
        <4>3. finals' = [finals EXCEPT ![sid] = @ + 1]
          BY <1>6, <4>1, <4>2 DEF HookFinalizes, FinalizeBooks
        <4> QED BY <2>1, <2>5, <4>1, <4>3
      <3>2. CASE sid \in disturbed
        <4>1. session[r] \in disturbed
          BY <2>1, <3>2
        <4>2. \A s \in Run \ disturbed : finals'[s] = finals[s] /\ hooks'[s] = hooks[s]
          BY <2>1, <2>5, <2>7, <3>2, <4>1
        <4> QED BY <2>1, <4>2
      <3> QED BY <3>1, <3>2
    <2> QED BY <2>4, <2>8, <2>9, <2>10
  <1> QED
    BY <1>0, <1>2, <1>3, <1>4, <1>5, <1>6, Zenon DEF ServerRun, RunBody

(* And so do trades: bots send only while a run of the session is live.    *)
LEMMA TradesKept ==
  ASSUME STypeOK, ServerInv, IInv, NEW t \in Trades,
         (t \in BotTrades /\ BotSends(t)) \/ (t \in UserTrades /\ UserSends(t)) \/ Callback(t)
  PROVE  ServerInv'
  <1> USE DEF ServerInv, HooksNoted, StartReady, SessionReady, LostFinalExplained, Active,
     Before, During, Trades
  <1>0. /\ BotTrades \cap UserTrades = {}
        /\ UNCHANGED <<pc, session, sid, hooks, status, hpc, finalized, closing, opened, late,
                       finals, disturbed>>
    BY ServerAssumption
    DEF ServerAssumption, BotSends, UserSends, Sends, Callback, CallbackLooks, CallbackRecords,
        vars, runs, history, books
  <1>1. OverlapNoted'
    BY <1>0 DEF OverlapNoted, Overlap, RunsOver
  <1>2. CASE t \in BotTrades /\ BotSends(t)
    <2>1. PICK g \in Run : alive[g] # {}
      BY <1>2 DEF BotSends
    <2>2. Active(g) /\ pc[g] \notin {"none", "done"}
      BY <2>1 DEF IInv, Ownership
    <2>3. sid + 1 \notin disturbed => \A h \in Handlers : hpc[h] # "start"
      BY <2>2 DEF OverlapNoted, Overlap, Opening, RunsOver
    <2>4. /\ Pending' \subseteq Pending \cup {t} /\ book' = book
          /\ sentIn'[t] = sid
          /\ \A u \in BotTrades : u # t => sentIn'[u] = sentIn[u]
      BY <1>2 DEF BotSends, Sends, STypeOK, Pending, books
    <2> QED
      BY <1>0, <1>1, <2>3, <2>4
  <1>3. CASE t \in UserTrades /\ UserSends(t)
    <2>1. /\ (book' \cup Pending') \cap BotTrades = (book \cup Pending) \cap BotTrades
          /\ sentIn' = sentIn
      BY <1>0, <1>3 DEF UserSends, Sends, STypeOK, Pending, books
    <2> QED BY <1>0, <1>1, <2>1
  <1>4. CASE Callback(t)
    <2>1. book' \cup Pending' \subseteq book \cup Pending /\ sentIn' = sentIn
      BY <1>4 DEF Callback, CallbackLooks, CallbackRecords, STypeOK, Pending, books
    <2> QED BY <1>0, <1>1, <2>1
  <1> QED
    BY <1>2, <1>3, <1>4

(* ServerInv holds throughout, whatever clients do.                        *)
LEMMA ServerInvariance == SSafe => []ServerInv
  <1>1. SInit => ServerInv
    <2> SUFFICES ASSUME SInit PROVE ServerInv
      OBVIOUS
    <2>1. /\ \A r \in Run : pc[r] = "none" /\ ~Active(r)
          /\ \A h \in Handlers : hpc[h] = "idle"
          /\ book = {} /\ Pending = {}
      BY DEF SInit, Init, Trades, Active, Before, During, Pending
    <2>2. /\ \A s \in Run : finals[s] = 0 /\ hooks[s] = 0
          /\ closing = {} /\ status = "idle"
      BY DEF SInit, Init
    <2>3. ~Overlap
      BY <2>1 DEF Overlap, Opening, Clearing
    <2> QED
      BY <2>1, <2>2, <2>3
      DEF ServerInv, OverlapNoted, HooksNoted, StartReady, SessionReady, LostFinalExplained
  <1>2. STypeOK /\ IInv /\ HookInv /\ ServerInv /\ [SNext]_allvars => ServerInv'
    <2> SUFFICES ASSUME STypeOK, IInv, HookInv, ServerInv, [SNext]_allvars PROVE ServerInv'
      OBVIOUS
    <2>1. CASE StopOrPause \/ UNCHANGED allvars
      <3>1. /\ UNCHANGED <<pc, session, sid, hooks, server>>
            /\ status' = status \/ status' = "idle"
        BY <2>1 DEF StopOrPause, StopRunning, StopSettled, Pause, allvars, vars, runs, history
      <3>2. OverlapNoted'
        BY <3>1 DEF server, ServerInv, OverlapNoted, Overlap, RunsOver
      <3> QED
        BY <3>1, <3>2 DEF server, books, ServerInv, HooksNoted, StartReady, SessionReady,
           LostFinalExplained, Active, Pending
    <2> QED
      BY <2>1, HandlersKept, RunsKept, TradesKept DEF SNext, Trades
  <1>3. SSafe => [](IInv /\ HookInv)
    BY ServerRunsSession, Invariance, HookInvariance, ServerAssumption, PTL DEF ServerAssumption
  <1> QED BY <1>1, <1>2, <1>3, ServerTypeCorrect, PTL DEF SSafe

(* Whatever clients do, a hook that did not finalize its own session's     *)
(* books, once, was called for a session that a start or hard reset        *)
(* overlapped.                                                             *)
THEOREM LostFinalExplainedHolds == SSafe => []LostFinalExplained
  <1>1. ServerInv => LostFinalExplained
    BY DEF ServerInv
  <1> QED BY <1>1, ServerInvariance, PTL

(* And a bot trade of another session in the books was under way when they *)
(* were reset, unless a start or hard reset overlapped the session.        *)
THEOREM StrayTradesExplainedHolds == SSafe => []StrayTradesExplained
  <1>1. ServerInv => StrayTradesExplained
    BY DEF ServerInv, SessionReady, StrayTradesExplained
  <1> QED BY <1>1, ServerInvariance, PTL
-------------------------------------------------------------------------------
(* Books that are not open wait for at most one callback, and hold no      *)
(* other trade without a closing price.                                    *)
Found == {t \in Trades : cb[t] = "found"}

UnpricedInv ==
  /\ \A t, u \in Found : t = u
  /\ ~BooksOpen => \A t, u \in (book \ priced) \cup Found : t = u

(* The store's mutex keeps it through every step.                          *)
LEMMA UnpricedKept == STypeOK /\ UnpricedInv /\ [SNext]_allvars => UnpricedInv'
  <1> SUFFICES ASSUME STypeOK, UnpricedInv, [SNext]_allvars PROVE UnpricedInv'
    OBVIOUS
  <1> USE DEF UnpricedInv, BooksOpen
  <1>1. ASSUME NEW h \in Handlers, Handler(h) PROVE UnpricedInv'
    <2>1. ResetForSession \/ ClearBooks \/ UNCHANGED books
      BY <1>1, Zenon
      DEF Handler, StartDuration, StartGuard, StartAccounts, StartCall, ResumeAccounts,
          ResumeCall, ResetCall, ResetHard, ResetReseed, OnlyHandler
    <2>2. Found' = Found
      BY <1>1 DEF Handler, StartDuration, StartGuard, StartAccounts, StartCall, ResumeAccounts,
         ResumeCall, ResetCall, ResetHard, ResetReseed, OnlyHandler, Found
    <2> QED BY <2>1, <2>2 DEF ResetForSession, ClearBooks, books
  <1>2. ASSUME UNCHANGED <<books, cb>> PROVE UnpricedInv'
    BY <1>2 DEF books, Found
  <1>3. ASSUME NEW r \in Run, HookFinalizes(r) PROVE UnpricedInv'
    <2>1. Found' = Found
      BY <1>3 DEF HookFinalizes, Found
    <2>2. CASE opened
      <3>1. book' \ priced' = {}
        BY <1>3, <2>2 DEF HookFinalizes, FinalizeBooks
      <3> QED BY <2>1, <3>1
    <2>3. CASE ~opened
      BY <1>3, <2>1, <2>3 DEF HookFinalizes, FinalizeBooks, books
    <2> QED BY <2>2, <2>3
  <1>4. ASSUME NEW t \in Trades, Sends(t) PROVE UnpricedInv'
    <2>1. Found' = Found
      BY <1>4 DEF Sends, Found, STypeOK
    <2> QED BY <1>4, <2>1 DEF Sends, books
  <1>5. ASSUME NEW t \in Trades, CallbackLooks(t) PROVE UnpricedInv'
    <2>1. Found = {} /\ Found' = IF BooksOpen THEN {t} ELSE {}
      BY <1>5 DEF CallbackLooks, Found, STypeOK
    <2> QED BY <1>5, <2>1 DEF CallbackLooks, books
  <1>6. ASSUME NEW t \in Trades, CallbackRecords(t) PROVE UnpricedInv'
    <2>1. t \in Found /\ Found' = Found \ {t}
      BY <1>6 DEF CallbackRecords, Found, STypeOK
    <2>2. book' \ priced' \subseteq (book \ priced) \cup {t}
      BY <1>6 DEF CallbackRecords
    <2> QED BY <1>6, <2>1, <2>2 DEF CallbackRecords
  <1>7. ASSUME NEW r \in Run, ServerRun(r) PROVE UnpricedInv'
    <2>1. UNCHANGED <<books, cb>> \/ HookFinalizes(r)
      BY <1>7, Zenon DEF ServerRun, HookWins, HookLoses, server
    <2> QED BY <1>2, <1>3, <2>1
  <1>8. ASSUME StopOrPause \/ UNCHANGED allvars PROVE UnpricedInv'
    BY <1>2, <1>8 DEF StopOrPause, allvars, server
  <1> QED
    BY <1>1, <1>4, <1>5, <1>6, <1>7, <1>8
    DEF SNext, BotSends, UserSends, Callback, Trades

(* However finalization, resets and callbacks interleave, closed books     *)
(* hold at most one trade without a closing price.                         *)
THEOREM OneUnpricedHolds == SSafe => []OneUnpriced
  <1>1. SInit => UnpricedInv
    BY DEF SInit, UnpricedInv, Found
  <1>2. UnpricedInv => OneUnpriced
    BY DEF UnpricedInv, OneUnpriced
  <1> QED BY <1>1, <1>2, UnpricedKept, ServerTypeCorrect, PTL DEF SSafe

===============================================================================
