------------------------------- MODULE Session -------------------------------
(***************************************************************************)
(* backend/internal/engine: a Session (session.go) driving an Orchestrator *)
(* (orchestrator.go).  Each accepted Start or Resume spawns one goroutine, *)
(* called here a run, that launches the bots, waits for its context,       *)
(* stops and joins the bots, settles the status under s.mu and then calls  *)
(* the session-ended hook.  Start, Stop, Pause, Resume, Reset and          *)
(* SetDuration are called by HTTP handlers at any time.                    *)
(*                                                                         *)
(* A step is one critical section of s.mu or o.mu, or one return from a    *)
(* blocking call.  Run r creates context r and bot group r: a run launches *)
(* its group once.  o.cancel is not kept, being set and cleared with       *)
(* o.isRunning and always the cancel function of o.eg.  endedAt and the    *)
(* messages of emitState change no later step and are left out.            *)
(***************************************************************************)
EXTENDS Naturals

CONSTANTS
  MaxRuns,    (* bound: goroutines spawned by Start and Resume             *)
  Bots,       (* the bots registered with the orchestrator                 *)
  Durations,  (* the session durations a client asks for                   *)
  HookMayPanic  (* whether the hook may panic (its run recovers it)        *)

ASSUME SessionAssumption ==
  /\ MaxRuns \in Nat
  /\ Bots # {}
  /\ Durations # {} /\ Durations \subseteq Nat \ {0}
  /\ HookMayPanic \in BOOLEAN

Run == 1 .. MaxRuns
None == 0     (* a nil context, cancel function or errgroup                *)

VARIABLES
  status, duration, elapsed,
  ticking,     (* s.startedAt # nil                                        *)
  cancel,      (* s.cancel: the run whose context it cancels               *)
  stopMode,
  isRunning, eg,     (* o.isRunning, o.eg                                  *)
  held,        (* the group a Reset waits for while it holds s.mu          *)
  pc,          (* where each run is                                        *)
  ctx,         (* each run's context                                       *)
  budget,      (* the timeout each run's context was given                 *)
  join,        (* the group each run waits for                             *)
  stopped,     (* groups whose context was cancelled by orchestrator.Stop  *)
  alive,       (* the bots of each group still inside Run                  *)
  (* history, read by properties only *)
  sid,         (* sessions started so far: the current session             *)
  session,     (* the session each run belongs to                          *)
  hooks,       (* hook calls made for each session                         *)
  stopAsked    (* runs a client asked to Stop                              *)

flags   == <<duration, elapsed, ticking, cancel, stopMode>>
orch    == <<isRunning, eg, stopped, alive>>
runs    == <<pc, ctx, budget, join>>
history == <<sid, session, hooks, stopAsked>>
vars    == <<status, flags, orch, held, runs, history>>

Statuses == {"idle", "running", "paused", "completed", "error"}
Before   == {"start", "restop", "restopWait", "waitPrev"}    (* bots not launched yet    *)
During   == {"wait", "stopWait", "finish"}
After    == {"hook", "done"}

Active(r) == pc[r] \in Before \cup During

Unlocked == held = None      (* s.mu is free: every other section is one step *)

(* A fresh run id, or nothing when the bound is reached.                   *)
Fresh == {r \in Run : pc[r] = "none" /\ \A q \in Run : q < r => pc[q] # "none"}

Init ==
  /\ status = "idle" /\ duration \in Durations /\ elapsed = 0
  /\ ticking = FALSE /\ cancel = None /\ stopMode = "complete"
  /\ isRunning = FALSE /\ eg = None /\ held = None /\ stopped = {}
  /\ alive     = [r \in Run |-> {}]
  /\ pc        = [r \in Run |-> "none"]
  /\ ctx       = [r \in Run |-> "none"]
  /\ budget    = [r \in Run |-> 0]
  /\ join      = [r \in Run |-> None]
  /\ sid = 0 /\ stopAsked = {}
  /\ session   = [r \in Run |-> 0]
  /\ hooks     = [s \in Run |-> 0]

-------------------------------------------------------------------------------
(* The calls of a client.  A rejected call changes nothing and is no step. *)

SetDuration(d) ==
  /\ Unlocked
  /\ duration' = d
  /\ UNCHANGED <<status, elapsed, ticking, cancel, stopMode, orch, held, runs, history>>

(* What Start and Resume share: a context with a timeout, and its run.     *)
Spawn(r, time) ==
  /\ status' = "running" /\ ticking' = TRUE
  /\ stopMode' = "complete" /\ cancel' = r
  /\ pc'      = [pc EXCEPT ![r] = "start"]
  /\ ctx'     = [ctx EXCEPT ![r] = "live"]
  /\ budget'  = [budget EXCEPT ![r] = time]
  /\ session' = [session EXCEPT ![r] = sid']
  /\ UNCHANGED <<duration, orch, held, join, hooks, stopAsked>>

(* Mutant of Start: the status is not checked.                             *)
StartUnchecked ==
  /\ Unlocked /\ elapsed' = 0 /\ sid' = sid + 1
  /\ \E r \in Fresh : Spawn(r, duration)

Start ==
  /\ Unlocked /\ status # "running"
  /\ elapsed' = 0
  /\ sid' = sid + 1
  /\ \E r \in Fresh : Spawn(r, duration)

Resume ==
  /\ Unlocked /\ status = "paused" /\ elapsed < duration
  /\ UNCHANGED <<elapsed, sid>>
  /\ \E r \in Fresh : Spawn(r, duration - elapsed)

(* With no time remaining the session completes here, and no run sees it.  *)
ResumeSpent ==
  /\ Unlocked /\ status = "paused" /\ elapsed >= duration
  /\ status' = "completed"
  /\ UNCHANGED <<flags, orch, held, runs, history>>

(* s.cancel() on a context that already expired leaves it expired.         *)
Cancel(r) == ctx' = [ctx EXCEPT ![r] = IF @ = "live" THEN "cancelled" ELSE @]

StopRunning ==
  /\ Unlocked /\ status = "running" /\ cancel # None
  /\ stopMode' = "complete"
  /\ Cancel(cancel)
  /\ stopAsked' = stopAsked \cup {cancel}
  /\ UNCHANGED <<status, duration, elapsed, ticking, cancel, orch, held,
                 pc, budget, join, sid, session, hooks>>

StopSettled ==
  /\ Unlocked /\ status \in {"completed", "paused"}
  /\ status' = "idle" /\ ticking' = FALSE /\ elapsed' = 0
  /\ cancel' = None /\ stopMode' = "complete"
  /\ UNCHANGED <<duration, orch, held, runs, history>>

(* Mutant of Pause: s.cancel is dropped once called.                       *)
PauseDropsCancel ==
  /\ Unlocked /\ status = "running" /\ cancel # None
  /\ stopMode' = "pause" /\ cancel' = None
  /\ Cancel(cancel)
  /\ UNCHANGED <<status, duration, elapsed, ticking, orch, held,
                 pc, budget, join, history>>

Pause ==
  /\ Unlocked /\ status = "running" /\ cancel # None
  /\ stopMode' = "pause"
  /\ Cancel(cancel)
  /\ UNCHANGED <<status, duration, elapsed, ticking, cancel, orch, held,
                 pc, budget, join, history>>

ClearForReset ==
  /\ status' = "idle" /\ ticking' = FALSE /\ elapsed' = 0
  /\ stopMode' = "complete"
  /\ UNCHANGED <<duration, cancel>>

Reset ==
  /\ Unlocked /\ status # "running" /\ ~isRunning
  /\ ClearForReset
  /\ UNCHANGED <<orch, held, runs, history>>

(* Reset over an orchestrator that still runs: Stop joins the bots while   *)
(* s.mu is held.                                                           *)
ResetStop ==
  /\ Unlocked /\ status # "running" /\ isRunning
  /\ isRunning' = FALSE /\ stopped' = stopped \cup {eg}
  /\ held' = eg
  /\ UNCHANGED <<status, flags, eg, alive, runs, history>>

ResetJoined ==
  /\ ~Unlocked /\ alive[held] = {}
  /\ held' = None
  /\ ClearForReset
  /\ UNCHANGED <<orch, runs, history>>

Client ==
  \/ \E d \in Durations : SetDuration(d)
  \/ Start \/ Resume \/ ResumeSpent \/ StopRunning \/ StopSettled
  \/ Pause \/ Reset \/ ResetStop \/ ResetJoined

-------------------------------------------------------------------------------
(* The steps of run r.                                                     *)

Goto(r, label) == pc' = [pc EXCEPT ![r] = label]

(* The last critical section of orchestrator.Start, and the bots it spawns.*)
LaunchBots(r) ==
  /\ isRunning' = TRUE /\ eg' = r
  /\ alive' = [alive EXCEPT ![r] = Bots]
  /\ Goto(r, "wait")
  /\ UNCHANGED <<status, flags, held, stopped, ctx, budget, join, history>>

(* orchestrator.Start finds no earlier group: it launches at once.         *)
RunFirst(r) ==
  /\ pc[r] = "start" /\ ~isRunning /\ eg = None
  /\ LaunchBots(r)

WaitFor(r, g, label) ==
  /\ join' = [join EXCEPT ![r] = g]
  /\ Goto(r, label)

(* orchestrator.Start waits for the group before, even a stopped one.      *)
RunWaitPrev(r) ==
  /\ \/ pc[r] = "start" /\ ~isRunning /\ eg # None
     \/ pc[r] = "restop" /\ ~isRunning
     \/ pc[r] = "restopWait" /\ alive[join[r]] = {}
  /\ WaitFor(r, eg, "waitPrev")
  /\ UNCHANGED <<status, flags, orch, held, ctx, budget, history>>

(* orchestrator.Start finds the orchestrator running and stops it first.   *)
RunStillRunning(r) ==
  /\ pc[r] = "start" /\ isRunning
  /\ Goto(r, "restop")
  /\ UNCHANGED <<status, flags, orch, held, ctx, budget, join, history>>

(* The critical section of that nested Stop, which then joins the group.   *)
RunRestop(r) ==
  /\ pc[r] = "restop" /\ isRunning
  /\ isRunning' = FALSE /\ stopped' = stopped \cup {eg}
  /\ WaitFor(r, eg, "restopWait")
  /\ UNCHANGED <<status, flags, eg, alive, held, ctx, budget, history>>

RunLaunch(r) ==
  /\ pc[r] = "waitPrev" /\ alive[join[r]] = {}
  /\ LaunchBots(r)

(* Mutant of RunStop: orchestrator.Stop does not wait for the bots.        *)
RunStopNoJoin(r) ==
  /\ pc[r] = "wait" /\ ctx[r] # "live" /\ isRunning
  /\ isRunning' = FALSE /\ stopped' = stopped \cup {eg}
  /\ Goto(r, "finish")
  /\ UNCHANGED <<status, flags, eg, alive, held, ctx, budget, join, history>>

(* <-ctx.Done() and the critical section of orchestrator.Stop.             *)
RunStop(r) ==
  /\ pc[r] = "wait" /\ ctx[r] # "live" /\ isRunning
  /\ isRunning' = FALSE /\ stopped' = stopped \cup {eg}
  /\ WaitFor(r, eg, "stopWait")
  /\ UNCHANGED <<status, flags, eg, alive, held, ctx, budget, history>>

RunAlreadyStopped(r) ==
  /\ pc[r] = "wait" /\ ctx[r] # "live" /\ ~isRunning
  /\ Goto(r, "finish")
  /\ UNCHANGED <<status, flags, orch, held, ctx, budget, join, history>>

RunJoined(r) ==
  /\ pc[r] = "stopWait" /\ alive[join[r]] = {}
  /\ Goto(r, "finish")
  /\ UNCHANGED <<status, flags, orch, held, ctx, budget, join, history>>

(* Time run r has used when it settles: all its budget if the timer fired, *)
(* any amount otherwise (joining the bots takes time too).  Elapsed time   *)
(* beyond the longest duration makes no difference and is cut there.       *)
Longest == CHOOSE d \in Durations : \A e \in Durations : e <= d

Elapsed(r) ==
  {t \in elapsed .. Longest : ctx[r] = "expired" =>
                                 t >= elapsed + budget[r] \/ t = Longest}

Settle(r) ==
  /\ elapsed' \in IF ticking THEN Elapsed(r) ELSE {elapsed}
  /\ ticking' = FALSE /\ cancel' = None /\ stopMode' = "complete"
  /\ UNCHANGED <<duration, orch, held, ctx, budget, join, history>>

(* Mutant of RunPaused: run goes on to the hook after a pause too.         *)
RunPausedHooks(r) ==
  /\ Unlocked /\ pc[r] = "finish" /\ stopMode = "pause"
  /\ status' = "paused"
  /\ Settle(r)
  /\ Goto(r, "hook")

(* The critical section of run: a paused run returns without the hook.     *)
RunPaused(r) ==
  /\ Unlocked /\ pc[r] = "finish" /\ stopMode = "pause"
  /\ status' = "paused"
  /\ Settle(r)
  /\ Goto(r, "done")

RunCompleted(r) ==
  /\ Unlocked /\ pc[r] = "finish" /\ stopMode = "complete"
  /\ status' = "completed"
  /\ Settle(r)
  /\ Goto(r, "hook")

RunHook(r) ==
  /\ pc[r] = "hook"
  /\ hooks' = [hooks EXCEPT ![session[r]] = @ + 1]
  /\ Goto(r, "done")
  /\ UNCHANGED <<status, flags, orch, held, ctx, budget, join, sid, session, stopAsked>>

(* A panic of the hook is recovered where the run was spawned; the session *)
(* may have moved on since, and its status is set to error all the same.   *)
RunPanic(r) ==
  /\ HookMayPanic /\ Unlocked /\ pc[r] = "hook"
  /\ status' = "error"
  /\ hooks' = [hooks EXCEPT ![session[r]] = @ + 1]
  /\ Goto(r, "done")
  /\ UNCHANGED <<flags, orch, held, ctx, budget, join, sid, session, stopAsked>>

RunBody(r) ==
  \/ RunFirst(r) \/ RunWaitPrev(r) \/ RunStillRunning(r) \/ RunRestop(r)
  \/ RunLaunch(r) \/ RunStop(r) \/ RunAlreadyStopped(r) \/ RunJoined(r)
  \/ RunPaused(r) \/ RunCompleted(r)

RunStep(r) == RunBody(r) \/ RunHook(r) \/ RunPanic(r)

(* Mutant of Expire: the context has no timeout.                           *)
ExpireNever(r) == ctx[r] = "none" /\ Active(r) /\ UNCHANGED vars

(* The timer of a run's context fires.                                     *)
Expire(r) ==
  /\ ctx[r] = "live" /\ Active(r)
  /\ ctx' = [ctx EXCEPT ![r] = "expired"]
  /\ UNCHANGED <<status, flags, orch, held, pc, budget, join, history>>

BotLeaves(g, b) ==
  /\ b \in alive[g]
  /\ alive' = [alive EXCEPT ![g] = @ \ {b}]
  /\ UNCHANGED <<status, flags, isRunning, eg, stopped, held, runs, history>>

(* A bot returns from Run once the context of its group is done.           *)
BotReturns(g, b) == (ctx[g] # "live" \/ g \in stopped) /\ BotLeaves(g, b)

(* A bot that panics is recovered by the orchestrator and leaves the group.*)
BotPanics(g, b) == BotLeaves(g, b)

System(r) ==
  \/ RunStep(r)
  \/ Expire(r)
  \/ \E b \in Bots : BotReturns(r, b) \/ BotPanics(r, b)

Next == Client \/ \E r \in Run : System(r)

Safe == Init /\ [][Next]_vars

(* Goroutines are scheduled, timers fire and bots watch their context;     *)
(* clients need not call anything.                                         *)
Fairness ==
  /\ \A r \in Run : /\ WF_vars(RunStep(r))
                    /\ WF_vars(Expire(r))
                    /\ \A b \in Bots : WF_vars(BotReturns(r, b))
  /\ WF_vars(ResetJoined)

Spec == Safe /\ Fairness

-------------------------------------------------------------------------------
(* Properties.                                                             *)

(* Every variable holds a value of its type.                               *)
TypeOK ==
  /\ status \in Statuses /\ duration \in Durations /\ elapsed \in Nat
  /\ ticking \in BOOLEAN /\ cancel \in Run \cup {None}
  /\ stopMode \in {"complete", "pause"}
  /\ isRunning \in BOOLEAN /\ eg \in Run \cup {None} /\ held \in Run \cup {None}
  /\ pc \in [Run -> {"none"} \cup Before \cup During \cup After]
  /\ ctx \in [Run -> {"none", "live", "cancelled", "expired"}]
  /\ budget \in [Run -> Nat]
  /\ join \in [Run -> Run \cup {None}]
  /\ stopped \subseteq Run
  /\ alive \in [Run -> SUBSET Bots]
  /\ sid \in 0 .. MaxRuns /\ stopAsked \subseteq Run
  /\ session \in [Run -> 0 .. MaxRuns]
  /\ hooks \in [Run -> Nat]

(* However Start, Stop, Pause, Resume and Reset interleave with the run    *)
(* goroutines, at most one run has not settled yet, and the status says    *)
(* "running" exactly while there is one: session.go checks the status, not *)
(* the goroutine, before it spawns another (170-176, 337-343).             *)
SingleRun ==
  /\ \A r, q \in Run : Active(r) /\ Active(q) => r = q
  /\ status = "running" <=> \E r \in Run : Active(r)

(* No bot trades outside a running session: a paused, completed or idle    *)
(* status is shown only after every bot of every group has returned        *)
(* (run, 211-243; docs/SESSION_BOT_LIFECYCLE.md:56).                       *)
BotsOnlyWhileRunning == (\E g \in Run : alive[g] # {}) => status = "running"

(* A client can always end the live run: s.cancel is its cancel function,  *)
(* so Stop and Pause, which skip a nil cancel silently (277, 327), never   *)
(* return success having done nothing.                                     *)
LiveRunCancellable == \A r \in Run : Active(r) => cancel = r

(* The session-ended hook runs at most once for a session, through all its *)
(* pauses and resumes (session.go:66).                                     *)
HookAtMostOnce == \A s \in Run : hooks[s] <= 1

(* When a run calls the hook, its own bots have all returned, whatever     *)
(* other runs, panicking bots and resets do meanwhile (66, 100-102).       *)
HookAfterOwnBots == \A r \in Run : pc[r] \in After => alive[r] = {}

(* A client's call never takes the session out of "running" by itself:     *)
(* only the critical section of a run does (211-243).                      *)
OnlyRunsEndRunning ==
  [][status = "running" /\ status' # "running" =>
       \E r \in Run : pc[r] = "finish" /\ pc'[r] # "finish"]_vars

(* Every run goroutine ends: its timer fires, its bots return, and neither *)
(* a nested Stop nor the wait for an earlier group blocks it for ever.     *)
RunsEnd == \A r \in Run : pc[r] # "none" ~> pc[r] = "done"

(* Session implements SessionLifecycle.                                    *)
BotsPhase ==
  IF \E r \in Run : pc[r] \in Before THEN "down"
  ELSE IF \E g \in Run : alive[g] # {} THEN "up" ELSE "joined"

Lifecycle == INSTANCE SessionLifecycle WITH bots <- BotsPhase
Implements == Lifecycle!Spec
===============================================================================
