--------------------------- MODULE SessionLifecycle ---------------------------
(***************************************************************************)
(* What a client of engine.Session may rely on, with nothing of how the    *)
(* session does it: a status, and whether the bots of the current run have *)
(* yet to be launched ("down"), are trading ("up") or have all returned    *)
(* ("joined").  docs/SESSION_BOT_LIFECYCLE.md gives the statuses; the      *)
(* steps are those session.go lets an observer see.  Module Session        *)
(* implements this one.                                                    *)
(***************************************************************************)
VARIABLES
  status,   (* the status GetState reports                                 *)
  bots      (* where the bots of the current run are                       *)

lvars == <<status, bots>>

Settled == {"idle", "paused", "completed"}

Init == status = "idle" /\ bots = "joined"

(* A run is accepted only over a session that is not running, and only     *)
(* after every bot of the run before it has returned.                      *)
Begin ==
  /\ status \in Settled /\ bots = "joined"
  /\ status' = "running" /\ bots' = "down"

Launch == status = "running" /\ bots = "down" /\ bots' = "up" /\ UNCHANGED status

Join == status = "running" /\ bots = "up" /\ bots' = "joined" /\ UNCHANGED status

(* The only way out of "running": the run ends, after its bots.            *)
End ==
  /\ status = "running" /\ bots = "joined"
  /\ status' \in {"paused", "completed"}
  /\ UNCHANGED bots

(* Stop and Reset bring a settled session back to idle.                    *)
Clear == status \in Settled /\ status' = "idle" /\ UNCHANGED bots

(* Resuming a paused session with no time left completes it.               *)
RunOut == status = "paused" /\ status' = "completed" /\ UNCHANGED bots

Next == Begin \/ Launch \/ Join \/ End \/ Clear \/ RunOut

Safe == Init /\ [][Next]_lvars

(* Every run that was accepted launches its bots, joins them and ends.     *)
Spec == Safe /\ WF_lvars(Launch) /\ WF_lvars(Join) /\ WF_lvars(End)
===============================================================================
