------------------------------- MODULE Executor -------------------------------
(***************************************************************************)
(* backend/internal/engine/executor.go over backend/internal/chain/nonce.go*)
(* for one account: concurrent calls that sign with its key (HTTP trades   *)
(* of the User, a bot, the balance resets), the nonce cache they share,    *)
(* and the node, modelled from how the executor uses it: it queues a       *)
(* transaction until every lower nonce is mined.                           *)
(*                                                                         *)
(* A call takes its nonce under nm.mu and sends without it, so calls pass  *)
(* each other in between.  A call whose context ends, or whose RPC fails,  *)
(* returns an error and keeps its nonce; nobody calls NonceManager.Reset.  *)
(* GetReserves is read between the two and decides no step; amounts and    *)
(* prices are left out.                                                    *)
(***************************************************************************)
EXTENDS Naturals, FiniteSets

CONSTANTS
  Calls,          (* bound: the calls made, each once                      *)
  Mixes,          (* and what each of them may be                          *)
  Slots,          (* the capacity of callbackSem                           *)
  MaxFailures,    (* bound: sends that fail on the way there or back       *)
  MaxReseeds      (* bound: chain resets                                   *)

Kinds == {"buy", "sell", "transfer"}
Sending == {"approve", "send"}      (* holding a nonce not sent yet        *)

ASSUME ExecutorAssumption ==
  /\ Mixes \subseteq [Calls -> Kinds]
  /\ Slots \in Nat /\ MaxFailures \in Nat /\ MaxReseeds \in Nat

VARIABLES
  kind,           (* what each call does                                   *)
  pc,             (* where each call is                                    *)
  held,           (* the nonce it took last                                *)
  known, next,    (* nm.nonces[addr]: whether cached, and the next nonce   *)
  mined,          (* the node: transactions mined, which is the nonce      *)
  queue,          (* and those it holds, by nonce                          *)
  approved,       (* and the allowance of the pool                         *)
  running,        (* calls whose trade callback holds a slot               *)
  reseeding,      (* between anvil_reset and the clearing of the cache     *)
  (* history, read by properties only, and the bounds *)
  landed,         (* calls whose own transaction was mined                 *)
  reverted,       (* sells mined without an allowance                      *)
  lost,           (* nonces of sends that never reached this chain         *)
  clean,          (* no reset failed or met a call under way               *)
  emitted,        (* calls that emitted their trade                        *)
  failures, reseeds

cache   == <<known, next>>
node    == <<mined, queue, approved>>
history == <<landed, reverted, lost, clean, emitted, failures, reseeds>>
vars    == <<kind, pc, held, cache, node, running, reseeding, history>>

Init ==
  /\ kind \in Mixes
  /\ pc = [c \in Calls |-> "none"]
  /\ held = [c \in Calls |-> 0]
  /\ known = FALSE /\ next = 0
  /\ mined = 0 /\ queue = {} /\ approved = FALSE
  /\ running = {} /\ reseeding = FALSE
  /\ landed = {} /\ reverted = {} /\ lost = {} /\ clean = TRUE /\ emitted = {}
  /\ failures = 0 /\ reseeds = 0

-------------------------------------------------------------------------------
(* The nonce cache.                                                        *)

Queued == {q.nonce : q \in queue}

(* PendingNonceAt: the first nonce the node has nothing for.               *)
PendingNonceAt ==
  {n \in {mined} \cup {m + 1 : m \in Queued} :
     /\ n >= mined /\ n \notin Queued
     /\ \A m \in mined .. n : m < n => m \in Queued}

(* Mutants of GetAndIncrement: nothing is incremented; a miss counts twice.*)
PeekNonce(c) ==
  \E n \in IF known THEN {next} ELSE PendingNonceAt :
    /\ held' = [held EXCEPT ![c] = n]
    /\ known' = TRUE /\ next' = n

IncrementTwice(c) ==
  \E n \in IF known THEN {next} ELSE PendingNonceAt :
    /\ held' = [held EXCEPT ![c] = n]
    /\ known' = TRUE /\ next' = IF known THEN n + 1 ELSE n + 2

(* GetAndIncrement, under nm.mu.                                           *)
GetAndIncrement(c) ==
  \E n \in IF known THEN {next} ELSE PendingNonceAt :
    /\ held' = [held EXCEPT ![c] = n]
    /\ known' = TRUE /\ next' = n + 1

-------------------------------------------------------------------------------
(* A call.                                                                 *)

Goto(c, label) == pc' = [pc EXCEPT ![c] = label]

Call(c) ==
  /\ pc[c] = "none"
  /\ Goto(c, IF kind[c] = "sell" THEN "allowance" ELSE "nonce")
  /\ clean' = (clean /\ ~reseeding)
  /\ UNCHANGED <<kind, held, cache, node, running, reseeding,
                 landed, reverted, lost, emitted, failures, reseeds>>

(* Mutant of ReadAllowance: the allowance is taken for granted.            *)
TrustsApproval(c) ==
  /\ pc[c] = "allowance"
  /\ Goto(c, "nonce")
  /\ UNCHANGED <<kind, held, cache, node, running, reseeding, history>>

(* ensureApproval, up to the nonce of the approval: getAllowance.          *)
ReadAllowance(c) ==
  /\ pc[c] = "allowance"
  /\ Goto(c, IF approved THEN "nonce" ELSE "approval")
  /\ UNCHANGED <<kind, held, cache, node, running, reseeding, history>>

TakeNonce(c) ==
  /\ \/ pc[c] = "approval" /\ Goto(c, "approve")
     \/ pc[c] = "nonce" /\ Goto(c, "send")
  /\ GetAndIncrement(c)
  /\ UNCHANGED <<kind, node, running, reseeding, history>>

(* An RPC read fails before a nonce is taken: the call returns its error.  *)
ReadFails(c) ==
  /\ pc[c] = "allowance" \/ (pc[c] \in {"approval", "nonce"} /\ ~known)
  /\ failures < MaxFailures /\ failures' = failures + 1
  /\ Goto(c, "failed")
  /\ UNCHANGED <<kind, held, cache, node, running, reseeding,
                 landed, reverted, lost, clean, emitted, reseeds>>

(* The node takes a transaction with a nonce it has none for yet.          *)
Free(n) == n >= mined /\ n \notin Queued

Enqueue(c) ==
  /\ Free(held[c])
  /\ queue' = queue \cup {[nonce |-> held[c], by |-> c, approves |-> pc[c] = "approve"]}

Send(c) ==
  /\ pc[c] \in Sending
  /\ Enqueue(c)
  /\ Goto(c, IF pc[c] = "approve" THEN "nonce"
             ELSE IF kind[c] = "transfer" THEN "done" ELSE "emit")
  /\ UNCHANGED <<kind, held, cache, mined, approved, running, reseeding, history>>

(* Mutant of SendRefused: the same transaction is sent again.              *)
RefusedRetries(c) ==
  /\ pc[c] \in Sending /\ ~Free(held[c])
  /\ UNCHANGED vars

(* Nonce too low, or taken.                                                *)
SendRefused(c) ==
  /\ pc[c] \in Sending /\ ~Free(held[c])
  /\ Goto(c, "failed")
  /\ UNCHANGED <<kind, held, cache, node, running, reseeding, history>>

(* The send fails, or its context ends, before or after the node had it.   *)
SendLost(c) ==
  /\ pc[c] \in Sending
  /\ lost' = lost \cup {held[c]}
  /\ failures < MaxFailures /\ failures' = failures + 1
  /\ Goto(c, "failed")
  /\ UNCHANGED <<kind, held, cache, node, running, reseeding,
                 landed, reverted, clean, emitted, reseeds>>

AnswerLost(c) ==
  /\ pc[c] \in Sending
  /\ Enqueue(c)
  /\ failures < MaxFailures /\ failures' = failures + 1
  /\ Goto(c, "failed")
  /\ UNCHANGED <<kind, held, cache, mined, approved, running, reseeding,
                 landed, reverted, lost, clean, emitted, reseeds>>

(* emitTrade: with every slot taken the callback is skipped.               *)
EmitTrade(c) ==
  /\ pc[c] = "emit"
  /\ Goto(c, "done")
  /\ emitted' = emitted \cup {c}
  /\ running' = IF Cardinality(running) < Slots THEN running \cup {c} ELSE running
  /\ UNCHANGED <<kind, held, cache, node, reseeding,
                 landed, reverted, lost, clean, failures, reseeds>>

CallbackReturns(c) ==
  /\ c \in running
  /\ running' = running \ {c}
  /\ UNCHANGED <<kind, pc, held, cache, node, reseeding, history>>

CallStep(c) ==
  ReadAllowance(c) \/ TakeNonce(c) \/ Send(c) \/ SendRefused(c) \/ EmitTrade(c)

Fails(c) == ReadFails(c) \/ SendLost(c) \/ AnswerLost(c)

-------------------------------------------------------------------------------
(* The node mines the next nonce as soon as it has it.                     *)
Mines(q) ==
  /\ q.nonce = mined
  /\ mined' = mined + 1
  /\ queue' = queue \ {q}
  /\ approved' = (approved \/ q.approves)
  /\ landed' = IF q.approves THEN landed ELSE landed \cup {q.by}
  /\ reverted' = IF kind[q.by] = "sell" /\ ~q.approves /\ ~approved
                 THEN reverted \cup {q.by} ELSE reverted
  /\ UNCHANGED <<kind, pc, held, cache, running, reseeding,
                 lost, clean, emitted, failures, reseeds>>

Mine == \E q \in queue : Mines(q)

(* Calls between their first read of the chain and their last send.        *)
UnderWay(c) == pc[c] \in {"allowance", "approval", "nonce"} \cup Sending

(* reseedChainAndRedeploy: the chain is reset, the contracts are deployed, *)
(* and only then is the nonce cache cleared; never if the script fails.    *)
ResetChain ==
  /\ ~reseeding /\ reseeds < MaxReseeds
  /\ reseeding' = TRUE /\ reseeds' = reseeds + 1
  /\ mined' = 0 /\ queue' = {} /\ approved' = FALSE /\ lost' = {}
  /\ clean' = (clean /\ \A c \in Calls : ~UnderWay(c))
  /\ UNCHANGED <<kind, pc, held, cache, running, landed, reverted, emitted, failures>>

(* Mutant of ClearCache: ResetAll instead, which refetches by incrementing.*)
ClearByResetAll ==
  /\ reseeding /\ reseeding' = FALSE
  /\ known' = TRUE /\ next' = 1
  /\ UNCHANGED <<kind, pc, held, node, running, history>>

ClearCache ==
  /\ reseeding /\ reseeding' = FALSE
  /\ known' = FALSE /\ next' = 0
  /\ UNCHANGED <<kind, pc, held, node, running, history>>

RedeployFails ==
  /\ reseeding /\ reseeding' = FALSE
  /\ clean' = FALSE
  /\ UNCHANGED <<kind, pc, held, cache, node, running,
                 landed, reverted, lost, emitted, failures, reseeds>>

Next ==
  \/ \E c \in Calls : Call(c) \/ CallStep(c) \/ Fails(c) \/ CallbackReturns(c)
  \/ Mine \/ ResetChain \/ ClearCache \/ RedeployFails

Safe == Init /\ [][Next]_vars

(* A call runs on, the node mines, a callback returns.  Calls need not be  *)
(* made, fail or reset the chain.                                          *)
Spec ==
  /\ Safe
  /\ \A c \in Calls : WF_vars(CallStep(c)) /\ WF_vars(CallbackReturns(c))
  /\ WF_vars(Mine)

-------------------------------------------------------------------------------
(* Properties.                                                             *)

Transaction == [nonce : Nat, by : Calls, approves : BOOLEAN]

Data ==
  /\ kind \in [Calls -> Kinds]
  /\ pc \in [Calls -> {"none", "allowance", "approval", "nonce", "emit", "done", "failed"}
                      \cup Sending]
  /\ held \in [Calls -> Nat]
  /\ next \in Nat /\ mined \in Nat /\ queue \subseteq Transaction
  /\ running \subseteq Calls /\ landed \subseteq Calls /\ reverted \subseteq Calls
  /\ lost \subseteq Nat /\ emitted \subseteq Calls
  /\ failures \in 0 .. MaxFailures /\ reseeds \in 0 .. MaxReseeds

Flags ==
  known \in BOOLEAN /\ approved \in BOOLEAN /\ reseeding \in BOOLEAN /\ clean \in BOOLEAN

SlotsKept == IsFiniteSet(running) /\ Cardinality(running) <= Slots

(* The variables hold values of their types, and no more callbacks run     *)
(* than callbackSem has slots.                                             *)
TypeOK == Data /\ Flags /\ SlotsKept

(* The cache prevents collisions (nonce.go:36-37): no two calls hold the   *)
(* same nonce and none holds a nonce the node has used or queued, so no    *)
(* send is refused, whatever else failed and across every chain reset      *)
(* that completed and met no call under way.                               *)
Held(c) == pc[c] \in Sending

NoCollision ==
  clean =>
    \A c \in Calls : Held(c) =>
      Free(held[c]) /\ \A d \in Calls : Held(d) /\ held[d] = held[c] => d = c

(* Likewise the node waits only for nonces that a call still holds or that *)
(* a failed send took with it; a clean reset starts the count afresh.      *)
Holding == {held[c] : c \in {d \in Calls : Held(d)}}

GapsExplained ==
  clean /\ known /\ ~reseeding =>
    \A n \in mined .. next : n < next => n \in Queued \cup Holding \cup lost

(* Likewise a sell is mined with its allowance in place, by its own        *)
(* approval or another call's: ensureApproval waits for none, the nonces   *)
(* order them.                                                             *)
SellsApproved == clean => reverted = {}

(* With no send lost and no chain reset, every emitted trade is mined.     *)
TradesLand ==
  \A c \in Calls : c \in emitted ~> c \in landed \/ lost # {} \/ reseeds > 0

(* Every call returns, and every callback slot is given back, even when    *)
(* sends fail and the chain is reset under them.                           *)
CallsReturn ==
  /\ \A c \in Calls : pc[c] # "none" ~> pc[c] \in {"done", "failed"}
  /\ \A c \in Calls : c \in running ~> c \notin running
===============================================================================
