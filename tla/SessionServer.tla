---------------------------- MODULE SessionServer ----------------------------
(***************************************************************************)
(* The session under the HTTP server: the handlers of                      *)
(* backend/internal/server/handlers.go that start, resume and reset it in  *)
(* several steps, the finalization hook and its guard (server.go), and the *)
(* books the trade callbacks write to (cmd/simulator/main.go OnTrade,      *)
(* store/memory.go, metrics/account.go).                                   *)
(*                                                                         *)
(* The books stand for the metrics of one account; the manager resets and  *)
(* finalizes all accounts under one lock, so the others fare alike.        *)
(* Balances, prices and PnL are left out: a trade is in the books or not,  *)
(* and has its closing price or not.                                       *)
(***************************************************************************)
EXTENDS Session, FiniteSets

CONSTANTS
  Handlers,    (* bound: requests in flight at a time                      *)
  BotTrades, UserTrades    (* bound: the trades the executor emits         *)

ASSUME ServerAssumption ==
  /\ BotTrades \cap UserTrades = {}
  /\ ~HookMayPanic

Trades == BotTrades \cup UserTrades

VARIABLES
  hpc,          (* where each request handler is                           *)
  finalized,    (* s.sessionFinalized = 1                                  *)
  closing,      (* runs whose hook won the guard and has yet to finalize   *)
  opened,       (* am.sessionStarted                                       *)
  ended,        (* am.sessionEndTime # nil                                 *)
  book,         (* am.trades                                               *)
  priced,       (* the trades of the book with a closing price             *)
  cb,           (* where the callback of each trade is                     *)
  (* history, read by properties only *)
  sentIn,       (* the session each bot trade was sent in                  *)
  finals,       (* times the books were finalized in each session          *)
  late,         (* trades whose callback was pending at the last reset of  *)
                (* the books                                               *)
  disturbed     (* sessions a start or hard reset overlapped: see Overlap  *)

books   == <<opened, ended, book, priced, late>>
server  == <<hpc, finalized, closing, books, cb, sentIn, finals, disturbed>>
allvars == <<vars, server>>

SInit ==
  /\ Init
  /\ hpc = [h \in Handlers |-> "idle"]
  /\ finalized = FALSE /\ closing = {}
  /\ opened = FALSE /\ ended = FALSE /\ book = {} /\ priced = {}
  /\ cb = [t \in Trades |-> "none"]
  /\ sentIn = [t \in BotTrades |-> 0]
  /\ finals = [s \in Run |-> 0]
  /\ late = {} /\ disturbed = {}

-------------------------------------------------------------------------------
(* The books.                                                              *)

BooksOpen == opened /\ ~ended                      (* IsSessionActive      *)

Pending == {t \in Trades : cb[t] \in {"sent", "found"}}

(* Mutant of ResetForSession: the trades are kept.                         *)
ResetKeepsTrades ==
  opened' = TRUE /\ ended' = FALSE /\ late' = Pending /\ UNCHANGED <<book, priced>>

ResetForSession ==
  opened' = TRUE /\ ended' = FALSE /\ late' = Pending /\ book' = {} /\ priced' = {}

ClearBooks ==
  opened' = FALSE /\ ended' = FALSE /\ book' = {} /\ priced' = {} /\ UNCHANGED late

(* Books that are not open are left alone, those already ended priced anew. *)
FinalizeBooks ==
  IF opened
  THEN /\ ended' = TRUE /\ priced' = book
       /\ finals' = [finals EXCEPT ![sid] = @ + 1]
       /\ UNCHANGED <<opened, book, late>>
  ELSE UNCHANGED <<books, finals>>

-------------------------------------------------------------------------------
(* The handlers.  One step per call that touches shared state.             *)

RunsOver == \A r \in Run : pc[r] \in {"none", "done"}

Opening  == {"guard", "accounts", "start"}      (* a start in flight       *)
Clearing == {"hard", "reseed", "reopen"}        (* a hard reset in flight  *)

(* A start or a hard reset is in flight together with a run, or with       *)
(* another.                                                                *)
Overlap ==
  \E h \in Handlers :
    /\ hpc[h] \in Opening \cup Clearing
    /\ \/ ~RunsOver
       \/ \E g \in Handlers \ {h} : hpc[g] \in Opening \cup Clearing

(* Only a handler's step makes an overlap, which may hurt the current      *)
(* session and the next.                                                   *)
GotoH(h, label) ==
  /\ hpc' = [hpc EXCEPT ![h] = label]
  /\ disturbed' = disturbed \cup IF Overlap' THEN {sid', sid' + 1} ELSE {}

(* Bound: a start or resume comes only while every request in flight would *)
(* still find a run to spawn.                                              *)
Room ==
  Cardinality({r \in Run : pc[r] = "none"}) > Cardinality({g \in Handlers : hpc[g] # "idle"})

Arrives(h) == hpc[h] = "idle" /\ Room

OnlyHandler == UNCHANGED <<finalized, closing, books, cb, sentIn, finals>>

(* handleSessionStart: an optional duration, the guard, the accounts, and  *)
(* only then Start, which may refuse.                                      *)
StartDuration(h) ==
  /\ Arrives(h) /\ OnlyHandler
  /\ \E d \in Durations : SetDuration(d)
  /\ GotoH(h, "guard")

(* Mutant of StartGuard: the guard stays set.                              *)
StartKeepsGuard(h) ==
  /\ Arrives(h) \/ hpc[h] = "guard"
  /\ UNCHANGED <<vars, finalized, closing, books, cb, sentIn, finals>>
  /\ GotoH(h, "accounts")

StartGuard(h) ==
  /\ Arrives(h) \/ hpc[h] = "guard"
  /\ finalized' = FALSE
  /\ UNCHANGED <<vars, closing, books, cb, sentIn, finals>>
  /\ GotoH(h, "accounts")

StartAccounts(h) ==
  /\ hpc[h] = "accounts"
  /\ ResetForSession
  /\ UNCHANGED <<vars, finalized, closing, cb, sentIn, finals>>
  /\ GotoH(h, "start")

StartCall(h) ==
  /\ hpc[h] = "start" /\ OnlyHandler
  /\ \/ Start
     \/ status = "running" /\ UNCHANGED vars
  /\ GotoH(h, "idle")

(* handleSessionResume: the accounts first here too.                       *)
ResumeAccounts(h) ==
  /\ Arrives(h)
  /\ ResetForSession
  /\ UNCHANGED <<vars, finalized, closing, cb, sentIn, finals>>
  /\ GotoH(h, "resume")

(* Mutant of ResumeCall: a refused resume is tried again.                  *)
ResumeRetries(h) ==
  \/ hpc[h] = "resume" /\ OnlyHandler /\ (Resume \/ ResumeSpent) /\ GotoH(h, "idle")
  \/ hpc[h] = "resume" /\ status # "paused" /\ UNCHANGED allvars

ResumeCall(h) ==
  /\ hpc[h] = "resume" /\ OnlyHandler
  /\ \/ Resume \/ ResumeSpent
     \/ status # "paused" /\ UNCHANGED vars
  /\ GotoH(h, "idle")

(* handleSessionReset: soft resets stop at the session; hard ones clear    *)
(* the accounts, and reseeding opens their books again.                    *)
ResetCall(h) ==
  /\ hpc[h] = "idle" /\ OnlyHandler
  /\ Reset
  /\ \E label \in {"idle", "hard", "reseed"} : GotoH(h, label)

ResetHard(h) ==
  /\ hpc[h] \in {"hard", "reseed"}
  /\ ClearBooks
  /\ UNCHANGED <<vars, finalized, closing, cb, sentIn, finals>>
  /\ GotoH(h, IF hpc[h] = "hard" THEN "idle" ELSE "reopen")

(* The chain is redeployed and the books open again, or that fails.        *)
ResetReseed(h) ==
  /\ hpc[h] = "reopen"
  /\ ResetForSession \/ UNCHANGED books
  /\ UNCHANGED <<vars, finalized, closing, cb, sentIn, finals>>
  /\ GotoH(h, "idle")

(* handleSessionStop and handleSessionPause call the session and return.   *)
StopOrPause == (StopRunning \/ StopSettled \/ Pause) /\ UNCHANGED server

Handler(h) ==
  \/ StartDuration(h) \/ StartGuard(h) \/ StartAccounts(h) \/ StartCall(h)
  \/ ResumeAccounts(h) \/ ResumeCall(h)
  \/ ResetCall(h) \/ ResetHard(h) \/ ResetReseed(h)

-------------------------------------------------------------------------------
(* finalizeSession, the hook of run r: the guard, then the accounts.       *)

HookWins(r) ==
  /\ pc[r] = "hook" /\ r \notin closing /\ ~finalized
  /\ finalized' = TRUE
  /\ closing' = closing \cup {r}
  /\ UNCHANGED <<vars, hpc, books, cb, sentIn, finals, disturbed>>

HookLoses(r) ==
  /\ r \notin closing /\ finalized
  /\ RunHook(r)
  /\ UNCHANGED server

(* The price took its time: the books may be another session's by now.     *)
HookFinalizes(r) ==
  /\ r \in closing
  /\ RunHook(r)
  /\ FinalizeBooks
  /\ closing' = closing \ {r}
  /\ UNCHANGED <<hpc, finalized, cb, sentIn, disturbed>>

-------------------------------------------------------------------------------
(* The callback of a trade: a goroutine of its own from emitTrade, which   *)
(* RecordTrade of the store serializes and which looks at the books before *)
(* it writes to them.                                                      *)

Sends(t) ==
  /\ cb[t] = "none"
  /\ cb' = [cb EXCEPT ![t] = "sent"]
  /\ UNCHANGED <<vars, hpc, finalized, closing, books, finals, disturbed>>

BotSends(t) ==
  /\ \E g \in Run : alive[g] # {}
  /\ Sends(t)
  /\ sentIn' = [sentIn EXCEPT ![t] = sid]

UserSends(t) == Sends(t) /\ UNCHANGED sentIn

(* Mutant of CallbackLooks: the store does not serialize the callbacks.    *)
LooksUnlocked(t) ==
  /\ cb[t] = "sent"
  /\ cb' = [cb EXCEPT ![t] = IF BooksOpen THEN "found" ELSE "done"]
  /\ UNCHANGED <<vars, hpc, finalized, closing, books, sentIn, finals, disturbed>>

CallbackLooks(t) ==
  /\ cb[t] = "sent" /\ \A u \in Trades : cb[u] # "found"
  /\ cb' = [cb EXCEPT ![t] = IF BooksOpen THEN "found" ELSE "done"]
  /\ UNCHANGED <<vars, hpc, finalized, closing, books, sentIn, finals, disturbed>>

CallbackRecords(t) ==
  /\ cb[t] = "found"
  /\ cb' = [cb EXCEPT ![t] = "done"]
  /\ book' = book \cup {t}
  /\ UNCHANGED <<vars, hpc, finalized, closing, opened, ended, priced, late,
                 sentIn, finals, disturbed>>

Callback(t) == CallbackLooks(t) \/ CallbackRecords(t)

-------------------------------------------------------------------------------
ServerRun(r) ==
  \/ (RunBody(r) \/ Expire(r)) /\ UNCHANGED server
  \/ (\E b \in Bots : BotReturns(r, b) \/ BotPanics(r, b)) /\ UNCHANGED server
  \/ HookWins(r) \/ HookLoses(r) \/ HookFinalizes(r)

SNext ==
  \/ \E h \in Handlers : Handler(h)
  \/ StopOrPause
  \/ \E r \in Run : ServerRun(r)
  \/ \E t \in BotTrades : BotSends(t)
  \/ \E t \in UserTrades : UserSends(t)
  \/ \E t \in Trades : Callback(t)

SSafe == SInit /\ [][SNext]_allvars

(* Goroutines run on; a request in flight is served; nobody need send one. *)
SFairness ==
  /\ \A r \in Run :
       /\ WF_allvars((RunBody(r) \/ Expire(r)) /\ UNCHANGED server)
       /\ WF_allvars(HookWins(r) \/ HookLoses(r) \/ HookFinalizes(r))
       /\ \A b \in Bots : WF_allvars(BotReturns(r, b) /\ UNCHANGED server)
  /\ \A t \in Trades : WF_allvars(Callback(t))
  /\ \A h \in Handlers : WF_allvars(hpc[h] # "idle" /\ Handler(h))

SSpec == SSafe /\ SFairness

-------------------------------------------------------------------------------
(* Properties.                                                             *)

(* The variables of the server hold values of their types.                 *)
STypeOK ==
  /\ TypeOK
  /\ hpc \in [Handlers -> {"idle", "guard", "accounts", "start", "resume",
                           "hard", "reseed", "reopen"}]
  /\ finalized \in BOOLEAN /\ closing \subseteq Run
  /\ opened \in BOOLEAN /\ ended \in BOOLEAN
  /\ book \subseteq Trades /\ priced \subseteq book
  /\ cb \in [Trades -> {"none", "sent", "found", "done"}]
  /\ sentIn \in [BotTrades -> 0 .. MaxRuns]
  /\ finals \in [Run -> Nat]
  /\ late \subseteq Trades /\ disturbed \subseteq 0 .. MaxRuns + 1

(* The hook that a run calls finalizes the books, and for its own session, *)
(* unless a start or a hard reset overlapped that session (server.go:63,   *)
(* 386-388).  Resumes, stops, pauses, soft resets and trades may come at   *)
(* any time.                                                               *)
LostFinalExplained == \A s \in Run \ disturbed : finals[s] = hooks[s]

(* A bot trade of another session is in the books (account.go:419 calls    *)
(* them session-only) only if its callback was on its way when they were   *)
(* reset, or a start or hard reset overlapped the session.                 *)
StrayTradesExplained ==
  \A t \in book \cap BotTrades : sentIn[t] = sid \/ t \in late \/ sid \in disturbed

(* Whatever overlaps, books that are not open hold at most one trade       *)
(* without a closing price: the one whose callback had looked before they  *)
(* were finalized or cleared (memory.go:201).                              *)
OneUnpriced == ~BooksOpen => \A t, u \in book \ priced : t = u

(* The books of a session whose run has completed and called the hook are  *)
(* finalized once (server.go:63-65, 386-388).  A start whose guard step    *)
(* comes before the hook of the session before has won leaves it closed.   *)
FinalizedExactlyOnce ==
  RunsOver /\ status = "completed" /\ hooks[sid] = 1 => finals[sid] = 1

(* Whatever clients do, every request is answered, refused ones too, and   *)
(* every trade callback and every run ends: with trades and runs bounded,  *)
(* a handler comes to be idle with none of them left.                      *)
EverythingEnds ==
  \A h \in Handlers :
    LET Rest == hpc[h] = "idle" /\ Pending = {} /\ RunsOver
    IN  ~Rest ~> Rest
===============================================================================
