---------------------------------- MODULE Hub ----------------------------------
(***************************************************************************)
(* The WebSocket hub of backend/internal/server/{server,broadcast}.go: a   *)
(* registry of clients, a bounded queue, a writer goroutine; what feeds it *)
(* (Session.emitState, the price poll of cmd/simulator/main.go) and the    *)
(* shutdown that closes it.                                                *)
(*                                                                         *)
(* A message is the version of the session state it carries, or 0 for      *)
(* market data.  The session is only a version here: odd while it runs.    *)
(***************************************************************************)
EXTENDS Naturals, Sequences, FiniteSets

CONSTANTS
  Conns,        (* bound: the WebSocket connections ever made              *)
  Capacity,     (* of the broadcast channel: 1024 in the code              *)
  MaxVersion    (* bound: the transitions of the session                   *)

ASSUME HubAssumption ==
  /\ Capacity \in Nat \ {0}
  /\ MaxVersion \in Nat

Version   == 0 .. MaxVersion
Poller    == 0                       (* the price poll                     *)
Announcer == Version                 (* it, and emitState's goroutines: one
                                        per transition of the session      *)

VARIABLES
  version,    (* what Session.GetState returns                             *)
  apc,        (* where each announcer is in emitState and Broadcast        *)
  amsg,       (* the message it carries                                    *)
  queue,      (* s.broadcast                                               *)
  flag,       (* s.broadcastClosed = 1                                     *)
  closed,     (* close(s.broadcast) was called                             *)
  wpc, wmsg, wtodo, wfailed,     (* runBroadcast and its locals            *)
  cpc,        (* where the goroutine of each connection is                 *)
  clients,    (* s.clients                                                 *)
  shut,       (* the connections the server closed                         *)
  gone,       (* the connections whose peer has left                       *)
  writeErr,   (* those whose snapshot failed: gorilla/websocket fails all
                 later writes, and the reader hears nothing of it          *)
  seen,       (* the last session state written to each peer               *)
  spc,        (* where main and its shutdown goroutine are                 *)
  panics,     (* announcers that sent on the closed channel                *)
  missed      (* history: the newest state each peer did not get, or got
                 before an older one                                       *)

announce == <<apc, amsg, queue, panics>>
writer   == <<wpc, wmsg, wtodo, wfailed>>
conns    == <<cpc, clients, shut, gone, writeErr, seen>>
stop     == <<flag, closed, spc>>
vars     == <<version, announce, writer, conns, stop, missed>>

Init ==
  /\ version = 0
  /\ apc = [a \in Announcer |-> "idle"] /\ amsg = [a \in Announcer |-> 0]
  /\ queue = <<>> /\ flag = FALSE /\ closed = FALSE
  /\ wpc = "receive" /\ wmsg = 0 /\ wtodo = {} /\ wfailed = {}
  /\ cpc = [c \in Conns |-> "none"]
  /\ clients = {} /\ shut = {} /\ gone = {} /\ writeErr = {}
  /\ seen = [c \in Conns |-> 0]
  /\ spc = "serving"
  /\ panics = {} /\ missed = [c \in Conns |-> 0]

(* A panic of the poll ends the program: it runs in an errgroup goroutine  *)
(* with no recover.  emitState recovers those of its callbacks.            *)
Crashed == Poller \in panics
Up      == spc # "exited" /\ ~Crashed

Running == version % 2 = 1

(* The peers that had their snapshot and know only an older state than m.  *)
Behind(m) == {c \in Conns : cpc[c] \in {"register", "reading"} /\ seen[c] < m}

(* State m is not written to the peers of S.                               *)
Misses(S, m) ==
  missed' = [c \in Conns |-> IF c \in S /\ missed[c] < m THEN m ELSE missed[c]]

-------------------------------------------------------------------------------
(* The session: a transition under its lock, then emitState outside it,    *)
(* which reads the state again and hands it to a goroutine.  A start needs *)
(* the HTTP server, an end does not.                                       *)

Transition ==
  /\ version < MaxVersion
  /\ Running \/ spc \notin {"waiting", "exited"}
  /\ version' = version + 1
  /\ apc' = [apc EXCEPT ![version + 1] = "read"]
  /\ UNCHANGED <<amsg, queue, panics, writer, conns, stop, missed>>

(* Mutant of EmitReads: what it hands over is the state before the change. *)
EmitReadsBefore(a) ==
  /\ apc[a] = "read"
  /\ apc' = [apc EXCEPT ![a] = "flag"]
  /\ amsg' = [amsg EXCEPT ![a] = a - 1]
  /\ UNCHANGED <<version, queue, panics, writer, conns, stop, missed>>

EmitReads(a) ==
  /\ apc[a] = "read"
  /\ apc' = [apc EXCEPT ![a] = "flag"]
  /\ amsg' = [amsg EXCEPT ![a] = version]
  /\ UNCHANGED <<version, queue, panics, writer, conns, stop, missed>>

(* The price poll announces on a tick, until it finds its context done.    *)
PollTicks ==
  /\ apc[Poller] = "idle"
  /\ apc' = [apc EXCEPT ![Poller] = "flag"]
  /\ UNCHANGED <<version, amsg, queue, panics, writer, conns, stop, missed>>

(* Mutant of PollEnds: the poll waits for the program to end.              *)
PollEndsLast ==
  /\ apc[Poller] = "idle" /\ spc = "exited"
  /\ apc' = [apc EXCEPT ![Poller] = "done"]
  /\ UNCHANGED <<version, amsg, queue, panics, writer, conns, stop, missed>>

PollEnds ==
  /\ apc[Poller] = "idle" /\ spc # "serving"
  /\ apc' = [apc EXCEPT ![Poller] = "done"]
  /\ UNCHANGED <<version, amsg, queue, panics, writer, conns, stop, missed>>

(* Broadcast: the flag, then the clients, then a send that never blocks.   *)
Finish(a) ==
  /\ apc' = [apc EXCEPT ![a] = IF a = Poller THEN "idle" ELSE "done"]
  /\ amsg' = [amsg EXCEPT ![a] = 0]

Dropped(a) ==
  /\ Finish(a)
  /\ Misses(Behind(amsg[a]), amsg[a])
  /\ UNCHANGED <<queue, panics>>

BroadcastFlag(a) ==
  /\ apc[a] = "flag"
  /\ IF flag THEN Dropped(a)
     ELSE /\ apc' = [apc EXCEPT ![a] = "clients"]
          /\ UNCHANGED <<amsg, queue, panics, missed>>
  /\ UNCHANGED <<version, writer, conns, stop>>

BroadcastClients(a) ==
  /\ apc[a] = "clients"
  /\ IF clients = {} THEN Dropped(a)
     ELSE /\ apc' = [apc EXCEPT ![a] = "send"]
          /\ UNCHANGED <<amsg, queue, panics, missed>>
  /\ UNCHANGED <<version, writer, conns, stop>>

BroadcastSend(a) ==
  /\ apc[a] = "send"
  /\ \/ /\ closed
        /\ Finish(a)
        /\ Misses(Behind(amsg[a]), amsg[a])
        /\ panics' = panics \cup {a}
        /\ UNCHANGED queue
     \/ /\ ~closed /\ Len(queue) < Capacity
        /\ Finish(a)
        /\ queue' = Append(queue, amsg[a])
        /\ UNCHANGED <<panics, missed>>
     \/ /\ ~closed /\ Len(queue) >= Capacity
        /\ Dropped(a)
  /\ UNCHANGED <<version, writer, conns, stop>>

Announces(a) ==
  EmitReads(a) \/ BroadcastFlag(a) \/ BroadcastClients(a) \/ BroadcastSend(a)

-------------------------------------------------------------------------------
(* runBroadcast: receive, copy the clients, write to each, purge those     *)
(* that failed; until the channel is closed and empty.                     *)

Left == UNCHANGED <<version, apc, amsg, panics, stop>>

WriterReceives ==
  /\ wpc = "receive" /\ queue # <<>>
  /\ wpc' = "copy" /\ wmsg' = Head(queue) /\ queue' = Tail(queue)
  /\ Left /\ UNCHANGED <<wtodo, wfailed, conns, missed>>

WriterCopies ==
  /\ wpc = "copy"
  /\ wpc' = "write" /\ wtodo' = clients
  /\ Misses(Behind(wmsg) \ clients, wmsg)
  /\ Left /\ UNCHANGED <<queue, wmsg, wfailed, conns>>

(* A write is handed to the connection, which brings it to its peer unless *)
(* that has left, or it fails: at once on a connection that was closed or  *)
(* failed before, by its deadline when the peer has long read nothing.     *)
WriterWrites(c) ==
  /\ wpc = "write" /\ c \in wtodo
  /\ wtodo' = wtodo \ {c}
  /\ \/ /\ c \notin shut \cup writeErr
        /\ IF wmsg = 0 \/ c \in gone THEN UNCHANGED <<seen, missed>>
           ELSE /\ seen' = [seen EXCEPT ![c] = wmsg]
                /\ Misses(IF wmsg < seen[c] THEN {c} ELSE {}, seen[c])
        /\ UNCHANGED wfailed
     \/ wfailed' = wfailed \cup {c} /\ UNCHANGED <<seen, missed>>
  /\ Left /\ UNCHANGED <<queue, wpc, wmsg, cpc, clients, shut, gone, writeErr>>

(* Mutant of WriterPurges: a failed connection is only forgotten.          *)
WriterForgets ==
  /\ wpc = "write" /\ wtodo = {}
  /\ wpc' = "receive" /\ wmsg' = 0 /\ wfailed' = {}
  /\ clients' = clients \ wfailed
  /\ Left /\ UNCHANGED <<queue, wtodo, cpc, shut, gone, writeErr, seen, missed>>

WriterPurges ==
  /\ wpc = "write" /\ wtodo = {}
  /\ wpc' = "receive" /\ wmsg' = 0 /\ wfailed' = {}
  /\ clients' = clients \ wfailed /\ shut' = shut \cup wfailed
  /\ Left /\ UNCHANGED <<queue, wtodo, cpc, gone, writeErr, seen, missed>>

WriterEnds ==
  /\ wpc = "receive" /\ closed /\ queue = <<>>
  /\ wpc' = "ended"
  /\ Left /\ UNCHANGED <<queue, wmsg, wtodo, wfailed, conns, missed>>

Writer ==
  \/ WriterReceives \/ WriterCopies \/ WriterPurges \/ WriterEnds
  \/ \E c \in Conns : WriterWrites(c)

-------------------------------------------------------------------------------
(* A connection: the upgrade, the snapshot, the registration, then a       *)
(* goroutine that reads, without a deadline, until the peer has left or    *)
(* the server has closed the connection.                                   *)

Aside == UNCHANGED <<version, announce, writer, stop>>

Upgrade(c) ==
  /\ cpc[c] = "none" /\ spc \notin {"waiting", "exited"}
  /\ cpc' = [cpc EXCEPT ![c] = "snapshot"]
  /\ Aside /\ UNCHANGED <<clients, shut, gone, writeErr, seen, missed>>

(* sendInitialState ignores its errors, a deadline of half a second among  *)
(* them: the connection is registered and read from all the same.          *)
Snapshot(c) ==
  /\ cpc[c] = "snapshot"
  /\ cpc' = [cpc EXCEPT ![c] = "register"]
  /\ \/ seen' = [seen EXCEPT ![c] = version] /\ UNCHANGED writeErr
     \/ writeErr' = writeErr \cup {c} /\ UNCHANGED seen
  /\ Aside /\ UNCHANGED <<clients, shut, gone, missed>>

Register(c) ==
  /\ cpc[c] = "register"
  /\ cpc' = [cpc EXCEPT ![c] = "reading"]
  /\ clients' = clients \cup {c}
  /\ Aside /\ UNCHANGED <<shut, gone, writeErr, seen, missed>>

(* One that leaves sooner is noticed here, too; one that falls silent      *)
(* without leaving is only a peer that reads late.                         *)
PeerLeaves(c) ==
  /\ cpc[c] = "reading" /\ c \notin gone \cup shut
  /\ gone' = gone \cup {c}
  /\ Aside /\ UNCHANGED <<cpc, clients, shut, writeErr, seen, missed>>

ReaderEnds(c) ==
  /\ cpc[c] = "reading" /\ c \in gone \cup shut
  /\ cpc' = [cpc EXCEPT ![c] = "ended"]
  /\ clients' = clients \ {c} /\ shut' = shut \cup {c} /\ gone' = gone \cup {c}
  /\ seen' = [seen EXCEPT ![c] = 0] /\ missed' = [missed EXCEPT ![c] = 0]
  /\ Aside /\ UNCHANGED writeErr

Connection(c) == Snapshot(c) \/ Register(c) \/ ReaderEnds(c)

-------------------------------------------------------------------------------
(* Shutdown: the signal cancels the context; a running session is stopped  *)
(* and given half a second; Server.Stop closes the clients, sets the flag, *)
(* closes the channel and shuts the HTTP server down; main waits for the   *)
(* poll and exits.                                                         *)

Goes(from, to) == spc = from /\ spc' = to

Signal == Goes("serving", "cancelled") /\ UNCHANGED <<flag, closed, conns>>

StopSession ==
  /\ Goes("cancelled", IF Running THEN "sleeping" ELSE "sweep")
  /\ UNCHANGED <<flag, closed, conns>>

Slept == Goes("sleeping", "sweep") /\ UNCHANGED <<flag, closed, conns>>

SweepClients ==
  /\ Goes("sweep", "flag")
  /\ clients' = {} /\ shut' = shut \cup clients
  /\ UNCHANGED <<flag, closed, cpc, gone, writeErr, seen>>

SetFlag == Goes("flag", "close") /\ flag' = TRUE /\ UNCHANGED <<closed, conns>>

CloseChannel == Goes("close", "http") /\ closed' = TRUE /\ UNCHANGED <<flag, conns>>

ShutHTTP == Goes("http", "waiting") /\ UNCHANGED <<flag, closed, conns>>

Exit ==
  /\ apc[Poller] = "done" /\ Goes("waiting", "exited")
  /\ UNCHANGED <<flag, closed, conns>>

Shutdown ==
  /\ StopSession \/ Slept \/ SweepClients \/ SetFlag \/ CloseChannel \/ ShutHTTP \/ Exit
  /\ UNCHANGED <<version, announce, writer, missed>>

-------------------------------------------------------------------------------
Next ==
  /\ Up
  /\ \/ Transition \/ PollTicks \/ PollEnds
     \/ \E a \in Announcer : Announces(a)
     \/ Writer
     \/ \E c \in Conns : Upgrade(c) \/ Connection(c) \/ PeerLeaves(c)
     \/ Signal /\ UNCHANGED <<version, announce, writer, missed>>
     \/ Shutdown

Safe == Init /\ [][Next]_vars

(* Goroutines run on: none holds clientsMu over a write, and a write ends  *)
(* by its deadline.  Clients, ticks, transitions and signals may not come; *)
(* of the announcers nobody waits for any but the poll.                    *)
Fairness ==
  /\ WF_vars(Up /\ Announces(Poller))
  /\ SF_vars(Up /\ PollEnds)
  /\ WF_vars(Up /\ Writer)
  /\ \A c \in Conns : WF_vars(Up /\ Connection(c))
  /\ WF_vars(Up /\ Shutdown)

Spec == Safe /\ Fairness

-------------------------------------------------------------------------------
(* Properties.                                                             *)

(* The variables hold values of their types; the queue keeps its capacity. *)
TypeOK ==
  /\ version \in Version
  /\ apc \in [Announcer -> {"idle", "read", "flag", "clients", "send", "done"}]
  /\ amsg \in [Announcer -> Version]
  /\ queue \in Seq(Version) /\ Len(queue) <= Capacity
  /\ flag \in BOOLEAN /\ closed \in BOOLEAN
  /\ wpc \in {"receive", "copy", "write", "ended"} /\ wmsg \in Version
  /\ wtodo \subseteq Conns /\ wfailed \subseteq Conns
  /\ cpc \in [Conns -> {"none", "snapshot", "register", "reading", "ended"}]
  /\ clients \subseteq Conns /\ shut \subseteq Conns /\ gone \subseteq Conns
  /\ writeErr \subseteq Conns
  /\ seen \in [Conns -> Version]
  /\ spc \in {"serving", "cancelled", "sleeping", "sweep", "flag", "close",
              "http", "waiting", "exited"}
  /\ panics \subseteq Announcer
  /\ missed \in [Conns -> Version]

(* A connection has one writer at a time, as gorilla/websocket demands: the*)
(* writer goroutine never has one in hand whose snapshot is still being    *)
(* sent (broadcast.go:51-52).                                              *)
NoConcurrentWrites ==
  \A c \in Conns : cpc[c] = "snapshot" => c \notin clients \cup wtodo

(* Once nothing is under way, a connected peer shows the session's state,  *)
(* unless that very state missed it (the queue was full, or it was not yet *)
(* registered, or the hub was stopping) or came before an older one.  One  *)
(* whose snapshot failed shows nothing until the next broadcast closes it. *)
Settled ==
  /\ queue = <<>> /\ wpc = "receive"
  /\ \A a \in Announcer \ {Poller} : apc[a] \in {"idle", "done"}

StaleExplained ==
  Up /\ Settled =>
    \A c \in clients \ (gone \cup shut \cup writeErr) : version \in {seen[c], missed[c]}

(* A shutdown comes to its end, whatever clients, writer and poll do; or   *)
(* the program has crashed.                                                *)
ShutdownEnds == spc # "serving" ~> ~Up

(* No connection is left half open: one whose peer left, that the server   *)
(* closed, or that a broadcast failed on, or that one meets whose snapshot *)
(* failed, loses its registration and its goroutine.  A peer that is only  *)
(* silent, or missed its snapshot, is kept until such a broadcast.         *)
Broken(c) ==
  \/ c \in gone \cup shut \cup wfailed
  \/ c \in writeErr \cap wtodo
  \/ cpc[c] = "reading" /\ c \notin clients

BrokenLeave ==
  \A c \in Conns : Broken(c) ~> (~Up \/ (cpc[c] = "ended" /\ c \notin clients))

-------------------------------------------------------------------------------
(* What comments say of the program and the code does not do.              *)

(* server.go:243 and 228-229: Broadcast checks whether the channel is      *)
(* closed before it sends, and then drops the message silently.            *)
NoSendAfterClose == panics = {}
===============================================================================
