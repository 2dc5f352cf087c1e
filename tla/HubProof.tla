-------------------------------- MODULE HubProof -------------------------------
(***************************************************************************)
(* The types of Hub, that no connection has two writers, and that a stale  *)
(* client has an explanation, for any connections, queue and transitions.  *)
(*                                                                         *)
(* The last needs where the session's state is on its way to each client   *)
(* (Covered): its announcer has it, or the queue, or the writer, or the    *)
(* client is one the writer failed on; or it was told or has missed it.    *)
(***************************************************************************)
EXTENDS Hub, SequenceTheorems, TLAPS

Data ==
  /\ version \in Version
  /\ apc \in [Announcer -> {"idle", "read", "flag", "clients", "send", "done"}]
  /\ amsg \in [Announcer -> Version]
  /\ queue \in Seq(Version) /\ Len(queue) <= Capacity
  /\ wpc \in {"receive", "copy", "write", "ended"} /\ wmsg \in Version
  /\ wtodo \subseteq Conns /\ wfailed \subseteq Conns
  /\ cpc \in [Conns -> {"none", "snapshot", "register", "reading", "ended"}]
  /\ clients \subseteq Conns /\ shut \subseteq Conns /\ gone \subseteq Conns
  /\ writeErr \subseteq Conns
  /\ seen \in [Conns -> Version]
  /\ panics \subseteq Announcer
  /\ missed \in [Conns -> Version]

Control ==
  /\ flag \in BOOLEAN /\ closed \in BOOLEAN
  /\ spc \in {"serving", "cancelled", "sleeping", "sweep", "flag", "close",
              "http", "waiting", "exited"}

(* Nothing is ahead of the session.                                        *)
Bounded ==
  /\ \A c \in Conns : seen[c] <= version /\ missed[c] <= version
  /\ \A a \in Announcer : amsg[a] <= version
  /\ wmsg <= version
  /\ \A i \in 1 .. Len(queue) : queue[i] <= version

(* The writer never has a connection in hand that is not registered yet.   *)
Registered ==
  \A c \in Conns :
    /\ cpc[c] # "reading" => c \notin clients
    /\ cpc[c] \in {"none", "snapshot", "register"} => c \notin wtodo

WriterClean == wpc = "receive" => wfailed = {}

Connected(c) == /\ cpc[c] \in {"register", "reading"}
                /\ c \notin gone \cup shut \cup writeErr
Told(c)    == version = seen[c] \/ version = missed[c]
Announced  == \/ apc[version] = "read"
              \/ /\ apc[version] \in {"flag", "clients", "send"}
                 /\ amsg[version] = version
Queued     == \E i \in 1 .. Len(queue) : queue[i] = version
Written(c) == /\ wmsg = version
              /\ wpc = "copy" \/ (wpc = "write" /\ c \in wtodo)

Covered ==
  \A c \in Conns :
    Connected(c) => Told(c) \/ Announced \/ Queued \/ Written(c) \/ c \in wfailed

IInv == Data /\ Bounded /\ Registered /\ WriterClean /\ Covered

-------------------------------------------------------------------------------
(* What the steps share.                                                   *)

LEMMA InitHolds == Init => IInv /\ Control
<1> SUFFICES ASSUME Init PROVE IInv /\ Control
  OBVIOUS
<1>1. 0 \in Version /\ Version \subseteq Nat
  BY HubAssumption DEF Version
<1>2. Data
  BY <1>1, HubAssumption DEF Init, Data, Announcer
<1>3. Bounded
  BY <1>1 DEF Init, Bounded
<1>4. Registered /\ WriterClean /\ Covered
  BY DEF Init, Registered, WriterClean, Covered, Connected
<1>5. Control
  <2>1. flag \in BOOLEAN /\ closed \in BOOLEAN
    BY Zenon DEF Init
  <2>2. spc = "serving"
    BY DEF Init
  <2> QED  BY <2>1, <2>2, Zenon DEF Control
<1> QED  BY <1>2, <1>3, <1>4, <1>5 DEF IInv

(* Before the first transition every peer that had a snapshot was told.    *)
LEMMA FirstTold ==
  ASSUME IInv, version = 0, NEW c \in Conns
  PROVE  Told(c)
<1>1. seen[c] \in Nat /\ seen[c] <= 0
  BY HubAssumption DEF IInv, Data, Bounded, Version
<1> QED  BY <1>1 DEF Told

(* To miss the session's state is to have it among one's missed.           *)
LEMMA MissesTells ==
  ASSUME IInv, NEW S, NEW m \in Version, m <= version, Misses(S, m),
         UNCHANGED <<version, seen>>
  PROVE  /\ missed' \in [Conns -> Version]
         /\ \A c \in Conns : missed'[c] <= version
         /\ \A c \in Conns : Told(c) => Told(c)'
         /\ \A c \in Conns : c \in S /\ m = version => Told(c)'
<1>1. version \in Nat /\ m \in Nat /\ \A c \in Conns : missed[c] \in Nat /\ missed[c] <= version
  BY HubAssumption DEF IInv, Data, Bounded, Version
<1>2. missed' = [c \in Conns |-> IF c \in S /\ missed[c] < m THEN m ELSE missed[c]]
  BY DEF Misses
<1>3. \A c \in Conns : missed'[c] = IF c \in S /\ missed[c] < m THEN m ELSE missed[c]
  BY <1>2
<1>4. missed' \in [Conns -> Version]
  BY <1>2 DEF IInv, Data
<1>5. \A c \in Conns : missed'[c] <= version
  BY <1>1, <1>3
<1>6. \A c \in Conns : Told(c) => Told(c)'
  <2> SUFFICES ASSUME NEW c \in Conns, Told(c) PROVE Told(c)'
    OBVIOUS
  <2>1. CASE version = seen[c]
    BY <2>1 DEF Told
  <2>2. CASE version = missed[c]
    BY <2>2, <1>1, <1>3 DEF Told
  <2> QED  BY <2>1, <2>2 DEF Told
<1>7. \A c \in Conns : c \in S /\ m = version => Told(c)'
  BY <1>1, <1>3 DEF Told
<1> QED  BY <1>4, <1>5, <1>6, <1>7

(* A message that is dropped was carried, or was not the session's state.  *)
LEMMA DroppedTells ==
  ASSUME IInv, NEW a \in Announcer, Misses(Behind(amsg[a]), amsg[a]), Finish(a),
         UNCHANGED <<version, queue, writer, conns>>, panics' \subseteq Announcer,
         apc[a] \in {"flag", "clients", "send"}
  PROVE  IInv'
<1>1. amsg[a] \in Version /\ amsg[a] <= version /\ version \in Version
  BY DEF IInv, Data, Bounded
<1>2. /\ missed' \in [Conns -> Version]
      /\ \A c \in Conns : missed'[c] <= version
      /\ \A c \in Conns : Told(c) => Told(c)'
      /\ \A c \in Conns : c \in Behind(amsg[a]) /\ amsg[a] = version => Told(c)'
  BY <1>1, MissesTells DEF conns
<1>3. /\ apc' \in [Announcer -> {"idle", "read", "flag", "clients", "send", "done"}]
      /\ amsg' \in [Announcer -> Version]
      /\ \A b \in Announcer \ {a} : apc'[b] = apc[b] /\ amsg'[b] = amsg[b]
      /\ amsg'[a] = 0
  BY HubAssumption DEF Finish, IInv, Data, Version
<1>4. Data'
  BY <1>2, <1>3 DEF IInv, Data, writer, conns
<1>5. Bounded'
  <2>1. version \in Nat
    BY HubAssumption DEF IInv, Data, Version
  <2>2. \A b \in Announcer : amsg'[b] <= version'
    BY <2>1, <1>3 DEF IInv, Bounded
  <2> QED  BY <2>2, <1>2 DEF IInv, Bounded, writer, conns
<1>6. Registered' /\ WriterClean'
  BY DEF IInv, Registered, WriterClean, writer, conns
<1>7. Covered'
  <2> SUFFICES ASSUME NEW c \in Conns, Connected(c)'
               PROVE  Told(c)' \/ Announced' \/ Queued' \/ Written(c)' \/ (c \in wfailed)'
    BY DEF Covered
  <2>1. Connected(c)
    BY DEF Connected, conns
  <2>2. CASE Told(c)
    BY <2>2, <1>2
  <2>3. CASE Queued
    BY <2>3 DEF Queued
  <2>4. CASE Written(c) \/ c \in wfailed
    BY <2>4 DEF Written, writer
  <2>5. CASE Announced /\ version # a
    BY <2>5, <1>1, <1>3 DEF Announced, Announcer
  <2>6. CASE Announced /\ version = a
    <3>1. amsg[a] = version
      BY <2>6 DEF Announced
    <3>2. CASE seen[c] < version
      <4>1. c \in Behind(amsg[a])
        BY <3>1, <3>2, <2>1 DEF Behind, Connected
      <4> QED  BY <4>1, <3>1, <1>2
    <3>3. CASE ~(seen[c] < version)
      <4>1. seen[c] = version
        BY <3>3, HubAssumption DEF IInv, Data, Bounded, Version
      <4> QED  BY <4>1, <1>2 DEF Told
    <3> QED  BY <3>2, <3>3
  <2> QED  BY <2>1, <2>2, <2>3, <2>4, <2>5, <2>6 DEF IInv, Covered
<1> QED  BY <1>4, <1>5, <1>6, <1>7 DEF IInv

-------------------------------------------------------------------------------
(* The announcers.                                                         *)

(* A new state has an announcer that is going to read it.                  *)
LEMMA TransitionKeeps == ASSUME IInv, Transition PROVE IInv'
<1>1. version \in Nat /\ MaxVersion \in Nat /\ version' = version + 1 /\ version' \in Version
  BY HubAssumption DEF Transition, IInv, Data, Version
<1>2. /\ apc' = [apc EXCEPT ![version + 1] = "read"]
      /\ UNCHANGED <<amsg, queue, panics, writer, conns, missed>>
  BY DEF Transition
<1>3. apc' \in [Announcer -> {"idle", "read", "flag", "clients", "send", "done"}]
      /\ apc'[version'] = "read"
  BY <1>1, <1>2 DEF IInv, Data, Announcer
<1>4. Data'
  BY <1>1, <1>2, <1>3 DEF IInv, Data, writer, conns
<1>5. Bounded'
  <2>1. \A x \in Nat : x <= version => x <= version'
    BY <1>1
  <2>2. /\ \A c \in Conns : seen[c] \in Nat /\ missed[c] \in Nat
        /\ \A a \in Announcer : amsg[a] \in Nat
        /\ wmsg \in Nat
        /\ \A i \in 1 .. Len(queue) : queue[i] \in Nat
    <3>1. ASSUME NEW R, NEW q \in Seq(R), NEW i \in 1 .. Len(q)
          PROVE  q[i] \in R
      OBVIOUS
    <3>2. \A i \in 1 .. Len(queue) : queue[i] \in Version
      BY <3>1 DEF IInv, Data
    <3> QED  BY <3>2, <1>1 DEF IInv, Data, Version
  <2> QED  BY <2>1, <2>2, <1>2 DEF IInv, Bounded, writer, conns
<1>6. Registered' /\ WriterClean'
  BY <1>2 DEF IInv, Registered, WriterClean, writer, conns
<1>7. Covered'
  BY <1>3 DEF Covered, Announced
<1> QED  BY <1>4, <1>5, <1>6, <1>7 DEF IInv

(* Only a step of an announcer that holds the newest state can uncover it. *)
LEMMA AnnouncerMoves ==
  ASSUME IInv, NEW a \in Announcer, NEW m \in Version, m <= version,
         NEW at \in {"idle", "flag", "clients", "send", "done"},
         apc' = [apc EXCEPT ![a] = at], amsg' = [amsg EXCEPT ![a] = m],
         a = version /\ Announced => Announced' \/ version = 0,
         UNCHANGED <<version, queue, panics, writer, conns, missed>>
  PROVE  IInv'
<1>1. apc' \in [Announcer -> {"idle", "read", "flag", "clients", "send", "done"}]
      /\ amsg' \in [Announcer -> Version]
      /\ \A b \in Announcer \ {a} : apc'[b] = apc[b] /\ amsg'[b] = amsg[b]
      /\ amsg'[a] = m
  BY DEF IInv, Data
<1>2. Data'
  BY <1>1 DEF IInv, Data, writer, conns
<1>3. Bounded'
  BY <1>1 DEF IInv, Bounded, writer, conns
<1>4. Registered' /\ WriterClean'
  BY DEF IInv, Registered, WriterClean, writer, conns
<1>5. Covered'
  <2> SUFFICES ASSUME NEW c \in Conns, Connected(c)'
               PROVE  Told(c)' \/ Announced' \/ Queued' \/ Written(c)' \/ (c \in wfailed)'
    BY DEF Covered
  <2>1. Connected(c)
    BY DEF Connected, conns
  <2>2. CASE Told(c)
    BY <2>2 DEF Told, conns
  <2>3. CASE Queued \/ Written(c) \/ c \in wfailed
    BY <2>3 DEF Queued, Written, writer
  <2>4. CASE Announced
    <3>1. CASE version # a
      <4>1. version \in Announcer
        BY DEF IInv, Data, Announcer
      <4> QED  BY <2>4, <3>1, <4>1, <1>1 DEF Announced
    <3>2. CASE version = a
      <4>1. version = 0 => Told(c)'
        BY FirstTold DEF Told, conns
      <4> QED  BY <2>4, <3>2, <4>1
    <3> QED  BY <3>1, <3>2
  <2> QED  BY <2>1, <2>2, <2>3, <2>4 DEF IInv, Covered
<1> QED  BY <1>2, <1>3, <1>4, <1>5 DEF IInv

LEMMA EmitReadsKeeps == ASSUME IInv, NEW a \in Announcer, EmitReads(a) PROVE IInv'
<1>1. version \in Version /\ version <= version
  BY HubAssumption DEF IInv, Data, Version
<1>2. /\ apc' = [apc EXCEPT ![a] = "flag"] /\ amsg' = [amsg EXCEPT ![a] = version]
      /\ UNCHANGED <<version, queue, panics, writer, conns, missed>>
  BY DEF EmitReads
<1>3. a = version => Announced'
  BY <1>2 DEF Announced, IInv, Data
<1> QED  BY <1>1, <1>2, <1>3, AnnouncerMoves

(* A step that keeps an announcer's message.                               *)
LEMMA PcMoves ==
  ASSUME IInv, NEW a \in Announcer,
         NEW from \in {"idle", "flag", "clients"},
         NEW to \in {"flag", "clients", "send", "done"},
         apc[a] = from, apc' = [apc EXCEPT ![a] = to],
         from = "idle" \/ to # "done",
         UNCHANGED <<version, amsg, queue, panics, writer, conns, missed>>
  PROVE  IInv'
<1>1. amsg[a] \in Version /\ amsg[a] <= version
      /\ amsg' = [amsg EXCEPT ![a] = amsg[a]]
  BY DEF IInv, Data, Bounded
<1>2. a = version /\ Announced => Announced'
  BY DEF Announced, IInv, Data
<1> QED  BY <1>1, <1>2, AnnouncerMoves

LEMMA PollKeeps == ASSUME IInv, PollTicks \/ PollEnds PROVE IInv'
<1>1. Poller \in Announcer
  BY HubAssumption DEF Poller, Announcer, Version
<1>2. CASE PollTicks
  BY <1>1, <1>2, PcMoves DEF PollTicks
<1>3. CASE PollEnds
  BY <1>1, <1>3, PcMoves DEF PollEnds
<1> QED  BY <1>2, <1>3

LEMMA FlagKeeps == ASSUME IInv, NEW a \in Announcer, BroadcastFlag(a) PROVE IInv'
<1>1. CASE flag
  <2>1. /\ apc[a] = "flag" /\ Misses(Behind(amsg[a]), amsg[a]) /\ Finish(a)
        /\ UNCHANGED <<version, queue, panics, writer, conns>>
    BY <1>1 DEF BroadcastFlag, Dropped
  <2> QED  BY <2>1, DroppedTells DEF IInv, Data
<1>2. CASE ~flag
  <2>1. /\ apc[a] = "flag" /\ apc' = [apc EXCEPT ![a] = "clients"]
        /\ UNCHANGED <<version, amsg, queue, panics, writer, conns, missed>>
    BY <1>2 DEF BroadcastFlag
  <2> QED  BY <2>1, PcMoves
<1> QED  BY <1>1, <1>2

LEMMA ClientsKeeps == ASSUME IInv, NEW a \in Announcer, BroadcastClients(a) PROVE IInv'
<1>1. CASE clients = {}
  <2>1. /\ apc[a] = "clients" /\ Misses(Behind(amsg[a]), amsg[a]) /\ Finish(a)
        /\ UNCHANGED <<version, queue, panics, writer, conns>>
    BY <1>1 DEF BroadcastClients, Dropped
  <2> QED  BY <2>1, DroppedTells DEF IInv, Data
<1>2. CASE clients # {}
  <2>1. /\ apc[a] = "clients" /\ apc' = [apc EXCEPT ![a] = "send"]
        /\ UNCHANGED <<version, amsg, queue, panics, writer, conns, missed>>
    BY <1>2 DEF BroadcastClients
  <2> QED  BY <2>1, PcMoves
<1> QED  BY <1>1, <1>2

(* What is sent is in the queue.                                           *)
LEMMA SendKeeps == ASSUME IInv, NEW a \in Announcer, BroadcastSend(a) PROVE IInv'
<1>1. apc[a] = "send" /\ UNCHANGED <<version, writer, conns, stop>>
  BY DEF BroadcastSend
<1>2. CASE closed /\ Finish(a) /\ Misses(Behind(amsg[a]), amsg[a])
           /\ panics' = panics \cup {a} /\ UNCHANGED queue
  <2>1. panics' \subseteq Announcer
    BY <1>2 DEF IInv, Data
  <2> QED  BY <1>1, <1>2, <2>1, DroppedTells
<1>3. CASE ~closed /\ Len(queue) >= Capacity /\ Dropped(a)
  <2>1. Finish(a) /\ Misses(Behind(amsg[a]), amsg[a]) /\ UNCHANGED <<queue, panics>>
    BY <1>3 DEF Dropped
  <2>2. panics' \subseteq Announcer
    BY <2>1 DEF IInv, Data
  <2> QED  BY <1>1, <2>1, <2>2, DroppedTells
<1>4. CASE ~closed /\ Len(queue) < Capacity /\ Finish(a)
           /\ queue' = Append(queue, amsg[a]) /\ UNCHANGED <<panics, missed>>
  <2>1. amsg[a] \in Version /\ queue \in Seq(Version) /\ Capacity \in Nat
    BY HubAssumption DEF IInv, Data
  <2>2. /\ queue' \in Seq(Version) /\ Len(queue') = Len(queue) + 1
        /\ \A i \in 1 .. Len(queue) : queue'[i] = queue[i]
        /\ queue'[Len(queue) + 1] = amsg[a]
        /\ Len(queue) \in Nat
    <3>1. ASSUME NEW R, NEW s \in Seq(R), NEW x \in R
          PROVE  /\ Append(s, x) \in Seq(R) /\ Len(Append(s, x)) = Len(s) + 1
                 /\ \A i \in 1 .. Len(s) : Append(s, x)[i] = s[i]
                 /\ Append(s, x)[Len(s) + 1] = x
                 /\ Len(s) \in Nat
      OBVIOUS
    <3> QED  BY <1>4, <2>1, <3>1
  <2>3. Len(queue') <= Capacity
    BY <1>4, <2>1, <2>2
  <2>4. /\ apc' \in [Announcer -> {"idle", "read", "flag", "clients", "send", "done"}]
        /\ amsg' \in [Announcer -> Version]
        /\ \A b \in Announcer \ {a} : apc'[b] = apc[b] /\ amsg'[b] = amsg[b]
        /\ amsg'[a] = 0
    BY <1>4, HubAssumption DEF Finish, IInv, Data, Version
  <2>5. Data'
    BY <1>1, <1>4, <2>2, <2>3, <2>4 DEF IInv, Data, writer, conns
  <2>6. Bounded'
    <3>1. version \in Nat
      BY HubAssumption DEF IInv, Data, Version
    <3>2. \A b \in Announcer : amsg'[b] <= version'
      BY <3>1, <1>1, <2>4 DEF IInv, Bounded
    <3>3. \A j \in 1 .. Len(queue') : queue'[j] <= version'
      <4> SUFFICES ASSUME NEW j \in 1 .. Len(queue') PROVE queue'[j] <= version'
        OBVIOUS
      <4>1. j \in 1 .. Len(queue) \/ j = Len(queue) + 1
        BY <2>2
      <4>2. amsg[a] <= version /\ \A k \in 1 .. Len(queue) : queue[k] <= version
        BY DEF IInv, Bounded
      <4> QED  BY <4>1, <4>2, <1>1, <2>2
    <3> QED  BY <3>2, <3>3, <1>1, <1>4 DEF IInv, Bounded, writer, conns
  <2>7. Registered' /\ WriterClean'
    BY <1>1 DEF IInv, Registered, WriterClean, writer, conns
  <2>8. Covered'
    <3> SUFFICES ASSUME NEW c \in Conns, Connected(c)'
                 PROVE  Told(c)' \/ Announced' \/ Queued' \/ Written(c)' \/ (c \in wfailed)'
      BY DEF Covered
    <3>1. Connected(c)
      BY <1>1 DEF Connected, conns
    <3>2. CASE Told(c)
      BY <3>2, <1>1, <1>4 DEF Told, conns
    <3>3. CASE Queued
      BY <3>3, <1>1, <2>2 DEF Queued
    <3>4. CASE Written(c) \/ c \in wfailed
      BY <3>4, <1>1 DEF Written, writer
    <3>5. CASE Announced /\ version # a
      <4>1. version \in Announcer
        BY DEF IInv, Data, Announcer
      <4> QED  BY <3>5, <4>1, <1>1, <2>4 DEF Announced
    <3>6. CASE Announced /\ version = a
      <4>1. amsg[a] = version
        BY <1>1, <3>6 DEF Announced
      <4> QED  BY <4>1, <1>1, <2>2 DEF Queued
    <3> QED  BY <3>1, <3>2, <3>3, <3>4, <3>5, <3>6 DEF IInv, Covered
  <2> QED  BY <2>5, <2>6, <2>7, <2>8 DEF IInv
<1> QED  BY <1>2, <1>3, <1>4 DEF BroadcastSend

-------------------------------------------------------------------------------
(* The writer.                                                             *)

(* The head of a queue is its first element.                               *)
LEMMA HeadFirst ==
  ASSUME NEW R, NEW q \in Seq(R), q # <<>>
  PROVE  Head(q) = q[1] /\ Len(q) \in Nat /\ Len(q) > 0
<1>1. Len(q) \in Nat /\ Len(q) > 0
  BY EmptySeq
<1>2. Head(q) = q[1]
  OBVIOUS
<1> QED  BY <1>1, <1>2

(* The head of the queue is in the writer's hand, for everyone.            *)
LEMMA ReceivesKeeps == ASSUME IInv, WriterReceives PROVE IInv'
<1>1. /\ wpc = "receive" /\ queue # <<>>
      /\ wpc' = "copy" /\ wmsg' = Head(queue) /\ queue' = Tail(queue)
      /\ UNCHANGED <<version, apc, amsg, panics, wtodo, wfailed, conns, missed>>
  BY DEF WriterReceives, Left
<1>2. queue \in Seq(Version) /\ Len(queue) <= Capacity
  BY DEF IInv, Data
<1>3. /\ Head(queue) \in Version /\ Tail(queue) \in Seq(Version)
      /\ Len(queue) \in Nat /\ Len(queue) > 0
      /\ Len(queue') = Len(queue) - 1
      /\ wmsg' = queue[1]
      /\ \A i \in 1 .. Len(queue') : queue'[i] = queue[i + 1]
  <2>1. queue \in Seq(Version) /\ queue # <<>>
    BY <1>1, <1>2
  <2>2. Head(queue) = queue[1] /\ Len(queue) \in Nat /\ Len(queue) > 0
    BY <2>1, HeadFirst
  <2>3. /\ Head(queue) \in Version /\ Tail(queue) \in Seq(Version)
        /\ Len(Tail(queue)) = Len(queue) - 1
        /\ \A i \in 1 .. Len(Tail(queue)) : Tail(queue)[i] = queue[i + 1]
    BY <2>1, HeadTailProperties
  <2> QED  BY <1>1, <2>2, <2>3
<1>4. Data'
  <2>1. Len(queue') <= Capacity
    BY <1>2, <1>3, HubAssumption
  <2> QED  BY <1>1, <1>3, <2>1 DEF IInv, Data, conns
<1>5. Registered' /\ WriterClean'
  BY <1>1 DEF IInv, Registered, WriterClean, conns
<1>6. Covered'
  <2> SUFFICES ASSUME NEW c \in Conns, Connected(c)'
               PROVE  Told(c)' \/ Announced' \/ Queued' \/ Written(c)' \/ (c \in wfailed)'
    BY DEF Covered
  <2>1. Connected(c)
    BY <1>1 DEF Connected, conns
  <2>2. CASE Told(c)
    BY <2>2, <1>1 DEF Told, conns
  <2>3. CASE Announced
    BY <2>3, <1>1 DEF Announced
  <2>4. CASE Queued
    <3>1. PICK i \in 1 .. Len(queue) : queue[i] = version
      BY <2>4 DEF Queued
    <3>2. CASE i = 1
      BY <3>1, <3>2, <1>1, <1>3 DEF Written
    <3>3. CASE i # 1
      <4>1. i - 1 \in 1 .. Len(queue')
        BY <3>3, <1>3
      <4>2. queue'[i - 1] = queue[i]
        BY <4>1, <1>3
      <4> QED  BY <3>1, <4>1, <4>2, <1>1 DEF Queued
    <3> QED  BY <3>2, <3>3
  <2>5. ~ Written(c)
    BY <1>1 DEF Written
  <2>6. c \notin wfailed
    BY <1>1 DEF IInv, WriterClean
  <2> QED  BY <2>1, <2>2, <2>3, <2>4, <2>5, <2>6 DEF IInv, Covered
<1>7. Bounded'
  <2>1. wmsg' <= version'
    BY <1>1, <1>3 DEF IInv, Bounded
  <2>2. \A j \in 1 .. Len(queue') : queue'[j] <= version'
    <3> SUFFICES ASSUME NEW j \in 1 .. Len(queue') PROVE queue'[j] <= version'
      OBVIOUS
    <3>1. j + 1 \in 1 .. Len(queue) /\ queue'[j] = queue[j + 1]
      BY <1>3
    <3> QED  BY <3>1, <1>1 DEF IInv, Bounded
  <2> QED  BY <2>1, <2>2, <1>1 DEF IInv, Bounded, conns
<1> QED  BY <1>4, <1>5, <1>6, <1>7 DEF IInv

(* A peer that is not among the copied clients misses the message.         *)
LEMMA CopiesKeeps == ASSUME IInv, WriterCopies PROVE IInv'
<1>1. /\ wpc = "copy" /\ wpc' = "write" /\ wtodo' = clients
      /\ Misses(Behind(wmsg) \ clients, wmsg)
      /\ UNCHANGED <<version, apc, amsg, panics, queue, wmsg, wfailed, conns>>
  BY DEF WriterCopies, Left
<1>2. wmsg \in Version /\ wmsg <= version
  BY DEF IInv, Data, Bounded
<1>3. /\ missed' \in [Conns -> Version]
      /\ \A c \in Conns : missed'[c] <= version
      /\ \A c \in Conns : Told(c) => Told(c)'
      /\ \A c \in Conns : c \in Behind(wmsg) \ clients /\ wmsg = version => Told(c)'
  BY <1>1, <1>2, MissesTells DEF conns
<1>4. Data'
  BY <1>1, <1>3 DEF IInv, Data, conns
<1>5. Bounded'
  BY <1>1, <1>3 DEF IInv, Bounded, conns
<1>6. Registered' /\ WriterClean'
  BY <1>1 DEF IInv, Registered, WriterClean, conns
<1>7. Covered'
  <2> SUFFICES ASSUME NEW c \in Conns, Connected(c)'
               PROVE  Told(c)' \/ Announced' \/ Queued' \/ Written(c)' \/ (c \in wfailed)'
    BY DEF Covered
  <2>1. Connected(c)
    BY <1>1 DEF Connected, conns
  <2>2. CASE Told(c)
    BY <2>2, <1>3
  <2>3. CASE Announced \/ Queued \/ c \in wfailed
    BY <2>3, <1>1 DEF Announced, Queued
  <2>4. CASE Written(c) /\ c \in clients
    BY <2>4, <1>1 DEF Written
  <2>5. CASE Written(c) /\ c \notin clients
    <3>1. wmsg = version
      BY <2>5 DEF Written
    <3>2. CASE seen[c] < version
      <4>1. c \in Behind(wmsg)
        BY <3>1, <3>2, <2>1 DEF Behind, Connected
      <4> QED  BY <4>1, <3>1, <2>5, <1>3
    <3>3. CASE ~(seen[c] < version)
      <4>1. seen[c] = version
        BY <3>3, HubAssumption DEF IInv, Data, Bounded, Version
      <4> QED  BY <4>1, <1>3 DEF Told
    <3> QED  BY <3>2, <3>3
  <2> QED  BY <2>1, <2>2, <2>3, <2>4, <2>5 DEF IInv, Covered
<1> QED  BY <1>4, <1>5, <1>6, <1>7 DEF IInv

(* A write tells its peer, or the peer is gone, or the write has failed;   *)
(* and a peer that is told an older state has then missed the newer one.   *)
LEMMA WritesKeeps == ASSUME IInv, NEW p \in Conns, WriterWrites(p) PROVE IInv'
<1>1. /\ wpc = "write" /\ p \in wtodo /\ wtodo' = wtodo \ {p}
      /\ UNCHANGED <<version, apc, amsg, panics, queue, wpc, wmsg, cpc, clients, shut, gone>>
      /\ UNCHANGED writeErr
  BY DEF WriterWrites, Left
<1>2. /\ wmsg \in Version /\ wmsg <= version /\ version \in Nat /\ wmsg \in Nat
      /\ \A c \in Conns : seen[c] \in Version /\ seen[c] \in Nat /\ seen[c] <= version
  BY HubAssumption DEF IInv, Data, Bounded, Version
<1>3. ASSUME /\ seen' \in [Conns -> Version] /\ missed' \in [Conns -> Version]
             /\ \A c \in Conns : seen'[c] <= version /\ missed'[c] <= version
             /\ wfailed' \subseteq Conns /\ wfailed \subseteq wfailed'
             /\ \A c \in Conns : Told(c) => Told(c)'
             /\ Connected(p) /\ wmsg = version => Told(p)' \/ p \in wfailed'
      PROVE  IInv'
  <2>1. Data'
    BY <1>1, <1>3 DEF IInv, Data
  <2>2. Bounded'
    BY <1>1, <1>3 DEF IInv, Bounded
  <2>3. Registered' /\ WriterClean'
    BY <1>1 DEF IInv, Registered, WriterClean
  <2>4. Covered'
    <3> SUFFICES ASSUME NEW c \in Conns, Connected(c)'
                 PROVE  Told(c)' \/ Announced' \/ Queued' \/ Written(c)' \/ (c \in wfailed)'
      BY DEF Covered
    <3>1. Connected(c)
      BY <1>1 DEF Connected
    <3>2. CASE Told(c) \/ c \in wfailed
      BY <3>2, <1>3
    <3>3. CASE Announced \/ Queued
      BY <3>3, <1>1 DEF Announced, Queued
    <3>4. CASE Written(c) /\ c # p
      BY <3>4, <1>1 DEF Written
    <3>5. CASE Written(c) /\ c = p
      BY <3>5, <3>1, <1>3 DEF Written
    <3> QED  BY <3>1, <3>2, <3>3, <3>4, <3>5 DEF IInv, Covered
  <2> QED  BY <2>1, <2>2, <2>3, <2>4 DEF IInv
<1>4. CASE UNCHANGED <<seen, missed, wfailed>> /\ (wmsg = 0 \/ p \in gone)
  <2>1. Connected(p) /\ wmsg = version => Told(p)'
    <3> SUFFICES ASSUME Connected(p), wmsg = version PROVE Told(p)
      BY <1>1, <1>4 DEF Told
    <3>1. version = 0
      BY <1>4 DEF Connected
    <3> QED  BY <3>1, FirstTold
  <2>2. \A c \in Conns : Told(c) => Told(c)'
    BY <1>1, <1>4 DEF Told
  <2> QED  BY <2>1, <2>2, <1>3, <1>4 DEF IInv, Data, Bounded
<1>5. CASE /\ seen' = [seen EXCEPT ![p] = wmsg] /\ UNCHANGED wfailed
           /\ Misses(IF wmsg < seen[p] THEN {p} ELSE {}, seen[p])
  <2> DEFINE S == IF wmsg < seen[p] THEN {p} ELSE {}
  <2>1. /\ missed' = [c \in Conns |-> IF c \in S /\ missed[c] < seen[p]
                                        THEN seen[p] ELSE missed[c]]
        /\ \A c \in Conns : missed[c] \in Version /\ missed[c] \in Nat /\ missed[c] <= version
    BY <1>5, HubAssumption DEF Misses, IInv, Data, Bounded, Version
  <2>2. /\ seen' \in [Conns -> Version] /\ missed' \in [Conns -> Version]
        /\ \A c \in Conns : seen'[c] <= version /\ missed'[c] <= version
    BY <2>1, <1>2, <1>5 DEF IInv, Data
  <2>3. \A c \in Conns : Told(c) => Told(c)'
    <3> SUFFICES ASSUME NEW c \in Conns, Told(c) PROVE Told(c)'
      OBVIOUS
    <3>1. CASE c # p
      <4>1. seen'[c] = seen[c] /\ missed'[c] = missed[c]
        BY <3>1, <2>1, <1>5 DEF IInv, Data
      <4> QED  BY <4>1, <1>1 DEF Told
    <3>2. CASE c = p /\ version = seen[p] /\ wmsg < seen[p]
      <4>1. missed'[p] = version
        BY <3>2, <2>1, <1>2
      <4> QED  BY <4>1, <3>2, <1>1 DEF Told
    <3>3. CASE c = p /\ version = seen[p] /\ ~(wmsg < seen[p])
      <4>1. wmsg = version
        BY <3>3, <1>2
      <4>2. seen'[p] = version
        BY <4>1, <1>5 DEF IInv, Data
      <4> QED  BY <4>2, <3>3, <1>1 DEF Told
    <3>4. CASE c = p /\ version = missed[p]
      <4>1. missed'[p] = version
        BY <3>4, <2>1, <1>2
      <4> QED  BY <4>1, <3>4, <1>1 DEF Told
    <3> QED  BY <3>1, <3>2, <3>3, <3>4 DEF Told
  <2>4. wmsg = version => Told(p)'
    BY <1>1, <1>5 DEF Told, IInv, Data
  <2>5. wfailed' \subseteq Conns /\ wfailed \subseteq wfailed'
    BY <1>5 DEF IInv, Data
  <2> QED  BY <2>2, <2>3, <2>4, <2>5, <1>3
<1>6. CASE wfailed' = wfailed \cup {p} /\ UNCHANGED <<seen, missed>>
  <2>1. \A c \in Conns : Told(c) => Told(c)'
    BY <1>1, <1>6 DEF Told
  <2> QED  BY <2>1, <1>3, <1>6 DEF IInv, Data, Bounded
<1> QED  BY <1>4, <1>5, <1>6 DEF WriterWrites

(* The failed connections are closed: no state is on its way to them.      *)
LEMMA PurgesKeeps == ASSUME IInv, WriterPurges PROVE IInv'
<1>1. /\ wpc = "write" /\ wtodo = {} /\ wpc' = "receive" /\ wmsg' = 0 /\ wfailed' = {}
      /\ clients' = clients \ wfailed /\ shut' = shut \cup wfailed
      /\ UNCHANGED <<version, apc, amsg, panics, queue, wtodo, cpc, gone, seen, missed>>
      /\ UNCHANGED writeErr
  BY DEF WriterPurges, Left
<1>2. 0 \in Version /\ version \in Nat
  BY HubAssumption DEF IInv, Data, Version
<1>3. Data'
  BY <1>1, <1>2 DEF IInv, Data
<1>4. Bounded'
  BY <1>1, <1>2 DEF IInv, Bounded
<1>5. Registered' /\ WriterClean'
  BY <1>1 DEF IInv, Registered, WriterClean
<1>6. Covered'
  <2> SUFFICES ASSUME NEW c \in Conns, Connected(c)'
               PROVE  Told(c)' \/ Announced' \/ Queued' \/ Written(c)' \/ (c \in wfailed)'
    BY DEF Covered
  <2>1. Connected(c) /\ c \notin wfailed /\ ~Written(c)
    BY <1>1 DEF Connected, Written
  <2>2. Told(c) \/ Announced \/ Queued
    BY <2>1 DEF IInv, Covered
  <2> QED  BY <2>2, <1>1 DEF Told, Announced, Queued
<1> QED  BY <1>3, <1>4, <1>5, <1>6 DEF IInv

LEMMA EndsKeeps == ASSUME IInv, WriterEnds PROVE IInv'
<1>1. /\ wpc = "receive" /\ wpc' = "ended"
      /\ UNCHANGED <<version, apc, amsg, panics, queue, wmsg, wtodo, wfailed, conns, missed>>
  BY DEF WriterEnds, Left
<1>2. Data' /\ Bounded' /\ Registered' /\ WriterClean'
  BY <1>1 DEF IInv, Data, Bounded, Registered, WriterClean, conns
<1>3. Covered'
  BY <1>1 DEF IInv, Covered, Connected, Told, Announced, Queued, Written, conns
<1> QED  BY <1>2, <1>3 DEF IInv

-------------------------------------------------------------------------------
(* The connections.                                                        *)

(* A connection that moves was connected before it, or is told, or is not  *)
(* connected after it.                                                     *)
LEMMA ConnectionMoves ==
  ASSUME IInv, NEW p \in Conns,
         NEW at \in {"snapshot", "register", "reading", "ended"},
         cpc' = [cpc EXCEPT ![p] = at],
         UNCHANGED <<version, announce, writer>>,
         clients' \subseteq Conns, shut' \subseteq Conns, gone' \subseteq Conns,
         writeErr' \subseteq Conns, writeErr \subseteq writeErr',
         seen' \in [Conns -> Version], missed' \in [Conns -> Version],
         shut \subseteq shut', gone \subseteq gone',
         \A c \in Conns : seen'[c] <= version /\ missed'[c] <= version,
         \A c \in Conns \ {p} : /\ c \in clients' <=> c \in clients
                                /\ seen'[c] = seen[c] /\ missed'[c] = missed[c],
         at \in {"snapshot", "register"} => cpc[p] \in {"none", "snapshot"} /\ clients' = clients,
         at = "ended" => p \notin clients',
         Connected(p)' => \/ Told(p)'
                          \/ Connected(p) /\ UNCHANGED <<seen, missed>>
  PROVE  IInv'
<1>1. cpc' \in [Conns -> {"none", "snapshot", "register", "reading", "ended"}]
      /\ cpc'[p] = at /\ \A c \in Conns \ {p} : cpc'[c] = cpc[c]
  BY DEF IInv, Data
<1>2. Data'
  BY <1>1 DEF IInv, Data, announce, writer
<1>3. Bounded'
  BY DEF IInv, Bounded, announce, writer
<1>4. Registered'
  <2> SUFFICES ASSUME NEW c \in Conns
               PROVE  /\ cpc'[c] # "reading" => c \notin clients'
                      /\ cpc'[c] \in {"none", "snapshot", "register"} => c \notin wtodo'
    BY DEF Registered
  <2>1. CASE c = p
    <3>1. CASE at \in {"snapshot", "register"}
      BY <1>1, <2>1, <3>1 DEF IInv, Registered, writer
    <3>2. CASE at \in {"reading", "ended"}
      BY <1>1, <2>1, <3>2
    <3> QED  BY <3>1, <3>2
  <2>2. CASE c # p
    BY <2>2, <1>1 DEF IInv, Registered, writer
  <2> QED  BY <2>1, <2>2
<1>5. WriterClean'
  BY DEF IInv, WriterClean, writer
<1>6. Covered'
  <2> SUFFICES ASSUME NEW c \in Conns, Connected(c)'
               PROVE  Told(c)' \/ Announced' \/ Queued' \/ Written(c)' \/ (c \in wfailed)'
    BY DEF Covered
  <2>1. CASE Told(c)'
    BY <2>1
  <2>2. CASE Connected(c) /\ seen'[c] = seen[c] /\ missed'[c] = missed[c]
    <3>1. Told(c) => Told(c)'
      BY <2>2 DEF Told
    <3>2. /\ Announced <=> Announced'
          /\ Queued <=> Queued'
          /\ Written(c) <=> Written(c)'
          /\ wfailed' = wfailed
      BY DEF Announced, Queued, Written, announce, writer
    <3> QED  BY <2>2, <3>1, <3>2 DEF IInv, Covered
  <2>3. CASE c # p
    <3>1. Connected(c)
      BY <2>3, <1>1 DEF Connected
    <3> QED  BY <3>1, <2>3, <2>2
  <2> QED  BY <2>1, <2>2, <2>3
<1> QED  BY <1>2, <1>3, <1>4, <1>5, <1>6 DEF IInv

(* A connection that is opened, reads, answers or ends.                    *)
LEMMA ConnectionKeeps ==
  ASSUME IInv, NEW p \in Conns, Upgrade(p) \/ Connection(p)
  PROVE  IInv'
<1>1. /\ version \in Version /\ version \in Nat /\ 0 \in Version
      /\ \A c \in Conns : seen[c] <= version /\ missed[c] <= version
      /\ seen \in [Conns -> Version] /\ missed \in [Conns -> Version]
      /\ clients \subseteq Conns /\ shut \subseteq Conns /\ gone \subseteq Conns
      /\ writeErr \subseteq Conns
  BY HubAssumption DEF IInv, Data, Bounded, Version
<1>2. CASE Upgrade(p)
  <2>1. /\ cpc[p] = "none" /\ cpc' = [cpc EXCEPT ![p] = "snapshot"]
        /\ UNCHANGED <<version, announce, writer, clients, shut, gone, writeErr, seen, missed>>
    BY <1>2 DEF Upgrade, Aside
  <2>2. ~Connected(p)'
    BY <2>1 DEF Connected, IInv, Data
  <2> QED  BY <1>1, <2>1, <2>2, ConnectionMoves
<1>3. CASE Snapshot(p)
  <2>1. /\ cpc[p] = "snapshot" /\ cpc' = [cpc EXCEPT ![p] = "register"]
        /\ UNCHANGED <<version, announce, writer, clients, shut, gone, missed>>
    BY <1>3 DEF Snapshot, Aside
  <2>2. CASE seen' = [seen EXCEPT ![p] = version] /\ UNCHANGED writeErr
    <3>1. /\ seen' \in [Conns -> Version] /\ seen'[p] = version
          /\ \A c \in Conns \ {p} : seen'[c] = seen[c]
      BY <1>1, <2>2
    <3>2. \A c \in Conns : seen'[c] <= version
      BY <1>1, <3>1
    <3>3. Told(p)'
      BY <2>1, <3>1 DEF Told
    <3> QED  BY <1>1, <2>1, <2>2, <3>1, <3>2, <3>3, ConnectionMoves
  <2>3. CASE writeErr' = writeErr \cup {p} /\ UNCHANGED seen
    <3>1. ~Connected(p)' /\ writeErr' \subseteq Conns
      BY <1>1, <2>3 DEF Connected
    <3> QED  BY <1>1, <2>1, <2>3, <3>1, ConnectionMoves
  <2> QED  BY <1>3, <2>2, <2>3 DEF Snapshot
<1>4. CASE Register(p)
  <2>1. /\ cpc[p] = "register" /\ cpc' = [cpc EXCEPT ![p] = "reading"]
        /\ clients' = clients \cup {p}
        /\ UNCHANGED <<version, announce, writer, shut, gone, writeErr, seen, missed>>
    BY <1>4 DEF Register, Aside
  <2>2. Connected(p)' => Connected(p)
    BY <2>1 DEF Connected
  <2> QED  BY <1>1, <2>1, <2>2, ConnectionMoves
<1>5. CASE ReaderEnds(p)
  <2>1. /\ cpc' = [cpc EXCEPT ![p] = "ended"]
        /\ clients' = clients \ {p} /\ shut' = shut \cup {p} /\ gone' = gone \cup {p}
        /\ seen' = [seen EXCEPT ![p] = 0] /\ missed' = [missed EXCEPT ![p] = 0]
        /\ UNCHANGED <<version, announce, writer, writeErr>>
    BY <1>5 DEF ReaderEnds, Aside
  <2>2. /\ seen' \in [Conns -> Version] /\ missed' \in [Conns -> Version]
        /\ seen'[p] = 0 /\ missed'[p] = 0
        /\ \A c \in Conns \ {p} : seen'[c] = seen[c] /\ missed'[c] = missed[c]
    BY <1>1, <2>1
  <2>3. \A c \in Conns : seen'[c] <= version /\ missed'[c] <= version
    BY <1>1, <2>2
  <2>4. ~Connected(p)'
    BY <2>1 DEF Connected
  <2>5. /\ clients' \subseteq Conns /\ shut' \subseteq Conns /\ gone' \subseteq Conns
        /\ writeErr' \subseteq Conns /\ writeErr \subseteq writeErr'
        /\ shut \subseteq shut' /\ gone \subseteq gone'
        /\ \A c \in Conns \ {p} : c \in clients' <=> c \in clients
        /\ p \notin clients'
    BY <1>1, <2>1
  <2>6. cpc' = [cpc EXCEPT ![p] = "ended"] /\ UNCHANGED <<version, announce, writer>>
    BY <2>1
  <2> QED  BY <2>2, <2>3, <2>4, <2>5, <2>6, ConnectionMoves
<1> QED  BY <1>2, <1>3, <1>4, <1>5 DEF Connection

(* To lose a peer, or to close the clients, disconnects some.              *)
LEMMA Disconnects ==
  ASSUME IInv, UNCHANGED <<version, announce, writer, missed, cpc, seen>>,
         clients' \subseteq clients, shut \subseteq shut', gone \subseteq gone',
         shut' \subseteq Conns, gone' \subseteq Conns, UNCHANGED writeErr
  PROVE  IInv'
<1>1. Data' /\ Bounded' /\ Registered' /\ WriterClean'
  BY DEF IInv, Data, Bounded, Registered, WriterClean, announce, writer
<1>2. Covered'
  BY DEF IInv, Covered, Connected, Told, Announced, Queued, Written, announce, writer
<1> QED  BY <1>1, <1>2 DEF IInv

LEMMA LeavesKeeps == ASSUME IInv, NEW p \in Conns, PeerLeaves(p) PROVE IInv'
<1>1. /\ gone' = gone \cup {p}
      /\ UNCHANGED <<version, announce, writer, missed, cpc, seen, clients, shut, writeErr>>
  BY DEF PeerLeaves, Aside
<1> QED  BY <1>1, Disconnects DEF IInv, Data

(* The steps of the shutdown.                                              *)
LEMMA ShutdownKeeps ==
  ASSUME IInv, UNCHANGED <<version, announce, writer, missed>>,
         \/ Signal \/ StopSession \/ Slept \/ SweepClients \/ SetFlag
         \/ CloseChannel \/ ShutHTTP \/ Exit
  PROVE  IInv'
<1>1. CASE SweepClients
  <2>1. clients' = {} /\ shut' = shut \cup clients /\ UNCHANGED <<cpc, gone, writeErr, seen>>
    BY <1>1 DEF SweepClients
  <2> QED  BY <2>1, Disconnects DEF IInv, Data
<1>2. CASE ~SweepClients
  <2>1. UNCHANGED conns
    BY <1>2 DEF Signal, StopSession, Slept, SetFlag, CloseChannel, ShutHTTP, Exit
  <2> QED  BY <2>1, Disconnects DEF IInv, Data, conns
<1> QED  BY <1>1, <1>2

LEMMA NextKeeps == IInv /\ [Next]_vars => IInv'
<1> SUFFICES ASSUME IInv, [Next]_vars PROVE IInv'
  OBVIOUS
<1>1. CASE Transition
  BY <1>1, TransitionKeeps
<1>2. CASE PollTicks \/ PollEnds
  BY <1>2, PollKeeps
<1>3. CASE \E a \in Announcer : Announces(a)
  BY <1>3, EmitReadsKeeps, FlagKeeps, ClientsKeeps, SendKeeps DEF Announces
<1>4. CASE Writer
  BY <1>4, ReceivesKeeps, CopiesKeeps, WritesKeeps, PurgesKeeps, EndsKeeps DEF Writer
<1>5. CASE \E c \in Conns : Upgrade(c) \/ Connection(c)
  BY <1>5, ConnectionKeeps
<1>6. CASE \E c \in Conns : PeerLeaves(c)
  BY <1>6, LeavesKeeps
<1>7. CASE Signal /\ UNCHANGED <<version, announce, writer, missed>>
  BY <1>7, ShutdownKeeps
<1>8. CASE Shutdown
  BY <1>8, ShutdownKeeps DEF Shutdown
<1>9. CASE UNCHANGED vars
  <2>1. /\ UNCHANGED <<version, announce, writer, missed, cpc, seen>>
        /\ UNCHANGED <<clients, shut, gone, writeErr>>
    BY <1>9 DEF vars, conns
  <2> QED  BY <2>1, Disconnects DEF IInv, Data
<1> QED  BY <1>1, <1>2, <1>3, <1>4, <1>5, <1>6, <1>7, <1>8, <1>9 DEF Next

LEMMA AlwaysIInv == Safe => []IInv
  BY InitHolds, NextKeeps, PTL DEF Safe

-------------------------------------------------------------------------------
(* Only the shutdown touches the flag and the channel.                     *)
LEMMA ControlKeeps == Control /\ [Next]_vars => Control'
<1> SUFFICES ASSUME Control, [Next]_vars PROVE Control'
  OBVIOUS
<1>1. CASE UNCHANGED stop
  BY <1>1, Zenon DEF Control, stop
<1>2. CASE Signal
  BY <1>2, Zenon DEF Signal, Goes, Control
<1>3. CASE Shutdown
  <2>1. CASE StopSession \/ Slept \/ SweepClients \/ ShutHTTP \/ Exit
    <3>1. UNCHANGED <<flag, closed>>
      BY <2>1, Zenon DEF StopSession, Slept, SweepClients, ShutHTTP, Exit
    <3>2. spc' \in {"sleeping", "sweep", "flag", "waiting", "exited"}
      BY <2>1 DEF StopSession, Slept, SweepClients, ShutHTTP, Exit, Goes
    <3>3. flag' \in BOOLEAN /\ closed' \in BOOLEAN
      BY <3>1, Zenon DEF Control
    <3> QED  BY <3>2, <3>3, Zenon DEF Control
  <2>2. CASE SetFlag
    BY <2>2, Zenon DEF SetFlag, Goes, Control
  <2>3. CASE CloseChannel
    BY <2>3, Zenon DEF CloseChannel, Goes, Control
  <2> QED  BY <1>3, <2>1, <2>2, <2>3 DEF Shutdown
<1>4. CASE Transition \/ PollTicks \/ PollEnds \/ \E a \in Announcer : Announces(a)
  <2>1. UNCHANGED stop
    BY <1>4 DEF Transition, PollTicks, PollEnds, Announces, EmitReads, BroadcastFlag,
       BroadcastClients, BroadcastSend
  <2> QED  BY <2>1, <1>1
<1>5. CASE Writer
  <2>1. UNCHANGED stop
    BY <1>5 DEF Writer, WriterReceives, WriterCopies, WriterPurges, WriterEnds,
       WriterWrites, Left
  <2> QED  BY <2>1, <1>1
<1>6. CASE \E c \in Conns : Upgrade(c) \/ Connection(c) \/ PeerLeaves(c)
  <2>1. UNCHANGED stop
    BY <1>6 DEF Upgrade, Connection, Snapshot, Register, ReaderEnds, PeerLeaves, Aside
  <2> QED  BY <2>1, <1>1
<1>7. CASE UNCHANGED vars
  BY <1>1, <1>7 DEF vars
<1> QED  BY <1>2, <1>3, <1>4, <1>5, <1>6, <1>7 DEF Next

(* The types, the queue's capacity included.                               *)
THEOREM HubTypeOK == Safe => []TypeOK
<1>1. Safe => []Control
  BY InitHolds, ControlKeeps, PTL DEF Safe
<1>2. IInv /\ Control => TypeOK
  BY Zenon DEF IInv, Data, Control, TypeOK
<1> QED  BY <1>1, <1>2, AlwaysIInv, PTL

(* The writer goroutine has no connection in hand whose snapshot is being  *)
(* sent, whatever connects, leaves or is announced meanwhile.              *)
THEOREM HubNoConcurrentWrites == Safe => []NoConcurrentWrites
<1>1. IInv => NoConcurrentWrites
  BY DEF IInv, Registered, NoConcurrentWrites
<1> QED  BY <1>1, AlwaysIInv, PTL

(* When nothing is under way a connected client shows the session's state, *)
(* or has missed that very state.                                          *)
THEOREM HubStaleExplained == Safe => []StaleExplained
<1>1. IInv => StaleExplained
  <2> SUFFICES ASSUME IInv, Settled, NEW c \in clients \ (gone \cup shut \cup writeErr)
               PROVE  version \in {seen[c], missed[c]}
    BY DEF StaleExplained
  <2>1. c \in Conns /\ version \in Nat
    BY HubAssumption DEF IInv, Data, Version
  <2>2. CASE version = 0
    BY <2>1, <2>2, FirstTold DEF Told
  <2>3. CASE version # 0
    <3>1. ~Announced
      BY <2>3 DEF Announced, Settled, Poller, IInv, Data, Announcer
    <3>2. ~Queued /\ ~Written(c) /\ c \notin wfailed
      BY DEF Settled, Queued, Written, IInv, WriterClean
    <3>3. Connected(c)
      BY <2>1 DEF Connected, IInv, Registered
    <3> QED  BY <2>1, <3>1, <3>2, <3>3 DEF IInv, Covered, Told
  <2> QED  BY <2>2, <2>3
<1> QED  BY <1>1, AlwaysIInv, PTL

================================================================================
