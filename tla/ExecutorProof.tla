---------------------------- MODULE ExecutorProof -----------------------------
(***************************************************************************)
(* That Executor keeps its types, its slots and its safety properties,     *)
(* for any number of calls, failures and chain resets.                     *)
(***************************************************************************)
EXTENDS Executor, FiniteSetTheorems, TLAPS

(* A chain reset that is still clean found nothing under way, and finds    *)
(* the chain empty until the cache is cleared.                             *)
EmptyWhileReset ==
  clean /\ reseeding => /\ queue = {} /\ mined = 0
                        /\ \A c \in Calls : ~UnderWay(c)

(* Without a cached nonce the account has sent and holds nothing.          *)
UnknownIsUnused ==
  clean /\ ~reseeding /\ ~known => /\ queue = {} /\ mined = 0
                                   /\ \A c \in Calls : ~Held(c)

(* The cached nonce is above all that was handed out, and what was handed  *)
(* out is distinct.                                                        *)
NextIsFresh ==
  clean /\ ~reseeding /\ known =>
    /\ mined <= next
    /\ \A q \in queue : mined <= q.nonce /\ q.nonce < next
    /\ \A c \in Calls : Held(c) => held[c] < next /\ Free(held[c])
    /\ \A c, d \in Calls : Held(c) /\ Held(d) /\ held[c] = held[d] => c = d
    /\ \A p, q \in queue : p.nonce = q.nonce => p = q

(* A sell past its allowance check has an approval mined, or queued below  *)
(* the nonce it will have, has, or was queued with.                        *)
ApprovedBelow(n) == approved \/ \E q \in queue : q.approves /\ q.nonce < n

SellsFollowApproval ==
  clean =>
    /\ \A c \in Calls : kind[c] = "sell" /\ pc[c] = "nonce" => ApprovedBelow(next)
    /\ \A c \in Calls : kind[c] = "sell" /\ pc[c] = "send" => ApprovedBelow(held[c])
    /\ \A q \in queue : kind[q.by] = "sell" /\ ~q.approves => ApprovedBelow(q.nonce)
    /\ reverted = {}

IInv ==
  /\ TypeOK
  /\ EmptyWhileReset /\ UnknownIsUnused /\ NextIsFresh
  /\ SellsFollowApproval /\ GapsExplained

-------------------------------------------------------------------------------
(* The invariant holds before the first call.                              *)
LEMMA InitHolds == Init => IInv
  <1> SUFFICES ASSUME Init PROVE IInv
    OBVIOUS
  <1>1. Data
    BY ExecutorAssumption DEF Init, Data, Sending
  <1>2. SlotsKept
    BY FS_EmptySet, ExecutorAssumption DEF Init, SlotsKept
  <1>3. Flags
    BY DEF Init, Flags
  <1> QED
    BY <1>1, <1>2, <1>3 DEF Init, IInv, TypeOK, EmptyWhileReset, UnknownIsUnused, NextIsFresh,
       SellsFollowApproval, GapsExplained, Held, Sending

(* A callback starts only while a slot is free.                            *)
LEMMA SlotsStep == TypeOK /\ [Next]_vars => SlotsKept'
  <1> SUFFICES ASSUME TypeOK, [Next]_vars PROVE SlotsKept'
    OBVIOUS
  <1>1. CASE running' = running
    BY <1>1 DEF TypeOK, SlotsKept
  <1>2. ASSUME NEW c \in Calls, EmitTrade(c), running' # running PROVE SlotsKept'
    <2>1. Cardinality(running) < Slots /\ running' = running \cup {c}
      BY <1>2 DEF EmitTrade
    <2>2. IsFiniteSet(running') /\ Cardinality(running') <= Cardinality(running) + 1
      <3>1. IsFiniteSet(running) /\ Cardinality(running) \in Nat
        BY FS_CardinalityType DEF TypeOK, SlotsKept
      <3>2. /\ IsFiniteSet(running \cup {c})
            /\ \/ Cardinality(running \cup {c}) = Cardinality(running)
               \/ Cardinality(running \cup {c}) = Cardinality(running) + 1
        BY <3>1, FS_AddElement
      <3> QED
        BY <2>1, <3>1, <3>2
    <2> QED
      BY <2>1, <2>2, FS_CardinalityType, ExecutorAssumption DEF TypeOK, SlotsKept
  <1>3. ASSUME NEW c \in Calls, CallbackReturns(c) PROVE SlotsKept'
    <2>1. running' = running \ {c} /\ IsFiniteSet(running)
      BY <1>3 DEF CallbackReturns, TypeOK, SlotsKept
    <2>2. IsFiniteSet(running') /\ Cardinality(running') <= Cardinality(running)
      BY <2>1, FS_Subset
    <2> QED
      BY <2>1, <2>2, FS_CardinalityType, ExecutorAssumption DEF TypeOK, SlotsKept
  <1> QED
    BY <1>1, <1>2, <1>3, Zenon
       DEF Next, vars, CallStep, Fails, Call, ReadAllowance, TakeNonce, Send, SendRefused,
           ReadFails, SendLost, AnswerLost, Mine, Mines, ResetChain, ClearCache, RedeployFails

(* The flags stay Boolean.                                                 *)
LEMMA FlagsStep == Flags /\ [Next]_vars => Flags'
  BY ZenonT(60)
     DEF Flags, Next, vars, cache, node, history, CallStep, Fails, Call, ReadAllowance,
         TakeNonce, GetAndIncrement, Send, SendRefused, EmitTrade, ReadFails, SendLost,
         AnswerLost, CallbackReturns, Mine, Mines, ResetChain, ClearCache, RedeployFails

(* A transaction sent is a transaction queued.                             *)
LEMMA EnqueueTyped ==
  ASSUME Data, NEW c \in Calls, Enqueue(c)
  PROVE  queue' \subseteq Transaction
  <1> DEFINE tx == [nonce |-> held[c], by |-> c, approves |-> pc[c] = "approve"]
  <1>1. held[c] \in Nat
    BY DEF Data
  <1>2. tx \in Transaction
    BY <1>1 DEF Transaction
  <1> QED
    BY <1>2 DEF Enqueue, Data

(* Every other variable keeps its type.                                    *)
LEMMA DataStep == Data /\ Flags /\ [Next]_vars => Data'
  <1> SUFFICES ASSUME Data, Flags, [Next]_vars PROVE Data'
    OBVIOUS
  <1> USE ExecutorAssumption DEF Data
  <1>1. ASSUME NEW c \in Calls, Call(c) PROVE Data'
    BY <1>1, SMT DEF Call, Goto, Sending, cache, node, history
  <1>2. ASSUME NEW c \in Calls, ReadAllowance(c) PROVE Data'
    BY <1>2, SMT DEF ReadAllowance, Goto, Sending, cache, node, history
  <1>3. ASSUME NEW c \in Calls, TakeNonce(c) PROVE Data'
    BY <1>3, SMT DEF TakeNonce, GetAndIncrement, PendingNonceAt, Queued, Goto,
                     Sending, cache, node, history
  <1>4. ASSUME NEW c \in Calls, Send(c) PROVE Data'
    <2>1. queue' \subseteq Transaction
      BY <1>4, EnqueueTyped DEF Send
    <2>2. pc' \in [Calls -> {"none", "allowance", "approval", "nonce", "emit", "done", "failed"}
                           \cup Sending]
      BY <1>4 DEF Send, Goto
    <2> QED
      BY <1>4, <2>1, <2>2 DEF Send, cache, history
  <1>5. ASSUME NEW c \in Calls, SendRefused(c) PROVE Data'
    BY <1>5, SMT DEF SendRefused, Goto, Sending, cache, node, history
  <1>6. ASSUME NEW c \in Calls, EmitTrade(c) PROVE Data'
    BY <1>6, SMT DEF EmitTrade, Goto, Sending, cache, node, history
  <1>7. ASSUME NEW c \in Calls, ReadFails(c) PROVE Data'
    BY <1>7, SMT DEF ReadFails, Goto, Sending, cache, node, history
  <1>8. ASSUME NEW c \in Calls, SendLost(c) PROVE Data'
    <2>1. lost' \subseteq Nat /\ failures' \in 0 .. MaxFailures
      <3>1. /\ lost' = lost \cup {held[c]}
            /\ failures < MaxFailures /\ failures' = failures + 1
        BY <1>8, Zenon DEF SendLost
      <3>2. held[c] \in Nat
        OBVIOUS
      <3>3. lost' \subseteq Nat
        BY <3>1, <3>2, Zenon
      <3> QED
        BY <3>1, <3>3
    <2> QED
      BY <1>8, <2>1 DEF SendLost, Goto, Sending, cache, node
  <1>9. ASSUME NEW c \in Calls, AnswerLost(c) PROVE Data'
    <2>1. queue' \subseteq Transaction
      BY <1>9, EnqueueTyped DEF AnswerLost
    <2> QED
      BY <1>9, <2>1 DEF AnswerLost, Goto, cache
  <1>10. ASSUME NEW c \in Calls, CallbackReturns(c) PROVE Data'
    BY <1>10, SMT DEF CallbackReturns, Sending, cache, node, history
  <1>11. ASSUME Mine PROVE Data'
    <2>1. PICK q \in queue : Mines(q)
      BY <1>11 DEF Mine
    <2>2. q \in Transaction /\ q.by \in Calls
      BY DEF Transaction
    <2> QED
      BY <2>1, <2>2 DEF Mines, cache
  <1>12. ASSUME ResetChain PROVE Data'
    BY <1>12, SMT DEF ResetChain, Sending, cache, node, history
  <1>13. ASSUME ClearCache PROVE Data'
    BY <1>13, SMT DEF ClearCache, Sending, cache, node, history
  <1>14. ASSUME RedeployFails PROVE Data'
    BY <1>14, SMT DEF RedeployFails, Sending, cache, node, history
  <1>15. CASE UNCHANGED vars
    BY <1>15 DEF vars, cache, node, history
  <1> QED
    BY <1>1, <1>2, <1>3, <1>4, <1>5, <1>6, <1>7, <1>8, <1>9, <1>10, <1>11, <1>12, <1>13,
       <1>14, <1>15 DEF Next, CallStep, Fails
(* Between the reset and the clearing of the cache a clean chain is empty. *)
LEMMA ResetStep == IInv /\ [Next]_vars => EmptyWhileReset'
  <1> SUFFICES ASSUME IInv, [Next]_vars PROVE EmptyWhileReset'
    OBVIOUS
  <1> USE DEF IInv, TypeOK, Data, Flags, EmptyWhileReset, UnderWay, Sending
  <1>1. ASSUME NEW c \in Calls, Call(c) PROVE EmptyWhileReset'
    BY <1>1 DEF Call, Goto, cache, node, history
  <1>2. ASSUME NEW c \in Calls, ReadAllowance(c) PROVE EmptyWhileReset'
    BY <1>2 DEF ReadAllowance, Goto, cache, node, history
  <1>3. ASSUME NEW c \in Calls, TakeNonce(c) PROVE EmptyWhileReset'
    BY <1>3 DEF TakeNonce, GetAndIncrement, PendingNonceAt, Goto, Queued, cache, node, history
  <1>4. ASSUME NEW c \in Calls, Send(c) PROVE EmptyWhileReset'
    BY <1>4 DEF Send, Enqueue, Goto, cache, node, history
  <1>5. ASSUME NEW c \in Calls, SendRefused(c) PROVE EmptyWhileReset'
    BY <1>5 DEF SendRefused, Goto, cache, node, history
  <1>6. ASSUME NEW c \in Calls, EmitTrade(c) PROVE EmptyWhileReset'
    BY <1>6 DEF EmitTrade, Goto, cache, node, history
  <1>7. ASSUME NEW c \in Calls, ReadFails(c) PROVE EmptyWhileReset'
    BY <1>7 DEF ReadFails, Goto, cache, node, history
  <1>8. ASSUME NEW c \in Calls, SendLost(c) PROVE EmptyWhileReset'
    BY <1>8 DEF SendLost, Goto, cache, node, history
  <1>9. ASSUME NEW c \in Calls, AnswerLost(c) PROVE EmptyWhileReset'
    BY <1>9 DEF AnswerLost, Enqueue, Goto, cache, node, history
  <1>10. ASSUME NEW c \in Calls, CallbackReturns(c) PROVE EmptyWhileReset'
    BY <1>10 DEF CallbackReturns, cache, node, history
  <1>11. ASSUME Mine PROVE EmptyWhileReset'
    BY <1>11 DEF Mine, Mines, cache, node, history
  <1>12. ASSUME ResetChain PROVE EmptyWhileReset'
    BY <1>12 DEF ResetChain, cache, node, history
  <1>13. ASSUME ClearCache PROVE EmptyWhileReset'
    BY <1>13 DEF ClearCache, cache, node, history
  <1>14. ASSUME RedeployFails PROVE EmptyWhileReset'
    BY <1>14 DEF RedeployFails, cache, node, history
  <1>15. CASE UNCHANGED vars
    BY <1>15 DEF vars, cache, node, history
  <1> QED
    BY <1>1, <1>2, <1>3, <1>4, <1>5, <1>6, <1>7, <1>8, <1>9, <1>10, <1>11, <1>12, <1>13,
       <1>14, <1>15, Zenon DEF Next, CallStep, Fails

(* The cache is filled by the first nonce taken, before anything is sent.  *)
LEMMA UnknownStep == IInv /\ [Next]_vars => UnknownIsUnused'
  <1> SUFFICES ASSUME IInv, [Next]_vars PROVE UnknownIsUnused'
    OBVIOUS
  <1> USE DEF IInv, TypeOK, Data, Flags, UnknownIsUnused, EmptyWhileReset, Held, UnderWay, Sending
  <1>1. ASSUME NEW c \in Calls, Call(c) PROVE UnknownIsUnused'
    BY <1>1 DEF Call, Goto, cache, node, history
  <1>2. ASSUME NEW c \in Calls, ReadAllowance(c) PROVE UnknownIsUnused'
    BY <1>2 DEF ReadAllowance, Goto, cache, node, history
  <1>3. ASSUME NEW c \in Calls, TakeNonce(c) PROVE UnknownIsUnused'
    BY <1>3 DEF TakeNonce, GetAndIncrement, PendingNonceAt, Goto, Queued, cache, node, history
  <1>4. ASSUME NEW c \in Calls, Send(c) PROVE UnknownIsUnused'
    BY <1>4 DEF Send, Enqueue, Goto, cache, node, history
  <1>5. ASSUME NEW c \in Calls, SendRefused(c) PROVE UnknownIsUnused'
    BY <1>5 DEF SendRefused, Goto, cache, node, history
  <1>6. ASSUME NEW c \in Calls, EmitTrade(c) PROVE UnknownIsUnused'
    BY <1>6 DEF EmitTrade, Goto, cache, node, history
  <1>7. ASSUME NEW c \in Calls, ReadFails(c) PROVE UnknownIsUnused'
    BY <1>7 DEF ReadFails, Goto, cache, node, history
  <1>8. ASSUME NEW c \in Calls, SendLost(c) PROVE UnknownIsUnused'
    BY <1>8 DEF SendLost, Goto, cache, node, history
  <1>9. ASSUME NEW c \in Calls, AnswerLost(c) PROVE UnknownIsUnused'
    BY <1>9 DEF AnswerLost, Enqueue, Goto, cache, node, history
  <1>10. ASSUME NEW c \in Calls, CallbackReturns(c) PROVE UnknownIsUnused'
    BY <1>10 DEF CallbackReturns, cache, node, history
  <1>11. ASSUME Mine PROVE UnknownIsUnused'
    BY <1>11 DEF Mine, Mines, cache, node, history
  <1>12. ASSUME ResetChain PROVE UnknownIsUnused'
    BY <1>12 DEF ResetChain, cache, node, history
  <1>13. ASSUME ClearCache PROVE UnknownIsUnused'
    BY <1>13 DEF ClearCache, cache, node, history
  <1>14. ASSUME RedeployFails PROVE UnknownIsUnused'
    BY <1>14 DEF RedeployFails, cache, node, history
  <1>15. CASE UNCHANGED vars
    BY <1>15 DEF vars, cache, node, history
  <1> QED
    BY <1>1, <1>2, <1>3, <1>4, <1>5, <1>6, <1>7, <1>8, <1>9, <1>10, <1>11, <1>12, <1>13,
       <1>14, <1>15, Zenon DEF Next, CallStep, Fails

(* The nonce handed out is new and the next one is above it.               *)
LEMMA FreshStep == IInv /\ [Next]_vars => NextIsFresh'
  <1> SUFFICES ASSUME IInv, [Next]_vars PROVE NextIsFresh'
    OBVIOUS
  <1> USE DEF IInv, TypeOK, Data, Flags, NextIsFresh, UnknownIsUnused, EmptyWhileReset, Held,
     Free, Queued, UnderWay, Transaction, Sending
  <1>1. ASSUME NEW c \in Calls, Call(c) PROVE NextIsFresh'
    BY <1>1 DEF Call, Goto, cache, node, history
  <1>2. ASSUME NEW c \in Calls, ReadAllowance(c) PROVE NextIsFresh'
    BY <1>2 DEF ReadAllowance, Goto, cache, node, history
  <1>3. ASSUME NEW c \in Calls, TakeNonce(c) PROVE NextIsFresh'
    BY <1>3 DEF TakeNonce, GetAndIncrement, PendingNonceAt, Goto, Queued, cache, node, history
  <1>4. ASSUME NEW c \in Calls, Send(c) PROVE NextIsFresh'
    BY <1>4 DEF Send, Enqueue, Goto, cache, node, history
  <1>5. ASSUME NEW c \in Calls, SendRefused(c) PROVE NextIsFresh'
    BY <1>5 DEF SendRefused, Goto, cache, node, history
  <1>6. ASSUME NEW c \in Calls, EmitTrade(c) PROVE NextIsFresh'
    BY <1>6 DEF EmitTrade, Goto, cache, node, history
  <1>7. ASSUME NEW c \in Calls, ReadFails(c) PROVE NextIsFresh'
    BY <1>7 DEF ReadFails, Goto, cache, node, history
  <1>8. ASSUME NEW c \in Calls, SendLost(c) PROVE NextIsFresh'
    BY <1>8 DEF SendLost, Goto, cache, node, history
  <1>9. ASSUME NEW c \in Calls, AnswerLost(c) PROVE NextIsFresh'
    BY <1>9 DEF AnswerLost, Enqueue, Goto, cache, node, history
  <1>10. ASSUME NEW c \in Calls, CallbackReturns(c) PROVE NextIsFresh'
    BY <1>10 DEF CallbackReturns, cache, node, history
  <1>11. ASSUME Mine PROVE NextIsFresh'
    BY <1>11 DEF Mine, Mines, cache, node, history
  <1>12. ASSUME ResetChain PROVE NextIsFresh'
    BY <1>12 DEF ResetChain, cache, node, history
  <1>13. ASSUME ClearCache PROVE NextIsFresh'
    BY <1>13 DEF ClearCache, cache, node, history
  <1>14. ASSUME RedeployFails PROVE NextIsFresh'
    BY <1>14 DEF RedeployFails, cache, node, history
  <1>15. CASE UNCHANGED vars
    BY <1>15 DEF vars, cache, node, history
  <1> QED
    BY <1>1, <1>2, <1>3, <1>4, <1>5, <1>6, <1>7, <1>8, <1>9, <1>10, <1>11, <1>12, <1>13,
       <1>14, <1>15, Zenon DEF Next, CallStep, Fails

(* What a transaction that reaches the node adds to its queue.             *)
LEMMA Enqueued ==
  ASSUME Data, NEW c \in Calls, Enqueue(c), held' = held,
         \A d \in Calls \ {c} : pc'[d] = pc[d]
  PROVE  Queued' = Queued \cup {held[c]} /\ Holding \subseteq Holding' \cup {held[c]}
  <1> DEFINE tx == [nonce |-> held[c], by |-> c, approves |-> pc[c] = "approve"]
  <1>1. Queued' = Queued \cup {held[c]}
    <2>1. queue' = queue \cup {tx} /\ tx.nonce = held[c]
      BY DEF Enqueue
    <2> HIDE DEF tx
    <2> QED
      BY <2>1 DEF Queued
  <1>2. ASSUME NEW d \in Calls, Held(d), d # c PROVE held[d] \in Holding'
    BY <1>2 DEF Held, Holding
  <1> QED
    BY <1>1, <1>2 DEF Holding

(* The approval is queued before the sell's nonce is taken.                *)
LEMMA SellsStep == IInv /\ [Next]_vars => SellsFollowApproval'
  <1> SUFFICES ASSUME IInv, [Next]_vars PROVE SellsFollowApproval'
    OBVIOUS
  <1> USE DEF IInv, TypeOK, Data, Flags, SellsFollowApproval, UnknownIsUnused,
     EmptyWhileReset, NextIsFresh, ApprovedBelow, Held, UnderWay, Transaction, Sending
  <1>1. ASSUME NEW c \in Calls, Call(c) PROVE SellsFollowApproval'
    BY <1>1 DEF Call, Goto, cache, node, history
  <1>2. ASSUME NEW c \in Calls, ReadAllowance(c) PROVE SellsFollowApproval'
    BY <1>2 DEF ReadAllowance, Goto, cache, node, history
  <1>3. ASSUME NEW c \in Calls, TakeNonce(c) PROVE SellsFollowApproval'
    BY <1>3 DEF TakeNonce, GetAndIncrement, PendingNonceAt, Goto, Queued, cache, node, history
  <1>4. ASSUME NEW c \in Calls, Send(c) PROVE SellsFollowApproval'
    <2> DEFINE tx == [nonce |-> held[c], by |-> c, approves |-> pc[c] = "approve"]
    <2> SUFFICES ASSUME clean PROVE SellsFollowApproval'
      BY <1>4 DEF Send, history
    <2>1. /\ queue' = queue \cup {tx} /\ pc[c] \in Sending
          /\ UNCHANGED <<kind, held, next, approved, reverted>>
      BY <1>4 DEF Send, Enqueue, cache, history
    <2>2. \A n \in Nat : ApprovedBelow(n) => ApprovedBelow(n)'
      BY <2>1
    <2>3. held[c] \in Nat /\ next \in Nat /\ held[c] < next
      BY <2>1
    <2>4. CASE pc[c] = "approve"
      <3>1. tx.approves /\ tx.nonce < next /\ pc' = [pc EXCEPT ![c] = "nonce"]
        BY <1>4, <2>3, <2>4 DEF Send, Goto
      <3>2. ApprovedBelow(next)'
        BY <2>1, <3>1
      <3> QED
        BY <2>1, <2>2, <2>4, <3>1, <3>2
    <2>5. CASE pc[c] = "send"
      <3>1. ~tx.approves /\ tx.nonce = held[c] /\ tx.by = c
        BY <2>5
      <3>2. \A d \in Calls : pc'[d] \in {"nonce", "send"} => pc'[d] = pc[d]
        BY <1>4, <2>5 DEF Send, Goto
      <3>3. kind[c] = "sell" => ApprovedBelow(held[c])
        BY <2>5
      <3> QED
        BY <2>1, <2>2, <2>3, <3>1, <3>2, <3>3
    <2> QED
      BY <2>1, <2>4, <2>5
  <1>5. ASSUME NEW c \in Calls, SendRefused(c) PROVE SellsFollowApproval'
    BY <1>5 DEF SendRefused, Goto, cache, node, history
  <1>6. ASSUME NEW c \in Calls, EmitTrade(c) PROVE SellsFollowApproval'
    BY <1>6 DEF EmitTrade, Goto, cache, node, history
  <1>7. ASSUME NEW c \in Calls, ReadFails(c) PROVE SellsFollowApproval'
    BY <1>7 DEF ReadFails, Goto, cache, node, history
  <1>8. ASSUME NEW c \in Calls, SendLost(c) PROVE SellsFollowApproval'
    BY <1>8 DEF SendLost, Goto, cache, node, history
  <1>9. ASSUME NEW c \in Calls, AnswerLost(c) PROVE SellsFollowApproval'
    BY <1>9 DEF AnswerLost, Enqueue, Goto, cache, node, history
  <1>10. ASSUME NEW c \in Calls, CallbackReturns(c) PROVE SellsFollowApproval'
    BY <1>10 DEF CallbackReturns, cache, node, history
  <1>11. ASSUME Mine PROVE SellsFollowApproval'
    BY <1>11 DEF Mine, Mines, cache, node, history
  <1>12. ASSUME ResetChain PROVE SellsFollowApproval'
    BY <1>12 DEF ResetChain, cache, node, history
  <1>13. ASSUME ClearCache PROVE SellsFollowApproval'
    BY <1>13 DEF ClearCache, cache, node, history
  <1>14. ASSUME RedeployFails PROVE SellsFollowApproval'
    BY <1>14 DEF RedeployFails, cache, node, history
  <1>15. CASE UNCHANGED vars
    BY <1>15 DEF vars, cache, node, history
  <1> QED
    BY <1>1, <1>2, <1>3, <1>4, <1>5, <1>6, <1>7, <1>8, <1>9, <1>10, <1>11, <1>12, <1>13,
       <1>14, <1>15, Zenon DEF Next, CallStep, Fails

(* A nonce taken is held until it is sent, lost or the call's send fails.  *)
LEMMA GapsStep == IInv /\ [Next]_vars => GapsExplained'
  <1> SUFFICES ASSUME IInv, [Next]_vars PROVE GapsExplained'
    OBVIOUS
  <1> USE DEF IInv, TypeOK, Data, Flags, GapsExplained, UnknownIsUnused, EmptyWhileReset,
     NextIsFresh, Held, Holding, Queued, Free, UnderWay, Transaction, Sending
  <1>1. ASSUME NEW c \in Calls, Call(c) PROVE GapsExplained'
    BY <1>1 DEF Call, Goto, cache, node, history
  <1>2. ASSUME NEW c \in Calls, ReadAllowance(c) PROVE GapsExplained'
    BY <1>2 DEF ReadAllowance, Goto, cache, node, history
  <1>3. ASSUME NEW c \in Calls, TakeNonce(c) PROVE GapsExplained'
    BY <1>3 DEF TakeNonce, GetAndIncrement, PendingNonceAt, Goto, Queued, cache, node, history
  <1>4. ASSUME NEW c \in Calls, Send(c) PROVE GapsExplained'
    <2>1. Queued' = Queued \cup {held[c]} /\ Holding \subseteq Holding' \cup {held[c]}
      BY <1>4, Enqueued DEF Send, Goto
    <2> QED
      BY <1>4, <2>1, Zenon DEF Send, cache, history, GapsExplained
  <1>5. ASSUME NEW c \in Calls, SendRefused(c) PROVE GapsExplained'
    BY <1>5 DEF SendRefused, Goto, cache, node, history
  <1>6. ASSUME NEW c \in Calls, EmitTrade(c) PROVE GapsExplained'
    BY <1>6 DEF EmitTrade, Goto, cache, node, history
  <1>7. ASSUME NEW c \in Calls, ReadFails(c) PROVE GapsExplained'
    BY <1>7 DEF ReadFails, Goto, cache, node, history
  <1>8. ASSUME NEW c \in Calls, SendLost(c) PROVE GapsExplained'
    BY <1>8 DEF SendLost, Goto, cache, node, history
  <1>9. ASSUME NEW c \in Calls, AnswerLost(c) PROVE GapsExplained'
    <2>1. Queued' = Queued \cup {held[c]} /\ Holding \subseteq Holding' \cup {held[c]}
      BY <1>9, Enqueued DEF AnswerLost, Goto
    <2> QED
      BY <1>9, <2>1, Zenon DEF AnswerLost, cache, history, GapsExplained
  <1>10. ASSUME NEW c \in Calls, CallbackReturns(c) PROVE GapsExplained'
    BY <1>10 DEF CallbackReturns, cache, node, history
  <1>11. ASSUME Mine PROVE GapsExplained'
    BY <1>11 DEF Mine, Mines, cache, node, history
  <1>12. ASSUME ResetChain PROVE GapsExplained'
    BY <1>12 DEF ResetChain, cache, node, history
  <1>13. ASSUME ClearCache PROVE GapsExplained'
    BY <1>13 DEF ClearCache, cache, node, history
  <1>14. ASSUME RedeployFails PROVE GapsExplained'
    BY <1>14 DEF RedeployFails, cache, node, history
  <1>15. CASE UNCHANGED vars
    BY <1>15 DEF vars, cache, node, history
  <1> QED
    BY <1>1, <1>2, <1>3, <1>4, <1>5, <1>6, <1>7, <1>8, <1>9, <1>10, <1>11, <1>12, <1>13,
       <1>14, <1>15, Zenon DEF Next, CallStep, Fails

(* Every step keeps the invariant.                                         *)
THEOREM Inductive == IInv /\ [Next]_vars => IInv'
  BY DataStep, FlagsStep, SlotsStep, ResetStep, UnknownStep, FreshStep, SellsStep,
     GapsStep, Zenon DEF IInv, TypeOK

(* Hence every reachable state satisfies it.                               *)
THEOREM Invariant == Safe => []IInv
  BY InitHolds, Inductive, PTL DEF Safe

-------------------------------------------------------------------------------
(* Every variable keeps its type, and no more callbacks run than           *)
(* callbackSem has slots, however many trades end at once.                 *)
THEOREM TypeCorrect == Safe => []TypeOK
  <1>1. IInv => TypeOK
    BY DEF IInv
  <1> QED
    BY <1>1, Invariant, PTL

(* However many calls share the account, the nonces they hold are distinct *)
(* and unused, so the node refuses none of them.                           *)
THEOREM NoCollisionHolds == Safe => []NoCollision
  <1>1. IInv => NoCollision
    BY DEF IInv, TypeOK, Flags, NoCollision, NextIsFresh, UnknownIsUnused,
       EmptyWhileReset, UnderWay, Held
  <1> QED
    BY <1>1, Invariant, PTL

(* A nonce the node waits for is held by a call or lost with a failed send.*)
THEOREM GapsExplainedHolds == Safe => []GapsExplained
  <1>1. IInv => GapsExplained
    BY DEF IInv
  <1> QED
    BY <1>1, Invariant, PTL

(* No sell is mined before an approval, though ensureApproval never waits. *)
THEOREM SellsApprovedHolds == Safe => []SellsApproved
  <1>1. IInv => SellsApproved
    BY DEF IInv, SellsFollowApproval, SellsApproved
  <1> QED
    BY <1>1, Invariant, PTL
===============================================================================
