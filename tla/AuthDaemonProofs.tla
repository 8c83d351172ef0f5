--------------------------- MODULE AuthDaemonProofs ---------------------------
(***************************************************************************)
(* AuthDaemon for every number of connections, users, threads and permits: *)
(* its type, the limits of the ingress, who owns the slot and its worker,  *)
(* under which policy and on whose verdict an attempt is accepted, what    *)
(* the shutdown leaves and what the limiter forgets; and that it           *)
(* implements AuthService.                                                 *)
(***************************************************************************)
EXTENDS AuthDaemonService, FiniteSetTheorems, TLAPS

USE DEF clientVars, jobVars, slotVars, workerVars, policyVars

(* Members of the enumerated types. *)
LEMMA TypeFacts ==
    /\ "out" \in Points /\ "backlog" \in Points /\ "queued" \in Points /\ "closed" \in Points
    /\ "reading" \in Points /\ "dispatch" \in Points /\ "claim" \in Points /\ "poll" \in Points
    /\ "read" \in Points /\ "wait" \in Points /\ "recheck" \in Points /\ "clear" \in Points
    /\ "respond" \in Points
    /\ "none" \in ProcStates /\ "started" \in ProcStates /\ "capturing" \in ProcStates
    /\ "matching" \in ProcStates /\ "finished" \in ProcStates /\ "exited_ok" \in ProcStates
    /\ "exited_bad" \in ProcStates /\ "reaped" \in ProcStates
    /\ "SUCCESS" \in Status /\ "ACCESS_DENIED" \in Status /\ "NO_PROFILE" \in Status
    /\ "TIMEOUT" \in Status /\ "DEVICE_BUSY" \in Status /\ "INTERNAL_ERROR" \in Status
    /\ "RATE_LIMITED" \in Status /\ "CANCELLED" \in Status
    /\ "progress" \in Frames /\ "bad" \in Frames /\ "REJECTED" \in Frames
    /\ WorkerStatus \subseteq Frames /\ WorkerStatus \subseteq Status
  BY Zenon DEF Points, InFlight, Handling, HoldsPolicy, Supervising, ProcStates, AliveStates,
         Status, WorkerStatus, Frames

LEMMA EmptyStream == <<>> \in Streams
  BY DEF Streams

LEMMA StreamFacts ==
    /\ \A s \in Streams, f \in Frames : Append(s, f) \in Streams
    /\ \A s \in Streams : s # <<>> => Head(s) \in Frames /\ Tail(s) \in Streams
  BY DEF Streams

LEMMA StreamDomain ==
    ASSUME NEW s \in Seq(Frames) PROVE DOMAIN s = 1..Len(s) /\ Len(s) \in Nat
  OBVIOUS

LEMMA InitTypeOK == Init => TypeOK
  BY ConstantsAssumption, TypeFacts, EmptyStream DEF Init, TypeOK

LEMMA EndSupervisionTypeOK ==
  ASSUME TypeOK, NEW c \in Conns, EndSupervision(c)
  PROVE  slotLock' = None /\ pipe' \in [Conns -> Streams]
  BY EmptyStream, Zenon DEF TypeOK, EndSupervision

LEMMA KillAndTypeOK ==
  ASSUME TypeOK, NEW c \in Conns, NEW s \in Status, pc[c] # "out", KillAnd(c, s), LoopFrame
  PROVE  TypeOK'
<1>1. slotLock' = None /\ pipe' \in [Conns -> Streams]
  BY EndSupervisionTypeOK, Zenon DEF KillAnd
<1>2. killed' \in [Conns -> BOOLEAN]
  BY Zenon DEF TypeOK, KillAnd
<1>3. /\ pc' \in [Conns -> Points] /\ snap' \in [Conns -> FileIds \cup {NoFile}]
      /\ status' \in [Conns -> Status \cup {None}]
      /\ \A d \in Conns : pc'[d] # "out" => req[d] \in Requests
      /\ \A d \in Conns : pc'[d] \in {"recheck", "clear", "respond"} => status'[d] \in Status
  BY TypeFacts, Zenon DEF TypeOK, KillAnd, Answer, Goto
<1> QED BY <1>1, <1>2, <1>3, Zenon DEF TypeOK, KillAnd, LoopFrame

LEMMA LimiterTypeOK ==
  ASSUME TypeOK, NEW c \in Conns
  PROVE  /\ Retain \in [Users -> SUBSET Attempt]
         /\ Record(c) \in [Users -> SUBSET Attempt]
<1>1. Retain \in [Users -> SUBSET Attempt]
  BY Zenon DEF TypeOK, Retain, Recent
<1>2. [conn |-> c, at |-> clock] \in Attempt
  BY Zenon DEF TypeOK, Attempt
<1> QED BY <1>1, <1>2, Zenon DEF Record

LEMMA NextTypeOK == TypeOK /\ [Next]_vars => TypeOK'
<1> SUFFICES ASSUME TypeOK, [Next]_vars PROVE TypeOK'
  OBVIOUS
<1> USE TypeFacts DEF TypeOK
<1>1. CASE Tick
  BY <1>1 DEF Tick
<1>2. CASE ReplacePolicy
  BY <1>2, Zenon DEF ReplacePolicy
<1>3. CASE LoopStep
  <2>1. CASE ReapBegin
    BY <2>1, Zenon DEF ReapBegin
  <2>2. CASE ReapEnd
    BY <2>2, Zenon DEF ReapEnd, ReapSlot
  <2>3. CASE NothingToAccept
    BY <2>3, Zenon DEF NothingToAccept, LoopGoes
  <2>4. CASE Shutdown
    BY <2>4, Zenon DEF Shutdown, LoopGoes
  <2>5. CASE KillChild
    BY <2>5, Zenon DEF KillChild, LoopGoes
  <2>6. CASE LastReap
    BY <2>6, Zenon DEF LastReap, LoopGoes, ReapSlot
  <2>7. ASSUME NEW c \in Conns, Accept(c) PROVE TypeOK'
    BY <2>7, ConstantsAssumption DEF Accept
  <2> QED BY <1>3, <2>1, <2>2, <2>3, <2>4, <2>5, <2>6, <2>7, Zenon DEF LoopStep
<1>4. ASSUME NEW c \in Conns, Connect(c) PROVE TypeOK'
  BY <1>4 DEF Connect
<1>5. ASSUME NEW c \in Conns, Disconnect(c) PROVE TypeOK'
  BY <1>5, Zenon DEF Disconnect
<1>6. ASSUME NEW c \in Conns, WorkerStep(c) PROVE TypeOK'
  <2>1. \A f \in Frames : Write(c, f) => pipe' \in [Conns -> Streams]
    BY StreamFacts DEF Write
  <2>0. ASSUME NEW s \in ProcStates, ProcBecomes(c, s), pipe' \in [Conns -> Streams]
        PROVE  TypeOK'
    BY <2>0, Zenon DEF ProcBecomes
  <2>p. pipe \in [Conns -> Streams]
    OBVIOUS
  <2> HIDE DEF TypeOK
  <2>2. ASSUME NEW f \in Frames, Finish(c, f) PROVE TypeOK'
    BY <2>0, <2>1, <2>2, Zenon DEF Finish
  <2>3. CASE WorkerCheck(c)
    BY <2>0, <2>2, <2>3, <2>p, Zenon DEF WorkerCheck
  <2>4. CASE WorkerCapture(c)
    BY <2>0, <2>1, <2>2, <2>4, Zenon DEF WorkerCapture
  <2>5. CASE WorkerMatch(c)
    BY <2>2, <2>5, Zenon DEF WorkerMatch
  <2>6. CASE WorkerGarbles(c)
    BY <2>0, <2>2, <2>6, <2>p, Zenon DEF WorkerGarbles
  <2>7. CASE WorkerExit(c)
    BY <2>0, <2>7, <2>p, Zenon DEF WorkerExit
  <2>8. CASE WorkerDies(c)
    BY <2>0, <2>8, <2>p, Zenon DEF WorkerDies
  <2> QED BY <1>6, <2>3, <2>4, <2>5, <2>6, <2>7, <2>8, Zenon DEF WorkerStep
<1>7. ASSUME NEW c \in Conns, ThreadStep(c) PROVE TypeOK'
  <2> USE DEF Goto, Answer
  <2>1. CASE Take(c)
    BY <2>1, Zenon DEF Take
  <2>2. CASE ReadFrame(c)
    BY <2>2 DEF ReadFrame
  <2>3. CASE ReadFails(c)
    BY <2>3 DEF ReadFails, Close
  <2>4. CASE DispatchQuery(c)
    BY <2>4 DEF DispatchQuery
  <2>5. CASE DispatchAuth(c)
    <3>1. deadline' \in [Conns -> Int]
      <4>1. req[c].timeout \in Nat
        BY <2>5, ConstantsAssumption DEF DispatchAuth
      <4> QED BY <2>5, <4>1, ConstantsAssumption DEF DispatchAuth, Earlier
    <3> QED BY <2>5, <3>1 DEF DispatchAuth
  <2>6. CASE ClaimBusy(c)
    BY <2>6, Zenon DEF ClaimBusy
  <2>7. CASE ClaimRefused(c)
    <3>1. attempts' \in [Users -> SUBSET Attempt]
      BY <2>7, LimiterTypeOK DEF ClaimRefused
    <3> QED BY <2>7, <3>1 DEF ClaimRefused, ReapSlot
  <2>8. CASE Spawn(c)
    BY <2>8, LimiterTypeOK, Zenon DEF Spawn
  <2>9. CASE Poll(c)
    <3>1. pc[c] = "poll" /\ LoopFrame
      BY <2>9, Zenon DEF Poll
    <3>2. CASE KillAnd(c, "CANCELLED") \/ KillAnd(c, "TIMEOUT")
      BY <3>1, <3>2, KillAndTypeOK, Zenon
    <3>3. CASE Continue(c, "read") /\ UNCHANGED <<pipe, status>>
      BY <3>1, <3>3, Zenon DEF Continue, LoopFrame
    <3> HIDE DEF TypeOK, Goto, Answer
    <3> QED BY <2>9, <3>2, <3>3, Zenon DEF Poll
  <2>10. CASE ReadNothing(c)
    BY <2>10, Zenon DEF ReadNothing, Continue, LoopFrame
  <2>11. CASE ReadWorker(c)
    <3>1. Tail(pipe[c]) \in Streams /\ Head(pipe[c]) \in Frames
      <4>1. pipe[c] \in Streams /\ pipe[c] # <<>>
        BY <2>11, Zenon DEF ReadWorker
      <4> QED BY <4>1, StreamFacts, Zenon
    <3>2. CASE \E s \in Status : KillAnd(c, s)
      BY <2>11, <3>2, KillAndTypeOK, Zenon DEF ReadWorker
    <3>3. CASE /\ Continue(c, "read") /\ LoopFrame
               /\ pipe' = [pipe EXCEPT ![c] = Tail(pipe[c])]
               /\ status' \in [Conns -> Status \cup {None}]
               /\ \A d \in Conns \ {c} : status'[d] = status[d]
      BY <2>11, <3>1, <3>3, Zenon DEF ReadWorker, Continue, LoopFrame
    <3> HIDE DEF Goto, Answer
    <3> QED BY <2>11, <3>2, <3>3, Zenon DEF ReadWorker
  <2>12. CASE Wait(c)
    <3>1. ExitStatus(c) \in Status
      BY Zenon DEF ExitStatus
    <3>2. ExitStatus(c) = "SUCCESS" => status[c] = "SUCCESS"
      BY Zenon DEF ExitStatus
    <3> QED BY <2>12, <3>1, <3>2, EndSupervisionTypeOK DEF Wait, Continue, LoopFrame
  <2>13. CASE SuperviseFails(c)
    BY <2>13, KillAndTypeOK, Zenon DEF SuperviseFails, Supervising
  <2>14. CASE Recheck(c)
    BY <2>14 DEF Recheck, LoopFrame
  <2>15. CASE Clear(c)
    BY <2>15, Zenon DEF Clear
  <2>16. CASE Respond(c)
    BY <2>16 DEF Respond, Close
  <2> QED BY <1>7, <2>1, <2>2, <2>3, <2>4, <2>5, <2>6, <2>7, <2>8, <2>9, <2>10, <2>11, Zenon,
             <2>12, <2>13, <2>14, <2>15, <2>16 DEF ThreadStep
<1>8. CASE UNCHANGED vars
  BY <1>8, Zenon DEF vars
<1> QED BY <1>1, <1>2, <1>3, <1>4, <1>5, <1>6, <1>7, <1>8, Zenon DEF Next

(* The state of the daemon always has the shape TypeOK describes, whatever *)
(* the handlers, the accept loop and the workers do.                       *)
THEOREM TypeCorrect == Spec => []TypeOK
  BY InitTypeOK, NextTypeOK, PTL DEF Spec

-----------------------------------------------------------------------------
(* The ingress: IngressState, IngressPermit and the bounded queue.         *)

(* The permits are those of the connections in flight, and finitely many.  *)
PermitInv ==
    /\ IsFiniteSet(permits)
    /\ PermitsExact

LEMMA InitPermitInv == Init => PermitInv
<1> SUFFICES ASSUME Init PROVE PermitInv
  OBVIOUS
<1>1. permits = {} /\ \A u : PermitsOf(u) = {}
  BY Zenon DEF Init, PermitsOf
<1>2. \A c \in Conns : pc[c] \notin InFlight
  BY Zenon DEF Init, InFlight, Handling, HoldsPolicy, Supervising
<1>3. MaxActive \in Nat /\ MaxPerUid \in Nat
  BY ConstantsAssumption, Zenon
<1> QED BY <1>1, <1>2, <1>3, FS_EmptySet DEF PermitInv, PermitsExact

(* One more element makes a finite set larger by at most one. *)
AtMostOneMore(S, x) ==
    /\ IsFiniteSet(S \cup {x})
    /\ \/ Cardinality(S \cup {x}) = Cardinality(S)
       \/ Cardinality(S \cup {x}) = Cardinality(S) + 1

LEMMA AddOne == ASSUME NEW S, NEW x, IsFiniteSet(S) PROVE AtMostOneMore(S, x)
<1>1. /\ IsFiniteSet(S \cup {x})
      /\ Cardinality(S \cup {x}) = IF x \in S THEN Cardinality(S) ELSE Cardinality(S) + 1
  BY FS_AddElement, Zenon
<1> QED BY <1>1, Zenon DEF AtMostOneMore

(* No connection in flight changes its peer. *)
LEMMA PeersFixed ==
  ASSUME TypeOK, [Next]_vars
  PROVE  \A c \in Conns : pc[c] # "out" => req'[c] = req[c]
<1> USE DEF TypeOK
<1>1. CASE Tick \/ ReplacePolicy \/ UNCHANGED vars
  BY <1>1, Zenon DEF Tick, ReplacePolicy, vars
<1>2. CASE LoopStep
  BY <1>2, Zenon DEF LoopStep, ReapBegin, ReapEnd, NothingToAccept, Shutdown, KillChild, LastReap,
              Accept, LoopGoes
<1>3. ASSUME NEW c \in Conns, Connect(c) PROVE \A d \in Conns : pc[d] # "out" => req'[d] = req[d]
  BY <1>3, Zenon DEF Connect
<1>4. ASSUME NEW c \in Conns, Disconnect(c) \/ WorkerStep(c) PROVE req' = req
  BY <1>4, Zenon DEF Disconnect, WorkerStep, WorkerCheck, WorkerCapture, WorkerMatch,
              WorkerGarbles, WorkerExit, WorkerDies, Finish, ProcBecomes
<1>5. ASSUME NEW c \in Conns, ThreadStep(c) PROVE req' = req
  BY <1>5, Zenon DEF ThreadStep, Take, ReadFrame, ReadFails, Close, DispatchQuery, DispatchAuth,
              ClaimBusy, ClaimRefused, Spawn, Poll, ReadNothing, ReadWorker, Wait,
              SuperviseFails, LoopFrame, Recheck, Clear, Respond
<1> QED BY <1>1, <1>2, <1>3, <1>4, <1>5, Zenon DEF Next

(* A connection enters the set of those in flight when it is accepted with *)
(* a permit, and leaves it when its handler returns.                       *)
LEMMA PermitSteps ==
  ASSUME TypeOK, [Next]_vars, permits = {c \in Conns : pc[c] \in InFlight}
  PROVE  /\ permits' = {c \in Conns : pc'[c] \in InFlight}
         /\ \/ permits' \subseteq permits
            \/ \E c \in Conns : /\ pc[c] = "backlog" /\ try_acquire(c)
                                /\ permits' = permits \cup {c}
<1> DEFINE
           Goal == /\ permits' = {c \in Conns : pc'[c] \in InFlight}
                   /\ \/ permits' \subseteq permits
                      \/ \E c \in Conns : /\ pc[c] = "backlog" /\ try_acquire(c)
                                          /\ permits' = permits \cup {c}
<1>a. pc \in [Conns -> Points] /\ permits \in SUBSET Conns
  BY Zenon DEF TypeOK
<1>0. ASSUME NEW c \in Conns, NEW to \in InFlight, pc[c] \in InFlight,
             pc' = [pc EXCEPT ![c] = to], permits' = permits
      PROVE  Goal
  BY <1>0, <1>a, Zenon
<1> USE DEF InFlight, Handling, HoldsPolicy, Supervising
<1>1. CASE Tick \/ ReplacePolicy \/ UNCHANGED vars
  BY <1>1, Zenon DEF Tick, ReplacePolicy, vars
<1>2. CASE ReapBegin \/ ReapEnd \/ NothingToAccept \/ Shutdown \/ KillChild \/ LastReap
  BY <1>2, Zenon DEF ReapBegin, ReapEnd, NothingToAccept, Shutdown, KillChild, LastReap, LoopGoes
<1>3. ASSUME NEW c \in Conns, Accept(c) PROVE Goal
  <2>1. pc[c] = "backlog"
    BY <1>3, Zenon DEF Accept
  <2>2. CASE pc' = [pc EXCEPT ![c] = "queued"] /\ permits' = permits \cup {c} /\ try_acquire(c)
    BY <1>a, <2>1, <2>2, Zenon
  <2>3. CASE pc' = [pc EXCEPT ![c] = "closed"] /\ permits' = permits
    BY <1>a, <2>1, <2>3, Zenon
  <2> HIDE DEF Goal
  <2> QED BY <1>3, <2>2, <2>3, Zenon DEF Accept
<1>4. ASSUME NEW c \in Conns, Connect(c) PROVE Goal
  BY <1>4, <1>a, Zenon DEF Connect
<1>5. ASSUME NEW c \in Conns, Disconnect(c) \/ WorkerStep(c) PROVE Goal
  BY <1>5, Zenon DEF Disconnect, WorkerStep, WorkerCheck, WorkerCapture, WorkerMatch,
              WorkerGarbles, WorkerExit, WorkerDies, Finish, ProcBecomes
<1>6. ASSUME NEW c \in Conns, ReadFails(c) \/ Respond(c) PROVE Goal
  BY <1>6, <1>a, Zenon DEF ReadFails, Respond, Close, Goto
<1>7. ASSUME NEW c \in Conns, ThreadStep(c), ~ReadFails(c), ~Respond(c) PROVE Goal
  <2>1. permits' = permits
    BY <1>7, Zenon DEF ThreadStep, Take, ReadFrame, DispatchQuery, DispatchAuth,
              ClaimBusy, ClaimRefused, Spawn, Poll, ReadNothing, ReadWorker, Wait,
              SuperviseFails, LoopFrame, Recheck, Clear
  <2>2. pc[c] \in InFlight
    BY <1>7, Zenon DEF ThreadStep, Take, ReadFrame, DispatchQuery, DispatchAuth,
              ClaimBusy, ClaimRefused, Spawn, Poll, ReadNothing, ReadWorker, Wait,
              SuperviseFails, LoopFrame, Recheck, Clear
  <2>3. \E to \in InFlight : pc' = [pc EXCEPT ![c] = to]
    BY <1>7, Zenon DEF ThreadStep, Take, ReadFrame, DispatchQuery, DispatchAuth,
              ClaimBusy, ClaimRefused, Spawn, Poll, ReadNothing, ReadWorker, Wait,
              SuperviseFails, LoopFrame, Recheck, Clear, KillAnd, Continue, Goto, Answer
  <2> QED BY <2>1, <2>2, <2>3, <1>0, Zenon
<1> QED BY <1>1, <1>2, <1>3, <1>4, <1>5, <1>6, <1>7, Zenon DEF Next, LoopStep

LEMMA NextPermitInv == TypeOK /\ PermitInv /\ [Next]_vars => PermitInv'
<1> SUFFICES ASSUME TypeOK, PermitInv, [Next]_vars PROVE PermitInv'
  OBVIOUS
<1> DEFINE Of(u) == {d \in permits : req[d].peer = u}
           OfNext(u) == {d \in permits' : req'[d].peer = u}
<1>a. MaxActive \in Nat /\ MaxPerUid \in Nat
  BY ConstantsAssumption, Zenon
<1>b. /\ IsFiniteSet(permits) /\ Cardinality(permits) \in Nat
      /\ Cardinality(permits) <= MaxActive
      /\ permits = {c \in Conns : pc[c] \in InFlight}
  BY FS_CardinalityType, Zenon DEF PermitInv, PermitsExact
<1>c. ASSUME NEW u
      PROVE  IsFiniteSet(Of(u)) /\ Cardinality(Of(u)) \in Nat
  BY <1>b, FS_Subset, FS_CardinalityType, Zenon
<1>d. \A u \in Users \cup {Root} : Cardinality(Of(u)) <= MaxPerUid
  BY Zenon DEF PermitInv, PermitsExact, PermitsOf
<1>e. \A d \in permits : req'[d].peer = req[d].peer
  <2>1. \A d \in permits : d \in Conns /\ pc[d] # "out"
    BY <1>b, Zenon DEF InFlight, Handling, HoldsPolicy, Supervising
  <2> QED BY <2>1, PeersFixed, Zenon
<1>f. SUFFICES /\ IsFiniteSet(permits') /\ Cardinality(permits') <= MaxActive
               /\ \A u \in Users \cup {Root} : Cardinality(OfNext(u)) <= MaxPerUid
  BY <1>b, PermitSteps, Zenon DEF PermitInv, PermitsExact, PermitsOf
<1>1. CASE permits' \subseteq permits
  <2>1. /\ IsFiniteSet(permits') /\ Cardinality(permits') <= Cardinality(permits)
        /\ Cardinality(permits') \in Nat
    BY <1>1, <1>b, FS_Subset, FS_CardinalityType, Zenon
  <2>2. ASSUME NEW u \in Users \cup {Root} PROVE Cardinality(OfNext(u)) <= MaxPerUid
    <3>1. OfNext(u) \in SUBSET Of(u)
      BY <1>1, <1>e, Zenon
    <3>2. Cardinality(OfNext(u)) <= Cardinality(Of(u)) /\ Cardinality(OfNext(u)) \in Nat
      <4> HIDE DEF Of, OfNext
      <4> QED BY <3>1, <1>c, FS_Subset, FS_CardinalityType, Zenon
    <3> HIDE DEF Of, OfNext
    <3> QED BY <3>2, <1>a, <1>c, <1>d
  <2> QED BY <2>1, <2>2, <1>a, <1>b
<1>2. ASSUME NEW c \in Conns, pc[c] = "backlog", try_acquire(c), permits' = permits \cup {c}
      PROVE  /\ IsFiniteSet(permits') /\ Cardinality(permits') <= MaxActive
             /\ \A u \in Users \cup {Root} : Cardinality(OfNext(u)) <= MaxPerUid
  <2>1. Cardinality(permits) < MaxActive /\ Cardinality(Of(req[c].peer)) < MaxPerUid
    BY <1>2, Zenon DEF try_acquire, PermitsOf
  <2>2. IsFiniteSet(permits') /\ Cardinality(permits') <= MaxActive
    <3>1. AtMostOneMore(permits, c)
      BY <1>b, AddOne, Zenon
    <3> QED BY <1>2, <1>a, <1>b, <2>1, <3>1 DEF AtMostOneMore
  <2>3. req'[c].peer = req[c].peer
    BY <1>2, PeersFixed, Zenon
  <2>4. ASSUME NEW u \in Users \cup {Root} PROVE Cardinality(OfNext(u)) <= MaxPerUid
    <3>1. CASE u = req[c].peer
      <4>1. OfNext(u) = Of(u) \cup {c}
        BY <1>2, <1>e, <2>3, <3>1, Zenon
      <4> HIDE DEF Of, OfNext
      <4>2. AtMostOneMore(Of(u), c)
        BY <1>c, AddOne, Zenon
      <4>3. Cardinality(Of(u)) \in Nat
        BY <1>c, Zenon
      <4> QED BY <4>1, <4>2, <4>3, <3>1, <2>1, <1>a DEF AtMostOneMore
    <3>2. CASE u # req[c].peer
      <4>1. OfNext(u) = Of(u)
        BY <1>2, <1>e, <2>3, <3>2, Zenon
      <4> HIDE DEF Of, OfNext
      <4> QED BY <4>1, <1>d, Zenon
    <3> QED BY <3>1, <3>2, Zenon
  <2> QED BY <2>2, <2>4, Zenon
<1> QED BY <1>1, <1>2, <1>b, PermitSteps, Zenon

LEMMA PermitsThroughout == Spec => [](TypeOK /\ PermitInv)
<1>1. Init => TypeOK /\ PermitInv
  BY InitTypeOK, InitPermitInv, Zenon
<1>2. TypeOK /\ PermitInv /\ [Next]_vars => (TypeOK /\ PermitInv)'
  BY NextTypeOK, NextPermitInv
<1> QED BY <1>1, <1>2, PTL DEF Spec

(* For any limits and any number of clients, permits are never leaked nor  *)
(* dropped early and the total and per-UID limits hold (IngressState).     *)
THEOREM Permits == Spec => []PermitsExact
<1>1. PermitInv => PermitsExact
  BY Zenon DEF PermitInv
<1> QED BY <1>1, PermitsThroughout, PTL

(* The bounded queue never refuses a job that has a permit, and a queued   *)
(* job always finds a thread (run_daemon_loop_until, worker_loop).         *)
THEOREM RoomForPermits == Spec => []QueueNeverFull
<1>1. TypeOK /\ PermitInv => QueueNeverFull
  <2> SUFFICES ASSUME TypeOK, PermitInv PROVE QueueNeverFull
    OBVIOUS
  <2>1. /\ IsFiniteSet(permits) /\ Cardinality(permits) \in Nat
        /\ Cardinality(permits) <= MaxActive /\ MaxActive \in Nat
        /\ permits = {c \in Conns : pc[c] \in InFlight}
    BY FS_CardinalityType, ConstantsAssumption, Zenon DEF PermitInv, PermitsExact
  <2>2. /\ Queued \in SUBSET permits /\ Busy \in SUBSET permits
        /\ \A c \in Queued : c \in permits /\ c \notin Busy
    BY <2>1, Zenon DEF Queued, Busy, InFlight, Handling, HoldsPolicy, Supervising
  <2>3. /\ Cardinality(Queued) <= Cardinality(permits) /\ Cardinality(Queued) \in Nat
        /\ Cardinality(Busy) <= Cardinality(permits) /\ Cardinality(Busy) \in Nat
        /\ Cardinality(Busy) = Cardinality(permits) => Busy = permits
    BY <2>1, <2>2, FS_Subset, FS_CardinalityType, Zenon
  <2>4. \A c \in Conns : try_acquire(c) => Cardinality(permits) < MaxActive
    BY Zenon DEF try_acquire
  <2>5. Queued # {} => Busy # permits
    BY <2>2, Zenon
  <2> QED BY <2>1, <2>3, <2>4, <2>5 DEF QueueNeverFull
<1> QED BY <1>1, PermitsThroughout, PTL

-----------------------------------------------------------------------------
(* The slot, its mutex and the worker processes.  Beyond SlotOwnsWorker:   *)
(* an attempt supervises the child in the slot, the accept loop holds the  *)
(* mutex only while it reaps, and no job is left once the loop has ended.  *)
SlotInv ==
    /\ SlotOwnsWorker
    /\ \A c \in Conns : pc[c] \in Supervising => slot = c
    /\ slotLock = Reaper => listener = "reaping"
    /\ listener = "reaping" => slotLock = Reaper
    /\ listener \in {"lastreap", "stopped"} => \A c \in Conns : pc[c] \notin InFlight

(* How far an attempt got, what that says of its worker, and that only a   *)
(* finished or abandoned attempt has a killed worker.                      *)
AttemptInv ==
    \A c \in Conns :
        /\ slot = c => pc[c] \in Supervising \cup {"respond", "closed"}
        /\ killed[c] => pc[c] \in {"respond", "closed"}
        /\ pc[c] \in HoldsPolicy \cup {"clear"} => req[c].kind = "auth"
        /\ pc[c] \in {"recheck", "clear"} => status[c] = "SUCCESS" /\ proc[c] = "reaped"
        /\ Granted(c) => proc[c] = "reaped" /\ ~killed[c]

(* The policy an attempt holds open is not the current one if the policy   *)
(* was replaced meanwhile.                                                 *)
PolicyInv ==
    \A c \in Conns :
        /\ pc[c] \in HoldsPolicy => snap[c] \in FileIds
        /\ pc[c] \in HoldsPolicy /\ changed[c] => snap[c] # policyFile
        /\ pc[c] \in {"out", "backlog", "queued", "reading", "dispatch", "clear"} => ~changed[c]
        /\ Granted(c) => ~changed[c]

-----------------------------------------------------------------------------
(* The names None and Reaper are not connections. *)
LEMMA SlotNames == None \notin Conns /\ Reaper \notin Conns /\ Reaper # None
  BY ConstantsAssumption, Zenon

LEMMA InitSlotInv == Init => SlotInv
  BY ConstantsAssumption DEF Init, SlotInv, SlotOwnsWorker, Alive, AliveStates, InFlight,
                             Handling, HoldsPolicy, Supervising

LEMMA NextSlotInv == TypeOK /\ SlotInv /\ [Next]_vars => SlotInv'
<1> SUFFICES ASSUME TypeOK, SlotInv, [Next]_vars PROVE SlotInv'
  OBVIOUS
<1> USE SlotNames
<1>a. /\ pc \in [Conns -> Points] /\ proc \in [Conns -> ProcStates]
      /\ slot \in Conns \cup {None} /\ slotLock \in Conns \cup {None, Reaper}
  BY Zenon DEF TypeOK
<1> USE <1>a DEF SlotInv, SlotOwnsWorker, Alive, AliveStates, Exited, Supervising, HoldsPolicy, Handling, InFlight
<1>1. CASE Tick
  BY <1>1, Zenon DEF Tick
<1>2. CASE ReplacePolicy
  BY <1>2, Zenon DEF ReplacePolicy
<1>3. CASE LoopStep
  <2>1. CASE ReapBegin
    BY <2>1, Zenon DEF ReapBegin
  <2>2. CASE ReapEnd
    BY <2>2, Zenon DEF ReapEnd, ReapSlot
  <2>3. CASE NothingToAccept
    BY <2>3, Zenon DEF NothingToAccept, LoopGoes
  <2>4. CASE Shutdown
    BY <2>4, Zenon DEF Shutdown, LoopGoes
  <2>5. CASE KillChild
    BY <2>5, Zenon DEF KillChild, LoopGoes
  <2>6. CASE LastReap
    BY <2>6, Zenon DEF LastReap, LoopGoes, ReapSlot
  <2>7. ASSUME NEW c \in Conns, Accept(c) PROVE SlotInv'
    BY <2>7, Zenon DEF Accept
  <2> QED BY <1>3, <2>1, <2>2, <2>3, <2>4, <2>5, <2>6, <2>7, Zenon DEF LoopStep
<1>4. ASSUME NEW c \in Conns, Connect(c) PROVE SlotInv'
  BY <1>4, Zenon DEF Connect
<1>5. ASSUME NEW c \in Conns, Disconnect(c) PROVE SlotInv'
  BY <1>5, Zenon DEF Disconnect
<1>6. ASSUME NEW c \in Conns, WorkerStep(c) PROVE SlotInv'
  BY <1>6, Zenon DEF WorkerStep, WorkerCheck, WorkerCapture, WorkerMatch, WorkerGarbles, WorkerExit, WorkerDies, Finish, ProcBecomes
<1>7. ASSUME NEW c \in Conns, ThreadStep(c) PROVE SlotInv'
  <2> USE DEF Goto, Answer
  <2>1. CASE Take(c)
    BY <2>1, Zenon DEF Take
  <2>2. CASE ReadFrame(c)
    BY <2>2, Zenon DEF ReadFrame
  <2>3. CASE ReadFails(c)
    BY <2>3, Zenon DEF ReadFails, Close
  <2>4. CASE DispatchQuery(c)
    BY <2>4, Zenon DEF DispatchQuery
  <2>5. CASE DispatchAuth(c)
    BY <2>5, Zenon DEF DispatchAuth
  <2>6. CASE ClaimBusy(c)
    BY <2>6, Zenon DEF ClaimBusy
  <2>7. CASE ClaimRefused(c)
    BY <2>7, Zenon DEF ClaimRefused, SlotFree, ReapSlot
  <2>8. CASE Spawn(c)
    BY <2>8, Zenon DEF Spawn, SlotFree
  <2>9. CASE Poll(c)
    BY <2>9 DEF Poll, KillAnd, EndSupervision, Continue, LoopFrame
  <2>10. CASE ReadNothing(c)
    BY <2>10, Zenon DEF ReadNothing, Continue, LoopFrame
  <2>11. CASE ReadWorker(c)
    BY <2>11 DEF ReadWorker, KillAnd, EndSupervision, Continue, LoopFrame
  <2>12. CASE Wait(c)
    BY <2>12, Zenon DEF Wait, EndSupervision, Continue, LoopFrame
  <2>13. CASE SuperviseFails(c)
    BY <2>13, Zenon DEF SuperviseFails, KillAnd, EndSupervision, LoopFrame
  <2>14. CASE Recheck(c)
    BY <2>14, Zenon DEF Recheck, LoopFrame
  <2>15. CASE Clear(c)
    BY <2>15, Zenon DEF Clear
  <2>16. CASE Respond(c)
    BY <2>16, Zenon DEF Respond, Close
  <2> QED BY <1>7, <2>1, <2>2, <2>3, <2>4, <2>5, <2>6, <2>7, <2>8, <2>9, Zenon,
             <2>10, <2>11, <2>12, <2>13, <2>14, <2>15, <2>16 DEF ThreadStep
<1>8. CASE UNCHANGED vars
  BY <1>8, Zenon DEF vars
<1> QED BY <1>1, <1>2, <1>3, <1>4, <1>5, <1>6, <1>7, <1>8, Zenon DEF Next

(* A step of a worker changes the process and what it wrote, no more. *)
LEMMA WorkerStepBecomes ==
  ASSUME NEW c \in Conns, WorkerStep(c)
  PROVE  \E s \in ProcStates \ {"none", "reaped"} : ProcBecomes(c, s)
<1>1. CASE WorkerCheck(c)
  BY <1>1, Zenon DEF WorkerCheck, Finish, ProcStates, AliveStates
<1>2. CASE WorkerCapture(c)
  BY <1>2, Zenon DEF WorkerCapture, Finish, ProcStates, AliveStates
<1>3. CASE WorkerMatch(c)
  BY <1>3, Zenon DEF WorkerMatch, Finish, ProcStates, AliveStates
<1>4. CASE WorkerGarbles(c)
  BY <1>4, Zenon DEF WorkerGarbles, Finish, ProcStates, AliveStates
<1>5. CASE WorkerExit(c)
  BY <1>5, Zenon DEF WorkerExit, ProcStates
<1>6. CASE WorkerDies(c)
  BY <1>6, Zenon DEF WorkerDies, ProcStates
<1> QED BY <1>1, <1>2, <1>3, <1>4, <1>5, <1>6, Zenon DEF WorkerStep

LEMMA InitAttemptInv == Init => AttemptInv
  BY SlotNames DEF Init, AttemptInv, Granted, HoldsPolicy, Supervising

LEMMA NextAttemptInv == TypeOK /\ SlotInv /\ AttemptInv /\ [Next]_vars => AttemptInv'
<1> SUFFICES ASSUME TypeOK, SlotInv, AttemptInv, [Next]_vars PROVE AttemptInv'
  OBVIOUS
<1> USE SlotNames
<1>a. /\ pc \in [Conns -> Points] /\ proc \in [Conns -> ProcStates]
      /\ req \in [Conns -> Requests \cup {None}] /\ status \in [Conns -> Status \cup {None}]
      /\ killed \in [Conns -> BOOLEAN] /\ slot \in Conns \cup {None}
  BY Zenon DEF TypeOK
<1> USE <1>a DEF SlotInv, SlotOwnsWorker, AttemptInv, Granted, Alive, AliveStates, Exited,
               Supervising, HoldsPolicy, Handling, InFlight
<1>1. CASE Tick
  BY <1>1, Zenon DEF Tick
<1>2. CASE ReplacePolicy
  BY <1>2, Zenon DEF ReplacePolicy
<1>3. CASE LoopStep
  <2>1. CASE ReapBegin
    BY <2>1, Zenon DEF ReapBegin
  <2>2. CASE ReapEnd
    BY <2>2 DEF ReapEnd, ReapSlot
  <2>3. CASE NothingToAccept
    BY <2>3, Zenon DEF NothingToAccept, LoopGoes
  <2>4. CASE Shutdown
    BY <2>4, Zenon DEF Shutdown, LoopGoes
  <2>5. CASE KillChild
    BY <2>5, Zenon DEF KillChild, LoopGoes
  <2>6. CASE LastReap
    <3>1. UNCHANGED <<pc, req, status, killed>> /\ ReapSlot
      BY <2>6, Zenon DEF LastReap, LoopGoes
    <3>2. slot' \in {slot, None} /\ \A d \in Conns : proc'[d] \in {proc[d], "reaped"}
      BY <3>1, Zenon DEF ReapSlot
    <3> HIDE DEF SlotInv
    <3> QED BY <3>1, <3>2, Zenon
  <2>7. ASSUME NEW c \in Conns, Accept(c) PROVE AttemptInv'
    BY <2>7 DEF Accept
  <2> QED BY <1>3, <2>1, <2>2, <2>3, <2>4, <2>5, <2>6, <2>7, Zenon DEF LoopStep
<1>4. ASSUME NEW c \in Conns, Connect(c) PROVE AttemptInv'
  BY <1>4 DEF Connect
<1>5. ASSUME NEW c \in Conns, Disconnect(c) PROVE AttemptInv'
  BY <1>5, Zenon DEF Disconnect
<1>6. ASSUME NEW c \in Conns, WorkerStep(c) PROVE AttemptInv'
  <2>1. Alive(c)
    BY <1>6, Zenon DEF WorkerStep, WorkerCheck, WorkerCapture, WorkerMatch, WorkerGarbles,
              WorkerExit, WorkerDies
  <2>2. UNCHANGED <<slot, pc, req, status, killed>> /\ \A d \in Conns \ {c} : proc'[d] = proc[d]
    <3>1. PICK s \in ProcStates : ProcBecomes(c, s)
      BY <1>6, WorkerStepBecomes, Zenon
    <3> QED BY <3>1, Zenon DEF ProcBecomes
  <2>3. proc[c] # "reaped"
    BY <2>1, Zenon
  <2> HIDE DEF SlotInv
  <2> QED BY <2>2, <2>3, Zenon
<1>7. ASSUME NEW c \in Conns, ThreadStep(c) PROVE AttemptInv'
  <2> USE DEF Goto, Answer
  <2>1. CASE Take(c)
    BY <2>1, Zenon DEF Take
  <2>2. CASE ReadFrame(c)
    BY <2>2 DEF ReadFrame
  <2>3. CASE ReadFails(c)
    BY <2>3, Zenon DEF ReadFails, Close
  <2>4. CASE DispatchQuery(c)
    BY <2>4 DEF DispatchQuery
  <2>5. CASE DispatchAuth(c)
    BY <2>5 DEF DispatchAuth
  <2>6. CASE ClaimBusy(c)
    BY <2>6, Zenon DEF ClaimBusy
  <2>7. CASE ClaimRefused(c)
    BY <2>7 DEF ClaimRefused, SlotFree, ReapSlot
  <2>8. CASE Spawn(c)
    BY <2>8, Zenon DEF Spawn, SlotFree
  <2>9. CASE Poll(c)
    BY <2>9 DEF Poll, KillAnd, EndSupervision, Continue, LoopFrame
  <2>10. CASE ReadNothing(c)
    BY <2>10, Zenon DEF ReadNothing, Continue, LoopFrame
  <2>11. CASE ReadWorker(c)
    BY <2>11 DEF ReadWorker, KillAnd, EndSupervision, Continue, LoopFrame, WorkerStatus
  <2>12. CASE Wait(c)
    BY <2>12 DEF Wait, EndSupervision, Continue, LoopFrame, ExitStatus
  <2>13. CASE SuperviseFails(c)
    BY <2>13, Zenon DEF SuperviseFails, KillAnd, EndSupervision, LoopFrame
  <2>14. CASE Recheck(c)
    BY <2>14 DEF Recheck, LoopFrame
  <2>15. CASE Clear(c)
    BY <2>15, Zenon DEF Clear
  <2>16. CASE Respond(c)
    BY <2>16, Zenon DEF Respond, Close
  <2> QED BY <1>7, <2>1, <2>2, <2>3, <2>4, <2>5, <2>6, <2>7, <2>8, <2>9, Zenon,
             <2>10, <2>11, <2>12, <2>13, <2>14, <2>15, <2>16 DEF ThreadStep
<1>8. CASE UNCHANGED vars
  BY <1>8, Zenon DEF vars
<1> QED BY <1>1, <1>2, <1>3, <1>4, <1>5, <1>6, <1>7, <1>8, Zenon DEF Next

LEMMA InitPolicyInv == Init => PolicyInv
  BY Zenon DEF Init, PolicyInv, Granted, HoldsPolicy, Supervising

(* What PolicyInv says of one connection. *)
PolicyOf(c) ==
    /\ pc[c] \in HoldsPolicy => snap[c] \in FileIds
    /\ pc[c] \in HoldsPolicy /\ changed[c] => snap[c] # policyFile
    /\ pc[c] \in {"out", "backlog", "queued", "reading", "dispatch", "clear"} => ~changed[c]
    /\ Granted(c) => ~changed[c]

(* What a step leaves of the state that PolicyInv reads of d. *)
PolicyKept(d) ==
    /\ pc'[d] = pc[d] /\ req'[d] = req[d] /\ snap'[d] = snap[d]
    /\ status'[d] = status[d] /\ changed'[d] = changed[d]

LEMMA PolicyOfAll == PolicyInv <=> \A c \in Conns : PolicyOf(c)
  BY Zenon DEF PolicyInv, PolicyOf

LEMMA PolicyOfAllNext == PolicyInv' <=> \A c \in Conns : PolicyOf(c)'
  BY Zenon DEF PolicyInv, PolicyOf

LEMMA PolicyOfKept ==
  ASSUME NEW d \in Conns, PolicyOf(d), PolicyKept(d), policyFile' = policyFile
  PROVE  PolicyOf(d)'
<1>1. Granted(d)' => Granted(d)
  BY Zenon DEF Granted, PolicyKept
<1> QED BY <1>1, Zenon DEF PolicyOf, PolicyKept

(* A step of connection c alone. *)
LEMMA PolicyStep ==
  ASSUME PolicyInv, policyFile' = policyFile, NEW c \in Conns, PolicyOf(c)',
         \A d \in Conns \ {c} : PolicyKept(d)
  PROVE  PolicyInv'
<1>1. ASSUME NEW d \in Conns PROVE PolicyOf(d)'
  <2>1. CASE d = c
    BY <2>1, Zenon
  <2>2. CASE d # c
    <3>1. PolicyOf(d) /\ PolicyKept(d)
      BY <2>2, PolicyOfAll, Zenon
    <3> QED BY <3>1, PolicyOfKept, Zenon
  <2> QED BY <2>1, <2>2, Zenon
<1> QED BY <1>1, PolicyOfAllNext, Zenon

(* A step that leaves all of it alone. *)
LEMMA PolicyFrame ==
  ASSUME PolicyInv, UNCHANGED <<pc, req, snap, status, policyFile, changed>>
  PROVE  PolicyInv'
<1>1. ASSUME NEW d \in Conns PROVE PolicyOf(d)'
  <2>1. PolicyOf(d) /\ PolicyKept(d)
    BY PolicyOfAll, Zenon DEF PolicyKept
  <2> QED BY <2>1, PolicyOfKept, Zenon
<1> QED BY <1>1, PolicyOfAllNext, Zenon

(* A connection that moves on, holding no policy before or after. *)
LEMMA PolicyMove ==
  ASSUME TypeOK, PolicyInv, NEW c \in Conns,
         pc[c] \in {"out", "backlog", "queued", "reading"},
         NEW to \in {"backlog", "queued", "reading", "dispatch", "closed"}, Goto(c, to),
         UNCHANGED <<snap, status, policyFile, changed>>, \A d \in Conns \ {c} : req'[d] = req[d]
  PROVE  PolicyInv'
<1>1. pc'[c] = to /\ \A d \in Conns \ {c} : pc'[d] = pc[d]
  BY Zenon DEF TypeOK, Goto
<1>2. \A d \in Conns \ {c} : PolicyKept(d)
  BY <1>1, Zenon DEF PolicyKept
<1>3. ~changed'[c]
  <2>1. PolicyOf(c)
    BY PolicyOfAll, Zenon
  <2> QED BY <2>1, Zenon DEF PolicyOf
<1>4. to \notin HoldsPolicy
  BY Zenon DEF HoldsPolicy, Supervising
<1>5. PolicyOf(c)'
  BY <1>1, <1>3, <1>4, Zenon DEF PolicyOf
<1> QED BY <1>2, <1>5, PolicyStep, Zenon

(* A connection whose policy stays as it is. *)
LEMMA PolicyContinue ==
  ASSUME TypeOK, PolicyInv, NEW c \in Conns, NEW to \in HoldsPolicy,
         pc[c] \in HoldsPolicy, Goto(c, to), \A d \in Conns \ {c} : status'[d] = status[d],
         UNCHANGED <<req, snap, policyFile, changed>>
  PROVE  PolicyInv'
<1>1. pc'[c] = to /\ \A d \in Conns \ {c} : pc'[d] = pc[d]
  BY Zenon DEF TypeOK, Goto
<1>2. \A d \in Conns \ {c} : PolicyKept(d)
  BY <1>1, Zenon DEF PolicyKept
<1>3. snap[c] \in FileIds /\ (changed[c] => snap[c] # policyFile)
  <2>1. PolicyOf(c)
    BY PolicyOfAll, Zenon
  <2> QED BY <2>1, Zenon DEF PolicyOf
<1>4. /\ to \notin {"out", "backlog", "queued", "reading", "dispatch", "clear"}
      /\ to \notin {"clear", "respond"}
  BY Zenon DEF HoldsPolicy, Supervising
<1>5. ~Granted(c)'
  BY <1>1, <1>4, Zenon DEF Granted
<1>6. PolicyOf(c)'
  BY <1>1, <1>3, <1>4, <1>5, Zenon DEF PolicyOf
<1> QED BY <1>2, <1>6, PolicyStep, Zenon

(* A dispatcher that answers, unless it is a grant. *)
LEMMA PolicyAnswer ==
  ASSUME TypeOK, PolicyInv, NEW c \in Conns, NEW s, Answer(c, s), s = "SUCCESS" => req[c].kind # "auth",
         UNCHANGED <<req, policyFile, changed>>
  PROVE  PolicyInv'
<1>1. pc'[c] = "respond" /\ \A d \in Conns \ {c} : pc'[d] = pc[d]
  BY Zenon DEF TypeOK, Answer, Goto
<1>2. status'[c] = s /\ \A d \in Conns \ {c} : status'[d] = status[d] /\ snap'[d] = snap[d]
  BY Zenon DEF TypeOK, Answer
<1>3. \A d \in Conns \ {c} : PolicyKept(d)
  BY <1>1, <1>2, Zenon DEF PolicyKept
<1>4. ~Granted(c)'
  BY <1>2, Zenon DEF Granted
<1>5. "respond" \notin HoldsPolicy
  BY Zenon DEF HoldsPolicy, Supervising
<1>6. PolicyOf(c)'
  BY <1>1, <1>4, <1>5, Zenon DEF PolicyOf
<1> QED BY <1>3, <1>6, PolicyStep, Zenon

(* The handler returns, and with it the attempt is over. *)
LEMMA PolicyClose ==
  ASSUME TypeOK, PolicyInv, NEW c \in Conns, Close(c)
  PROVE  PolicyInv'
<1>1. pc'[c] = "closed" /\ \A d \in Conns \ {c} : pc'[d] = pc[d]
  BY Zenon DEF TypeOK, Close, Goto
<1>2. /\ ~changed'[c]
      /\ \A d \in Conns \ {c} : status'[d] = status[d] /\ changed'[d] = changed[d]
  BY Zenon DEF TypeOK, Close
<1>3. UNCHANGED <<req, snap, policyFile>>
  BY Zenon DEF Close
<1>4. \A d \in Conns \ {c} : PolicyKept(d)
  BY <1>1, <1>2, <1>3, Zenon DEF PolicyKept
<1>5. "closed" \notin HoldsPolicy
  BY Zenon DEF HoldsPolicy, Supervising
<1>6. PolicyOf(c)'
  BY <1>1, <1>2, <1>5, Zenon DEF PolicyOf
<1> QED BY <1>3, <1>4, <1>6, PolicyStep, Zenon

LEMMA NextPolicyInv == TypeOK /\ AttemptInv /\ PolicyInv /\ [Next]_vars => PolicyInv'
<1> SUFFICES ASSUME TypeOK, AttemptInv, PolicyInv, [Next]_vars PROVE PolicyInv'
  OBVIOUS
<1>1. CASE Tick \/ UNCHANGED vars
  <2>1. UNCHANGED <<pc, req, snap, status, policyFile, changed>>
    BY <1>1, Zenon DEF Tick, vars
  <2> QED BY <2>1, PolicyFrame, Zenon
<1>2. CASE ReplacePolicy
  <2>1. ASSUME NEW d \in Conns PROVE PolicyOf(d)'
    <3>1. UNCHANGED <<pc, req, snap, status>> /\ (changed'[d] <=> changed[d] \/ pc[d] \in HoldsPolicy)
      BY <1>2, Zenon DEF ReplacePolicy
    <3>2. PolicyOf(d)
      BY PolicyOfAll, Zenon
    <3>3. CASE pc[d] \in HoldsPolicy
      <4>1. snap[d] \in FileIds
        BY <3>2, <3>3, Zenon DEF PolicyOf
      <4>2. policyFile' = NoFile \/ (policyFile' \in FileIds /\ Reusable(policyFile'))
        BY <1>2, Zenon DEF ReplacePolicy
      <4>3. NoFile \notin FileIds
        BY ConstantsAssumption, Zenon
      <4>4. snap[d] # policyFile'
        BY <3>3, <4>1, <4>2, <4>3, Zenon DEF Reusable
      <4>5. /\ pc[d] \notin {"out", "backlog", "queued", "reading", "dispatch", "clear"}
            /\ pc[d] \notin {"clear", "respond"}
        BY <3>3, Zenon DEF HoldsPolicy, Supervising
      <4>6. ~Granted(d)'
        BY <3>1, <4>5, Zenon DEF Granted
      <4> QED BY <3>1, <4>1, <4>4, <4>5, <4>6, Zenon DEF PolicyOf
    <3>4. CASE pc[d] \notin HoldsPolicy
      <4>1. Granted(d)' => Granted(d)
        BY <3>1, Zenon DEF Granted
      <4> QED BY <3>1, <3>2, <3>4, <4>1, Zenon DEF PolicyOf
    <3> QED BY <3>3, <3>4, Zenon
  <2> QED BY <2>1, PolicyOfAllNext, Zenon
<1>3. CASE LoopStep
  <2>1. CASE ReapBegin \/ ReapEnd \/ NothingToAccept \/ Shutdown \/ KillChild \/ LastReap
    <3>1. UNCHANGED <<pc, req, snap, status, policyFile, changed>>
      BY <2>1, Zenon DEF ReapBegin, ReapEnd, NothingToAccept, Shutdown, KillChild, LastReap,
                         LoopGoes
    <3> QED BY <3>1, PolicyFrame, Zenon
  <2>2. ASSUME NEW c \in Conns, Accept(c) PROVE PolicyInv'
    <3>1. pc[c] = "backlog" /\ (Goto(c, "queued") \/ Goto(c, "closed"))
      BY <2>2, Zenon DEF Accept, Goto
    <3>2. UNCHANGED <<req, snap, status, policyFile, changed>>
      BY <2>2, Zenon DEF Accept
    <3> QED BY <3>1, <3>2, PolicyMove, Zenon
  <2> QED BY <1>3, <2>1, <2>2, Zenon DEF LoopStep
<1>4. ASSUME NEW c \in Conns, Connect(c) PROVE PolicyInv'
  <2>1. pc[c] = "out" /\ Goto(c, "backlog")
    BY <1>4, Zenon DEF Connect, Goto
  <2>2. UNCHANGED <<snap, status, policyFile, changed>>
    BY <1>4, Zenon DEF Connect
  <2>3. \A d \in Conns \ {c} : req'[d] = req[d]
    BY <1>4, Zenon DEF Connect, TypeOK
  <2> QED BY <2>1, <2>2, <2>3, PolicyMove, Zenon
<1>5. ASSUME NEW c \in Conns, Disconnect(c) PROVE PolicyInv'
  <2>1. UNCHANGED <<pc, req, snap, status, policyFile, changed>>
    BY <1>5, Zenon DEF Disconnect
  <2> QED BY <2>1, PolicyFrame, Zenon
<1>6. ASSUME NEW c \in Conns, WorkerStep(c) PROVE PolicyInv'
  <2>1. \E s \in ProcStates : ProcBecomes(c, s)
    BY <1>6, WorkerStepBecomes, Zenon
  <2>2. UNCHANGED <<pc, req, snap, status, policyFile, changed>>
    BY <2>1, Zenon DEF ProcBecomes
  <2> QED BY <2>2, PolicyFrame, Zenon
<1>7. ASSUME NEW c \in Conns, ThreadStep(c) PROVE PolicyInv'
  <2>1. CASE Take(c)
    <3>1. pc[c] = "queued" /\ Goto(c, "reading") /\ UNCHANGED <<req, snap, status, policyFile, changed>>
      BY <2>1, Zenon DEF Take
    <3> QED BY <3>1, PolicyMove, Zenon
  <2>2. CASE ReadFrame(c)
    <3>1. pc[c] = "reading" /\ UNCHANGED <<req, policyFile, changed>>
      BY <2>2, Zenon DEF ReadFrame
    <3>2. Answer(c, "INTERNAL_ERROR") \/ (Goto(c, "dispatch") /\ UNCHANGED <<status, snap>>)
      BY <2>2, Zenon DEF ReadFrame
    <3> QED BY <3>1, <3>2, PolicyMove, PolicyAnswer, Zenon
  <2>3. CASE ReadFails(c) \/ Respond(c)
    <3>1. Close(c)
      BY <2>3, Zenon DEF ReadFails, Respond
    <3> QED BY <3>1, PolicyClose, Zenon
  <2>4. CASE DispatchQuery(c)
    <3>1. req[c].kind # "auth" /\ UNCHANGED <<req, policyFile, changed>>
      BY <2>4, Zenon DEF DispatchQuery
    <3>2. \E s : Answer(c, s)
      BY <2>4, Zenon DEF DispatchQuery
    <3> QED BY <3>1, <3>2, PolicyAnswer, Zenon
  <2>5. CASE DispatchAuth(c)
    <3>1. pc[c] = "dispatch" /\ UNCHANGED <<req, policyFile, changed>>
      BY <2>5, Zenon DEF DispatchAuth
    <3>2. CASE Answer(c, "ACCESS_DENIED")
      BY <3>1, <3>2, PolicyAnswer, Zenon
    <3>3. CASE /\ policyFile # NoFile /\ Goto(c, "claim") /\ status' = status
               /\ snap' = [snap EXCEPT ![c] = policyFile]
      <4>1. pc'[c] = "claim" /\ \A d \in Conns \ {c} : pc'[d] = pc[d]
        BY <3>3, Zenon DEF TypeOK, Goto
      <4>2. snap'[c] = policyFile /\ \A d \in Conns \ {c} : snap'[d] = snap[d]
        BY <3>3, Zenon DEF TypeOK
      <4>3. \A d \in Conns \ {c} : PolicyKept(d)
        BY <3>1, <3>3, <4>1, <4>2, Zenon DEF PolicyKept
      <4>4. policyFile \in FileIds
        BY <3>3, Zenon DEF TypeOK
      <4>5. ~changed'[c]
        <5>1. PolicyOf(c)
          BY PolicyOfAll, Zenon
        <5> QED BY <3>1, <5>1, Zenon DEF PolicyOf
      <4>6. PolicyOf(c)'
        BY <4>1, <4>2, <4>4, <4>5, Zenon DEF PolicyOf
      <4> QED BY <3>1, <4>3, <4>6, PolicyStep, Zenon
    <3> QED BY <2>5, <3>2, <3>3, Zenon DEF DispatchAuth, authentication_target_enabled
  <2>6. CASE ClaimBusy(c) \/ ClaimRefused(c)
    <3>1. UNCHANGED <<req, policyFile, changed>>
      BY <2>6, Zenon DEF ClaimBusy, ClaimRefused
    <3>2. \/ Answer(c, "DEVICE_BUSY") \/ Answer(c, "TIMEOUT") \/ Answer(c, "RATE_LIMITED")
          \/ Answer(c, "INTERNAL_ERROR")
      BY <2>6, Zenon DEF ClaimBusy, ClaimRefused
    <3> QED BY <3>1, <3>2, PolicyAnswer, Zenon
  <2>8. CASE Spawn(c)
    <3>1. pc[c] = "claim" /\ Goto(c, "poll") /\ UNCHANGED <<req, snap, status, policyFile, changed>>
      BY <2>8, Zenon DEF Spawn
    <3> QED BY <3>1, PolicyContinue, Zenon DEF HoldsPolicy, Supervising
  <2>k. ASSUME NEW s, KillAnd(c, s), s # "SUCCESS", LoopFrame PROVE PolicyInv'
    <3>1. Answer(c, s) /\ UNCHANGED <<req, policyFile, changed>>
      BY <2>k, Zenon DEF KillAnd, LoopFrame
    <3> QED BY <2>k, <3>1, PolicyAnswer, Zenon
  <2>c. ASSUME NEW to \in Supervising, Continue(c, to), pc[c] \in Supervising, LoopFrame,
               \A d \in Conns \ {c} : status'[d] = status[d]
        PROVE  PolicyInv'
    <3>1. Goto(c, to) /\ UNCHANGED <<req, snap, policyFile, changed>>
      BY <2>c, Zenon DEF Continue, LoopFrame
    <3>2. to \in HoldsPolicy /\ pc[c] \in HoldsPolicy
      BY <2>c, Zenon DEF HoldsPolicy
    <3> QED BY <2>c, <3>1, <3>2, PolicyContinue, Zenon
  <2>p. "poll" \in Supervising /\ "read" \in Supervising /\ "wait" \in Supervising
    BY Zenon DEF Supervising
  <2>9. CASE Poll(c)
    <3>1. pc[c] \in Supervising /\ LoopFrame
      BY <2>9, <2>p, Zenon DEF Poll
    <3>2. \/ KillAnd(c, "CANCELLED") \/ KillAnd(c, "TIMEOUT")
          \/ Continue(c, "read") /\ status' = status
      BY <2>9, Zenon DEF Poll
    <3> QED BY <2>c, <2>k, <2>p, <3>1, <3>2, Zenon
  <2>10. CASE ReadNothing(c)
    <3>1. pc[c] \in Supervising /\ LoopFrame /\ Continue(c, "wait") /\ status' = status
      BY <2>10, <2>p, Zenon DEF ReadNothing
    <3> QED BY <2>c, <2>p, <3>1, Zenon
  <2>11. CASE ReadWorker(c)
    <3>1. pc[c] \in Supervising /\ LoopFrame
      BY <2>11, <2>p, Zenon DEF ReadWorker
    <3>2. \/ KillAnd(c, "CANCELLED") \/ KillAnd(c, "INTERNAL_ERROR")
          \/ Continue(c, "read") /\ \/ status' = status
                                    \/ status' = [status EXCEPT ![c] = Head(pipe[c])]
      BY <2>11, Zenon DEF ReadWorker
    <3>3. Continue(c, "read") => \A d \in Conns \ {c} : status'[d] = status[d]
          \/ KillAnd(c, "CANCELLED") \/ KillAnd(c, "INTERNAL_ERROR")
      BY <3>2, Zenon DEF TypeOK
    <3> QED BY <2>c, <2>k, <2>p, <3>1, <3>2, <3>3, Zenon
  <2>12. CASE Wait(c)
    <3>1. pc[c] \in Supervising /\ LoopFrame
      BY <2>12, <2>p, Zenon DEF Wait
    <3>2. \/ Continue(c, "poll") /\ status' = status
          \/ Goto(c, "recheck") /\ UNCHANGED <<status, snap>>
          \/ ExitStatus(c) # "SUCCESS" /\ Answer(c, ExitStatus(c))
      BY <2>12, Zenon DEF Wait
    <3>3. UNCHANGED <<req, policyFile, changed>>
      BY <3>1, Zenon DEF LoopFrame
    <3>4. CASE Goto(c, "recheck") /\ UNCHANGED <<status, snap>>
      <4>1. pc[c] \in HoldsPolicy /\ "recheck" \in HoldsPolicy
        BY <3>1, Zenon DEF HoldsPolicy
      <4> QED BY <3>3, <3>4, <4>1, PolicyContinue, Zenon
    <3> QED BY <2>c, <2>p, <3>1, <3>2, <3>3, <3>4, PolicyAnswer, Zenon
  <2>13. CASE SuperviseFails(c)
    <3>1. KillAnd(c, "INTERNAL_ERROR") /\ LoopFrame
      BY <2>13, Zenon DEF SuperviseFails
    <3> QED BY <2>k, <3>1, Zenon
  <2>14. CASE Recheck(c)
    <3>1. pc[c] = "recheck" /\ UNCHANGED <<req, policyFile, changed>>
      BY <2>14, Zenon DEF Recheck, LoopFrame
    <3>2. CASE Answer(c, "ACCESS_DENIED")
      BY <3>1, <3>2, PolicyAnswer, Zenon
    <3>3. CASE /\ policyFile = snap[c] /\ Goto(c, "clear") /\ status' = status
               /\ snap' = [snap EXCEPT ![c] = NoFile]
      <4>1. pc'[c] = "clear" /\ \A d \in Conns \ {c} : pc'[d] = pc[d]
        BY <3>3, Zenon DEF TypeOK, Goto
      <4>2. \A d \in Conns \ {c} : snap'[d] = snap[d]
        BY <3>3, Zenon DEF TypeOK
      <4>3. \A d \in Conns \ {c} : PolicyKept(d)
        BY <3>1, <3>3, <4>1, <4>2, Zenon DEF PolicyKept
      <4>4. ~changed'[c]
        <5>1. PolicyOf(c) /\ pc[c] \in HoldsPolicy
          BY <3>1, PolicyOfAll, Zenon DEF HoldsPolicy
        <5> QED BY <3>1, <3>3, <5>1, Zenon DEF PolicyOf
      <4>5. "clear" \notin HoldsPolicy
        BY Zenon DEF HoldsPolicy, Supervising
      <4>6. PolicyOf(c)'
        BY <4>1, <4>4, <4>5, Zenon DEF PolicyOf
      <4> QED BY <3>1, <4>3, <4>6, PolicyStep, Zenon
    <3> QED BY <2>14, <3>2, <3>3, Zenon DEF Recheck
  <2>15. CASE Clear(c)
    <3>1. pc[c] = "clear" /\ Goto(c, "respond") /\ UNCHANGED <<req, snap, status, policyFile, changed>>
      BY <2>15, Zenon DEF Clear
    <3>2. pc'[c] = "respond" /\ \A d \in Conns \ {c} : pc'[d] = pc[d]
      BY <3>1, Zenon DEF TypeOK, Goto
    <3>3. \A d \in Conns \ {c} : PolicyKept(d)
      BY <3>1, <3>2, Zenon DEF PolicyKept
    <3>4. ~changed'[c]
      <4>1. PolicyOf(c)
        BY PolicyOfAll, Zenon
      <4> QED BY <3>1, <4>1, Zenon DEF PolicyOf
    <3>5. "respond" \notin HoldsPolicy
      BY Zenon DEF HoldsPolicy, Supervising
    <3>6. PolicyOf(c)'
      BY <3>2, <3>4, <3>5, Zenon DEF PolicyOf
    <3> QED BY <3>1, <3>3, <3>6, PolicyStep, Zenon
  <2> QED BY <1>7, <2>1, <2>2, <2>3, <2>4, <2>5, <2>6, <2>8, <2>9, <2>10, <2>11, <2>12, <2>13,
             <2>14, <2>15, Zenon DEF ThreadStep
<1> QED BY <1>1, <1>2, <1>3, <1>4, <1>5, <1>6, <1>7, Zenon DEF Next

-----------------------------------------------------------------------------
(* The inductive invariant holds throughout. *)
THEOREM Inductive == Spec => [](TypeOK /\ SlotInv /\ AttemptInv /\ PolicyInv)
<1>1. Init => TypeOK /\ SlotInv /\ AttemptInv /\ PolicyInv
  BY InitTypeOK, InitSlotInv, InitAttemptInv, InitPolicyInv, Zenon
<1>2. TypeOK /\ SlotInv /\ AttemptInv /\ PolicyInv /\ [Next]_vars
        => (TypeOK /\ SlotInv /\ AttemptInv /\ PolicyInv)'
  BY NextTypeOK, NextSlotInv, NextAttemptInv, NextPolicyInv
<1> QED BY <1>1, <1>2, PTL DEF Spec

(* For any number of clients, a live worker is the one registered in the   *)
(* slot, and an attempt holds the mutex exactly while it supervises.       *)
THEOREM SlotOwnership == Spec => []SlotOwnsWorker
<1>1. SlotInv => SlotOwnsWorker
  BY Zenon DEF SlotInv
<1> QED BY <1>1, Inductive, PTL

(* For any number of clients, no two workers use the camera at a time,     *)
(* including workers abandoned at their deadline (supervise_auth_worker).  *)
THEOREM NoOverlap == Spec => []SingleWorker
<1>1. SlotInv => SingleWorker
  BY Zenon DEF SlotInv, SlotOwnsWorker, SingleWorker
<1> QED BY <1>1, Inductive, PTL

(* However policy writers, clients and workers interleave, an attempt is   *)
(* accepted only under the policy file that it started with (same_file_as, *)
(* the descriptor kept in AuthPolicySnapshot, and the check that follows   *)
(* the worker's exit).                                                     *)
THEOREM OnePolicy == Spec => []GrantUnderOnePolicy
<1>1. PolicyInv => GrantUnderOnePolicy
  BY Zenon DEF PolicyInv, GrantUnderOnePolicy
<1> QED BY <1>1, Inductive, PTL

(* An attempt is accepted only on the verdict of a worker that exited by   *)
(* itself and was reaped: late results of killed workers are never used.   *)
THEOREM CleanWorker == Spec => []GrantByCleanWorker
<1>1. AttemptInv => GrantByCleanWorker
  BY Zenon DEF AttemptInv, GrantByCleanWorker
<1> QED BY <1>1, Inductive, PTL

-----------------------------------------------------------------------------
LEMMA NextStopKillsWorker == TypeOK /\ SlotInv /\ StopKillsWorker /\ [Next]_vars => StopKillsWorker'
<1> SUFFICES ASSUME TypeOK, SlotInv, StopKillsWorker, [Next]_vars PROVE StopKillsWorker'
  OBVIOUS
<1>a. /\ pc \in [Conns -> Points] /\ proc \in [Conns -> ProcStates]
      /\ killed \in [Conns -> BOOLEAN] /\ slot \in Conns \cup {None}
  BY Zenon DEF TypeOK
<1> USE <1>a DEF SlotInv, SlotOwnsWorker, StopKillsWorker, Alive, AliveStates, Exited,
               Supervising, HoldsPolicy, Handling, InFlight
<1>1. CASE Tick
  BY <1>1, Zenon DEF Tick
<1>2. CASE ReplacePolicy
  BY <1>2, Zenon DEF ReplacePolicy
<1>3. CASE LoopStep
  <2>1. CASE ReapBegin
    BY <2>1, Zenon DEF ReapBegin
  <2>2. CASE ReapEnd
    BY <2>2, Zenon DEF ReapEnd, ReapSlot
  <2>3. CASE NothingToAccept
    BY <2>3, Zenon DEF NothingToAccept, LoopGoes
  <2>4. CASE Shutdown
    BY <2>4, Zenon DEF Shutdown, LoopGoes
  <2>5. CASE KillChild
    BY <2>5, Zenon DEF KillChild, LoopGoes
  <2>6. CASE LastReap
    BY <2>6, Zenon DEF LastReap, LoopGoes, ReapSlot
  <2>7. ASSUME NEW c \in Conns, Accept(c) PROVE StopKillsWorker'
    BY <2>7, Zenon DEF Accept
  <2> QED BY <1>3, <2>1, <2>2, <2>3, <2>4, <2>5, <2>6, <2>7, Zenon DEF LoopStep
<1>4. ASSUME NEW c \in Conns, Connect(c) PROVE StopKillsWorker'
  BY <1>4, Zenon DEF Connect
<1>5. ASSUME NEW c \in Conns, Disconnect(c) PROVE StopKillsWorker'
  BY <1>5, Zenon DEF Disconnect
<1>6. ASSUME NEW c \in Conns, WorkerStep(c) PROVE StopKillsWorker'
  BY <1>6, Zenon DEF WorkerStep, WorkerCheck, WorkerCapture, WorkerMatch, WorkerGarbles,
              WorkerExit, WorkerDies, Finish, ProcBecomes
<1>7. ASSUME NEW c \in Conns, ThreadStep(c) PROVE StopKillsWorker'
  <2> USE DEF Goto, Answer
  <2>1. CASE Take(c)
    BY <2>1, Zenon DEF Take
  <2>2. CASE ReadFrame(c)
    BY <2>2, Zenon DEF ReadFrame
  <2>3. CASE ReadFails(c)
    BY <2>3, Zenon DEF ReadFails, Close
  <2>4. CASE DispatchQuery(c)
    BY <2>4, Zenon DEF DispatchQuery
  <2>5. CASE DispatchAuth(c)
    BY <2>5, Zenon DEF DispatchAuth
  <2>6. CASE ClaimBusy(c)
    BY <2>6, Zenon DEF ClaimBusy
  <2>7. CASE ClaimRefused(c)
    BY <2>7, Zenon DEF ClaimRefused, SlotFree, ReapSlot
  <2>8. CASE Spawn(c)
    BY <2>8, Zenon DEF Spawn, SlotFree
  <2>9. CASE Poll(c)
    BY <2>9, Zenon DEF Poll, KillAnd, EndSupervision, Continue, LoopFrame
  <2>10. CASE ReadNothing(c)
    BY <2>10, Zenon DEF ReadNothing, Continue, LoopFrame
  <2>11. CASE ReadWorker(c)
    BY <2>11, Zenon DEF ReadWorker, KillAnd, EndSupervision, Continue, LoopFrame
  <2>12. CASE Wait(c)
    BY <2>12, Zenon DEF Wait, EndSupervision, Continue, LoopFrame
  <2>13. CASE SuperviseFails(c)
    BY <2>13, Zenon DEF SuperviseFails, KillAnd, EndSupervision, LoopFrame
  <2>14. CASE Recheck(c)
    BY <2>14, Zenon DEF Recheck, LoopFrame
  <2>15. CASE Clear(c)
    BY <2>15, Zenon DEF Clear
  <2>16. CASE Respond(c)
    BY <2>16, Zenon DEF Respond, Close
  <2> QED BY <1>7, <2>1, <2>2, <2>3, <2>4, <2>5, <2>6, <2>7, <2>8, <2>9, Zenon,
             <2>10, <2>11, <2>12, <2>13, <2>14, <2>15, <2>16 DEF ThreadStep
<1>8. CASE UNCHANGED vars
  BY <1>8, Zenon DEF vars
<1> QED BY <1>1, <1>2, <1>3, <1>4, <1>5, <1>6, <1>7, <1>8, Zenon DEF Next

(* The daemon leaves no worker behind that was not sent SIGKILL. *)
THEOREM StopKills == Spec => []StopKillsWorker
<1>1. Init => StopKillsWorker
  BY Zenon DEF Init, StopKillsWorker
<1> QED BY <1>1, NextStopKillsWorker, Inductive, PTL DEF Spec

(* Only ClaimRefused, Spawn and Clear touch the limiter. *)
LEMMA LimiterSteps ==
  ASSUME [Next]_vars
  PROVE  \/ attempts' = attempts
         \/ \E c \in Conns : ClaimRefused(c) \/ Spawn(c) \/ Clear(c)
<1>1. CASE Tick \/ ReplacePolicy \/ UNCHANGED vars
  BY <1>1, Zenon DEF Tick, ReplacePolicy, vars
<1>2. CASE LoopStep
  BY <1>2, Zenon DEF LoopStep, ReapBegin, ReapEnd, NothingToAccept, Shutdown, KillChild, LastReap,
              Accept, LoopGoes
<1>3. ASSUME NEW c \in Conns, Connect(c) \/ Disconnect(c) \/ WorkerStep(c)
      PROVE  attempts' = attempts
  BY <1>3, Zenon DEF Connect, Disconnect, WorkerStep, WorkerCheck, WorkerCapture, WorkerMatch,
              WorkerGarbles, WorkerExit, WorkerDies, Finish, ProcBecomes
<1>4. ASSUME NEW c \in Conns, ThreadStep(c)
      PROVE  attempts' = attempts \/ ClaimRefused(c) \/ Spawn(c) \/ Clear(c)
  BY <1>4, Zenon DEF ThreadStep, Take, ReadFrame, ReadFails, Close, DispatchQuery, DispatchAuth,
              ClaimBusy, Poll, ReadNothing, ReadWorker, Wait, SuperviseFails, LoopFrame,
              Recheck, Respond
<1> QED BY <1>1, <1>2, <1>3, <1>4, Zenon DEF Next

LEMMA NextForgets == TypeOK /\ AttemptInv /\ [Next]_vars => ForgetsExpiredOrAccepted
<1> SUFFICES ASSUME TypeOK, AttemptInv, [Next]_vars PROVE ForgetsExpiredOrAccepted
  OBVIOUS
<1> USE DEF ForgetsExpiredOrAccepted
<1>1. \A u \in Users : \A a \in attempts[u] : a \in Recent(u) \/ clock - a.at >= Window
  <2> SUFFICES ASSUME NEW u \in Users, NEW a \in attempts[u]
               PROVE  a \in Recent(u) \/ clock - a.at >= Window
    OBVIOUS
  <2>1. a \in Attempt
    BY Zenon DEF TypeOK
  <2>2. a.at \in Nat /\ clock \in Nat /\ Window \in Nat
    BY <2>1, ConstantsAssumption, Zenon DEF TypeOK, Attempt
  <2> QED BY <2>2 DEF Recent
<1>2. ASSUME NEW c \in Conns, ClaimRefused(c) \/ Spawn(c) PROVE ForgetsExpiredOrAccepted
  <2>1. attempts' = attempts \/ attempts' = Retain \/ attempts' = Record(c)
    BY <1>2, Zenon DEF ClaimRefused, Spawn
  <2>2. \A u \in Users : Recent(u) \subseteq Retain[u] /\ Recent(u) \subseteq Record(c)[u]
    BY Zenon DEF Retain, Record
  <2> QED BY <1>1, <2>1, <2>2, Zenon
<1>3. ASSUME NEW c \in Conns, Clear(c) PROVE ForgetsExpiredOrAccepted
  <2>1. Granted(c) /\ pc'[c] # pc[c]
    BY <1>3, Zenon DEF Clear, AttemptInv, Granted, Goto, TypeOK
  <2>2. \A u \in Users : u # req[c].uid => attempts'[u] = attempts[u]
    BY <1>3, Zenon DEF Clear, TypeOK
  <2> QED BY <2>1, <2>2, Zenon
<1> QED BY <1>2, <1>3, LimiterSteps, Zenon

(* Failed, cancelled and discarded attempts stay counted for the whole     *)
(* window: only an accepted one clears its user's record (AuthRateLimiter).*)
THEOREM Forgiveness == Spec => ForgivenOnlyBySuccess
<1>1. TypeOK /\ AttemptInv /\ [Next]_vars => [ForgetsExpiredOrAccepted]_vars
  BY NextForgets
<1> QED BY <1>1, Inductive, PTL DEF Spec, ForgivenOnlyBySuccess

-----------------------------------------------------------------------------
(* AuthDaemon implements AuthService.                                      *)

(* Before its worker is spawned an attempt has neither a status nor        *)
(* anything to read.                                                       *)
FreshInv ==
    \A c \in Conns :
        pc[c] \in {"out", "backlog", "queued", "reading", "dispatch", "claim"}
            => status[c] = None /\ pipe[c] = <<>>

LEMMA InitFreshInv == Init => FreshInv
  BY DEF Init, FreshInv

(* Only a worker's output and the supervision of it change status or pipe  *)
(* of a connection that has not been answered.                             *)
LEMMA NextFreshInv == TypeOK /\ FreshInv /\ [Next]_vars => FreshInv'
<1> SUFFICES ASSUME TypeOK, FreshInv, [Next]_vars PROVE FreshInv'
  OBVIOUS
<1>a. /\ pc \in [Conns -> Points] /\ status \in [Conns -> Status \cup {None}]
      /\ pipe \in [Conns -> Streams]
  BY DEF TypeOK
<1> USE <1>a DEF FreshInv
<1>1. CASE Tick \/ ReplacePolicy \/ UNCHANGED vars
  BY <1>1 DEF Tick, ReplacePolicy, vars
<1>2. CASE LoopStep
  BY <1>2 DEF LoopStep, ReapBegin, ReapEnd, NothingToAccept, Shutdown, KillChild, LastReap,
              Accept, LoopGoes
<1>3. ASSUME NEW c \in Conns, Connect(c) \/ Disconnect(c) PROVE FreshInv'
  BY <1>3 DEF Connect, Disconnect
<1>4. ASSUME NEW c \in Conns, WorkerStep(c) PROVE FreshInv'
  <2>1. UNCHANGED <<pc, status>>
    BY <1>4 DEF WorkerStep, WorkerCheck, WorkerCapture, WorkerMatch, WorkerGarbles,
                WorkerExit, WorkerDies, Finish, ProcBecomes
  <2>2. pipe' = pipe \/ (pc[c] \in Supervising /\ \E f \in Frames : pipe' = [pipe EXCEPT ![c] = Append(@, f)])
    BY <1>4, TypeFacts DEF WorkerStep, WorkerCheck, WorkerCapture, WorkerMatch, WorkerGarbles,
                WorkerExit, WorkerDies, Finish, Write
  <2> QED BY <2>1, <2>2 DEF Supervising
<1>5. ASSUME NEW c \in Conns, ThreadStep(c) PROVE FreshInv'
  <2>1. CASE Take(c) \/ ReadFrame(c) \/ ReadFails(c) \/ DispatchQuery(c) \/ DispatchAuth(c) \/ ClaimBusy(c)
    BY <2>1 DEF Take, ReadFrame, ReadFails, Close, DispatchQuery, DispatchAuth, ClaimBusy, Goto, Answer
  <2>2. CASE ClaimRefused(c) \/ Spawn(c)
    BY <2>2 DEF ClaimRefused, Spawn, Goto, Answer
  <2>3. CASE Poll(c) \/ ReadNothing(c) \/ SuperviseFails(c)
    BY <2>3 DEF Poll, ReadNothing, SuperviseFails, KillAnd, EndSupervision, Continue, Goto, Answer
  <2>4. CASE ReadWorker(c)
    BY <2>4 DEF ReadWorker, KillAnd, EndSupervision, Continue, Goto, Answer
  <2>5. CASE Wait(c)
    BY <2>5 DEF Wait, EndSupervision, Continue, Goto, Answer
  <2>6. CASE Recheck(c) \/ Clear(c) \/ Respond(c)
    BY <2>6 DEF Recheck, Clear, Respond, Close, Goto, Answer
  <2> QED BY <1>5, <2>1, <2>2, <2>3, <2>4, <2>5, <2>6 DEF ThreadStep
<1> QED BY <1>1, <1>2, <1>3, <1>4, <1>5 DEF Next
-----------------------------------------------------------------------------
(* What the service sees of a connection. *)
Matched(c) ==
    /\ pc[c] \in HoldsPolicy
    /\ status[c] = "SUCCESS" \/ \E i \in DOMAIN pipe[c] : pipe[c][i] = "SUCCESS"
Valid(c) == pc[c] \in HoldsPolicy /\ ~changed[c]

LEMMA Mapped ==
    /\ \A c \in Conns : (c \in camera <=> Alive(c)) /\ (c \in matched <=> Matched(c)) /\ (c \in valid <=> Valid(c))
    /\ camera \subseteq Conns /\ matched \subseteq Conns /\ valid \subseteq Conns
  BY DEF camera, matched, valid, Matched, Valid

StageFacts(c) ==
    /\ pc[c] \in {"out", "backlog", "queued", "reading", "dispatch"} => stage[c] = "idle"
    /\ pc[c] \in HoldsPolicy => stage[c] = "trying"
    /\ Granted(c) => stage[c] = "granted"
    /\ pc[c] = "closed" => stage[c] = "done"
    /\ pc[c] = "respond" /\ ~Granted(c) => stage[c] = "refused"

LEMMA Stages == \A c \in Conns : StageFacts(c) /\ StageFacts(c)'
<1> SUFFICES ASSUME NEW c \in Conns PROVE StageFacts(c) /\ StageFacts(c)'
  OBVIOUS
<1>1. StageFacts(c)
  BY DEF StageFacts, stage, Granted, HoldsPolicy, Supervising
<1>2. StageFacts(c)'
  BY DEF StageFacts, stage, Granted, HoldsPolicy, Supervising
<1> QED BY <1>1, <1>2

(* A step that touches one connection changes the service's view of that   *)
(* connection only.                                                        *)
Confined(c) ==
    \A d \in Conns \ {c} :
        /\ pc'[d] = pc[d] /\ status'[d] = status[d] /\ req'[d] = req[d]
        /\ pipe'[d] = pipe[d] /\ changed'[d] = changed[d] /\ (Alive(d)' <=> Alive(d))

LEMMA OnlyOne ==
    ASSUME NEW c \in Conns, Confined(c)
    PROVE  /\ stage' = [stage EXCEPT ![c] = stage'[c]]
           /\ camera' = IF Alive(c)' THEN camera \cup {c} ELSE camera \ {c}
           /\ matched' = IF Matched(c)' THEN matched \cup {c} ELSE matched \ {c}
           /\ valid' = IF Valid(c)' THEN valid \cup {c} ELSE valid \ {c}
<1>1. \A d \in Conns \ {c} : stage'[d] = stage[d]
  BY DEF Confined, stage, Granted
<1>2. stage' = [stage EXCEPT ![c] = stage'[c]]
  <2>1. stage = [d \in Conns |-> stage[d]] /\ stage' = [d \in Conns |-> stage'[d]]
    BY DEF stage
  <2> QED BY <1>1, <2>1
<1>3. camera' = IF Alive(c)' THEN camera \cup {c} ELSE camera \ {c}
  BY DEF Confined, camera
<1>4. matched' = IF Matched(c)' THEN matched \cup {c} ELSE matched \ {c}
  BY DEF Confined, matched, Matched
<1>5. valid' = IF Valid(c)' THEN valid \cup {c} ELSE valid \ {c}
  BY DEF Confined, valid, Valid
<1> QED BY <1>2, <1>3, <1>4, <1>5

(* The steps of the service, in terms of the one connection they touch.    *)
Same(c) == (Alive(c)' <=> Alive(c)) /\ (Matched(c)' <=> Matched(c)) /\ (Valid(c)' <=> Valid(c))

LEMMA SeenStutter ==
    ASSUME NEW c \in Conns, Confined(c), stage'[c] = stage[c], Same(c)
    PROVE  UNCHANGED Service!vars
<1>1. stage = [d \in Conns |-> stage[d]]
  BY DEF stage
<1> QED BY <1>1, OnlyOne, Mapped DEF Same, Service!vars

LEMMA SeenBegin ==
    ASSUME NEW c \in Conns, Confined(c), stage[c] = "idle", stage'[c] = "trying",
           Alive(c)' <=> Alive(c), ~Matched(c), ~Matched(c)', Valid(c)'
    PROVE  Service!Next
<1>1. Service!Begin(c)
  BY OnlyOne, Mapped DEF Service!Begin
<1> QED BY <1>1 DEF Service!Next

LEMMA SeenStart ==
    ASSUME NEW c \in Conns, Confined(c), stage[c] = "trying", stage'[c] = "trying",
           \A d \in Conns : ~Alive(d), Alive(c)', Matched(c)' <=> Matched(c), Valid(c)' <=> Valid(c)
    PROVE  Service!Next
<1>1. camera = {} /\ stage = [d \in Conns |-> stage[d]]
  BY DEF camera, stage
<1>2. Service!StartWorker(c)
  BY <1>1, OnlyOne, Mapped DEF Service!StartWorker
<1> QED BY <1>2 DEF Service!Next

LEMMA SeenMatch ==
    ASSUME NEW c \in Conns, Confined(c), stage[c] = "trying", stage'[c] = "trying",
           Alive(c), Alive(c)', Matched(c)', Valid(c)' <=> Valid(c)
    PROVE  Service!Next
<1>1. stage = [d \in Conns |-> stage[d]]
  BY DEF stage
<1>2. Service!Match(c)
  BY <1>1, OnlyOne, Mapped DEF Service!Match
<1> QED BY <1>2 DEF Service!Next

LEMMA SeenStop ==
    ASSUME NEW c \in Conns, Confined(c), stage'[c] = stage[c],
           Alive(c), ~Alive(c)', Matched(c)' <=> Matched(c), Valid(c)' <=> Valid(c)
    PROVE  Service!Next
<1>1. stage = [d \in Conns |-> stage[d]]
  BY DEF stage
<1>2. Service!StopWorker(c)
  BY <1>1, OnlyOne, Mapped DEF Service!StopWorker
<1> QED BY <1>2 DEF Service!Next

LEMMA SeenGrant ==
    ASSUME NEW c \in Conns, Confined(c), stage[c] = "trying", stage'[c] = "granted",
           ~Alive(c), ~Alive(c)', Matched(c), ~Matched(c)', Valid(c), ~Valid(c)'
    PROVE  Service!Next
<1>1. Service!Grant(c)
  BY OnlyOne, Mapped DEF Service!Grant
<1> QED BY <1>1 DEF Service!Next

LEMMA SeenRefuse ==
    ASSUME NEW c \in Conns, Confined(c), stage[c] \in {"idle", "trying"}, stage'[c] = "refused",
           Alive(c)' <=> Alive(c), ~Matched(c)', ~Valid(c)'
    PROVE  Service!Next
<1>1. Service!Refuse(c)
  BY OnlyOne, Mapped DEF Service!Refuse
<1> QED BY <1>1 DEF Service!Next

LEMMA SeenEnd ==
    ASSUME NEW c \in Conns, Confined(c), stage[c] \in {"idle", "granted", "refused"}, stage'[c] = "done",
           Same(c)
    PROVE  Service!Next
<1>1. Service!End(c)
  BY OnlyOne, Mapped DEF Service!End, Same
<1> QED BY <1>1 DEF Service!Next
-----------------------------------------------------------------------------
ServiceInv == TypeOK /\ SlotInv /\ AttemptInv /\ PolicyInv /\ FreshInv

LEMMA ServiceInitial == Init => Service!Init
<1> SUFFICES ASSUME Init PROVE Service!Init
  OBVIOUS
<1>1. stage = [c \in Conns |-> "idle"]
  <2>1. \A c \in Conns : stage[c] = "idle"
    BY Stages DEF Init, StageFacts
  <2>2. stage = [c \in Conns |-> stage[c]]
    BY DEF stage
  <2> QED BY <2>1, <2>2
<1>2. \A c \in Conns : pc[c] \notin HoldsPolicy /\ ~Alive(c)
  BY DEF Init, Alive, AliveStates, HoldsPolicy, Supervising
<1>3. camera = {} /\ matched = {} /\ valid = {}
  BY <1>2 DEF camera, matched, valid
<1> QED BY <1>1, <1>3 DEF Service!Init

(* An attempt that is given up is refused, whatever its worker does. *)
LEMMA SeenAnswer ==
    ASSUME TypeOK, TypeOK', NEW c \in Conns, NEW s \in Status \ {"SUCCESS"}, Answer(c, s),
           pc[c] \in HoldsPolicy \cup {"reading", "dispatch"},
           req' = req, changed' = changed, \A d \in Conns \ {c} : pipe'[d] = pipe[d],
           \A d \in Conns : Alive(d)' <=> Alive(d)
    PROVE  Service!Next
<1>1. Confined(c)
  BY DEF Confined, Answer, Goto, TypeOK
<1>2. pc'[c] = "respond" /\ status'[c] = s
  BY DEF Answer, Goto, TypeOK
<1>3. stage[c] \in {"idle", "trying"}
  BY Stages DEF StageFacts
<1>4. stage'[c] = "refused"
  BY <1>2, Stages DEF StageFacts, Granted, HoldsPolicy, Supervising
<1>5. ~Matched(c)' /\ ~Valid(c)'
  BY <1>2 DEF Matched, Valid, HoldsPolicy, Supervising
<1> QED BY <1>1, <1>3, <1>4, <1>5, SeenRefuse

(* A worker step, by what it makes of the process and writes. *)
LEMMA SeenWorker ==
    ASSUME ServiceInv, TypeOK', NEW c \in Conns, NEW to \in AliveStates, NEW f \in Frames,
           Alive(c), ProcBecomes(c, to), pipe' = pipe \/ Write(c, f),
           f = "SUCCESS" => pipe' = pipe \/ pc[c] \in Supervising
    PROVE  Service!Next \/ UNCHANGED Service!vars
<1>1. /\ proc' = [proc EXCEPT ![c] = to] /\ UNCHANGED <<pc, status, req, changed>>
      /\ Alive(c)' /\ \A d \in Conns \ {c} : Alive(d)' <=> Alive(d)
  BY DEF ProcBecomes, ServiceInv, TypeOK, Alive
<1>2. /\ \A d \in Conns \ {c} : pipe'[d] = pipe[d]
      /\ pipe'[c] = pipe[c] \/ (pc[c] \in Supervising /\ pipe'[c] = Append(pipe[c], f))
  BY DEF Write, ServiceInv, TypeOK
<1>3. Confined(c)
  BY <1>1, <1>2 DEF Confined
<1>4. stage' = stage /\ (Valid(c)' <=> Valid(c))
  BY <1>1 DEF stage, Granted, Valid
<1>5. CASE pipe'[c] = pipe[c]
  BY <1>1, <1>3, <1>4, <1>5, SeenStutter DEF Same, Matched
<1>6. CASE pc[c] \in Supervising /\ pipe'[c] = Append(pipe[c], f)
  <2>1. pipe[c] \in Seq(Frames)
    BY DEF ServiceInv, TypeOK, Streams
  <2>2. DOMAIN pipe[c] = 1..Len(pipe[c]) /\ Len(pipe[c]) \in Nat
    BY <2>1, StreamDomain, Zenon
  <2>3. /\ DOMAIN pipe'[c] = 1..(Len(pipe[c]) + 1)
        /\ pipe'[c][Len(pipe[c]) + 1] = f
        /\ \A i \in 1..Len(pipe[c]) : pipe'[c][i] = pipe[c][i]
    BY <1>6, <2>1, <2>2
  <2>4. CASE f = "SUCCESS"
    <3>1. Matched(c)' /\ stage[c] = "trying"
      <4>1. pc[c] \in HoldsPolicy /\ pc'[c] \in HoldsPolicy
        BY <1>1, <1>6, Zenon DEF HoldsPolicy
      <4>2. Len(pipe[c]) + 1 \in DOMAIN pipe'[c]
        BY <2>2, <2>3
      <4>3. Matched(c)'
        BY <2>3, <2>4, <4>1, <4>2, Zenon DEF Matched
      <4>4. stage[c] = "trying"
        BY <4>1, Stages, Zenon DEF StageFacts
      <4> QED BY <4>3, <4>4
    <3> QED BY <1>1, <1>3, <1>4, <3>1, SeenMatch
  <2>5. CASE f # "SUCCESS"
    <3>1. (\E i \in DOMAIN pipe'[c] : pipe'[c][i] = "SUCCESS")
            <=> (\E i \in DOMAIN pipe[c] : pipe[c][i] = "SUCCESS")
      BY <2>2, <2>3, <2>5
    <3>2. Matched(c)' <=> Matched(c)
      BY <1>1, <3>1 DEF Matched
    <3> QED BY <1>1, <1>3, <1>4, <3>2, SeenStutter DEF Same
  <2> QED BY <2>4, <2>5
<1> QED BY <1>2, <1>5, <1>6

LEMMA SeenWorkerEnd ==
    ASSUME ServiceInv, NEW c \in Conns, Alive(c), pipe' = pipe,
           ProcBecomes(c, "exited_ok") \/ ProcBecomes(c, "exited_bad")
    PROVE  Service!Next
<1>1. /\ UNCHANGED <<pc, status, req, changed, pipe>>
      /\ ~Alive(c)' /\ \A d \in Conns \ {c} : Alive(d)' <=> Alive(d)
  BY DEF ProcBecomes, ServiceInv, TypeOK, Alive, AliveStates
<1>2. Confined(c)
  BY <1>1 DEF Confined
<1>3. stage' = stage /\ (Valid(c)' <=> Valid(c)) /\ (Matched(c)' <=> Matched(c))
  BY <1>1 DEF stage, Granted, Valid, Matched
<1> QED BY <1>1, <1>2, <1>3, SeenStop
LEMMA ServiceStep == ServiceInv /\ ServiceInv' /\ [Next]_vars => Service!Next \/ UNCHANGED Service!vars
<1> SUFFICES ASSUME ServiceInv, ServiceInv', [Next]_vars
             PROVE  Service!Next \/ UNCHANGED Service!vars
  OBVIOUS
<1>a. TypeOK /\ TypeOK' /\ SlotInv /\ AttemptInv /\ PolicyInv /\ FreshInv /\ FreshInv'
  BY DEF ServiceInv
<1>b. ASSUME UNCHANGED <<pc, status, req, pipe, changed>>, \A c \in Conns : Alive(c)' <=> Alive(c)
      PROVE  UNCHANGED Service!vars
  BY <1>b DEF Service!vars, stage, Granted, camera, matched, valid
<1>c. /\ pc \in [Conns -> Points] /\ proc \in [Conns -> ProcStates] /\ req \in [Conns -> Requests \cup {None}]
      /\ status \in [Conns -> Status \cup {None}] /\ pipe \in [Conns -> Streams]
      /\ changed \in [Conns -> BOOLEAN] /\ slot \in Conns \cup {None}
  BY <1>a DEF TypeOK
<1>d. "SUCCESS" # None
  BY ConstantsAssumption, TypeFacts
<1>e. ReapSlot => \A c \in Conns : Alive(c)' <=> Alive(c)
  BY <1>c DEF ReapSlot, Alive, AliveStates, Exited
<1>1. CASE Tick \/ UNCHANGED vars
  BY <1>1, <1>b DEF Tick, vars, Alive
<1>2. CASE ReplacePolicy
  <2>1. valid' = {}
    BY <1>2, <1>c DEF ReplacePolicy, valid
  <2>2. stage' = stage /\ camera' = camera /\ matched' = matched
    BY <1>2 DEF ReplacePolicy, stage, Granted, camera, Alive, matched
  <2> QED BY <2>1, <2>2 DEF Service!Next, Service!PolicyReplaced
<1>3. CASE ReapBegin \/ NothingToAccept \/ Shutdown \/ KillChild
  BY <1>3, <1>b DEF ReapBegin, NothingToAccept, Shutdown, KillChild, LoopGoes, Alive
<1>4. CASE ReapEnd \/ LastReap
  BY <1>4, <1>b, <1>e DEF ReapEnd, LastReap, LoopGoes
<1>5. ASSUME NEW c \in Conns, Accept(c) \/ Connect(c)
      PROVE  Service!Next \/ UNCHANGED Service!vars
  <2>1. Confined(c) /\ pc[c] \in {"out", "backlog"} /\ pc'[c] \in {"backlog", "queued", "closed"}
    BY <1>5, <1>c DEF Accept, Connect, Confined, Alive
  <2>2. Same(c)
    BY <1>5, <2>1 DEF Accept, Connect, Same, Alive, Matched, Valid, HoldsPolicy, Supervising
  <2>3. stage[c] = "idle" /\ stage'[c] \in {"idle", "done"}
    BY <2>1, Stages DEF StageFacts, Granted, HoldsPolicy, Supervising
  <2> QED BY <2>1, <2>2, <2>3, SeenEnd, SeenStutter
<1>6. ASSUME NEW c \in Conns, Disconnect(c)
      PROVE  UNCHANGED Service!vars
  BY <1>6, <1>b DEF Disconnect, Alive
<1>7. ASSUME NEW c \in Conns, WorkerStep(c)
      PROVE  Service!Next \/ UNCHANGED Service!vars
  <2>1. CASE WorkerExit(c) \/ WorkerDies(c)
    BY <2>1, SeenWorkerEnd DEF WorkerExit, WorkerDies, Alive, AliveStates
  <2>2. CASE WorkerCheck(c) \/ WorkerCapture(c) \/ WorkerMatch(c) \/ WorkerGarbles(c)
    <3>1. Alive(c)
      BY <2>2 DEF WorkerCheck, WorkerCapture, WorkerMatch, WorkerGarbles, Alive, AliveStates
    <3>2. \E to \in AliveStates, f \in Frames : ProcBecomes(c, to) /\ (pipe' = pipe \/ Write(c, f))
      BY <2>2, TypeFacts DEF WorkerCheck, WorkerCapture, WorkerMatch, WorkerGarbles, Finish, AliveStates
    <3>3. \A f \in Frames : Write(c, f) => pipe' = pipe \/ pc[c] \in Supervising
      BY DEF Write
    <3> QED BY <1>a, <3>1, <3>2, <3>3, SeenWorker
  <2> QED BY <1>7, <2>1, <2>2 DEF WorkerStep
<1>8. ASSUME NEW c \in Conns, ThreadStep(c)
      PROVE  Service!Next \/ UNCHANGED Service!vars
  <2> USE DEF Goto
  <2>0. ASSUME NEW s \in Status \ {"SUCCESS"}, KillAnd(c, s), LoopFrame, pc[c] \in HoldsPolicy
        PROVE  Service!Next
    BY <1>a, <1>c, <2>0, SeenAnswer DEF KillAnd, EndSupervision, LoopFrame, Alive
  <2>s. {"INTERNAL_ERROR", "ACCESS_DENIED", "DEVICE_BUSY", "TIMEOUT", "RATE_LIMITED", "CANCELLED"}
          \subseteq Status \ {"SUCCESS"}
    BY TypeFacts
  <2>1. CASE Take(c)
    <3>1. Confined(c) /\ Same(c)
      BY <1>c, <2>1 DEF Take, Confined, Same, Alive, Matched, Valid, HoldsPolicy, Supervising
    <3>2. stage[c] = "idle" /\ stage'[c] = "idle"
      BY <1>c, <2>1, Stages DEF Take, StageFacts
    <3> QED BY <3>1, <3>2, SeenStutter
  <2>2. CASE ReadFrame(c)
    <3>1. CASE Answer(c, "INTERNAL_ERROR")
      BY <1>a, <2>2, <2>s, <3>1, SeenAnswer DEF ReadFrame, Alive
    <3>2. CASE Goto(c, "dispatch") /\ UNCHANGED status
      <4>1. Confined(c) /\ Same(c)
        BY <1>c, <2>2, <3>2 DEF ReadFrame, Confined, Same, Alive, Matched, Valid, HoldsPolicy, Supervising
      <4>2. stage[c] = "idle" /\ stage'[c] = "idle"
        BY <1>c, <2>2, <3>2, Stages DEF ReadFrame, StageFacts
      <4> QED BY <4>1, <4>2, SeenStutter
    <3> QED BY <2>2, <3>1, <3>2 DEF ReadFrame
  <2>3. CASE ReadFails(c) \/ Respond(c)
    <3>1. pc[c] \in {"reading", "respond"} /\ pc'[c] = "closed" /\ Confined(c)
      BY <1>c, <2>3 DEF ReadFails, Respond, Close, Confined, Alive
    <3>2. Same(c)
      BY <2>3, <3>1 DEF ReadFails, Respond, Close, Same, Alive, Matched, Valid, HoldsPolicy, Supervising
    <3>3. stage[c] \in {"idle", "granted", "refused"} /\ stage'[c] = "done"
      BY <3>1, Stages DEF StageFacts, Granted, HoldsPolicy, Supervising
    <3> QED BY <3>1, <3>2, <3>3, SeenEnd
  <2>4. CASE DispatchQuery(c)
    <3>1. PICK s \in Status : Answer(c, s)
      BY <2>4, TypeFacts DEF DispatchQuery
    <3>2. req[c].kind # "auth" /\ pc[c] = "dispatch" /\ UNCHANGED <<req, pipe, changed, proc>>
      BY <2>4 DEF DispatchQuery
    <3>3. Confined(c) /\ pc'[c] = "respond"
      BY <1>c, <3>1, <3>2 DEF Answer, Confined, Alive
    <3>4. stage[c] = "idle" /\ stage'[c] = "refused"
      BY <3>2, <3>3, Stages DEF StageFacts, Granted, HoldsPolicy, Supervising
    <3>5. ~Matched(c)' /\ ~Valid(c)' /\ (Alive(c)' <=> Alive(c))
      BY <3>2, <3>3 DEF Matched, Valid, HoldsPolicy, Supervising, Alive
    <3> QED BY <3>3, <3>4, <3>5, SeenRefuse
  <2>5. CASE DispatchAuth(c)
    <3>1. CASE Answer(c, "ACCESS_DENIED")
      BY <1>a, <2>5, <2>s, <3>1, SeenAnswer DEF DispatchAuth, Alive
    <3>2. CASE Goto(c, "claim") /\ status' = status
      <4>1. pc[c] = "dispatch" /\ pc'[c] = "claim" /\ UNCHANGED <<req, pipe, changed, proc, status>>
        BY <1>c, <2>5, <3>2 DEF DispatchAuth
      <4>2. Confined(c)
        BY <1>c, <3>2, <4>1 DEF Confined, Alive
      <4>3. stage[c] = "idle" /\ stage'[c] = "trying"
        BY <4>1, Stages DEF StageFacts, HoldsPolicy
      <4>4. status[c] = None /\ pipe[c] = <<>> /\ ~changed[c]
        BY <1>a, <4>1 DEF FreshInv, PolicyInv
      <4>5. ~Matched(c) /\ ~Matched(c)' /\ Valid(c)' /\ (Alive(c)' <=> Alive(c))
        <5>1. pc[c] \notin HoldsPolicy /\ pc'[c] \in HoldsPolicy
          BY <4>1, Zenon DEF HoldsPolicy, Supervising
        <5>2. ~Matched(c)
          BY <4>1, <5>1, Zenon DEF Matched
        <5>3. ~Matched(c)'
          BY <1>d, <4>1, <4>4 DEF Matched
        <5>4. Valid(c)'
          BY <4>1, <4>4, <5>1, Zenon DEF Valid
        <5> QED BY <4>1, <5>2, <5>3, <5>4, Zenon DEF Alive
      <4> QED BY <4>2, <4>3, <4>5, SeenBegin
    <3> QED BY <2>5, <3>1, <3>2 DEF DispatchAuth
  <2>6. CASE ClaimBusy(c)
    BY <1>a, <2>6, <2>s, SeenAnswer DEF ClaimBusy, Alive, HoldsPolicy
  <2>7. CASE ClaimRefused(c)
    <3>1. \E s \in Status \ {"SUCCESS"} : Answer(c, s)
      BY <2>7, <2>s DEF ClaimRefused
    <3> QED BY <1>a, <1>e, <2>7, <3>1, SeenAnswer DEF ClaimRefused, HoldsPolicy
  <2>8. CASE Spawn(c)
    <3>1. \A d \in Conns : ~Alive(d)
      BY <1>a, <2>8, SlotNames DEF Spawn, SlotFree, SlotInv, SlotOwnsWorker, Alive, AliveStates, Exited
    <3>2. Alive(c)' /\ \A d \in Conns \ {c} : ~Alive(d)'
      BY <2>8, <3>1 DEF Spawn, Alive, AliveStates
    <3>3. pc[c] = "claim" /\ pc'[c] = "poll" /\ UNCHANGED <<req, pipe, changed, status>>
      BY <1>c, <2>8 DEF Spawn
    <3>4. Confined(c)
      BY <1>c, <2>8, <3>1, <3>2 DEF Spawn, Confined
    <3>5. stage[c] = "trying" /\ stage'[c] = "trying"
      BY <3>3, Stages DEF StageFacts, HoldsPolicy, Supervising
    <3>6. (Matched(c)' <=> Matched(c)) /\ (Valid(c)' <=> Valid(c))
      BY <3>3 DEF Matched, Valid, HoldsPolicy, Supervising
    <3> QED BY <3>1, <3>2, <3>4, <3>5, <3>6, SeenStart
  <2>c. ASSUME pc[c] \in Supervising, NEW to \in Supervising, Continue(c, to), UNCHANGED <<pipe, status>>, LoopFrame
        PROVE  UNCHANGED Service!vars
    <3>1. Confined(c) /\ pc'[c] = to
      BY <1>c, <2>c DEF Continue, LoopFrame, Confined, Alive
    <3>2. Same(c)
      BY <2>c, <3>1 DEF Continue, LoopFrame, Same, Alive, Matched, Valid, HoldsPolicy
    <3>3. stage[c] = "trying" /\ stage'[c] = "trying"
      BY <2>c, <3>1, Stages DEF StageFacts, HoldsPolicy, Supervising
    <3> QED BY <3>1, <3>2, <3>3, SeenStutter
  <2>9. CASE Poll(c)
    BY <2>0, <2>9, <2>c, <2>s DEF Poll, HoldsPolicy, Supervising
  <2>10. CASE ReadNothing(c)
    BY <2>10, <2>c DEF ReadNothing, Supervising
  <2>11. CASE ReadWorker(c)
    <3>1. CASE \E s \in {"CANCELLED", "INTERNAL_ERROR"} : KillAnd(c, s)
      BY <2>0, <2>11, <2>s, <3>1 DEF ReadWorker, HoldsPolicy, Supervising
    <3>2. CASE /\ Continue(c, "read") /\ pipe' = [pipe EXCEPT ![c] = Tail(@)] /\ status[c] = None
               /\ \/ Head(pipe[c]) = "progress" /\ status' = status
                  \/ Head(pipe[c]) \in WorkerStatus /\ status' = [status EXCEPT ![c] = Head(pipe[c])]
      <4>1. pc[c] = "read" /\ pc'[c] = "read" /\ UNCHANGED <<req, changed, proc>>
        BY <1>c, <2>11, <3>2 DEF ReadWorker, Continue, LoopFrame
      <4>2. Confined(c)
        BY <1>c, <3>2, <4>1 DEF Continue, Confined, Alive
      <4>3. stage[c] = "trying" /\ stage'[c] = "trying"
        BY <4>1, Stages DEF StageFacts, HoldsPolicy, Supervising
      <4>4. pipe[c] \in Seq(Frames) /\ pipe[c] # <<>> /\ pipe'[c] = Tail(pipe[c])
        BY <1>c, <2>11, <3>2 DEF ReadWorker, Streams
      <4>5. /\ DOMAIN pipe[c] = 1..Len(pipe[c]) /\ Len(pipe[c]) \in Nat \ {0} /\ Head(pipe[c]) = pipe[c][1]
            /\ DOMAIN pipe'[c] = 1..(Len(pipe[c]) - 1)
            /\ \A i \in 1..(Len(pipe[c]) - 1) : pipe'[c][i] = pipe[c][i + 1]
        BY <4>4
      <4>6. (\E i \in DOMAIN pipe[c] : pipe[c][i] = "SUCCESS")
              <=> Head(pipe[c]) = "SUCCESS" \/ \E i \in DOMAIN pipe'[c] : pipe'[c][i] = "SUCCESS"
        <5>1. \A i \in DOMAIN pipe[c] : i = 1 \/ (i - 1 \in DOMAIN pipe'[c] /\ pipe'[c][i - 1] = pipe[c][i])
          BY <4>5
        <5>2. \A i \in DOMAIN pipe'[c] : i + 1 \in DOMAIN pipe[c] /\ pipe'[c][i] = pipe[c][i + 1]
          BY <4>5
        <5>3. 1 \in DOMAIN pipe[c]
          BY <4>5
        <5>4. Head(pipe[c]) = pipe[c][1]
          BY <4>5, Zenon
        <5>5. ASSUME NEW i \in DOMAIN pipe[c], pipe[c][i] = "SUCCESS"
              PROVE  Head(pipe[c]) = "SUCCESS" \/ \E j \in DOMAIN pipe'[c] : pipe'[c][j] = "SUCCESS"
          <6>1. CASE i = 1
            BY <5>4, <5>5, <6>1, Zenon
          <6>2. CASE i - 1 \in DOMAIN pipe'[c] /\ pipe'[c][i - 1] = pipe[c][i]
            BY <5>5, <6>2, Zenon
          <6> QED BY <5>1, <6>1, <6>2, Zenon
        <5>6. ASSUME Head(pipe[c]) = "SUCCESS"
              PROVE  \E i \in DOMAIN pipe[c] : pipe[c][i] = "SUCCESS"
          BY <5>3, <5>4, <5>6, Zenon
        <5>7. ASSUME NEW j \in DOMAIN pipe'[c], pipe'[c][j] = "SUCCESS"
              PROVE  \E i \in DOMAIN pipe[c] : pipe[c][i] = "SUCCESS"
          <6>1. j + 1 \in DOMAIN pipe[c] /\ pipe[c][j + 1] = "SUCCESS"
            BY <5>2, <5>7, Zenon
          <6> QED BY <6>1, Zenon
        <5> QED BY <5>5, <5>6, <5>7, Zenon
      <4>7. status'[c] = "SUCCESS" <=> Head(pipe[c]) = "SUCCESS"
        <5>1. CASE Head(pipe[c]) = "progress" /\ status' = status
          <6>1. status'[c] = None /\ None # "SUCCESS"
            BY <1>d, <3>2, <5>1, Zenon
          <6> QED BY <5>1, <6>1
        <5>2. CASE status' = [status EXCEPT ![c] = Head(pipe[c])]
          BY <1>c, <5>2, Zenon
        <5> QED BY <3>2, <5>1, <5>2, Zenon
      <4>8. Same(c)
        BY <1>d, <3>2, <4>1, <4>6, <4>7 DEF Same, Alive, Matched, Valid, HoldsPolicy, Supervising
      <4> QED BY <4>2, <4>3, <4>8, SeenStutter
    <3> QED BY <2>11, <3>1, <3>2 DEF ReadWorker
  <2>12. CASE Wait(c)
    <3>1. CASE ~Exited(c)
      BY <2>12, <2>c, <3>1 DEF Wait, Supervising
    <3>2. CASE Exited(c)
      <4>1. /\ pc[c] = "wait" /\ UNCHANGED <<req, changed>> /\ proc' = [proc EXCEPT ![c] = "reaped"]
            /\ pipe' = [pipe EXCEPT ![c] = <<>>]
        BY <2>12, <3>2 DEF Wait, LoopFrame, EndSupervision
      <4>2. \A d \in Conns : Alive(d)' <=> Alive(d)
        BY <1>c, <3>2, <4>1 DEF Exited, Alive, AliveStates
      <4>3. CASE ExitStatus(c) = "SUCCESS"
        <5>1. pc' = [pc EXCEPT ![c] = "recheck"] /\ status' = status /\ status[c] = "SUCCESS"
          BY <2>12, <3>2, <4>3 DEF Wait, ExitStatus
        <5>2. Confined(c)
          BY <1>c, <4>1, <4>2, <5>1 DEF Confined
        <5>3. pc'[c] = "recheck"
          BY <1>c, <5>1
        <5>4. stage[c] = "trying" /\ stage'[c] = "trying"
          BY <4>1, <5>3, Stages DEF StageFacts, HoldsPolicy, Supervising
        <5>5. Same(c)
          BY <4>1, <4>2, <5>1, <5>3 DEF Same, Matched, Valid, HoldsPolicy, Supervising
        <5> QED BY <5>2, <5>4, <5>5, SeenStutter
      <4>4. CASE ExitStatus(c) # "SUCCESS"
        <5>1. ExitStatus(c) \in Status
          BY <1>c, TypeFacts DEF ExitStatus
        <5>2. Answer(c, ExitStatus(c))
          BY <2>12, <3>2, <4>4 DEF Wait
        <5>3. \A d \in Conns \ {c} : pipe'[d] = pipe[d]
          BY <1>c, <4>1
        <5> QED BY <1>a, <4>1, <4>2, <4>4, <5>1, <5>2, <5>3, SeenAnswer DEF HoldsPolicy, Supervising
      <4> QED BY <4>3, <4>4
    <3> QED BY <3>1, <3>2
  <2>13. CASE SuperviseFails(c)
    BY <2>0, <2>13, <2>s DEF SuperviseFails, HoldsPolicy, Supervising
  <2>14. CASE Recheck(c)
    <3>1. pc[c] = "recheck" /\ UNCHANGED <<req, changed, proc, pipe>>
      BY <2>14 DEF Recheck, LoopFrame
    <3>2. CASE Answer(c, "ACCESS_DENIED")
      BY <1>a, <2>s, <3>1, <3>2, SeenAnswer DEF Alive, HoldsPolicy
    <3>3. CASE policyFile = snap[c] /\ Goto(c, "clear") /\ status' = status
      <4>1. pc'[c] = "clear" /\ Confined(c)
        BY <1>c, <3>1, <3>3 DEF Confined, Alive
      <4>2. status[c] = "SUCCESS" /\ proc[c] = "reaped" /\ req[c].kind = "auth" /\ ~changed[c]
        BY <1>a, <1>c, <3>1, <3>3 DEF AttemptInv, PolicyInv, HoldsPolicy
      <4>3. stage[c] = "trying" /\ stage'[c] = "granted"
        BY <3>1, <3>3, <4>1, <4>2, Stages DEF StageFacts, Granted, HoldsPolicy, Supervising
      <4>4. ~Alive(c) /\ ~Alive(c)' /\ Matched(c) /\ ~Matched(c)' /\ Valid(c) /\ ~Valid(c)'
        BY <3>1, <4>1, <4>2 DEF Alive, AliveStates, Matched, Valid, HoldsPolicy, Supervising
      <4> QED BY <4>1, <4>3, <4>4, SeenGrant
    <3> QED BY <2>14, <3>2, <3>3 DEF Recheck
  <2>15. CASE Clear(c)
    <3>1. pc[c] = "clear" /\ pc'[c] = "respond" /\ Confined(c) /\ UNCHANGED <<req, status, proc>>
      BY <1>c, <2>15 DEF Clear, Confined, Alive
    <3>2. Same(c)
      BY <3>1 DEF Same, Alive, Matched, Valid, HoldsPolicy, Supervising
    <3>3. Granted(c) /\ Granted(c)'
      BY <1>a, <3>1 DEF AttemptInv, Granted
    <3>4. stage[c] = "granted" /\ stage'[c] = "granted"
      BY <3>1, <3>3, Stages DEF StageFacts, HoldsPolicy, Supervising
    <3> QED BY <3>1, <3>2, <3>4, SeenStutter
  <2> QED BY <1>8, <2>1, <2>2, <2>3, <2>4, <2>5, <2>6, <2>7, <2>8, <2>9, <2>10, <2>11,
             <2>12, <2>13, <2>14, <2>15 DEF ThreadStep
<1> QED BY <1>1, <1>2, <1>3, <1>4, <1>5, <1>6, <1>7, <1>8 DEF Next, LoopStep

(* For any number of connections and whatever fails, what clients see of   *)
(* the daemon is a behaviour of AuthService: one worker at a time, and an  *)
(* attempt granted only after its own worker matched and is gone, under    *)
(* the policy it began with (dispatch_request_until_with_client,           *)
(* supervise_auth_worker).                                                 *)
THEOREM ServiceRefinement == Spec => ImplementsService
<1>1. Init => ServiceInv
  BY InitTypeOK, InitSlotInv, InitAttemptInv, InitPolicyInv, InitFreshInv DEF ServiceInv
<1>2. ServiceInv /\ [Next]_vars => ServiceInv'
  BY NextTypeOK, NextSlotInv, NextAttemptInv, NextPolicyInv, NextFreshInv DEF ServiceInv
<1>3. ServiceInv /\ ServiceInv' /\ [Next]_vars => [Service!Next]_(Service!vars)
  BY ServiceStep
<1> QED BY <1>1, <1>2, <1>3, ServiceInitial, PTL DEF Spec, ImplementsService, Service!Spec
====
