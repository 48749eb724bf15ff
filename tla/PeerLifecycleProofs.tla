------------------------- MODULE PeerLifecycleProofs -------------------------
(***************************************************************************)
(* Proofs about PeerLifecycle for every set of sessions and identifiers:    *)
(* the inductive invariant, and from it the properties of the peer set that *)
(* the runs check on small instances, and the refinement of PeerRegistry;   *)
(* then the same for the handler within the process of Launcher, and that   *)
(* the process ends with nothing left.                                      *)
(***************************************************************************)
EXTENDS Launcher, TLAPS

USE DEF SessionPc, RegisteredPc, CountedPc, PeerCountedPc

(* The initial state satisfies the invariant: handler and peer set as       *)
(* newHandler makes them.                                                   *)
LEMMA InitInv == Init => LifecycleInv
BY LifecycleAssumption DEF Init, LifecycleInv, TypeOK, PeerSetOwned, ClosedDisconnects, Registered

-----------------------------------------------------------------------------
(* The steps that move no session and touch neither the peer set nor the    *)
(* WaitGroups of the sessions: the loops' and most of Stop's.               *)
LEMMA QuietStep ==
    ASSUME LifecycleInv, TypeOK',
           UNCHANGED <<peers, closed, pc, wg, peerWG>>,
           \A s \in Sessions : disc[s] => disc'[s],
           closed <=> stopPc' \in {"waitWg", "waitPeerWG", "stopped"},
           stopPc' \in {"waitPeerWG", "stopped"} =>
               \A i \in Ids : peers[i] = NoSession
    PROVE  LifecycleInv'
<1>1. PeerSetOwned'
  BY DEF LifecycleInv, PeerSetOwned
<1>2. ClosedDisconnects'
  BY DEF LifecycleInv, ClosedDisconnects, Registered
<1>3. QED
  BY <1>1, <1>2 DEF LifecycleInv

(* A step of a session that stays outside or inside the registered part.    *)
LEMMA SessionMoves ==
    ASSUME NEW s \in Sessions, NEW to \in SessionPc,
           LifecycleInv, TypeOK',
           pc' = [pc EXCEPT ![s] = to],
           pc[s] \in RegisteredPc <=> to \in RegisteredPc,
           UNCHANGED <<peers, closed, stopPc>>,
           \A r \in Sessions : peers[IdOf[r]] = r /\ disc[r] => disc'[r],
           \A r \in Sessions : r # s => (r \in wg' <=> r \in wg),
           \A r \in Sessions : r # s => (r \in peerWG' <=> r \in peerWG),
           s \in wg' <=> to \in CountedPc,
           s \in peerWG' <=> to \in PeerCountedPc
    PROVE  LifecycleInv'
<1>1. pc'[s] = to /\ \A r \in Sessions : r # s => pc'[r] = pc[r]
  BY DEF LifecycleInv, TypeOK
<1>2. PeerSetOwned'
  BY <1>1, LifecycleAssumption DEF LifecycleInv, PeerSetOwned
<1>3. ClosedDisconnects'
  BY DEF LifecycleInv, ClosedDisconnects, Registered
<1>4. \A r \in Sessions : /\ r \in wg' <=> pc'[r] \in CountedPc
                          /\ r \in peerWG' <=> pc'[r] \in PeerCountedPc
  BY <1>1 DEF LifecycleInv
<1>5. QED
  BY <1>2, <1>3, <1>4 DEF LifecycleInv

-----------------------------------------------------------------------------
(* Every step keeps the variables in their types.                           *)
LEMMA TypeStep == TypeOK /\ [Next]_vars => TypeOK'
<1> SUFFICES ASSUME TypeOK, [Next]_vars PROVE TypeOK'
  OBVIOUS
<1> USE LifecycleAssumption DEF TypeOK
<1>1. CASE Start
  BY <1>1 DEF Start, CountedLoops, setVars, sessionVars
<1>2. CASE Subscribe
  BY <1>2 DEF Subscribe, stopVars, setVars, sessionVars
<1>3. ASSUME NEW l \in Loops, LoopStep(l) PROVE TypeOK'
  <2>1. CASE LoopTick(l)
    BY <2>1 DEF LoopTick, Registered, stopVars, setVars, sessionVars
  <2>2. CASE LoopTickDone(l)
    BY <2>2 DEF LoopTickDone, stopVars, setVars, sessionVars
  <2>3. CASE LoopExit(l)
    BY <2>3 DEF LoopExit, stopVars, setVars, sessionVars
  <2>4. QED
    BY <1>3, <2>1, <2>2, <2>3 DEF LoopStep
<1>4. ASSUME NEW s \in Sessions, SessionStep(s) PROVE TypeOK'
  <2> USE DEF Go, loopVars, stopVars, setVars
  <2>1. CASE Accept(s) \/ RunStarted(s) \/ CheckQuit(s) \/ HandshakeOk(s) \/ CheckLimit(s)
    BY <2>1 DEF Accept, RunStarted, CheckQuit, HandshakeOk, CheckLimit
  <2>2. CASE Enter(s) \/ LeaveHandle(s) \/ LeaveRun(s)
    BY <2>2 DEF Enter, EnterCounted, LeaveHandle, LeaveRun
  <2>3. CASE Admit(s)
    <3>1. PICK b \in BOOLEAN : useless' = useless \/ useless' = [useless EXCEPT ![s] = b]
      <4>1. (~IsTrusted(s) /\ IsUseless(s)) \in BOOLEAN
        OBVIOUS
      <4>2. QED
        BY <2>3, <4>1 DEF Admit
    <3>2. useless' \in [Sessions -> BOOLEAN]
      BY <3>1
    <3>3. /\ pc' \in [Sessions -> SessionPc] /\ peerWG' \subseteq Sessions
          /\ UNCHANGED <<loopVars, stopVars, setVars, disc, wg, banned>>
      BY <2>3 DEF Admit
    <3>4. QED
      BY <3>2, <3>3
  <2>4. CASE HandshakeFail(s)
    BY <2>4 DEF HandshakeFail
  <2>5. CASE Register(s) \/ Remove(s)
    BY <2>5 DEF Register, Remove, RemoveEntry
  <2>6. CASE ServeError(s) \/ ServeDisconnected(s) \/ Unregister(s)
    BY <2>6 DEF ServeError, ServeDisconnected, Unregister
  <2>7. CASE ClosePeer(s)
    BY <2>7 DEF ClosePeer
  <2>8. QED
    BY <1>4, <2>1, <2>2, <2>3, <2>4, <2>5, <2>6, <2>7 DEF SessionStep, SessionGoesOn
<1>5. CASE StopStep
  BY <1>5 DEF StopStep, StopGoesOn, StopLoops, StopLoopsDown, StopClosePeers, StopWgDown,
              StopPeerWGDown, DisconnectAll, loopVars, setVars, sessionVars
<1>6. CASE UNCHANGED vars
  BY <1>6 DEF vars
<1>7. QED
  BY <1>1, <1>2, <1>3, <1>4, <1>5, <1>6 DEF Next

(* Every step keeps the invariant.  Only Register and Remove change the     *)
(* peer set, only StopClosePeers closes it.                                 *)
LEMMA StepInv == LifecycleInv /\ [Next]_vars => LifecycleInv'
<1> SUFFICES ASSUME LifecycleInv, [Next]_vars PROVE LifecycleInv'
  OBVIOUS
<1>0. TypeOK /\ TypeOK'
  BY TypeStep DEF LifecycleInv
<1>1. CASE Start
  BY <1>0, <1>1, QuietStep DEF Start, setVars, sessionVars, LifecycleInv
<1>2. CASE Subscribe
  BY <1>0, <1>2, QuietStep DEF Subscribe, stopVars, setVars, sessionVars, LifecycleInv
<1>3. ASSUME NEW l \in Loops, LoopStep(l) PROVE LifecycleInv'
  <2>1. UNCHANGED <<peers, closed, pc, wg, peerWG, stopPc>>
    BY <1>3 DEF LoopStep, LoopTick, LoopTickDone, LoopExit, stopVars, setVars, sessionVars
  <2>2. \A s \in Sessions : disc[s] => disc'[s]
    BY <1>0, <1>3 DEF LoopStep, LoopTick, LoopTickDone, LoopExit, TypeOK
  <2>3. QED
    BY <1>0, <2>1, <2>2, QuietStep DEF LifecycleInv
<1>4. ASSUME NEW s \in Sessions, SessionStep(s) PROVE LifecycleInv'
  <2> USE DEF Go, loopVars, stopVars, setVars
  <2>1. CASE Accept(s)
    BY <1>0, <2>1, SessionMoves DEF Accept, LifecycleInv
  <2>2. CASE RunStarted(s)
    BY <1>0, <2>2, SessionMoves DEF RunStarted, LifecycleInv
  <2>3. CASE CheckQuit(s)
    BY <1>0, <2>3, SessionMoves DEF CheckQuit, LifecycleInv
  <2>4. CASE Enter(s)
    BY <1>0, <2>4, SessionMoves DEF Enter, EnterCounted, LifecycleInv
  <2>5. CASE Admit(s)
    BY <1>0, <2>5, SessionMoves DEF Admit, LifecycleInv
  <2>6. CASE HandshakeOk(s)
    BY <1>0, <2>6, SessionMoves DEF HandshakeOk, LifecycleInv
  <2>7. CASE HandshakeFail(s)
    BY <1>0, <2>7, SessionMoves DEF HandshakeFail, LifecycleInv
  <2>8. CASE CheckLimit(s)
    BY <1>0, <2>8, SessionMoves DEF CheckLimit, LifecycleInv
  <2>9. CASE Register(s)
    <3>1. CASE CanRegister(s)
      <4>1. /\ pc[s] = "register" /\ pc' = [pc EXCEPT ![s] = "serving"]
            /\ peers[IdOf[s]] = NoSession /\ peers' = [peers EXCEPT ![IdOf[s]] = s]
            /\ ~closed
            /\ UNCHANGED <<closed, disc, wg, peerWG, stopPc>>
        BY <2>9, <3>1 DEF Register, CanRegister
      <4>2. PeerSetOwned'
        BY <1>0, <4>1, LifecycleAssumption DEF LifecycleInv, PeerSetOwned, TypeOK
      <4>3. ClosedDisconnects'
        BY <4>1 DEF ClosedDisconnects
      <4>4. QED
        BY <1>0, <4>1, <4>2, <4>3 DEF LifecycleInv, TypeOK
    <3>2. CASE ~CanRegister(s)
      BY <1>0, <2>9, <3>2, SessionMoves DEF Register, LifecycleInv
    <3>3. QED
      BY <3>1, <3>2
  <2>10. CASE ServeError(s) \/ ServeDisconnected(s)
    BY <1>0, <2>10, SessionMoves DEF ServeError, ServeDisconnected, LifecycleInv
  <2>11. CASE Unregister(s)
    <3>1. pc[s] = "unregister" /\ peers[IdOf[s]] = s /\ s # NoSession
      BY <2>11, LifecycleAssumption DEF Unregister, LifecycleInv, PeerSetOwned
    <3>2. QED
      BY <1>0, <2>11, <3>1, SessionMoves DEF Unregister, LifecycleInv
  <2>12. CASE Remove(s)
    <3>1. /\ pc[s] = "remove" /\ pc' = [pc EXCEPT ![s] = "leaveHandle"]
          /\ peers' = [peers EXCEPT ![IdOf[s]] = NoSession]
          /\ UNCHANGED <<closed, disc, wg, peerWG, stopPc>>
      BY <2>12 DEF Remove, RemoveEntry
    <3>2. PeerSetOwned'
      BY <1>0, <3>1, LifecycleAssumption DEF LifecycleInv, PeerSetOwned, TypeOK
    <3>3. ClosedDisconnects'
      BY <1>0, <3>1, LifecycleAssumption
      DEF LifecycleInv, ClosedDisconnects, Registered, TypeOK
    <3>4. QED
      BY <1>0, <3>1, <3>2, <3>3, LifecycleAssumption DEF LifecycleInv, TypeOK
  <2>13. CASE LeaveHandle(s)
    BY <1>0, <2>13, SessionMoves DEF LeaveHandle, LifecycleInv
  <2>14. CASE LeaveRun(s)
    BY <1>0, <2>14, SessionMoves DEF LeaveRun, LifecycleInv
  <2>15. CASE ClosePeer(s)
    <3>1. peers[IdOf[s]] # s
      BY <2>15, LifecycleAssumption DEF ClosePeer, LifecycleInv, PeerSetOwned
    <3>2. \A r \in Sessions : peers[IdOf[r]] = r /\ disc[r] => disc'[r]
      BY <1>0, <2>15, <3>1 DEF ClosePeer, TypeOK
    <3>3. QED
      BY <1>0, <2>15, <3>2, SessionMoves DEF ClosePeer, LifecycleInv
  <2>16. QED
    BY <1>4, <2>1, <2>2, <2>3, <2>4, <2>5, <2>6, <2>7, <2>8, <2>9, <2>10,
       <2>11, <2>12, <2>13, <2>14, <2>15 DEF SessionStep, SessionGoesOn
<1>5. CASE StopStep
  <2> USE DEF loopVars, setVars, sessionVars
  <2>1. CASE StopLoops \/ StopLoopsDown
    BY <1>0, <2>1, QuietStep DEF StopLoops, StopLoopsDown, LifecycleInv
  <2>2. CASE StopClosePeers
    <3>1. PeerSetOwned'
      BY <2>2 DEF StopClosePeers, LifecycleInv, PeerSetOwned
    <3>2. ClosedDisconnects'
      BY <2>2 DEF StopClosePeers, DisconnectAll, ClosedDisconnects, Registered
    <3>3. QED
      BY <1>0, <2>2, <3>1, <3>2 DEF StopClosePeers, LifecycleInv
  <2>3. CASE StopWgDown
    <3>1. \A s \in Sessions : pc[s] \notin RegisteredPc
      BY <2>3 DEF StopWgDown, LifecycleInv
    <3>2. \A i \in Ids : peers[i] = NoSession
      BY <1>0, <3>1 DEF LifecycleInv, PeerSetOwned, TypeOK
    <3>3. QED
      BY <1>0, <2>3, <3>2, QuietStep DEF StopWgDown, LifecycleInv
  <2>4. CASE StopPeerWGDown
    BY <1>0, <2>4, QuietStep DEF StopPeerWGDown, LifecycleInv
  <2>5. QED
    BY <1>5, <2>1, <2>2, <2>3, <2>4 DEF StopStep, StopGoesOn
<1>6. CASE UNCHANGED vars
  BY <1>0, <1>6, QuietStep DEF vars, LifecycleInv
<1>7. QED
  BY <1>1, <1>2, <1>3, <1>4, <1>5, <1>6 DEF Next

(* The invariant holds in every state of every behaviour.                   *)
THEOREM LifecycleInvariant == Spec => []LifecycleInv
BY InitInv, StepInv, PTL DEF Spec

-----------------------------------------------------------------------------
(* An entry of the peer set belongs to the session that registered it.      *)
THEOREM OwnershipHolds == Spec => []PeerSetOwned
<1>1. LifecycleInv => PeerSetOwned
  BY DEF LifecycleInv
<1>2. QED
  BY <1>1, LifecycleInvariant, PTL

(* After peerSet.Close every registered peer has been told to disconnect.   *)
THEOREM DisconnectionHolds == Spec => []ClosedDisconnects
<1>1. LifecycleInv => ClosedDisconnects
  BY DEF LifecycleInv
<1>2. QED
  BY <1>1, LifecycleInvariant, PTL

(* When Stop has returned nobody is registered.                             *)
THEOREM EmptinessHolds == Spec => []StoppedIsEmpty
<1>1. LifecycleInv => StoppedIsEmpty
  BY DEF LifecycleInv, StoppedIsEmpty
<1>2. QED
  BY <1>1, LifecycleInvariant, PTL

-----------------------------------------------------------------------------
(* The peer set implements PeerRegistry.                                    *)

(* Steps that leave the peer set, its gate and the end of Stop alone        *)
(* stutter.                                                                 *)
LEMMA Stutters ==
    ASSUME UNCHANGED <<peers, closed>>, stopPc' = "stopped" <=> stopPc = "stopped"
    PROVE  UNCHANGED Registry!regVars
BY DEF Registry!regVars

(* Every step maps to a step of the registry or to a stutter.               *)
LEMMA StepRefines ==
    LifecycleInv /\ [Next]_vars => [Registry!Next]_(Registry!regVars)
<1> SUFFICES ASSUME LifecycleInv, [Next]_vars
             PROVE  [Registry!Next]_(Registry!regVars)
  OBVIOUS
<1>0. TypeOK
  BY DEF LifecycleInv
<1>1. CASE Start \/ Subscribe
  BY <1>1, Stutters DEF Start, Subscribe, setVars, stopVars
<1>2. ASSUME NEW l \in Loops, LoopStep(l) PROVE UNCHANGED Registry!regVars
  BY <1>2, Stutters DEF LoopStep, LoopTick, LoopTickDone, LoopExit, setVars, stopVars
<1>3. ASSUME NEW s \in Sessions, SessionStep(s)
      PROVE  [Registry!Next]_(Registry!regVars)
  <2> USE DEF setVars, stopVars
  <2>1. CASE \/ Accept(s) \/ RunStarted(s) \/ CheckQuit(s) \/ Enter(s) \/ Admit(s)
             \/ HandshakeOk(s) \/ HandshakeFail(s) \/ CheckLimit(s)
    BY <2>1, Stutters DEF Accept, RunStarted, CheckQuit, Enter, Admit,
                          HandshakeOk, HandshakeFail, CheckLimit
  <2>2. CASE \/ ServeError(s) \/ ServeDisconnected(s) \/ Unregister(s)
             \/ LeaveHandle(s) \/ LeaveRun(s) \/ ClosePeer(s)
    BY <2>2, Stutters DEF ServeError, ServeDisconnected, Unregister,
                          LeaveHandle, LeaveRun, ClosePeer
  <2>3. CASE Register(s)
    <3>1. CASE CanRegister(s)
      <4>1. IdOf[s] \in Ids /\ s # NoSession
        BY LifecycleAssumption
      <4>2. /\ peers' = [peers EXCEPT ![IdOf[s]] = s]
            /\ ~closed /\ peers[IdOf[s]] = NoSession /\ UNCHANGED <<closed, stopPc>>
        BY <2>3, <3>1 DEF Register, CanRegister
      <4>3. stopPc # "stopped"
        BY <4>2 DEF LifecycleInv
      <4>4. {i \in Ids : peers'[i] # NoSession} =
              {i \in Ids : peers[i] # NoSession} \cup {IdOf[s]}
        BY <1>0, <4>1, <4>2 DEF TypeOK
      <4>5. Registry!Join(IdOf[s])
        BY <4>1, <4>2, <4>3, <4>4 DEF Registry!Join
      <4>6. QED
        BY <4>1, <4>5 DEF Registry!Next
    <3>2. CASE ~CanRegister(s)
      BY <2>3, <3>2, Stutters DEF Register
    <3>3. QED
      BY <3>1, <3>2
  <2>4. CASE Remove(s)
    <3>1. IdOf[s] \in Ids /\ s # NoSession
      BY LifecycleAssumption
    <3>2. /\ peers' = [peers EXCEPT ![IdOf[s]] = NoSession]
          /\ peers[IdOf[s]] = s /\ UNCHANGED <<closed, stopPc>>
      BY <2>4 DEF Remove, RemoveEntry, Go, LifecycleInv, PeerSetOwned
    <3>3. stopPc # "stopped"
      BY <3>1, <3>2 DEF LifecycleInv
    <3>4. {i \in Ids : peers'[i] # NoSession} =
            {i \in Ids : peers[i] # NoSession} \ {IdOf[s]}
      BY <1>0, <3>1, <3>2 DEF TypeOK
    <3>5. Registry!Leave(IdOf[s])
      BY <3>1, <3>2, <3>3, <3>4 DEF Registry!Leave
    <3>6. QED
      BY <3>1, <3>5 DEF Registry!Next
  <2>5. QED
    BY <1>3, <2>1, <2>2, <2>3, <2>4 DEF SessionStep, SessionGoesOn
<1>4. CASE StopStep
  <2>1. CASE StopLoops \/ StopLoopsDown \/ StopWgDown
    BY <2>1, Stutters DEF StopLoops, StopLoopsDown, StopWgDown, setVars
  <2>2. CASE StopClosePeers
    <3>1. Registry!Shut
      BY <2>2 DEF StopClosePeers, LifecycleInv, Registry!Shut
    <3>2. QED
      BY <3>1 DEF Registry!Next
  <2>3. CASE StopPeerWGDown
    <3>1. Registry!Terminate
      BY <2>3 DEF StopPeerWGDown, LifecycleInv, Registry!Terminate, setVars
    <3>2. QED
      BY <3>1 DEF Registry!Next
  <2>4. QED
    BY <1>4, <2>1, <2>2, <2>3 DEF StopStep, StopGoesOn
<1>5. CASE UNCHANGED vars
  BY <1>5, Stutters DEF vars
<1>6. QED
  BY <1>1, <1>2, <1>3, <1>4, <1>5 DEF Next

(* The peer set under all its goroutines implements the registry: no id     *)
(* joins twice, none joins after peerSet.Close, and Stop ends with an empty *)
(* set that stays empty.                                                    *)
THEOREM RegistryRefined == Spec => ImplementsRegistry
<1>1. Init => Registry!Init
  BY DEF Init, Registry!Init
<1>2. QED
  BY <1>1, StepRefines, LifecycleInvariant, PTL
  DEF Spec, ImplementsRegistry, Registry!Spec

-----------------------------------------------------------------------------
(* The handler within the process.                                          *)

(* What Start and Stop of the handler have done when they are through: all  *)
(* loops run and are counted, or were never started; a loop that is not     *)
(* counted does not run; none is counted after Stop has waited for them.    *)
LoopsInv ==
    /\ ~started => loopsWg = {} /\ stopPc = "idle" /\ \A l \in Loops : loops[l] = "off"
    /\ \A l \in Loops : loops[l] \notin {"off", "gone"} => l \in loopsWg
    /\ stopPc \notin {"idle", "waitLoops"} => loopsWg = {}

(* Who may be where: no session without a server, no shutdown without a     *)
(* signal, no end of the shutdown before Stop and the server are through,   *)
(* no end of the process but after a shutdown or before any Start; and the  *)
(* signal goroutine counts only while interrupts are left.                  *)
ProcessInv ==
    /\ server \in {"off", "down"} => \A s \in Sessions : pc[s] = "off"
    /\ main = "new" => server = "off"
    /\ main = "starting" => server = "on"
    /\ main \in {"new", "starting", "unwinding"} => ~started
    /\ main \in {"new", "starting", "unwinding", "announcing"} => sig = "none"
    /\ sig \in {"none", "select"} <=> stop = "none"
    /\ sig # "gone" => left # 0
    /\ stop \in {"server", "done"} => stopPc = "stopped"
    /\ stop = "done" => server = "down"
    /\ main = "returned" =>
        /\ server \in {"off", "down"}
        /\ stop = "done" \/ (sig = "none" /\ ~started)

LaunchInv == AppTypeOK /\ LifecycleInv /\ LoopsInv /\ ProcessInv

(* The disconnections of the p2p server when it stops: only disc changes,   *)
(* and nobody is connected again.                                           *)
LEMMA ServerStopsQuietly ==
    ASSUME LifecycleInv, StopServer
    PROVE  LifecycleInv' /\ UNCHANGED <<peers, closed, stopPc, started, loops, loopsWg, pc>>
<1>1. UNCHANGED <<loopVars, stopVars, setVars, sessionVars>>
  BY DEF StopServer
<1>2. disc' = [s \in Sessions |-> disc[s] \/ pc[s] # "off"]
  BY DEF StopServer
<1>3. TypeOK /\ disc \in [Sessions -> BOOLEAN]
  BY DEF LifecycleInv, TypeOK
<1>4. \A s \in Sessions : (disc[s] \/ pc[s] # "off") \in BOOLEAN
  OBVIOUS
<1>5. TypeOK'
  BY <1>1, <1>2, <1>3, <1>4 DEF TypeOK, loopVars, stopVars, setVars, sessionVars
<1>6. \A s \in Sessions : disc[s] => disc'[s]
  BY <1>2
<1>7. QED
  BY <1>1, <1>5, <1>6, QuietStep DEF loopVars, stopVars, setVars, sessionVars, LifecycleInv

(* A step of the process is a step of the handler, a step that leaves the   *)
(* handler alone, or the disconnections of the p2p server.                  *)
LEMMA LaunchStep == [LaunchNext]_allVars => [Next]_vars \/ StopServer
<1> SUFFICES ASSUME [LaunchNext]_allVars PROVE [Next]_vars \/ StopServer
  OBVIOUS
<1>1. CASE \/ StartServer \/ FailEndpoints \/ Announced \/ MainReturns
           \/ Signal \/ TakeSignal \/ CountInterrupt \/ ServerDown
  BY <1>1 DEF StartServer, FailEndpoints, Announced, MainReturns, Signal, TakeSignal,
              CountInterrupt, ServerDown
<1>2. CASE StartServices \/ StopServices
  BY <1>2 DEF StartServices, StopServices, Next, StopStep
<1>3. CASE StopServer
  BY <1>3
<1>4. ASSUME NEW s \in Sessions, AcceptPeer(s) PROVE Next
  BY <1>4 DEF AcceptPeer, Next, SessionStep
<1>5. CASE HandlerStep
  BY <1>5 DEF HandlerStep, Next, SessionStep, StopStep
<1>6. CASE UNCHANGED allVars
  BY <1>6 DEF allVars
<1>7. QED
  BY <1>1, <1>2, <1>3, <1>4, <1>5, <1>6 DEF LaunchNext

LEMMA InitLaunch == LaunchInit => LaunchInv
<1> SUFFICES ASSUME LaunchInit PROVE LaunchInv
  OBVIOUS
<1>1. LifecycleInv
  BY InitInv DEF LaunchInit
<1>2. AppTypeOK
  BY LauncherAssumption DEF LaunchInit, AppTypeOK
<1>3. LoopsInv
  BY DEF LaunchInit, Init, LoopsInv
<1>4. ProcessInv
  BY LauncherAssumption DEF LaunchInit, Init, ProcessInv
<1>5. QED
  BY <1>1, <1>2, <1>3, <1>4 DEF LaunchInv

LEMMA LoopsKeep == LifecycleInv /\ LoopsInv /\ [Next]_vars => LoopsInv'
<1> SUFFICES ASSUME LifecycleInv, LoopsInv, [Next]_vars PROVE LoopsInv'
  OBVIOUS
<1>0. TypeOK
  BY DEF LifecycleInv
<1>1. CASE Start
  BY <1>1 DEF Start, CountedLoops, LoopsInv
<1>2. CASE Subscribe
  BY <1>0, <1>2, LifecycleAssumption DEF Subscribe, LoopsInv, TypeOK, stopVars
<1>3. ASSUME NEW l \in Loops, LoopStep(l) PROVE LoopsInv'
  <2>1. UNCHANGED <<started, stopPc>> /\ started
    BY <1>3 DEF LoopStep, LoopTick, LoopTickDone, LoopExit, stopVars, LoopsInv
  <2>2. CASE LoopTick(l) \/ LoopTickDone(l)
    BY <1>0, <2>1, <2>2 DEF LoopTick, LoopTickDone, LoopsInv, TypeOK
  <2>3. CASE LoopExit(l)
    BY <1>0, <2>1, <2>3 DEF LoopExit, LoopsInv, TypeOK
  <2>4. QED
    BY <1>3, <2>2, <2>3 DEF LoopStep
<1>4. ASSUME NEW s \in Sessions, SessionStep(s)
      PROVE  UNCHANGED <<loops, loopsWg, started, stopPc>>
  BY <1>4 DEF SessionStep, SessionGoesOn, Accept, RunStarted, CheckQuit, Enter, Admit,
     HandshakeOk, HandshakeFail, CheckLimit, Register, ServeError, ServeDisconnected,
     Unregister, Remove, LeaveHandle, LeaveRun, ClosePeer, loopVars, stopVars
<1>5. CASE StopStep
  BY <1>5 DEF StopStep, StopGoesOn, StopLoops, StopLoopsDown, StopClosePeers, StopWgDown,
              StopPeerWGDown, loopVars, LoopsInv
<1>6. CASE UNCHANGED vars
  BY <1>6 DEF vars, LoopsInv
<1>7. QED
  BY <1>1, <1>2, <1>3, <1>4, <1>5, <1>6 DEF Next, LoopsInv

LEMMA AppTypeKeeps == AppTypeOK /\ ProcessInv /\ [LaunchNext]_allVars => AppTypeOK'
<1> SUFFICES ASSUME AppTypeOK, ProcessInv, [LaunchNext]_allVars PROVE AppTypeOK'
  OBVIOUS
<1> USE DEF AppTypeOK, Reach
<1>1. CASE StartServer \/ FailEndpoints \/ StartServices \/ Announced \/ MainReturns
  BY <1>1 DEF StartServer, FailEndpoints, StartServices, Announced, MainReturns
<1>2. CASE Signal \/ TakeSignal
  BY <1>2 DEF Signal, TakeSignal, StopNow
<1>3. CASE CountInterrupt
  <2>1. left' \in 0..Interrupts
    BY <1>3, LauncherAssumption DEF CountInterrupt, ProcessInv
  <2>2. QED
    BY <1>3, <2>1 DEF CountInterrupt
<1>4. CASE StopServices \/ StopServer \/ ServerDown
  BY <1>4 DEF StopServices, StopServer, ServerDown
<1>5. CASE HandlerStep \/ \E s \in Sessions : AcceptPeer(s)
  BY <1>5 DEF HandlerStep, AcceptPeer, appVars
<1>6. CASE UNCHANGED allVars
  BY <1>6 DEF allVars, appVars
<1>7. QED
  BY <1>1, <1>2, <1>3, <1>4, <1>5, <1>6 DEF LaunchNext

(* A session that is off does nothing until the server accepts a peer.      *)
LEMMA HandlerKeepsOff ==
    ASSUME TypeOK, HandlerStep
    PROVE  /\ UNCHANGED <<main, server, sig, sigc, left, stop, started>>
           /\ \A s \in Sessions : pc[s] = "off" => pc'[s] = "off"
           /\ stopPc = "stopped" => stopPc' = "stopped"
<1>1. UNCHANGED <<main, server, sig, sigc, left, stop>>
  BY DEF HandlerStep, appVars
<1>2. CASE Subscribe \/ StopGoesOn \/ \E l \in Loops : LoopStep(l)
  BY <1>1, <1>2 DEF Subscribe, StopGoesOn, StopLoopsDown, StopClosePeers, StopWgDown,
     StopPeerWGDown, LoopStep, LoopTick, LoopTickDone, LoopExit, stopVars, sessionVars
<1>3. ASSUME NEW r \in Sessions, SessionGoesOn(r)
      PROVE  /\ UNCHANGED <<started, stopPc>>
             /\ \A s \in Sessions : pc[s] = "off" => pc'[s] = "off"
  <2>1. UNCHANGED <<started, stopPc>>
    BY <1>3 DEF SessionGoesOn, RunStarted, CheckQuit, Enter, Admit, HandshakeOk,
       HandshakeFail, CheckLimit, Register, ServeError, ServeDisconnected, Unregister,
       Remove, LeaveHandle, LeaveRun, ClosePeer, stopVars
  <2>2. \E from, to : from # "off" /\ Go(r, from, to)
    BY <1>3 DEF SessionGoesOn, RunStarted, CheckQuit, Enter, Admit, HandshakeOk,
       HandshakeFail, CheckLimit, Register, ServeError, ServeDisconnected, Unregister,
       Remove, LeaveHandle, LeaveRun, ClosePeer
  <2>3. QED
    BY <2>1, <2>2 DEF Go, TypeOK
<1>4. QED
  BY <1>1, <1>2, <1>3 DEF HandlerStep

LEMMA ProcessKeeps ==
    AppTypeOK /\ TypeOK /\ LoopsInv /\ ProcessInv /\ [LaunchNext]_allVars => ProcessInv'
<1> SUFFICES ASSUME AppTypeOK, TypeOK, LoopsInv, ProcessInv, [LaunchNext]_allVars
             PROVE  ProcessInv'
  OBVIOUS
<1> USE DEF AppTypeOK, ProcessInv, Reach
<1>1. CASE StartServer \/ FailEndpoints \/ Announced \/ MainReturns
  BY <1>1 DEF StartServer, FailEndpoints, Announced, MainReturns, vars
<1>2. CASE StartServices
  BY <1>2 DEF StartServices, Start, LoopsInv, sessionVars
<1>3. CASE Signal \/ TakeSignal \/ CountInterrupt
  BY <1>3 DEF Signal, TakeSignal, StopNow, CountInterrupt, vars
<1>4. CASE StopServices
  BY <1>4 DEF StopServices, StopLoops, sessionVars
<1>5. CASE StopServer \/ ServerDown
  BY <1>5 DEF StopServer, ServerDown, vars, stopVars, sessionVars
<1>6. ASSUME NEW s \in Sessions, AcceptPeer(s) PROVE ProcessInv'
  BY <1>6 DEF AcceptPeer, Accept, appVars, stopVars
<1>7. CASE HandlerStep
  BY <1>7, HandlerKeepsOff
<1>8. CASE UNCHANGED allVars
  BY <1>8 DEF allVars, appVars, vars
<1>9. QED
  BY <1>1, <1>2, <1>3, <1>4, <1>5, <1>6, <1>7, <1>8 DEF LaunchNext

LEMMA LaunchKeeps == LaunchInv /\ [LaunchNext]_allVars => LaunchInv'
<1> SUFFICES ASSUME LaunchInv, [LaunchNext]_allVars PROVE LaunchInv'
  OBVIOUS
<1>1. AppTypeOK /\ LifecycleInv /\ TypeOK /\ LoopsInv /\ ProcessInv
  BY DEF LaunchInv, LifecycleInv
<1>2. LifecycleInv'
  BY <1>1, LaunchStep, StepInv, ServerStopsQuietly
<1>3. LoopsInv'
  <2>1. CASE [Next]_vars
    BY <1>1, <2>1, LoopsKeep
  <2>2. CASE StopServer
    <3>1. UNCHANGED <<stopPc, started, loops, loopsWg>>
      BY <1>1, <2>2, ServerStopsQuietly
    <3>2. QED
      BY <1>1, <3>1 DEF LoopsInv
  <2>3. QED
    BY <2>1, <2>2, LaunchStep
<1>4. QED
  BY <1>1, <1>2, <1>3, AppTypeKeeps, ProcessKeeps DEF LaunchInv

(* The handler keeps its invariant in the process, whose p2p server         *)
(* disconnects peers on its own.                                            *)
THEOREM LaunchInvariant == LaunchSpec => []LaunchInv
BY InitLaunch, LaunchKeeps, PTL DEF LaunchSpec

(* When main returns, after a shutdown or because the process could not     *)
(* start, no session, loop or registration is left.                         *)
THEOREM ProcessEndsQuiet == LaunchSpec => []ReturnedIsQuiet
<1>1. LaunchInv => ReturnedIsQuiet
  <2> SUFFICES ASSUME LaunchInv, main = "returned"
               PROVE  /\ \A s \in Sessions : pc[s] = "off"
                      /\ \A l \in Loops : loops[l] \in {"off", "gone"}
                      /\ \A i \in Ids : peers[i] = NoSession
                      /\ wg = {} /\ peerWG = {} /\ loopsWg = {}
    BY DEF LaunchInv, ReturnedIsQuiet
  <2>1. LifecycleInv /\ TypeOK /\ PeerSetOwned
    BY DEF LaunchInv, LifecycleInv
  <2>2. \A s \in Sessions : pc[s] = "off"
    BY DEF LaunchInv, ProcessInv
  <2>3. \A i \in Ids : peers[i] = NoSession
    BY <2>1, <2>2 DEF PeerSetOwned, TypeOK
  <2>4. wg = {} /\ peerWG = {}
    BY <2>1, <2>2 DEF LifecycleInv, TypeOK
  <2>5. stopPc = "stopped" \/ ~started
    BY DEF LaunchInv, ProcessInv
  <2>6. loopsWg = {} /\ \A l \in Loops : loops[l] \in {"off", "gone"}
    BY <2>5 DEF LaunchInv, LoopsInv
  <2>7. QED
    BY <2>2, <2>3, <2>4, <2>6
<1>2. QED
  BY <1>1, LaunchInvariant, PTL

(* The registry is implemented in the process too.                          *)
THEOREM RegistryInProcess == LaunchSpec => ImplementsRegistry
<1>1. LaunchInit => Registry!Init
  BY DEF LaunchInit, Init, Registry!Init
<1>2. LaunchInv /\ [LaunchNext]_allVars => [Registry!Next]_(Registry!regVars)
  <2> SUFFICES ASSUME LifecycleInv, [LaunchNext]_allVars
               PROVE  [Registry!Next]_(Registry!regVars)
    BY DEF LaunchInv
  <2>1. CASE StopServer
    BY <2>1, ServerStopsQuietly, Stutters
  <2>2. QED
    BY <2>1, LaunchStep, StepRefines
<1>3. QED
  BY <1>1, <1>2, LaunchInvariant, PTL DEF LaunchSpec, ImplementsRegistry, Registry!Spec
=============================================================================
