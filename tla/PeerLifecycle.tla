---------------------------- MODULE PeerLifecycle ----------------------------
(***************************************************************************)
(* The life of the handler and of its peer sessions: Start, the four        *)
(* background loops, the Run callback of every p2p session (admission,      *)
(* handshake, registration in the peer set, message loop, unregistration)   *)
(* and Stop, which must bring all of them down.                             *)
(*                                                                          *)
(* A session is a connection slot: when its goroutine has returned, the p2p *)
(* server may use the slot for a new connection.  A WaitGroup is the set of *)
(* the goroutines it counts.  What a session does with one message is left  *)
(* to the modules about messages; here the loop may fail at any message.    *)
(***************************************************************************)
EXTENDS Naturals, FiniteSets

CONSTANTS
    Sessions,          \* connection slots of the p2p server
    Ids,               \* node identifiers
    IdOf,              \* IdOf[s]: the identifier of the node connected on s
    Trusted,           \* identifiers whose connections are trusted
    MaxPeers,          \* the limit given to handler.Start
    NoSession,         \* the value of an absent map entry
    SubscribeMayFail,  \* whether the backend may refuse the subscription
    Loops              \* the loops of Start: these two, "maintenance", "stats"

ASSUME LifecycleAssumption ==
    /\ IdOf \in [Sessions -> Ids]
    /\ Trusted \subseteq Ids
    /\ MaxPeers \in Nat
    /\ NoSession \notin Sessions
    /\ SubscribeMayFail \in BOOLEAN
    /\ {"peerInfo", "backend"} \subseteq Loops

VARIABLES
    started,    \* handler.started has been released
    stopPc,     \* where Stop is
    loops,      \* loops[l]: what the goroutine of loop l is doing
    loopsWg,    \* loops counted by handler.loopsWg
    stopLoops,  \* the stop channels of the loops are closed
    listed,     \* the peers peerInfoCollectionLoop listed in this iteration
    quitSync,   \* handler.quitSync is closed
    peers,      \* peerSet.peers: identifier -> session
    closed,     \* peerSet.closed
    pc,         \* pc[s]: where the goroutine of session s is
    disc,       \* disc[s]: Disconnect was called on the peer of s
    useless,    \* useless[s]: the useless flag of the peer of s
    wg,         \* sessions counted by handler.wg
    peerWG,     \* sessions counted by handler.peerWG
    banned      \* identifiers discfilter.Banned answers true for

loopVars    == <<loops, loopsWg, listed>>
stopVars    == <<started, stopPc, stopLoops, quitSync>>
setVars     == <<peers, closed>>
sessionVars == <<pc, useless, wg, peerWG, banned>>
vars == <<started, stopPc, loops, loopsWg, stopLoops, listed, quitSync, peers,
          closed, pc, disc, useless, wg, peerWG, banned>>

(* Where a session goroutine can be, in program order.                      *)
SessionPc == {"off", "waitStarted", "checkQuit", "entering", "admit",
              "handshake", "checkLimit", "register", "serving", "unregister",
              "remove", "leaveHandle", "leaveRun", "close"}

(* The part of handle between RegisterPeer and the deferred unregistration. *)
RegisteredPc == {"serving", "unregister", "remove"}

-----------------------------------------------------------------------------
(* The peer set.                                                            *)

Registered == {s \in Sessions : peers[IdOf[s]] = s}

Len == Cardinality({i \in Ids : peers[i] # NoSession})

UselessNum == Cardinality({s \in Registered : useless[s]})

(* RegisterPeer refuses when the set is closed or the id is present.        *)
CanRegisterLate(s) == peers[IdOf[s]] = NoSession
CanRegisterTwice(s) == ~closed
CanRegister(s) == ~closed /\ peers[IdOf[s]] = NoSession

-----------------------------------------------------------------------------
Init ==
    /\ started = FALSE
    /\ stopPc = "idle"
    /\ loops = [l \in Loops |-> "off"]
    /\ loopsWg = {}
    /\ stopLoops = FALSE
    /\ listed = {}
    /\ quitSync = FALSE
    /\ peers = [i \in Ids |-> NoSession]
    /\ closed = FALSE
    /\ pc = [s \in Sessions |-> "off"]
    /\ disc = [s \in Sessions |-> FALSE]
    /\ useless = [s \in Sessions |-> FALSE]
    /\ wg = {}
    /\ peerWG = {}
    /\ banned \in SUBSET Ids

(* Start counts and spawns the loops, then releases the waiting sessions.   *)
(* The collection loop begins with an iteration, the backend loop with its  *)
(* subscription.                                                            *)
UncountedLoop == Loops \ {"peerInfo"}
CountedLoops == Loops
Start ==
    /\ ~started
    /\ started' = TRUE
    /\ loopsWg' = CountedLoops
    /\ loops' = [l \in Loops |-> IF l = "backend" THEN "subscribing"
                                ELSE IF l = "peerInfo" THEN "collecting" ELSE "run"]
    /\ UNCHANGED <<stopPc, stopLoops, listed, quitSync, setVars, sessionVars, disc>>

-----------------------------------------------------------------------------
(* The background loops.                                                    *)

(* NodeProgressLoop: the early return on a subscription error comes before  *)
(* the deferred Done, so the loop stays counted.                            *)
Subscribe ==
    /\ loops["backend"] = "subscribing"
    /\ \/ loops' = [loops EXCEPT !["backend"] = "run"]
       \/ SubscribeMayFail /\ loops' = [loops EXCEPT !["backend"] = "gone"]
    /\ UNCHANGED <<loopsWg, listed, stopVars, setVars, sessionVars, disc>>

(* A tick of a loop, or a new head for the backend loop, starts one         *)
(* iteration; the collection loop lists the peers in it.                    *)
LoopTick(l) ==
    /\ loops[l] \in {"run", "collecting"}
    /\ loops' = [loops EXCEPT ![l] = "busy"]
    /\ listed' = IF l = "peerInfo" THEN Registered ELSE listed
    /\ UNCHANGED <<loopsWg, stopVars, setVars, sessionVars, disc>>

(* The end of an iteration.  The collection loop may disconnect one of the  *)
(* peers it listed, when it listed MaxPeers or more.                        *)
LoopTickDone(l) ==
    /\ loops[l] = "busy"
    /\ loops' = [loops EXCEPT ![l] = "run"]
    /\ \/ UNCHANGED disc
       \/ /\ l = "peerInfo"
          /\ Cardinality(listed) >= MaxPeers
          /\ \E s \in listed : disc' = [disc EXCEPT ![s] = TRUE]
    /\ listed' = IF l = "peerInfo" THEN {} ELSE listed
    /\ UNCHANGED <<loopsWg, stopVars, setVars, sessionVars>>

LoopExit(l) ==
    /\ loops[l] = "run"
    /\ stopLoops
    /\ loops' = [loops EXCEPT ![l] = "gone"]
    /\ loopsWg' = loopsWg \ {l}
    /\ UNCHANGED <<listed, stopVars, setVars, sessionVars, disc>>

-----------------------------------------------------------------------------
(* One session: the Run callback of MakeProtocols and handler.handle.       *)

Go(s, from, to) == pc[s] = from /\ pc' = [pc EXCEPT ![s] = to]

(* The p2p server starts Run for a new connection.                          *)
Accept(s) ==
    /\ Go(s, "off", "waitStarted")
    /\ UNCHANGED <<loopVars, stopVars, setVars, disc, useless, wg, peerWG, banned>>

(* started.Wait returns and the peer is created.                            *)
RunStarted(s) ==
    /\ started
    /\ Go(s, "waitStarted", "checkQuit")
    /\ UNCHANGED <<loopVars, stopVars, setVars, disc, useless, wg, peerWG, banned>>

(* The select on quitSync.                                                  *)
CheckQuit(s) ==
    /\ Go(s, "checkQuit", IF quitSync THEN "close" ELSE "entering")
    /\ UNCHANGED <<loopVars, stopVars, setVars, disc, useless, wg, peerWG, banned>>

(* wg.Add, a separate step: Stop may run between the select and it.         *)
EnterUncounted(s) == wg
EnterCounted(s) == wg \cup {s}
Enter(s) ==
    /\ Go(s, "entering", "admit")
    /\ wg' = EnterCounted(s)
    /\ UNCHANGED <<loopVars, stopVars, setVars, disc, useless, peerWG, banned>>

IsTrusted(s) == IdOf[s] \in Trusted
IsUseless(s) == IdOf[s] \in banned

(* The useless-peer check, the flag, and peerWG.Add.                        *)
Admit(s) ==
    /\ IF ~IsTrusted(s) /\ IsUseless(s) /\ UselessNum >= MaxPeers \div 2
       THEN /\ Go(s, "admit", "leaveRun")
            /\ UNCHANGED <<useless, peerWG>>
       ELSE /\ Go(s, "admit", "handshake")
            /\ useless' = [useless EXCEPT ![s] = ~IsTrusted(s) /\ IsUseless(s)]
            /\ peerWG' = peerWG \cup {s}
    /\ UNCHANGED <<loopVars, stopVars, setVars, disc, wg, banned>>

HandshakeOk(s) ==
    /\ Go(s, "handshake", "checkLimit")
    /\ UNCHANGED <<loopVars, stopVars, setVars, disc, useless, wg, peerWG, banned>>

(* A mismatch, a failed read or write, or the timeout: a peer that was not  *)
(* banned when it was admitted is banned now.  A banned trusted peer        *)
(* carries no flag; adding it to the banned again changes nothing.          *)
HandshakeFail(s) ==
    /\ Go(s, "handshake", "leaveHandle")
    /\ banned' = IF useless[s] THEN banned ELSE banned \cup {IdOf[s]}
    /\ UNCHANGED <<loopVars, stopVars, setVars, disc, useless, wg, peerWG>>

CheckLimit(s) ==
    /\ Go(s, "checkLimit", IF Len >= MaxPeers /\ ~IsTrusted(s)
                           THEN "leaveHandle" ELSE "register")
    /\ UNCHANGED <<loopVars, stopVars, setVars, disc, useless, wg, peerWG, banned>>

(* RegisterPeer under the lock of the peer set; on success the session goes *)
(* on to its message loop.                                                  *)
Register(s) ==
    /\ IF CanRegister(s)
       THEN /\ Go(s, "register", "serving")
            /\ peers' = [peers EXCEPT ![IdOf[s]] = s]
       ELSE /\ Go(s, "register", "leaveHandle")
            /\ UNCHANGED peers
    /\ UNCHANGED <<loopVars, stopVars, closed, disc, useless, wg, peerWG, banned>>

(* handleMsg fails: the remote side hung up, or sent something refused.     *)
ServeError(s) ==
    /\ Go(s, "serving", "unregister")
    /\ UNCHANGED <<loopVars, stopVars, setVars, disc, useless, wg, peerWG, banned>>

(* handleMsg fails because this side called Disconnect.                     *)
ServeDisconnected(s) ==
    /\ disc[s]
    /\ ServeError(s)

(* unregisterPeer looks the id up, then removes it in a second critical     *)
(* section.                                                                 *)
Unregister(s) ==
    /\ Go(s, "unregister", IF peers[IdOf[s]] = NoSession
                           THEN "leaveHandle" ELSE "remove")
    /\ UNCHANGED <<loopVars, stopVars, setVars, disc, useless, wg, peerWG, banned>>

RemoveEntry(s) == [peers EXCEPT ![IdOf[s]] = NoSession]
Remove(s) ==
    /\ Go(s, "remove", "leaveHandle")
    /\ peers' = RemoveEntry(s)
    /\ UNCHANGED <<loopVars, stopVars, closed, disc, useless, wg, peerWG, banned>>

(* The deferred Done of handle, the deferred Done of Run, then peer.Close.  *)
LeaveHandle(s) ==
    /\ Go(s, "leaveHandle", "leaveRun")
    /\ peerWG' = peerWG \ {s}
    /\ UNCHANGED <<loopVars, stopVars, setVars, disc, useless, wg, banned>>

LeaveRun(s) ==
    /\ Go(s, "leaveRun", "close")
    /\ wg' = wg \ {s}
    /\ UNCHANGED <<loopVars, stopVars, setVars, disc, useless, peerWG, banned>>

(* The peer object dies; a later Disconnect of it, through an old list, has *)
(* no effect on the next connection in the slot.                            *)
ClosePeer(s) ==
    /\ Go(s, "close", "off")
    /\ disc' = [disc EXCEPT ![s] = FALSE]
    /\ useless' = [useless EXCEPT ![s] = FALSE]
    /\ listed' = listed \ {s}
    /\ UNCHANGED <<loops, loopsWg, stopVars, setVars, wg, peerWG, banned>>

-----------------------------------------------------------------------------
(* handler.Stop, called once, after Start.                                  *)

StopLoops ==
    /\ started /\ stopPc = "idle"
    /\ stopPc' = "waitLoops"
    /\ stopLoops' = TRUE
    /\ UNCHANGED <<started, quitSync, loopVars, setVars, sessionVars, disc>>

StopLoopsDown ==
    /\ stopPc = "waitLoops" /\ loopsWg = {}
    /\ stopPc' = "closePeers"
    /\ quitSync' = TRUE
    /\ UNCHANGED <<started, stopLoops, loopVars, setVars, sessionVars, disc>>

(* peerSet.Close: disconnect everyone and close the gate, under the lock.   *)
DisconnectNobody == disc
DisconnectAll == [s \in Sessions |-> disc[s] \/ s \in Registered]
StopClosePeers ==
    /\ stopPc = "closePeers"
    /\ stopPc' = "waitWg"
    /\ closed' = TRUE
    /\ disc' = DisconnectAll
    /\ UNCHANGED <<started, stopLoops, quitSync, loopVars, peers, sessionVars>>

StopWgDown ==
    /\ stopPc = "waitWg" /\ wg = {}
    /\ stopPc' = "waitPeerWG"
    /\ UNCHANGED <<started, stopLoops, quitSync, loopVars, setVars, sessionVars, disc>>

StopPeerWGDown ==
    /\ stopPc = "waitPeerWG" /\ peerWG = {}
    /\ stopPc' = "stopped"
    /\ UNCHANGED <<started, stopLoops, quitSync, loopVars, setVars, sessionVars, disc>>

-----------------------------------------------------------------------------
StopGoesOn == StopLoopsDown \/ StopClosePeers \/ StopWgDown \/ StopPeerWGDown

StopStep == StopLoops \/ StopGoesOn

LoopStep(l) == LoopTick(l) \/ LoopTickDone(l) \/ LoopExit(l)

SessionGoesOn(s) ==
    \/ RunStarted(s) \/ CheckQuit(s) \/ Enter(s) \/ Admit(s)
    \/ HandshakeOk(s) \/ HandshakeFail(s) \/ CheckLimit(s) \/ Register(s)
    \/ ServeError(s) \/ ServeDisconnected(s) \/ Unregister(s) \/ Remove(s)
    \/ LeaveHandle(s) \/ LeaveRun(s) \/ ClosePeer(s)

SessionStep(s) == Accept(s) \/ SessionGoesOn(s)

Next ==
    \/ Start
    \/ Subscribe
    \/ \E l \in Loops : LoopStep(l)
    \/ \E s \in Sessions : SessionStep(s)
    \/ StopStep

Spec == Init /\ [][Next]_vars

(* Goroutines that can run do run; a handshake ends by its timer at the     *)
(* latest; a disconnected peer fails its next read; Go's select takes a     *)
(* closed stop channel in the end even when ticks keep coming.  Nothing     *)
(* makes a connection arrive, a peer misbehave or Stop be called.           *)
Fairness ==
    /\ WF_vars(Subscribe)
    /\ \A l \in Loops : WF_vars(loops[l] = "collecting" /\ LoopTick(l))
                      /\ WF_vars(LoopTickDone(l)) /\ SF_vars(LoopExit(l))
    /\ \A s \in Sessions :
        /\ WF_vars(RunStarted(s)) /\ WF_vars(CheckQuit(s)) /\ WF_vars(Enter(s))
        /\ WF_vars(Admit(s)) /\ WF_vars(HandshakeOk(s) \/ HandshakeFail(s))
        /\ WF_vars(CheckLimit(s)) /\ WF_vars(Register(s))
        /\ WF_vars(ServeDisconnected(s)) /\ WF_vars(Unregister(s))
        /\ WF_vars(Remove(s)) /\ WF_vars(LeaveHandle(s)) /\ WF_vars(LeaveRun(s))
        /\ WF_vars(ClosePeer(s))
    /\ WF_vars(StopLoopsDown) /\ WF_vars(StopClosePeers)
    /\ WF_vars(StopWgDown) /\ WF_vars(StopPeerWGDown)

FairSpec == Spec /\ Fairness

-----------------------------------------------------------------------------
(* Properties.                                                              *)

TypeOK ==
    /\ started \in BOOLEAN
    /\ stopPc \in {"idle", "waitLoops", "closePeers", "waitWg", "waitPeerWG", "stopped"}
    /\ loops \in [Loops -> {"off", "subscribing", "collecting", "run", "busy", "gone"}]
    /\ loopsWg \subseteq Loops
    /\ stopLoops \in BOOLEAN
    /\ listed \subseteq Sessions
    /\ quitSync \in BOOLEAN
    /\ peers \in [Ids -> Sessions \cup {NoSession}]
    /\ closed \in BOOLEAN
    /\ pc \in [Sessions -> SessionPc]
    /\ disc \in [Sessions -> BOOLEAN]
    /\ useless \in [Sessions -> BOOLEAN]
    /\ wg \subseteq Sessions
    /\ peerWG \subseteq Sessions
    /\ banned \subseteq Ids

(* The entry of an id belongs to the one session between its RegisterPeer   *)
(* and its unregisterPeer, and such a session has its entry: a second       *)
(* connection of the same node, refused at registration, neither replaces   *)
(* nor removes the entry of the first (handle, unregisterPeer).             *)
PeerSetOwned ==
    \A s \in Sessions :
        /\ pc[s] \in RegisteredPc => peers[IdOf[s]] = s
        /\ \A i \in Ids : peers[i] = s => IdOf[s] = i /\ pc[s] \in RegisteredPc

(* Once the gate is closed every peer still registered has been told to     *)
(* disconnect, the ones that were past the quitSync check included: none    *)
(* can slip in between the disconnections and the closing (peerSet.Close).  *)
ClosedDisconnects == closed => \A s \in Registered : disc[s]

(* When Stop has returned the peer set is empty, although a session may     *)
(* count itself in handler.wg after Stop has waited for it (handler.Stop).  *)
StoppedIsEmpty == stopPc = "stopped" => \A i \in Ids : peers[i] = NoSession

(* The part of Run and handle in which each WaitGroup counts the session.   *)
CountedPc == {"admit", "handshake", "checkLimit", "register", "leaveHandle",
              "leaveRun"} \cup RegisteredPc
PeerCountedPc == CountedPc \ {"admit", "leaveRun"}

(* The inductive invariant: the WaitGroups count the sessions that are in   *)
(* handle and no other, the gate is closed before Stop waits for them, and  *)
(* when that wait is over nobody is registered.                             *)
LifecycleInv ==
    /\ TypeOK
    /\ PeerSetOwned
    /\ ClosedDisconnects
    /\ \A s \in Sessions : s \in wg <=> pc[s] \in CountedPc
    /\ \A s \in Sessions : s \in peerWG <=> pc[s] \in PeerCountedPc
    /\ closed <=> stopPc \in {"waitWg", "waitPeerWG", "stopped"}
    /\ stopPc \in {"waitPeerWG", "stopped"} => \A i \in Ids : peers[i] = NoSession

(* The peer set implements the registry: no id joins twice, none joins      *)
(* after peerSet.Close, Stop returns only from the empty set.               *)
Registry == INSTANCE PeerRegistry WITH
    members <- {i \in Ids : peers[i] # NoSession},
    phase   <- IF stopPc = "stopped" THEN "terminated"
               ELSE IF closed THEN "closing" ELSE "open"
ImplementsRegistry == Registry!Spec

(* Once begun, Stop returns, whatever the sessions and loops are doing.     *)
StopReturns == stopPc = "waitLoops" ~> stopPc = "stopped"
=============================================================================
