------------------------------ MODULE Launcher -------------------------------
(***************************************************************************)
(* The process around the handler: the main thread that starts the node,    *)
(* announces it and waits for its end; the goroutine that turns a signal    *)
(* into a shutdown and counts further signals; the goroutine that shuts     *)
(* down; and, external, the node, which runs the p2p server and calls Start *)
(* and Stop of the service.  Everything the handler and its sessions do in  *)
(* the meantime is that of PeerLifecycle.                                   *)
(*                                                                          *)
(* A signal that comes before the signal goroutine is there, or after it is *)
(* gone, ends the process; so does a returned main.  Both are the end of a  *)
(* behaviour.                                                               *)
(***************************************************************************)
EXTENDS PeerLifecycle

CONSTANTS
    Interrupts,        \* signals counted after the first: 10
    EndpointsMayFail   \* whether the RPC endpoints may fail to open

ASSUME LauncherAssumption ==
    Interrupts \in Nat \ {0} /\ EndpointsMayFail \in BOOLEAN

VARIABLES
    main,       \* where the main thread is
    server,     \* the p2p server: "off", "on", "stopping", "down"
    sig,        \* where the signal goroutine is
    sigc,       \* signals in its channel, at most one
    left,       \* interrupts it still waits for
    stop        \* where the goroutine of Sentry.Stop is

appVars == <<main, server, sig, sigc, left, stop>>
allVars == <<vars, appVars>>

LaunchInit ==
    /\ Init
    /\ main = "new"
    /\ server = "off"
    /\ sig = "none"
    /\ sigc = 0
    /\ left = Interrupts
    /\ stop = "none"

Reach(m, n) == main = m /\ main' = n

-----------------------------------------------------------------------------
(* The main thread.                                                         *)

(* Sentry.Start: the p2p server comes up before the services do, or cannot  *)
(* listen.                                                                  *)
StartServer ==
    /\ \/ Reach("new", "starting") /\ server' = "on"
       \/ Reach("new", "returned") /\ UNCHANGED server
    /\ UNCHANGED <<vars, sig, sigc, left, stop>>

(* The endpoints fail: the node stops the p2p server, which waits for its   *)
(* sessions, before it returns the error.                                   *)
FailEndpoints ==
    /\ EndpointsMayFail
    /\ Reach("starting", "unwinding")
    /\ server' = "stopping"
    /\ UNCHANGED <<vars, sig, sigc, left, stop>>

(* Service.Start.                                                           *)
StartServices ==
    /\ Reach("starting", "announcing")
    /\ Start
    /\ UNCHANGED <<server, sig, sigc, left, stop>>

(* Somebody reads the announcements, if there are any; only then is the     *)
(* signal goroutine started.                                                *)
Announced ==
    /\ Reach("announcing", "waiting")
    /\ sig' = "select"
    /\ UNCHANGED <<vars, server, sigc, left, stop>>

(* Wait returns when the node is closed, the failed Start when its p2p      *)
(* server is.                                                               *)
MainReturns ==
    /\ \/ Reach("waiting", "returned") /\ stop = "done"
       \/ Reach("unwinding", "returned") /\ server = "down"
    /\ UNCHANGED <<vars, server, sig, sigc, left, stop>>

-----------------------------------------------------------------------------
(* The signal goroutine.                                                    *)

(* A signal; one that finds the channel full is lost.                       *)
Signal ==
    /\ main # "returned" /\ sig \in {"select", "counting"}
    /\ sigc = 0
    /\ sigc' = 1
    /\ UNCHANGED <<vars, main, server, sig, left, stop>>

(* The first signal, or the Shutdown channel, starts the goroutine that     *)
(* shuts down.                                                              *)
StopLater == stop
StopNow == "cleanup"
TakeSignal ==
    /\ sig = "select" /\ sig' = "counting"
    /\ sigc' \in {0, sigc}
    /\ stop' = StopNow
    /\ UNCHANGED <<vars, main, server, left>>

(* After the last interrupt the goroutine is gone; debug.Exit flushes       *)
(* profiles and returns.                                                    *)
CountInterrupt ==
    /\ sig = "counting" /\ sigc = 1
    /\ sigc' = 0
    /\ left' = left - 1
    /\ sig' = IF left = 1 THEN "gone" ELSE "counting"
    /\ UNCHANGED <<vars, main, server, stop>>

-----------------------------------------------------------------------------
(* Sentry.Stop and, external, node.Close.                                   *)

(* The dial iterator is closed, then Service.Stop calls handler.Stop.       *)
StopServices ==
    /\ stop = "cleanup" /\ stop' = "services"
    /\ StopLoops
    /\ UNCHANGED <<main, server, sig, sigc, left>>

(* The p2p server, then: it disconnects every peer.                         *)
StopServer ==
    /\ stop = "services" /\ stopPc = "stopped"
    /\ stop' = "server"
    /\ server' = "stopping"
    /\ disc' = [s \in Sessions |-> disc[s] \/ pc[s] # "off"]
    /\ UNCHANGED <<loopVars, stopVars, setVars, sessionVars, main, sig, sigc, left>>

(* It is down when every Run has returned.                                  *)
ServerDown ==
    /\ server = "stopping" /\ \A s \in Sessions : pc[s] = "off"
    /\ server' = "down"
    /\ stop' = IF stop = "server" THEN "done" ELSE stop
    /\ UNCHANGED <<vars, main, sig, sigc, left>>

-----------------------------------------------------------------------------
(* The handler, its loops and its sessions.                                 *)

AcceptPeer(s) == server = "on" /\ Accept(s) /\ UNCHANGED appVars

HandlerStep ==
    /\ \/ Subscribe \/ StopGoesOn
       \/ \E l \in Loops : LoopStep(l)
       \/ \E s \in Sessions : SessionGoesOn(s)
    /\ UNCHANGED appVars

LaunchNext ==
    \/ StartServer \/ FailEndpoints \/ StartServices \/ Announced \/ MainReturns
    \/ Signal \/ TakeSignal \/ CountInterrupt
    \/ StopServices \/ StopServer \/ ServerDown
    \/ \E s \in Sessions : AcceptPeer(s)
    \/ HandlerStep

LaunchSpec == LaunchInit /\ [][LaunchNext]_allVars

(* Fairness of the handler, and of the threads of this module; nobody has   *)
(* to read an announcement or to send a signal.                             *)
LaunchFairSpec ==
    /\ LaunchSpec /\ Fairness
    /\ WF_allVars(MainReturns) /\ WF_allVars(CountInterrupt)
    /\ WF_allVars(StopServices) /\ WF_allVars(StopServer) /\ WF_allVars(ServerDown)

-----------------------------------------------------------------------------
(* Properties.                                                              *)

AppTypeOK ==
    /\ main \in {"new", "starting", "unwinding", "announcing", "waiting", "returned"}
    /\ server \in {"off", "on", "stopping", "down"}
    /\ sig \in {"none", "select", "counting", "gone"}
    /\ sigc \in 0..1 /\ left \in 0..Interrupts
    /\ stop \in {"none", "cleanup", "services", "server", "done"}

(* When main returns, nothing of the handler is left: the sessions that     *)
(* handler.Stop did not wait for are gone too, no loop runs, nobody is      *)
(* registered and nobody holds a place in a WaitGroup (Sentry.Wait).        *)
ReturnedIsQuiet ==
    /\ AppTypeOK
    /\ main = "returned" =>
        /\ \A s \in Sessions : pc[s] = "off"
        /\ \A l \in Loops : loops[l] \in {"off", "gone"}
        /\ \A i \in Ids : peers[i] = NoSession
        /\ wg = {} /\ peerWG = {} /\ loopsWg = {}

(* Once a signal is taken the process ends by itself, however many further  *)
(* signals come and whatever peers, loops and late sessions are doing       *)
(* (startSentry, Sentry.Stop, Sentry.Wait).                                 *)
ShutdownCompletes == sig = "counting" ~> main = "returned"
=============================================================================
