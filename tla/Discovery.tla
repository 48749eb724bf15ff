------------------------------ MODULE Discovery ------------------------------
(***************************************************************************)
(* Where the sentry knows nodes from and what it does with them: peers      *)
(* report their own peers, the connection advisor picks candidates and      *)
(* redundant peers, peerInfoCollectionLoop puts candidates in the channel   *)
(* nextSuggestedPeer for the dialer, savePeers writes every known node to   *)
(* nodes.json when Stop begins, and loadPeers reads them back at the next   *)
(* Start, in a goroutine that no WaitGroup counts.                          *)
(***************************************************************************)
EXTENDS Naturals, FiniteSets, Sequences, Functions

CONSTANTS
    Nodes,         \* nodes of the network
    Me,            \* the local node, which others report too
    Reports,       \* Reports[n]: the peer lists node n may send
    MaxPeers,      \* the limit given to Start
    ChCap,         \* capacity of nextSuggestedPeer
    MaxTries,      \* suggestions asked for in one iteration
    NoNode

ASSUME DiscoveryAssumption ==
    /\ Me \notin Nodes /\ NoNode \notin Nodes \cup {Me}
    /\ Reports \in [Nodes -> SUBSET SUBSET (Nodes \cup {Me})]
    /\ MaxPeers \in Nat /\ MaxTries \in Nat
    /\ ChCap \in Nat \ {0}

VARIABLES
    proc,          \* the process: "down", "running", and the steps of Stop:
                   \* "writing", "closing", "waiting"
    file,          \* nodes.json: the nodes in it
    torn,          \* nodes.json does not parse
    discovered,    \* handler.discoveredNodes
    connected,     \* nodes in the peer set
    told,          \* those of them that were told to disconnect
    reported,      \* the advisor's neighborhood: reported[n] is a peer list
    fresh,         \* nodes whose entry is not older than maxPeerInfoAge
    suggestions,   \* the channel nextSuggestedPeer
    todo,          \* nodes loadPeers has read and not yet offered
    offering,      \* the node the goroutine of loadPeers is sending
    lpc,           \* the collection loop: "idle", "advise", "offer", "drop", "gone"
    tries,         \* suggestions asked for in this iteration
    candidate,     \* the one the loop is looking at
    suggested      \* the ones it has sent in this iteration

diskVars   == <<file, torn>>
nodeVars   == <<discovered, connected, told>>
advisor    == <<reported, fresh>>
loader     == <<todo, offering>>
collector  == <<lpc, tries, candidate, suggested>>
vars == <<proc, diskVars, nodeVars, advisor, suggestions, loader, collector>>

All == Nodes \cup {Me}

-----------------------------------------------------------------------------
(* ConnectionAdvisor.  An entry that is too old is deleted when the         *)
(* iteration over the map meets it; until then its node still counts as     *)
(* found.  Go iterates in any order, so the old nodes that a fresh entry is *)
(* compared with are any of them; the entry of a node that has left stays.  *)

Keys == DOMAIN reported
Old == Keys \ fresh
Fresh == Keys \cap fresh
Reporters(x) == {n \in Fresh : x \in reported[n]}

(* GetNewPeerSuggestion: a random one of the reported nodes that are not    *)
(* found, or none; an old node is found or not by the order of iteration.   *)
Candidates == {x \in All \ {Me} : Reporters(x) # {} /\ x \notin Fresh}
NewSuggestions ==
    Candidates \cup (IF Candidates \subseteq Old THEN {NoNode} ELSE {})

(* GetRedundantPeerSuggestion: one of the found nodes with the most reports.*)
(* Of the reports of an old node those count that the iteration meets       *)
(* before the old entry: seen[o], which grows along the iteration.          *)
Orders == {seen \in [Old -> SUBSET Fresh] :
             \A o, q \in Old : seen[o] \subseteq seen[q] \/ seen[q] \subseteq seen[o]}
Count(seen, x) == Cardinality(Reporters(x) \cap (IF x \in Old THEN seen[x] ELSE Fresh))
RedundantSuggestions ==
    UNION {LET most == {x \in Keys \ {Me} : Count(seen, x) > 0 /\
                          \A y \in Keys \ {Me} : Count(seen, y) <= Count(seen, x)}
           IN  IF most = {} THEN {NoNode} ELSE most : seen \in Orders}

Discarded == [n \in Fresh |-> reported[n]]
Updated(n, list) == [k \in Keys \cup {n} |-> IF k = n THEN list ELSE reported[k]]

-----------------------------------------------------------------------------
Running == proc \in {"running", "writing", "closing", "waiting"}
QuitSync == proc = "waiting"
StopLoops == proc \in {"closing", "waiting"}

Empty == [n \in {} |-> {}]

(* savePeers holds discoveredNodesMu for reading while it writes the file.  *)
MayRecord == proc # "writing"

Volatile ==
    /\ discovered' = {} /\ connected' = {} /\ told' = {}
    /\ reported' = Empty /\ fresh' = {}
    /\ suggestions' = <<>>
    /\ offering' = NoNode
    /\ tries' = 0 /\ candidate' = NoNode /\ suggested' = {}

Init ==
    /\ proc = "down"
    /\ file = {} /\ torn = FALSE
    /\ discovered = {} /\ connected = {} /\ told = {}
    /\ reported = Empty /\ fresh = {}
    /\ suggestions = <<>>
    /\ todo = {} /\ offering = NoNode
    /\ lpc = "gone" /\ tries = 0 /\ candidate = NoNode /\ suggested = {}

(* handler.Start of a new process.  A file that is absent, which is the     *)
(* empty one here, or that does not parse starts no loader.                 *)
Start ==
    /\ proc = "down"
    /\ proc' = "running"
    /\ todo' = IF torn THEN {} ELSE file
    /\ lpc' = "advise"
    /\ Volatile
    /\ UNCHANGED diskVars

-----------------------------------------------------------------------------
(* Sessions.                                                                *)

(* A session registers its peer, see PeerLifecycle.                         *)
Connect(n) ==
    /\ Running /\ ~QuitSync
    /\ n \notin connected /\ Cardinality(connected) < MaxPeers
    /\ connected' = connected \cup {n}
    /\ UNCHANGED <<proc, diskVars, discovered, told, advisor, suggestions,
                   loader, collector>>

Leave(n) ==
    /\ Running /\ n \in connected
    /\ connected' = connected \ {n} /\ told' = told \ {n}
    /\ UNCHANGED <<proc, diskVars, discovered, advisor, suggestions, loader,
                   collector>>

(* PeerInfosMsg.                                                            *)
Report(n) ==
    /\ Running /\ n \in connected /\ MayRecord
    /\ \E list \in Reports[n] :
        /\ discovered' = discovered \cup list
        /\ reported' = Updated(n, list)
    /\ fresh' = fresh \cup {n}
    /\ UNCHANGED <<proc, diskVars, connected, told, suggestions, loader, collector>>

(* An entry of the neighborhood gets older than maxPeerInfoAge.             *)
Age(n) ==
    /\ Running /\ n \in Fresh
    /\ fresh' = fresh \ {n}
    /\ UNCHANGED <<proc, diskVars, nodeVars, reported, suggestions, loader, collector>>

(* The dialer asks the iterator for a node, which it may connect later.     *)
DialNext ==
    /\ Running /\ suggestions # <<>>
    /\ suggestions' = Tail(suggestions)
    /\ UNCHANGED <<proc, diskVars, nodeVars, advisor, loader, collector>>

-----------------------------------------------------------------------------
(* The goroutine of loadPeers: record a node, then wait for room in the     *)
(* channel or for quitSync.                                                 *)

LoadNext ==
    /\ Running /\ offering = NoNode /\ MayRecord
    /\ \E n \in todo :
        /\ discovered' = discovered \cup {n}
        /\ offering' = n
        /\ todo' = todo \ {n}
    /\ UNCHANGED <<proc, diskVars, connected, told, advisor, suggestions, collector>>

AnyRoom == TRUE
HasRoom == Len(suggestions) < ChCap
LoaderMaySend == HasRoom
LoadOffer ==
    /\ Running /\ offering # NoNode /\ LoaderMaySend
    /\ suggestions' = IF HasRoom THEN Append(suggestions, offering) ELSE suggestions
    /\ offering' = NoNode
    /\ UNCHANGED <<proc, diskVars, nodeVars, advisor, todo, collector>>

LoadQuits ==
    /\ Running /\ offering # NoNode /\ QuitSync
    /\ offering' = NoNode /\ todo' = {}
    /\ UNCHANGED <<proc, diskVars, nodeVars, advisor, suggestions, collector>>

-----------------------------------------------------------------------------
(* peerInfoCollectionLoop.                                                  *)

Tick ==
    /\ Running /\ lpc = "idle"
    /\ lpc' = "advise"
    /\ UNCHANGED <<proc, diskVars, nodeVars, advisor, suggestions, loader, tries,
                   candidate, suggested>>

(* A call of GetNewPeerSuggestion, which also discards the old entries; a   *)
(* node that was sent in this iteration is asked about no further.          *)
Advise ==
    /\ Running /\ lpc = "advise"
    /\ IF tries = MaxTries
       THEN lpc' = "drop" /\ UNCHANGED <<tries, candidate, reported>>
       ELSE /\ \E x \in NewSuggestions :
                /\ candidate' = x
                /\ lpc' = IF x = NoNode THEN "drop"
                          ELSE IF x \in suggested THEN "advise" ELSE "offer"
            /\ tries' = tries + 1
            /\ reported' = Discarded
    /\ UNCHANGED <<proc, diskVars, nodeVars, fresh, suggestions, loader, suggested>>

(* Unless the node is connected it is sent; a full channel ends the         *)
(* suggestions of this iteration.                                           *)
Blocking == HasRoom \/ candidate \in connected
NonBlocking == TRUE
CollectorMaySend == NonBlocking
Offer ==
    /\ Running /\ lpc = "offer" /\ CollectorMaySend
    /\ IF candidate \in connected
       THEN lpc' = "advise" /\ UNCHANGED <<suggestions, suggested>>
       ELSE IF HasRoom
       THEN /\ suggestions' = Append(suggestions, candidate)
            /\ suggested' = suggested \cup {candidate}
            /\ lpc' = "advise"
       ELSE lpc' = "drop" /\ UNCHANGED <<suggestions, suggested>>
    /\ UNCHANGED <<proc, diskVars, nodeVars, advisor, loader, tries, candidate>>

(* The end of an iteration: when something was suggested and the peer set   *)
(* is full, a redundant peer is told to disconnect.                         *)
Drop ==
    /\ Running /\ lpc = "drop"
    /\ IF suggested # {} /\ Cardinality(connected) >= MaxPeers
       THEN /\ \E x \in RedundantSuggestions : told' = told \cup ({x} \cap connected)
            /\ reported' = Discarded
       ELSE UNCHANGED <<told, reported>>
    /\ lpc' = "idle" /\ tries' = 0 /\ candidate' = NoNode /\ suggested' = {}
    /\ UNCHANGED <<proc, diskVars, discovered, connected, fresh, suggestions, loader>>

LoopExit ==
    /\ Running /\ lpc = "idle" /\ StopLoops
    /\ lpc' = "gone"
    /\ UNCHANGED <<proc, diskVars, nodeVars, advisor, suggestions, loader, tries,
                   candidate, suggested>>

-----------------------------------------------------------------------------
(* handler.Stop and the end of the process.                                 *)

SavedConnected == connected
SavedAll == connected \cup discovered
Saved == SavedAll

(* savePeers: with nothing to save, or when the file cannot be opened, the  *)
(* file stays as it is.  WriteFile truncates the file before it writes.     *)
SaveSkips ==
    /\ proc = "running"
    /\ proc' = "closing"
    /\ UNCHANGED <<diskVars, nodeVars, advisor, suggestions, loader, collector>>

SaveBegin ==
    /\ proc = "running" /\ Saved # {}
    /\ proc' = "writing"
    /\ torn' = TRUE /\ file' = Saved
    /\ UNCHANGED <<nodeVars, advisor, suggestions, loader, collector>>

(* The write succeeds, or fails half way: Stop goes on.                     *)
SaveEnd ==
    /\ proc = "writing"
    /\ proc' = "closing"
    /\ torn' \in BOOLEAN
    /\ UNCHANGED <<file, nodeVars, advisor, suggestions, loader, collector>>

(* The loops are down: quitSync is closed, the peers are told to leave.     *)
CloseQuit ==
    /\ proc = "closing" /\ lpc = "gone"
    /\ proc' = "waiting"
    /\ told' = connected
    /\ UNCHANGED <<diskVars, discovered, connected, advisor, suggestions,
                   loader, collector>>

(* Stop returns when the sessions are down, and the process exits.          *)
Exit ==
    /\ proc = "waiting" /\ connected = {}
    /\ proc' = "down"
    /\ lpc' = "gone" /\ todo' = {}
    /\ Volatile
    /\ UNCHANGED diskVars

Crash ==
    /\ Running
    /\ proc' = "down"
    /\ lpc' = "gone" /\ todo' = {}
    /\ Volatile
    /\ UNCHANGED diskVars

-----------------------------------------------------------------------------
SessionStep(n) == Connect(n) \/ Leave(n) \/ Report(n) \/ Age(n)
LoaderStep == LoadNext \/ LoadOffer \/ LoadQuits
CollectorStep == Tick \/ Advise \/ Offer \/ Drop \/ LoopExit
StopStep == SaveSkips \/ SaveBegin \/ SaveEnd \/ CloseQuit \/ Exit

Next ==
    \/ Start \/ Crash \/ StopStep \/ LoaderStep \/ CollectorStep \/ DialNext
    \/ \E n \in Nodes : SessionStep(n)

Spec == Init /\ [][Next]_vars

(* Goroutines that can run do run; a sender that waits on a channel has its *)
(* turn before later ones, so the loader is not overtaken for ever by the   *)
(* collection loop; a select takes a closed stop channel in the end; a peer *)
(* told to disconnect does leave.  The dialer asks for nodes while the peer *)
(* set has room, and for none it may ever ask when it is full.              *)
Full == Cardinality(connected) >= MaxPeers
Fairness ==
    /\ WF_vars(LoadNext) /\ SF_vars(LoadOffer)
    /\ WF_vars(Advise) /\ WF_vars(Offer) /\ WF_vars(Drop) /\ SF_vars(LoopExit)
    /\ WF_vars(SaveEnd) /\ WF_vars(CloseQuit) /\ WF_vars(Exit)
    /\ WF_vars(~Full /\ DialNext)
    /\ \A n \in Nodes : WF_vars(n \in told /\ Leave(n))

FairSpec == Spec /\ Fairness

-----------------------------------------------------------------------------
(* Properties.                                                              *)

TypeOK ==
    /\ proc \in {"down", "running", "writing", "closing", "waiting"}
    /\ file \subseteq All /\ torn \in BOOLEAN
    /\ discovered \subseteq All /\ told \subseteq connected /\ connected \subseteq Nodes
    /\ reported \in [Keys -> SUBSET All] /\ Keys \subseteq Nodes /\ fresh \subseteq Keys
    /\ suggestions \in Seq(All) /\ Len(suggestions) <= ChCap
    /\ todo \subseteq All /\ offering \in All \cup {NoNode}
    /\ lpc \in {"idle", "advise", "offer", "drop", "gone"}
    /\ tries \in 0..MaxTries
    /\ candidate \in Nodes \cup {NoNode} /\ suggested \subseteq Nodes

(* A node that is in an intact nodes.json is never lost by a save, when the *)
(* process has read the file to its end: what was loaded stays among the    *)
(* nodes that are saved, beside the connected and the reported ones         *)
(* (loadPeers, savePeers).                                                  *)
SaveKeepsLoaded ==
    [][proc = "running" /\ proc' = "writing" /\ ~torn /\ todo = {} => file \subseteq file']_vars

(* Every node read from nodes.json gets its turn in the channel the dialer  *)
(* takes from, unless Stop or a crash comes first or the peer set fills up: *)
(* the suggestions of the collection loop, which uses the same channel, do  *)
(* not crowd it out (loadPeers).                                            *)
WarmStart ==
    \A n \in All :
        (n \in todo /\ proc = "running") ~> (n \in Range(suggestions) \/ proc # "running" \/ Full)

(* Stop comes to its end although the dialer may have stopped asking: the   *)
(* collection loop does not wait for room in the channel, and nothing waits *)
(* for the loader that does (Stop).                                         *)
StopFinishes == proc \in {"writing", "closing"} ~> proc = "down"
=============================================================================
