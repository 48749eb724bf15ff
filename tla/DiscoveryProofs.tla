---------------------------- MODULE DiscoveryProofs ----------------------------
(***************************************************************************)
(* That discovery keeps its types, and that a save keeps what was loaded,   *)
(* for any nodes, reports and limits, through stops and crashes.            *)
(*                                                                          *)
(* SaveKeepsLoaded compares the file with the file of an earlier process.   *)
(* What relates the two is Loaded: of the nodes in an intact file, a        *)
(* running process has recorded those the loader has no longer to do.       *)
(***************************************************************************)
EXTENDS Discovery, SequenceTheorems, TLAPS

Loaded == proc = "running" /\ ~torn => file \subseteq discovered \cup todo

-----------------------------------------------------------------------------
(* The types, part by part: what a step leaves alone keeps its type.        *)

NodesOK == discovered \subseteq All /\ told \subseteq connected /\ connected \subseteq Nodes

AdvisorOK ==
    /\ reported \in [Keys -> SUBSET All]
    /\ Keys \subseteq Nodes /\ fresh \subseteq Keys

ChannelOK == suggestions \in Seq(All) /\ Len(suggestions) <= ChCap

LoaderOK == todo \subseteq All /\ offering \in All \cup {NoNode}

CollectorOK ==
    /\ lpc \in {"idle", "advise", "offer", "drop", "gone"} /\ tries \in 0..MaxTries
    /\ candidate \in Nodes \cup {NoNode} /\ suggested \subseteq Nodes
    /\ lpc = "offer" => candidate \in Nodes

DiskOK ==
    /\ proc \in {"down", "running", "writing", "closing", "waiting"}
    /\ file \subseteq All /\ torn \in BOOLEAN

IInv ==
    /\ DiskOK /\ NodesOK /\ AdvisorOK /\ ChannelOK /\ LoaderOK /\ CollectorOK
    /\ Loaded

LEMMA InitIInv == Init => IInv
  <1> SUFFICES ASSUME Init PROVE IInv
    OBVIOUS
  <1>1. DOMAIN Empty = {} /\ Empty \in [{} -> SUBSET All]
    BY DEF Empty
  <1>2. AdvisorOK
    BY <1>1 DEF Init, AdvisorOK, Keys
  <1>3. ChannelOK
    BY EmptySeq, DiscoveryAssumption DEF Init, ChannelOK
  <1>4. DiskOK
    BY DEF Init, DiskOK
  <1>5. NodesOK /\ LoaderOK
    BY DEF Init, NodesOK, LoaderOK
  <1>6. CollectorOK
    BY DiscoveryAssumption DEF Init, CollectorOK
  <1>7. Loaded
    BY DEF Init, Loaded
  <1>8. QED
    BY <1>2, <1>3, <1>4, <1>5, <1>6, <1>7 DEF IInv

LEMMA InvType == IInv => TypeOK
  BY DEF IInv, TypeOK, DiskOK, NodesOK, AdvisorOK, ChannelOK, LoaderOK, CollectorOK

LEMMA NodesKept == ASSUME NodesOK, UNCHANGED nodeVars PROVE NodesOK'
  BY DEF NodesOK, nodeVars

LEMMA AdvisorKept == ASSUME AdvisorOK, UNCHANGED advisor PROVE AdvisorOK'
  BY DEF AdvisorOK, advisor, Keys

LEMMA ChannelKept == ASSUME ChannelOK, UNCHANGED suggestions PROVE ChannelOK'
  BY DEF ChannelOK

LEMMA LoaderKept == ASSUME LoaderOK, UNCHANGED loader PROVE LoaderOK'
  BY DEF LoaderOK, loader

LEMMA CollectorKept == ASSUME CollectorOK, UNCHANGED collector PROVE CollectorOK'
  BY DEF CollectorOK, collector

LEMMA DiskKept == ASSUME DiskOK, UNCHANGED <<proc, diskVars>> PROVE DiskOK'
  BY DEF DiskOK, diskVars

(* A new process, or none.                                                  *)
LEMMA VolatileOK ==
    ASSUME Volatile
    PROVE  NodesOK' /\ AdvisorOK' /\ ChannelOK' /\ offering' = NoNode
           /\ tries' = 0 /\ candidate' = NoNode /\ suggested' = {}
  <1>1. Empty \in [DOMAIN Empty -> SUBSET All] /\ DOMAIN Empty = {}
    BY DEF Empty
  <1>2. ChannelOK'
    BY EmptySeq, DiscoveryAssumption DEF Volatile, ChannelOK
  <1>3. QED
    BY <1>1, <1>2 DEF Volatile, NodesOK, AdvisorOK, Keys

(* Old entries are dropped from the neighborhood.                           *)
LEMMA DiscardedOK ==
    ASSUME AdvisorOK, reported' = Discarded, fresh' = fresh
    PROVE  AdvisorOK'
  BY DEF AdvisorOK, Discarded, Keys, Fresh

(* A send on the channel with room.                                         *)
LEMMA SentOK ==
    ASSUME ChannelOK, HasRoom, NEW n \in All, suggestions' = Append(suggestions, n)
    PROVE  ChannelOK'
  <1>1. /\ Append(suggestions, n) \in Seq(All)
        /\ Len(Append(suggestions, n)) = Len(suggestions) + 1
        /\ Len(suggestions) \in Nat
    BY AppendProperties, LenProperties DEF ChannelOK
  <1>2. QED
    BY <1>1, DiscoveryAssumption DEF ChannelOK, HasRoom

-----------------------------------------------------------------------------
(* The steps.                                                               *)

LEMMA StepKeeps ==
    ASSUME IInv, [Next]_vars
    PROVE  IInv'
  <1>1. DiskOK /\ NodesOK /\ AdvisorOK /\ ChannelOK /\ LoaderOK /\ CollectorOK /\ Loaded
    BY DEF IInv
  <1> SUFFICES /\ DiskOK' /\ NodesOK' /\ AdvisorOK' /\ ChannelOK'
               /\ LoaderOK' /\ CollectorOK' /\ Loaded'
    BY DEF IInv
  <1>2. CASE Start
    <2>1. NodesOK' /\ AdvisorOK' /\ ChannelOK' /\ LoaderOK' /\ CollectorOK'
      BY <1>1, <1>2, VolatileOK, DiscoveryAssumption
      DEF Start, LoaderOK, CollectorOK, DiskOK
    <2>2. DiskOK' /\ Loaded'
      BY <1>1, <1>2 DEF Start, DiskOK, diskVars, Loaded
    <2>3. QED
      BY <2>1, <2>2
  <1>3. CASE Crash \/ Exit
    <2>1. NodesOK' /\ AdvisorOK' /\ ChannelOK' /\ LoaderOK' /\ CollectorOK'
      BY <1>1, <1>3, VolatileOK, DiscoveryAssumption
      DEF Crash, Exit, LoaderOK, CollectorOK
    <2>2. DiskOK' /\ Loaded'
      BY <1>1, <1>3 DEF Crash, Exit, DiskOK, diskVars, Loaded
    <2>3. QED
      BY <2>1, <2>2
  <1>4. CASE SaveSkips \/ SaveBegin \/ SaveEnd
    <2>1. NodesOK' /\ AdvisorOK' /\ ChannelOK' /\ LoaderOK' /\ CollectorOK'
      BY <1>1, <1>4, NodesKept, AdvisorKept, ChannelKept, LoaderKept, CollectorKept
      DEF SaveSkips, SaveBegin, SaveEnd
    <2>2. DiskOK' /\ Loaded'
      BY <1>1, <1>4
      DEF SaveSkips, SaveBegin, SaveEnd, DiskOK, NodesOK, diskVars, Loaded, Saved, SavedAll, All
    <2>3. QED
      BY <2>1, <2>2
  <1>5. CASE CloseQuit
    <2>1. AdvisorOK' /\ ChannelOK' /\ LoaderOK' /\ CollectorOK'
      BY <1>1, <1>5, AdvisorKept, ChannelKept, LoaderKept, CollectorKept DEF CloseQuit
    <2>2. DiskOK' /\ Loaded' /\ NodesOK'
      BY <1>1, <1>5 DEF CloseQuit, DiskOK, NodesOK, diskVars, Loaded
    <2>3. QED
      BY <2>1, <2>2
  <1>6. CASE LoadNext
    <2>1. DiskOK' /\ AdvisorOK' /\ ChannelOK' /\ CollectorOK'
      BY <1>1, <1>6, DiskKept, AdvisorKept, ChannelKept, CollectorKept DEF LoadNext
    <2>2. NodesOK' /\ LoaderOK' /\ Loaded'
      BY <1>1, <1>6 DEF LoadNext, NodesOK, LoaderOK, Loaded, diskVars
    <2>3. QED
      BY <2>1, <2>2
  <1>7. CASE LoadOffer
    <2>1. DiskOK' /\ NodesOK' /\ AdvisorOK' /\ CollectorOK'
      BY <1>1, <1>7, DiskKept, NodesKept, AdvisorKept, CollectorKept DEF LoadOffer
    <2>2. ChannelOK'
      BY <1>1, <1>7, SentOK, ChannelKept DEF LoadOffer, LoaderOK, LoaderMaySend
    <2>3. LoaderOK' /\ Loaded'
      BY <1>1, <1>7 DEF LoadOffer, LoaderOK, Loaded, diskVars, nodeVars
    <2>4. QED
      BY <2>1, <2>2, <2>3
  <1>8. CASE LoadQuits
    <2>1. DiskOK' /\ NodesOK' /\ AdvisorOK' /\ ChannelOK' /\ CollectorOK'
      BY <1>1, <1>8, DiskKept, NodesKept, AdvisorKept, ChannelKept, CollectorKept
      DEF LoadQuits
    <2>2. LoaderOK' /\ Loaded'
      BY <1>1, <1>8 DEF LoadQuits, LoaderOK, Loaded, QuitSync
    <2>3. QED
      BY <2>1, <2>2
  <1>9. ASSUME UNCHANGED <<proc, diskVars, discovered, loader>>
        PROVE  DiskOK' /\ LoaderOK' /\ Loaded'
    BY <1>1, <1>9, DiskKept, LoaderKept DEF Loaded, diskVars, loader
  <1>10. CASE CollectorStep
    <2>1. CASE Tick \/ LoopExit
      <3>1. NodesOK' /\ AdvisorOK' /\ ChannelOK' /\ UNCHANGED <<proc, diskVars, discovered, loader>>
        BY <1>1, <2>1, NodesKept, AdvisorKept, ChannelKept DEF Tick, LoopExit, nodeVars
      <3>2. CollectorOK'
        BY <1>1, <2>1 DEF Tick, LoopExit, CollectorOK
      <3>3. QED
        BY <1>9, <3>1, <3>2
    <2>2. CASE Advise
      <3>1. NodesOK' /\ ChannelOK' /\ UNCHANGED <<proc, diskVars, discovered, loader>>
        BY <1>1, <2>2, NodesKept, ChannelKept DEF Advise, nodeVars
      <3>2. AdvisorOK'
        BY <1>1, <2>2, AdvisorKept, DiscardedOK DEF Advise, advisor
      <3>3. NewSuggestions \subseteq Nodes \cup {NoNode}
        BY DEF NewSuggestions, Candidates, All
      <3>4. CollectorOK'
        BY <1>1, <2>2, <3>3, DiscoveryAssumption DEF Advise, CollectorOK
      <3>5. QED
        BY <1>9, <3>1, <3>2, <3>4
    <2>3. CASE Offer
      <3>1. NodesOK' /\ AdvisorOK' /\ UNCHANGED <<proc, diskVars, discovered, loader>>
        BY <1>1, <2>3, NodesKept, AdvisorKept DEF Offer, nodeVars
      <3>2. candidate \in Nodes /\ candidate \in All
        BY <1>1, <2>3 DEF Offer, CollectorOK, All
      <3>3. ChannelOK'
        BY <1>1, <2>3, <3>2, SentOK, ChannelKept DEF Offer
      <3>4. CollectorOK'
        BY <1>1, <2>3, <3>2 DEF Offer, CollectorOK
      <3>5. QED
        BY <1>9, <3>1, <3>3, <3>4
    <2>4. CASE Drop
      <3>1. ChannelOK' /\ UNCHANGED <<proc, diskVars, discovered, loader, connected>>
        BY <1>1, <2>4, ChannelKept DEF Drop
      <3>2. AdvisorOK'
        BY <1>1, <2>4, AdvisorKept, DiscardedOK DEF Drop, advisor
      <3>3. NodesOK'
        BY <1>1, <2>4, <3>1 DEF Drop, NodesOK
      <3>4. CollectorOK'
        BY <1>1, <2>4, DiscoveryAssumption DEF Drop, CollectorOK
      <3>5. QED
        BY <1>9, <3>1, <3>2, <3>3, <3>4
    <2>5. QED
      BY <1>10, <2>1, <2>2, <2>3, <2>4 DEF CollectorStep
  <1>11. CASE DialNext
    <2>1. NodesOK' /\ AdvisorOK' /\ CollectorOK' /\ UNCHANGED <<proc, diskVars, discovered, loader>>
      BY <1>1, <1>11, NodesKept, AdvisorKept, CollectorKept DEF DialNext, nodeVars
    <2>2. ChannelOK'
      <3>1. /\ Tail(suggestions) \in Seq(All) /\ Len(suggestions) \in Nat
            /\ Len(Tail(suggestions)) = Len(suggestions) - 1
        BY <1>1, <1>11, HeadTailProperties, LenProperties DEF DialNext, ChannelOK
      <3>2. QED
        BY <1>1, <1>11, <3>1, DiscoveryAssumption DEF DialNext, ChannelOK
    <2>3. QED
      BY <1>9, <2>1, <2>2
  <1>12. ASSUME NEW n \in Nodes, SessionStep(n)
         PROVE  /\ DiskOK' /\ NodesOK' /\ AdvisorOK' /\ ChannelOK'
                /\ LoaderOK' /\ CollectorOK' /\ Loaded'
    <2>1. CASE Connect(n) \/ Leave(n)
      <3>1. AdvisorOK' /\ ChannelOK' /\ CollectorOK' /\ UNCHANGED <<proc, diskVars, discovered, loader>>
        BY <1>1, <2>1, AdvisorKept, ChannelKept, CollectorKept DEF Connect, Leave
      <3>2. NodesOK'
        BY <1>1, <2>1 DEF Connect, Leave, NodesOK
      <3>3. QED
        BY <1>9, <3>1, <3>2
    <2>2. CASE Report(n)
      <3>1. ChannelOK' /\ CollectorOK' /\ DiskOK' /\ LoaderOK'
        BY <1>1, <2>2, ChannelKept, CollectorKept, DiskKept, LoaderKept DEF Report
      <3>2. PICK list \in Reports[n] :
                discovered' = discovered \cup list /\ reported' = Updated(n, list)
        BY <2>2 DEF Report
      <3>3. list \subseteq All
        BY DiscoveryAssumption DEF All
      <3>4. NodesOK' /\ Loaded'
        BY <1>1, <2>2, <3>2, <3>3 DEF Report, NodesOK, Loaded, diskVars, loader
      <3>5. AdvisorOK'
        <4>1. Keys' = Keys \cup {n} /\ fresh' = fresh \cup {n}
          BY <2>2, <3>2 DEF Report, Updated, Keys
        <4>2. reported' \in [Keys \cup {n} -> SUBSET All]
          BY <1>1, <3>2, <3>3 DEF AdvisorOK, Updated, Keys
        <4>3. QED
          BY <1>1, <4>1, <4>2 DEF AdvisorOK
      <3>6. QED
        BY <3>1, <3>4, <3>5
    <2>3. CASE Age(n)
      <3>1. NodesOK' /\ ChannelOK' /\ CollectorOK' /\ UNCHANGED <<proc, diskVars, discovered, loader>>
        BY <1>1, <2>3, NodesKept, ChannelKept, CollectorKept DEF Age, nodeVars
      <3>2. AdvisorOK'
        BY <1>1, <2>3 DEF Age, AdvisorOK, Keys
      <3>3. QED
        BY <1>9, <3>1, <3>2
    <2>4. QED
      BY <1>12, <2>1, <2>2, <2>3 DEF SessionStep
  <1>13. CASE UNCHANGED vars
    BY <1>1, <1>9, <1>13, NodesKept, AdvisorKept, ChannelKept, CollectorKept
    DEF vars, nodeVars
  <1>14. QED
    BY <1>2, <1>3, <1>4, <1>5, <1>6, <1>7, <1>8, <1>10, <1>11, <1>12, <1>13
    DEF Next, StopStep, LoaderStep

-----------------------------------------------------------------------------
(* For any nodes, reports and limits, the types of Discovery hold: none but *)
(* peers are told to leave, the local node is never a candidate, and the    *)
(* channel is never over its capacity, although two goroutines fill it.     *)
THEOREM TypesHold == Spec => []TypeOK
  BY InitIInv, StepKeeps, InvType, PTL DEF Spec

(* For any nodes and reports, in any number of processes that stop or       *)
(* crash: a save that begins when the loader is through keeps every node of *)
(* an intact file (loadPeers, savePeers).                                   *)
THEOREM LoadedIsSaved == Spec => SaveKeepsLoaded
  <1>1. ASSUME IInv, [Next]_vars
        PROVE  [proc = "running" /\ proc' = "writing" /\ ~torn /\ todo = {}
                => file \subseteq file']_vars
    <2> SUFFICES ASSUME proc = "running", proc' = "writing", ~torn, todo = {}, Next
                 PROVE  file \subseteq file'
      BY <1>1 DEF vars
    <2>1. SaveBegin
      BY DEF Next, Start, Crash, StopStep, SaveSkips, SaveEnd, CloseQuit, Exit, LoaderStep,
             LoadNext, LoadOffer, LoadQuits, CollectorStep, Tick, Advise, Offer, Drop,
             LoopExit, DialNext, SessionStep, Connect, Leave, Report, Age
    <2>2. QED
      BY <1>1, <2>1 DEF IInv, Loaded, SaveBegin, Saved, SavedAll
  <1>2. QED
    BY InitIInv, StepKeeps, <1>1, PTL DEF Spec, SaveKeepsLoaded
=============================================================================
