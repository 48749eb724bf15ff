----------------------------- MODULE EpochGuard -----------------------------
(***************************************************************************)
(* The epoch guard: the backend loop keeps the local epoch in step with the *)
(* backend node, every ProgressMsg of a peer is compared with it, and       *)
(* checkPeerStaleness drops a peer whose reports disagree for longer than a *)
(* grace period.                                                            *)
(*                                                                          *)
(* Time is kept as ages that stop counting one tick after the grace period, *)
(* when the guard no longer tells them apart.                               *)
(***************************************************************************)
EXTENDS Naturals, Sequences

CONSTANTS
    Peers,
    Grace,               \* PeerStaleEpochGracePeriod, in ticks
    MaxEpoch,            \* bound: last epoch of the chain
    NotStale             \* staleSince is zero

ASSUME GuardAssumption ==
    /\ Grace \in Nat /\ MaxEpoch \in Nat \ {0}
    /\ NotStale \notin 0..(Grace + 1)

Ages == 0..(Grace + 1)
Epochs == 1..MaxEpoch

VARIABLES
    backendEpoch,  \* the epoch of the backend node
    subscribed,    \* its newHeads subscription is alive
    head,          \* a new head waits for the backend loop
    bpc,           \* the backend loop: "select", "fetch", "store"
    fetched,       \* the epoch it has fetched and not stored yet
    localEpoch,    \* backendClient.progress, its epoch
    peerEpoch,     \* the epoch each remote node is in
    wire,          \* wire[p]: the ProgressMsg of p on its way, if any
    reported,      \* peer.progress, its epoch; 0 before the first report
    staleSince,    \* NotStale, or how long ago staleSince was set
    gone,          \* peers dropped by the guard
    sinceMatch     \* history: age of the last report found to agree

backendVars == <<backendEpoch, subscribed, head, bpc, fetched>>
ages == <<staleSince, sinceMatch>>
vars == <<backendVars, localEpoch, peerEpoch, wire, reported, gone, ages>>

Init ==
    /\ backendEpoch = 1 /\ fetched = 1 /\ localEpoch = 1
    /\ subscribed = TRUE /\ head = FALSE /\ bpc = "select"
    /\ peerEpoch \in [Peers -> Epochs]
    /\ wire = [p \in Peers |-> <<>>]
    /\ reported = [p \in Peers |-> 0]
    /\ staleSince = [p \in Peers |-> NotStale]
    /\ gone = {}
    /\ sinceMatch = [p \in Peers |-> 0]

Older(age) == IF age = NotStale \/ age > Grace THEN age ELSE age + 1

Tick ==
    /\ staleSince' = [p \in Peers |-> Older(staleSince[p])]
    /\ sinceMatch' = [p \in Peers |-> Older(sinceMatch[p])]
    /\ UNCHANGED <<backendVars, localEpoch, peerEpoch, wire, reported, gone>>

-----------------------------------------------------------------------------
(* The backend node, external, and NodeProgressLoop.                        *)

BackendAdvances ==
    /\ backendEpoch < MaxEpoch
    /\ backendEpoch' = backendEpoch + 1
    /\ head' = (head \/ subscribed)
    /\ UNCHANGED <<subscribed, bpc, fetched, localEpoch, peerEpoch, wire, reported,
                   gone, ages>>

NewHead ==
    /\ subscribed /\ ~head
    /\ head' = TRUE
    /\ UNCHANGED <<backendEpoch, subscribed, bpc, fetched, localEpoch, peerEpoch,
                   wire, reported, gone, ages>>

(* The loop does not watch sub.Err: it goes on waiting for heads.           *)
SubscriptionEnds ==
    /\ subscribed
    /\ subscribed' = FALSE
    /\ UNCHANGED <<backendEpoch, head, bpc, fetched, localEpoch, peerEpoch, wire,
                   reported, gone, ages>>

TakeHead ==
    /\ bpc = "select" /\ head
    /\ bpc' = "fetch"
    /\ head' = FALSE
    /\ UNCHANGED <<backendEpoch, subscribed, fetched, localEpoch, peerEpoch, wire,
                   reported, gone, ages>>

FetchOk ==
    /\ bpc = "fetch"
    /\ bpc' = "store"
    /\ fetched' = backendEpoch
    /\ UNCHANGED <<backendEpoch, subscribed, head, localEpoch, peerEpoch, wire,
                   reported, gone, ages>>

StoreNothing == 0
KeepOnFailure == localEpoch

LeaveLoop == "done"
StayInLoop == "select"

FetchFails ==
    /\ bpc = "fetch"
    /\ bpc' = StayInLoop
    /\ localEpoch' = KeepOnFailure
    /\ UNCHANGED <<backendEpoch, subscribed, head, fetched, peerEpoch, wire,
                   reported, gone, ages>>

Store ==
    /\ bpc = "store"
    /\ bpc' = "select"
    /\ localEpoch' = fetched
    /\ UNCHANGED <<backendEpoch, subscribed, head, fetched, peerEpoch, wire,
                   reported, gone, ages>>

-----------------------------------------------------------------------------
(* The peers.                                                               *)

PeerAdvances(p) ==
    /\ peerEpoch[p] < MaxEpoch
    /\ peerEpoch' = [peerEpoch EXCEPT ![p] = @ + 1]
    /\ UNCHANGED <<backendVars, localEpoch, wire, reported, gone, ages>>

Report(p) ==
    /\ p \notin gone /\ wire[p] = <<>>
    /\ wire' = [wire EXCEPT ![p] = <<peerEpoch[p]>>]
    /\ UNCHANGED <<backendVars, localEpoch, peerEpoch, reported, gone, ages>>

(* checkPeerStaleness.  The stamp is set by the first disagreeing report    *)
(* and cleared by the next agreeing one; a grace period of 0 turns the      *)
(* guard off, the clearing excepted.                                        *)
Restamp(p) == 0
StampOnce(p) == IF staleSince[p] = NotStale THEN 0 ELSE staleSince[p]

KeepStamp(p) == staleSince[p]
ClearStamp(p) == NotStale

Stamp(p, agrees) ==
    IF agrees THEN ClearStamp(p)
    ELSE IF Grace > 0 THEN StampOnce(p) ELSE staleSince[p]

TooStale(p) == Grace > 0 /\ StampOnce(p) > Grace

(* handleMsg for a ProgressMsg: the guard, then SetProgress; an error of    *)
(* the guard ends the message loop.                                         *)
HandleProgress(p) ==
    /\ p \notin gone /\ wire[p] # <<>>
    /\ wire' = [wire EXCEPT ![p] = <<>>]
    /\ LET epoch == Head(wire[p])
           agrees == epoch = localEpoch
       IN  /\ staleSince' = [staleSince EXCEPT ![p] = Stamp(p, agrees)]
           /\ sinceMatch' = [sinceMatch EXCEPT ![p] = IF agrees THEN 0 ELSE @]
           /\ IF ~agrees /\ TooStale(p)
              THEN gone' = gone \cup {p} /\ UNCHANGED reported
              ELSE reported' = [reported EXCEPT ![p] = epoch] /\ UNCHANGED gone
    /\ UNCHANGED <<backendVars, localEpoch, peerEpoch>>

-----------------------------------------------------------------------------
Next ==
    \/ Tick
    \/ BackendAdvances \/ NewHead \/ SubscriptionEnds
    \/ TakeHead \/ FetchOk \/ FetchFails \/ Store
    \/ \E p \in Peers : PeerAdvances(p) \/ Report(p) \/ HandleProgress(p)

Spec == Init /\ [][Next]_vars

(* Time passes, blocks keep coming, the loops run, not every RPC fails, and *)
(* a connected peer keeps reporting; nobody has to advance.                 *)
FairSpec ==
    /\ Spec
    /\ WF_vars(Tick) /\ WF_vars(NewHead) /\ WF_vars(TakeHead)
    /\ SF_vars(FetchOk) /\ WF_vars(Store)
    /\ \A p \in Peers : WF_vars(Report(p)) /\ WF_vars(HandleProgress(p))

-----------------------------------------------------------------------------
(* Properties.                                                              *)

TypeOK ==
    /\ backendEpoch \in Epochs /\ fetched \in Epochs /\ localEpoch \in Epochs
    /\ subscribed \in BOOLEAN /\ head \in BOOLEAN
    /\ bpc \in {"select", "fetch", "store"}
    /\ peerEpoch \in [Peers -> Epochs]
    /\ \A p \in Peers : wire[p] \in {<<>>} \cup {<<e>> : e \in Epochs}
    /\ reported \in [Peers -> 0..MaxEpoch]
    /\ staleSince \in [Peers -> Ages \cup {NotStale}]
    /\ gone \subseteq Peers
    /\ sinceMatch \in [Peers -> Ages]

(* The inductive invariant: what is stored was fetched and what was fetched *)
(* the backend has reached, and a stamp is never older than the last        *)
(* agreement, failed fetches and late stores notwithstanding                *)
(* (NodeProgressLoop, checkPeerStaleness).                                  *)
LocalTrails == localEpoch <= fetched /\ fetched <= backendEpoch
StampsFollow ==
    \A p \in Peers : staleSince[p] # NotStale => staleSince[p] <= sinceMatch[p]
GuardInv == TypeOK /\ LocalTrails /\ StampsFollow

(* The local epoch never goes back (NodeProgressLoop).                      *)
LocalNeverBack == [][localEpoch' >= localEpoch]_vars

(* A report that agrees buys a full grace period: no peer is dropped before *)
(* it has passed, whatever either side did in between (checkPeerStaleness). *)
AgreementForgives ==
    [][\A p \in gone' \ gone : sinceMatch[p] > Grace]_vars

(* A peer that never again agrees with the local epoch is dropped, if it    *)
(* keeps reporting.                                                         *)
LaggardsLeave ==
    \A p \in Peers : <>[](peerEpoch[p] # localEpoch) => <>(p \in gone)

(* The local epoch catches up in the end, failed fetches notwithstanding,   *)
(* unless the subscription is lost: the loop does not renew it.             *)
LocalCatchesUp ==
    \A e \in Epochs : backendEpoch = e ~> (localEpoch >= e \/ ~subscribed)
=============================================================================
