------------------------------- MODULE Sidecar -------------------------------
(***************************************************************************)
(* The sidecar, a program of its own: it subscribes to the pending          *)
(* transactions of the sentry and of standard nodes, pairs the              *)
(* announcements of a hash by the two types of node, reports which came     *)
(* first, and counts those that find no partner within a window.  One       *)
(* goroutine for each subscription, and the cleaner, which keeps the lock   *)
(* while it asks every node for its number of peers.                        *)
(*                                                                          *)
(* Time is discrete; the ticker of the cleaner fires every Period units.    *)
(* A subscription refused at the start ends the program, which ends a       *)
(* behaviour; a standard node that cannot be reached is left out.           *)
(***************************************************************************)
EXTENDS Naturals

CONSTANTS
    Sources,         \* the subscriptions
    Sonic,           \* those of them to the sentry
    Hashes,
    Window,          \* 120 seconds
    Period,          \* one minute
    MaxHold,         \* assumed of the nodes: they answer within this time
    MaxAnnounced,    \* bound: announcements of a hash by a node
    NoHash, NoEntry

ASSUME SidecarAssumption ==
    /\ Sonic \subseteq Sources
    /\ Window \in Nat /\ Period \in Nat \ {0} /\ MaxHold \in Nat
    /\ MaxAnnounced \in Nat
    /\ NoHash \notin Hashes
    /\ NoEntry \notin [isSonic : BOOLEAN, age : Nat]

VARIABLES
    seen,        \* seen[h]: the arrival waiting for its partner, or NoEntry
    mu,          \* mu is held by the cleaner
    spc,         \* spc[s]: "off", "select", "lock", "gone"
    got,         \* got[s]: the hash s waits for the lock with, or NoHash
    cpc,         \* the cleaner: "tick", "calls"
    tickC,       \* a tick lies in the channel of the ticker
    phase,       \* time since the ticker fired
    held,        \* time since the cleaner has the lock
    announced,   \* announced[s][h]: announcements received
    recorded,    \* history: recorded[b][h]: calls of record with isSonic = b
    deltas,      \* history: deltas[h]: pairs reported
    orphans,     \* orphans[b][h]: what the two orphan counters count
    duplicates   \* history: duplicates[b][h]: announcements dropped

clockVars == <<tickC, phase, held>>
countVars == <<recorded, deltas, orphans, duplicates>>
vars == <<seen, mu, spc, got, cpc, clockVars, announced, countVars>>

Tracked == {h \in Hashes : seen[h] # NoEntry}

Zero == [b \in BOOLEAN |-> [h \in Hashes |-> 0]]

Init ==
    /\ seen = [h \in Hashes |-> NoEntry]
    /\ mu = FALSE
    /\ spc = [s \in Sources |-> "off"]
    /\ got = [s \in Sources |-> NoHash]
    /\ cpc = "tick"
    /\ tickC = FALSE /\ phase = 0 /\ held = 0
    /\ announced = [s \in Sources |-> [h \in Hashes |-> 0]]
    /\ recorded = Zero
    /\ deltas = [h \in Hashes |-> 0]
    /\ orphans = Zero
    /\ duplicates = Zero

-----------------------------------------------------------------------------
(* A subscription.                                                          *)

(* main reaches the node and the goroutine subscribes; or it does not reach *)
(* it, and goes on without it unless it is the sentry.                      *)
Subscribe(s) ==
    /\ spc[s] = "off"
    /\ \/ spc' = [spc EXCEPT ![s] = "select"]
       \/ s \notin Sonic /\ spc' = [spc EXCEPT ![s] = "gone"]
    /\ UNCHANGED <<seen, mu, got, cpc, clockVars, announced, countVars>>

(* The goroutine takes an announcement from its channel.                    *)
Receive(s, h) ==
    /\ spc[s] = "select"
    /\ announced[s][h] < MaxAnnounced
    /\ announced' = [announced EXCEPT ![s][h] = @ + 1]
    /\ spc' = [spc EXCEPT ![s] = "lock"]
    /\ got' = [got EXCEPT ![s] = h]
    /\ UNCHANGED <<seen, mu, cpc, clockVars, countVars>>

(* The subscription fails: it is not renewed.                               *)
SubscriptionFails(s) ==
    /\ spc[s] = "select"
    /\ spc' = [spc EXCEPT ![s] = "gone"]
    /\ UNCHANGED <<seen, mu, got, cpc, clockVars, announced, countVars>>

(* What record does with an announcement, under the lock.                   *)
First(h, b) ==
    /\ seen[h] = NoEntry
    /\ seen' = [seen EXCEPT ![h] = [isSonic |-> b, age |-> 0]]
    /\ UNCHANGED <<deltas, duplicates>>

Duplicate(h, b) ==
    /\ seen[h] # NoEntry /\ seen[h].isSonic = b
    /\ duplicates' = [duplicates EXCEPT ![b][h] = @ + 1]
    /\ UNCHANGED <<seen, deltas>>

AfterPairKept(h) == seen
AfterPair(h) == [seen EXCEPT ![h] = NoEntry]
Pair(h, b) ==
    /\ seen[h] # NoEntry /\ seen[h].isSonic # b
    /\ deltas' = [deltas EXCEPT ![h] = @ + 1]
    /\ seen' = AfterPair(h)
    /\ UNCHANGED duplicates

Record(s) ==
    /\ spc[s] = "lock" /\ ~mu
    /\ LET h == got[s]
           b == s \in Sonic
       IN /\ First(h, b) \/ Duplicate(h, b) \/ Pair(h, b)
          /\ recorded' = [recorded EXCEPT ![b][h] = @ + 1]
    /\ spc' = [spc EXCEPT ![s] = "select"]
    /\ got' = [got EXCEPT ![s] = NoHash]
    /\ UNCHANGED <<mu, cpc, clockVars, announced, orphans>>

-----------------------------------------------------------------------------
(* The cleaner.                                                             *)

SonicOld(h) == seen[h].age > Window /\ seen[h].isSonic
Old(h) == seen[h].age > Window
Stale == {h \in Tracked : Old(h)}

(* On a tick: lock, count and drop what is too old.                         *)
Clean ==
    /\ cpc = "tick" /\ tickC /\ ~mu
    /\ cpc' = "calls" /\ tickC' = FALSE
    /\ mu' = TRUE /\ held' = 0
    /\ orphans' = [b \in BOOLEAN |-> [h \in Hashes |->
                    orphans[b][h] +
                    (IF h \in Stale /\ seen[h].isSonic = b THEN 1 ELSE 0)]]
    /\ seen' = [h \in Hashes |-> IF h \in Stale THEN NoEntry ELSE seen[h]]
    /\ UNCHANGED <<spc, got, phase, announced, recorded, deltas, duplicates>>

(* The nodes have answered, or the calls have failed; the counts of peers   *)
(* are printed, then the lock is released.                                  *)
Locked == TRUE
Unlocked == FALSE
CallsDone ==
    /\ cpc = "calls" /\ cpc' = "tick"
    /\ mu' = Unlocked
    /\ held' = 0
    /\ UNCHANGED <<seen, spc, got, tickC, phase, announced, countVars>>

-----------------------------------------------------------------------------
(* Time goes on; a tick that finds the channel full is lost.  The cleaner   *)
(* does not let time pass when it could go on, and waits at most MaxHold    *)
(* for the nodes.                                                           *)
Tick ==
    /\ ~(cpc = "tick" /\ tickC /\ ~mu)
    /\ cpc = "calls" => held < MaxHold
    /\ held' = IF cpc = "calls" THEN held + 1 ELSE 0
    /\ phase' = (phase + 1) % Period
    /\ tickC' = (tickC \/ phase' = 0)
    /\ seen' = [h \in Hashes |-> IF h \in Tracked
                                 THEN [seen[h] EXCEPT !.age = @ + 1] ELSE NoEntry]
    /\ UNCHANGED <<mu, spc, got, cpc, announced, countVars>>

Next ==
    \/ \E s \in Sources : \/ Subscribe(s) \/ SubscriptionFails(s) \/ Record(s)
                          \/ \E h \in Hashes : Receive(s, h)
    \/ Clean \/ CallsDone \/ Tick

Spec == Init /\ [][Next]_vars

(* Time goes on, calls end, the cleaner runs, and the lock does not starve  *)
(* a goroutine that waits for it.                                           *)
FairSpec ==
    /\ Spec
    /\ WF_vars(Tick) /\ WF_vars(Clean) /\ WF_vars(CallsDone)
    /\ \A s \in Sources : SF_vars(Record(s))

-----------------------------------------------------------------------------
(* Properties.                                                              *)

TypeOK ==
    /\ seen \in [Hashes -> [isSonic : BOOLEAN, age : Nat] \cup {NoEntry}]
    /\ mu \in BOOLEAN /\ tickC \in BOOLEAN
    /\ spc \in [Sources -> {"off", "select", "lock", "gone"}]
    /\ got \in [Sources -> Hashes \cup {NoHash}]
    /\ cpc \in {"tick", "calls"}
    /\ phase \in 0..(Period - 1) /\ held \in 0..MaxHold

(* Every recorded announcement has had exactly one of the fates it can      *)
(* have: it is waiting, half of one reported pair, counted as one orphan of *)
(* its type, or dropped as a repetition.  So no pair is also an orphan, and *)
(* a hash that was paired is an orphan later only when it was announced     *)
(* again (record, the cleaner).                                             *)
AnnouncementsAccounted ==
    /\ TypeOK
    /\ \A b \in BOOLEAN, h \in Hashes :
        recorded[b][h] = deltas[h] + orphans[b][h] + duplicates[b][h]
                         + (IF h \in Tracked /\ seen[h].isSonic = b THEN 1 ELSE 0)

(* No arrival waits for its partner longer than the window and one period   *)
(* of the cleaner, or one round of its calls if that takes longer: so late  *)
(* may a pair still be reported, and so late is an orphan counted.          *)
TrackedNotLong ==
    \A h \in Tracked :
        seen[h].age <= Window + (IF MaxHold > Period THEN MaxHold ELSE Period)

(* An announcement that was received is recorded in the end, also while the *)
(* cleaner keeps the lock for its calls.                                    *)
ReceivedIsRecorded == \A s \in Sources : spc[s] = "lock" ~> spc[s] # "lock"
=============================================================================
