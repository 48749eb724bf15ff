-------------------------- MODULE EpochGuardProofs --------------------------
(***************************************************************************)
(* Proofs about EpochGuard for any peers, grace period and last epoch.      *)
(***************************************************************************)
EXTENDS EpochGuard, TLAPS

LEMMA InitGuard == Init => GuardInv
<1> SUFFICES ASSUME Init PROVE GuardInv
  OBVIOUS
<1>1. TypeOK
  <2>1. subscribed \in BOOLEAN /\ head \in BOOLEAN
    BY ZenonT(30) DEF Init
  <2>2. 1 \in Epochs /\ 0 \in Ages /\ 0 \in 0..MaxEpoch
    BY GuardAssumption DEF Epochs, Ages
  <2>3. /\ backendEpoch \in Epochs /\ fetched \in Epochs /\ localEpoch \in Epochs
        /\ bpc \in {"select", "fetch", "store"} /\ peerEpoch \in [Peers -> Epochs]
        /\ gone \subseteq Peers
    BY <2>2 DEF Init
  <2>4. /\ \A p \in Peers : wire[p] \in {<<>>} \cup {<<e>> : e \in Epochs}
        /\ reported \in [Peers -> 0..MaxEpoch]
        /\ staleSince \in [Peers -> Ages \cup {NotStale}]
        /\ sinceMatch \in [Peers -> Ages]
    BY <2>2 DEF Init
  <2>5. QED
    BY <2>1, <2>3, <2>4 DEF TypeOK
<1>2. LocalTrails /\ StampsFollow
  BY GuardAssumption DEF Init, LocalTrails, StampsFollow
<1>3. QED
  BY <1>1, <1>2 DEF GuardInv

(* One age after a tick.                                                    *)
LEMMA OlderAge ==
    ASSUME NEW age \in Ages
    PROVE  /\ Older(age) \in Ages
           /\ Older(age) # NotStale
           /\ Older(age) = IF age > Grace THEN age ELSE age + 1
BY GuardAssumption DEF Older, Ages

(* The steps of the backend node and of NodeProgressLoop, which leave the   *)
(* peers alone.                                                             *)
BackendStep ==
    BackendAdvances \/ NewHead \/ SubscriptionEnds \/ TakeHead \/ FetchOk
    \/ FetchFails \/ Store

LEMMA BackendKeeps ==
    ASSUME GuardInv, BackendStep
    PROVE  GuardInv' /\ localEpoch' >= localEpoch /\ gone' = gone
<1> USE GuardAssumption DEF GuardInv, LocalTrails, Epochs
<1>1. UNCHANGED <<peerEpoch, wire, reported, gone, ages>>
  BY DEF BackendStep, BackendAdvances, NewHead, SubscriptionEnds, TakeHead,
         FetchOk, FetchFails, Store
<1>2. subscribed' \in BOOLEAN /\ head' \in BOOLEAN
  <2>1. subscribed \in BOOLEAN /\ head \in BOOLEAN
    BY DEF TypeOK
  <2>2. CASE BackendAdvances
    <3>1. head' = (head \/ subscribed) /\ subscribed' = subscribed
      BY <2>2 DEF BackendAdvances
    <3>2. QED
      BY <2>1, <3>1, ZenonT(30)
  <2>3. CASE NewHead \/ TakeHead
    BY <2>1, <2>3, ZenonT(30) DEF NewHead, TakeHead
  <2>4. CASE SubscriptionEnds \/ FetchOk \/ FetchFails \/ Store
    BY <2>1, <2>4, ZenonT(30) DEF SubscriptionEnds, FetchOk, FetchFails, Store
  <2>5. QED
    BY <2>2, <2>3, <2>4 DEF BackendStep
<1>3. /\ backendEpoch \in Nat /\ fetched \in Nat /\ localEpoch \in Nat
      /\ localEpoch <= fetched /\ fetched <= backendEpoch
      /\ 1 <= localEpoch /\ backendEpoch <= MaxEpoch
  BY DEF TypeOK
<1>4. bpc' \in {"select", "fetch", "store"}
  BY DEF TypeOK, BackendStep, BackendAdvances, NewHead, SubscriptionEnds, TakeHead,
         FetchOk, FetchFails, Store, StayInLoop
<1>5. /\ backendEpoch' \in Epochs /\ fetched' \in Epochs /\ localEpoch' \in Epochs
      /\ LocalTrails' /\ localEpoch' >= localEpoch
  <2>1. CASE BackendAdvances
    BY <1>3, <2>1 DEF BackendAdvances
  <2>2. CASE NewHead \/ SubscriptionEnds \/ TakeHead
    BY <1>3, <2>2 DEF NewHead, SubscriptionEnds, TakeHead
  <2>3. CASE FetchOk \/ FetchFails \/ Store
    BY <1>3, <2>3 DEF FetchOk, FetchFails, Store, KeepOnFailure
  <2>4. QED
    BY <2>1, <2>2, <2>3 DEF BackendStep
<1>6. TypeOK' /\ StampsFollow'
  BY <1>1, <1>2, <1>4, <1>5 DEF TypeOK, StampsFollow, ages
<1>7. QED
  BY <1>1, <1>5, <1>6

LEMMA TickKeeps ==
    ASSUME GuardInv, Tick
    PROVE  GuardInv'
<1> USE GuardAssumption DEF GuardInv
<1>1. TypeOK'
  <2>1. ASSUME NEW p \in Peers
        PROVE  Older(staleSince[p]) \in Ages \cup {NotStale} /\ Older(sinceMatch[p]) \in Ages
    BY OlderAge DEF TypeOK, Older
  <2>2. QED
    BY <2>1 DEF Tick, TypeOK, backendVars
<1>2. StampsFollow'
  <2> SUFFICES ASSUME NEW p \in Peers, staleSince'[p] # NotStale
               PROVE  staleSince'[p] <= sinceMatch'[p]
    BY DEF StampsFollow
  <2>1. staleSince'[p] = Older(staleSince[p]) /\ sinceMatch'[p] = Older(sinceMatch[p])
    BY DEF Tick
  <2>2. staleSince[p] # NotStale
    BY <2>1 DEF Older
  <2>3. staleSince[p] \in Ages /\ sinceMatch[p] \in Ages /\ staleSince[p] <= sinceMatch[p]
    BY <2>2 DEF TypeOK, StampsFollow
  <2>4. QED
    BY <2>1, <2>3, OlderAge DEF Ages
<1>3. LocalTrails'
  BY DEF Tick, LocalTrails, backendVars
<1>4. QED
  BY <1>1, <1>2, <1>3

(* A report of p: the stamps keep following, and p is dropped only when its *)
(* last agreement is older than the grace period.                           *)
LEMMA ReportKeeps ==
    ASSUME GuardInv, NEW p \in Peers, HandleProgress(p)
    PROVE  GuardInv' /\ \A q \in gone' \ gone : sinceMatch[q] > Grace
<1> USE GuardAssumption DEF GuardInv
<1> DEFINE epoch == Head(wire[p])
           agrees == epoch = localEpoch
<1>1. epoch \in Epochs
  BY DEF HandleProgress, TypeOK
<1>2. Stamp(p, agrees) \in Ages \cup {NotStale}
  BY DEF Stamp, ClearStamp, StampOnce, TypeOK, Ages
<1>3. /\ staleSince' = [staleSince EXCEPT ![p] = Stamp(p, agrees)]
      /\ sinceMatch' = [sinceMatch EXCEPT ![p] = IF agrees THEN 0 ELSE sinceMatch[p]]
      /\ wire' = [wire EXCEPT ![p] = <<>>]
      /\ UNCHANGED <<backendVars, localEpoch, peerEpoch>>
      /\ IF ~agrees /\ TooStale(p)
         THEN gone' = gone \cup {p} /\ UNCHANGED reported
         ELSE reported' = [reported EXCEPT ![p] = epoch] /\ UNCHANGED gone
  BY DEF HandleProgress
<1>4. TypeOK'
  <2>1. staleSince' \in [Peers -> Ages \cup {NotStale}]
    BY <1>2, <1>3 DEF TypeOK
  <2>2. sinceMatch' \in [Peers -> Ages]
    BY <1>3 DEF TypeOK, Ages
  <2>3. gone' \subseteq Peers /\ reported' \in [Peers -> 0..MaxEpoch]
    BY <1>1, <1>3 DEF TypeOK, Epochs
  <2>4. \A q \in Peers : wire'[q] \in {<<>>} \cup {<<e>> : e \in Epochs}
    BY <1>3 DEF TypeOK
  <2>5. QED
    BY <1>3, <2>1, <2>2, <2>3, <2>4 DEF TypeOK, backendVars
<1>5. StampsFollow'
  <2> SUFFICES ASSUME NEW q \in Peers, staleSince'[q] # NotStale
               PROVE  staleSince'[q] <= sinceMatch'[q]
    BY DEF StampsFollow
  <2>1. CASE q # p
    BY <1>3, <2>1 DEF StampsFollow, TypeOK
  <2>2. CASE q = p
    <3>1. staleSince'[p] = Stamp(p, agrees) /\ ~agrees /\ sinceMatch'[p] = sinceMatch[p]
      BY <1>3, <2>2 DEF Stamp, ClearStamp, TypeOK
    <3>2. Stamp(p, agrees) \in {0, staleSince[p]}
      BY <3>1 DEF Stamp, StampOnce
    <3>3. sinceMatch[p] \in Nat
      BY DEF TypeOK, Ages
    <3>4. QED
      BY <2>2, <3>1, <3>2, <3>3 DEF StampsFollow
  <2>3. QED
    BY <2>1, <2>2
<1>6. LocalTrails'
  BY <1>3 DEF LocalTrails, backendVars
<1>7. ASSUME NEW q \in gone' \ gone PROVE sinceMatch[q] > Grace
  <2>1. q = p /\ TooStale(p)
    BY <1>3, <1>7
  <2>2. staleSince[p] # NotStale /\ staleSince[p] > Grace
    BY <2>1 DEF TooStale, StampOnce
  <2>3. staleSince[p] \in Nat /\ sinceMatch[p] \in Nat /\ staleSince[p] <= sinceMatch[p]
    BY <2>2 DEF TypeOK, StampsFollow, Ages
  <2>4. QED
    BY <2>1, <2>2, <2>3
<1>8. QED
  BY <1>4, <1>5, <1>6, <1>7

LEMMA RemoteKeeps ==
    ASSUME GuardInv, NEW p \in Peers, PeerAdvances(p) \/ Report(p)
    PROVE  GuardInv' /\ gone' = gone /\ localEpoch' = localEpoch
<1> USE GuardAssumption DEF GuardInv
<1>1. TypeOK'
  <2>1. peerEpoch' \in [Peers -> Epochs]
    <3>1. peerEpoch \in [Peers -> Epochs]
      BY DEF TypeOK
    <3>2. CASE PeerAdvances(p)
      <4>1. peerEpoch[p] + 1 \in Epochs
        BY <3>1, <3>2 DEF PeerAdvances, Epochs
      <4>2. QED
        BY <3>1, <3>2, <4>1 DEF PeerAdvances
    <3>3. CASE Report(p)
      BY <3>1, <3>3 DEF Report
    <3>4. QED
      BY <3>2, <3>3
  <2>2. \A q \in Peers : wire'[q] \in {<<>>} \cup {<<e>> : e \in Epochs}
    <3> SUFFICES ASSUME NEW q \in Peers
                 PROVE  wire'[q] \in {<<>>} \cup {<<e>> : e \in Epochs}
      OBVIOUS
    <3>1. CASE PeerAdvances(p)
      BY <3>1 DEF PeerAdvances, TypeOK
    <3>2. CASE Report(p)
      <4>1. peerEpoch[p] \in Epochs
        BY DEF TypeOK
      <4>2. wire'[q] = wire[q] \/ wire'[q] = <<peerEpoch[p]>>
        BY <3>2 DEF Report, TypeOK
      <4>3. QED
        BY <4>1, <4>2 DEF TypeOK
    <3>3. QED
      BY <3>1, <3>2
  <2>3. UNCHANGED <<backendVars, localEpoch, reported, gone, ages>>
    BY DEF PeerAdvances, Report
  <2>4. QED
    BY <2>1, <2>2, <2>3 DEF TypeOK, backendVars, ages
<1>2. LocalTrails' /\ StampsFollow' /\ gone' = gone /\ localEpoch' = localEpoch
  BY DEF GuardInv, LocalTrails, StampsFollow, PeerAdvances, Report, backendVars, ages
<1>3. QED
  BY <1>1, <1>2 DEF GuardInv

(* Every step: the invariant, and what the two action properties say.       *)
LEMMA GuardStep ==
    ASSUME GuardInv, [Next]_vars
    PROVE  /\ GuardInv'
           /\ localEpoch' >= localEpoch
           /\ \A p \in gone' \ gone : sinceMatch[p] > Grace
<1>0. localEpoch \in Nat
  BY DEF GuardInv, TypeOK, Epochs
<1>1. CASE Tick
  BY <1>0, <1>1, TickKeeps DEF Tick
<1>2. CASE BackendStep
  BY <1>2, BackendKeeps
<1>3. ASSUME NEW p \in Peers, PeerAdvances(p) \/ Report(p) \/ HandleProgress(p)
      PROVE  /\ GuardInv'
             /\ localEpoch' >= localEpoch
             /\ \A q \in gone' \ gone : sinceMatch[q] > Grace
  <2>1. CASE PeerAdvances(p) \/ Report(p)
    BY <1>0, <2>1, RemoteKeeps
  <2>2. CASE HandleProgress(p)
    <3>1. localEpoch' = localEpoch
      BY <2>2 DEF HandleProgress
    <3>2. QED
      BY <1>0, <2>2, <3>1, ReportKeeps
  <2>3. QED
    BY <1>3, <2>1, <2>2
<1>4. CASE UNCHANGED vars
  BY <1>0, <1>4 DEF vars, backendVars, ages, GuardInv, TypeOK, LocalTrails, StampsFollow
<1>5. QED
  BY <1>1, <1>2, <1>3, <1>4 DEF Next, BackendStep

(* The types, the order of the epochs and the age of the stamps, in every   *)
(* reachable state (NodeProgressLoop, checkPeerStaleness).                  *)
THEOREM GuardInvariant == Spec => []GuardInv
BY InitGuard, GuardStep, PTL DEF Spec

(* The local epoch never goes back (NodeProgressLoop).                      *)
THEOREM LocalEpochNeverBack == Spec => LocalNeverBack
<1>1. GuardInv /\ [Next]_vars => [localEpoch' >= localEpoch]_vars
  BY GuardStep
<1>2. QED
  BY <1>1, GuardInvariant, PTL DEF Spec, LocalNeverBack

(* No peer is dropped before its last agreement is older than the grace     *)
(* period (checkPeerStaleness).                                             *)
THEOREM AgreementIsForgiven == Spec => AgreementForgives
<1>1. GuardInv /\ [Next]_vars => [\A p \in gone' \ gone : sinceMatch[p] > Grace]_vars
  BY GuardStep
<1>2. QED
  BY <1>1, GuardInvariant, PTL DEF Spec, AgreementForgives
=============================================================================
