---------------------------- MODULE SidecarProofs ----------------------------
(***************************************************************************)
(* That the sidecar accounts for every announcement, for any nodes, hashes, *)
(* window and period.  The accounting is inductive once the history         *)
(* counters are known to be numbers and a goroutine that waits for the lock *)
(* is known to have a hash.                                                 *)
(***************************************************************************)
EXTENDS Sidecar, TLAPS

Entry == [isSonic : BOOLEAN, age : Nat]
Waits(h, b) == IF h \in Tracked /\ seen[h].isSonic = b THEN 1 ELSE 0

Counters ==
    /\ recorded \in [BOOLEAN -> [Hashes -> Nat]]
    /\ deltas \in [Hashes -> Nat]
    /\ orphans \in [BOOLEAN -> [Hashes -> Nat]]
    /\ duplicates \in [BOOLEAN -> [Hashes -> Nat]]

HasHash == \A s \in Sources : spc[s] = "lock" => got[s] \in Hashes

Accounted ==
    \A b \in BOOLEAN, h \in Hashes :
        recorded[b][h] = deltas[h] + orphans[b][h] + duplicates[b][h] + Waits(h, b)

IInv == TypeOK /\ Counters /\ HasHash /\ Accounted

LEMMA InitIInv == Init => IInv
  <1> SUFFICES ASSUME Init PROVE IInv
    OBVIOUS
  <1>1. TypeOK
    <2>1. mu \in BOOLEAN /\ tickC \in BOOLEAN
      BY Zenon DEF Init
    <2>2. phase \in 0..(Period - 1) /\ held \in 0..MaxHold
      BY SMT, SidecarAssumption DEF Init
    <2>3. /\ seen \in [Hashes -> [isSonic : BOOLEAN, age : Nat] \cup {NoEntry}]
          /\ spc \in [Sources -> {"off", "select", "lock", "gone"}]
          /\ got \in [Sources -> Hashes \cup {NoHash}]
          /\ cpc \in {"tick", "calls"}
      BY DEF Init
    <2>4. QED
      BY <2>1, <2>2, <2>3 DEF TypeOK
  <1>2. Counters /\ HasHash
    BY DEF Init, Counters, HasHash, Zero
  <1>3. Accounted
    BY DEF Init, Accounted, Waits, Tracked, Zero
  <1>4. QED
    BY <1>1, <1>2, <1>3 DEF IInv

(* A step that leaves the entries' types and the counters alone keeps the   *)
(* accounting.                                                              *)
LEMMA SameCounts ==
    ASSUME Counters, Accounted, UNCHANGED countVars,
           \A h \in Hashes, b \in BOOLEAN : Waits(h, b)' = Waits(h, b)
    PROVE  Counters' /\ Accounted'
  BY DEF Counters, Accounted, countVars

(* A counter of a table of counters goes up.                                *)
LEMMA CountOne ==
    ASSUME NEW f \in [BOOLEAN -> [Hashes -> Nat]], NEW b \in BOOLEAN, NEW h \in Hashes
    PROVE  [f EXCEPT ![b][h] = @ + 1] \in [BOOLEAN -> [Hashes -> Nat]]
  OBVIOUS

(* record keeps the account of the hash, and of every other one.            *)
LEMMA RecordKeeps ==
    ASSUME IInv, NEW s \in Sources, Record(s)
    PROVE  IInv'
  <1>1. PICK h \in Hashes, b \in BOOLEAN :
            /\ recorded' = [recorded EXCEPT ![b][h] = @ + 1]
            /\ First(h, b) \/ Duplicate(h, b) \/ Pair(h, b)
    <2>1. got[s] \in Hashes
      BY DEF Record, IInv, HasHash
    <2>2. (s \in Sonic) \in BOOLEAN
      OBVIOUS
    <2>3. /\ recorded' = [recorded EXCEPT ![s \in Sonic][got[s]] = @ + 1]
          /\ \/ First(got[s], s \in Sonic) \/ Duplicate(got[s], s \in Sonic)
             \/ Pair(got[s], s \in Sonic)
      BY DEF Record
    <2>4. QED
      BY <2>1, <2>2, <2>3, Zenon
  <1>2. seen' \in [Hashes -> Entry \cup {NoEntry}]
    BY <1>1 DEF IInv, TypeOK, Entry, First, Duplicate, Pair, AfterPair
  <1>3. TypeOK'
    <2>1. UNCHANGED <<mu, tickC, cpc, phase, held>>
      <3>1. UNCHANGED <<mu, cpc, clockVars>>
        BY Zenon DEF Record
      <3>2. QED
        BY <3>1, Zenon DEF clockVars
    <2>2. /\ spc' \in [Sources -> {"off", "select", "lock", "gone"}]
          /\ got' \in [Sources -> Hashes \cup {NoHash}]
      BY DEF IInv, TypeOK, Record
    <2>3. /\ mu' \in BOOLEAN /\ tickC' \in BOOLEAN /\ cpc' \in {"tick", "calls"}
          /\ phase' \in 0..(Period - 1) /\ held' \in 0..MaxHold
      BY <2>1, Zenon DEF IInv, TypeOK
    <2>4. QED
      BY <1>2, <2>2, <2>3, Zenon DEF TypeOK, Entry
  <1>4. HasHash'
    BY DEF IInv, TypeOK, HasHash, Record
  <1>5. Counters'
    <2>1. recorded' \in [BOOLEAN -> [Hashes -> Nat]]
      BY <1>1, CountOne DEF IInv, Counters
    <2>2. deltas' \in [Hashes -> Nat]
      BY <1>1 DEF IInv, Counters, First, Duplicate, Pair
    <2>3. duplicates' \in [BOOLEAN -> [Hashes -> Nat]]
      <3>1. duplicates' = duplicates \/ duplicates' = [duplicates EXCEPT ![b][h] = @ + 1]
        BY <1>1, Zenon DEF First, Duplicate, Pair
      <3>2. [duplicates EXCEPT ![b][h] = @ + 1] \in [BOOLEAN -> [Hashes -> Nat]]
        BY CountOne DEF IInv, Counters
      <3>3. QED
        BY <3>1, <3>2, Zenon DEF IInv, Counters
    <2>4. orphans' = orphans
      BY DEF Record
    <2>5. QED
      BY <2>1, <2>2, <2>3, <2>4 DEF IInv, Counters
  <1>6. Accounted'
    <2> SUFFICES ASSUME NEW c \in BOOLEAN, NEW x \in Hashes
                 PROVE  recorded'[c][x] = deltas'[x] + orphans'[c][x] + duplicates'[c][x]
                                          + Waits(x, c)'
      BY DEF Accounted
    <2>1. recorded[c][x] = deltas[x] + orphans[c][x] + duplicates[c][x] + Waits(x, c)
      BY DEF IInv, Accounted
    <2>2. /\ recorded[c][x] \in Nat /\ deltas[x] \in Nat
          /\ orphans[c][x] \in Nat /\ duplicates[c][x] \in Nat /\ orphans' = orphans
      BY DEF IInv, Counters, Record
    <2>3. CASE x # h
      <3>1. seen'[x] = seen[x]
        BY <1>1, <2>3 DEF IInv, TypeOK, First, Duplicate, Pair, AfterPair
      <3>2. Waits(x, c)' = Waits(x, c)
        BY <3>1 DEF Waits, Tracked
      <3>3. recorded'[c][x] = recorded[c][x] /\ deltas'[x] = deltas[x]
            /\ duplicates'[c][x] = duplicates[c][x]
        BY <1>1, <2>3 DEF IInv, Counters, First, Duplicate, Pair
      <3>4. QED
        BY <2>1, <2>2, <3>2, <3>3
    <2>4. CASE x = h
      <3>1. recorded'[c][x] = recorded[c][x] + (IF c = b THEN 1 ELSE 0)
        BY <1>1, <2>4 DEF IInv, Counters
      <3>2. seen[x] \in Entry \cup {NoEntry}
        BY DEF IInv, TypeOK, Entry
      <3>3. CASE First(h, b)
        <4>1. seen'[x] = [isSonic |-> b, age |-> 0] /\ seen'[x] \in Entry
          BY <2>4, <3>3, <1>1 DEF First, IInv, TypeOK, Entry
        <4>2. seen'[x] # NoEntry /\ seen[x] = NoEntry
          BY <4>1, <2>4, <3>3, SidecarAssumption DEF First, Entry
        <4>3. Waits(x, c) = 0 /\ Waits(x, c)' = (IF c = b THEN 1 ELSE 0)
          BY <4>1, <4>2 DEF Waits, Tracked
        <4>4. QED
          BY <2>1, <2>2, <3>1, <3>3, <4>3 DEF First
      <3>4. CASE Duplicate(h, b)
        <4>1. duplicates'[c][x] = duplicates[c][x] + (IF c = b THEN 1 ELSE 0)
          BY <1>1, <2>4, <3>4 DEF IInv, Counters, Duplicate
        <4>2. Waits(x, c)' = Waits(x, c) /\ deltas' = deltas
          BY <3>4 DEF Waits, Tracked, Duplicate
        <4>3. Waits(x, c) \in Nat
          BY DEF Waits
        <4>4. QED
          BY <2>1, <2>2, <3>1, <4>1, <4>2, <4>3
      <3>5. CASE Pair(h, b)
        <4>1. deltas'[x] = deltas[x] + 1 /\ duplicates' = duplicates
          BY <1>1, <2>4, <3>5 DEF IInv, Counters, Pair
        <4>2. seen'[x] = NoEntry
          BY <2>4, <3>5 DEF Pair, AfterPair, IInv, TypeOK
        <4>3. seen[x] \in Entry /\ seen[x] # NoEntry /\ seen[x].isSonic # b
          BY <2>4, <3>2, <3>5 DEF Pair
        <4>4. seen[x].isSonic = c <=> c # b
          BY <4>3, <1>1 DEF Entry
        <4>5. Waits(x, c) = (IF c = b THEN 0 ELSE 1) /\ Waits(x, c)' = 0
          BY <4>2, <4>3, <4>4 DEF Waits, Tracked
        <4>6. QED
          BY <2>1, <2>2, <3>1, <4>1, <4>5
      <3>6. QED
        BY <1>1, <3>3, <3>4, <3>5
    <2>5. QED
      BY <2>3, <2>4
  <1>7. QED
    BY <1>3, <1>4, <1>5, <1>6 DEF IInv

(* The cleaner turns what waited too long into orphans of its type.         *)
LEMMA CleanKeeps ==
    ASSUME IInv, Clean
    PROVE  IInv'
  <1>1. /\ seen' = [h \in Hashes |-> IF h \in Stale THEN NoEntry ELSE seen[h]]
        /\ orphans' = [b \in BOOLEAN |-> [h \in Hashes |->
              orphans[b][h] + (IF h \in Stale /\ seen[h].isSonic = b THEN 1 ELSE 0)]]
        /\ UNCHANGED <<recorded, deltas, duplicates, spc, got, phase>>
    BY DEF Clean
  <1>2. Counters'
    BY <1>1 DEF IInv, Counters
  <1>3. HasHash'
    BY <1>1 DEF IInv, HasHash
  <1>4. TypeOK'
    <2>1. seen' \in [Hashes -> Entry \cup {NoEntry}]
      BY <1>1 DEF IInv, TypeOK, Entry
    <2>2. held' \in 0..MaxHold
      BY SidecarAssumption DEF Clean
    <2>3. mu' \in BOOLEAN /\ tickC' \in BOOLEAN /\ cpc' \in {"tick", "calls"}
      BY Zenon DEF Clean
    <2>4. QED
      BY <1>1, <2>1, <2>2, <2>3, Zenon DEF IInv, TypeOK, Entry
  <1>5. Accounted'
    <2> SUFFICES ASSUME NEW c \in BOOLEAN, NEW x \in Hashes
                 PROVE  recorded'[c][x] = deltas'[x] + orphans'[c][x] + duplicates'[c][x]
                                          + Waits(x, c)'
      BY DEF Accounted
    <2>1. recorded[c][x] = deltas[x] + orphans[c][x] + duplicates[c][x] + Waits(x, c)
      BY DEF IInv, Accounted
    <2>2. /\ recorded[c][x] \in Nat /\ deltas[x] \in Nat
          /\ orphans[c][x] \in Nat /\ duplicates[c][x] \in Nat
      BY DEF IInv, Counters
    <2>3. orphans'[c][x] + Waits(x, c)' = orphans[c][x] + Waits(x, c)
      <3>1. CASE x \in Stale
        BY <1>1, <2>2, <3>1 DEF Waits, Tracked, Stale
      <3>2. CASE x \notin Stale
        BY <1>1, <2>2, <3>2 DEF Waits, Tracked
      <3>3. QED
        BY <3>1, <3>2
    <2>4. Waits(x, c) \in Nat /\ Waits(x, c)' \in Nat /\ orphans'[c][x] \in Nat
      BY <1>2 DEF Waits, Counters
    <2>5. QED
      BY <1>1, <2>1, <2>2, <2>3, <2>4
  <1>6. QED
    BY <1>2, <1>3, <1>4, <1>5 DEF IInv

(* Time only ages the entries.                                              *)
LEMMA TickKeeps ==
    ASSUME IInv, Tick
    PROVE  IInv'
  <1>1. /\ seen' = [h \in Hashes |-> IF h \in Tracked
                                     THEN [seen[h] EXCEPT !.age = @ + 1] ELSE NoEntry]
        /\ UNCHANGED <<countVars, spc, got, mu, cpc>>
    BY DEF Tick, countVars
  <1>2. ASSUME NEW h \in Hashes, h \in Tracked
        PROVE  seen[h] \in Entry /\ seen'[h] \in Entry /\ seen'[h].isSonic = seen[h].isSonic
    BY <1>1, <1>2 DEF IInv, TypeOK, Entry, Tracked
  <1>3. Tracked' = Tracked
    BY <1>1, <1>2, SidecarAssumption DEF Tracked, Entry
  <1>4. Counters' /\ Accounted'
    <2>1. \A h \in Hashes, b \in BOOLEAN : Waits(h, b)' = Waits(h, b)
      BY <1>2, <1>3 DEF Waits
    <2>2. QED
      BY <1>1, <2>1, SameCounts DEF IInv
  <1>5. HasHash'
    BY <1>1 DEF IInv, HasHash
  <1>6. TypeOK'
    <2>1. seen' \in [Hashes -> Entry \cup {NoEntry}]
      BY <1>1, <1>2 DEF Entry
    <2>2. held' \in 0..MaxHold
      BY SidecarAssumption DEF IInv, TypeOK, Tick
    <2>3. phase' \in 0..(Period - 1)
      BY SidecarAssumption DEF IInv, TypeOK, Tick
    <2>4. tickC' \in BOOLEAN
      BY Zenon DEF Tick
    <2>5. QED
      BY <1>1, <2>1, <2>2, <2>3, <2>4, Zenon DEF IInv, TypeOK, Entry
  <1>7. QED
    BY <1>4, <1>5, <1>6 DEF IInv

(* What changes neither an entry nor a counter.                             *)
LEMMA OtherKeeps ==
    ASSUME IInv,
           \/ \E s \in Sources : \/ Subscribe(s) \/ SubscriptionFails(s)
                                 \/ \E h \in Hashes : Receive(s, h)
           \/ CallsDone
           \/ UNCHANGED vars
    PROVE  IInv'
  <1>1. UNCHANGED <<seen, countVars, tickC, phase>>
    BY DEF Subscribe, SubscriptionFails, Receive, CallsDone, vars, clockVars
  <1>2. Counters' /\ Accounted'
    BY <1>1, SameCounts DEF IInv, Waits, Tracked
  <1>3. /\ spc' \in [Sources -> {"off", "select", "lock", "gone"}]
        /\ got' \in [Sources -> Hashes \cup {NoHash}]
        /\ HasHash'
    BY DEF IInv, TypeOK, HasHash, Subscribe, SubscriptionFails, Receive, CallsDone, vars
  <1>4. mu' \in BOOLEAN /\ cpc' \in {"tick", "calls"}
    BY Zenon DEF IInv, TypeOK, Subscribe, SubscriptionFails, Receive, CallsDone, vars, Unlocked
  <1>5. held' \in 0..MaxHold
    BY SidecarAssumption
    DEF IInv, TypeOK, Subscribe, SubscriptionFails, Receive, CallsDone, vars, clockVars
  <1>6. TypeOK'
    BY <1>1, <1>3, <1>4, <1>5, Zenon DEF IInv, TypeOK
  <1>7. QED
    BY <1>2, <1>3, <1>6 DEF IInv

(* However many nodes announce however often, and whatever the window and   *)
(* the period: every announcement record has seen has exactly one fate, in  *)
(* one counter or in the map (record, the cleaner).                         *)
THEOREM Accounting == Spec => []AnnouncementsAccounted
  <1>1. IInv /\ [Next]_vars => IInv'
    BY RecordKeeps, CleanKeeps, TickKeeps, OtherKeeps DEF Next
  <1>2. IInv => AnnouncementsAccounted
    BY Zenon DEF IInv, Accounted, AnnouncementsAccounted, Waits
  <1>3. QED
    BY InitIInv, <1>1, <1>2, PTL DEF Spec

-----------------------------------------------------------------------------
(* How old an entry can be.  While the calls last it has aged as long as     *)
(* they have; between them, as long as the ticker has not fired; and when a *)
(* tick lies in the channel the cleaner takes it before time goes on.       *)

Longest == Window + (IF MaxHold > Period THEN MaxHold ELSE Period)

AgeInv ==
    /\ mu <=> cpc = "calls"
    /\ cpc = "calls" => /\ \A h \in Tracked : seen[h].age <= Window + held
                        /\ tickC \/ held <= phase
    /\ cpc = "tick" /\ ~tickC => \A h \in Tracked : seen[h].age <= Window + phase
    /\ cpc = "tick" /\ tickC => \A h \in Tracked : seen[h].age <= Longest

LEMMA NextPhase ==
    ASSUME phase \in 0..(Period - 1)
    PROVE  (phase + 1) % Period = IF phase + 1 = Period THEN 0 ELSE phase + 1
  BY SidecarAssumption

LEMMA AgeInvHolds == Spec => []AgeInv
  <1>1. Init => AgeInv
    BY DEF Init, AgeInv, Tracked
  <1>2. IInv /\ AgeInv /\ [Next]_vars => AgeInv'
    <2> SUFFICES ASSUME IInv, AgeInv, [Next]_vars PROVE AgeInv'
      OBVIOUS
    <2>0. /\ \A h \in Tracked : seen[h] \in Entry
          /\ phase \in 0..(Period - 1) /\ held \in 0..MaxHold
          /\ Window \in Nat /\ Period \in Nat \ {0} /\ MaxHold \in Nat
      BY SidecarAssumption DEF IInv, TypeOK, Tracked, Entry
    <2>1. ASSUME NEW s \in Sources, Record(s) PROVE AgeInv'
      <3>1. UNCHANGED <<mu, cpc, tickC, phase, held>> /\ got[s] \in Hashes
        BY <2>1 DEF Record, clockVars, IInv, HasHash
      <3>2. ASSUME NEW h \in Tracked'
            PROVE  seen'[h].age = 0 \/ (h \in Tracked /\ seen'[h] = seen[h])
        BY <2>1, <3>1, <3>2
        DEF Record, First, Duplicate, Pair, AfterPair, Tracked, IInv, TypeOK
      <3>3. QED
        BY <2>0, <3>1, <3>2 DEF AgeInv, Longest
    <2>2. CASE Clean
      <3>1. cpc' = "calls" /\ mu' = TRUE /\ held' = 0 /\ phase' = phase
        BY <2>2 DEF Clean
      <3>2. ASSUME NEW h \in Tracked' PROVE seen'[h].age <= Window
        BY <2>0, <2>2, <3>2 DEF Clean, Stale, Old, Tracked, Entry
      <3>3. QED
        BY <2>0, <3>1, <3>2 DEF AgeInv
    <2>3. CASE CallsDone
      <3>1. /\ cpc = "calls" /\ cpc' = "tick" /\ mu' = FALSE
            /\ UNCHANGED <<seen, tickC, phase>> /\ Tracked' = Tracked
        BY <2>3 DEF CallsDone, Unlocked, Tracked
      <3>2. \A h \in Tracked : seen[h].age <= Window + held /\ seen[h].age \in Nat
        BY <2>0, <3>1 DEF AgeInv, Entry
      <3>3. tickC \/ held <= phase
        BY <3>1 DEF AgeInv
      <3>4. QED
        BY <2>0, <3>1, <3>2, <3>3 DEF AgeInv, Longest
    <2>4. CASE Tick
      <3>1. /\ ~(cpc = "tick" /\ tickC)
            /\ cpc = "calls" => held' = held + 1
            /\ phase' = IF phase + 1 = Period THEN 0 ELSE phase + 1
            /\ tickC' = (tickC \/ phase' = 0)
            /\ UNCHANGED <<mu, cpc>> /\ held \in Nat /\ phase \in Nat
        BY <2>0, <2>4, NextPhase DEF Tick, AgeInv
      <3>2. ASSUME NEW h \in Tracked'
            PROVE  /\ h \in Tracked /\ seen[h].age \in Nat
                   /\ seen'[h].age = seen[h].age + 1
        BY <2>0, <2>4, <3>2 DEF Tick, Tracked, Entry
      <3>3. CASE cpc = "calls"
        <4>1. \A h \in Tracked' : seen'[h].age <= Window + held'
          BY <2>0, <3>1, <3>2, <3>3 DEF AgeInv
        <4>2. tickC' \/ held' <= phase'
          <5>1. CASE tickC \/ phase' = 0
            BY <3>1, <5>1
          <5>2. CASE ~tickC /\ phase' # 0
            BY <2>0, <3>1, <3>3, <5>2 DEF AgeInv
          <5>3. QED
            BY <5>1, <5>2
        <4>3. cpc' = "calls" /\ (mu' <=> cpc' = "calls")
          BY <3>1, <3>3, Zenon DEF AgeInv
        <4>4. QED
          BY <4>1, <4>2, <4>3 DEF AgeInv
      <3>4. CASE cpc = "tick"
        <4>1. cpc' = "tick" /\ ~tickC /\ (mu' <=> cpc' = "calls")
          BY <3>1, <3>4, Zenon DEF AgeInv
        <4>2. \A h \in Tracked' : seen'[h].age <= Window + phase + 1
          BY <2>0, <3>1, <3>2, <3>4 DEF AgeInv
        <4>3. CASE phase' = 0
          <5>1. \A h \in Tracked' : seen'[h].age <= Longest
            BY <2>0, <3>1, <3>2, <4>2, <4>3 DEF Longest
          <5>2. tickC'
            BY <3>1, <4>3
          <5>3. QED
            BY <4>1, <5>1, <5>2, Zenon DEF AgeInv, Longest
        <4>4. CASE phase' # 0
          <5>1. \A h \in Tracked' : seen'[h].age <= Window + phase'
            BY <2>0, <3>1, <4>2, <4>4
          <5>2. ~tickC'
            BY <3>1, <4>1, <4>4
          <5>3. QED
            BY <4>1, <5>1, <5>2, Zenon DEF AgeInv
        <4>5. QED
          BY <4>3, <4>4
      <3>5. QED
        BY <3>3, <3>4 DEF IInv, TypeOK
    <2>5. ASSUME NEW s \in Sources,
                 \/ Subscribe(s) \/ SubscriptionFails(s) \/ \E h \in Hashes : Receive(s, h)
          PROVE  AgeInv'
      <3>1. UNCHANGED <<seen, mu, cpc, tickC, phase, held>>
        BY <2>5, Zenon DEF Subscribe, SubscriptionFails, Receive, clockVars
      <3>2. QED
        BY <3>1 DEF AgeInv, Tracked
    <2>6. CASE UNCHANGED vars
      BY <2>6 DEF vars, clockVars, AgeInv, Tracked
    <2>7. QED
      BY <2>1, <2>2, <2>3, <2>4, <2>5, <2>6 DEF Next
  <1>3. IInv /\ [Next]_vars => IInv'
    BY RecordKeeps, CleanKeeps, TickKeeps, OtherKeeps DEF Next
  <1>4. QED
    BY InitIInv, <1>1, <1>2, <1>3, PTL DEF Spec

(* For any window, period and bound on the answers of the nodes: no arrival *)
(* waits longer than the window and the longer of the two others.           *)
THEOREM WaitIsBounded == Spec => []TrackedNotLong
  <1>1. IInv /\ AgeInv => TrackedNotLong
    <2> SUFFICES ASSUME IInv, AgeInv, NEW h \in Tracked
                 PROVE  seen[h].age <= Longest
      BY DEF TrackedNotLong, Longest
    <2>1. /\ seen[h] \in Entry /\ seen[h].age \in Nat
          /\ phase \in 0..(Period - 1) /\ held \in 0..MaxHold
          /\ Window \in Nat /\ Period \in Nat \ {0} /\ MaxHold \in Nat
          /\ cpc \in {"tick", "calls"}
      BY SidecarAssumption DEF IInv, TypeOK, Tracked, Entry
    <2>2. QED
      BY <2>1 DEF AgeInv, Longest
  <1>2. IInv /\ [Next]_vars => IInv'
    BY RecordKeeps, CleanKeeps, TickKeeps, OtherKeeps DEF Next
  <1>3. QED
    BY InitIInv, AgeInvHolds, <1>1, <1>2, PTL DEF Spec
=============================================================================
