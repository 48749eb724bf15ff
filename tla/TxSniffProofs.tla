----------------------------- MODULE TxSniffProofs -----------------------------
(***************************************************************************)
(* That a loop claims a hash once, that what is pushed unannounced reaches  *)
(* the hook, and that a live subscription misses nothing, for any peers,    *)
(* transactions, prices, caches, channels and subscriptions.                *)
(*                                                                          *)
(* ClaimedOnce needs that a hash which is not in the cache was evicted as   *)
(* often as a loop claimed it, also of the hash a loop has looked up and    *)
(* not yet added.  PushedIsHooked needs to know why a hash is in the cache: *)
(* it was announced, it was hooked, or a loop is about to hook it.          *)
(***************************************************************************)
EXTENDS TxSniff, SequenceTheorems, WellFoundedInduction, TLAPS

-----------------------------------------------------------------------------
(* The feed: who is subscribed, what is being sent and notified.            *)

FeedLinked ==
    /\ subscribed = {s \in Subs : apc[s] # "off"}
    /\ pump # "sending" => toSend = {}
    /\ pump = "sending" => sending \in Txs
    /\ \A s \in Subs : apc[s] = "notify" <=> notifying[s] # NoTx

FeedInv == FeedTypeOK /\ FeedLinked /\ NothingMissed

(* What a subscription has yet to be told, as the parts it passes through.  *)
Owed(s) == IF s \in toSend THEN <<sending>> ELSE <<>>
Complete(s) == taken[s] = notified[s] \o One(notifying[s]) \o subCh[s] \o Owed(s)

LEMMA OneType == ASSUME NEW t \in Txs \cup {NoTx} PROVE One(t) \in Seq(Txs)
  BY EmptySeq DEF One

LEMMA InitFeed == FeedInit => FeedInv
  <1> SUFFICES ASSUME FeedInit PROVE FeedInv
    OBVIOUS
  <1>1. \A S : <<>> \in Seq(S) /\ Len(<<>>) = 0
    BY EmptySeq
  <1>2. FeedTypeOK
    <2>1. /\ subCh \in [Subs -> Seq(Txs)] /\ \A s \in Subs : Len(subCh[s]) <= SubCap
          /\ taken \in [Subs -> Seq(Txs)] /\ notified \in [Subs -> Seq(Txs)]
          /\ txCh \in Seq(Txs) /\ Len(txCh) <= ChCap
      BY <1>1, TxFeedAssumption DEF FeedInit
    <2>2. made \in [Subs -> 0..MaxSubs]
      BY TxFeedAssumption DEF FeedInit
    <2>3. QED
      BY <2>1, <2>2 DEF FeedInit, FeedTypeOK
  <1>3. FeedLinked
    BY DEF FeedInit, FeedLinked
  <1>4. NothingMissed
    BY DEF FeedInit, NothingMissed
  <1>5. QED
    BY <1>2, <1>3, <1>4 DEF FeedInv

(* Four ways a transaction moves along the parts.                           *)
LEMMA Moves ==
    ASSUME NEW n \in Seq(Txs), NEW o \in Seq(Txs), NEW c \in Seq(Txs), NEW t \in Txs
    PROVE  /\ Append(n \o o \o c \o <<>>, t) = n \o o \o c \o <<t>>
           /\ n \o o \o Append(c, t) \o <<>> = n \o o \o c \o <<t>>
           /\ Append(n, t) \o <<>> \o c = n \o <<t>> \o c
           /\ c # <<>> => n \o <<Head(c)>> \o Tail(c) = n \o <<>> \o c
  <1>1. n \o o \in Seq(Txs) /\ n \o o \o c \in Seq(Txs) /\ <<t>> \in Seq(Txs)
    BY ConcatProperties
  <1>2. Append(n \o o \o c \o <<>>, t) = n \o o \o c \o <<t>>
    BY <1>1, ConcatEmptySeq, AppendIsConcat
  <1>3. n \o o \o Append(c, t) \o <<>> = n \o o \o c \o <<t>>
    <2>1. Append(c, t) = c \o <<t>> /\ Append(c, t) \in Seq(Txs)
      BY AppendIsConcat, AppendProperties
    <2>2. n \o o \o Append(c, t) \in Seq(Txs)
      BY <1>1, <2>1, ConcatProperties
    <2>3. (n \o o \o c) \o <<t>> = (n \o o) \o (c \o <<t>>)
      BY <1>1, ConcatAssociative
    <2>4. QED
      BY <2>1, <2>2, <2>3, ConcatEmptySeq
  <1>4. Append(n, t) \o <<>> \o c = n \o <<t>> \o c
    <2>1. Append(n, t) \in Seq(Txs) /\ Append(n, t) = n \o <<t>>
      BY AppendIsConcat, AppendProperties
    <2>2. QED
      BY <2>1, ConcatEmptySeq
  <1>5. ASSUME c # <<>> PROVE n \o <<Head(c)>> \o Tail(c) = n \o <<>> \o c
    <2>1. /\ Head(c) \in Txs /\ Tail(c) \in Seq(Txs) /\ <<Head(c)>> \in Seq(Txs)
          /\ <<Head(c)>> \o Tail(c) = c
      BY <1>5, HeadTailProperties, EmptySeq
    <2>2. (n \o <<Head(c)>>) \o Tail(c) = n \o (<<Head(c)>> \o Tail(c))
      BY <2>1, ConcatAssociative
    <2>3. QED
      BY <2>1, <2>2, ConcatEmptySeq
  <1>6. QED
    BY <1>2, <1>3, <1>4, <1>5

LEMMA PartTypes ==
    ASSUME FeedInv, NEW s \in Subs
    PROVE  /\ notified[s] \in Seq(Txs) /\ One(notifying[s]) \in Seq(Txs)
           /\ subCh[s] \in Seq(Txs) /\ taken[s] \in Seq(Txs)
           /\ apc[s] # "off" => Complete(s)
           /\ s \in toSend => pump = "sending" /\ apc[s] # "off" /\ sending \in Txs
  BY OneType DEF FeedInv, FeedTypeOK, FeedLinked, NothingMissed, Complete, Owed

(* A step that leaves what s sees alone.                                    *)
LEMMA CompleteKept ==
    ASSUME FeedInv, NEW s \in Subs,
           UNCHANGED <<taken[s], notified[s], notifying[s], subCh[s], Owed(s)>>,
           apc'[s] # "off" => apc[s] # "off"
    PROVE  apc'[s] # "off" => Complete(s)'
  BY PartTypes DEF Complete, One

LEMMA AllComplete ==
    ASSUME \A s \in Subs : apc'[s] # "off" => Complete(s)'
    PROVE  NothingMissed'
  BY DEF NothingMissed, Complete, Owed

(* The channel of the hook and the stop of the handler.                     *)
LEMMA ChannelKeeps ==
    ASSUME FeedInv, txCh' \in Seq(Txs), Len(txCh') <= ChCap, quitSync' \in BOOLEAN,
           UNCHANGED <<pump, sending, toSend, subscribed, apc, subCh, notifying, made,
                       taken, notified>>
    PROVE  FeedInv'
  BY DEF FeedInv, FeedTypeOK, FeedLinked, NothingMissed

LEMMA OfferKeeps ==
    ASSUME FeedInv, NEW t \in Txs, Offer(t),
           UNCHANGED <<quitSync, pump, sending, toSend, subVars, taken>>
    PROVE  FeedInv'
  <1>1. txCh \in Seq(Txs) /\ Len(txCh) <= ChCap /\ Len(txCh) \in Nat /\ ChCap \in Nat
    BY TxFeedAssumption, LenProperties DEF FeedInv, FeedTypeOK
  <1>2. Append(txCh, t) \in Seq(Txs) /\ Len(Append(txCh, t)) = Len(txCh) + 1
    BY <1>1, AppendProperties
  <1>3. txCh' \in Seq(Txs) /\ Len(txCh') <= ChCap
    BY <1>1, <1>2 DEF Offer
  <1>4. QED
    BY <1>3, ChannelKeeps DEF FeedInv, FeedTypeOK, subVars

LEMMA TakeKeeps ==
    ASSUME FeedInv, PumpTake
    PROVE  FeedInv'
  <1>1. /\ pump = "select" /\ pump' = "sending" /\ sending' = Head(txCh) /\ txCh' = Tail(txCh)
        /\ toSend' = subscribed
        /\ taken' = [s \in Subs |-> IF s \in subscribed THEN Append(taken[s], Head(txCh))
                                    ELSE taken[s]]
        /\ UNCHANGED <<quitSync, subscribed, apc, subCh, notifying, made, notified>>
    BY DEF PumpTake, subVars
  <1>2. /\ Head(txCh) \in Txs /\ Tail(txCh) \in Seq(Txs)
        /\ Len(Tail(txCh)) = Len(txCh) - 1 /\ Len(txCh) \in Nat
    BY HeadTailProperties, LenProperties DEF PumpTake, FeedInv, FeedTypeOK
  <1>3. FeedTypeOK'
    <2>1. taken' \in [Subs -> Seq(Txs)]
      BY <1>1, <1>2, AppendProperties DEF FeedInv, FeedTypeOK
    <2>2. Len(Tail(txCh)) <= ChCap
      BY <1>2, TxFeedAssumption DEF FeedInv, FeedTypeOK
    <2>3. QED
      BY <1>1, <1>2, <2>1, <2>2 DEF FeedInv, FeedTypeOK
  <1>4. FeedLinked'
    BY <1>1, <1>2 DEF FeedInv, FeedLinked
  <1>5. ASSUME NEW s \in Subs, apc'[s] # "off" PROVE Complete(s)'
    <2>1. s \in subscribed /\ toSend = {} /\ apc[s] # "off"
      BY <1>1, <1>5 DEF FeedInv, FeedLinked
    <2>2. taken[s] = notified[s] \o One(notifying[s]) \o subCh[s] \o <<>>
      BY <2>1, PartTypes DEF Complete, Owed
    <2>3. taken'[s] = Append(taken[s], Head(txCh)) /\ Owed(s)' = <<Head(txCh)>>
      BY <1>1, <2>1 DEF Owed
    <2>4. taken'[s] = notified[s] \o One(notifying[s]) \o subCh[s] \o <<Head(txCh)>>
      <3> DEFINE n == notified[s]  o == One(notifying[s])  c == subCh[s]  h == Head(txCh)
      <3>1. n \in Seq(Txs) /\ o \in Seq(Txs) /\ c \in Seq(Txs) /\ h \in Txs
        BY <1>2, PartTypes
      <3> HIDE DEF n, o, c, h
      <3>2. Append(n \o o \o c \o <<>>, h) = n \o o \o c \o <<h>>
        BY <3>1, Moves
      <3>3. QED
        BY <2>2, <2>3, <3>2, Zenon DEF n, o, c, h
    <2>5. QED
      BY <1>1, <2>3, <2>4 DEF Complete, One
  <1>6. QED
    BY <1>3, <1>4, <1>5, AllComplete DEF FeedInv

LEMMA DeliverKeeps ==
    ASSUME FeedInv, NEW s \in Subs, FeedDeliver(s)
    PROVE  FeedInv'
  <1>1. /\ s \in toSend /\ Len(subCh[s]) < SubCap
        /\ toSend' = toSend \ {s}
        /\ subCh' = [subCh EXCEPT ![s] = Append(@, sending)]
        /\ UNCHANGED <<txCh, quitSync, pump, sending, subscribed, apc, notifying, made,
                       notified, taken>>
    BY DEF FeedDeliver, pumpVars
  <1>2. sending \in Txs /\ apc[s] # "off" /\ Complete(s) /\ subCh[s] \in Seq(Txs)
    BY <1>1, PartTypes
  <1>3. /\ Append(subCh[s], sending) \in Seq(Txs)
        /\ Len(Append(subCh[s], sending)) = Len(subCh[s]) + 1 /\ Len(subCh[s]) \in Nat
    BY <1>2, AppendProperties, LenProperties
  <1>4. FeedTypeOK'
    <2>1. Len(Append(subCh[s], sending)) <= SubCap
      BY <1>1, <1>3, TxFeedAssumption
    <2>2. QED
      BY <1>1, <1>3, <2>1 DEF FeedInv, FeedTypeOK
  <1>5. FeedLinked'
    BY <1>1 DEF FeedInv, FeedLinked
  <1>6. ASSUME NEW q \in Subs PROVE apc'[q] # "off" => Complete(q)'
    <2>1. CASE q = s
      <3>1. subCh'[s] = Append(subCh[s], sending) /\ Owed(s)' = <<>> /\ Owed(s) = <<sending>>
        BY <1>1 DEF FeedInv, FeedTypeOK, Owed
      <3>2. taken[s] = notified[s] \o One(notifying[s]) \o Append(subCh[s], sending) \o <<>>
        <4> DEFINE n == notified[s]  o == One(notifying[s])  c == subCh[s]
        <4>1. n \in Seq(Txs) /\ o \in Seq(Txs) /\ c \in Seq(Txs)
          BY PartTypes
        <4> HIDE DEF n, o, c
        <4>2. n \o o \o Append(c, sending) \o <<>> = n \o o \o c \o <<sending>>
          BY <1>2, <4>1, Moves
        <4>3. QED
          BY <1>2, <3>1, <4>2, Zenon DEF Complete, n, o, c
      <3>3. QED
        BY <1>1, <2>1, <3>1, <3>2 DEF Complete, One
    <2>2. CASE q # s
      <3>1. subCh'[q] = subCh[q] /\ Owed(q)' = Owed(q)
        BY <1>1, <2>2 DEF FeedInv, FeedTypeOK, Owed
      <3>2. QED
        BY <1>1, <3>1, CompleteKept
    <2>3. QED
      BY <2>1, <2>2
  <1>7. QED
    BY <1>4, <1>5, <1>6, AllComplete DEF FeedInv

(* The end of a Send and of the pump.                                       *)
LEMMA PumpKeeps ==
    ASSUME FeedInv, SendReturns \/ PumpQuits
    PROVE  FeedInv'
  <1>1. /\ toSend' = toSend /\ toSend = {}
        /\ UNCHANGED <<txCh, quitSync, subscribed, apc, subCh, notifying, made, notified, taken>>
        /\ pump' \in {"select", "gone"} /\ sending' \in {sending, NoTx}
    BY DEF SendReturns, PumpQuits, subVars, FeedInv, FeedLinked
  <1>2. FeedTypeOK' /\ FeedLinked'
    BY <1>1 DEF FeedInv, FeedTypeOK, FeedLinked
  <1>3. \A s \in Subs : apc'[s] # "off" => Complete(s)'
    BY <1>1, CompleteKept DEF Owed
  <1>4. QED
    BY <1>2, <1>3, AllComplete DEF FeedInv

LEMMA SubscribeKeeps ==
    ASSUME FeedInv, NEW s \in Subs, Subscribe(s)
    PROVE  FeedInv'
  <1>1. /\ apc[s] = "off" /\ made[s] < MaxSubs
        /\ made' = [made EXCEPT ![s] = @ + 1]
        /\ apc' = [apc EXCEPT ![s] = "select"]
        /\ subscribed' = subscribed \cup {s}
        /\ subCh' = [subCh EXCEPT ![s] = <<>>]
        /\ taken' = [taken EXCEPT ![s] = <<>>]
        /\ notified' = [notified EXCEPT ![s] = <<>>]
        /\ UNCHANGED <<txCh, quitSync, pump, sending, toSend, notifying>>
    BY DEF Subscribe, pumpVars
  <1>2. \A S : <<>> \in Seq(S) /\ Len(<<>>) = 0
    BY EmptySeq
  <1>3. FeedTypeOK'
    <2>1. made' \in [Subs -> 0..MaxSubs]
      BY <1>1, TxFeedAssumption DEF FeedInv, FeedTypeOK
    <2>2. /\ subCh' \in [Subs -> Seq(Txs)] /\ \A q \in Subs : Len(subCh'[q]) <= SubCap
          /\ taken' \in [Subs -> Seq(Txs)] /\ notified' \in [Subs -> Seq(Txs)]
      BY <1>1, <1>2, TxFeedAssumption DEF FeedInv, FeedTypeOK
    <2>3. QED
      BY <1>1, <2>1, <2>2 DEF FeedInv, FeedTypeOK
  <1>4. FeedLinked'
    BY <1>1 DEF FeedInv, FeedTypeOK, FeedLinked
  <1>5. ASSUME NEW q \in Subs PROVE apc'[q] # "off" => Complete(q)'
    <2>1. CASE q = s
      <3>1. taken'[s] = <<>> /\ notified'[s] = <<>> /\ subCh'[s] = <<>>
        BY <1>1 DEF FeedInv, FeedTypeOK
      <3>2. notifying'[s] = NoTx /\ s \notin toSend'
        BY <1>1 DEF FeedInv, FeedTypeOK, FeedLinked
      <3>3. <<>> \o <<>> \o <<>> \o <<>> = <<>>
        OBVIOUS
      <3>4. QED
        BY <2>1, <3>1, <3>2, <3>3 DEF Complete, One, Owed
    <2>2. CASE q # s
      <3>1. /\ UNCHANGED <<taken[q], notified[q], notifying[q], subCh[q], Owed(q)>>
            /\ apc'[q] = apc[q]
        BY <1>1, <2>2 DEF FeedInv, FeedTypeOK, Owed
      <3>2. QED
        BY <3>1, CompleteKept
    <2>3. QED
      BY <2>1, <2>2
  <1>6. QED
    BY <1>3, <1>4, <1>5, AllComplete DEF FeedInv

(* The goroutine of a subscription takes a transaction and tells it.        *)
LEMMA SubTakeKeeps ==
    ASSUME FeedInv, NEW s \in Subs, SubTake(s)
    PROVE  FeedInv'
  <1>1. /\ apc[s] = "select" /\ subCh[s] # <<>>
        /\ apc' = [apc EXCEPT ![s] = "notify"]
        /\ notifying' = [notifying EXCEPT ![s] = Head(subCh[s])]
        /\ subCh' = [subCh EXCEPT ![s] = Tail(@)]
        /\ UNCHANGED <<txCh, quitSync, pump, sending, toSend, subscribed, made, notified, taken>>
    BY DEF SubTake, pumpVars
  <1>2. /\ Head(subCh[s]) \in Txs /\ Tail(subCh[s]) \in Seq(Txs) /\ Head(subCh[s]) # NoTx
        /\ Len(Tail(subCh[s])) = Len(subCh[s]) - 1 /\ Len(subCh[s]) \in Nat
    BY <1>1, HeadTailProperties, LenProperties, TxFeedAssumption DEF FeedInv, FeedTypeOK
  <1>3. FeedTypeOK'
    <2>1. Len(Tail(subCh[s])) <= SubCap
      BY <1>2, TxFeedAssumption DEF FeedInv, FeedTypeOK
    <2>2. QED
      BY <1>1, <1>2, <2>1 DEF FeedInv, FeedTypeOK
  <1>4. FeedLinked'
    BY <1>1, <1>2 DEF FeedInv, FeedTypeOK, FeedLinked
  <1>5. ASSUME NEW q \in Subs PROVE apc'[q] # "off" => Complete(q)'
    <2>1. CASE q = s
      <3> DEFINE n == notified[s]  c == subCh[s]
      <3>1. n \in Seq(Txs) /\ c \in Seq(Txs) /\ c # <<>>
        BY <1>1, PartTypes
      <3>2. notifying[s] = NoTx /\ Complete(s)
        BY <1>1, PartTypes DEF FeedInv, FeedLinked
      <3>3. notifying'[s] = Head(c) /\ subCh'[s] = Tail(c) /\ Owed(s)' = Owed(s)
        BY <1>1 DEF FeedInv, FeedTypeOK, Owed
      <3>4. One(notifying[s]) = <<>> /\ One(notifying[s])' = <<Head(c)>>
        BY <1>2, <3>2, <3>3 DEF One
      <3>5. taken[s] = n \o <<>> \o c \o Owed(s)
        BY <3>2, <3>4, Zenon DEF Complete
      <3>6. n \o <<Head(c)>> \o Tail(c) = n \o <<>> \o c
        <4> HIDE DEF n, c
        <4>1. <<>> \in Seq(Txs) /\ Head(c) \in Txs
          BY <3>1, EmptySeq, HeadTailProperties
        <4>2. QED
          BY <3>1, <4>1, Moves
      <3>7. taken[s] = n \o <<Head(c)>> \o Tail(c) \o Owed(s)
        BY <3>5, <3>6, Zenon
      <3>8. taken'[s] = taken[s] /\ notified'[s] = notified[s]
        BY <1>1
      <3>9. QED
        BY <2>1, <3>3, <3>4, <3>7, <3>8, Zenon DEF Complete
    <2>2. CASE q # s
      <3>1. /\ UNCHANGED <<taken[q], notified[q], notifying[q], subCh[q], Owed(q)>>
            /\ apc'[q] = apc[q]
        BY <1>1, <2>2 DEF FeedInv, FeedTypeOK, Owed
      <3>2. QED
        BY <3>1, CompleteKept
    <2>3. QED
      BY <2>1, <2>2
  <1>6. QED
    BY <1>3, <1>4, <1>5, AllComplete DEF FeedInv

LEMMA NotifiedKeeps ==
    ASSUME FeedInv, NEW s \in Subs, Notified(s)
    PROVE  FeedInv'
  <1>1. /\ apc[s] = "notify" /\ notifying[s] \in Txs
        /\ apc' = [apc EXCEPT ![s] = "select"]
        /\ notified' = [notified EXCEPT ![s] = Append(@, notifying[s])]
        /\ notifying' = [notifying EXCEPT ![s] = NoTx]
        /\ UNCHANGED <<txCh, quitSync, pump, sending, toSend, subscribed, subCh, made, taken>>
    BY DEF Notified, pumpVars, FeedInv, FeedTypeOK, FeedLinked
  <1>2. Append(notified[s], notifying[s]) \in Seq(Txs)
    BY <1>1, PartTypes, AppendProperties
  <1>3. FeedTypeOK'
    BY <1>1, <1>2 DEF FeedInv, FeedTypeOK
  <1>4. FeedLinked'
    BY <1>1 DEF FeedInv, FeedTypeOK, FeedLinked
  <1>5. ASSUME NEW q \in Subs PROVE apc'[q] # "off" => Complete(q)'
    <2>1. CASE q = s
      <3> DEFINE n == notified[s]  c == subCh[s]  t == notifying[s]
      <3>1. n \in Seq(Txs) /\ c \in Seq(Txs) /\ t \in Txs /\ Complete(s)
        BY <1>1, PartTypes
      <3>2. /\ notified'[s] = Append(n, t) /\ notifying'[s] = NoTx /\ subCh'[s] = c
            /\ Owed(s)' = Owed(s) /\ taken'[s] = taken[s]
        BY <1>1 DEF FeedInv, FeedTypeOK, Owed
      <3>3. One(notifying[s]) = <<t>> /\ One(notifying[s])' = <<>>
        BY <3>1, <3>2, TxFeedAssumption DEF One
      <3>4. taken[s] = n \o <<t>> \o c \o Owed(s)
        BY <3>1, <3>3, Zenon DEF Complete
      <3>5. Append(n, t) \o <<>> \o c = n \o <<t>> \o c
        <4> HIDE DEF n, c, t
        <4>1. <<>> \in Seq(Txs)
          BY EmptySeq
        <4>2. QED
          BY <3>1, <4>1, Moves
      <3>6. taken[s] = Append(n, t) \o <<>> \o c \o Owed(s)
        BY <3>4, <3>5, Zenon
      <3>7. QED
        BY <2>1, <3>2, <3>3, <3>6, Zenon DEF Complete
    <2>2. CASE q # s
      <3>1. /\ UNCHANGED <<taken[q], notified[q], notifying[q], subCh[q], Owed(q)>>
            /\ apc'[q] = apc[q]
        BY <1>1, <2>2 DEF FeedInv, FeedTypeOK, Owed
      <3>2. QED
        BY <3>1, CompleteKept
    <2>3. QED
      BY <2>1, <2>2
  <1>6. QED
    BY <1>3, <1>4, <1>5, AllComplete DEF FeedInv

(* The goroutine returns, and a Send in progress forgets the subscription.  *)
LEMMA ReturnKeeps ==
    ASSUME FeedInv, NEW s \in Subs, ClientLeaves(s) \/ NotifyFails(s)
    PROVE  FeedInv'
  <1>1. /\ apc' = [apc EXCEPT ![s] = "off"] /\ subscribed' = subscribed \ {s}
        /\ toSend' = toSend \ {s}
        /\ UNCHANGED <<txCh, quitSync, pump, sending, subCh, made, notified, taken>>
        /\ apc[s] = "notify" => notifying' = [notifying EXCEPT ![s] = NoTx]
        /\ apc[s] # "notify" => notifying' = notifying
    BY DEF ClientLeaves, NotifyFails, OnError, Return, Unsubscribe, pumpVars
  <1>2. FeedTypeOK'
    BY <1>1 DEF FeedInv, FeedTypeOK
  <1>3. FeedLinked'
    BY <1>1 DEF FeedInv, FeedTypeOK, FeedLinked
  <1>4. ASSUME NEW q \in Subs PROVE apc'[q] # "off" => Complete(q)'
    <2>1. CASE q = s
      BY <1>1, <2>1 DEF FeedInv, FeedTypeOK
    <2>2. CASE q # s
      <3>1. /\ UNCHANGED <<taken[q], notified[q], notifying[q], subCh[q], Owed(q)>>
            /\ apc'[q] = apc[q]
        BY <1>1, <2>2 DEF FeedInv, FeedTypeOK, Owed
      <3>2. QED
        BY <3>1, CompleteKept
    <2>3. QED
      BY <2>1, <2>2
  <1>5. QED
    BY <1>2, <1>3, <1>4, AllComplete DEF FeedInv

LEMMA FeedKeeps == ASSUME FeedInv, FeedNext PROVE FeedInv'
  <1>1. CASE Quit
    <2>1. txCh' = txCh /\ txCh \in Seq(Txs) /\ Len(txCh) <= ChCap
      BY <1>1 DEF Quit, FeedInv, FeedTypeOK
    <2>2. QED
      BY <1>1, <2>1, ChannelKeeps DEF Quit, subVars
  <1>2. QED
    BY <1>1, TakeKeeps, DeliverKeeps, PumpKeeps, SubscribeKeeps, SubTakeKeeps,
       NotifiedKeeps, ReturnKeeps DEF FeedNext, PumpStep, SubStep

-----------------------------------------------------------------------------
(* The cache.                                                               *)

LEMMA RemoveFirstType ==
    ASSUME NEW S, NEW q \in Seq(S), NEW e
    PROVE  RemoveFirst(q, e) \in Seq(S)
  <1>1. CASE \E i \in 1..Len(q) : q[i] = e
    <2>1. PICK i \in 1..Len(q) : RemoveFirst(q, e) = RemoveAt(q, i)
      <3> DEFINE I == {i \in 1..Len(q) : q[i] = e}
             R == {ss \in Nat \X Nat : ss[1] < ss[2]}
      <3>1. I \subseteq Nat /\ I # {}
        BY <1>1
      <3>2. IsWellFoundedOn(R, Nat)
        BY NatLessThanWellFounded DEF OpToRel
      <3>3. PICK x \in I : \A y \in I : <<y, x>> \notin R
        <4> HIDE DEF I, R
        <4>1. QED
          BY <3>1, <3>2, WFMin
      <3>4. ASSUME NEW y \in I PROVE x <= y
        <4>1. x \in Nat /\ y \in Nat /\ <<y, x>> \notin R
          BY <3>1, <3>3
        <4>2. ~(y < x)
          BY <4>1
        <4>3. QED
          BY <4>1, <4>2
      <3>5. Min(I) \in I
        BY <3>4 DEF Min
      <3>6. RemoveFirst(q, e) = RemoveAt(q, Min(I))
        BY <1>1, <3>1 DEF RemoveFirst, SelectInSeq
      <3>7. QED
        BY <3>5, <3>6
    <2>2. SubSeq(q, 1, i - 1) \in Seq(S) /\ SubSeq(q, i + 1, Len(q)) \in Seq(S)
      BY SubSeqProperties, LenProperties, ElementOfSeq
    <2>3. QED
      BY <2>1, <2>2, ConcatProperties DEF RemoveAt
  <1>2. CASE ~\E i \in 1..Len(q) : q[i] = e
    BY <1>2 DEF RemoveFirst
  <1>3. QED
    BY <1>1, <1>2

LEMMA SeqRange == ASSUME NEW S, NEW q \in Seq(S) PROVE q \in Seq(ToSet(q)) /\ ToSet(q) \subseteq S
  <1>1. \A i \in 1..Len(q) : q[i] \in S /\ q[i] \in ToSet(q)
    BY ElementOfSeq, LenProperties DEF ToSet
  <1>2. q \in [1..Len(q) -> ToSet(q)] /\ Len(q) \in Nat
    BY <1>1, LenProperties
  <1>3. q \in Seq(ToSet(q))
    BY <1>2, SeqDef
  <1>4. QED
    BY <1>1, <1>3, LenProperties DEF ToSet

(* What was added is the first entry, nothing else enters, and nothing is   *)
(* over the capacity.                                                       *)
LEMMA CacheProperties ==
    ASSUME txHashCache \in Seq(Txs), NEW t \in Txs
    PROVE  /\ CacheAdd(t) \in Seq(Txs) /\ Len(CacheAdd(t)) <= CacheCap
           /\ t \in ToSet(CacheAdd(t))
           /\ ToSet(CacheAdd(t)) \subseteq {t} \cup ToSet(txHashCache)
  <1> DEFINE S == {t} \cup ToSet(txHashCache)
             q == <<t>> \o RemoveFirst(txHashCache, t)
             n == IF Len(q) > CacheCap THEN CacheCap ELSE Len(q)
  <1>1. q \in Seq(S) /\ Len(q) \in Nat /\ Len(q) >= 1 /\ q[1] = t /\ S \subseteq Txs
    <2>1. txHashCache \in Seq(ToSet(txHashCache)) /\ ToSet(txHashCache) \subseteq Txs
      BY SeqRange
    <2>2. txHashCache \in Seq(S)
      BY <2>1
    <2> HIDE DEF S
    <2>3. RemoveFirst(txHashCache, t) \in Seq(S)
      BY <2>2, RemoveFirstType
    <2>4. <<t>> \in Seq(S) /\ Len(<<t>>) = 1 /\ <<t>>[1] = t
      BY DEF S
    <2>5. QED
      BY <2>1, <2>3, <2>4, ConcatProperties, LenProperties DEF S
  <1> HIDE DEF q, S
  <1>2. n \in 1..Len(q) /\ n <= CacheCap
    BY <1>1, TxSniffAssumption
  <1>3. \A i \in 1..n : q[i] \in S
    BY <1>1, <1>2, ElementOfSeq
  <1>4. SubSeq(q, 1, n) \in Seq(S) /\ Len(SubSeq(q, 1, n)) = n /\ SubSeq(q, 1, n)[1] = t
    BY <1>1, <1>2, <1>3, SubSeqProperties
  <1>5. CacheAdd(t) = SubSeq(q, 1, n)
    BY DEF CacheAdd, Trim, q
  <1>6. SubSeq(q, 1, n) \in Seq(Txs)
    BY <1>1, <1>4
  <1>7. ToSet(SubSeq(q, 1, n)) \subseteq S
    BY <1>4, SeqRange
  <1>8. t \in ToSet(SubSeq(q, 1, n))
    BY <1>2, <1>4, LenProperties DEF ToSet
  <1>9. QED
    BY <1>2, <1>4, <1>5, <1>6, <1>7, <1>8 DEF S

-----------------------------------------------------------------------------
(* The message loops.                                                       *)

HasItems ==
    \A p \in Peers : pc[p] \in {"hash", "hashAdd", "tx", "txAdd", "hook"} => todo[p] # <<>>

Asked ==
    \A p \in Peers, t \in Txs :
        claims[p][t] <= evictions[t] + (IF Cached(t) THEN 1 ELSE 0)

Adding ==
    \A p \in Peers : pc[p] \in {"hashAdd", "txAdd"} =>
        claims[p][Head(todo[p])] <= evictions[Head(todo[p])]

Accounted ==
    /\ \A t \in Txs : Cached(t) => t \in announced \/ t \in hooked \/ AboutToHook(t)
    /\ \A p \in Peers : pc[p] = "hashAdd" => Head(todo[p]) \in announced

IInv ==
    /\ TypeOK /\ FeedInv
    /\ HasItems /\ Asked /\ Adding /\ Accounted /\ PushedIsHooked

LEMMA InitIInv == Init => IInv
  <1> SUFFICES ASSUME Init PROVE IInv
    OBVIOUS
  <1>1. FeedInv
    BY InitFeed DEF Init
  <1>2. \A S : <<>> \in Seq(S) /\ Len(<<>>) = 0 /\ ToSet(<<>>) = {}
    BY EmptySeq DEF ToSet
  <1>3. TypeOK
    <2>1. txHashCache \in Seq(Txs) /\ Len(txHashCache) <= CacheCap
      BY <1>2, TxSniffAssumption DEF Init
    <2>2. todo \in [Peers -> Seq(Txs)] /\ toRequest \in [Peers -> Seq(Txs)]
      BY <1>2 DEF Init
    <2>3. QED
      BY <1>1, <2>1, <2>2 DEF Init, TypeOK, FeedInv
  <1>4. HasItems /\ Adding /\ PushedIsHooked
    BY DEF Init, HasItems, Adding, PushedIsHooked
  <1>5. Asked /\ Accounted
    BY <1>2 DEF Init, Asked, Accounted, Cached
  <1>6. QED
    BY <1>1, <1>3, <1>4, <1>5 DEF IInv

(* Of the other loops a step changes nothing.                               *)
Others(p) == \A q \in Peers : q # p => pc'[q] = pc[q] /\ todo'[q] = todo[q]

LEMMA StillAbout ==
    ASSUME NEW p \in Peers, Others(p), pc[p] \notin {"txAdd", "hook"}, NEW t, AboutToHook(t)
    PROVE  AboutToHook(t)'
  BY DEF Others, AboutToHook

(* The item is done: the loop has another one or leaves the items.          *)
LEMMA AdvanceProperties ==
    ASSUME TypeOK, NEW p \in Peers, todo[p] # <<>>, NEW loop \in {"hash", "tx"}, Advance(p, loop)
    PROVE  /\ todo' \in [Peers -> Seq(Txs)] /\ Others(p)
           /\ pc' \in [Peers -> {"read", "hash", "hashAdd", "request", "tx", "txAdd", "hook"}]
           /\ pc'[p] \in {"read", "hash", "request", "tx"}
           /\ pc'[p] \in {"hash", "tx"} => todo'[p] # <<>>
  <1>1. todo[p] \in Seq(Txs) /\ Len(todo[p]) \in Nat
    BY LenProperties DEF TypeOK
  <1>2. /\ todo' = [todo EXCEPT ![p] = Tail(@)]
        /\ Tail(todo[p]) \in Seq(Txs) /\ Len(Tail(todo[p])) = Len(todo[p]) - 1
    BY <1>1, HeadTailProperties DEF Advance
  <1>3. PICK to \in {"read", "hash", "request", "tx"} :
            /\ pc' = [pc EXCEPT ![p] = to]
            /\ to \in {"hash", "tx"} => Len(todo[p]) > 1
    BY DEF Advance, After
  <1>4. to \in {"hash", "tx"} => Tail(todo[p]) # <<>>
    <2> SUFFICES ASSUME to \in {"hash", "tx"} PROVE Tail(todo[p]) # <<>>
      OBVIOUS
    <2>1. \A n \in Nat : n > 1 => n - 1 # 0
      OBVIOUS
    <2>2. Len(Tail(todo[p])) # 0
      BY <1>1, <1>2, <1>3, <2>1, Zenon
    <2>3. Len(<<>>) = 0
      OBVIOUS
    <2>4. QED
      BY <2>2, <2>3, Zenon
  <1>5. QED
    BY <1>2, <1>3, <1>4 DEF TypeOK, Others

LEMMA ReceiveKeeps ==
    ASSUME IInv, NEW p \in Peers, Receive(p)
    PROVE  IInv'
  <1>1. /\ UNCHANGED <<txHashCache, claims, evictions, knownTxs, toRequest, announced,
                       received, hooked, feedVars>>
        /\ pc[p] = "read" /\ msgs' = [msgs EXCEPT ![p] = @ + 1]
    BY DEF Receive, cacheVars, seenVars
  <1>2. PICK n \in 1..MaxMsgLen : \E kind \in {"hash", "tx"} :
            /\ pc' = [pc EXCEPT ![p] = kind]
            /\ \E items \in [1..n -> Txs] : todo' = [todo EXCEPT ![p] = items]
    BY DEF Receive
  <1>3. PICK items \in [1..n -> Txs] : todo' = [todo EXCEPT ![p] = items]
    BY <1>2
  <1>4. items \in Seq(Txs) /\ items # <<>>
    <2>1. n \in Nat \ {0}
      BY TxSniffAssumption
    <2>2. items \in Seq(Txs) /\ Len(items) = n
      BY <2>1, SeqDef
    <2>3. QED
      BY <2>1, <2>2
  <1>5. FeedInv'
    BY <1>1, ChannelKeeps DEF IInv, FeedInv, FeedTypeOK, feedVars, pumpVars, subVars
  <1>6. TypeOK'
    <2>1. todo' \in [Peers -> Seq(Txs)] /\ msgs' \in [Peers -> Nat]
      BY <1>1, <1>3, <1>4 DEF IInv, TypeOK
    <2>2. pc' \in [Peers -> {"read", "hash", "hashAdd", "request", "tx", "txAdd", "hook"}]
      BY <1>2 DEF IInv, TypeOK
    <2>3. QED
      BY <1>1, <1>5, <2>1, <2>2 DEF IInv, TypeOK, FeedInv
  <1>7. Others(p) /\ pc'[p] \in {"hash", "tx"} /\ todo'[p] = items
    BY <1>2, <1>3 DEF IInv, TypeOK, Others
  <1>8. HasItems' /\ Adding'
    BY <1>1, <1>4, <1>7 DEF IInv, HasItems, Adding, Others
  <1>9. Asked'
    BY <1>1 DEF IInv, Asked, Cached
  <1>10. Accounted' /\ PushedIsHooked'
    BY <1>1, <1>7, StillAbout DEF IInv, Accounted, PushedIsHooked, Cached, Others
  <1>11. QED
    BY <1>5, <1>6, <1>8, <1>9, <1>10 DEF IInv

(* The hash is looked up, or the transaction looked up and validated: a     *)
(* hash that is not in the cache was evicted as often as it was claimed,    *)
(* and one that is was announced or hooked or is about to be.               *)
LEMMA ItemKeeps ==
    ASSUME IInv, NEW p \in Peers, HashItem(p) \/ TxItem(p)
    PROVE  IInv'
  <1> DEFINE t == Head(todo[p])
  <1>1. /\ UNCHANGED <<txHashCache, claims, evictions, toRequest, msgs, hooked, feedVars>>
        /\ knownTxs' = [knownTxs EXCEPT ![p] = @ \cup {t}]
        /\ pc[p] \in {"hash", "tx"}
    BY DEF HashItem, TxItem, cacheVars, Mark
  <1>2. todo[p] # <<>> /\ t \in Txs
    BY <1>1, HeadTailProperties DEF IInv, TypeOK, HasItems
  <1>3. FeedInv'
    BY <1>1, ChannelKeeps DEF IInv, FeedInv, FeedTypeOK, feedVars, pumpVars, subVars
  <1>4. \/ /\ HashItem(p) /\ pc[p] = "hash" /\ announced' = announced \cup {t}
           /\ received' = received
        \/ /\ TxItem(p) /\ pc[p] = "tx" /\ announced' = announced
           /\ received' = received \cup {t}
    BY DEF HashItem, TxItem
  <1>5. \/ Advance(p, pc[p]) /\ (HashItem(p) => Cached(t)) /\ (TxItem(p) => Cached(t) \/ ~Accepts(t))
        \/ /\ ~Cached(t) /\ todo' = todo
           /\ \/ HashItem(p) /\ pc[p] = "hash" /\ pc' = [pc EXCEPT ![p] = "hashAdd"]
              \/ TxItem(p) /\ pc[p] = "tx" /\ pc' = [pc EXCEPT ![p] = "txAdd"]
    BY DEF HashItem, TxItem
  <1>6. /\ todo' \in [Peers -> Seq(Txs)] /\ Others(p)
        /\ pc' \in [Peers -> {"read", "hash", "hashAdd", "request", "tx", "txAdd", "hook"}]
        /\ pc'[p] \in {"hash", "hashAdd", "tx", "txAdd", "hook"} => todo'[p] # <<>>
        /\ pc'[p] \in {"hashAdd", "txAdd"} => ~Cached(t) /\ todo'[p] = todo[p]
        /\ pc'[p] = "hashAdd" => t \in announced'
    <2>1. CASE Advance(p, pc[p])
      BY <1>1, <1>2, <2>1, AdvanceProperties DEF IInv
    <2>2. CASE ~Advance(p, pc[p])
      BY <1>2, <1>4, <1>5, <2>2 DEF IInv, TypeOK, Others
    <2>3. QED
      BY <2>1, <2>2
  <1>7. TypeOK'
    BY <1>1, <1>2, <1>3, <1>4, <1>6 DEF IInv, TypeOK, FeedInv
  <1>8. HasItems'
    BY <1>6 DEF IInv, HasItems, Others
  <1>9. Asked'
    BY <1>1 DEF IInv, Asked, Cached
  <1>10. Adding'
    <2> SUFFICES ASSUME NEW q \in Peers, pc'[q] \in {"hashAdd", "txAdd"}
                 PROVE  claims[q][Head(todo'[q])] <= evictions[Head(todo'[q])]
      BY <1>1 DEF Adding
    <2>1. CASE q = p
      <3>1. claims[p][t] <= evictions[t]
        BY <1>2, <1>6, <2>1 DEF IInv, TypeOK, Asked
      <3>2. QED
        BY <1>6, <2>1, <3>1
    <2>2. CASE q # p
      BY <1>6, <2>2 DEF IInv, Adding, Others
    <2>3. QED
      BY <2>1, <2>2
  <1>11. announced \subseteq announced' /\ \A u : AboutToHook(u) => AboutToHook(u)'
    BY <1>1, <1>4, <1>6, StillAbout
  <1>12. Accounted'
    BY <1>1, <1>6, <1>11 DEF IInv, Accounted, Cached, Others
  <1>13. PushedIsHooked'
    <2> SUFFICES ASSUME NEW u \in received', Acceptable(u)
                 PROVE  u \in hooked \/ AboutToHook(u)' \/ u \in announced'
      BY <1>1 DEF PushedIsHooked, Acceptable
    <2>1. CASE u \in received
      BY <1>11, <2>1 DEF IInv, PushedIsHooked
    <2>2. CASE u \notin received
      <3>1. u = t /\ TxItem(p) /\ pc[p] = "tx"
        BY <1>4, <2>2
      <3>2. Accepts(t)
        BY <1>2, <3>1, TxSniffAssumption DEF Acceptable, Accepts
      <3>3. CASE Cached(t)
        BY <1>2, <1>11, <3>1, <3>3 DEF IInv, Accounted
      <3>4. CASE ~Cached(t)
        <4>1. pc' = [pc EXCEPT ![p] = "txAdd"] /\ todo' = todo
          BY <1>1, <1>5, <3>1, <3>2, <3>4
        <4>2. pc'[p] = "txAdd" /\ Head(todo'[p]) = t
          BY <4>1 DEF IInv, TypeOK
        <4>3. QED
          BY <3>1, <4>2 DEF AboutToHook
      <3>5. QED
        BY <3>3, <3>4
    <2>3. QED
      BY <2>1, <2>2
  <1>14. QED
    BY <1>3, <1>7, <1>8, <1>9, <1>10, <1>12, <1>13 DEF IInv

(* A claim: the cache holds the hash, and what it lost is evicted.          *)
LEMMA ClaimProperties ==
    ASSUME IInv, NEW p \in Peers, NEW t \in Txs, Claim(p, t), claims[p][t] <= evictions[t]
    PROVE  /\ txHashCache' \in Seq(Txs) /\ Len(txHashCache') <= CacheCap
           /\ claims' \in [Peers -> [Txs -> Nat]] /\ evictions' \in [Txs -> Nat]
           /\ Asked'
           /\ \A u \in Txs : Cached(u)' => u = t \/ Cached(u)
           /\ \A u \in Txs : evictions[u] <= evictions'[u]
           /\ \A q \in Peers : q # p => claims'[q] = claims[q]
  <1>1. /\ txHashCache' = CacheAdd(t)
        /\ claims' = [claims EXCEPT ![p][t] = @ + 1]
        /\ evictions' = [u \in Txs |->
                           IF u \in ToSet(txHashCache) \ ToSet(txHashCache')
                           THEN evictions[u] + 1 ELSE evictions[u]]
    BY DEF Claim
  <1>2. /\ txHashCache' \in Seq(Txs) /\ Len(txHashCache') <= CacheCap /\ Cached(t)'
        /\ \A u \in Txs : Cached(u)' => u = t \/ Cached(u)
    BY <1>1, CacheProperties DEF IInv, TypeOK, Cached
  <1>3. /\ evictions \in [Txs -> Nat] /\ evictions' \in [Txs -> Nat]
        /\ \A u \in Txs : /\ evictions[u] <= evictions'[u]
                          /\ Cached(u) /\ ~Cached(u)' => evictions'[u] = evictions[u] + 1
    BY <1>1 DEF IInv, TypeOK, Cached
  <1>4. claims \in [Peers -> [Txs -> Nat]] /\ claims[p] \in [Txs -> Nat]
    BY DEF IInv, TypeOK
  <1>5. /\ claims' \in [Peers -> [Txs -> Nat]]
        /\ claims'[p] = [claims[p] EXCEPT ![t] = @ + 1]
        /\ \A q \in Peers : q # p => claims'[q] = claims[q]
    <2>1. [claims[p] EXCEPT ![t] = @ + 1] \in [Txs -> Nat]
      BY <1>4
    <2>2. claims' = [claims EXCEPT ![p] = [claims[p] EXCEPT ![t] = @ + 1]]
      BY <1>1, <1>4
    <2>3. QED
      BY <1>4, <2>1, <2>2, Zenon
  <1>6. ASSUME NEW q \in Peers, NEW u \in Txs
        PROVE  claims'[q][u] <= evictions'[u] + (IF Cached(u)' THEN 1 ELSE 0)
    <2>1. /\ claims[q][u] \in Nat /\ evictions[u] \in Nat /\ evictions'[u] \in Nat
          /\ claims[q][u] <= evictions[u] + (IF Cached(u) THEN 1 ELSE 0)
      BY <1>3, <1>4 DEF IInv, Asked
    <2>2. CASE q = p /\ u = t
      <3>1. claims'[q][u] = claims[p][t] + 1
        BY <1>4, <1>5, <2>2
      <3>2. QED
        BY <1>2, <1>3, <2>1, <2>2, <3>1
    <2>3. CASE ~(q = p /\ u = t)
      <3>1. claims'[q][u] = claims[q][u]
        BY <1>4, <1>5, <2>3
      <3>2. QED
        BY <1>3, <2>1, <3>1
    <2>4. QED
      BY <2>2, <2>3
  <1>7. QED
    BY <1>2, <1>3, <1>5, <1>6 DEF Asked

LEMMA AddKeeps ==
    ASSUME IInv, NEW p \in Peers, HashAdd(p) \/ TxAdd(p)
    PROVE  IInv'
  <1> DEFINE t == Head(todo[p])
  <1>1. /\ UNCHANGED <<knownTxs, msgs, announced, received, hooked, feedVars>>
        /\ pc[p] \in {"hashAdd", "txAdd"} /\ Claim(p, t)
    BY DEF HashAdd, TxAdd, seenVars
  <1>2. todo[p] # <<>> /\ t \in Txs /\ claims[p][t] <= evictions[t]
    BY <1>1, HeadTailProperties DEF IInv, TypeOK, HasItems, Adding
  <1>3. /\ txHashCache' \in Seq(Txs) /\ Len(txHashCache') <= CacheCap
        /\ claims' \in [Peers -> [Txs -> Nat]] /\ evictions' \in [Txs -> Nat]
        /\ Asked'
        /\ \A u \in Txs : Cached(u)' => u = t \/ Cached(u)
        /\ \A u \in Txs : evictions[u] <= evictions'[u]
        /\ \A q \in Peers : q # p => claims'[q] = claims[q]
    BY <1>1, <1>2, ClaimProperties
  <1>4. FeedInv'
    BY <1>1, ChannelKeeps DEF IInv, FeedInv, FeedTypeOK, feedVars, pumpVars, subVars
  <1>5. \/ /\ HashAdd(p) /\ pc[p] = "hashAdd" /\ Advance(p, "hash")
           /\ toRequest' = [toRequest EXCEPT ![p] = Append(@, t)]
        \/ /\ TxAdd(p) /\ pc[p] = "txAdd" /\ pc' = [pc EXCEPT ![p] = "hook"]
           /\ UNCHANGED <<todo, toRequest>>
    BY DEF HashAdd, TxAdd
  <1>6. /\ todo' \in [Peers -> Seq(Txs)] /\ Others(p)
        /\ pc' \in [Peers -> {"read", "hash", "hashAdd", "request", "tx", "txAdd", "hook"}]
        /\ pc'[p] \in {"hash", "tx", "hook"} => todo'[p] # <<>>
        /\ pc'[p] \notin {"hashAdd", "txAdd"}
        /\ pc[p] = "txAdd" => pc'[p] = "hook" /\ todo'[p] = todo[p]
    <2>1. CASE Advance(p, "hash") /\ pc[p] = "hashAdd"
      BY <1>2, <2>1, AdvanceProperties DEF IInv
    <2>2. CASE TxAdd(p)
      BY <1>2, <2>2 DEF TxAdd, IInv, TypeOK, Others
    <2>3. QED
      BY <1>5, <2>1, <2>2
  <1>7. toRequest' \in [Peers -> Seq(Txs)]
    <2>1. toRequest \in [Peers -> Seq(Txs)] /\ Append(toRequest[p], t) \in Seq(Txs)
      BY <1>2, AppendProperties DEF IInv, TypeOK
    <2>2. QED
      BY <1>5, <2>1
  <1>8. TypeOK'
    BY <1>1, <1>3, <1>4, <1>6, <1>7 DEF IInv, TypeOK, FeedInv
  <1>9. HasItems'
    BY <1>6 DEF IInv, HasItems, Others
  <1>10. Adding'
    <2> SUFFICES ASSUME NEW q \in Peers, pc'[q] \in {"hashAdd", "txAdd"}
                 PROVE  claims'[q][Head(todo'[q])] <= evictions'[Head(todo'[q])]
      BY DEF Adding
    <2>1. q # p /\ pc[q] = pc'[q] /\ todo'[q] = todo[q] /\ claims'[q] = claims[q]
      BY <1>3, <1>6 DEF Others
    <2>2. Head(todo[q]) \in Txs
      BY <2>1, HeadTailProperties DEF IInv, TypeOK, HasItems
    <2>3. claims[q][Head(todo[q])] <= evictions[Head(todo[q])]
      BY <2>1 DEF IInv, Adding
    <2>4. /\ claims[q][Head(todo[q])] \in Nat /\ evictions[Head(todo[q])] \in Nat
          /\ evictions'[Head(todo[q])] \in Nat
          /\ evictions[Head(todo[q])] <= evictions'[Head(todo[q])]
      BY <1>3, <2>2 DEF IInv, TypeOK
    <2>5. QED
      BY <2>1, <2>3, <2>4
  <1>11. \A u : AboutToHook(u) => AboutToHook(u)'
    BY <1>1, <1>6 DEF AboutToHook, Others
  <1>12. t \in announced \/ AboutToHook(t)'
    BY <1>1, <1>6 DEF IInv, Accounted, AboutToHook
  <1>13. Accounted'
    BY <1>1, <1>3, <1>6, <1>11, <1>12 DEF IInv, Accounted, Others
  <1>14. PushedIsHooked'
    BY <1>1, <1>11 DEF IInv, PushedIsHooked, Acceptable
  <1>15. QED
    BY <1>3, <1>4, <1>8, <1>9, <1>10, <1>13, <1>14 DEF IInv

LEMMA RequestKeeps ==
    ASSUME IInv, NEW p \in Peers, RequestBatch(p)
    PROVE  IInv'
  <1>1. /\ UNCHANGED <<txHashCache, claims, evictions, knownTxs, todo, msgs, announced,
                       received, hooked, feedVars>>
        /\ pc[p] = "request"
    BY DEF RequestBatch, cacheVars, seenVars
  <1>2. PICK left \in {Rest(toRequest[p]), <<>>} :
            /\ toRequest' = [toRequest EXCEPT ![p] = left]
            /\ pc' = [pc EXCEPT ![p] = IF left = <<>> THEN "read" ELSE "request"]
    BY DEF RequestBatch
  <1>3. left \in Seq(Txs)
    <2>1. toRequest[p] \in Seq(Txs) /\ Len(toRequest[p]) \in Nat /\ SoftLimit \in Nat
      BY TxSniffAssumption, LenProperties DEF IInv, TypeOK
    <2>2. \A i \in (SoftLimit + 1)..Len(toRequest[p]) : toRequest[p][i] \in Txs
      BY <2>1, ElementOfSeq
    <2>3. SubSeq(toRequest[p], SoftLimit + 1, Len(toRequest[p])) \in Seq(Txs)
      BY <2>1, <2>2, SubSeqProperties
    <2>4. <<>> \in Seq(Txs)
      BY EmptySeq
    <2>5. QED
      BY <2>3, <2>4, Zenon DEF Rest
  <1>4. FeedInv'
    BY <1>1, ChannelKeeps DEF IInv, FeedInv, FeedTypeOK, feedVars, pumpVars, subVars
  <1>5. /\ toRequest' \in [Peers -> Seq(Txs)] /\ Others(p) /\ pc'[p] \in {"read", "request"}
        /\ pc' \in [Peers -> {"read", "hash", "hashAdd", "request", "tx", "txAdd", "hook"}]
    BY <1>1, <1>2, <1>3 DEF IInv, TypeOK, Others
  <1>6. TypeOK'
    BY <1>1, <1>4, <1>5 DEF IInv, TypeOK, FeedInv
  <1>7. HasItems' /\ Adding'
    BY <1>1, <1>5 DEF IInv, HasItems, Adding, Others
  <1>8. Asked'
    BY <1>1 DEF IInv, Asked, Cached
  <1>9. Accounted' /\ PushedIsHooked'
    BY <1>1, <1>5, StillAbout DEF IInv, Accounted, PushedIsHooked, Cached, Others
  <1>10. QED
    BY <1>4, <1>6, <1>7, <1>8, <1>9 DEF IInv

(* The hook is called with what the loop was about to hook.                 *)
LEMMA HookKeeps ==
    ASSUME IInv, NEW p \in Peers, Hook(p)
    PROVE  IInv'
  <1> DEFINE t == Head(todo[p])
  <1>1. /\ UNCHANGED <<txHashCache, claims, evictions, knownTxs, toRequest, msgs, announced,
                       received>>
        /\ UNCHANGED <<quitSync, pump, sending, toSend, subVars, taken>>
        /\ pc[p] = "hook" /\ Offer(t) /\ hooked' = hooked \cup {t} /\ Advance(p, "tx")
    BY DEF Hook, cacheVars
  <1>2. todo[p] # <<>> /\ t \in Txs
    BY <1>1, HeadTailProperties DEF IInv, TypeOK, HasItems
  <1>3. FeedInv'
    BY <1>1, <1>2, OfferKeeps DEF IInv
  <1>4. /\ todo' \in [Peers -> Seq(Txs)] /\ Others(p)
        /\ pc' \in [Peers -> {"read", "hash", "hashAdd", "request", "tx", "txAdd", "hook"}]
        /\ pc'[p] \in {"read", "hash", "request", "tx"}
        /\ pc'[p] \in {"hash", "tx"} => todo'[p] # <<>>
    BY <1>1, <1>2, AdvanceProperties DEF IInv
  <1>5. TypeOK'
    BY <1>1, <1>2, <1>3, <1>4 DEF IInv, TypeOK, FeedInv
  <1>6. HasItems' /\ Adding'
    BY <1>1, <1>4 DEF IInv, HasItems, Adding, Others
  <1>7. Asked'
    BY <1>1 DEF IInv, Asked, Cached
  <1>8. \A u : AboutToHook(u) => AboutToHook(u)' \/ u \in hooked'
    BY <1>1, <1>4 DEF AboutToHook, Others
  <1>9. Accounted'
    BY <1>1, <1>4, <1>8 DEF IInv, Accounted, Cached, Others
  <1>10. PushedIsHooked'
    BY <1>1, <1>8 DEF IInv, PushedIsHooked, Acceptable
  <1>11. QED
    BY <1>3, <1>5, <1>6, <1>7, <1>9, <1>10 DEF IInv

LEMMA StepKeeps ==
    ASSUME IInv, [Next]_vars
    PROVE  IInv'
  <1>1. ASSUME FeedInv', UNCHANGED sniffVars PROVE IInv'
    <2>1. UNCHANGED <<txHashCache, claims, evictions, knownTxs, pc, todo, toRequest, msgs,
                      announced, received, hooked>>
      BY <1>1 DEF sniffVars, cacheVars, loopVars, seenVars
    <2>2. TypeOK' /\ HasItems' /\ Adding' /\ PushedIsHooked'
      BY <1>1, <2>1
      DEF IInv, TypeOK, FeedInv, HasItems, Adding, PushedIsHooked, AboutToHook, Acceptable
    <2>3. Asked' /\ Accounted'
      BY <2>1 DEF IInv, Asked, Accounted, AboutToHook, Cached
    <2>4. QED
      BY <1>1, <2>2, <2>3 DEF IInv
  <1>2. CASE \E p \in Peers : Receive(p) \/ Handle(p)
    BY <1>2, ReceiveKeeps, ItemKeeps, AddKeeps, RequestKeeps, HookKeeps DEF Handle
  <1>3. CASE FeedNext /\ UNCHANGED sniffVars
    <2>1. FeedInv'
      BY <1>3, FeedKeeps DEF IInv
    <2>2. QED
      BY <1>1, <1>3, <2>1
  <1>4. CASE UNCHANGED vars
    <2>1. FeedInv' /\ UNCHANGED sniffVars
      BY <1>4, ChannelKeeps DEF vars, IInv, FeedInv, FeedTypeOK, feedVars, pumpVars, subVars
    <2>2. QED
      BY <1>1, <2>1
  <1>5. QED
    BY <1>2, <1>3, <1>4 DEF Next

-----------------------------------------------------------------------------
(* For any peers, transactions and cache: a loop claims a hash once, and    *)
(* again only after it was evicted, although looking it up and adding it    *)
(* are two steps and other loops add and evict in between                   *)
(* (handleTxHashes, handleTxs); and the types hold.                         *)
THEOREM OnceClaimed == Spec => []ClaimedOnce
  <1>1. IInv => ClaimedOnce
    <2> SUFFICES ASSUME IInv, NEW p \in Peers, NEW t \in Txs
                 PROVE  claims[p][t] <= 1 + evictions[t]
      BY DEF IInv, ClaimedOnce
    <2>1. /\ claims[p][t] \in Nat /\ evictions[t] \in Nat
          /\ claims[p][t] <= evictions[t] + (IF Cached(t) THEN 1 ELSE 0)
      BY DEF IInv, TypeOK, Asked
    <2>2. QED
      BY <2>1
  <1>2. QED
    BY InitIInv, StepKeeps, <1>1, PTL DEF Spec

(* For any prices and signatures: what is acceptable and was not announced  *)
(* reaches the hook, whichever loop took it first (handleTxs).              *)
THEOREM PushedReachesHook == Spec => []PushedIsHooked
  BY InitIInv, StepKeeps, PTL DEF Spec, IInv

(* For any number of subscriptions and any capacities: a live subscription  *)
(* misses nothing the pump took, in order and once (Service.Start,          *)
(* NewPendingTransactions).                                                 *)
THEOREM SubscriptionComplete == Spec => []NothingMissed
  BY InitIInv, StepKeeps, PTL DEF Spec, IInv, FeedInv
=============================================================================
