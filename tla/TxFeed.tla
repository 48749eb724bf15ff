------------------------------- MODULE TxFeed --------------------------------
(***************************************************************************)
(* How accepted transactions leave the service: the pump of Service.Start   *)
(* takes them from the bounded channel newTxsHook fills and sends them to   *)
(* the feed, which waits for every subscriber; the goroutine of each RPC    *)
(* subscription notifies its client.                                        *)
(*                                                                          *)
(* The feed and the RPC server are external: a Send reaches the subscribers *)
(* there are when it begins, in any order, and waits for those whose        *)
(* channel is full; a Notify ends, with an error when the client is gone or *)
(* too slow.  TxSniff extends this module with the goroutines that fill the *)
(* channel.                                                                 *)
(***************************************************************************)
EXTENDS Naturals, Sequences

CONSTANTS
    Txs,
    Subs,          \* RPC subscriptions
    ChCap,         \* capacity of Service.txCh
    SubCap,        \* capacity of the channel of a subscription
    MaxSubs,       \* bound: times a subscription may be made
    NoTx

ASSUME TxFeedAssumption ==
    /\ ChCap \in Nat \ {0} /\ SubCap \in Nat \ {0} /\ MaxSubs \in Nat
    /\ NoTx \notin Txs

VARIABLES
    txCh,          \* Service.txCh
    quitSync,      \* handler.quitSync is closed
    pump,          \* the pump: "select", "sending", "gone"
    sending,       \* the transaction it is sending, or NoTx
    toSend,        \* subscriptions it still has to reach
    subscribed,    \* subscriptions the feed knows
    apc,           \* apc[s]: the goroutine of s: "off", "select", "notify"
    subCh,         \* subCh[s]: its channel
    notifying,     \* notifying[s]: the transaction it is notifying, or NoTx
    made,          \* made[s]: times s was made
    taken,         \* history: what the pump took since s was made
    notified       \* history: what the client of s was told since then

pumpVars == <<txCh, quitSync, pump, sending>>
subVars  == <<subscribed, apc, subCh, notifying, made, notified>>
feedVars == <<pumpVars, toSend, subVars, taken>>

FeedInit ==
    /\ txCh = <<>>
    /\ quitSync = FALSE
    /\ pump = "select" /\ sending = NoTx /\ toSend = {}
    /\ subscribed = {}
    /\ apc = [s \in Subs |-> "off"]
    /\ subCh = [s \in Subs |-> <<>>]
    /\ notifying = [s \in Subs |-> NoTx]
    /\ made = [s \in Subs |-> 0]
    /\ taken = [s \in Subs |-> <<>>]
    /\ notified = [s \in Subs |-> <<>>]

-----------------------------------------------------------------------------
(* newTxsHook: a send that gives up when the channel is full.               *)
OfferBlocking(t) == Len(txCh) < ChCap /\ txCh' = Append(txCh, t)
Offer(t) == txCh' = IF Len(txCh) < ChCap THEN Append(txCh, t) ELSE txCh

(* handler.Stop.                                                            *)
Quit ==
    /\ ~quitSync
    /\ quitSync' = TRUE
    /\ UNCHANGED <<txCh, pump, sending, toSend, subVars, taken>>

-----------------------------------------------------------------------------
(* The pump and the feed.                                                   *)

PumpTake ==
    /\ pump = "select" /\ txCh # <<>>
    /\ pump' = "sending"
    /\ sending' = Head(txCh)
    /\ txCh' = Tail(txCh)
    /\ toSend' = subscribed
    /\ taken' = [s \in Subs |-> IF s \in subscribed THEN Append(taken[s], Head(txCh))
                                ELSE taken[s]]
    /\ UNCHANGED <<quitSync, subVars>>

FeedDeliver(s) ==
    /\ s \in toSend /\ Len(subCh[s]) < SubCap
    /\ toSend' = toSend \ {s}
    /\ subCh' = [subCh EXCEPT ![s] = Append(@, sending)]
    /\ UNCHANGED <<pumpVars, subscribed, apc, notifying, made, notified, taken>>

SendReturns ==
    /\ pump = "sending" /\ toSend = {}
    /\ pump' = "select"
    /\ sending' = NoTx
    /\ UNCHANGED <<txCh, quitSync, toSend, subVars, taken>>

PumpQuits ==
    /\ pump = "select" /\ quitSync
    /\ pump' = "gone"
    /\ UNCHANGED <<txCh, quitSync, sending, toSend, subVars, taken>>

-----------------------------------------------------------------------------
(* An RPC subscription, NewPendingTransactions and its full variant.        *)

Subscribe(s) ==
    /\ apc[s] = "off" /\ made[s] < MaxSubs
    /\ made' = [made EXCEPT ![s] = @ + 1]
    /\ apc' = [apc EXCEPT ![s] = "select"]
    /\ subscribed' = subscribed \cup {s}
    /\ subCh' = [subCh EXCEPT ![s] = <<>>]
    /\ taken' = [taken EXCEPT ![s] = <<>>]
    /\ notified' = [notified EXCEPT ![s] = <<>>]
    /\ UNCHANGED <<pumpVars, toSend, notifying>>

SubTake(s) ==
    /\ apc[s] = "select" /\ subCh[s] # <<>>
    /\ apc' = [apc EXCEPT ![s] = "notify"]
    /\ notifying' = [notifying EXCEPT ![s] = Head(subCh[s])]
    /\ subCh' = [subCh EXCEPT ![s] = Tail(@)]
    /\ UNCHANGED <<pumpVars, toSend, subscribed, made, notified, taken>>

Notified(s) ==
    /\ apc[s] = "notify"
    /\ apc' = [apc EXCEPT ![s] = "select"]
    /\ notified' = [notified EXCEPT ![s] = Append(@, notifying[s])]
    /\ notifying' = [notifying EXCEPT ![s] = NoTx]
    /\ UNCHANGED <<pumpVars, toSend, subscribed, subCh, made, taken>>

(* The goroutine returns and its deferred Unsubscribe takes the             *)
(* subscription out of the feed, out of a Send in progress too.             *)
StaySubscribed(s) == UNCHANGED <<subscribed, toSend>>
Unsubscribe(s) == subscribed' = subscribed \ {s} /\ toSend' = toSend \ {s}

SkipError(s) ==
    apc' = [apc EXCEPT ![s] = "select"] /\ UNCHANGED <<subscribed, toSend>>
Return(s) == apc' = [apc EXCEPT ![s] = "off"] /\ Unsubscribe(s)

(* The client unsubscribed or hung up.                                      *)
ClientLeaves(s) ==
    /\ apc[s] = "select"
    /\ Return(s)
    /\ UNCHANGED <<pumpVars, subCh, notifying, made, notified, taken>>

OnError(s) == Return(s)
NotifyFails(s) ==
    /\ apc[s] = "notify"
    /\ notifying' = [notifying EXCEPT ![s] = NoTx]
    /\ OnError(s)
    /\ UNCHANGED <<pumpVars, subCh, made, notified, taken>>

-----------------------------------------------------------------------------
PumpStep == PumpTake \/ (\E s \in Subs : FeedDeliver(s)) \/ SendReturns

SubStep(s) == SubTake(s) \/ Notified(s) \/ NotifyFails(s)

FeedNext ==
    \/ Quit \/ PumpStep \/ PumpQuits
    \/ \E s \in Subs : Subscribe(s) \/ SubStep(s) \/ ClientLeaves(s)

-----------------------------------------------------------------------------
(* Properties.                                                              *)

FeedTypeOK ==
    /\ txCh \in Seq(Txs) /\ Len(txCh) <= ChCap
    /\ quitSync \in BOOLEAN
    /\ pump \in {"select", "sending", "gone"}
    /\ sending \in Txs \cup {NoTx}
    /\ toSend \subseteq subscribed /\ subscribed \subseteq Subs
    /\ apc \in [Subs -> {"off", "select", "notify"}]
    /\ subCh \in [Subs -> Seq(Txs)] /\ \A s \in Subs : Len(subCh[s]) <= SubCap
    /\ taken \in [Subs -> Seq(Txs)] /\ notified \in [Subs -> Seq(Txs)]
    /\ notifying \in [Subs -> Txs \cup {NoTx}]
    /\ made \in [Subs -> 0..MaxSubs]

(* A live subscription misses nothing the pump took while it lived, gets    *)
(* nothing twice and nothing out of order: what its client was told, what   *)
(* it is being told, what waits in the channel and what a Send in progress  *)
(* still owes it are together what the pump took (Service.Start,            *)
(* NewPendingTransactions, NewFullPendingTransactions).                     *)
One(t) == IF t = NoTx THEN <<>> ELSE <<t>>
NothingMissed ==
    \A s \in Subs : apc[s] # "off" =>
        taken[s] = notified[s] \o One(notifying[s]) \o subCh[s]
                   \o (IF s \in toSend THEN <<sending>> ELSE <<>>)
=============================================================================
