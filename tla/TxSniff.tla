------------------------------- MODULE TxSniff -------------------------------
(***************************************************************************)
(* How transactions reach the service: the message loops of the peers run   *)
(* handleTxHashes and handleTxs concurrently over the one cache of seen     *)
(* hashes, announced hashes are requested, accepted transactions go through *)
(* newTxsHook into the channel of TxFeed.                                   *)
(*                                                                          *)
(* A transaction stands for its hash.  The cache locks each call, so        *)
(* Contains and Add are separate steps.  knownTxs is the set of what was    *)
(* ever marked; its eviction is the subject of KnownCache.                  *)
(***************************************************************************)
EXTENDS TxFeed, SequencesExt

CONSTANTS
    Peers,
    Price,         \* gas price of each transaction
    MinGasPrice,
    Signed,        \* transactions types.Sender accepts
    CacheCap,      \* entries of txHashCache
    SoftLimit,     \* softLimitItems: hashes in one request
    MaxMsgLen,     \* bound: items in one message
    MaxMsgs        \* bound: messages each peer sends

ASSUME TxSniffAssumption ==
    /\ Price \in [Txs -> Nat] /\ MinGasPrice \in Nat
    /\ Signed \subseteq Txs
    /\ CacheCap \in Nat \ {0} /\ SoftLimit \in Nat \ {0}
    /\ MaxMsgLen \in Nat /\ MaxMsgs \in Nat

VARIABLES
    txHashCache,   \* seen hashes, the most recently added first
    knownTxs,      \* knownTxs[p]: hashes marked as known to p
    pc,            \* pc[p]: where the message loop of p is
    todo,          \* todo[p]: items of the message of p not yet handled
    toRequest,     \* toRequest[p]: hashes p's loop will ask p for
    msgs,          \* msgs[p]: messages p has sent
    claims,        \* history: claims[p][t]: times p's loop claimed t
    evictions,     \* history: evictions[t]: times the cache evicted t
    announced,     \* history: announced transactions that were handled
    received,      \* history: transactions that were handled
    hooked         \* history: transactions newTxsHook was called with

loopVars == <<pc, todo, toRequest, msgs>>
cacheVars == <<txHashCache, claims, evictions>>
seenVars == <<announced, received, hooked>>
sniffVars == <<cacheVars, knownTxs, loopVars, seenVars>>
vars == <<sniffVars, feedVars>>

Init ==
    /\ txHashCache = <<>>
    /\ FeedInit
    /\ knownTxs = [p \in Peers |-> {}]
    /\ pc = [p \in Peers |-> "read"]
    /\ todo = [p \in Peers |-> <<>>]
    /\ toRequest = [p \in Peers |-> <<>>]
    /\ msgs = [p \in Peers |-> 0]
    /\ claims = [p \in Peers |-> [t \in Txs |-> 0]]
    /\ evictions = [t \in Txs |-> 0]
    /\ announced = {}
    /\ received = {}
    /\ hooked = {}

-----------------------------------------------------------------------------
(* txHashCache, an external LRU cache with its own lock.  Contains does not *)
(* refresh an entry; Add moves it to the front and evicts the oldest.       *)

Cached(t) == t \in ToSet(txHashCache)

Trim(q) == SubSeq(q, 1, IF Len(q) > CacheCap THEN CacheCap ELSE Len(q))

ForgetAdd(t) == txHashCache
CacheAdd(t) == Trim(<<t>> \o RemoveFirst(txHashCache, t))

(* A loop claims t: it adds it to the cache, in order to request it or to   *)
(* pass it on.                                                              *)
Claim(p, t) ==
    /\ txHashCache' = CacheAdd(t)
    /\ claims' = [claims EXCEPT ![p][t] = @ + 1]
    /\ evictions' = [u \in Txs |->
                       IF u \in ToSet(txHashCache) \ ToSet(txHashCache')
                       THEN evictions[u] + 1 ELSE evictions[u]]

-----------------------------------------------------------------------------
(* handleMsg reads a message of transaction hashes or of transactions.      *)
Receive(p) ==
    /\ pc[p] = "read"
    /\ msgs[p] < MaxMsgs
    /\ msgs' = [msgs EXCEPT ![p] = @ + 1]
    /\ \E n \in 1..MaxMsgLen, kind \in {"hash", "tx"} :
        /\ pc' = [pc EXCEPT ![p] = kind]
        /\ \E items \in [1..n -> Txs] : todo' = [todo EXCEPT ![p] = items]
    /\ UNCHANGED <<cacheVars, knownTxs, toRequest, seenVars, feedVars>>

(* The next item, or the end of the loop over the items.                    *)
After(p, loop) == IF Len(todo[p]) > 1 THEN loop
                  ELSE IF loop = "hash" THEN "request" ELSE "read"
Advance(p, loop) ==
    /\ pc' = [pc EXCEPT ![p] = After(p, loop)]
    /\ todo' = [todo EXCEPT ![p] = Tail(@)]

Mark(p) == knownTxs' = [knownTxs EXCEPT ![p] = @ \cup {Head(todo[p])}]

(* handleTxHashes: mark the hash and look it up.                            *)
HashItem(p) ==
    /\ pc[p] = "hash"
    /\ Mark(p)
    /\ announced' = announced \cup {Head(todo[p])}
    /\ IF Cached(Head(todo[p]))
       THEN Advance(p, "hash")
       ELSE pc' = [pc EXCEPT ![p] = "hashAdd"] /\ UNCHANGED todo
    /\ UNCHANGED <<cacheVars, toRequest, msgs, received, hooked, feedVars>>

(* ... and claim it for retrieval if it was new.                            *)
HashAdd(p) ==
    /\ pc[p] = "hashAdd"
    /\ Claim(p, Head(todo[p]))
    /\ toRequest' = [toRequest EXCEPT ![p] = Append(@, Head(todo[p]))]
    /\ Advance(p, "hash")
    /\ UNCHANGED <<knownTxs, msgs, seenVars, feedVars>>

(* RequestTransactions sends one batch; a failed send gives up the rest.    *)
Rest(q) == SubSeq(q, SoftLimit + 1, Len(q))
RequestBatch(p) ==
    /\ pc[p] = "request"
    /\ \E left \in {Rest(toRequest[p]), <<>>} :
        /\ toRequest' = [toRequest EXCEPT ![p] = left]
        /\ pc' = [pc EXCEPT ![p] = IF left = <<>> THEN "read" ELSE "request"]
    /\ UNCHANGED <<cacheVars, knownTxs, todo, msgs, seenVars, feedVars>>

(* handleTxs accepts a transaction by its price and its signature.          *)
AcceptsAbove(t) == Price[t] > MinGasPrice /\ t \in Signed
Accepts(t) == ~(Price[t] < MinGasPrice) /\ t \in Signed

(* handleTxs: mark the transaction, look it up, validate it.                *)
TxItem(p) ==
    /\ pc[p] = "tx"
    /\ Mark(p)
    /\ received' = received \cup {Head(todo[p])}
    /\ IF Cached(Head(todo[p])) \/ ~Accepts(Head(todo[p]))
       THEN Advance(p, "tx")
       ELSE pc' = [pc EXCEPT ![p] = "txAdd"] /\ UNCHANGED todo
    /\ UNCHANGED <<cacheVars, toRequest, msgs, announced, hooked, feedVars>>

TxAdd(p) ==
    /\ pc[p] = "txAdd"
    /\ Claim(p, Head(todo[p]))
    /\ pc' = [pc EXCEPT ![p] = "hook"]
    /\ UNCHANGED <<knownTxs, todo, toRequest, msgs, seenVars, feedVars>>

(* handleTxs calls the hook.                                                *)
Hook(p) ==
    /\ pc[p] = "hook"
    /\ Offer(Head(todo[p]))
    /\ hooked' = hooked \cup {Head(todo[p])}
    /\ Advance(p, "tx")
    /\ UNCHANGED <<cacheVars, knownTxs, toRequest, msgs, announced, received>>
    /\ UNCHANGED <<quitSync, pump, sending, toSend, subVars, taken>>

-----------------------------------------------------------------------------
Handle(p) == HashItem(p) \/ HashAdd(p) \/ RequestBatch(p) \/ TxItem(p)
             \/ TxAdd(p) \/ Hook(p)

Next ==
    \/ \E p \in Peers : Receive(p) \/ Handle(p)
    \/ FeedNext /\ UNCHANGED sniffVars

Spec == Init /\ [][Next]_vars

(* The message loops, the pump and the goroutines of the subscriptions run; *)
(* a Notify ends, by the write deadline of the connection at the latest;    *)
(* the pump's select does not pass over quitSync for ever.                  *)
FairSpec ==
    /\ Spec
    /\ \A p \in Peers : WF_vars(Handle(p))
    /\ WF_vars(PumpStep /\ UNCHANGED sniffVars)
    /\ SF_vars(PumpQuits /\ UNCHANGED sniffVars)
    /\ \A s \in Subs : WF_vars(SubStep(s) /\ UNCHANGED sniffVars)

-----------------------------------------------------------------------------
(* Properties.                                                              *)

TypeOK ==
    /\ FeedTypeOK
    /\ txHashCache \in Seq(Txs) /\ Len(txHashCache) <= CacheCap
    /\ knownTxs \in [Peers -> SUBSET Txs]
    /\ pc \in [Peers -> {"read", "hash", "hashAdd", "request", "tx", "txAdd", "hook"}]
    /\ todo \in [Peers -> Seq(Txs)]
    /\ toRequest \in [Peers -> Seq(Txs)]
    /\ msgs \in [Peers -> Nat]
    /\ claims \in [Peers -> [Txs -> Nat]] /\ evictions \in [Txs -> Nat]
    /\ announced \subseteq Txs /\ received \subseteq Txs /\ hooked \subseteq Txs

(* Each message loop claims a hash once, and again only after the cache has *)
(* evicted it, however the loops interleave and however often the hash is   *)
(* announced and delivered (handleTxHashes, handleTxs).                     *)
ClaimedOnce ==
    /\ TypeOK
    /\ \A p \in Peers, t \in Txs : claims[p][t] <= 1 + evictions[t]

(* Every acceptable transaction that a loop has handled has been given to   *)
(* the hook, or is about to be by some loop, unless its hash was announced. *)
Acceptable(t) == Price[t] >= MinGasPrice /\ t \in Signed
AboutToHook(t) ==
    \E p \in Peers : pc[p] \in {"txAdd", "hook"} /\ Head(todo[p]) = t
PushedIsHooked ==
    \A t \in received :
        Acceptable(t) => t \in hooked \/ AboutToHook(t) \/ t \in announced

(* What service.go:78 says of the hook: it is called when the handler       *)
(* receives a valid transaction.                                            *)
ReceivedIsHooked ==
    \A t \in received : Acceptable(t) => t \in hooked \/ AboutToHook(t)

(* A message loop always gets back to reading, the channel being full or    *)
(* the pump gone (service.go:84, handler.go:80).                            *)
LoopsReturn == \A p \in Peers : pc[p] # "read" ~> pc[p] = "read"

(* When the handler stops, the pump ends, whatever the subscribers do: a    *)
(* subscriber delays a Send, but none holds it for ever (Service.Start).    *)
PumpEnds == quitSync ~> pump = "gone"
=============================================================================
