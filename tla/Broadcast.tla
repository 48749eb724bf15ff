------------------------------ MODULE Broadcast ------------------------------
(***************************************************************************)
(* How events and transactions would be propagated: BroadcastEvent and      *)
(* BroadcastTxs look up which peers lack what, decide to how many of them   *)
(* the payload goes (the others get the ids), and hand messages to the      *)
(* outgoing queues, while the message loops of EventSniff mark what the     *)
(* peers show.  A queue accepts a message or drops it; how is the subject   *)
(* of PeerQueue.  Nothing in the code calls the two methods.                *)
(*                                                                          *)
(* Time is in milliseconds.  Products that would leave the 64 bits of the   *)
(* code are not among the inputs.                                           *)
(***************************************************************************)
EXTENDS EventSniff

CONSTANTS
    TxBatch,       \* the transactions of a BroadcastTxs, in order
    Useless,       \* peers with the useless flag
    Size,          \* Size[x]: bytes of event or transaction x
    Overhead,      \* 1024: bytes counted for a transaction besides its own
    SoftSize,      \* softResponseLimitSize
    MinFull,       \* 4: recipients of the payload, at least, in the middle range
    LatencyImportance, ThroughputImportance,
    Ages,          \* times passed since an event was made
    Nothing

Txs == ToSet(TxBatch)

ASSUME BroadcastAssumption ==
    /\ TxBatch \in Seq(Txs) /\ IsInjective(TxBatch)
    /\ IsFiniteSet(Peers) /\ Useless \subseteq Peers
    /\ Size \in [Events \cup Txs -> Nat]
    /\ Overhead \in Nat /\ SoftSize \in Nat \ {0} /\ MinFull \in Nat
    /\ LatencyImportance \in Nat /\ ThroughputImportance \in Nat
    /\ Ages \subseteq Nat
    /\ Nothing \notin Events \cup Txs

VARIABLES
    knownTxs,      \* knownTxs[p]: transactions marked as known to p
    bpc,           \* the broadcasting goroutine: "idle", "events", "scan", "txs"
    item,          \* the event it broadcasts, or Nothing
    lacking,       \* peers it found to lack the event
    quota,         \* fullRecipients
    offers,        \* history: the offers of the event it has made
    batch,         \* transactions it still has to look up
    txset,         \* txset[p]: transactions it found p to lack
    rest,          \* rest[p]: those of them not yet handed to the queue of p
    handed         \* history: handed[p]: the batches handed over

eventVars == <<item, lacking, offers>>
txVars    == <<batch, txset, rest, handed>>
castVars  == <<bpc, quota, eventVars, txVars>>
vars      == <<sniffVars, knownTxs, castVars>>

NoTxs == [p \in Peers |-> <<>>]

Init ==
    /\ SniffInit
    /\ knownTxs = [p \in Peers |-> {}]
    /\ bpc = "idle" /\ quota = 0
    /\ item = Nothing /\ lacking = {} /\ offers = <<>>
    /\ batch = <<>> /\ txset = NoTxs /\ rest = NoTxs
    /\ handed = NoTxs

-----------------------------------------------------------------------------
(* decideBroadcastAggressiveness.                                           *)

Percents == 100
MaxPercents == 1000000 * Percents
Tradeoff == IF ThroughputImportance = 0 THEN MaxPercents
            ELSE (LatencyImportance * Percents) \div ThroughputImportance

Cost(size, passed) == (passed * (128 + size)) \div 128
AllTarget == (Tradeoff * 700) \div Percents
SqrtTarget == AllTarget * 10

Root(n) == CHOOSE r \in 0..n : r * r <= n /\ n < (r + 1) * (r + 1)
Least(a, b) == IF a < b THEN a ELSE b

Uncapped(size, passed, n) ==
    CASE Tradeoff >= MaxPercents              -> n
      [] Tradeoff = 0                         -> 0
      [] Tradeoff \in 1..(MaxPercents - 1)    ->
            IF Cost(size, passed) <= AllTarget THEN n
            ELSE IF Cost(size, passed) <= SqrtTarget
                 THEN IF Root(n) < MinFull THEN MinFull ELSE Root(n)
                 ELSE 0
FullRecipients(size, passed, n) == Least(Uncapped(size, passed, n), n)

-----------------------------------------------------------------------------
(* BroadcastEvent.                                                          *)

InterestedIn(p, e) ==
    /\ progress[p] # 0
    /\ EpochOf[e] \in {progress[p], progress[p] + 1}
    /\ e \notin knownEvents[p]

(* The list of the peers that lack the event, and how many of them get it   *)
(* whole.  A peer's own answer does not depend on the others', so the scan  *)
(* of the peer set is one step.                                             *)
BroadcastEvent(e, passed) ==
    /\ bpc = "idle" /\ inputs < MaxInputs /\ inputs' = inputs + 1
    /\ lacking' = {p \in Peers : InterestedIn(p, e)}
    /\ lacking' # {}
    /\ quota' = FullRecipients(Size[e], passed, Cardinality(lacking'))
    /\ bpc' = "events" /\ item' = e
    /\ UNCHANGED <<epoch, trackedEpoch, cacheVars, peerVars, pc, kind, checkVars, todo,
                   toRequest, knownTxs, offers, txVars>>

Offered == {offers[i].peer : i \in DOMAIN offers}
OfferedAs(form) == {offers[i].peer : i \in {j \in DOMAIN offers : offers[j].form = form}}

(* Who gets it whole: peers that are not useless, as many as the quota      *)
(* allows; they are served before the others.                               *)
AnyPeer == lacking
Worthy == lacking \ Useless
MayGetWhole(p) == p \in Worthy /\ Cardinality(OfferedAs("full")) < quota
WholeIsDue == Worthy \ Offered # {} /\ Cardinality(OfferedAs("full")) < quota

(* The message is accepted, and the id marked as known, or dropped.         *)
OfferEvent(p) ==
    /\ bpc = "events" /\ p \in lacking \ Offered
    /\ \/ MayGetWhole(p) /\ offers' = Append(offers, [peer |-> p, form |-> "full"])
       \/ ~WholeIsDue /\ offers' = Append(offers, [peer |-> p, form |-> "ids"])
    /\ \/ knownEvents' = [knownEvents EXCEPT ![p] = @ \cup {item}]
       \/ UNCHANGED knownEvents
    /\ UNCHANGED <<epoch, trackedEpoch, cacheVars, progress, pc, kind, checkVars, itemVars,
                   knownTxs, bpc, quota, item, lacking, txVars>>

EventDone ==
    /\ bpc = "events" /\ lacking \subseteq Offered
    /\ bpc' = "idle" /\ quota' = 0
    /\ item' = Nothing /\ lacking' = {} /\ offers' = <<>>
    /\ UNCHANGED <<sniffVars, knownTxs, txVars>>

-----------------------------------------------------------------------------
(* BroadcastTxs.                                                            *)

(* A message loop marks a transaction (TxSniff).                            *)
ShowTx(p, t) ==
    /\ inputs < MaxInputs /\ inputs' = inputs + 1
    /\ knownTxs' = [knownTxs EXCEPT ![p] = @ \cup {t}]
    /\ UNCHANGED <<epoch, trackedEpoch, cacheVars, peerVars, pc, kind, checkVars, todo,
                   toRequest, castVars>>

BroadcastTxs ==
    /\ bpc = "idle" /\ inputs < MaxInputs /\ inputs' = inputs + 1
    /\ bpc' = "scan"
    /\ batch' = TxBatch
    /\ UNCHANGED <<epoch, trackedEpoch, cacheVars, peerVars, pc, kind, checkVars, todo,
                   toRequest, knownTxs, quota, eventVars, txset, rest, handed>>

(* PeersWithoutTx for the next transaction.                                 *)
ScanTx ==
    /\ bpc = "scan" /\ batch # <<>>
    /\ txset' = [p \in Peers |-> IF Head(batch) \in knownTxs[p] THEN txset[p]
                                 ELSE Append(txset[p], Head(batch))]
    /\ batch' = Tail(batch)
    /\ UNCHANGED <<sniffVars, knownTxs, bpc, quota, eventVars, rest, handed>>

(* The decision counts every peer that lacks something.                     *)
TotalSize == MapThenSumSet(LAMBDA t : Size[t], Txs)
PlanTxs ==
    /\ bpc = "scan" /\ batch = <<>>
    /\ quota' = FullRecipients(TotalSize, 1000, Cardinality({p \in Peers : txset[p] # <<>>}))
    /\ rest' = txset
    /\ bpc' = "txs"
    /\ UNCHANGED <<sniffVars, knownTxs, eventVars, batch, txset, handed>>

(* SplitTransactions: a batch ends with the transaction that reaches a      *)
(* limit.  The sum of sizes is the number of the bytes they are the sizes   *)
(* of.                                                                      *)
BatchBytes(q, n) == UNION {{i} \X (1..(Size[q[i]] + Overhead)) : i \in 1..n}
BatchSize(q, n) == Cardinality(BatchBytes(q, n))
Reaches(q, n) == BatchSize(q, n) >= SoftSize \/ n >= SoftLimit
BatchLenShort(q) ==
    CHOOSE n \in 0..Len(q) : /\ n = Len(q) \/ Reaches(q, n + 1)
                             /\ \A m \in 1..n : ~Reaches(q, m)
BatchLen(q) ==
    CHOOSE n \in 1..Len(q) : /\ n = Len(q) \/ Reaches(q, n)
                             /\ \A m \in 1..(n - 1) : ~Reaches(q, m)

(* The iteration over the map takes one peer after the other; the first of  *)
(* them, as many as the quota, get whole transactions, the others ids.  A   *)
(* batch is handed to the queue: accepted and marked, or dropped.           *)
Begun == {p \in Peers : handed[p] # <<>>}
GetsWhole(p) == Cardinality(Begun \ {p}) < quota
SendBatch(p) ==
    LET n == BatchLen(rest[p]) IN
    /\ bpc = "txs" /\ rest[p] # <<>>
    /\ \A q \in Begun \ {p} : rest[q] = <<>>
    /\ handed' = [handed EXCEPT ![p] = Append(@, [txs |-> SubSeq(rest[p], 1, n),
                                                   whole |-> GetsWhole(p)])]
    /\ rest' = [rest EXCEPT ![p] = SubSeq(@, n + 1, Len(@))]
    /\ \/ knownTxs' = [knownTxs EXCEPT ![p] = @ \cup ToSet(SubSeq(rest[p], 1, n))]
       \/ UNCHANGED knownTxs
    /\ UNCHANGED <<sniffVars, bpc, quota, eventVars, batch, txset>>

TxsDone ==
    /\ bpc = "txs" /\ rest = NoTxs
    /\ bpc' = "idle" /\ quota' = 0
    /\ txset' = NoTxs /\ handed' = NoTxs
    /\ UNCHANGED <<sniffVars, knownTxs, eventVars, batch, rest>>

-----------------------------------------------------------------------------
CastNext ==
    \/ \E e \in Events, passed \in Ages : BroadcastEvent(e, passed)
    \/ \E p \in Peers : OfferEvent(p) \/ SendBatch(p)
    \/ EventDone \/ BroadcastTxs \/ ScanTx \/ PlanTxs \/ TxsDone
    \/ \E p \in Peers, t \in Txs : ShowTx(p, t)

Next ==
    \/ SniffNext /\ UNCHANGED <<knownTxs, castVars>>
    \/ CastNext

Spec == Init /\ [][Next]_vars

-----------------------------------------------------------------------------
(* Properties.                                                              *)

TypeOK ==
    /\ knownTxs \in [Peers -> SUBSET Txs]
    /\ bpc \in {"idle", "events", "scan", "txs"}
    /\ item \in Events \cup {Nothing} /\ lacking \subseteq Peers
    /\ quota \in 0..Cardinality(Peers)
    /\ batch \in Seq(Txs)

(* Every peer that was found to lack the event is offered it once, whole or *)
(* by its id, whatever the message loops mark in the meantime; no useless   *)
(* peer gets it whole; and before the first gets only its id, as many as    *)
(* the decision says, or all that are worthy, have got it whole             *)
(* (BroadcastEvent, decideBroadcastAggressiveness).                         *)
OfferedOnce ==
    /\ TypeOK
    /\ \A i, j \in DOMAIN offers : offers[i].peer = offers[j].peer => i = j
    /\ Offered \subseteq lacking
    /\ OfferedAs("full") \cap Useless = {}
    /\ bpc = "events" /\ OfferedAs("ids") # {} =>
         Cardinality(OfferedAs("full")) = Least(quota, Cardinality(Worthy))

(* What a peer lacks is handed to its queue in order, nothing twice and     *)
(* nothing left out, in batches that are not empty, have at most            *)
(* softLimitItems, reach the size limit only with their last transaction,   *)
(* and are all in one form (BroadcastTxs, SplitTransactions).               *)
BatchesCover ==
    bpc = "txs" => \A p \in Peers :
        LET batches == [i \in DOMAIN handed[p] |-> handed[p][i].txs] IN
        /\ FlattenSeq(batches) \o rest[p] = txset[p]
        /\ \A i \in DOMAIN batches :
            /\ Len(batches[i]) \in 1..SoftLimit
            /\ BatchSize(batches[i], Len(batches[i]) - 1) < SoftSize
            /\ handed[p][i].whole = handed[p][1].whole
=============================================================================
