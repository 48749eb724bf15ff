------------------------------ MODULE PeerQueue ------------------------------
(***************************************************************************)
(* The outgoing side of one peer object: goroutines that propagate hashes   *)
(* look at the known-cache, take a permit of queuedDataSemaphore, put the   *)
(* message into the queue and mark the hash as known; the broadcast         *)
(* goroutine writes the queue to the connection and gives the permits back; *)
(* the message loop marks what the remote side shows it knows; Close ends   *)
(* it all.                                                                  *)
(*                                                                          *)
(* A message carries one hash and stands for it; Size is what memSize       *)
(* computes of it.  The known-cache of the peer, peer.knownTxs, is that of  *)
(* KnownCache.                                                              *)
(***************************************************************************)
EXTENDS KnownCache, FiniteSets

CONSTANTS
    Senders,       \* goroutines that call the send methods
    Size,          \* Size[h]: memSize of the message with h
    MaxItems,      \* MaxQueuedItems: capacity of the queue, and of permits
    MaxSize,       \* MaxQueuedSize
    MaxSends,      \* bound: calls of all senders
    NoHash

ASSUME PeerQueueAssumption ==
    /\ Size \in [Hashes -> Nat]
    /\ MaxItems \in Nat \ {0} /\ MaxSize \in Nat
    /\ MaxSends \in Nat
    /\ NoHash \notin Hashes

(* The ways to send: sendItem, asyncSendEncodedItem, enqueueSendEncodedItem *)
(* and their callers.                                                       *)
Kinds == {"send", "async", "enqueue"}

VARIABLES
    queue,         \* peer.queue
    sem,           \* permits taken of queuedDataSemaphore
    ended,         \* the semaphore was terminated
    term,          \* peer.term is closed
    bpc,           \* the broadcast goroutine: "select", "write", "gone"
    writing,       \* the hash it is writing, or NoHash
    spc,           \* spc[s]: where sender s is
    kind,          \* kind[s]: the method it is in, or none
    item,          \* item[s]: the hash it is sending, or NoHash
    sends,         \* calls made
    told           \* history: hashes the remote side has shown it knows, that
                   \* entered the queue, or that an Enqueue method gave up

senderVars == <<spc, kind, item, sends>>
vars == <<cache, queue, sem, ended, term, bpc, writing, senderVars, told>>

Init ==
    /\ CacheInit
    /\ queue = <<>>
    /\ sem = [num |-> 0, size |-> 0]
    /\ ended = FALSE
    /\ term = FALSE
    /\ bpc = "select"
    /\ writing = NoHash
    /\ spc = [s \in Senders |-> "idle"]
    /\ kind = [s \in Senders |-> "none"]
    /\ item = [s \in Senders |-> NoHash]
    /\ sends = 0
    /\ told = {}

-----------------------------------------------------------------------------
(* The semaphore, external: it counts messages and bytes.                   *)

CanAcquire(h) ==
    /\ ~ended
    /\ sem.num + 1 <= MaxItems
    /\ sem.size + Size[h] <= MaxSize

Acquired(h) == [num |-> sem.num + 1, size |-> sem.size + Size[h]]

(* Giving back more than was taken is reported and resets the count.        *)
Released(h) ==
    IF sem.num < 1 \/ sem.size < Size[h] THEN [num |-> 0, size |-> 0]
    ELSE [num |-> sem.num - 1, size |-> sem.size - Size[h]]

-----------------------------------------------------------------------------
(* A sender.                                                                *)

Goto(s, from, to) == spc[s] = from /\ spc' = [spc EXCEPT ![s] = to]

Idle(s, from) ==
    /\ Goto(s, from, "idle")
    /\ item' = [item EXCEPT ![s] = NoHash]
    /\ kind' = [kind EXCEPT ![s] = "none"]

(* PeersWithoutTx picks the peer for a hash it does not know; the Enqueue   *)
(* methods do not look.                                                     *)
Begin(s) ==
    /\ sends < MaxSends
    /\ Goto(s, "idle", "acquire")
    /\ sends' = sends + 1
    /\ \E h \in Hashes, k \in Kinds :
        /\ k # "enqueue" => ~Contains(cache, h)
        /\ item' = [item EXCEPT ![s] = h]
        /\ kind' = [kind EXCEPT ![s] = k]
    /\ UNCHANGED <<cache, queue, sem, ended, term, bpc, writing, told>>

Acquire(s) ==
    /\ Goto(s, "acquire", "push")
    /\ CanAcquire(item[s])
    /\ sem' = Acquired(item[s])
    /\ UNCHANGED <<cache, queue, ended, term, bpc, writing, kind, item, sends, told>>

(* Whether the hash is marked although the message was not queued.          *)
MarksAlways(s) == TRUE
MarksAnyway(s) == kind[s] = "enqueue"

GivesUp(s) ==
    told' = IF kind[s] = "enqueue" THEN told \cup {item[s]} ELSE told

(* TryAcquire gives up at once, Acquire when its time is over; the Enqueue  *)
(* methods then mark the hash all the same.                                 *)
GiveUp(s) ==
    /\ spc[s] = "acquire"
    /\ ~CanAcquire(item[s])
    /\ GivesUp(s)
    /\ IF MarksAnyway(s)
       THEN Goto(s, "acquire", "mark") /\ UNCHANGED <<kind, item>>
       ELSE Idle(s, "acquire")
    /\ UNCHANGED <<cache, queue, sem, ended, term, bpc, writing, sends>>

(* The send on the queue.                                                   *)
ReleaseAfterPush(h) == Released(h)
HeldAfterPush(h) == sem
Push(s) ==
    /\ Goto(s, "push", "mark")
    /\ Len(queue) < MaxItems
    /\ queue' = Append(queue, item[s])
    /\ sem' = HeldAfterPush(item[s])
    /\ told' = told \cup {item[s]}
    /\ UNCHANGED <<cache, ended, term, bpc, writing, kind, item, sends>>

(* The other cases of the select, then the permit is released: term, unless *)
(* the method is sendItem; the default, unless it is an Enqueue method.     *)
PushFails(s) ==
    /\ spc[s] = "push"
    /\ \/ term /\ kind[s] # "send"
       \/ Len(queue) >= MaxItems /\ kind[s] # "enqueue"
    /\ GivesUp(s)
    /\ IF MarksAnyway(s)
       THEN Goto(s, "push", "mark") /\ UNCHANGED <<kind, item>>
       ELSE Idle(s, "push")
    /\ sem' = Released(item[s])
    /\ UNCHANGED <<cache, queue, ended, term, bpc, writing, sends>>

MarkSent(s) ==
    /\ Idle(s, "mark")
    /\ AddHash(item[s])
    /\ UNCHANGED <<queue, sem, ended, term, bpc, writing, sends, told>>

-----------------------------------------------------------------------------
(* The broadcast goroutine.                                                 *)

ReleaseWhenTaken(h) == Released(h)
HeldWhileWriting(h) == sem
Take ==
    /\ bpc = "select"
    /\ queue # <<>>
    /\ bpc' = "write"
    /\ writing' = Head(queue)
    /\ queue' = Tail(queue)
    /\ sem' = HeldWhileWriting(Head(queue))
    /\ UNCHANGED <<cache, ended, term, senderVars, told>>

Write ==
    /\ bpc = "write"
    /\ bpc' = "select"
    /\ writing' = NoHash
    /\ sem' = Released(writing)
    /\ UNCHANGED <<cache, queue, ended, term, senderVars, told>>

Exit ==
    /\ bpc = "select"
    /\ term
    /\ bpc' = "gone"
    /\ UNCHANGED <<cache, queue, sem, ended, term, writing, senderVars, told>>

-----------------------------------------------------------------------------
(* The session goroutine.                                                   *)

(* MarkTransaction, called by the message loop.                             *)
Mark(h) ==
    /\ ~ended
    /\ AddHash(h)
    /\ told' = told \cup {h}
    /\ UNCHANGED <<queue, sem, ended, term, bpc, writing, senderVars>>

(* Close terminates the semaphore, then closes term.                        *)
CloseSemaphore ==
    /\ ~ended
    /\ ended' = TRUE
    /\ UNCHANGED <<cache, queue, sem, term, bpc, writing, senderVars, told>>

TermLeftOpen == FALSE
TermClosed == TRUE
CloseTerm ==
    /\ ended /\ ~term
    /\ term' = TermClosed
    /\ UNCHANGED <<cache, queue, sem, ended, bpc, writing, senderVars, told>>

-----------------------------------------------------------------------------
Send(s) == Acquire(s) \/ GiveUp(s) \/ Push(s) \/ PushFails(s) \/ MarkSent(s)

Next ==
    \/ \E s \in Senders : Begin(s) \/ Send(s)
    \/ Take \/ Write \/ Exit
    \/ \E h \in Hashes : Mark(h)
    \/ CloseSemaphore \/ CloseTerm

Spec == Init /\ [][Next]_vars

(* Goroutines run, a write ends (the connection has write deadlines), a     *)
(* waiting Acquire ends at its timeout, Close goes on once begun, and the   *)
(* select of the broadcast goroutine does not pass over term for ever.      *)
FairSpec ==
    /\ Spec
    /\ \A s \in Senders : WF_vars(Send(s))
    /\ WF_vars(Take) /\ WF_vars(Write) /\ SF_vars(Exit) /\ WF_vars(CloseTerm)

-----------------------------------------------------------------------------
(* Properties.                                                              *)

Holders == {s \in Senders : spc[s] = "push"}

(* The sum of sizes, as the number of the bytes they are the sizes of.      *)
Bytes(size) == UNION {{x} \X (1..size[x]) : x \in DOMAIN size}
Total(size) == Cardinality(Bytes(size))

QueuedSizes == [i \in DOMAIN queue |-> Size[queue[i]]]
HeldSizes == [s \in Holders |-> Size[item[s]]]

TypeOK ==
    /\ queue \in Seq(Hashes) /\ Len(queue) <= MaxItems
    /\ sem \in [num : 0..MaxItems, size : 0..MaxSize]
    /\ ended \in BOOLEAN /\ term \in BOOLEAN
    /\ bpc \in {"select", "write", "gone"}
    /\ writing \in Hashes \cup {NoHash}
    /\ spc \in [Senders -> {"idle", "acquire", "push", "mark"}]
    /\ kind \in [Senders -> Kinds \cup {"none"}]
    /\ item \in [Senders -> Hashes \cup {NoHash}]
    /\ sends \in 0..MaxSends
    /\ told \subseteq Hashes

(* The permits taken are those of the messages in the queue, of the one     *)
(* being written and of the senders about to put theirs in, in number and   *)
(* in bytes: no path of the send methods, of broadcast or of Close loses a  *)
(* permit or gives one back twice.                                          *)
PermitsAccounted ==
    /\ TypeOK
    /\ sem.num = Len(queue) + Cardinality(Holders)
                 + (IF bpc = "write" THEN 1 ELSE 0)
    /\ sem.size = Total(QueuedSizes) + Total(HeldSizes)
                  + (IF bpc = "write" THEN Size[writing] ELSE 0)

(* A sender with a permit finds room in the queue: the default case of      *)
(* sendItem and asyncSendEncodedItem is never taken, and an Enqueue method  *)
(* that got its permit does not block.                                      *)
RoomForHolders == Holders # {} => Len(queue) < MaxItems

(* Accepted messages leave in order, and no more than MaxQueuedItems are    *)
(* accepted and not yet written, the one at the connection included: the    *)
(* permit of a message outlives its place in the queue.                     *)
Out == INSTANCE Outbox WITH
    Messages <- Hashes, Room <- MaxItems,
    pending  <- (IF bpc = "write" THEN <<writing>> ELSE <<>>) \o queue
ImplementsOutbox == Out!Spec

(* A hash is known because the remote side showed it, because it entered    *)
(* the queue, or because an Enqueue method could not queue it: what the     *)
(* other methods drop stays unknown and is offered again                    *)
(* (AsyncSendTransactions, AsyncSendTransactionHashes).                     *)
KnownIsJustified == cache.items \subseteq told

(* Close ends the broadcast goroutine and leaves no sender waiting.         *)
CloseReleases == ended ~> (bpc = "gone" /\ \A s \in Senders : spc[s] = "idle")
=============================================================================
