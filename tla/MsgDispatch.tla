----------------------------- MODULE MsgDispatch -----------------------------
(***************************************************************************)
(* The message loop of a session, handleMsg: read a message, acquire room   *)
(* for it in msgSemaphore, which all sessions share, decode and handle it,  *)
(* release the room and discard what is left of the payload.  It follows    *)
(* the handshake of module Handshake.  What handling does to the rest of    *)
(* the program is in the modules about that rest (TxSniff, EpochGuard,      *)
(* Discovery); here it succeeds or fails.                                   *)
(***************************************************************************)
EXTENDS Handshake, FiniteSets

CONSTANTS
    Sent,          \* the messages remote sides send after the handshake
    MaxMsgSize,    \* protocolMaxMsgSize
    Limit,         \* MsgsSemaphoreLimit: messages (num) and bytes (size)
    NoMsg

(* Messages by what their handling does: "refused" is a status or an        *)
(* unknown code, "ignored" one of the seven codes that are skipped,         *)
(* "payload" a code whose payload is decoded, "query" GetEndPointMsg, which *)
(* is answered.  MaxMsgSize + 1 stands for every size that is too large.    *)
Messages == [kind : {"refused", "ignored", "payload", "query"},
             size : 1..(MaxMsgSize + 1)]

(* Config.Validate refuses a smaller limit of bytes; the default limit of   *)
(* messages is 1000.                                                        *)
ASSUME DispatchAssumption ==
    /\ MaxMsgSize \in Nat \ {0}
    /\ Limit.size \in Nat /\ Limit.size >= MaxMsgSize
    /\ Limit.num \in Nat \ {0}
    /\ Sent \subseteq Messages

VARIABLES
    mpc,           \* mpc[p]: "off", "read", "acquire", "decode", "handle",
                   \* "discard", "gone"
    msg,           \* msg[p]: the message being handled
    failed,        \* failed[p]: handleMsg will return an error
    sem            \* what msgSemaphore counts as being processed

dispatchVars == <<mpc, msg, failed, sem>>
vars == <<hsVars, connVars, dispatchVars>>

Zero == [num |-> 0, size |-> 0]
Plus(m)  == [num |-> sem.num + 1, size |-> sem.size + m.size]
Minus(m) == [num |-> sem.num - 1, size |-> sem.size - m.size]
HasRoomFor(m) == Plus(m).num <= Limit.num /\ Plus(m).size <= Limit.size

Init ==
    /\ HandshakeInit
    /\ mpc = [p \in Peers |-> "off"]
    /\ msg = [p \in Peers |-> NoMsg]
    /\ failed = [p \in Peers |-> FALSE]
    /\ sem = Zero

Go(p, from, to) == mpc[p] = from /\ mpc' = [mpc EXCEPT ![p] = to]

(* The handshake has returned.  A session that is not registered, or whose  *)
(* handshake failed, ends (PeerLifecycle); the others enter the loop.       *)
Enter(p) ==
    /\ hpc[p] # "run"
    /\ \/ hpc[p] = "ok" /\ Go(p, "off", "read")
       \/ Go(p, "off", "gone")
    /\ UNCHANGED <<hsVars, connVars, msg, failed, sem>>

(* A read fails on a connection that is down; a message that is too large   *)
(* ends the session before the semaphore is asked.                          *)
ReadMsg(p) ==
    /\ conn[p]
    /\ \E m \in Sent :
        IF m.size > MaxMsgSize
        THEN Go(p, "read", "gone") /\ UNCHANGED msg
        ELSE Go(p, "read", "acquire") /\ msg' = [msg EXCEPT ![p] = m]
    /\ UNCHANGED <<hsVars, connVars, failed, sem>>

ReadFails(p) ==
    /\ ~conn[p]
    /\ Go(p, "read", "gone")
    /\ UNCHANGED <<hsVars, connVars, msg, failed, sem>>

Acquire(p) ==
    /\ mpc[p] = "acquire" /\ HasRoomFor(msg[p])
    /\ sem' = Plus(msg[p])
    /\ Go(p, "acquire", IF msg[p].kind = "payload" THEN "decode" ELSE "handle")
    /\ UNCHANGED <<hsVars, connVars, msg, failed>>

(* MsgsSemaphoreTimeout passes without room: the message is dropped and the *)
(* session goes on.                                                         *)
WaitAgain == "acquire"
DropMessage == "discard"
AcquireTimesOut(p) ==
    /\ mpc[p] = "acquire" /\ ~HasRoomFor(msg[p])
    /\ Go(p, "acquire", DropMessage)
    /\ UNCHANGED <<hsVars, connVars, msg, failed, sem>>

(* The end of the switch: the deferred Release runs on every path.          *)
ReleaseUnlessFailed(p) == IF failed'[p] THEN sem ELSE Minus(msg[p])
ReleaseAlways(p) == Minus(msg[p])

(* The payload is read and parsed.                                          *)
Decode(p) ==
    /\ Go(p, "decode", "handle")
    /\ UNCHANGED <<hsVars, connVars, msg, failed, sem>>

DecodeFails(p) ==
    /\ Go(p, "decode", "discard")
    /\ failed' = [failed EXCEPT ![p] = TRUE]
    /\ sem' = ReleaseAlways(p)
    /\ UNCHANGED <<hsVars, connVars, msg>>

(* A payload may be refused (too many entries, a stale peer), a query's     *)
(* answer cannot be sent on a connection that is down.                      *)
MayFail(p) == msg[p].kind = "refused" \/ msg[p].kind = "payload"
              \/ (msg[p].kind = "query" /\ ~conn[p])
MaySucceed(p) == msg[p].kind # "refused"

Handle(p) ==
    /\ Go(p, "handle", "discard")
    /\ \E fails \in BOOLEAN :
        /\ IF fails THEN MayFail(p) ELSE MaySucceed(p)
        /\ failed' = [failed EXCEPT ![p] = fails]
    /\ sem' = ReleaseAlways(p)
    /\ UNCHANGED <<hsVars, connVars, msg>>

(* The deferred Discard, then the loop of handle: an error ends the         *)
(* session.  An error of Discard itself is assigned to a variable that is   *)
(* no longer returned.                                                      *)
Discard(p) ==
    /\ Go(p, "discard", IF failed[p] THEN "gone" ELSE "read")
    /\ msg' = [msg EXCEPT ![p] = NoMsg]
    /\ UNCHANGED <<hsVars, connVars, failed, sem>>

(* The p2p server closes the connection of a session that has returned.     *)
TearDown(p) ==
    /\ mpc[p] = "gone"
    /\ HangUp(p)

-----------------------------------------------------------------------------
DispatchStep(p) ==
    \/ Enter(p) \/ ReadMsg(p) \/ ReadFails(p) \/ Acquire(p) \/ AcquireTimesOut(p)
    \/ Decode(p) \/ DecodeFails(p) \/ Handle(p) \/ Discard(p)

Apart(A) == A /\ UNCHANGED dispatchVars

Next == \E p \in Peers :
    Apart(HandshakeNext(p)) \/ DispatchStep(p) \/ Apart(TearDown(p))

Spec == Init /\ [][Next]_vars

(* Goroutines that can run do run, a payload that was received can be read  *)
(* to its end or fails, the timers fire, the p2p server closes what has     *)
(* returned.  Nothing makes a remote side send or hang up.                  *)
Fairness == \A p \in Peers :
    /\ WF_vars(Apart(WriterStep(p))) /\ WF_vars(Apart(ReadBroken(p)))
    /\ WF_vars(Apart(ReportRead(p)))
    /\ WF_vars(Apart(TakeResult(p))) /\ WF_vars(Apart(TimerFires(p)))
    /\ WF_vars(Enter(p)) /\ WF_vars(ReadFails(p))
    /\ WF_vars(Acquire(p) \/ AcquireTimesOut(p))
    /\ WF_vars(Decode(p) \/ DecodeFails(p)) /\ WF_vars(Handle(p))
    /\ WF_vars(Discard(p)) /\ WF_vars(Apart(TearDown(p)))

FairSpec == Spec /\ Fairness

-----------------------------------------------------------------------------
(* Properties.                                                              *)

(* The sessions that were given room, by what they do with it.              *)
InState(S) == {p \in Peers : mpc[p] \in S}

(* The bytes of the messages of several sessions: each byte is a session    *)
(* and a place in its message, so that counting them adds the sizes up.     *)
Bytes(S) == UNION {{p} \X (1..msg[p].size) : p \in S}
Total(S) == [num |-> Cardinality(S), size |-> Cardinality(Bytes(S))]

(* The semaphore counts exactly the messages being decoded or handled,      *)
(* whatever way out of the switch they take: none is released twice, none   *)
(* stays counted when its session is gone, and the total never passes the   *)
(* limit (handleMsg).                                                       *)
RoomAccounted ==
    /\ HandshakeTypeOK
    /\ sem = Total(InState({"decode", "handle"}))
    /\ sem.num <= Limit.num /\ sem.size <= Limit.size

(* A session whose connection is down ends, although it may be waiting for  *)
(* room in the semaphore against sessions that go on for ever (handle).     *)
SessionEnds == \A p \in Peers : ~conn[p] ~> mpc[p] = "gone"

(* What the test of handleMsg says: the semaphore is not held while waiting *)
(* for a payload to be read (handler_test.go:66); only messages that are    *)
(* being handled take room.                                                 *)
ReadingTakesNoRoom == sem = Total(InState({"handle"}))
=============================================================================
