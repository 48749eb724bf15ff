------------------------------ MODULE Handshake ------------------------------
(***************************************************************************)
(* The protocol handshake of a session: peer.Handshake starts a goroutine   *)
(* that writes the status and the progress message and one that reads the   *)
(* remote status; both report on errc, a channel of two values, from which  *)
(* the session takes two, unless one is an error or the timer fires.        *)
(* MsgDispatch extends this module with the message loop that follows.      *)
(***************************************************************************)
EXTENDS Naturals, Sequences

CONSTANTS
    Peers,         \* connections, one session each
    Offers         \* Offers[p]: what the remote side may send as first message

(* What the first message of a remote side can be: its code, and for a      *)
(* status what its fields are compared with ours.  A message that is too    *)
(* large or does not decode fails like one with another code.               *)
Statuses == [code : {"status"}, genesis : {"ours", "other"},
             network : {"ours", "none", "other"}, version : {"ours", "other"}]
Firsts == Statuses \cup {[code |-> "other"]}
Unread == [code |-> "unread"]

ASSUME HandshakeAssumption == Offers \in [Peers -> (SUBSET Firsts) \ {{}}]

(* The capacity of errc, in values.                                         *)
SmallErrc == 1
ErrcCap == 2

VARIABLES
    hpc,           \* hpc[p]: "run", then how Handshake returned: "ok",
                   \* "failed" or "timedOut"
    got,           \* got[p]: values the session has taken from errc
    wpc,           \* wpc[p]: the writing goroutine: "status", "badStatus",
                   \* "progress", then a result to report, "done"
    rpc,           \* rpc[p]: the reading goroutine: "read", then a result to
                   \* report, "done"
    errc,          \* errc[p]: the values waiting in errc
    conn,          \* conn[p]: the connection is up
    written,       \* history: what the writing goroutine wrote on it
    first          \* history: the first message read from it

hsVars == <<hpc, got, wpc, rpc, errc, first>>
connVars == <<conn, written>>

(* A result to report on errc: nil or an error.                             *)
Results == {"nil", "error"}
Result(ok) == IF ok THEN "nil" ELSE "error"

HandshakeInit ==
    /\ hpc = [p \in Peers |-> "run"]
    /\ got = [p \in Peers |-> 0]
    /\ wpc = [p \in Peers |-> "status"]
    /\ rpc = [p \in Peers |-> "read"]
    /\ errc = [p \in Peers |-> <<>>]
    /\ conn = [p \in Peers |-> TRUE]
    /\ written = [p \in Peers |-> <<>>]
    /\ first = [p \in Peers |-> Unread]

-----------------------------------------------------------------------------
(* The writing goroutine.  A write succeeds on a connection that is up and  *)
(* fails on one that is down.                                               *)

Write(p, msg) ==
    written' = IF conn[p] THEN [written EXCEPT ![p] = Append(@, msg)] ELSE written

WriteStatus(p) ==
    /\ wpc[p] = "status"
    /\ Write(p, "status")
    /\ wpc' = [wpc EXCEPT ![p] = IF conn[p] THEN "progress" ELSE "badStatus"]
    /\ UNCHANGED <<hpc, got, rpc, errc, conn, first>>

(* A failed write of the status is reported; the goroutine then goes on     *)
(* with the progress all the same.                                          *)
ReportStatus(p) ==
    /\ wpc[p] = "badStatus" /\ Len(errc[p]) < ErrcCap
    /\ errc' = [errc EXCEPT ![p] = Append(@, "error")]
    /\ wpc' = [wpc EXCEPT ![p] = "progress"]
    /\ UNCHANGED <<hpc, got, rpc, first, connVars>>

WriteProgress(p) ==
    /\ wpc[p] = "progress"
    /\ Write(p, "progress")
    /\ wpc' = [wpc EXCEPT ![p] = Result(conn[p])]
    /\ UNCHANGED <<hpc, got, rpc, errc, conn, first>>

ReportProgress(p) ==
    /\ wpc[p] \in Results /\ Len(errc[p]) < ErrcCap
    /\ errc' = [errc EXCEPT ![p] = Append(@, wpc[p])]
    /\ wpc' = [wpc EXCEPT ![p] = "done"]
    /\ UNCHANGED <<hpc, got, rpc, first, connVars>>

-----------------------------------------------------------------------------
(* The reading goroutine, readStatus.  A status with network 0 is taken to  *)
(* be of our network.                                                       *)

AnyGenesis(m) ==
    /\ m.code = "status"
    /\ m.network \in {"ours", "none"}
    /\ m.version = "ours"
Accepted(m) ==
    /\ m.code = "status"
    /\ m.genesis = "ours"
    /\ m.network \in {"ours", "none"}
    /\ m.version = "ours"

ReadStatus(p) ==
    /\ rpc[p] = "read" /\ conn[p]
    /\ \E m \in Offers[p] :
        /\ first' = [first EXCEPT ![p] = m]
        /\ rpc' = [rpc EXCEPT ![p] = Result(Accepted(m))]
    /\ UNCHANGED <<hpc, got, wpc, errc, connVars>>

ReadBroken(p) ==
    /\ rpc[p] = "read" /\ ~conn[p]
    /\ rpc' = [rpc EXCEPT ![p] = "error"]
    /\ UNCHANGED <<hpc, got, wpc, errc, first, connVars>>

ReportRead(p) ==
    /\ rpc[p] \in Results /\ Len(errc[p]) < ErrcCap
    /\ errc' = [errc EXCEPT ![p] = Append(@, rpc[p])]
    /\ rpc' = [rpc EXCEPT ![p] = "done"]
    /\ UNCHANGED <<hpc, got, wpc, first, connVars>>

-----------------------------------------------------------------------------
(* The session: two values from errc without an error end it well.          *)

Needed == 2

TakeResult(p) ==
    /\ hpc[p] = "run" /\ errc[p] # <<>>
    /\ errc' = [errc EXCEPT ![p] = Tail(@)]
    /\ got' = [got EXCEPT ![p] = @ + 1]
    /\ hpc' = [hpc EXCEPT ![p] = IF Head(errc[p]) = "error" THEN "failed"
                                 ELSE IF got[p] + 1 = Needed THEN "ok" ELSE "run"]
    /\ UNCHANGED <<wpc, rpc, first, connVars>>

TimerFires(p) ==
    /\ hpc[p] = "run"
    /\ hpc' = [hpc EXCEPT ![p] = "timedOut"]
    /\ UNCHANGED <<got, wpc, rpc, errc, first, connVars>>

(* The remote side hangs up, or this side calls Disconnect.                 *)
HangUp(p) ==
    /\ conn[p]
    /\ conn' = [conn EXCEPT ![p] = FALSE]
    /\ UNCHANGED <<hsVars, written>>

-----------------------------------------------------------------------------
WriterStep(p) ==
    WriteStatus(p) \/ ReportStatus(p) \/ WriteProgress(p) \/ ReportProgress(p)
ReaderStep(p) == ReadStatus(p) \/ ReadBroken(p) \/ ReportRead(p)

HandshakeNext(p) ==
    WriterStep(p) \/ ReaderStep(p) \/ TakeResult(p) \/ TimerFires(p) \/ HangUp(p)

-----------------------------------------------------------------------------
(* Properties.                                                              *)

HandshakeTypeOK ==
    /\ hpc \in [Peers -> {"run", "ok", "failed", "timedOut"}]
    /\ got \in [Peers -> 0..2]
    /\ wpc \in [Peers -> {"status", "badStatus", "progress", "done"} \cup Results]
    /\ rpc \in [Peers -> {"read", "done"} \cup Results]
    /\ errc \in [Peers -> Seq(Results)] /\ \A p \in Peers : Len(errc[p]) <= ErrcCap
    /\ conn \in [Peers -> BOOLEAN] /\ written \in [Peers -> Seq({"status", "progress"})]
    /\ first \in [Peers -> Firsts \cup {Unread}]

(* A handshake succeeds only when both messages were written and the status *)
(* read is of this protocol version, this genesis and no foreign network,   *)
(* whatever the order in which the two goroutines report (Handshake).       *)
OkIsVerified ==
    \A p \in Peers : hpc[p] = "ok" =>
        /\ written[p] = <<"status", "progress">>
        /\ first[p] \in [code : {"status"}, genesis : {"ours"},
                         network : {"ours", "none"}, version : {"ours"}]

(* The timer fired before a value was taken from errc, and the status could *)
(* not be written: three values for a channel of two that nobody reads.     *)
OneLeftBehind(p) ==
    /\ hpc[p] = "timedOut" /\ got[p] = 0 /\ written[p] = <<>>
    /\ Len(errc[p]) = ErrcCap /\ (wpc[p] \in Results \/ rpc[p] \in Results)

(* However a handshake ends, both its goroutines end, although the writing  *)
(* one may report twice and an error ends the reading of errc early, but    *)
(* for the one case of OneLeftBehind (Handshake).                           *)
GoroutinesEnd ==
    \A p \in Peers :
        hpc[p] # "run" ~> \/ wpc[p] = "done" /\ rpc[p] = "done"
                         \/ OneLeftBehind(p)
=============================================================================
