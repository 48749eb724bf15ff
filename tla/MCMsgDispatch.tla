---------------------------- MODULE MCMsgDispatch ----------------------------
(***************************************************************************)
(* Instances of MsgDispatch for TLC: on p1 first messages that differ from  *)
(* ours in one field, only good ones on p2; messages of one or two bytes,   *)
(* and room for two bytes, so that a message of two excludes every other.   *)
(***************************************************************************)
EXTENDS MsgDispatch

CONSTANTS p1, p2

Status(g, n, v) == [code |-> "status", genesis |-> g, network |-> n, version |-> v]

SomeOnFirst == [p \in Peers |->
    {Status("ours", "ours", "ours")} \cup
    IF p = p1 THEN {Status("ours", "none", "ours"), Status("other", "ours", "ours"),
                    Status("ours", "other", "ours"), Status("ours", "ours", "other")}
              ELSE {}]

EachKind == {[kind |-> "refused", size |-> 1], [kind |-> "ignored", size |-> 1],
             [kind |-> "ignored", size |-> 3], [kind |-> "payload", size |-> 1],
             [kind |-> "payload", size |-> 2], [kind |-> "query", size |-> 1]}

TwoBytes == [num |-> 2, size |-> 2]
=============================================================================
