--------------------------- MODULE MsgDispatchProofs ---------------------------
(***************************************************************************)
(* That a handshake which succeeds is a verified one, and that the message  *)
(* semaphore counts what is being handled, for any number of sessions and   *)
(* whatever the remote sides send.                                          *)
(*                                                                          *)
(* The session counts two values without an error; it does not know whose   *)
(* they are.  The invariant is the account of them: a nil that was taken or *)
(* is waiting in errc is backed by a goroutine that reported it and did its *)
(* work.  The writing goroutine may report twice, but then an error both    *)
(* times: a connection that is down stays down.                             *)
(***************************************************************************)
EXTENDS MsgDispatch, SequenceTheorems, FiniteSetTheorems, TLAPS

Complete == <<"status", "progress">>

(* What the writing goroutine of p has written when it is where it is.      *)
Writer(p) ==
    /\ wpc[p] = "status" => written[p] = <<>>
    /\ wpc[p] = "badStatus" => ~conn[p]
    /\ wpc[p] = "progress" /\ conn[p] => written[p] = <<"status">>
    /\ wpc[p] = "nil" => written[p] = Complete

Reader(p) == rpc[p] = "nil" => Accepted(first[p])

(* The goroutines that reported nil, and the nils taken or waiting.         *)
Wrote(p) == IF wpc[p] = "done" /\ written[p] = Complete THEN 1 ELSE 0
Read(p) == IF rpc[p] = "done" /\ Accepted(first[p]) THEN 1 ELSE 0
Nil(q, i) == IF i <= Len(q) /\ q[i] = "nil" THEN 1 ELSE 0
Backed(p) ==
    /\ hpc[p] = "run" =>
          got[p] < 2 /\ got[p] + Nil(errc[p], 1) + Nil(errc[p], 2) <= Wrote(p) + Read(p)
    /\ hpc[p] = "ok" => Wrote(p) = 1 /\ Read(p) = 1

Session(p) == Writer(p) /\ Reader(p) /\ Backed(p)

IInv == HandshakeTypeOK /\ \A p \in Peers : Session(p)

-----------------------------------------------------------------------------
LEMMA NilType == ASSUME NEW q, NEW i PROVE Nil(q, i) \in {0, 1}
  BY DEF Nil

(* Another session's step.                                                  *)
Same(p) ==
    /\ hpc'[p] = hpc[p] /\ got'[p] = got[p] /\ wpc'[p] = wpc[p] /\ rpc'[p] = rpc[p]
    /\ errc'[p] = errc[p] /\ conn'[p] = conn[p] /\ written'[p] = written[p]
    /\ first'[p] = first[p]

LEMMA SameKeeps == ASSUME NEW p, Session(p), Same(p) PROVE Session(p)'
  BY DEF Same, Session, Writer, Reader, Backed, Wrote, Read, Nil, Accepted

(* A report: one more value waits, and it is a nil only if it was earned.   *)
LEMMA Reported ==
    ASSUME NEW q \in Seq(Results), Len(q) < 2, NEW r \in Results
    PROVE  /\ Append(q, r) \in Seq(Results) /\ Len(Append(q, r)) <= 2
           /\ Nil(Append(q, r), 1) + Nil(Append(q, r), 2)
              = Nil(q, 1) + Nil(q, 2) + (IF r = "nil" THEN 1 ELSE 0)
  <1>1. /\ Append(q, r) \in Seq(Results) /\ Len(Append(q, r)) = Len(q) + 1
        /\ \A i \in 1..Len(q) : Append(q, r)[i] = q[i]
        /\ Append(q, r)[Len(q) + 1] = r /\ Len(q) \in Nat
    BY AppendProperties, LenProperties
  <1>2. Len(q) \in {0, 1}
    <2>1. \A n \in Nat : n < 2 => n \in {0, 1}
      OBVIOUS
    <2>2. QED
      BY <1>1, <2>1, Zenon
  <1>3. CASE Len(q) = 0
    <2>1. Nil(q, 1) = 0 /\ Nil(q, 2) = 0 /\ Nil(Append(q, r), 2) = 0
      BY <1>1, <1>3 DEF Nil
    <2>2. Nil(Append(q, r), 1) = IF r = "nil" THEN 1 ELSE 0
      BY <1>1, <1>3 DEF Nil
    <2>3. QED
      BY <1>1, <1>3, <2>1, <2>2
  <1>4. CASE Len(q) = 1
    <2>1. Nil(q, 2) = 0 /\ Nil(Append(q, r), 1) = Nil(q, 1) /\ Nil(q, 1) \in {0, 1}
      BY <1>1, <1>4 DEF Nil
    <2>2. Nil(Append(q, r), 2) = IF r = "nil" THEN 1 ELSE 0
      BY <1>1, <1>4 DEF Nil
    <2>3. QED
      BY <1>1, <1>4, <2>1, <2>2
  <1>5. QED
    BY <1>2, <1>3, <1>4, Zenon

(* A value is taken from errc.                                              *)
LEMMA Taken ==
    ASSUME NEW q \in Seq(Results), q # <<>>, Len(q) <= 2
    PROVE  /\ Head(q) \in Results /\ Tail(q) \in Seq(Results) /\ Len(Tail(q)) <= 2
           /\ Nil(q, 1) + Nil(q, 2)
              = Nil(Tail(q), 1) + Nil(Tail(q), 2) + (IF Head(q) = "nil" THEN 1 ELSE 0)
  <1>1. /\ Head(q) \in Results /\ Tail(q) \in Seq(Results) /\ Len(Tail(q)) = Len(q) - 1
        /\ Head(q) = q[1] /\ \A i \in 1..Len(Tail(q)) : Tail(q)[i] = q[i + 1]
        /\ Len(q) \in Nat \ {0}
    BY HeadTailProperties, LenProperties, EmptySeq
  <1>2. Len(q) \in {1, 2}
    BY <1>1
  <1>3. CASE Len(q) = 1
    <2>1. Nil(q, 2) = 0 /\ Nil(Tail(q), 1) = 0 /\ Nil(Tail(q), 2) = 0
      BY <1>1, <1>3 DEF Nil
    <2>2. Nil(q, 1) = IF Head(q) = "nil" THEN 1 ELSE 0
      BY <1>1, <1>3 DEF Nil
    <2>3. QED
      BY <1>1, <1>3, <2>1, <2>2
  <1>4. CASE Len(q) = 2
    <2>1. Len(Tail(q)) = 1 /\ \A i \in 1..1 : Tail(q)[i] = q[i + 1]
      <3>1. Len(Tail(q)) = 2 - 1 /\ 2 - 1 = 1
        BY <1>1, <1>4
      <3>2. QED
        BY <1>1, <3>1, Zenon
    <2>2. Nil(Tail(q), 1) = Nil(q, 2) /\ Nil(Tail(q), 2) = 0
      <3>1. 1 \in 1..1 /\ 1 + 1 = 2 /\ 1 <= 1 /\ ~(2 <= 1) /\ 2 <= 2
        OBVIOUS
      <3>2. Tail(q)[1] = q[1 + 1]
        BY <2>1, <3>1, Zenon
      <3>3. Tail(q)[1] = q[2]
        BY <3>1, <3>2, Zenon
      <3>4. QED
        BY <1>4, <2>1, <3>1, <3>3, Zenon DEF Nil
    <2>3. Nil(q, 1) = IF Head(q) = "nil" THEN 1 ELSE 0
      BY <1>1, <1>4 DEF Nil
    <2>4. Nil(q, 2) \in {0, 1}
      BY NilType
    <2>5. QED
      BY <1>1, <2>1, <2>2, <2>3, <2>4
  <1>5. QED
    BY <1>2, <1>3, <1>4, Zenon

-----------------------------------------------------------------------------
LEMMA InitIInv == Init => IInv
  <1> SUFFICES ASSUME Init PROVE IInv
    OBVIOUS
  <1>1. \A S : <<>> \in Seq(S) /\ Len(<<>>) = 0
    BY EmptySeq
  <1>2. HandshakeTypeOK
    <2>1. errc \in [Peers -> Seq(Results)] /\ \A p \in Peers : Len(errc[p]) <= ErrcCap
      BY <1>1 DEF Init, HandshakeInit, ErrcCap
    <2>2. written \in [Peers -> Seq({"status", "progress"})]
      BY <1>1 DEF Init, HandshakeInit
    <2>3. QED
      BY <2>1, <2>2 DEF Init, HandshakeInit, HandshakeTypeOK
  <1>3. ASSUME NEW p \in Peers PROVE Session(p)
    <2>1. /\ hpc[p] = "run" /\ got[p] = 0 /\ wpc[p] = "status" /\ rpc[p] = "read"
          /\ written[p] = <<>> /\ Len(errc[p]) = 0
      BY <1>1, <1>3 DEF Init, HandshakeInit
    <2>2. QED
      BY <2>1 DEF Session, Writer, Reader, Backed, Wrote, Read, Nil
  <1>4. QED
    BY <1>2, <1>3 DEF IInv

(* A step of session p keeps the invariant if it does at p.                 *)
LEMMA AtOne ==
    ASSUME IInv, NEW p \in Peers, HandshakeTypeOK', Session(p)',
           \A q \in Peers : q # p => Same(q)
    PROVE  IInv'
  BY SameKeeps DEF IInv

LEMMA WriterKeeps ==
    ASSUME IInv, NEW p \in Peers, WriterStep(p)
    PROVE  IInv'
  <1>1. HandshakeTypeOK /\ Writer(p) /\ Reader(p) /\ Backed(p)
    BY DEF IInv, Session
  <1> USE <1>1
  <1>2. ASSUME NEW m \in {"status", "progress"}, Write(p, m)
        PROVE  /\ written' \in [Peers -> Seq({"status", "progress"})]
               /\ written'[p] = IF conn[p] THEN Append(written[p], m) ELSE written[p]
               /\ \A q \in Peers : q # p => written'[q] = written[q]
    <2>1. Append(written[p], m) \in Seq({"status", "progress"})
      BY AppendProperties DEF HandshakeTypeOK
    <2>2. QED
      BY <1>2, <2>1 DEF Write, HandshakeTypeOK
  <1>3. CASE WriteStatus(p)
    <2>1. /\ wpc[p] = "status" /\ UNCHANGED <<hpc, got, rpc, errc, conn, first>>
          /\ wpc' = [wpc EXCEPT ![p] = IF conn[p] THEN "progress" ELSE "badStatus"]
      BY <1>3 DEF WriteStatus
    <2>2. HandshakeTypeOK'
      BY <1>2, <1>3, <2>1 DEF WriteStatus, HandshakeTypeOK
    <2>3. wpc'[p] = IF conn[p] THEN "progress" ELSE "badStatus"
      BY <2>1 DEF HandshakeTypeOK
    <2>4. conn[p] => written'[p] = <<"status">>
      BY <1>2, <1>3, <2>1 DEF WriteStatus, Writer
    <2>5. Session(p)'
      BY <2>1, <2>3, <2>4
      DEF Session, Writer, Reader, Backed, Wrote, Read, Nil, Accepted
    <2>6. \A q \in Peers : q # p => Same(q)
      BY <1>2, <1>3, <2>1 DEF WriteStatus, HandshakeTypeOK, Same
    <2>7. QED
      BY <2>2, <2>5, <2>6, AtOne
  <1>4. CASE WriteProgress(p)
    <2>1. /\ wpc[p] = "progress" /\ UNCHANGED <<hpc, got, rpc, errc, conn, first>>
          /\ wpc' = [wpc EXCEPT ![p] = IF conn[p] THEN "nil" ELSE "error"]
      BY <1>4 DEF WriteProgress, Result
    <2>2. HandshakeTypeOK'
      BY <1>2, <1>4, <2>1 DEF WriteProgress, HandshakeTypeOK, Results
    <2>3. wpc'[p] = IF conn[p] THEN "nil" ELSE "error"
      BY <2>1 DEF HandshakeTypeOK
    <2>4. conn[p] => written'[p] = Complete
      <3>1. conn[p] => written'[p] = Append(<<"status">>, "progress")
        BY <1>2, <1>4, <2>1 DEF WriteProgress, Writer
      <3>2. QED
        BY <3>1 DEF Complete
    <2>5. Session(p)'
      BY <2>1, <2>3, <2>4
      DEF Session, Writer, Reader, Backed, Wrote, Read, Nil, Accepted
    <2>6. \A q \in Peers : q # p => Same(q)
      BY <1>2, <1>4, <2>1 DEF WriteProgress, HandshakeTypeOK, Same
    <2>7. QED
      BY <2>2, <2>5, <2>6, AtOne
  <1>5. ASSUME NEW r \in Results, Len(errc[p]) < ErrcCap,
               errc' = [errc EXCEPT ![p] = Append(@, r)]
        PROVE  /\ errc' \in [Peers -> Seq(Results)] /\ \A q \in Peers : Len(errc'[q]) <= ErrcCap
               /\ \A q \in Peers : q # p => errc'[q] = errc[q]
               /\ Nil(errc'[p], 1) + Nil(errc'[p], 2)
                  = Nil(errc[p], 1) + Nil(errc[p], 2) + (IF r = "nil" THEN 1 ELSE 0)
    BY <1>5, Reported DEF HandshakeTypeOK, ErrcCap
  <1>6. CASE ReportStatus(p)
    <2>1. /\ wpc[p] = "badStatus" /\ UNCHANGED <<hpc, got, rpc, first, conn, written>>
          /\ wpc' = [wpc EXCEPT ![p] = "progress"]
      BY <1>6 DEF ReportStatus, connVars
    <2>2. /\ errc' \in [Peers -> Seq(Results)] /\ \A q \in Peers : Len(errc'[q]) <= ErrcCap
          /\ \A q \in Peers : q # p => errc'[q] = errc[q]
          /\ Nil(errc'[p], 1) + Nil(errc'[p], 2) = Nil(errc[p], 1) + Nil(errc[p], 2)
      <3>1. "error" \in Results /\ "error" # "nil"
        BY DEF Results
      <3>2. \A n : n \in {0, 1, 2} => n + 0 = n
        OBVIOUS
      <3>3. Nil(errc[p], 1) + Nil(errc[p], 2) \in {0, 1, 2}
        BY NilType
      <3>4. QED
        BY <1>5, <1>6, <3>1, <3>2, <3>3 DEF ReportStatus
    <2>3. HandshakeTypeOK'
      BY <2>1, <2>2 DEF HandshakeTypeOK
    <2>4. wpc'[p] = "progress"
      BY <2>1 DEF HandshakeTypeOK
    <2>5. Writer(p)' /\ Reader(p)'
      BY <2>1, <2>4 DEF Writer, Reader, Accepted
    <2>6. Backed(p)'
      <3>1. UNCHANGED <<Wrote(p), Read(p)>>
        BY <2>1, <2>4 DEF Wrote, Read, Accepted
      <3>2. Nil(errc[p], 1) \in {0, 1} /\ Nil(errc[p], 2) \in {0, 1} /\ got[p] \in 0..2
        BY NilType, Zenon DEF HandshakeTypeOK
      <3>3. Nil(errc'[p], 1) \in {0, 1} /\ Nil(errc'[p], 2) \in {0, 1}
        BY NilType
      <3>4. QED
        BY <2>1, <2>2, <3>1, <3>2, <3>3 DEF Backed
    <2>7. \A q \in Peers : q # p => Same(q)
      BY <2>1, <2>2 DEF HandshakeTypeOK, Same
    <2>8. QED
      BY <2>3, <2>5, <2>6, <2>7, AtOne DEF Session
  <1>7. CASE ReportProgress(p)
    <2>1. /\ wpc[p] \in Results /\ UNCHANGED <<hpc, got, rpc, first, conn, written>>
          /\ wpc' = [wpc EXCEPT ![p] = "done"]
      BY <1>7 DEF ReportProgress, connVars
    <2>2. /\ errc' \in [Peers -> Seq(Results)] /\ \A q \in Peers : Len(errc'[q]) <= ErrcCap
          /\ \A q \in Peers : q # p => errc'[q] = errc[q]
          /\ Nil(errc'[p], 1) + Nil(errc'[p], 2)
             = Nil(errc[p], 1) + Nil(errc[p], 2) + (IF wpc[p] = "nil" THEN 1 ELSE 0)
      BY <1>5, <1>7, <2>1 DEF ReportProgress
    <2>3. HandshakeTypeOK'
      BY <2>1, <2>2 DEF HandshakeTypeOK
    <2>4. wpc'[p] = "done"
      BY <2>1 DEF HandshakeTypeOK
    <2>5. Writer(p)' /\ Reader(p)'
      BY <2>1, <2>4 DEF Writer, Reader, Accepted
    <2>6. Backed(p)'
      <3>1. Read(p)' = Read(p) /\ Read(p) \in {0, 1}
        BY <2>1 DEF Read, Accepted
      <3>2. /\ Wrote(p) = 0 /\ Wrote(p)' \in {0, 1}
            /\ wpc[p] = "nil" => Wrote(p)' = 1
        BY <2>1, <2>4 DEF Wrote, Writer, Results
      <3>3. /\ Nil(errc[p], 1) \in {0, 1} /\ Nil(errc[p], 2) \in {0, 1} /\ got[p] \in 0..2
            /\ Nil(errc'[p], 1) \in {0, 1} /\ Nil(errc'[p], 2) \in {0, 1}
        BY NilType, Zenon DEF HandshakeTypeOK
      <3>4. QED
        BY <2>1, <2>2, <3>1, <3>2, <3>3 DEF Backed
    <2>7. \A q \in Peers : q # p => Same(q)
      BY <2>1, <2>2 DEF HandshakeTypeOK, Same
    <2>8. QED
      BY <2>3, <2>5, <2>6, <2>7, AtOne DEF Session
  <1>8. QED
    BY <1>3, <1>4, <1>6, <1>7 DEF WriterStep

LEMMA ReaderKeeps ==
    ASSUME IInv, NEW p \in Peers, ReaderStep(p)
    PROVE  IInv'
  <1>1. HandshakeTypeOK /\ Writer(p) /\ Reader(p) /\ Backed(p)
    BY DEF IInv, Session
  <1> USE <1>1
  <1>2. CASE ReadStatus(p)
    <2>1. /\ rpc[p] = "read" /\ UNCHANGED <<hpc, got, wpc, errc, conn, written>>
      BY <1>2 DEF ReadStatus, connVars
    <2>2. PICK m \in Offers[p] :
              /\ first' = [first EXCEPT ![p] = m]
              /\ rpc' = [rpc EXCEPT ![p] = IF Accepted(m) THEN "nil" ELSE "error"]
      BY <1>2 DEF ReadStatus, Result
    <2>3. m \in Firsts
      BY HandshakeAssumption
    <2>4. HandshakeTypeOK'
      BY <2>1, <2>2, <2>3 DEF HandshakeTypeOK, Results
    <2>5. first'[p] = m /\ rpc'[p] = IF Accepted(m) THEN "nil" ELSE "error"
      BY <2>2 DEF HandshakeTypeOK
    <2>6. Session(p)'
      <3>1. Writer(p)' /\ Reader(p)'
        BY <2>1, <2>5 DEF Writer, Reader
      <3>2. Wrote(p)' = Wrote(p) /\ Read(p)' = 0 /\ Read(p) = 0
        BY <2>1, <2>5 DEF Wrote, Read
      <3>3. QED
        BY <2>1, <3>1, <3>2 DEF Session, Backed
    <2>7. \A q \in Peers : q # p => Same(q)
      BY <2>1, <2>2 DEF HandshakeTypeOK, Same
    <2>8. QED
      BY <2>4, <2>6, <2>7, AtOne
  <1>3. CASE ReadBroken(p)
    <2>1. /\ rpc[p] = "read" /\ UNCHANGED <<hpc, got, wpc, errc, conn, written, first>>
          /\ rpc' = [rpc EXCEPT ![p] = "error"]
      BY <1>3 DEF ReadBroken, connVars
    <2>2. HandshakeTypeOK'
      BY <2>1 DEF HandshakeTypeOK, Results
    <2>3. rpc'[p] = "error"
      BY <2>1 DEF HandshakeTypeOK
    <2>4. Session(p)'
      <3>1. Wrote(p)' = Wrote(p) /\ Read(p)' = 0 /\ Read(p) = 0
        BY <2>1, <2>3 DEF Wrote, Read
      <3>2. QED
        BY <2>1, <2>3, <3>1 DEF Session, Writer, Reader, Backed
    <2>5. \A q \in Peers : q # p => Same(q)
      BY <2>1 DEF HandshakeTypeOK, Same
    <2>6. QED
      BY <2>2, <2>4, <2>5, AtOne
  <1>4. CASE ReportRead(p)
    <2>1. /\ rpc[p] \in Results /\ UNCHANGED <<hpc, got, wpc, first, conn, written>>
          /\ rpc' = [rpc EXCEPT ![p] = "done"]
      BY <1>4 DEF ReportRead, connVars
    <2>2. /\ errc' \in [Peers -> Seq(Results)] /\ \A q \in Peers : Len(errc'[q]) <= ErrcCap
          /\ \A q \in Peers : q # p => errc'[q] = errc[q]
          /\ Nil(errc'[p], 1) + Nil(errc'[p], 2)
             = Nil(errc[p], 1) + Nil(errc[p], 2) + (IF rpc[p] = "nil" THEN 1 ELSE 0)
      BY <1>4, <2>1, Reported DEF ReportRead, HandshakeTypeOK, ErrcCap
    <2>3. HandshakeTypeOK'
      BY <2>1, <2>2 DEF HandshakeTypeOK
    <2>4. rpc'[p] = "done"
      BY <2>1 DEF HandshakeTypeOK
    <2>5. Writer(p)' /\ Reader(p)'
      BY <2>1, <2>4 DEF Writer, Reader
    <2>6. Backed(p)'
      <3>1. Wrote(p)' = Wrote(p) /\ Wrote(p) \in {0, 1}
        BY <2>1 DEF Wrote
      <3>2. /\ Read(p) = 0 /\ Read(p)' \in {0, 1}
            /\ rpc[p] = "nil" => Read(p)' = 1
        BY <2>1, <2>4 DEF Read, Reader, Results
      <3>3. /\ Nil(errc[p], 1) \in {0, 1} /\ Nil(errc[p], 2) \in {0, 1} /\ got[p] \in 0..2
            /\ Nil(errc'[p], 1) \in {0, 1} /\ Nil(errc'[p], 2) \in {0, 1}
        BY NilType, Zenon DEF HandshakeTypeOK
      <3>4. QED
        BY <2>1, <2>2, <3>1, <3>2, <3>3 DEF Backed
    <2>7. \A q \in Peers : q # p => Same(q)
      BY <2>1, <2>2 DEF HandshakeTypeOK, Same
    <2>8. QED
      BY <2>3, <2>5, <2>6, <2>7, AtOne DEF Session
  <1>5. QED
    BY <1>2, <1>3, <1>4 DEF ReaderStep

(* The session itself: a second nil means that both did their work.         *)
LEMMA SessionKeeps ==
    ASSUME IInv, NEW p \in Peers, TakeResult(p) \/ TimerFires(p) \/ HangUp(p)
    PROVE  IInv'
  <1>1. HandshakeTypeOK /\ Writer(p) /\ Reader(p) /\ Backed(p)
    BY DEF IInv, Session
  <1> USE <1>1
  <1>2. CASE TakeResult(p)
    <2>1. /\ hpc[p] = "run" /\ UNCHANGED <<wpc, rpc, first, conn, written>>
          /\ errc' = [errc EXCEPT ![p] = Tail(@)]
          /\ got' = [got EXCEPT ![p] = @ + 1]
          /\ hpc' = [hpc EXCEPT ![p] = IF Head(errc[p]) = "error" THEN "failed"
                                 ELSE IF got[p] + 1 = 2 THEN "ok" ELSE "run"]
          /\ errc[p] # <<>> /\ errc[p] \in Seq(Results) /\ Len(errc[p]) <= 2
      BY <1>2 DEF TakeResult, connVars, Needed, HandshakeTypeOK, ErrcCap
    <2>2. /\ Head(errc[p]) \in Results /\ Tail(errc[p]) \in Seq(Results)
          /\ Len(Tail(errc[p])) <= 2
          /\ Nil(errc[p], 1) + Nil(errc[p], 2)
              = Nil(Tail(errc[p]), 1) + Nil(Tail(errc[p]), 2)
                + (IF Head(errc[p]) = "nil" THEN 1 ELSE 0)
      BY <2>1, Taken
    <2>3. /\ errc'[p] = Tail(errc[p]) /\ got'[p] = got[p] + 1
          /\ hpc'[p] = IF Head(errc[p]) = "error" THEN "failed"
                       ELSE IF got[p] + 1 = 2 THEN "ok" ELSE "run"
      BY <2>1 DEF HandshakeTypeOK
    <2>4. /\ Wrote(p)' = Wrote(p) /\ Read(p)' = Read(p)
          /\ Wrote(p) \in {0, 1} /\ Read(p) \in {0, 1}
      BY <2>1 DEF Wrote, Read
    <2>5. /\ Nil(errc[p], 1) \in {0, 1} /\ Nil(errc[p], 2) \in {0, 1} /\ got[p] \in 0..2
          /\ Nil(Tail(errc[p]), 1) \in {0, 1} /\ Nil(Tail(errc[p]), 2) \in {0, 1}
      BY NilType, Zenon DEF HandshakeTypeOK
    <2>6. got[p] < 2 /\ got[p] + Nil(errc[p], 1) + Nil(errc[p], 2) <= Wrote(p) + Read(p)
      BY <2>1 DEF Backed
    <2>7. Backed(p)'
      <3>1. CASE Head(errc[p]) = "error"
        BY <2>3, <3>1 DEF Backed
      <3>2. CASE Head(errc[p]) = "nil"
        <4>1. got[p] + 1 + Nil(Tail(errc[p]), 1) + Nil(Tail(errc[p]), 2) <= Wrote(p) + Read(p)
          BY <2>2, <2>4, <2>5, <2>6, <3>2
        <4>2. CASE got[p] + 1 = 2
          BY <2>3, <2>4, <2>5, <3>2, <4>1, <4>2 DEF Backed
        <4>3. CASE got[p] + 1 # 2
          BY <2>3, <2>4, <2>5, <3>2, <4>1, <4>3 DEF Backed
        <4>4. QED
          BY <4>2, <4>3
      <3>3. QED
        BY <2>2, <3>1, <3>2 DEF Results
    <2>8. HandshakeTypeOK'
      <3>1. got[p] + 1 \in 0..2
        BY <2>4, <2>5, <2>6
      <3>2. QED
        BY <2>1, <2>2, <3>1 DEF HandshakeTypeOK, ErrcCap
    <2>9. Writer(p)' /\ Reader(p)'
      BY <2>1 DEF Writer, Reader
    <2>10. \A q \in Peers : q # p => Same(q)
      BY <2>1 DEF HandshakeTypeOK, Same
    <2>11. QED
      BY <2>7, <2>8, <2>9, <2>10, AtOne DEF Session
  <1>3. CASE TimerFires(p)
    <2>1. /\ UNCHANGED <<got, wpc, rpc, errc, first, conn, written>>
          /\ hpc' = [hpc EXCEPT ![p] = "timedOut"]
      BY <1>3 DEF TimerFires, connVars
    <2>2. HandshakeTypeOK' /\ hpc'[p] = "timedOut"
      BY <2>1 DEF HandshakeTypeOK
    <2>3. Session(p)'
      BY <2>1, <2>2 DEF Session, Writer, Reader, Backed
    <2>4. \A q \in Peers : q # p => Same(q)
      BY <2>1 DEF HandshakeTypeOK, Same
    <2>5. QED
      BY <2>2, <2>3, <2>4, AtOne
  <1>4. CASE HangUp(p)
    <2>1. /\ UNCHANGED <<hpc, got, wpc, rpc, errc, first, written>>
          /\ conn' = [conn EXCEPT ![p] = FALSE]
      BY <1>4 DEF HangUp, hsVars
    <2>2. HandshakeTypeOK' /\ ~conn'[p]
      BY <2>1 DEF HandshakeTypeOK
    <2>3. Session(p)'
      <3>1. Writer(p)' /\ Reader(p)'
        BY <2>1, <2>2 DEF Writer, Reader
      <3>2. UNCHANGED <<Wrote(p), Read(p)>>
        BY <2>1 DEF Wrote, Read
      <3>3. QED
        BY <2>1, <3>1, <3>2 DEF Session, Backed
    <2>4. \A q \in Peers : q # p => Same(q)
      BY <2>1 DEF HandshakeTypeOK, Same
    <2>5. QED
      BY <2>2, <2>3, <2>4, AtOne
  <1>5. QED
    BY <1>2, <1>3, <1>4

(* The message loop leaves the handshake alone, but for the server's        *)
(* closing of the connection.                                               *)
LEMMA StepKeeps ==
    ASSUME IInv, [Next]_vars
    PROVE  IInv'
  <1>1. ASSUME UNCHANGED <<hsVars, connVars>> PROVE IInv'
    <2>1. \A p \in Peers : Same(p)
      BY <1>1 DEF hsVars, connVars, Same
    <2>2. HandshakeTypeOK'
      BY <1>1 DEF hsVars, connVars, IInv, HandshakeTypeOK
    <2>3. QED
      BY <2>1, <2>2, SameKeeps DEF IInv
  <1>2. ASSUME NEW p \in Peers, HandshakeNext(p) PROVE IInv'
    BY <1>2, WriterKeeps, ReaderKeeps, SessionKeeps DEF HandshakeNext
  <1>3. ASSUME NEW p \in Peers, DispatchStep(p) PROVE IInv'
    BY <1>1, <1>3
    DEF DispatchStep, Enter, ReadMsg, ReadFails, Acquire, AcquireTimesOut, Decode,
        DecodeFails, Handle, Discard
  <1>4. ASSUME NEW p \in Peers, TearDown(p) PROVE IInv'
    BY <1>4, SessionKeeps DEF TearDown
  <1>5. CASE UNCHANGED vars
    BY <1>1, <1>5 DEF vars
  <1>6. QED
    BY <1>2, <1>3, <1>4, <1>5 DEF Next, Apart

-----------------------------------------------------------------------------
(* For any sessions and any first messages: a handshake ends well only when *)
(* both messages were written and an acceptable status was read, whatever   *)
(* the order in which the two goroutines report, and when the connection    *)
(* breaks in between (Handshake, readStatus).                               *)
THEOREM HandshakeVerified == Spec => []OkIsVerified
  <1>1. IInv => OkIsVerified
    <2> SUFFICES ASSUME IInv, NEW p \in Peers, hpc[p] = "ok"
                 PROVE  /\ written[p] = <<"status", "progress">>
                        /\ first[p] \in [code : {"status"}, genesis : {"ours"},
                                         network : {"ours", "none"}, version : {"ours"}]
      BY DEF OkIsVerified
    <2>1. Wrote(p) = 1 /\ Read(p) = 1
      BY DEF IInv, Session, Backed
    <2>2. written[p] = <<"status", "progress">>
      BY <2>1 DEF Wrote, Complete
    <2>3. Accepted(first[p]) /\ first[p] \in Firsts \cup {Unread}
      BY <2>1 DEF Read, IInv, HandshakeTypeOK
    <2>4. first[p] \in Statuses
      BY <2>3 DEF Accepted, Firsts, Unread
    <2>5. QED
      BY <2>2, <2>3, <2>4 DEF Accepted, Statuses
  <1>2. QED
    BY InitIInv, StepKeeps, <1>1, PTL DEF Spec

-----------------------------------------------------------------------------
(* The room in msgSemaphore.                                                *)

Busy == InState({"decode", "handle"})

LoopPc == {"off", "read", "acquire", "decode", "handle", "discard", "gone"}

(* What the message loops are doing; one that has a message to account for  *)
(* has received it.                                                         *)
LoopTypeOK ==
    /\ mpc \in [Peers -> LoopPc]
    /\ DOMAIN msg = Peers
    /\ \A p \in Peers : mpc[p] \in {"acquire", "decode", "handle"} => msg[p].size \in Nat

(* Only finitely many sessions are busy, although there may be any number,  *)
(* and the semaphore counts their messages and bytes, within its limit.     *)
RoomInv ==
    /\ LoopTypeOK
    /\ IsFiniteSet(Busy) /\ IsFiniteSet(Bytes(Busy))
    /\ sem = Total(Busy)
    /\ sem.num <= Limit.num /\ sem.size <= Limit.size

(* The bytes of one message are as many as its size.                        *)
LEMMA BytesOfOne ==
    ASSUME NEW p, NEW n \in Nat
    PROVE  IsFiniteSet({p} \X (1..n)) /\ Cardinality({p} \X (1..n)) = n
  <1>1. IsFiniteSet({p}) /\ Cardinality({p}) = 1
    BY FS_Singleton
  <1>2. IsFiniteSet(1..n) /\ Cardinality(1..n) = n
    BY FS_Interval
  <1>3. /\ IsFiniteSet({p} \X (1..n))
        /\ Cardinality({p} \X (1..n)) = Cardinality({p}) * Cardinality(1..n)
    BY <1>1, <1>2, FS_Product
  <1>4. QED
    BY <1>1, <1>2, <1>3

(* One session more, or less, and its bytes.                                *)
LEMMA BytesAdded ==
    ASSUME NEW S, NEW p, p \notin S, msg[p].size \in Nat,
           IsFiniteSet(S), IsFiniteSet(Bytes(S))
    PROVE  /\ IsFiniteSet(S \cup {p}) /\ IsFiniteSet(Bytes(S \cup {p}))
           /\ Cardinality(S \cup {p}) = Cardinality(S) + 1
           /\ Cardinality(Bytes(S \cup {p})) = Cardinality(Bytes(S)) + msg[p].size
           /\ Cardinality(S) \in Nat /\ Cardinality(Bytes(S)) \in Nat
  <1> DEFINE its == {p} \X (1..msg[p].size)
  <1>1. IsFiniteSet(its) /\ Cardinality(its) = msg[p].size
    BY BytesOfOne
  <1>2. Bytes(S \cup {p}) = Bytes(S) \cup its
    BY DEF Bytes
  <1>3. Bytes(S) \cap its = {}
    BY DEF Bytes
  <1>4. Cardinality({}) = 0
    BY FS_EmptySet
  <1> HIDE DEF its
  <1>5. /\ IsFiniteSet(Bytes(S) \cup its)
        /\ Cardinality(Bytes(S) \cup its) =
             Cardinality(Bytes(S)) + Cardinality(its) - Cardinality(Bytes(S) \cap its)
    BY <1>1, FS_Union
  <1>6. Cardinality(S) \in Nat /\ Cardinality(Bytes(S)) \in Nat
    BY FS_CardinalityType
  <1>7. IsFiniteSet(S \cup {p}) /\ Cardinality(S \cup {p}) = Cardinality(S) + 1
    BY FS_AddElement
  <1>8. Cardinality(Bytes(S) \cup its) = Cardinality(Bytes(S)) + msg[p].size
    <2>1. Cardinality(Bytes(S) \cap its) = 0
      BY <1>3, <1>4
    <2>2. ASSUME NEW a, NEW b \in Nat, NEW c \in Nat, NEW d, d = 0, a = b + c - d PROVE a = b + c
      BY <2>2
    <2>3. QED
      BY <1>1, <1>5, <1>6, <2>1, <2>2
  <1>9. QED
    BY <1>2, <1>5, <1>6, <1>7, <1>8

LEMMA BytesRemoved ==
    ASSUME NEW S, NEW p \in S, msg[p].size \in Nat, IsFiniteSet(S), IsFiniteSet(Bytes(S))
    PROVE  /\ IsFiniteSet(S \ {p}) /\ IsFiniteSet(Bytes(S \ {p}))
           /\ Cardinality(S \ {p}) = Cardinality(S) - 1
           /\ Cardinality(Bytes(S \ {p})) = Cardinality(Bytes(S)) - msg[p].size
           /\ Cardinality(S \ {p}) \in Nat /\ Cardinality(Bytes(S \ {p})) \in Nat
  <1> DEFINE R == S \ {p}
  <1>1. IsFiniteSet(R) /\ p \notin R /\ S = R \cup {p}
    BY FS_RemoveElement
  <1>2. Bytes(R) \subseteq Bytes(S)
    BY DEF Bytes
  <1>3. IsFiniteSet(Bytes(R))
    BY <1>2, FS_Subset
  <1> HIDE DEF R
  <1>4. /\ Cardinality(R \cup {p}) = Cardinality(R) + 1
        /\ Cardinality(Bytes(R \cup {p})) = Cardinality(Bytes(R)) + msg[p].size
        /\ Cardinality(R) \in Nat /\ Cardinality(Bytes(R)) \in Nat
    BY <1>1, <1>3, BytesAdded
  <1>5. Cardinality(S) = Cardinality(R) + 1
    BY <1>1, <1>4
  <1>6. Cardinality(Bytes(S)) = Cardinality(Bytes(R)) + msg[p].size
    BY <1>1, <1>4
  <1>7. /\ Cardinality(R) = Cardinality(S) - 1
        /\ Cardinality(Bytes(R)) = Cardinality(Bytes(S)) - msg[p].size
    BY <1>4, <1>5, <1>6
  <1>8. QED
    BY <1>1, <1>3, <1>4, <1>7 DEF R

LEMMA InitRoom == Init => RoomInv
  <1> SUFFICES ASSUME Init PROVE RoomInv
    OBVIOUS
  <1>1. Busy = {} /\ Bytes(Busy) = {}
    BY DEF Init, Busy, InState, Bytes
  <1>2. IsFiniteSet({}) /\ Cardinality({}) = 0
    BY FS_EmptySet
  <1>3. LoopTypeOK
    BY DEF Init, LoopTypeOK, LoopPc
  <1>4. QED
    BY <1>1, <1>2, <1>3, DispatchAssumption DEF Init, RoomInv, Zero, Total

(* A step that leaves the busy sessions, their messages and the semaphore.  *)
LEMMA BusyKept ==
    ASSUME RoomInv, LoopTypeOK', Busy' = Busy, \A p \in Busy : msg'[p] = msg[p],
           UNCHANGED sem
    PROVE  RoomInv'
  <1>1. Bytes(Busy)' = Bytes(Busy)
    BY DEF Bytes
  <1>2. QED
    BY <1>1 DEF RoomInv, Total

LEMMA AcquireKeeps == ASSUME RoomInv, NEW p \in Peers, Acquire(p) PROVE RoomInv'
  <1>1. /\ mpc[p] = "acquire" /\ HasRoomFor(msg[p]) /\ sem' = Plus(msg[p]) /\ UNCHANGED msg
        /\ \E to \in {"decode", "handle"} : mpc' = [mpc EXCEPT ![p] = to]
    BY DEF Acquire, Go
  <1>2. LoopTypeOK' /\ LoopTypeOK
    BY <1>1 DEF LoopTypeOK, LoopPc, RoomInv
  <1>3. Busy' = Busy \cup {p} /\ p \notin Busy
    BY <1>1, <1>2 DEF Busy, InState, LoopTypeOK
  <1>4. msg[p].size \in Nat
    BY <1>1, <1>2 DEF LoopTypeOK
  <1>5. Bytes(Busy)' = Bytes(Busy \cup {p})
    BY <1>1, <1>3 DEF Bytes
  <1>6. /\ IsFiniteSet(Busy \cup {p}) /\ IsFiniteSet(Bytes(Busy \cup {p}))
        /\ Plus(msg[p]) = Total(Busy \cup {p})
    BY <1>3, <1>4, BytesAdded DEF RoomInv, Plus, Total
  <1>7. sem' = Total(Busy)'
    BY <1>1, <1>3, <1>5, <1>6 DEF Total
  <1>8. QED
    BY <1>1, <1>2, <1>3, <1>5, <1>6, <1>7 DEF RoomInv, HasRoomFor

LEMMA ReleaseKeeps ==
    ASSUME RoomInv, NEW p \in Busy, mpc' = [mpc EXCEPT ![p] = "discard"],
           UNCHANGED msg, sem' = Minus(msg[p])
    PROVE  RoomInv'
  <1>1. p \in Peers /\ mpc[p] \in {"decode", "handle"}
    BY DEF Busy, InState
  <1>2. LoopTypeOK' /\ LoopTypeOK
    BY <1>1 DEF LoopTypeOK, LoopPc, RoomInv
  <1>3. Busy' = Busy \ {p}
    BY <1>1, <1>2 DEF Busy, InState, LoopTypeOK
  <1>4. msg[p].size \in Nat
    BY <1>1, <1>2 DEF LoopTypeOK
  <1>5. Bytes(Busy)' = Bytes(Busy \ {p})
    BY <1>3 DEF Bytes
  <1>6. /\ IsFiniteSet(Busy \ {p}) /\ IsFiniteSet(Bytes(Busy \ {p}))
        /\ Cardinality(Busy \ {p}) = sem.num - 1
        /\ Cardinality(Bytes(Busy \ {p})) = sem.size - msg[p].size
        /\ sem.num - 1 \in Nat /\ sem.size - msg[p].size \in Nat
    BY <1>4, BytesRemoved DEF RoomInv, Total
  <1>7. sem' = Total(Busy)' /\ sem'.num = sem.num - 1 /\ sem'.size = sem.size - msg[p].size
    BY <1>3, <1>5, <1>6 DEF Total, Minus
  <1>8. sem.num \in Nat /\ sem.size \in Nat
    BY FS_CardinalityType DEF RoomInv, Total
  <1>9. sem'.num <= Limit.num /\ sem'.size <= Limit.size
    BY <1>4, <1>6, <1>7, <1>8, DispatchAssumption DEF RoomInv
  <1>10. QED
    BY <1>2, <1>3, <1>5, <1>6, <1>7, <1>9 DEF RoomInv

(* The steps of a message loop that take no room and give none back.        *)
LEMMA QuietKeeps ==
    ASSUME RoomInv, NEW p \in Peers,
           Enter(p) \/ ReadMsg(p) \/ ReadFails(p) \/ AcquireTimesOut(p) \/ Decode(p) \/ Discard(p)
    PROVE  RoomInv'
  <1>1. LoopTypeOK /\ UNCHANGED sem
    BY DEF RoomInv, Enter, ReadMsg, ReadFails, AcquireTimesOut, Decode, Discard
  <1>2. CASE ReadMsg(p)
    <2>1. PICK m \in Sent :
            IF m.size > MaxMsgSize
            THEN Go(p, "read", "gone") /\ UNCHANGED msg
            ELSE Go(p, "read", "acquire") /\ msg' = [msg EXCEPT ![p] = m]
      BY <1>2 DEF ReadMsg
    <2>2. m.size \in Nat
      BY DispatchAssumption DEF Messages
    <2>3. LoopTypeOK'
      BY <1>1, <2>1, <2>2 DEF Go, LoopTypeOK, LoopPc
    <2>4. Busy' = Busy /\ \A q \in Busy : msg'[q] = msg[q]
      BY <1>1, <2>1 DEF Go, Busy, InState, LoopTypeOK
    <2>5. QED
      BY <1>1, <2>3, <2>4, BusyKept
  <1>3. CASE Discard(p)
    <2>1. LoopTypeOK'
      BY <1>1, <1>3 DEF Discard, Go, LoopTypeOK, LoopPc
    <2>2. Busy' = Busy /\ \A q \in Busy : msg'[q] = msg[q]
      BY <1>1, <1>3 DEF Discard, Go, Busy, InState, LoopTypeOK
    <2>3. QED
      BY <1>1, <2>1, <2>2, BusyKept
  <1>4. CASE Enter(p) \/ ReadFails(p) \/ AcquireTimesOut(p) \/ Decode(p)
    <2>1. LoopTypeOK' /\ UNCHANGED msg
      BY <1>1, <1>4
      DEF Enter, ReadFails, AcquireTimesOut, DropMessage, Decode, Go, LoopTypeOK, LoopPc
    <2>2. Busy' = Busy
      BY <1>1, <1>4
      DEF Enter, ReadFails, AcquireTimesOut, DropMessage, Decode, Go, Busy, InState, LoopTypeOK
    <2>3. QED
      BY <1>1, <2>1, <2>2, BusyKept
  <1>5. QED
    BY <1>2, <1>3, <1>4

LEMMA RoomKeeps == ASSUME RoomInv, [Next]_vars PROVE RoomInv'
  <1>1. ASSUME UNCHANGED dispatchVars PROVE RoomInv'
    <2>1. LoopTypeOK' /\ Busy' = Busy /\ UNCHANGED <<msg, sem>>
      BY <1>1 DEF dispatchVars, RoomInv, LoopTypeOK, Busy, InState
    <2>2. QED
      BY <2>1, BusyKept
  <1>2. ASSUME NEW p \in Peers, DispatchStep(p) PROVE RoomInv'
    <2>1. CASE DecodeFails(p) \/ Handle(p)
      <3>1. /\ mpc[p] \in {"decode", "handle"} /\ mpc' = [mpc EXCEPT ![p] = "discard"]
            /\ UNCHANGED msg /\ sem' = Minus(msg[p])
        BY <2>1 DEF DecodeFails, Handle, Go, ReleaseAlways
      <3>2. QED
        BY <3>1, ReleaseKeeps DEF Busy, InState
    <2>2. QED
      BY <1>2, <2>1, AcquireKeeps, QuietKeeps DEF DispatchStep
  <1>3. CASE UNCHANGED vars
    BY <1>1, <1>3 DEF vars
  <1>4. QED
    BY <1>1, <1>2, <1>3 DEF Next, Apart

(* For any number of sessions, messages of any size and any limit: the      *)
(* semaphore counts exactly the messages that are being decoded or handled, *)
(* and their bytes, and never more than its limit (handleMsg).              *)
THEOREM RoomCounted == Spec => []RoomAccounted
  <1>1. Spec => []IInv
    BY InitIInv, StepKeeps, PTL DEF Spec
  <1>2. Spec => []RoomInv
    BY InitRoom, RoomKeeps, PTL DEF Spec
  <1>3. IInv /\ RoomInv => RoomAccounted
    BY DEF IInv, RoomInv, RoomAccounted, Busy
  <1>4. QED
    BY <1>1, <1>2, <1>3, PTL
=============================================================================
