----------------------------- MODULE OnceProofs -----------------------------
(***************************************************************************)
(* Proofs about SubscribeOnce and the programs that call it, for every     *)
(* number of calls and responses, every set of response kinds and error    *)
(* codes.                                                                  *)
(***************************************************************************)
EXTENDS OnceApplication, GrpcCallProofs, SequenceTheorems, TLAPS

(* The invariant holds at first. *)
LEMMA OnceInitInv == Init => OnceInv
<1> SUFFICES ASSUME Init PROVE OnceInv
  OBVIOUS
<1> USE GrpcAssumption DEF Init, CallsInit
<1>1. UnusedCall \in Call
  <2>1. << >> \in Seq(Kinds)
    OBVIOUS
  <2> QED
    BY <2>1 DEF Call, UnusedCall
<1>2. TypeOK
  <2>1. calls \in [CallId -> Call]
    BY <1>1
  <2>2. stats \in Seq(CallId \X Nat)
    OBVIOUS
  <2> QED
    BY <2>1, <2>2 DEF TypeOK, Outcome, NoCall
<1>3. ProgressInv
  BY DEF ProgressInv, UnusedCall, CallId
<1>4. StoredInv /\ SuccessIsComplete
  BY DEF StoredInv, SuccessIsComplete, CallId
<1>5. StoredInOrder
  BY DEF StoredInOrder, StoredOf, UnusedCall, CallId
<1> QED
  BY <1>2, <1>3, <1>4, <1>5 DEF OnceInv

(* While the caller is in the function the current call is one of its own. *)
LEMMA CurrentCall ==
  ASSUME OnceInv, pc # "idle"
  PROVE  opened \in CallId /\ returned[opened] = "none"
BY DEF OnceInv, TypeOK, ProgressInv, NoCall

(* Nothing is stored of a call that is not opened yet. *)
LEMMA UnopenedCall ==
  ASSUME OnceInv, NEW c \in CallId, c > opened
  PROVE  /\ calls[c].sent = << >> /\ calls[c].taken = 0
         /\ calls[c].state = "unused" /\ returned[c] = "none"
<1>1. /\ calls[c].state = "unused" /\ calls[c].sent = << >>
      /\ returned[c] = "none" /\ calls[c].taken <= Len(calls[c].sent)
  BY DEF OnceInv, ProgressInv
<1>2. calls[c].taken \in Nat /\ Len(calls[c].sent) = 0
  BY <1>1, FieldTypes DEF OnceInv, TypeOK
<1> QED
  BY <1>1, <1>2

-----------------------------------------------------------------------------
(* A step that reads nothing and stores nothing, and leaves the calls that *)
(* have returned alone, keeps what is said about stored responses.         *)
LEMMA StoredKept ==
  ASSUME OnceInv, DataKept, stats' = stats, opened' \in Nat, opened' >= opened
  PROVE  StoredInv' /\ StoredInOrder'
<1>1. \A c \in CallId : StoredOf(c)' = StoredOf(c)
  BY DEF StoredOf
<1>2. \A n \in 1 .. Len(stats) : stats[n] \in CallId \X Nat
  BY DEF OnceInv, TypeOK
<1>3. StoredInv'
  <2> SUFFICES ASSUME NEW n \in 1 .. Len(stats)
               PROVE  stats[n][1] <= opened' /\ stats[n][2] \in 1 .. calls'[stats[n][1]].taken
    BY DEF StoredInv
  <2>1. stats[n][1] <= opened /\ stats[n][2] \in 1 .. calls[stats[n][1]].taken
    BY DEF OnceInv, StoredInv
  <2>2. opened \in Nat /\ stats[n][1] \in Nat
    BY <1>2, GrpcAssumption DEF OnceInv, TypeOK, CallId, NoCall
  <2> QED
    BY <1>2, <2>1, <2>2 DEF DataKept
<1>4. StoredInOrder'
  BY <1>1 DEF OnceInv, StoredInOrder, DataKept, Earlier
<1> QED
  BY <1>3, <1>4

(* The same for what SUCCESS means. *)
LEMMA SuccessKept ==
  ASSUME OnceInv, stats' = stats, returned' = returned,
         \A c \in CallId : returned[c] = "SUCCESS" =>
           /\ calls'[c].finished = calls[c].finished
           /\ calls'[c].status = calls[c].status
           /\ calls'[c].sent = calls[c].sent
           /\ calls'[c].taken = calls[c].taken
  PROVE  SuccessIsComplete'
<1> SUFFICES ASSUME NEW c \in CallId, returned[c] = "SUCCESS"
             PROVE  /\ calls'[c].finished /\ calls'[c].status = "OK"
                    /\ calls'[c].taken = Len(calls'[c].sent)
                    /\ StoredOf(c)' = {k \in 1 .. Len(calls'[c].sent) :
                                         calls'[c].sent[k] = "good"}
  BY DEF SuccessIsComplete
<1>1. StoredOf(c)' = StoredOf(c)
  BY DEF StoredOf
<1> QED
  BY <1>1 DEF OnceInv, SuccessIsComplete

(* A step that leaves all of them alone keeps all of that. *)
LEMMA NothingRead ==
  ASSUME OnceInv, UNCHANGED <<calls, stats, returned, opened>>
  PROVE  StoredInv' /\ StoredInOrder' /\ SuccessIsComplete'
<1>1. DataKept /\ opened \in Nat
  BY GrpcAssumption DEF DataKept, OnceInv, TypeOK, CallId, NoCall
<1> QED
  BY <1>1, StoredKept, SuccessKept

-----------------------------------------------------------------------------
(* A call that is refused keeps the invariant. *)
LEMMA RefuseStep ==
  ASSUME OnceInv, NEW credentials \in BOOLEAN, RefuseOnce(credentials)
  PROVE  OnceInv'
<1>1. /\ UNCHANGED <<calls, interface, pc, opened, set_deadline, has_deadline,
                     stats, returned>>
      /\ refused' = TRUE
  BY DEF RefuseOnce
<1>2. StoredInv' /\ StoredInOrder' /\ SuccessIsComplete'
  BY <1>1, NothingRead
<1> QED
  BY <1>1, <1>2 DEF OnceInv, TypeOK, ProgressInv, ReadFails, Readable

(* A call that is opened keeps the invariant. *)
LEMMA OpenStep ==
  ASSUME OnceInv, NEW credentials \in BOOLEAN, NEW deadline \in BOOLEAN,
         OpenOnce(credentials, deadline)
  PROVE  OnceInv'
<1> DEFINE o == opened + 1
<1>1. o \in CallId /\ opened' = o /\ o > opened /\ opened \in Nat
  BY GrpcAssumption DEF OnceInv, TypeOK, OpenOnce, CallId, NoCall
<1>2. calls \in [CallId -> Call]
  BY DEF OnceInv, TypeOK
<1>3. /\ calls' \in [CallId -> Call] /\ OthersSame(o)
      /\ calls'[o].state = "open" /\ DataKept /\ FinishKept
  BY <1>1, <1>2, SubscribeEffect DEF OpenOnce
<1>4. returned[o] = "none"
  BY <1>1, UnopenedCall
<1>5. TypeOK'
  BY <1>1, <1>3 DEF OnceInv, TypeOK, OpenOnce, ContextDeadline
<1>6. ProgressInv'
  <2>1. pc' = "write" /\ returned' = returned
    BY DEF OpenOnce
  <2>2. opened' # NoCall /\ returned'[opened'] = "none"
    BY <1>1, <1>4, <2>1 DEF CallId, NoCall
  <2>3. ASSUME NEW c \in CallId
        PROVE  /\ calls'[c].taken <= Len(calls'[c].sent)
               /\ Len(calls'[c].sent) <= MaxResponses
    BY <1>3 DEF OnceInv, ProgressInv, DataKept
  <2>4. ASSUME NEW c \in CallId, c > opened'
        PROVE  /\ calls'[c].state = "unused" /\ calls'[c].sent = << >>
               /\ returned'[c] = "none"
    <3>1. c > opened /\ c # o
      BY <1>1, <2>4 DEF CallId
    <3> QED
      BY <1>3, <2>1, <3>1, UnopenedCall DEF OthersSame
  <2>5. ASSUME NEW c \in CallId, returned'[c] = "SUCCESS"
        PROVE  calls'[c].state = "ended"
    BY <1>3, <1>4, <2>1, <2>5 DEF OnceInv, ProgressInv, OthersSame
  <2> QED
    BY <2>1, <2>2, <2>3, <2>4, <2>5 DEF ProgressInv
<1>7. StoredInv' /\ StoredInOrder'
  BY <1>1, <1>3, StoredKept DEF OpenOnce
<1>8. SuccessIsComplete'
  <2>1. returned' = returned /\ stats' = stats
    BY DEF OpenOnce
  <2> QED
    BY <1>3, <1>4, <2>1, SuccessKept DEF OthersSame
<1> QED
  BY <1>5, <1>6, <1>7, <1>8 DEF OnceInv

(* A Write, failed or not, keeps the invariant. *)
LEMMA WriteStep ==
  ASSUME OnceInv, WriteOnce
  PROVE  OnceInv'
<1>1. /\ opened \in CallId /\ returned[opened] = "none"
      /\ calls \in [CallId -> Call]
  BY CurrentCall DEF WriteOnce, OnceInv, TypeOK
<1>2. PICK ok \in BOOLEAN : Write(opened, ok)
  BY DEF WriteOnce, WriteOutcomes
<1>3. /\ calls' \in [CallId -> Call]
      /\ StatusKept /\ DataKept /\ FinishKept
  BY <1>1, <1>2, WriteEffect
<1>4. /\ pc' = "read"
      /\ UNCHANGED <<interface, opened, set_deadline, has_deadline, stats,
                     returned, refused>>
  BY DEF WriteOnce
<1>5. TypeOK'
  BY <1>3, <1>4 DEF OnceInv, TypeOK
<1>6. ProgressInv'
  BY <1>1, <1>3, <1>4
  DEF OnceInv, ProgressInv, DataKept, StatusKept, NoCall, CallId
<1>7. StoredInv' /\ StoredInOrder'
  BY <1>1, <1>3, <1>4, StoredKept, GrpcAssumption DEF CallId
<1>8. SuccessIsComplete'
  BY <1>3, <1>4, SuccessKept DEF DataKept, StatusKept, FinishKept
<1> QED
  BY <1>5, <1>6, <1>7, <1>8 DEF OnceInv

(* The end of the loop on Read keeps the invariant. *)
LEMMA EndReadingStep ==
  ASSUME OnceInv, EndReading
  PROVE  OnceInv'
<1>1. /\ pc = "read" /\ pc' = "finish" /\ ReadFails(opened)
      /\ UNCHANGED <<calls, interface, opened, set_deadline, has_deadline,
                     stats, returned, refused>>
  BY DEF EndReading, NoMore
<1>2. ReadFails(opened)'
  BY <1>1 DEF ReadFails, Readable
<1>3. StoredInv' /\ StoredInOrder' /\ SuccessIsComplete'
  BY <1>1, NothingRead
<1> QED
  BY <1>1, <1>2, <1>3 DEF OnceInv, TypeOK, ProgressInv

(* Finish and the code returned keep the invariant: nothing is missing if  *)
(* the code is SUCCESS. *)
LEMMA FinishStep ==
  ASSUME OnceInv, FinishOnce
  PROVE  OnceInv'
<1>1. /\ opened \in CallId /\ returned[opened] = "none"
      /\ calls \in [CallId -> Call]
      /\ calls[opened].state = "ended" /\ ReadFails(opened)
  BY CurrentCall DEF FinishOnce, OnceInv, TypeOK, ProgressInv
<1>2. /\ calls' \in [CallId -> Call] /\ OthersSame(opened)
      /\ calls'[opened].finished
      /\ StatusKept /\ DataKept
  BY <1>1, FinishEffect DEF FinishOnce
<1>3. /\ returned' = [returned EXCEPT ![opened] = OnceCode(opened)]
      /\ pc' = "idle"
      /\ UNCHANGED <<interface, opened, set_deadline, has_deadline, stats,
                     refused>>
  BY DEF FinishOnce
<1>4. TypeOK'
  BY <1>2, <1>3 DEF OnceInv, TypeOK, Outcome, OnceCode
<1>5. ProgressInv'
  <2>1. ASSUME NEW c \in CallId, returned'[c] = "SUCCESS"
        PROVE  calls'[c].state = "ended"
    BY <1>1, <1>2, <1>3, <2>1 DEF OnceInv, TypeOK, ProgressInv, StatusKept
  <2>2. ASSUME NEW c \in CallId, c > opened
        PROVE  /\ calls'[c].state = "unused" /\ calls'[c].sent = << >>
               /\ returned'[c] = "none"
    <3>1. c # opened
      BY <1>1, <2>2, GrpcAssumption DEF CallId
    <3> QED
      BY <1>2, <1>3, <2>2, <3>1, UnopenedCall
      DEF OnceInv, TypeOK, DataKept, StatusKept
  <2> QED
    BY <1>2, <1>3, <2>1, <2>2 DEF OnceInv, ProgressInv, DataKept
<1>6. StoredInv' /\ StoredInOrder'
  BY <1>1, <1>2, <1>3, StoredKept, GrpcAssumption DEF CallId
<1>7. SuccessIsComplete'
  <2> SUFFICES ASSUME NEW c \in CallId, returned'[c] = "SUCCESS"
               PROVE  /\ calls'[c].finished /\ calls'[c].status = "OK"
                      /\ calls'[c].taken = Len(calls'[c].sent)
                      /\ StoredOf(c)' = {k \in 1 .. Len(calls'[c].sent) :
                                           calls'[c].sent[k] = "good"}
    BY DEF SuccessIsComplete
  <2>1. CASE c # opened
    BY <1>1, <1>2, <1>3, <2>1
    DEF OnceInv, TypeOK, SuccessIsComplete, StoredOf, OthersSame
  <2>2. CASE c = opened
    <3>1. calls[c].status = "OK"
      BY <1>1, <1>3, <2>2 DEF OnceInv, TypeOK, OnceCode
    <3>2. calls[c].taken = Len(calls[c].sent)
      BY <1>1, <2>2, <3>1, FieldTypes
      DEF OnceInv, ProgressInv, ReadFails, Readable
    <3>3. StoredOf(c) = {k \in 1 .. Len(calls[c].sent) : calls[c].sent[k] = "good"}
      BY <3>2 DEF OnceInv, StoredInOrder
    <3>4. StoredOf(c)' = StoredOf(c)
      BY <1>3 DEF StoredOf
    <3> QED
      BY <1>2, <2>2, <3>1, <3>2, <3>3, <3>4 DEF StatusKept, DataKept
  <2> QED
    BY <2>1, <2>2
<1> QED
  BY <1>4, <1>5, <1>6, <1>7 DEF OnceInv

(* A Read takes the response after those that were taken. *)
LEMMA ReadsNext ==
  ASSUME OnceInv, ReadOnce
  PROVE  /\ opened \in CallId /\ calls' \in [CallId -> Call]
         /\ OthersSame(opened) /\ StatusKept /\ FinishKept
         /\ \A d \in CallId : calls'[d].sent = calls[d].sent
         /\ calls[opened].taken \in Nat /\ Len(calls[opened].sent) \in Nat
         /\ calls'[opened].taken = calls[opened].taken + 1
         /\ calls'[opened].taken <= Len(calls[opened].sent)
         /\ calls'[opened].taken <= MaxResponses
<1>1. opened \in CallId /\ calls \in [CallId -> Call]
  BY CurrentCall DEF ReadOnce, OnceInv, TypeOK
<1>2. Read(opened) /\ Readable(opened)
  BY DEF ReadOnce
<1>3. /\ calls[opened].taken \in Nat /\ Len(calls[opened].sent) \in Nat
      /\ Len(calls[opened].sent) <= MaxResponses
  BY <1>1, FieldTypes DEF OnceInv, ProgressInv
<1> QED
  BY <1>1, <1>2, <1>3, ReadEffect, GrpcAssumption DEF Readable

(* A response that is stored is later than all that are stored.            *)
LEMMA StoredEarlier ==
  ASSUME OnceInv, ReadOnce, NEW n \in 1 .. Len(stats)
  PROVE  Earlier(stats[n], <<opened, calls'[opened].taken>>)
<1>1. /\ stats[n][1] \in CallId /\ stats[n][2] \in Nat
      /\ stats[n][1] <= opened /\ stats[n][2] <= calls[stats[n][1]].taken
  <2>1. stats[n] \in CallId \X Nat
    BY DEF OnceInv, TypeOK
  <2>2. calls[stats[n][1]].taken \in Nat
    BY <2>1, FieldTypes DEF OnceInv, TypeOK
  <2> QED
    BY <2>1, <2>2 DEF OnceInv, StoredInv
<1>2. opened \in Nat /\ stats[n][1] \in Nat
  BY <1>1, ReadsNext, GrpcAssumption DEF CallId
<1> QED
  BY <1>1, <1>2, ReadsNext DEF Earlier

(* What is stored after a Read: the response, if it is good.               *)
LEMMA ReadStored ==
  ASSUME OnceInv, ReadOnce
  PROVE  StoredInv' /\ StoredInOrder'
<1> DEFINE i == calls'[opened].taken
           kind == calls[opened].sent[i]
           r == <<opened, i>>
<1>1. /\ opened \in CallId /\ OthersSame(opened)
      /\ \A d \in CallId : calls'[d].sent = calls[d].sent
      /\ calls[opened].taken \in Nat /\ i = calls[opened].taken + 1
      /\ i \in 1 .. MaxResponses
  BY ReadsNext, GrpcAssumption
<1>2. stats' = IF kind = "good" THEN Append(stats, r) ELSE stats
  BY <1>1 DEF ReadOnce, Store
<1>3. opened' = opened /\ stats \in Seq(CallId \X Nat) /\ opened \in Nat
  BY <1>1, GrpcAssumption DEF ReadOnce, OnceInv, TypeOK, CallId
<1>4. /\ Len(stats) \in Nat
      /\ \A n \in 1 .. Len(stats) : stats[n] \in CallId \X Nat
  BY <1>3
<1>5. \A c \in CallId : calls[c].taken \in Nat
  BY FieldTypes DEF OnceInv, TypeOK
<1> HIDE DEF i, kind
<1>6. \A c \in CallId : {k \in 1 .. calls'[c].taken : calls'[c].sent[k] = "good"} =
         {k \in 1 .. calls[c].taken : calls[c].sent[k] = "good"}
            \cup (IF c = opened /\ kind = "good" THEN {i} ELSE {})
  <2>1. ASSUME NEW c \in CallId, c # opened
        PROVE  calls'[c] = calls[c]
    BY <1>1, <2>1 DEF OthersSame
  <2>2. 1 .. calls'[opened].taken = (1 .. calls[opened].taken) \cup {i}
    BY <1>1 DEF i
  <2> QED
    BY <1>1, <2>1, <2>2 DEF kind
<1>7. CASE kind # "good"
  <2>1. stats' = stats
    BY <1>2, <1>7
  <2>2. \A c \in CallId : StoredOf(c)' = StoredOf(c)
    BY <2>1 DEF StoredOf
  <2>3. StoredInv'
    <3> SUFFICES ASSUME NEW n \in 1 .. Len(stats)
                 PROVE  /\ stats[n][1] <= opened
                        /\ stats[n][2] \in 1 .. calls'[stats[n][1]].taken
      BY <1>3, <2>1 DEF StoredInv
    <3>1. /\ stats[n][1] <= opened
          /\ stats[n][2] \in 1 .. calls[stats[n][1]].taken
      BY DEF OnceInv, StoredInv
    <3>2. CASE stats[n][1] = opened
      BY <1>1, <3>1, <3>2 DEF i
    <3>3. CASE stats[n][1] # opened
      BY <1>1, <1>4, <3>1, <3>3 DEF OthersSame
    <3> QED
      BY <3>2, <3>3
  <2>4. StoredInOrder'
    BY <1>6, <1>7, <2>1, <2>2 DEF OnceInv, StoredInOrder, Earlier
  <2> QED
    BY <2>3, <2>4
<1>8. CASE kind = "good"
  <2>1. stats' = Append(stats, r)
    BY <1>2, <1>8
  <2> HIDE DEF r
  <2>2. r \in CallId \X Nat /\ r[1] = opened /\ r[2] = i
    BY <1>1 DEF r
  <2>3. /\ Len(stats') = Len(stats) + 1
        /\ stats'[Len(stats) + 1] = r
        /\ \A n \in 1 .. Len(stats) : stats'[n] = stats[n]
    BY <1>3, <2>1, <2>2
  <2>4. 1 .. Len(stats') = (1 .. Len(stats)) \cup {Len(stats) + 1}
    BY <1>4, <2>3
  <2>5. StoredInv'
    <3> SUFFICES ASSUME NEW n \in 1 .. Len(stats')
                 PROVE  /\ stats'[n][1] <= opened
                        /\ stats'[n][2] \in 1 .. calls'[stats'[n][1]].taken
      BY <1>3 DEF StoredInv
    <3>1. CASE n = Len(stats) + 1
      BY <1>1, <1>3, <2>2, <2>3, <3>1 DEF i
    <3>2. CASE n \in 1 .. Len(stats)
      <4>1. /\ stats'[n] = stats[n] /\ stats[n][1] <= opened
            /\ stats[n][2] \in 1 .. calls[stats[n][1]].taken
        BY <2>3, <3>2 DEF OnceInv, StoredInv
      <4>2. CASE stats[n][1] = opened
        BY <1>1, <4>1, <4>2 DEF i
      <4>3. CASE stats[n][1] # opened
        BY <1>1, <1>4, <3>2, <4>1, <4>3 DEF OthersSame
      <4> QED
        BY <4>2, <4>3
    <3> QED
      BY <2>4, <3>1, <3>2
  <2>6. \A c \in CallId : StoredOf(c)' =
          StoredOf(c) \cup (IF c = opened THEN {i} ELSE {})
    <3> SUFFICES ASSUME NEW c \in CallId, NEW k \in 1 .. MaxResponses
                 PROVE  (\E n \in 1 .. Len(stats') : stats'[n] = <<c, k>>) <=>
                          \/ \E n \in 1 .. Len(stats) : stats[n] = <<c, k>>
                          \/ c = opened /\ k = i
      BY <1>1 DEF StoredOf
    <3>1. (\E n \in 1 .. Len(stats') : stats'[n] = <<c, k>>) <=>
            (\E n \in 1 .. Len(stats) : stats[n] = <<c, k>>) \/ r = <<c, k>>
      BY <2>3, <2>4, Zenon
    <3>2. r = <<c, k>> <=> c = opened /\ k = i
      BY DEF r
    <3> QED
      BY <3>1, <3>2
  <2>7. ASSUME NEW n \in 1 .. Len(stats'), NEW m \in 1 .. Len(stats'), n < m
        PROVE  Earlier(stats'[n], stats'[m])
    <3>1. n \in 1 .. Len(stats) /\ stats'[n] = stats[n]
      BY <1>4, <2>3, <2>7
    <3>2. CASE m \in 1 .. Len(stats)
      BY <2>3, <2>7, <3>1, <3>2 DEF OnceInv, StoredInOrder
    <3>3. CASE m = Len(stats) + 1
      BY <2>3, <3>1, <3>3, StoredEarlier DEF r, i
    <3> QED
      BY <2>4, <3>2, <3>3
  <2>8. StoredInOrder'
    BY <1>6, <1>8, <2>6, <2>7 DEF OnceInv, StoredInOrder, Earlier
  <2> QED
    BY <2>5, <2>8
<1> QED
  BY <1>7, <1>8

(* A Read, and what is stored after it, keeps the invariant. *)
LEMMA ReadStep ==
  ASSUME OnceInv, ReadOnce
  PROVE  OnceInv'
<1>1. /\ opened \in CallId /\ returned[opened] = "none"
      /\ calls' \in [CallId -> Call] /\ OthersSame(opened)
      /\ StatusKept /\ FinishKept
      /\ \A d \in CallId : calls'[d].sent = calls[d].sent
      /\ calls'[opened].taken <= Len(calls[opened].sent)
      /\ calls'[opened].taken \in Nat
  BY ReadsNext, CurrentCall DEF ReadOnce
<1>2. /\ UNCHANGED <<interface, opened, set_deadline, has_deadline, refused>>
      /\ pc' \in {"idle", "read"}
      /\ \/ returned' = returned
         \/ returned' = [returned EXCEPT ![opened] = "exception"] /\ pc' = "idle"
  BY DEF ReadOnce
<1>3. /\ returned' \in [CallId -> Outcome]
      /\ \A c \in CallId : c # opened => returned'[c] = returned[c]
      /\ returned'[opened] # "SUCCESS"
      /\ pc' # "idle" => returned'[opened] = "none"
  BY <1>1, <1>2 DEF OnceInv, TypeOK, Outcome
<1>4. StoredInv' /\ StoredInOrder'
  BY ReadStored
<1>5. stats' \in Seq(CallId \X Nat)
  <2>1. stats \in Seq(CallId \X Nat)
    BY DEF OnceInv, TypeOK
  <2>2. \/ stats' = stats
        \/ stats' = Append(stats, <<opened, calls[opened].taken + 1>>)
    BY DEF ReadOnce, Store
  <2>3. <<opened, calls[opened].taken + 1>> \in CallId \X Nat
    BY <1>1, ReadsNext
  <2> QED
    BY <2>1, <2>2, <2>3
<1>6. TypeOK'
  BY <1>1, <1>2, <1>3, <1>5 DEF OnceInv, TypeOK
<1>7. ProgressInv'
  <2>1. ASSUME NEW c \in CallId
        PROVE  /\ calls'[c].taken <= Len(calls'[c].sent)
               /\ Len(calls'[c].sent) <= MaxResponses
    BY <1>1 DEF OnceInv, ProgressInv, OthersSame
  <2>2. ASSUME NEW c \in CallId, c > opened
        PROVE  /\ calls'[c].state = "unused" /\ calls'[c].sent = << >>
               /\ returned'[c] = "none"
    <3>1. c # opened
      BY <1>1, <2>2, GrpcAssumption DEF CallId
    <3> QED
      BY <1>1, <1>3, <2>2, <3>1, UnopenedCall DEF OthersSame
  <2>3. ASSUME NEW c \in CallId, returned'[c] = "SUCCESS"
        PROVE  calls'[c].state = "ended"
    BY <1>1, <1>3, <2>3 DEF OnceInv, ProgressInv, StatusKept
  <2> QED
    BY <1>1, <1>2, <1>3, <2>1, <2>2, <2>3, GrpcAssumption
    DEF ProgressInv, CallId, NoCall
<1>8. SuccessIsComplete'
  <2> SUFFICES ASSUME NEW c \in CallId, returned'[c] = "SUCCESS"
               PROVE  /\ calls'[c].finished /\ calls'[c].status = "OK"
                      /\ calls'[c].taken = Len(calls'[c].sent)
                      /\ StoredOf(c)' = {k \in 1 .. Len(calls'[c].sent) :
                                           calls'[c].sent[k] = "good"}
    BY DEF SuccessIsComplete
  <2>1. c # opened /\ returned[c] = "SUCCESS" /\ calls'[c] = calls[c]
    BY <1>1, <1>3 DEF OthersSame
  <2>2. /\ calls[c].finished /\ calls[c].status = "OK"
        /\ calls[c].taken = Len(calls[c].sent)
    BY <2>1 DEF OnceInv, SuccessIsComplete
  <2>3. StoredOf(c)' = {k \in 1 .. calls'[c].taken : calls'[c].sent[k] = "good"}
    BY <1>4 DEF StoredInOrder
  <2> QED
    BY <2>1, <2>2, <2>3
<1> QED
  BY <1>4, <1>6, <1>7, <1>8 DEF OnceInv

(* The server and the network act on an open call only. *)
LEMMA OpenCall ==
  ASSUME OnceInv, NEW c \in CallId, calls[c].state = "open"
  PROVE  /\ c <= opened /\ returned[c] # "SUCCESS"
         /\ pc = "finish" => opened # c
<1>1. ~(c > opened)
  BY UnopenedCall
<1>2. c \in Nat /\ opened \in Nat
  BY GrpcAssumption DEF OnceInv, TypeOK, CallId, NoCall
<1> QED
  BY <1>1, <1>2 DEF OnceInv, ProgressInv, ReadFails

(* A response of the server keeps the invariant. *)
LEMMA RespondStep ==
  ASSUME OnceInv, NEW c \in CallId, Respond(c)
  PROVE  OnceInv'
<1>1. PICK k \in Kinds : ServerRespond(c, k)
  BY DEF Respond
<1>2. UNCHANGED client
  BY DEF Respond
<1>3. /\ calls \in [CallId -> Call] /\ calls[c].state = "open"
      /\ Len(calls[c].sent) < MaxResponses
  BY <1>1 DEF OnceInv, TypeOK, ServerRespond
<1>4. /\ calls' \in [CallId -> Call] /\ OthersSame(c)
      /\ calls'[c].sent = Append(calls[c].sent, k)
      /\ \A d \in CallId : calls'[d].taken = calls[d].taken
      /\ StatusKept /\ FinishKept
  BY <1>1, <1>3, RespondEffect
<1>5. /\ c <= opened /\ returned[c] # "SUCCESS"
      /\ pc = "finish" => opened # c
  BY <1>3, OpenCall
<1>6. /\ Len(calls[c].sent) \in Nat /\ calls[c].taken \in Nat
      /\ calls[c].taken <= Len(calls[c].sent)
      /\ Len(calls'[c].sent) = Len(calls[c].sent) + 1
      /\ \A j \in 1 .. Len(calls[c].sent) : calls'[c].sent[j] = calls[c].sent[j]
  BY <1>3, <1>4, FieldTypes DEF OnceInv, ProgressInv
<1>7. TypeOK'
  BY <1>2, <1>4 DEF OnceInv, TypeOK, client
<1>8. ProgressInv'
  <2>1. pc' = "finish" => ReadFails(opened)'
    <3> SUFFICES ASSUME pc = "finish" PROVE ReadFails(opened)'
      BY <1>2 DEF client
    <3>1. opened \in CallId /\ opened # c /\ ReadFails(opened)
      BY <1>5, CurrentCall DEF OnceInv, ProgressInv
    <3> QED
      BY <1>2, <1>4, <3>1 DEF ReadFails, Readable, OthersSame, client
  <2>2. ASSUME NEW d \in CallId
        PROVE  /\ calls'[d].taken <= Len(calls'[d].sent)
               /\ Len(calls'[d].sent) <= MaxResponses
    <3>1. CASE d = c
      BY <1>3, <1>4, <1>6, <3>1, GrpcAssumption
    <3>2. CASE d # c
      BY <1>4, <3>2 DEF OnceInv, ProgressInv, OthersSame
    <3> QED
      BY <3>1, <3>2
  <2>3. ASSUME NEW d \in CallId, d > opened
        PROVE  /\ calls'[d].state = "unused" /\ calls'[d].sent = << >>
               /\ returned[d] = "none"
    <3>1. d # c
      BY <1>3, <2>3, UnopenedCall
    <3> QED
      BY <1>4, <2>3, <3>1, UnopenedCall DEF OthersSame
  <2> QED
    BY <1>2, <1>4, <2>1, <2>2, <2>3
    DEF OnceInv, ProgressInv, StatusKept, client
<1>9. StoredInv'
  BY <1>2, <1>4 DEF OnceInv, TypeOK, StoredInv, client
<1>10. StoredInOrder'
  <2>1. \A d \in CallId : StoredOf(d)' = StoredOf(d)
    BY <1>2 DEF StoredOf, client
  <2>2. ASSUME NEW d \in CallId
        PROVE  {j \in 1 .. calls'[d].taken : calls'[d].sent[j] = "good"} =
                 {j \in 1 .. calls[d].taken : calls[d].sent[j] = "good"}
    <3>1. CASE d = c
      BY <1>4, <1>6, <3>1
    <3>2. CASE d # c
      BY <1>4, <3>2 DEF OthersSame
    <3> QED
      BY <3>1, <3>2
  <2> QED
    BY <1>2, <2>1, <2>2 DEF OnceInv, StoredInOrder, Earlier, client
<1>11. SuccessIsComplete'
  BY <1>2, <1>4, <1>5, SuccessKept DEF OthersSame, client
<1> QED
  BY <1>7, <1>8, <1>9, <1>10, <1>11 DEF OnceInv

(* The end of a call, whatever its status, keeps the invariant. *)
LEMMA EndStep ==
  ASSUME OnceInv, NEW c \in CallId, End(c)
  PROVE  OnceInv'
<1>1. PICK s \in Status : CallEnd(c, s)
  BY DEF End
<1>2. UNCHANGED client
  BY DEF End
<1>3. calls \in [CallId -> Call] /\ calls[c].state = "open"
  BY <1>1 DEF OnceInv, TypeOK, CallEnd
<1>4. /\ calls' \in [CallId -> Call] /\ OthersSame(c)
      /\ calls'[c].state = "ended"
      /\ DataKept /\ FinishKept
  BY <1>1, <1>3, EndEffect
<1>5. /\ c <= opened /\ returned[c] # "SUCCESS"
      /\ pc = "finish" => opened # c
  BY <1>3, OpenCall
<1>6. TypeOK'
  BY <1>2, <1>4 DEF OnceInv, TypeOK, client
<1>7. ProgressInv'
  <2>1. pc' = "finish" => ReadFails(opened)'
    <3> SUFFICES ASSUME pc = "finish" PROVE ReadFails(opened)'
      BY <1>2 DEF client
    <3>1. opened \in CallId /\ opened # c /\ ReadFails(opened)
      BY <1>5, CurrentCall DEF OnceInv, ProgressInv
    <3> QED
      BY <1>2, <1>4, <3>1 DEF ReadFails, Readable, OthersSame, client
  <2>2. ASSUME NEW d \in CallId, d > opened
        PROVE  /\ calls'[d].state = "unused" /\ calls'[d].sent = << >>
               /\ returned[d] = "none"
    <3>1. d # c
      BY <1>3, <2>2, UnopenedCall
    <3> QED
      BY <1>4, <2>2, <3>1, UnopenedCall DEF OthersSame
  <2>3. ASSUME NEW d \in CallId, returned[d] = "SUCCESS"
        PROVE  calls'[d].state = "ended"
    BY <1>4, <1>5, <2>3 DEF OnceInv, ProgressInv, OthersSame
  <2> QED
    BY <1>2, <1>4, <2>1, <2>2, <2>3
    DEF OnceInv, ProgressInv, DataKept, client
<1>8. opened \in Nat
  BY GrpcAssumption DEF OnceInv, TypeOK, CallId, NoCall
<1>9. StoredInv' /\ StoredInOrder'
  BY <1>2, <1>4, <1>8, StoredKept DEF client
<1>10. SuccessIsComplete'
  BY <1>2, <1>4, <1>5, SuccessKept DEF OthersSame, client
<1> QED
  BY <1>6, <1>7, <1>9, <1>10 DEF OnceInv

-----------------------------------------------------------------------------
(* Every step keeps the invariant. *)
LEMMA OnceStepInv == OnceInv /\ [Next]_vars => OnceInv'
<1> SUFFICES ASSUME OnceInv, [Next]_vars PROVE OnceInv'
  OBVIOUS
<1>1. CASE UNCHANGED vars
  <2>1. StoredInv' /\ StoredInOrder' /\ SuccessIsComplete'
    BY <1>1, NothingRead DEF vars
  <2> QED
    BY <1>1, <2>1 DEF OnceInv, TypeOK, ProgressInv, ReadFails, Readable, vars
<1>2. CASE Once
  BY <1>2, WriteStep, ReadStep, EndReadingStep, FinishStep DEF Once
<1> QED
  BY <1>1, <1>2, RefuseStep, OpenStep, RespondStep, EndStep DEF Next

(* The inductive invariant holds of every sequence of once subscriptions.  *)
THEOREM OnceInvariance == Spec => []OnceInv
<1> QED
  BY OnceInitInv, OnceStepInv, PTL DEF Spec

(* SUCCESS means that nothing went wrong and nothing is missing.           *)
THEOREM SuccessComplete == Spec => []SuccessIsComplete
<1>1. OnceInv => SuccessIsComplete
  BY DEF OnceInv
<1> QED
  BY <1>1, OnceInvariance, PTL

(* What is stored is the good responses read, each once, in order.         *)
THEOREM StoredComplete == Spec => []StoredInOrder
<1>1. OnceInv => StoredInOrder
  BY DEF OnceInv
<1> QED
  BY <1>1, OnceInvariance, PTL

-----------------------------------------------------------------------------
(* The programs only take steps of the function they call.                 *)
LEMMA ProgramStep ==
  ASSUME [OnceNext]_ovars
  PROVE  [Next]_vars
<1>1. ASSUME CallOnce PROVE Next
  <2>1. PICK credentials \in BOOLEAN, deadline \in BOOLEAN :
          RefuseOnce(credentials) \/ OpenOnce(credentials, deadline)
    BY <1>1 DEF CallOnce, Credentials, Deadlines
  <2> QED
    BY <2>1 DEF Next
<1>2. ASSUME MainStep, ~CallOnce PROVE UNCHANGED vars
  BY <1>2 DEF MainStep, Connect, PrintStats, CallFailed, Retried
<1>3. ASSUME Ended \/ UNCHANGED ovars PROVE UNCHANGED vars
  BY <1>3 DEF Ended, ovars
<1> QED
  BY <1>1, <1>2, <1>3 DEF OnceNext, Next

(* Each program makes a sequence of once subscriptions, so that what is    *)
(* proved of any such sequence holds for it. *)
THEOREM ProgramsUseOnce == OnceSpec => Spec
<1>1. OnceInit => Init
  BY DEF OnceInit
<1>2. [OnceNext]_ovars => [Next]_vars
  BY ProgramStep
<1> QED
  BY <1>1, <1>2, PTL DEF OnceSpec, Spec

(* An answer that was given stays what it is. *)
LEMMA AnswerStays ==
  ASSUME OnceInv, [Next]_vars, NEW c \in CallId, returned[c] = "SUCCESS"
  PROVE  returned'[c] = "SUCCESS" /\ calls'[c].sent = calls[c].sent
<1>1. calls \in [CallId -> Call] /\ calls[c].state = "ended"
  BY DEF OnceInv, TypeOK, ProgressInv
<1>2. pc # "idle" => opened \in CallId /\ opened # c
  BY CurrentCall
<1>3. returned \in [CallId -> Outcome]
  BY DEF OnceInv, TypeOK
<1>4. ASSUME NEW credentials \in BOOLEAN, RefuseOnce(credentials)
      PROVE  returned' = returned /\ calls' = calls
  BY <1>4 DEF RefuseOnce
<1>5. ASSUME NEW credentials \in BOOLEAN, NEW deadline \in BOOLEAN,
             OpenOnce(credentials, deadline)
      PROVE  returned' = returned /\ DataKept
  <2>1. opened' \in CallId /\ Subscribe(opened')
    BY <1>5, GrpcAssumption DEF OpenOnce, OnceInv, TypeOK, CallId, NoCall
  <2> QED
    BY <1>1, <1>5, <2>1, SubscribeEffect DEF OpenOnce
<1>6. CASE WriteOnce
  <2>1. PICK ok \in BOOLEAN : Write(opened, ok)
    BY <1>6 DEF WriteOnce, WriteOutcomes
  <2>2. DataKept /\ returned' = returned
    BY <1>1, <1>2, <1>6, <2>1, WriteEffect DEF WriteOnce
  <2> QED
    BY <2>2 DEF DataKept
<1>7. CASE ReadOnce
  <2>1. \A d \in CallId : calls'[d].sent = calls[d].sent
    BY <1>7, ReadsNext
  <2>2. returned' \in {returned, [returned EXCEPT ![opened] = "exception"]}
    BY <1>7 DEF ReadOnce
  <2> QED
    BY <1>2, <1>3, <1>7, <2>1, <2>2 DEF ReadOnce
<1>8. CASE EndReading
  BY <1>8 DEF EndReading
<1>9. CASE FinishOnce
  BY <1>1, <1>2, <1>3, <1>9, FinishEffect DEF FinishOnce, DataKept
<1>10. ASSUME NEW d \in CallId, Respond(d)
       PROVE  returned' = returned /\ calls'[c].sent = calls[c].sent
  <2>1. PICK k \in Kinds : ServerRespond(d, k)
    BY <1>10 DEF Respond
  <2>2. d # c
    BY <1>1, <2>1 DEF ServerRespond
  <2> QED
    BY <1>1, <1>10, <2>1, <2>2, RespondEffect DEF OthersSame, Respond, client
<1>11. ASSUME NEW d \in CallId, End(d)
       PROVE  returned' = returned /\ DataKept
  <2>1. PICK s \in Status : CallEnd(d, s)
    BY <1>11 DEF End
  <2> QED
    BY <1>1, <1>11, <2>1, EndEffect DEF End, client
<1>12. CASE UNCHANGED vars
  BY <1>12 DEF vars
<1> QED
  BY <1>4, <1>5, <1>6, <1>7, <1>8, <1>9, <1>10, <1>11, <1>12
  DEF Next, Once, DataKept

-----------------------------------------------------------------------------
(* The counters are the answer to the first call when it has succeeded.    *)
LEMMA FirstAnswer ==
  ASSUME OnceInv, opened = 1, returned[1] = "SUCCESS"
  PROVE  1 \in CallId /\ IsAnswer(stats, 1)
<1>1. 1 \in CallId
  BY DEF OnceInv, TypeOK, NoCall
<1>2. /\ StoredOf(1) = {k \in 1 .. Len(calls[1].sent) : calls[1].sent[k] = "good"}
      /\ Len(calls[1].sent) <= MaxResponses /\ Len(calls[1].sent) \in Nat
  BY <1>1, FieldTypes DEF OnceInv, TypeOK, SuccessIsComplete, ProgressInv
<1>3. ASSUME NEW n \in 1 .. Len(stats)
      PROVE  stats[n] = <<1, stats[n][2]>> /\ stats[n][2] \in StoredOf(1)
  <2>1. stats[n] \in CallId \X Nat /\ stats[n][1] <= 1
    BY DEF OnceInv, TypeOK, StoredInv
  <2>2. stats[n] = <<1, stats[n][2]>>
    BY <2>1, GrpcAssumption DEF CallId
  <2>3. stats[n][2] \in 1 .. calls[1].taken /\ calls[1].taken = Len(calls[1].sent)
    BY <1>1, <2>2 DEF OnceInv, StoredInv, SuccessIsComplete
  <2> QED
    BY <1>2, <2>2, <2>3, GrpcAssumption DEF StoredOf
<1>4. ASSUME NEW k \in StoredOf(1)
      PROVE  \E n \in 1 .. Len(stats) : stats[n] = <<1, k>>
  BY DEF StoredOf
<1>5. {stats[n] : n \in 1 .. Len(stats)} = {<<1, k>> : k \in StoredOf(1)}
  <2>1. ASSUME NEW n \in 1 .. Len(stats)
        PROVE  stats[n] \in {<<1, k>> : k \in StoredOf(1)}
    BY <1>3
  <2>2. ASSUME NEW k \in StoredOf(1)
        PROVE  <<1, k>> \in {stats[n] : n \in 1 .. Len(stats)}
    BY <1>4
  <2> QED
    BY <2>1, <2>2
<1> QED
  BY <1>1, <1>2, <1>5 DEF IsAnswer, OnceInv, StoredInOrder

(* main keeps its place and its types. *)
LEMMA PlaceStep ==
  ASSUME OnceInv, OnceTypeOK, PlaceInv, [OnceNext]_ovars
  PROVE  PlaceInv' /\ OnceTypeOK'
<1> USE DEF PlaceInv, Library, NoCall
<1>1. TypeOK'
  BY OnceStepInv, ProgramStep DEF OnceInv
<1>2. \A c \in CallId : (Respond(c) \/ End(c)) => UNCHANGED <<interface, pc, opened, refused>>
  BY DEF Respond, End, client
<1>3. ASSUME program = "other", Next, UNCHANGED main
      PROVE  PlaceInv' /\ OnceTypeOK'
  <2>1. at = "connect"
    BY <1>3
  <2> QED
    BY <1>1, <1>3, <2>1 DEF main, OnceTypeOK
<1>4. ASSUME Library, Once, UNCHANGED main
      PROVE  PlaceInv' /\ OnceTypeOK'
  <2>1. pc # "idle" /\ UNCHANGED <<interface, opened, refused>>
    BY <1>4 DEF Once, WriteOnce, ReadOnce, EndReading, FinishOnce
  <2> QED
    BY <1>1, <1>4, <2>1 DEF main, OnceTypeOK
<1>5. ASSUME NEW c \in CallId, Respond(c) \/ End(c), UNCHANGED main
      PROVE  PlaceInv' /\ OnceTypeOK'
  BY <1>1, <1>2, <1>5 DEF main, OnceTypeOK
<1>6. CASE Connect
  BY <1>1, <1>6 DEF Connect, vars, OnceTypeOK
<1>7. CASE CallOnce
  <2>1. PICK credentials \in Credentials(program), deadline \in Deadlines(program) :
          RefuseOnce(credentials) \/ OpenOnce(credentials, deadline)
    BY <1>7 DEF CallOnce
  <2>2. program = "tutorial" => credentials
    BY <2>1 DEF Credentials
  <2>3. CASE RefuseOnce(credentials)
    BY <1>1, <1>7, <2>2, <2>3 DEF CallOnce, RefuseOnce, OnceTypeOK
  <2>4. CASE OpenOnce(credentials, deadline)
    BY <1>1, <1>7, <2>4 DEF CallOnce, OpenOnce, OnceTypeOK
  <2> QED
    BY <2>1, <2>3, <2>4
<1>8. CASE PrintStats
  <2>1. opened \in CallId /\ stats \in Seq(CallId \X Nat)
    BY <1>8 DEF PrintStats, Success, OnceInv, TypeOK
  <2>2. printed' \in Seq(CallId \X Seq(CallId \X Nat))
    BY <1>8, <2>1 DEF PrintStats, PrintList, OnceTypeOK
  <2> QED
    BY <1>1, <1>8, <2>2 DEF PrintStats, vars, OnceTypeOK
<1>9. CASE CallFailed
  BY <1>1, <1>9 DEF CallFailed, Answered, vars, OnceTypeOK
<1>10. CASE Retried
  <2>1. opened \in CallId
    BY <1>10 DEF Retried, OnceInv, TypeOK
  <2>2. << >> \in Seq(CallId \X Nat)
    OBVIOUS
  <2>3. CASE Success
    <3>1. printed' = Append(printed, <<opened, << >> >>)
      BY <1>10, <2>3 DEF Retried, PrintList, RetryOnce
    <3>2. <<opened, << >> >> \in CallId \X Seq(CallId \X Nat)
      BY <2>1, <2>2
    <3>3. printed' \in Seq(CallId \X Seq(CallId \X Nat))
      BY <3>1, <3>2, AppendProperties DEF OnceTypeOK
    <3> QED
      BY <1>1, <1>10, <3>3 DEF Retried, vars, OnceTypeOK
  <2>4. CASE ~Success
    BY <1>1, <1>10, <2>4 DEF Retried, vars, OnceTypeOK
  <2> QED
    BY <2>3, <2>4
<1>11. CASE Ended \/ UNCHANGED ovars
  BY <1>1, <1>11 DEF Ended, ovars, main, vars, OnceTypeOK
<1> QED
  BY <1>3, <1>4, <1>5, <1>6, <1>7, <1>8, <1>9, <1>10, <1>11
  DEF OnceNext, MainStep

(* A printed pair <<call, list>> that PrintedComplete allows. *)
Fits(p) ==
  /\ returned[p[1]] = "SUCCESS"
  /\ IsAnswer(p[2], p[1]) \/ (p[1] > 1 /\ p[2] = << >>)

(* PrintedComplete is that each list printed fits its call. *)
LEMMA PrintedFits ==
  PrintedComplete <=> \A n \in 1 .. Len(printed) : \E p : p = printed[n] /\ Fits(p)
BY DEF PrintedComplete, Fits

(* A list that fits its call fits it after any step. *)
LEMMA FitsStill ==
  ASSUME OnceInv, [Next]_vars, NEW p \in CallId \X Seq(CallId \X Nat), Fits(p)
  PROVE  Fits(p)'
<1>1. p[1] \in CallId /\ returned[p[1]] = "SUCCESS"
  BY DEF Fits
<1>2. returned'[p[1]] = "SUCCESS" /\ calls'[p[1]].sent = calls[p[1]].sent
  BY <1>1, AnswerStays
<1>3. IsAnswer(p[2], p[1]) => IsAnswer(p[2], p[1])'
  BY <1>2 DEF IsAnswer, Earlier
<1> QED
  BY <1>2, <1>3 DEF Fits

(* A step keeps what was printed, or prints a list that fits. *)
LEMMA PrintsOnly ==
  ASSUME OnceInv, OnceTypeOK, PlaceInv, [OnceNext]_ovars
  PROVE  \/ printed' = printed
         \/ \E p \in CallId \X Seq(CallId \X Nat) :
              printed' = Append(printed, p) /\ Fits(p) /\ UNCHANGED vars
<1>1. CASE PrintStats
  <2>1. ~refused /\ returned[opened] = "SUCCESS" /\ UNCHANGED vars
        /\ opened = 1 /\ printed' = Append(printed, <<opened, stats>>)
    BY <1>1 DEF PrintStats, PrintList, Success, PlaceInv
  <2>2. stats \in Seq(CallId \X Nat)
    BY DEF OnceInv, TypeOK
  <2> DEFINE p == <<opened, stats>>
  <2>3. p \in CallId \X Seq(CallId \X Nat) /\ Fits(p)
    BY <2>1, <2>2, FirstAnswer DEF Fits
  <2> QED
    BY <2>1, <2>3
<1>2. CASE Retried /\ Success
  <2>1. /\ returned[opened] = "SUCCESS" /\ UNCHANGED vars
        /\ opened = 2 /\ printed' = Append(printed, <<opened, << >> >>)
    BY <1>2 DEF Retried, PrintList, RetryOnce, Success, PlaceInv
  <2>2. opened \in CallId
    BY <2>1 DEF OnceInv, TypeOK, NoCall
  <2>3. << >> \in Seq(CallId \X Nat)
    OBVIOUS
  <2> DEFINE p == <<opened, << >> >>
  <2>4. p[1] = opened /\ p[2] = << >> /\ p \in CallId \X Seq(CallId \X Nat)
    BY <2>2, <2>3
  <2> HIDE DEF p
  <2>5. Fits(p)
    BY <2>1, <2>4 DEF Fits
  <2> QED
    BY <2>1, <2>4, <2>5 DEF p
<1>3. CASE Retried /\ ~Success
  BY <1>3 DEF Retried
<1> QED
  BY <1>1, <1>2, <1>3
  DEF OnceNext, MainStep, Connect, CallOnce, CallFailed, Ended, main, ovars

(* Only complete answers are printed. *)
LEMMA PrintedStep ==
  ASSUME PrintedInv, [OnceNext]_ovars
  PROVE  PrintedComplete'
<1> DEFINE Pairs == CallId \X Seq(CallId \X Nat)
<1>1. /\ OnceInv /\ OnceTypeOK /\ PlaceInv /\ printed \in Seq(Pairs)
      /\ \A n \in 1 .. Len(printed) : Fits(printed[n])
  BY PrintedFits DEF PrintedInv, OnceTypeOK
<1> HIDE DEF Pairs
<1>2. ASSUME NEW n \in 1 .. Len(printed')
      PROVE  printed'[n] \in Pairs /\ Fits(printed'[n])
  <2>1. CASE printed' = printed
    BY <1>1, <2>1
  <2>2. ASSUME NEW p \in Pairs, printed' = Append(printed, p), Fits(p)
        PROVE  printed'[n] \in Pairs /\ Fits(printed'[n])
    <3>1. CASE n \in 1 .. Len(printed)
      BY <1>1, <2>2, <3>1, AppendProperties
    <3>2. CASE n = Len(printed) + 1
      BY <1>1, <2>2, <3>2, AppendProperties
    <3> QED
      BY <1>1, <2>2, <3>1, <3>2, AppendProperties
  <2> QED
    BY <1>1, <2>1, <2>2, PrintsOnly DEF Pairs
<1>3. ASSUME NEW p \in Pairs, Fits(p)
      PROVE  Fits(p)'
    BY <1>1, <1>3, FitsStill, ProgramStep DEF Pairs
<1>4. \A n \in 1 .. Len(printed') : \E p : p = printed'[n] /\ Fits(p)'
  BY <1>2, <1>3
<1>5. (PrintedComplete <=>
         \A n \in 1 .. Len(printed) : \E p : p = printed[n] /\ Fits(p))'
  BY PrintedFits, PTL
<1> QED
  BY <1>4, <1>5

(* The invariant of the programs holds at first. *)
LEMMA PrintedInit == OnceInit => PrintedInv
<1> SUFFICES ASSUME OnceInit PROVE PrintedInv
  OBVIOUS
<1>1. OnceInv /\ TypeOK
  BY OnceInitInv DEF OnceInit, OnceInv
<1>2. << >> \in Seq(CallId \X Seq(CallId \X Nat))
  OBVIOUS
<1> QED
  BY <1>1, <1>2
  DEF PrintedInv, OnceInit, Init, OnceTypeOK, PlaceInv, PrintedComplete,
      Library, NoCall

(* A step of a program keeps its invariant. *)
LEMMA PrintedInvStep == PrintedInv /\ [OnceNext]_ovars => PrintedInv'
<1> SUFFICES ASSUME PrintedInv, [OnceNext]_ovars PROVE PrintedInv'
  OBVIOUS
<1>1. OnceInv'
  BY OnceStepInv, ProgramStep DEF PrintedInv
<1>2. PlaceInv' /\ OnceTypeOK'
  BY PlaceStep DEF PrintedInv
<1> QED
  BY <1>1, <1>2, PrintedStep DEF PrintedInv

(* The inductive invariant holds of every program. *)
THEOREM PrintedInvariance == OnceSpec => []PrintedInv
<1> QED
  BY PrintedInit, PrintedInvStep, PTL DEF OnceSpec

(* The programs and the function they call keep their types. *)
THEOREM OnceTypeCorrect == OnceSpec => []OnceTypeOK
<1>1. PrintedInv => OnceTypeOK
  BY DEF PrintedInv
<1> QED
  BY <1>1, PrintedInvariance, PTL

(* What main prints is the complete answer of a call that succeeded, or,   *)
(* after a retry, nothing. *)
THEOREM OnlyAnswersPrinted == OnceSpec => []PrintedComplete
<1>1. PrintedInv => PrintedComplete
  BY DEF PrintedInv
<1> QED
  BY <1>1, PrintedInvariance, PTL

=============================================================================
