-------------------------- MODULE WmiProviderProofs --------------------------
(***************************************************************************)
(* Proofs about the WMI provider, for any number of requests and any       *)
(* values of TheAnswer.                                                    *)
(***************************************************************************)
EXTENDS WmiProvider, TLAPS

\* How the end of request i follows its way: nobody ends it before WMILIB has
\* disposed of it, then a callback has or nobody has, and SystemControl ends
\* what is left.
EndInv(i) ==
  /\ pc[i] \in {"idle", "callback"} => status[i] = "none"
  /\ pc[i] \in {"idle", "callback", "answered"} =>
       completed[i] = 0 /\ forwarded[i] = 0
  /\ pc[i] = "disposed" =>
       /\ forwarded[i] = 0
       /\ completed[i] = IF disposition[i] = "IrpProcessed" THEN 1 ELSE 0
  /\ pc[i] = "done" => completed[i] + forwarded[i] = 1

\* Who was before another was completed, and the other has come.
BeforeInv == \A k, i \in Irp :
  <<k, i>> \in before => completed[k] = 1 /\ pc[i] # "idle"

\* TheAnswer is the value of the registration, or of a set that was completed
\* before no other set came.
AnswerInv ==
  \/ TheAnswer = 0 /\ SetDone = {}
  \/ \E s \in SetDone :
       buffer[s] = TheAnswer /\ \A t \in SetDone : <<s, t>> \notin before

\* The set, or the registration, whose value query q has answered.
Explained(q) ==
  \/ buffer[q] = 0 /\ \A t \in SetDone : <<t, q>> \notin before
  \/ \E s \in SetDone :
       /\ buffer[s] = buffer[q]
       /\ <<q, s>> \notin before
       /\ \A t \in SetDone : <<s, t>> \in before => <<t, q>> \notin before

QueryInv == \A q \in Irp :
  kind[q] = "QueryDataBlock" /\ status[q] = "SUCCESS" => Explained(q)

ProviderInv ==
  /\ TypeOK
  /\ \A i \in Irp : EndInv(i)
  /\ BeforeInv
  /\ AnswerInv
  /\ QueryInv

LEMMA InitProviderInv == Init => ProviderInv
<1> SUFFICES ASSUME Init PROVE ProviderInv
  OBVIOUS
<1>1. TypeOK
  BY ValueAssumption, RequestsAssumption DEF Init, TypeOK, BufferSize
<1>2. \A i \in Irp : EndInv(i)
  BY DEF Init, EndInv
<1>3. SetDone = {} /\ \A i \in Irp : status[i] # "SUCCESS"
  BY DEF Init, SetDone
<1> QED
  BY <1>1, <1>2, <1>3 DEF Init, ProviderInv, BeforeInv, AnswerInv, QueryInv

\* Who has a status has gone through its callback or past it.
LEMMA StatusKnown ==
  ASSUME ProviderInv, NEW i \in Irp, status[i] # "none"
  PROVE  pc[i] \notin {"idle", "callback"}
BY DEF ProviderInv, EndInv

LEMMA WmiSystemControlStep ==
  ASSUME ProviderInv, NEW i \in Irp, WmiSystemControl(i)
  PROVE  ProviderInv'
<1>1. /\ pc[i] = "idle" /\ UNCHANGED <<kind, TheAnswer, completed, forwarded>>
      /\ before' = before \cup {<<k, i>> : k \in {j \in Irp : completed[j] = 1}}
  BY DEF WmiSystemControl
<1>2. PICK label \in {"callback", "disposed"}, s \in BufferSize, v \in Value,
           d \in {"IrpForward", "IrpNotWmi", "IrpNotCompleted"},
           t \in {"none", "SUCCESS", "GUID_NOT_FOUND"} :
        /\ pc' = [pc EXCEPT ![i] = label]
        /\ bufSize' = [bufSize EXCEPT ![i] = s]
        /\ buffer' = [buffer EXCEPT ![i] = v]
        /\ label = "callback" => UNCHANGED <<disposition, status>>
        /\ label = "disposed" =>
             /\ disposition' = [disposition EXCEPT ![i] = d]
             /\ status' = [status EXCEPT ![i] = t]
             /\ kind[i] \notin Callback
  <2>1. CASE kind[i] \in Callback
    BY <2>1 DEF WmiSystemControl, GoTo
  <2>2. CASE kind[i] \notin Callback
    <3> DEFINE d == CASE kind[i] = "otherDevice" -> "IrpForward"
                      [] kind[i] = "notWmi" -> "IrpNotWmi"
                      [] OTHER -> "IrpNotCompleted"
               t == CASE kind[i] \in {"reginfo", "enable"} -> "SUCCESS"
                      [] kind[i] = "unknown" -> "GUID_NOT_FOUND"
                      [] OTHER -> "none"
    <3>1. /\ pc' = [pc EXCEPT ![i] = "disposed"]
          /\ disposition' = [disposition EXCEPT ![i] = d]
          /\ status' = [status EXCEPT ![i] = t]
          /\ UNCHANGED <<bufSize, buffer>>
      BY <2>2 DEF WmiSystemControl, GoTo
    <3>2. d \in {"IrpForward", "IrpNotWmi", "IrpNotCompleted"}
      OBVIOUS
    <3>3. t \in {"none", "SUCCESS", "GUID_NOT_FOUND"}
      OBVIOUS
    <3>4. /\ bufSize' = [bufSize EXCEPT ![i] = bufSize[i]] /\ bufSize[i] \in BufferSize
          /\ buffer' = [buffer EXCEPT ![i] = buffer[i]] /\ buffer[i] \in Value
      BY <3>1 DEF ProviderInv, TypeOK
    <3> HIDE DEF d, t
    <3> QED
      BY <2>2, <3>1, <3>2, <3>3, <3>4
  <2> QED
    BY <2>1, <2>2
<1>3. TypeOK'
  BY <1>1, <1>2 DEF ProviderInv, TypeOK
<1>4. ASSUME NEW k \in Irp PROVE EndInv(k)'
  <2>1. CASE k = i
    BY <1>1, <1>2, <2>1 DEF ProviderInv, TypeOK, EndInv
  <2>2. CASE k # i
    <3>1. /\ EndInv(k) /\ pc'[k] = pc[k]
          /\ status'[k] = status[k] /\ disposition'[k] = disposition[k]
      BY <1>2, <2>2 DEF ProviderInv, TypeOK
    <3> QED
      BY <1>1, <3>1 DEF EndInv
  <2> QED
    BY <2>1, <2>2
<1>5. BeforeInv'
  <2>1. \A k \in Irp : pc[k] # "idle" \/ k = i => pc'[k] # "idle"
    BY <1>2 DEF ProviderInv, TypeOK
  <2> QED
    BY <1>1, <2>1 DEF ProviderInv, BeforeInv
\* The request that comes is no set and no query that is done.
<1>6. status[i] = "none"
  BY <1>1 DEF ProviderInv, EndInv
<1>7. SetDone' = SetDone /\ i \notin SetDone
  <2>1. \A k \in Irp : k # i => status'[k] = status[k]
    BY <1>2 DEF ProviderInv, TypeOK
  <2>2. kind[i] \in {"SetDataBlock", "SetDataItem"} => status'[i] = "none"
    BY <1>2, <1>6 DEF Callback
  <2> QED
    BY <1>1, <1>6, <2>1, <2>2 DEF SetDone
<1>8. \A k, j \in Irp : j # i => (<<k, j>> \in before' <=> <<k, j>> \in before)
  BY <1>1
<1>9. \A k \in Irp : k # i => buffer'[k] = buffer[k]
  BY <1>2 DEF ProviderInv, TypeOK
<1>10. SetDone \subseteq Irp
  BY DEF SetDone
<1>11. AnswerInv'
  BY <1>1, <1>7, <1>8, <1>9, <1>10 DEF ProviderInv, AnswerInv
<1>12. ASSUME NEW q \in Irp, kind'[q] = "QueryDataBlock", status'[q] = "SUCCESS"
       PROVE  Explained(q)'
  <2>1. q # i
    BY <1>1, <1>2, <1>6, <1>12 DEF Callback
  <2>2. Explained(q)
    BY <1>1, <1>2, <1>12, <2>1 DEF ProviderInv, TypeOK, QueryInv
  <2> QED
    BY <1>7, <1>8, <1>9, <1>10, <2>1, <2>2 DEF Explained
<1> QED
  BY <1>3, <1>4, <1>5, <1>11, <1>12 DEF ProviderInv, QueryInv

\* A callback that is done changes nothing but its own request and TheAnswer.
LEMMA AnswerStep ==
  ASSUME ProviderInv, NEW i \in Irp, pc[i] = "callback", NEW s,
         s \in {"SUCCESS", "BUFFER_TOO_SMALL", "INFO_LENGTH_MISMATCH"},
         Answer(i, s), NEW v \in Value, buffer' = [buffer EXCEPT ![i] = v],
         TheAnswer' \in Value
  PROVE  /\ TypeOK'
         /\ \A k \in Irp : EndInv(k)'
         /\ BeforeInv'
         /\ UNCHANGED <<kind, before>>
         /\ status' = [status EXCEPT ![i] = s]
         /\ \A k \in Irp : <<i, k>> \notin before
<1>1. /\ pc' = [pc EXCEPT ![i] = "answered"]
      /\ status' = [status EXCEPT ![i] = s]
      /\ UNCHANGED <<kind, bufSize, disposition, completed, forwarded, before>>
  BY DEF Answer, GoTo, input
<1>2. TypeOK'
  BY <1>1 DEF ProviderInv, TypeOK
<1>3. ASSUME NEW k \in Irp PROVE EndInv(k)'
  BY <1>1 DEF ProviderInv, TypeOK, EndInv
<1>4. BeforeInv'
  BY <1>1 DEF ProviderInv, TypeOK, BeforeInv
<1>5. ASSUME NEW k \in Irp PROVE <<i, k>> \notin before
  BY DEF ProviderInv, EndInv, BeforeInv
<1> QED
  BY <1>1, <1>2, <1>3, <1>4, <1>5

LEMMA CallbacksStep ==
  ASSUME ProviderInv, NEW i \in Irp, Callbacks(i)
  PROVE  ProviderInv'
<1>1. pc[i] = "callback" /\ status[i] = "none" /\ i \notin SetDone
  BY DEF Callbacks, ProviderInv, EndInv, SetDone
<1>2. TheAnswer \in Value /\ buffer \in [Irp -> Value] /\ SetDone \subseteq Irp
  BY DEF ProviderInv, TypeOK, SetDone
\* No set is done: TheAnswer stays, and a query takes its value.
<1>3. ASSUME NEW s \in {"SUCCESS", "BUFFER_TOO_SMALL", "INFO_LENGTH_MISMATCH"},
             NEW v \in Value, Answer(i, s), buffer' = [buffer EXCEPT ![i] = v],
             TheAnswer' = TheAnswer,
             kind[i] \in {"SetDataBlock", "SetDataItem"} => s # "SUCCESS",
             kind[i] = "QueryDataBlock" /\ s = "SUCCESS" => v = TheAnswer
      PROVE  ProviderInv'
  <2>1. /\ TypeOK' /\ BeforeInv' /\ \A k \in Irp : EndInv(k)'
        /\ UNCHANGED <<kind, before>> /\ status' = [status EXCEPT ![i] = s]
        /\ \A k \in Irp : <<i, k>> \notin before
    BY <1>1, <1>2, <1>3, AnswerStep
  <2>2. \A k \in Irp : status'[k] = IF k = i THEN s ELSE status[k]
    BY <2>1 DEF ProviderInv, TypeOK
  <2>3. SetDone' = SetDone
    BY <1>1, <1>3, <2>1, <2>2 DEF SetDone
  <2>4. \A k \in Irp : buffer'[k] = IF k = i THEN v ELSE buffer[k]
    BY <1>2, <1>3
  <2>5. AnswerInv'
    BY <1>1, <1>2, <1>3, <2>1, <2>3, <2>4 DEF ProviderInv, AnswerInv
  <2>6. ASSUME NEW q \in Irp, kind'[q] = "QueryDataBlock", status'[q] = "SUCCESS"
        PROVE  Explained(q)'
    <3>1. CASE q # i
      <4>1. Explained(q)
        BY <2>1, <2>2, <2>6, <3>1 DEF ProviderInv, QueryInv
      <4> QED
        BY <1>1, <1>2, <2>1, <2>3, <2>4, <3>1, <4>1 DEF Explained
    <3>2. CASE q = i
      <4>1. buffer'[i] = TheAnswer
        BY <1>3, <2>1, <2>2, <2>4, <2>6, <3>2
      <4>2. CASE TheAnswer = 0 /\ SetDone = {}
        BY <2>3, <3>2, <4>1, <4>2 DEF Explained
      <4>3. ASSUME NEW t \in SetDone, buffer[t] = TheAnswer,
                   \A u \in SetDone : <<t, u>> \notin before
            PROVE  Explained(q)'
        BY <1>1, <1>2, <2>1, <2>3, <2>4, <3>2, <4>1, <4>3 DEF Explained
      <4> QED
        BY <4>2, <4>3 DEF ProviderInv, AnswerInv
    <3> QED
      BY <3>1, <3>2
  <2> QED
    BY <2>1, <2>5, <2>6 DEF ProviderInv, QueryInv
\* A set is done: TheAnswer is its value, and it was before nobody.
<1>4. CASE /\ kind[i] \in {"SetDataBlock", "SetDataItem"} /\ TheAnswer' = buffer[i]
           /\ Answer(i, "SUCCESS") /\ UNCHANGED buffer
  <2>1. buffer' = [buffer EXCEPT ![i] = buffer[i]] /\ buffer[i] \in Value
        /\ TheAnswer' \in Value
    BY <1>2, <1>4
  <2>2. /\ TypeOK' /\ BeforeInv' /\ \A k \in Irp : EndInv(k)'
        /\ UNCHANGED <<kind, before>> /\ status' = [status EXCEPT ![i] = "SUCCESS"]
        /\ \A k \in Irp : <<i, k>> \notin before
    BY <1>1, <1>4, <2>1, AnswerStep
  <2>3. \A k \in Irp : status'[k] = IF k = i THEN "SUCCESS" ELSE status[k]
    BY <2>2 DEF ProviderInv, TypeOK
  <2>4. SetDone' = SetDone \cup {i}
    BY <1>4, <2>2, <2>3 DEF SetDone
  <2>5. AnswerInv'
    BY <1>2, <1>4, <2>2, <2>4 DEF AnswerInv
  <2>6. ASSUME NEW q \in Irp, kind'[q] = "QueryDataBlock", status'[q] = "SUCCESS"
        PROVE  Explained(q)'
    <3>1. Explained(q)
      BY <1>4, <2>2, <2>3, <2>6 DEF ProviderInv, QueryInv
    <3> QED
      BY <1>2, <1>4, <2>2, <2>4, <3>1 DEF Explained
  <2> QED
    BY <2>2, <2>5, <2>6 DEF ProviderInv, QueryInv
<1>5. CASE QueryDataBlock(i)
  <2>1. CASE Answer(i, "BUFFER_TOO_SMALL") /\ UNCHANGED buffer
    <3>1. buffer' = [buffer EXCEPT ![i] = buffer[i]] /\ buffer[i] \in Value
      BY <1>2, <2>1
    <3> QED
      BY <1>3, <1>5, <2>1, <3>1 DEF QueryDataBlock
  <2>2. CASE buffer' = [buffer EXCEPT ![i] = TheAnswer] /\ Answer(i, "SUCCESS")
    BY <1>2, <1>3, <1>5, <2>2 DEF QueryDataBlock
  <2> QED
    BY <1>5, <2>1, <2>2 DEF QueryDataBlock
<1>6. CASE kind[i] \in {"SetDataBlock", "SetDataItem"} /\ SetData(i)
  <2>1. CASE Answer(i, "INFO_LENGTH_MISMATCH") /\ UNCHANGED <<TheAnswer, buffer>>
    <3>1. buffer' = [buffer EXCEPT ![i] = buffer[i]] /\ buffer[i] \in Value
      BY <1>2, <2>1
    <3> QED
      BY <1>3, <1>6, <2>1, <3>1
  <2> QED
    BY <1>4, <1>6, <2>1 DEF SetData
<1>7. CASE ExecuteMehtod(i)
  <2>1. PICK v \in Value : buffer' = [buffer EXCEPT ![i] = v]
    BY <1>2, <1>7, ValueAssumption DEF ExecuteMehtod
  <2>2. kind[i] = "ExecuteMehtod" /\ Answer(i, "SUCCESS") /\ TheAnswer' = TheAnswer
    BY <1>7 DEF ExecuteMehtod
  <2> QED
    BY <1>3, <2>1, <2>2
<1> QED
  BY <1>5, <1>6, <1>7 DEF Callbacks, SetDataBlock, SetDataItem

\* The end of a request leaves what was asked and answered alone.
LEMMA AnswersKept ==
  ASSUME ProviderInv,
         UNCHANGED <<kind, bufSize, buffer, status, TheAnswer, before>>
  PROVE  AnswerInv' /\ QueryInv'
BY DEF ProviderInv, AnswerInv, QueryInv, Explained, SetDone

LEMMA WmiCompleteRequestStep ==
  ASSUME ProviderInv, NEW i \in Irp, WmiCompleteRequest(i)
  PROVE  ProviderInv'
<1>1. /\ pc[i] = "answered" /\ pc' = [pc EXCEPT ![i] = "disposed"]
      /\ completed' = [completed EXCEPT ![i] = @ + 1]
      /\ disposition' = [disposition EXCEPT ![i] = "IrpProcessed"]
      /\ UNCHANGED <<kind, bufSize, buffer, status, TheAnswer, forwarded, before>>
  BY DEF WmiCompleteRequest, GoTo, input
<1>2. TypeOK'
  BY <1>1 DEF ProviderInv, TypeOK
<1>3. ASSUME NEW k \in Irp PROVE EndInv(k)'
  <2>1. CASE k = i
    BY <1>1, <2>1 DEF ProviderInv, TypeOK, EndInv
  <2>2. CASE k # i
    BY <1>1, <2>2 DEF ProviderInv, TypeOK, EndInv
  <2> QED
    BY <2>1, <2>2
<1>4. BeforeInv'
  <2>1. completed[i] = 0
    BY <1>1 DEF ProviderInv, EndInv
  <2> QED
    BY <1>1, <2>1 DEF ProviderInv, TypeOK, BeforeInv
<1> QED
  BY <1>1, <1>2, <1>3, <1>4, AnswersKept DEF ProviderInv

LEMMA SystemControlStep ==
  ASSUME ProviderInv, NEW i \in Irp, SystemControl(i)
  PROVE  ProviderInv'
<1>1. /\ pc[i] = "disposed" /\ pc' = [pc EXCEPT ![i] = "done"]
      /\ UNCHANGED <<kind, bufSize, buffer, disposition, status, TheAnswer, before>>
  BY DEF SystemControl, GoTo, input
<1>2. \A k \in Irp : completed'[k] =
        IF k = i /\ disposition[i] = "IrpNotCompleted" THEN completed[k] + 1
                                                       ELSE completed[k]
  BY DEF SystemControl, ProviderInv, TypeOK
<1>3. \A k \in Irp : forwarded'[k] =
        IF k = i /\ disposition[i] \in {"IrpForward", "IrpNotWmi"} THEN forwarded[k] + 1
                                                                  ELSE forwarded[k]
  BY DEF SystemControl, ProviderInv, TypeOK
<1>4. TypeOK'
  BY <1>1 DEF SystemControl, ProviderInv, TypeOK
<1>5. ASSUME NEW k \in Irp PROVE EndInv(k)'
  <2>1. CASE k = i
    BY <1>1, <1>2, <1>3, <2>1 DEF ProviderInv, TypeOK, EndInv
  <2>2. CASE k # i
    BY <1>1, <1>2, <1>3, <2>2 DEF ProviderInv, TypeOK, EndInv
  <2> QED
    BY <2>1, <2>2
<1>6. BeforeInv'
  <2>1. disposition[i] = "IrpNotCompleted" => completed[i] = 0
    BY <1>1 DEF ProviderInv, EndInv
  <2> QED
    BY <1>1, <1>2, <2>1 DEF ProviderInv, TypeOK, BeforeInv
<1> QED
  BY <1>1, <1>4, <1>5, <1>6, AnswersKept DEF ProviderInv

LEMMA Invariance == Spec => []ProviderInv
<1>1. ProviderInv /\ UNCHANGED vars => ProviderInv'
  <2> SUFFICES ASSUME ProviderInv, UNCHANGED vars PROVE ProviderInv'
    OBVIOUS
  <2>1. AnswerInv' /\ QueryInv'
    BY AnswersKept DEF vars, input
  <2>2. TypeOK'
    BY DEF vars, input, ProviderInv, TypeOK
  <2>3. \A i \in Irp : EndInv(i)'
    BY DEF vars, input, ProviderInv, EndInv
  <2>4. BeforeInv'
    BY DEF vars, input, ProviderInv, BeforeInv
  <2> QED
    BY <2>1, <2>2, <2>3, <2>4 DEF ProviderInv
<1>2. ProviderInv /\ [Next]_vars => ProviderInv'
  BY <1>1, WmiSystemControlStep, CallbacksStep, WmiCompleteRequestStep,
     SystemControlStep DEF Next, Continue
<1> QED
  BY InitProviderInv, <1>2, PTL DEF Spec

\* Type correctness of the provider for any requests and values
\* (WmiSupport.cpp:60-258).
THEOREM TypeCorrect == Spec => []TypeOK
<1>1. ProviderInv => TypeOK
  BY DEF ProviderInv
<1> QED
  BY <1>1, Invariance, PTL

\* No request is completed twice, nor completed and sent below
\* (WmiSystemIoCode.cpp:90-110).
THEOREM EndsOnce == Spec => []OneEnd
<1>1. ProviderInv => OneEnd
  <2> SUFFICES ASSUME ProviderInv, NEW i \in Irp PROVE completed[i] + forwarded[i] <= 1
    BY DEF OneEnd
  <2>1. pc[i] \in {"idle", "callback", "answered", "disposed", "done"} /\ EndInv(i)
    BY DEF ProviderInv, TypeOK
  <2> QED
    BY <2>1 DEF EndInv
<1> QED
  BY <1>1, Invariance, PTL

\* A query answers what the last set before it or one at the same time brought
\* (WmiSupport.cpp:148, 176, 202), however many sets, queries and methods
\* overlap, and however many processors run them.
THEOREM QueriesSeeRegularValues == Spec => []QueriesAreRegular
<1>1. ProviderInv => QueriesAreRegular
  BY DEF ProviderInv, QueryInv, Explained, QueriesAreRegular
<1> QED
  BY <1>1, Invariance, PTL

\* The safety half of AllEnd: what SystemControl returns from has ended.
NoneForgotten == \A i \in Irp : pc[i] = "done" => completed[i] + forwarded[i] = 1

\* No way through the switch of SystemControl (WmiSystemIoCode.cpp:90-110)
\* leaves a request behind, whatever WMILIB and the callbacks did with it.
THEOREM NoRequestForgotten == Spec => []NoneForgotten
<1>1. ProviderInv => NoneForgotten
  BY DEF ProviderInv, TypeOK, EndInv, NoneForgotten
<1> QED
  BY <1>1, Invariance, PTL
=============================================================================
