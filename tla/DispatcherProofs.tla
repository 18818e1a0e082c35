-------------------------- MODULE DispatcherProofs --------------------------
(***************************************************************************)
(* Proofs about Dispatcher, for every set of callers and signals, every    *)
(* pipeline and number of outputs and every queue and batch size.          *)
(***************************************************************************)
EXTENDS Dispatcher, SequenceTheorems, TLAPS

\* How full the batch may be at each point of the loop.
BatchInv ==
  /\ pc \in {"idle", "select", "drain"} => Len(batch) < BatchSize
  /\ pc = "write" => batch # <<>>
  /\ pc = "exited" => batch = <<>>

\* An output that never failed has stored all it was asked to.
StoredInv == \A o \in Outputs \ failed : stored[o] = handled[o]

\* A successful Stop has seen the goroutine return.
StopInv ==
  stop = "done" => /\ pc = "exited"
                   /\ \A o \in Outputs : synced[o] = Len(stored[o])

IInv == TypeOK /\ BatchInv /\ Conservation /\ StoredInv /\ StopInv

-----------------------------------------------------------------------------
(* Sequences *)

\* Sending appends to the pending signals and to what was accepted alike.
LEMMA SendKeeps ==
  ASSUME NEW h \in Seq(Signals), NEW b \in Seq(Signals), NEW c \in Seq(Signals),
         NEW s \in Signals
  PROVE  Append(h \o (b \o c), s) = h \o (b \o Append(c, s))
<1>1. /\ <<s>> \in Seq(Signals)
      /\ b \o c \in Seq(Signals)
      /\ h \o (b \o c) \in Seq(Signals)
  BY ConcatProperties
<1>2. Append(h \o (b \o c), s) = (h \o (b \o c)) \o <<s>>
  BY <1>1, AppendIsConcat
<1>3. (h \o (b \o c)) \o <<s>> = h \o ((b \o c) \o <<s>>)
  BY <1>1, ConcatAssociative
<1>4. (b \o c) \o <<s>> = b \o (c \o <<s>>)
  BY <1>1, ConcatAssociative
<1>5. c \o <<s>> = Append(c, s)
  BY AppendIsConcat
<1> QED BY <1>2, <1>3, <1>4, <1>5

\* Receiving moves the head of the channel to the end of the batch.
LEMMA ReceiveKeeps ==
  ASSUME NEW b \in Seq(Signals), NEW c \in Seq(Signals), c # <<>>
  PROVE  b \o c = Append(b, Head(c)) \o Tail(c)
<1>1. /\ Head(c) \in Signals
      /\ Tail(c) \in Seq(Signals)
      /\ <<Head(c)>> \in Seq(Signals)
      /\ Append(b, Head(c)) = b \o <<Head(c)>>
  BY HeadTailProperties, AppendIsConcat
<1>2. c = <<Head(c)>> \o Tail(c)
  <2>1. /\ <<Head(c)>> \o Tail(c) \in Seq(Signals)
        /\ Len(<<Head(c)>> \o Tail(c)) = Len(c)
    BY <1>1, ConcatProperties, HeadTailProperties, LenProperties
  <2>2. ASSUME NEW i \in 1..Len(c)
        PROVE  c[i] = (<<Head(c)>> \o Tail(c))[i]
    BY <1>1, ConcatProperties, HeadTailProperties, LenProperties
  <2> QED BY <2>1, <2>2, SeqEqual
<1>3. (b \o <<Head(c)>>) \o Tail(c) = b \o (<<Head(c)>> \o Tail(c))
  BY <1>1, ConcatAssociative
<1> QED BY <1>1, <1>2, <1>3

LEMMA ConcatAssoc ==
  \A h, b, c \in Seq(Signals) : (h \o b) \o c = h \o (b \o c)
BY ConcatAssociative

\* Writing moves the batch from the pending signals to the handled ones.
LEMMA WriteKeeps ==
  ASSUME NEW h \in Seq(Signals), NEW b \in Seq(Signals), NEW c \in Seq(Signals)
  PROVE  h \o (b \o c) = (h \o b) \o (<<>> \o c)
BY ConcatAssociative, ConcatEmptySeq

-----------------------------------------------------------------------------
(* Every step of the dispatcher preserves the invariant. *)

LEMMA InitIInv == Init => IInv
<1> SUFFICES ASSUME Init PROVE IInv
  OBVIOUS
<1>1. TypeOK
  <2>1. <<>> \in Seq(Signals) /\ Len(<<>>) = 0
    BY EmptySeq
  <2>2. 0 <= QueueSize /\ 0 <= BatchSize /\ 1 \in 1..(NumOutputs + 1)
    BY SizesAssumption
  <2>3. todo \in [Callers -> Seq(Signals)]
    BY LoadAssumption DEF Init
  <2> QED BY <2>1, <2>2, <2>3 DEF Init, TypeOK
<1>2. BatchInv /\ StoredInv /\ StopInv
  BY SizesAssumption, EmptySeq DEF Init, BatchInv, StoredInv, StopInv
<1>3. Conservation
  BY ConcatEmptySeq, EmptySeq DEF Init, Conservation, Pending
<1> QED BY <1>1, <1>2, <1>3 DEF IInv

LEMMA ReturnTypes ==
  ASSUME TypeOK, NEW c \in Callers, todo[c] # <<>>,
         NEW r \in {"nil", "err"}, Return(c, r)
  PROVE  /\ todo' \in [Callers -> Seq(Signals)]
         /\ ctxDone' \in [Callers -> BOOLEAN]
<1>1. /\ Tail(todo[c]) \in Seq(Signals)
      /\ <<>> \in Seq(Signals)
  BY HeadTailProperties, EmptySeq DEF TypeOK
<1> QED BY <1>1 DEF TypeOK, Return, callerVars

\* Dispatch and the contexts of its callers.
LEMMA CallerStep ==
  ASSUME IInv, NEW c \in Callers, Dispatch(c) \/ EndContext(c)
  PROVE  IInv'
<1> USE DEF IInv
<1>1. CASE Send(c)
  <2> DEFINE s == Head(todo[c])
  <2>1. /\ s \in Signals
        /\ todo[c] # <<>>
        /\ Len(ch) < QueueSize
        /\ ch' = Append(ch, s)
        /\ accepted' = Append(accepted, s)
        /\ Return(c, "nil")
    BY <1>1, HeadTailProperties DEF Send, TypeOK
  <2>2. UNCHANGED <<pc, batch, wi, resume, cancelled, handled, stored,
                    failed, stop, synced>>
    BY <2>1 DEF Return, loopVars, outVars, stopVars
  <2>3. TypeOK'
    <3>1. /\ ch' \in Seq(Signals)
          /\ Len(ch') = Len(ch) + 1
          /\ accepted' \in Seq(Signals)
          /\ Len(ch) \in Nat
      BY <2>1, AppendProperties, LenProperties DEF TypeOK
    <3>2. Len(ch') <= QueueSize
      BY <2>1, <3>1, SizesAssumption
    <3>3. /\ todo' \in [Callers -> Seq(Signals)]
          /\ ctxDone' \in [Callers -> BOOLEAN]
      BY <2>1, ReturnTypes
    <3> QED BY <2>2, <3>1, <3>2, <3>3 DEF TypeOK
  <2>4. Conservation'
    <3> SUFFICES ASSUME NEW o \in Outputs
                 PROVE  accepted' = handled'[o] \o Pending(o)'
      BY DEF Conservation
    <3> DEFINE b == IF pc = "write" /\ o < wi THEN <<>> ELSE batch
    <3>1. /\ b \in Seq(Signals)
          /\ handled[o] \in Seq(Signals)
      BY EmptySeq DEF TypeOK
    <3>2. Pending(o)' = b \o Append(ch, s)
      BY <2>1, <2>2 DEF Pending
    <3>3. accepted = handled[o] \o (b \o ch)
      BY DEF Conservation, Pending
    <3>4. ch \in Seq(Signals)
      BY DEF TypeOK
    <3>5. Append(handled[o] \o (b \o ch), s) = handled[o] \o (b \o Append(ch, s))
      <4>1. s \in Signals
        BY <2>1
      <4> HIDE DEF b, s
      <4> QED BY <3>1, <3>4, <4>1, SendKeeps
    <3> QED BY <2>1, <2>2, <3>2, <3>3, <3>5
  <2>5. BatchInv' /\ StoredInv' /\ StopInv'
    BY <2>2 DEF BatchInv, StoredInv, StopInv
  <2> QED BY <2>3, <2>4, <2>5
<1>2. CASE Reject(c) \/ Expire(c) \/ Drop(c)
  <2>1. PICK r \in {"nil", "err"} :
          todo[c] # <<>> /\ Return(c, r)
    <3>1. CASE Reject(c)
      <4> DEFINE v == IF Process(Head(todo[c])) = "error" THEN "err" ELSE "nil"
      <4>1. todo[c] # <<>> /\ Return(c, v)
        BY <3>1 DEF Reject
      <4>2. v \in {"nil", "err"}
        OBVIOUS
      <4> HIDE DEF v
      <4> QED BY <4>1, <4>2
    <3>2. CASE Expire(c) \/ Drop(c)
      BY <3>2 DEF Expire, Drop
    <3> QED BY <1>2, <3>1, <3>2
  <2>2. UNCHANGED <<ch, accepted, pc, batch, wi, resume, cancelled, handled,
                    stored, failed, stop, synced>>
    BY <1>2, <2>1 DEF Reject, Expire, Drop, Return, loopVars, outVars, stopVars
  <2>3. Head(todo[c]) \in Signals
    BY <2>1, HeadTailProperties DEF TypeOK
  <2>4. TypeOK'
    <3>1. /\ todo' \in [Callers -> Seq(Signals)]
          /\ ctxDone' \in [Callers -> BOOLEAN]
      BY <2>1, <2>3, ReturnTypes
    <3> QED BY <2>2, <3>1 DEF TypeOK
  <2>5. BatchInv' /\ Conservation' /\ StoredInv' /\ StopInv'
    BY <2>2 DEF BatchInv, Conservation, Pending, StoredInv, StopInv
  <2> QED BY <2>4, <2>5
<1>3. CASE EndContext(c)
  <2>1. TypeOK'
    BY <1>3 DEF EndContext, TypeOK, loopVars, outVars, stopVars
  <2>2. BatchInv' /\ Conservation' /\ StoredInv' /\ StopInv'
    BY <1>3 DEF EndContext, loopVars, outVars, stopVars, BatchInv,
                Conservation, Pending, StoredInv, StopInv
  <2> QED BY <2>1, <2>2
<1> QED BY <1>1, <1>2, <1>3 DEF Dispatch

\* Moving between the points of the loop without touching batch or channel.
LEMMA MoveStep ==
  ASSUME IInv, Start \/ Tick \/ SeeCancel \/ DrainEmpty
  PROVE  IInv'
<1> USE DEF IInv
<1>1. UNCHANGED <<todo, ctxDone, ch, batch, cancelled, accepted,
                  handled, stored, failed, stop, synced>>
  BY DEF Start, Tick, SeeCancel, DrainEmpty, callerVars, outVars, stopVars
<1>2. 1 \in 1..(NumOutputs + 1)
  BY SizesAssumption
<1>3. /\ pc' \in {"select", "drain", "write", "exited"}
      /\ wi' \in 1..(NumOutputs + 1)
      /\ resume' \in {"select", "drain", "exited"}
  BY <1>2 DEF TypeOK, Start, Tick, SeeCancel, DrainEmpty, Flush
<1>4. TypeOK'
  BY <1>1, <1>3 DEF TypeOK
<1>5. BatchInv' /\ StopInv'
  BY <1>1 DEF TypeOK, BatchInv, StopInv, Start, Tick, SeeCancel, DrainEmpty,
              Flush
<1>6. \A o \in Outputs : Pending(o)' = Pending(o)
  <2> SUFFICES ASSUME NEW o \in Outputs PROVE Pending(o)' = Pending(o)
    OBVIOUS
  <2>1. pc # "write" /\ (pc' = "write" => wi' = 1)
    BY DEF Start, Tick, SeeCancel, DrainEmpty, Flush
  <2>2. ~(o < 1)
    BY SizesAssumption DEF Outputs
  <2> QED BY <1>1, <2>1, <2>2 DEF Pending
<1>7. Conservation'
  BY <1>1, <1>6 DEF Conservation
<1>8. StoredInv'
  BY <1>1 DEF StoredInv
<1> QED BY <1>4, <1>5, <1>7, <1>8

LEMMA ReceiveStep == IInv /\ Receive => IInv'
<1> SUFFICES ASSUME IInv, Receive PROVE IInv'
  OBVIOUS
<1> USE DEF IInv
<1>1. UNCHANGED <<todo, ctxDone, cancelled, accepted, handled, stored,
                  failed, stop, synced>>
  BY DEF Receive, callerVars, outVars, stopVars
<1>2. /\ pc \in {"select", "drain"}
      /\ ch # <<>>
      /\ ch' = Tail(ch)
      /\ batch' = Append(batch, Head(ch))
  BY DEF Receive
<1>3. /\ Head(ch) \in Signals
      /\ ch' \in Seq(Signals)
      /\ Len(ch') = Len(ch) - 1
      /\ Len(ch) \in Nat
      /\ batch' \in Seq(Signals)
      /\ batch' # <<>>
      /\ Len(batch') = Len(batch) + 1
      /\ Len(batch) \in Nat
  <2>1. ch \in Seq(Signals) /\ batch \in Seq(Signals)
    BY DEF TypeOK
  <2>2. /\ Head(ch) \in Signals
        /\ Tail(ch) \in Seq(Signals)
        /\ Len(Tail(ch)) = Len(ch) - 1
        /\ Len(ch) \in Nat
        /\ Len(batch) \in Nat
    BY <1>2, <2>1, HeadTailProperties, LenProperties
  <2>3. /\ Append(batch, Head(ch)) \in Seq(Signals)
        /\ Append(batch, Head(ch)) # <<>>
        /\ Len(Append(batch, Head(ch))) = Len(batch) + 1
    BY <2>1, <2>2, AppendProperties
  <2> QED BY <1>2, <2>2, <2>3
<1>4. Len(batch) < BatchSize
  BY <1>2 DEF BatchInv
<1>5. Len(ch') <= QueueSize /\ Len(batch') <= BatchSize
  BY <1>3, <1>4, SizesAssumption DEF TypeOK
<1>6. \/ /\ Len(batch') >= BatchSize
         /\ pc' = "write" /\ wi' = 1 /\ resume' = pc
      \/ /\ Len(batch') < BatchSize
         /\ UNCHANGED <<pc, wi, resume>>
  BY <1>3, SizesAssumption DEF Receive, Flush
<1>7. TypeOK'
  <2>1. 1 \in 1..(NumOutputs + 1)
    BY SizesAssumption
  <2>2. /\ pc' \in {"select", "drain", "write"}
        /\ wi' \in 1..(NumOutputs + 1)
        /\ resume' \in {"select", "drain", "exited"}
    BY <1>2, <1>6, <2>1 DEF TypeOK
  <2> QED BY <1>1, <1>3, <1>5, <2>2 DEF TypeOK
<1>8. BatchInv'
  BY <1>2, <1>3, <1>6 DEF BatchInv
<1>9. Conservation'
  <2> SUFFICES ASSUME NEW o \in Outputs
               PROVE  accepted' = handled'[o] \o Pending(o)'
    BY DEF Conservation
  <2>1. Pending(o) = batch \o ch
    BY <1>2 DEF Pending
  <2>2. Pending(o)' = batch' \o ch'
    <3>1. ~(pc' = "write" /\ o < wi')
      BY <1>2, <1>6, SizesAssumption DEF Outputs
    <3> QED BY <3>1 DEF Pending
  <2>3. batch \o ch = Append(batch, Head(ch)) \o Tail(ch)
    BY <1>2, ReceiveKeeps DEF TypeOK
  <2> QED BY <1>1, <1>2, <2>1, <2>2, <2>3 DEF Conservation
<1>10. StoredInv' /\ StopInv'
  BY <1>1, <1>2 DEF StoredInv, StopInv
<1> QED BY <1>7, <1>8, <1>9, <1>10

\* What the two outcomes of a Write have in common.
LEMMA AskedStep ==
  ASSUME IInv, NEW o \in Outputs, Asked(o), wi' = wi + 1,
         NEW part \in Seq(Signals),
         stored' = [stored EXCEPT ![o] = @ \o part],
         \/ part = batch /\ failed' = failed
         \/ failed' = failed \cup {o}
  PROVE  IInv'
<1> USE DEF IInv
<1>1. /\ pc = "write"
      /\ wi = o
      /\ handled' = [handled EXCEPT ![o] = @ \o batch]
      /\ UNCHANGED <<todo, ctxDone, ch, pc, batch, resume, cancelled,
                     accepted, stop, synced>>
  BY DEF Asked, callerVars, stopVars
<1>2. o \in 1..NumOutputs /\ NumOutputs \in Nat
  BY SizesAssumption DEF Outputs
<1>3. TypeOK'
  <2>1. /\ handled[o] \o batch \in Seq(Signals)
        /\ stored[o] \o part \in Seq(Signals)
    BY ConcatProperties DEF TypeOK
  <2>2. wi' \in 1..(NumOutputs + 1)
    BY <1>1, <1>2
  <2>3. failed' \subseteq Outputs
    BY DEF TypeOK
  <2> QED BY <1>1, <2>1, <2>2, <2>3 DEF TypeOK
<1>4. BatchInv' /\ StopInv'
  BY <1>1 DEF BatchInv, StopInv
<1>5. Conservation'
  <2> SUFFICES ASSUME NEW p \in Outputs
               PROVE  accepted' = handled'[p] \o Pending(p)'
    BY DEF Conservation
  <2>1. CASE p = o
    <3>1. Pending(o) = batch \o ch
      <4>1. ~(o < wi)
        BY <1>1, <1>2
      <4> QED BY <4>1 DEF Pending
    <3>2. Pending(o)' = <<>> \o ch
      <4>1. o < wi'
        BY <1>1, <1>2
      <4> QED BY <1>1, <4>1 DEF Pending
    <3>3. handled'[o] = handled[o] \o batch
      BY <1>1 DEF TypeOK
    <3>4. handled[o] \o (batch \o ch) = (handled[o] \o batch) \o (<<>> \o ch)
      <4>1. /\ handled[o] \in Seq(Signals)
            /\ batch \in Seq(Signals)
            /\ ch \in Seq(Signals)
        BY DEF TypeOK
      <4> QED BY <4>1, WriteKeeps
    <3> QED BY <1>1, <2>1, <3>1, <3>2, <3>3, <3>4 DEF Conservation
  <2>2. CASE p # o
    <3>1. p \in 1..NumOutputs
      BY DEF Outputs
    <3>2. (p < wi') <=> (p < wi)
      BY <1>1, <1>2, <2>2, <3>1
    <3>3. Pending(p)' = Pending(p)
      BY <1>1, <3>2 DEF Pending
    <3>4. handled'[p] = handled[p]
      BY <1>1, <2>2 DEF TypeOK
    <3> QED BY <1>1, <3>3, <3>4 DEF Conservation
  <2> QED BY <2>1, <2>2
<1>6. StoredInv'
  <2> SUFFICES ASSUME NEW p \in Outputs \ failed'
               PROVE  stored'[p] = handled'[p]
    BY DEF StoredInv
  <2>1. p \in Outputs \ failed /\ stored[p] = handled[p]
    BY DEF StoredInv
  <2>2. CASE p = o
    <3>1. part = batch
      BY <2>2
    <3> QED BY <1>1, <2>1, <2>2, <3>1 DEF TypeOK
  <2>3. CASE p # o
    BY <1>1, <2>1, <2>3 DEF TypeOK
  <2> QED BY <2>2, <2>3
<1> QED BY <1>3, <1>4, <1>5, <1>6

LEMMA WriteStep ==
  ASSUME IInv, NEW o \in Outputs, Write(o)
  PROVE  IInv'
<1>1. batch \in Seq(Signals)
  BY DEF IInv, TypeOK
<1>2. CASE WriteOK(o)
  BY <1>1, <1>2, AskedStep DEF WriteOK
<1>3. CASE WriteFail(o)
  <2>1. PICK n \in Partial(o) :
          stored' = [stored EXCEPT ![o] = @ \o SubSeq(batch, 1, n)]
    BY <1>3 DEF WriteFail
  <2>2. SubSeq(batch, 1, n) \in Seq(Signals)
    <3>1. n \in 0..Len(batch) /\ Len(batch) \in Nat
      BY <1>1, <2>1, LenProperties DEF Partial
    <3>2. \A i \in 1..n : batch[i] \in Signals
      BY <1>1, <3>1, ElementOfSeq
    <3> QED BY <3>1, <3>2, SubSeqProperties
  <2> QED BY <1>3, <2>1, <2>2, AskedStep DEF WriteFail
<1> QED BY <1>2, <1>3 DEF Write

LEMMA WriteDoneStep == IInv /\ WriteDone => IInv'
<1> SUFFICES ASSUME IInv, WriteDone PROVE IInv'
  OBVIOUS
<1> USE DEF IInv
<1>1. /\ pc = "write"
      /\ wi = NumOutputs + 1
      /\ batch' = <<>>
      /\ pc' = resume
      /\ UNCHANGED <<todo, ctxDone, ch, wi, resume, cancelled,
                     accepted, handled, stored, failed, stop, synced>>
  BY DEF WriteDone, callerVars, outVars, stopVars
<1>2. <<>> \in Seq(Signals) /\ Len(<<>>) = 0
  BY EmptySeq
<1>3. 0 < BatchSize
  BY SizesAssumption
<1>4. pc' # "write"
  BY <1>1 DEF TypeOK
<1>5. TypeOK'
  <2>1. /\ batch' \in Seq(Signals)
        /\ Len(batch') <= BatchSize
    BY <1>1, <1>2, <1>3, SizesAssumption
  <2>2. pc' \in {"idle", "select", "drain", "write", "exited"}
    BY <1>1 DEF TypeOK
  <2> QED BY <1>1, <2>1, <2>2 DEF TypeOK
<1>6. BatchInv' /\ StoredInv' /\ StopInv'
  BY <1>1, <1>2, <1>3, <1>4 DEF BatchInv, StoredInv, StopInv
<1>7. Conservation'
  <2> SUFFICES ASSUME NEW o \in Outputs
               PROVE  accepted' = handled'[o] \o Pending(o)'
    BY DEF Conservation
  <2>1. o < wi
    BY <1>1, SizesAssumption DEF Outputs
  <2>2. Pending(o) = <<>> \o ch
    BY <1>1, <2>1 DEF Pending
  <2>3. Pending(o)' = <<>> \o ch
    BY <1>1, <1>4 DEF Pending
  <2> QED BY <1>1, <2>2, <2>3 DEF Conservation
<1> QED BY <1>5, <1>6, <1>7

\* CancelParent and the three steps of Stop.
LEMMA ShutdownStep ==
  ASSUME IInv,
         \/ CancelParent \/ StopCall \/ StopTimeout
         \/ \E bad \in SUBSET Outputs : StopFlush(bad)
  PROVE  IInv'
<1> USE DEF IInv
<1>1. UNCHANGED <<todo, ctxDone, ch, pc, batch, wi, resume, accepted,
                  handled, stored, failed>>
  BY DEF CancelParent, StopCall, StopTimeout, StopFlush, callerVars, loopVars,
         outVars
<1>2. BatchInv' /\ Conservation' /\ StoredInv'
  BY <1>1 DEF BatchInv, Conservation, Pending, StoredInv
<1>3. \A o \in Outputs : Len(stored[o]) \in Nat
  BY LenProperties DEF TypeOK
<1>4. TypeOK'
  <2>1. CASE CancelParent \/ StopCall \/ StopTimeout
    BY <1>1, <2>1 DEF TypeOK, CancelParent, StopCall, StopTimeout, stopVars
  <2>2. ASSUME NEW bad \in SUBSET Outputs, StopFlush(bad)
        PROVE  TypeOK'
    BY <1>1, <1>3, <2>2 DEF TypeOK, StopFlush
  <2> QED BY <2>1, <2>2
<1>5. StopInv'
  BY <1>1 DEF StopInv, CancelParent, StopCall, StopTimeout, StopFlush, stopVars
<1> QED BY <1>2, <1>4, <1>5

LEMMA NextIInv == IInv /\ [Next]_vars => IInv'
<1> SUFFICES ASSUME IInv, [Next]_vars PROVE IInv'
  OBVIOUS
<1>1. ASSUME NEW c \in Callers, Dispatch(c) \/ EndContext(c) PROVE IInv'
  BY <1>1, CallerStep
<1>2. CASE Start \/ Tick \/ SeeCancel \/ DrainEmpty
  BY <1>2, MoveStep
<1>3. CASE Receive
  BY <1>3, ReceiveStep
<1>4. ASSUME NEW o \in Outputs, Write(o) PROVE IInv'
  BY <1>4, WriteStep
<1>5. CASE WriteDone
  BY <1>5, WriteDoneStep
<1>6. CASE \/ CancelParent \/ StopCall \/ StopTimeout
           \/ \E bad \in SUBSET Outputs : StopFlush(bad)
  BY <1>6, ShutdownStep
<1>7. CASE UNCHANGED vars
  BY <1>7 DEF vars, callerVars, loopVars, outVars, stopVars, IInv, TypeOK,
              BatchInv, Conservation, Pending, StoredInv, StopInv
<1> QED BY <1>1, <1>2, <1>3, <1>4, <1>5, <1>6, <1>7 DEF Next, Loop

-----------------------------------------------------------------------------

\* The state keeps its types: neither the channel nor the batch ever holds
\* more than its configured size (dispatcher.go:44-85, 173-196).
THEOREM DispatcherTypes == Spec => []TypeOK
<1>1. IInv => TypeOK
  BY DEF IInv
<1> QED BY <1>1, InitIInv, NextIInv, PTL DEF Spec

\* Between the channel and every output nothing is lost, repeated or
\* reordered, through cancellation and drain (dispatcher.go:161-206).
THEOREM DispatcherConserves == Spec => []Conservation
<1>1. IInv => Conservation
  BY DEF IInv
<1> QED BY <1>1, InitIInv, NextIInv, PTL DEF Spec

\* When the goroutine has returned, every output that never failed has stored
\* all that was accepted before the end of the drain, whatever the other
\* outputs did (dispatcher.go:200-206).
THEOREM DispatcherIsolates == Spec => []Isolation
<1>1. IInv => Isolation
  <2> SUFFICES ASSUME IInv, pc = "exited", NEW o \in Outputs \ failed
               PROVE  accepted = stored[o] \o ch
    BY DEF Isolation
  <2>1. batch = <<>> /\ stored[o] = handled[o]
    BY DEF IInv, BatchInv, StoredInv
  <2>2. Pending(o) = <<>> \o ch
    BY <2>1 DEF Pending
  <2>3. <<>> \o ch = ch
    BY ConcatEmptySeq DEF IInv, TypeOK
  <2> QED BY <2>1, <2>2, <2>3 DEF IInv, Conservation
<1> QED BY <1>1, InitIInv, NextIInv, PTL DEF Spec

\* A Stop that succeeded was the last word: everything stored is flushed and
\* no write comes after it (dispatcher.go:94-109).
THEOREM DispatcherStopIsFinal == Spec => []StopIsFinal
<1>1. IInv => StopIsFinal
  BY DEF IInv, StopInv, StopIsFinal
<1> QED BY <1>1, InitIInv, NextIInv, PTL DEF Spec

-----------------------------------------------------------------------------
(* Refinement *)

LEMMA ConcatLengths ==
  \A h, b, c \in Seq(Signals) : Len(h \o (b \o c)) = Len(h) + Len(b) + Len(c)
<1> SUFFICES ASSUME NEW h \in Seq(Signals), NEW b \in Seq(Signals),
                    NEW c \in Seq(Signals)
             PROVE  Len(h \o (b \o c)) = Len(h) + Len(b) + Len(c)
  OBVIOUS
<1>1. b \o c \in Seq(Signals) /\ Len(b \o c) = Len(b) + Len(c)
  BY ConcatProperties
<1>2. Len(h \o (b \o c)) = Len(h) + Len(b \o c)
  BY <1>1, ConcatProperties
<1> QED BY <1>1, <1>2, LenProperties

\* The first Len(s) elements of s \o t are s.
LEMMA ConcatPrefix ==
  \A s, t \in Seq(Signals) : s # <<>> => SubSeq(s \o t, 1, Len(s)) = s
<1> SUFFICES ASSUME NEW s \in Seq(Signals), NEW t \in Seq(Signals), s # <<>>
             PROVE  SubSeq(s \o t, 1, Len(s)) = s
  OBVIOUS
<1>1. Len(s) \in Nat \ {0}
  BY EmptySeq
<1>2. SubSeq(s \o t, 1, Len(s)) = SubSeq(s, 1, Len(s))
  BY <1>1, SubSeqOfConcat1
<1> QED BY <1>2, SubSeqFull

\* How far output o is behind the log.
LEMMA Backlog ==
  ASSUME IInv, NEW o \in Outputs
  PROVE  /\ Len(handled[o]) \in Nat /\ Len(batch) \in Nat /\ Len(ch) \in Nat
         /\ (pc = "write" /\ o < wi) =>
              Len(accepted) = Len(handled[o]) + Len(ch)
         /\ ~(pc = "write" /\ o < wi) =>
              Len(accepted) = Len(handled[o]) + Len(batch) + Len(ch)
<1>1. /\ handled[o] \in Seq(Signals)
      /\ batch \in Seq(Signals)
      /\ ch \in Seq(Signals)
      /\ <<>> \in Seq(Signals)
      /\ Len(<<>>) = 0
  BY EmptySeq DEF IInv, TypeOK
<1>2. Len(handled[o]) \in Nat /\ Len(batch) \in Nat /\ Len(ch) \in Nat
  BY <1>1, LenProperties
<1>3. accepted = handled[o] \o Pending(o)
  BY DEF IInv, Conservation
<1>4. CASE pc = "write" /\ o < wi
  <2>1. Pending(o) = <<>> \o ch
    BY <1>4 DEF Pending
  <2>2. Len(accepted) = Len(handled[o]) + Len(<<>>) + Len(ch)
    BY <1>1, <1>3, <2>1, ConcatLengths
  <2> QED BY <1>1, <1>2, <1>4, <2>2
<1>5. CASE ~(pc = "write" /\ o < wi)
  <2>1. Pending(o) = batch \o ch
    BY <1>5 DEF Pending
  <2>2. Len(handled[o] \o (batch \o ch))
          = Len(handled[o]) + Len(batch) + Len(ch)
    BY <1>1, ConcatLengths
  <2>3. Len(accepted) = Len(handled[o]) + Len(batch) + Len(ch)
    BY <1>3, <2>1, <2>2
  <2> QED BY <1>2, <1>5, <2>3
<1> QED BY <1>4, <1>5

LEMMA SendAccepts ==
  ASSUME IInv, NEW c \in Callers, Send(c)
  PROVE  Log!Accept(Head(todo[c])) /\ Head(todo[c]) \in Signals
<1>1. /\ Len(ch) < QueueSize
      /\ accepted' = Append(accepted, Head(todo[c]))
      /\ handled' = handled
      /\ todo[c] # <<>>
  BY DEF Send, Return, outVars
<1>2. Head(todo[c]) \in Signals
  <2>1. todo[c] \in Seq(Signals)
    BY DEF IInv, TypeOK
  <2> QED BY <1>1, <2>1, HeadTailProperties
<1>3. ASSUME NEW r \in Outputs
      PROVE  Len(accepted) - Len(handled[r]) < QueueSize + BatchSize
  <2>1. Len(batch) <= BatchSize
    BY DEF IInv, TypeOK
  <2>2. /\ Len(handled[r]) \in Nat /\ Len(batch) \in Nat /\ Len(ch) \in Nat
        /\ \/ Len(accepted) = Len(handled[r]) + Len(ch)
           \/ Len(accepted) = Len(handled[r]) + Len(batch) + Len(ch)
    BY Backlog
  <2> QED BY <1>1, <2>1, <2>2, SizesAssumption
<1> QED BY <1>1, <1>2, <1>3 DEF Log!Accept

LEMMA WriteReads ==
  ASSUME IInv, NEW o \in Outputs, Asked(o)
  PROVE  Log!Read(o)
<1>1. /\ pc = "write"
      /\ wi = o
      /\ handled' = [handled EXCEPT ![o] = @ \o batch]
      /\ accepted' = accepted
  BY DEF Asked
<1>2. /\ handled[o] \in Seq(Signals)
      /\ batch \in Seq(Signals) /\ batch # <<>>
      /\ ch \in Seq(Signals)
      /\ Len(batch) <= BatchSize
  BY <1>1 DEF IInv, TypeOK, BatchInv
<1>3. o \in Nat
  BY SizesAssumption DEF Outputs
<1> DEFINE n == Len(batch)
           upto == Len(handled[o]) + n
<1>4. n \in 1..BatchSize
  <2>1. Len(batch) \in Nat \ {0}
    BY <1>2, EmptySeq
  <2> QED BY <1>2, <2>1, SizesAssumption
<1>a. ~(o < wi)
  BY <1>1, <1>3
<1>5. /\ Len(accepted) = Len(handled[o]) + n + Len(ch)
      /\ Len(handled[o]) \in Nat /\ Len(ch) \in Nat
  BY <1>a, Backlog
<1>6. upto <= Len(accepted)
  BY <1>4, <1>5
<1>7. ASSUME NEW q \in Outputs
      PROVE  upto <= Len(handled[q]) + BatchSize
  <2>1. /\ Len(handled[q]) \in Nat
        /\ \/ Len(accepted) = Len(handled[q]) + Len(ch)
           \/ Len(accepted) = Len(handled[q]) + n + Len(ch)
    BY Backlog
  <2> QED BY <1>4, <1>5, <2>1, SizesAssumption
<1>8. handled[o] \o batch = SubSeq(accepted, 1, upto)
  <2>1. /\ handled[o] \o batch \in Seq(Signals)
        /\ Len(handled[o] \o batch) = upto
    BY <1>2, ConcatProperties
  <2>2. handled[o] \o batch # <<>>
    <3>1. Len(handled[o] \o batch) # 0
      BY <1>4, <1>5, <2>1
    <3> QED BY <3>1, EmptySeq
  <2>3. accepted = (handled[o] \o batch) \o ch
    <3>1. Pending(o) = batch \o ch
      BY <1>a DEF Pending
    <3>2. accepted = handled[o] \o (batch \o ch)
      BY <3>1 DEF IInv, Conservation
    <3>3. (handled[o] \o batch) \o ch = handled[o] \o (batch \o ch)
      BY <1>2, ConcatAssoc
    <3> QED BY <3>2, <3>3
  <2> QED BY <1>2, <2>1, <2>2, <2>3, ConcatPrefix
<1>9. handled' = [handled EXCEPT ![o] = SubSeq(accepted, 1, upto)]
  BY <1>1, <1>8
<1> HIDE DEF n
<1> QED BY <1>1, <1>4, <1>6, <1>7, <1>9 DEF Log!Read

\* The dispatcher implements the abstract log: one sequence of accepted
\* signals that every output reads from the start, in order, in chunks of at
\* most BatchSize, with a backlog of at most QueueSize + BatchSize
\* (dispatcher.go:111-206).
THEOREM DispatcherImplementsLog == Spec => ImplementsLog
<1>1. Init => Log!Init
  BY DEF Init, Log!Init
<1>2. IInv /\ [Next]_vars => [Log!Next]_Log!vars
  <2> SUFFICES ASSUME IInv, [Next]_vars
               PROVE  [Log!Next]_Log!vars
    OBVIOUS
  <2>1. ASSUME NEW c \in Callers, Send(c)
        PROVE  Log!Next
    BY <2>1, SendAccepts DEF Log!Next
  <2>2. ASSUME NEW o \in Outputs, Write(o)
        PROVE  Log!Next
    <3>1. Asked(o)
      BY <2>2 DEF Write, WriteOK, WriteFail
    <3> QED BY <3>1, WriteReads DEF Log!Next
  <2>3. ASSUME NEW c \in Callers,
               Reject(c) \/ Expire(c) \/ Drop(c) \/ EndContext(c)
        PROVE  UNCHANGED Log!vars
    BY <2>3 DEF Reject, Expire, Drop, EndContext, Return, outVars, Log!vars
  <2>4. CASE Start \/ Receive \/ Tick \/ SeeCancel \/ DrainEmpty \/ WriteDone
    BY <2>4 DEF Start, Receive, Tick, SeeCancel, DrainEmpty, WriteDone,
                outVars, Log!vars
  <2>5. CASE \/ CancelParent \/ StopCall \/ StopTimeout
             \/ \E bad \in SUBSET Outputs : StopFlush(bad)
    BY <2>5 DEF CancelParent, StopCall, StopTimeout, StopFlush, outVars,
                Log!vars
  <2>6. CASE UNCHANGED vars
    BY <2>6 DEF vars, outVars, Log!vars
  <2> QED BY <2>1, <2>2, <2>3, <2>4, <2>5, <2>6 DEF Next, Loop, Dispatch
<1> QED BY <1>1, <1>2, InitIInv, NextIInv, PTL DEF Spec, ImplementsLog, Log!Spec

=============================================================================
