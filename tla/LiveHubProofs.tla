---------------------------- MODULE LiveHubProofs ----------------------------
(***************************************************************************)
(* Proofs about LiveHub, for every set of publishers and subscribers, any  *)
(* load in which a signal is published once, any filters and capacity.     *)
(***************************************************************************)
EXTENDS LiveHub, SequenceTheorems, TLAPS

\* A publisher that is between two signals has no subscriber left to visit,
\* and one that has some visits subscribers of the hub with a signal in hand.
PublishInv ==
  \A p \in Publishers :
    /\ left[p] # {} => ppc[p] = "publishing"
    /\ ppc[p] = "publishing" => todo[p] # <<>>
    /\ left[p] \subseteq subs

\* The hub knows no closed channel, and only those who subscribed have one.
ClosedInv ==
  /\ subs \cap closed = {}
  /\ \A b \in subs \cup closed : hpc[b] # "off"

HubInv == TypeOK /\ PublishInv /\ ClosedInv /\ NoPanic

-----------------------------------------------------------------------------
(* What the hub holds for a subscriber, in order *)

\* A subscriber may be shown s and later t.
Precedes(s, t) == s # t /\ \A p \in Publishers : ~Before(p, t, s)

Sorted(f) == \A i, j \in DOMAIN f : i < j => Precedes(f[i], f[j])
AllBefore(f, g) == \A i \in DOMAIN f, j \in DOMAIN g : Precedes(f[i], g[j])

\* The positions of todo[p] that b has not been offered yet.
ToCome(p, b) == {k \in DOMAIN todo[p] : k > 1 \/ ppc[p] # "publishing" \/ b \in left[p]}
BeforeToCome(f, b) ==
  \A p \in Publishers : \A k \in ToCome(p, b) : \A i \in DOMAIN f :
    Precedes(f[i], todo[p][k])

TodoInv ==
  \A p, q \in Publishers : \A i \in DOMAIN todo[p], k \in DOMAIN todo[q] :
    (p = q => i < k) => Precedes(todo[p][i], todo[q][k])

StreamOrdered(b) ==
  /\ Sorted(written[b]) /\ Sorted(out[b]) /\ Sorted(ch[b])
  /\ AllBefore(written[b], out[b]) /\ AllBefore(written[b], ch[b])
  /\ AllBefore(out[b], ch[b])

StreamAhead(b) ==
  BeforeToCome(written[b], b) /\ BeforeToCome(out[b], b) /\ BeforeToCome(ch[b], b)

StreamMatches(b) ==
  /\ \A i \in DOMAIN written[b] : written[b][i] \in Match[b]
  /\ \A i \in DOMAIN out[b] : out[b][i] \in Match[b]

StreamInv ==
  \A b \in Subscribers : StreamOrdered(b) /\ StreamAhead(b) /\ StreamMatches(b)

OrderInv == TodoInv /\ StreamInv

-----------------------------------------------------------------------------
(* Nobody sends on a closed channel. *)

LEMMA InitHubInv == Init => HubInv
<1> SUFFICES ASSUME Init PROVE HubInv
  OBVIOUS
<1>1. TypeOK
  <2>1. <<>> \in Seq(Signals) /\ Len(<<>>) = 0
    BY EmptySeq
  <2> QED BY <2>1, HubAssumption DEF Init, TypeOK
<1>2. PublishInv /\ ClosedInv /\ NoPanic
  BY DEF Init, PublishInv, ClosedInv, NoPanic
<1> QED BY <1>1, <1>2 DEF HubInv

\* Publish: the subscribers left to visit are the hub's own.
LEMMA PublishStep ==
  ASSUME HubInv, NEW p \in Publishers, Publish(p)
  PROVE  HubInv'
<1> USE DEF HubInv
<1>1. CASE PublishStart(p)
  BY <1>1 DEF PublishStart, TypeOK, PublishInv, ClosedInv, NoPanic, subVars
<1>2. ASSUME NEW b \in Subscribers, PublishTo(p, b)
      PROVE  HubInv'
  <2>1. b \in subs /\ b \notin closed /\ ppc[p] = "publishing" /\ todo[p] # <<>>
    BY <1>2 DEF PublishTo, PublishInv, ClosedInv
  <2>2. UNCHANGED <<todo, ppc, subs, closed, fpc, out, hpc, ctxDone, gone, written>>
    BY <1>2, <2>1 DEF PublishTo, subVars
  <2>3. TypeOK'
    <3>1. Head(todo[p]) \in Signals
      BY <2>1, HeadTailProperties DEF TypeOK
    <3>2. ASSUME Len(ch[b]) < Capacity
          PROVE  /\ Append(ch[b], Head(todo[p])) \in Seq(Signals)
                 /\ Len(Append(ch[b], Head(todo[p]))) <= Capacity
      BY <3>1, <3>2, AppendProperties, LenProperties, HubAssumption DEF TypeOK
    <3>3. ch' \in [Subscribers -> Seq(Signals)] /\ \A c \in Subscribers : Len(ch'[c]) <= Capacity
      BY <1>2, <3>2 DEF PublishTo, TypeOK
    <3>4. left' \in [Publishers -> SUBSET Subscribers]
      BY <1>2 DEF PublishTo, TypeOK
    <3> QED BY <2>2, <3>3, <3>4 DEF TypeOK
  <2>4. PublishInv' /\ ClosedInv' /\ NoPanic'
    BY <1>2, <2>1, <2>2 DEF PublishTo, PublishInv, ClosedInv, NoPanic, TypeOK
  <2> QED BY <2>3, <2>4
<1>3. CASE PublishEnd(p)
  <2>1. Tail(todo[p]) \in Seq(Signals)
    BY <1>3, HeadTailProperties DEF PublishEnd, PublishInv, TypeOK
  <2> QED BY <1>3, <2>1 DEF PublishEnd, TypeOK, PublishInv, ClosedInv, NoPanic, subVars
<1> QED BY <1>1, <1>2, <1>3 DEF Publish

\* The write lock: a channel is closed while nobody publishes, and together
\* with the hub's forgetting it.
LEMMA SubscriberStep ==
  ASSUME HubInv, NEW b \in Subscribers,
         \/ Subscribe(b) \/ ForwardCancel(b) \/ TailReturn(b)
  PROVE  HubInv'
<1> USE DEF HubInv
<1>1. \A p \in Publishers : left[p] = {}
  BY DEF Subscribe, ForwardCancel, TailReturn, Cancel, Unlocked, PublishInv
<1>2. CASE Subscribe(b)
  BY <1>1, <1>2 DEF Subscribe, pubVars, TypeOK, PublishInv, ClosedInv, NoPanic
<1>3. CASE ForwardCancel(b)
  BY <1>1, <1>3 DEF ForwardCancel, Cancel, pubVars, TypeOK, PublishInv, ClosedInv, NoPanic
<1>4. CASE TailReturn(b)
  BY <1>1, <1>4 DEF TailReturn, Cancel, pubVars, TypeOK, PublishInv, ClosedInv, NoPanic
<1> QED BY <1>2, <1>3, <1>4

LEMMA ChannelStep ==
  ASSUME HubInv, NEW b \in Subscribers,
         \/ Forward(b) \/ ForwardEnd(b) \/ ForwardCtxDone(b) \/ TailWrite(b) \/ TailEnd(b)
         \/ ClientLeaves(b) \/ ContextEnds(b)
  PROVE  HubInv'
<1> USE DEF HubInv, pubVars, subVars
<1>1. CASE Forward(b)
  <2>1. /\ Head(ch[b]) \in Signals
        /\ Tail(ch[b]) \in Seq(Signals) /\ Len(Tail(ch[b])) <= Capacity
    BY <1>1, HeadTailProperties, LenProperties, HubAssumption DEF Forward, TypeOK
  <2>2. ASSUME Len(out[b]) < Capacity
        PROVE  /\ Append(out[b], Head(ch[b])) \in Seq(Signals)
               /\ Len(Append(out[b], Head(ch[b]))) <= Capacity
    BY <2>1, <2>2, AppendProperties, LenProperties, HubAssumption DEF TypeOK
  <2>3. TypeOK'
    BY <1>1, <2>1, <2>2 DEF Forward, TypeOK
  <2> QED BY <1>1, <2>3 DEF Forward, PublishInv, ClosedInv, NoPanic
<1>2. CASE TailWrite(b)
  <2>1. /\ Head(out[b]) \in Signals
        /\ Tail(out[b]) \in Seq(Signals) /\ Len(Tail(out[b])) <= Capacity
    BY <1>2, HeadTailProperties, LenProperties, HubAssumption DEF TailWrite, TypeOK
  <2>2. Append(written[b], Head(out[b])) \in Seq(Signals)
    BY <2>1, AppendProperties DEF TypeOK
  <2>3. TypeOK'
    <3>1. /\ out' \in [Subscribers -> Seq(Signals)] /\ written' \in [Subscribers -> Seq(Signals)]
          /\ \A c \in Subscribers : Len(out'[c]) <= Capacity
      BY <1>2, <2>1, <2>2 DEF TailWrite, TypeOK
    <3>2. /\ hpc' \in [Subscribers -> {"off", "tail", "cancel", "done"}]
          /\ UNCHANGED <<todo, ppc, left, subs, closed, ch, fpc, ctxDone, gone>>
      BY <1>2 DEF TailWrite, TypeOK
    <3> QED BY <3>1, <3>2 DEF TypeOK
  <2> QED BY <1>2, <2>3 DEF TailWrite, PublishInv, ClosedInv, NoPanic, TypeOK
<1>3. CASE ForwardEnd(b)
  BY <1>3 DEF ForwardEnd, TypeOK, PublishInv, ClosedInv, NoPanic
<1>6. CASE ForwardCtxDone(b)
  BY <1>6 DEF ForwardCtxDone, TypeOK, PublishInv, ClosedInv, NoPanic
<1>4. CASE TailEnd(b)
  BY <1>4 DEF TailEnd, TypeOK, PublishInv, ClosedInv, NoPanic
<1>5. CASE ClientLeaves(b) \/ ContextEnds(b)
  BY <1>5 DEF ClientLeaves, ContextEnds, TypeOK, PublishInv, ClosedInv, NoPanic
<1> QED BY <1>1, <1>2, <1>3, <1>4, <1>5, <1>6

LEMMA NextHubInv == HubInv /\ [Next]_vars => HubInv'
<1> SUFFICES ASSUME HubInv, [Next]_vars PROVE HubInv'
  OBVIOUS
<1>1. CASE UNCHANGED vars
  BY <1>1 DEF vars, pubVars, subVars, HubInv, TypeOK, PublishInv, ClosedInv, NoPanic
<1> QED
  BY <1>1, PublishStep, SubscriberStep, ChannelStep DEF Next, Forwarder, Handler

\* Publish never sends on a closed channel, whoever leaves meanwhile
\* (hub.go:34-59).
THEOREM HubNoPanic == Spec => []NoPanic
BY InitHubInv, NextHubInv, PTL DEF Spec, HubInv

\* The variables have their types; no channel holds more than its capacity
\* (hub.go:45-84).
THEOREM HubTypes == Spec => []TypeOK
BY InitHubInv, NextHubInv, PTL DEF Spec, HubInv

-----------------------------------------------------------------------------
(* Sequences in order *)

LEMMA SortedAppend ==
  ASSUME NEW f \in Seq(Signals), NEW e \in Signals, Sorted(f),
         \A i \in DOMAIN f : Precedes(f[i], e)
  PROVE  Sorted(Append(f, e))
<1>1. /\ DOMAIN f = 1..Len(f) /\ Len(f) \in Nat
      /\ Append(f, e) \in Seq(Signals) /\ Len(Append(f, e)) = Len(f) + 1
      /\ \A i \in 1..Len(f) : Append(f, e)[i] = f[i]
      /\ Append(f, e)[Len(f) + 1] = e
  BY AppendProperties, LenProperties
<1>2. DOMAIN Append(f, e) = 1..(Len(f) + 1)
  BY <1>1, LenProperties
<1> QED BY <1>1, <1>2 DEF Sorted

LEMMA SortedTail ==
  ASSUME NEW f \in Seq(Signals), f # <<>>, Sorted(f)
  PROVE  /\ Sorted(Tail(f))
         /\ \A i \in DOMAIN Tail(f) : Precedes(Head(f), Tail(f)[i])
<1>1. /\ DOMAIN f = 1..Len(f) /\ Len(f) \in Nat \ {0}
      /\ Tail(f) \in Seq(Signals) /\ Len(Tail(f)) = Len(f) - 1
      /\ \A i \in 1..Len(Tail(f)) : Tail(f)[i] = f[i + 1]
      /\ Head(f) = f[1]
  BY HeadTailProperties, LenProperties, EmptySeq
<1>2. DOMAIN Tail(f) = 1..(Len(f) - 1)
  BY <1>1, LenProperties
<1>3. ASSUME NEW i \in DOMAIN Tail(f)
      PROVE  /\ i \in Nat \ {0} /\ 1 \in DOMAIN f /\ i + 1 \in DOMAIN f
             /\ Tail(f)[i] = f[i + 1]
  BY <1>1, <1>2
<1>4. Sorted(Tail(f))
  BY <1>3 DEF Sorted
<1>5. \A i \in DOMAIN Tail(f) : Precedes(Head(f), Tail(f)[i])
  BY <1>1, <1>3 DEF Sorted
<1> QED BY <1>4, <1>5

\* What holds of every element of a sequence holds of those of its tail, and
\* of its head.
LEMMA TailElements ==
  ASSUME NEW f \in Seq(Signals), f # <<>>
  PROVE  /\ \A i \in DOMAIN Tail(f) : i + 1 \in DOMAIN f /\ Tail(f)[i] = f[i + 1]
         /\ 1 \in DOMAIN f /\ Head(f) = f[1]
<1>1. /\ DOMAIN f = 1..Len(f) /\ Len(f) \in Nat \ {0}
      /\ Tail(f) \in Seq(Signals) /\ Len(Tail(f)) = Len(f) - 1
      /\ \A i \in 1..Len(Tail(f)) : Tail(f)[i] = f[i + 1]
      /\ Head(f) = f[1]
  BY HeadTailProperties, LenProperties, EmptySeq
<1>2. DOMAIN Tail(f) = 1..(Len(f) - 1)
  BY <1>1, LenProperties
<1> QED BY <1>1, <1>2

LEMMA AppendElements ==
  ASSUME NEW f \in Seq(Signals), NEW e \in Signals
  PROVE  \A i \in DOMAIN Append(f, e) :
           \/ i \in DOMAIN f /\ Append(f, e)[i] = f[i]
           \/ Append(f, e)[i] = e
<1>1. /\ DOMAIN f = 1..Len(f) /\ Len(f) \in Nat
      /\ Append(f, e) \in Seq(Signals) /\ Len(Append(f, e)) = Len(f) + 1
      /\ \A i \in 1..Len(f) : Append(f, e)[i] = f[i]
      /\ Append(f, e)[Len(f) + 1] = e
  BY AppendProperties, LenProperties
<1>2. DOMAIN Append(f, e) = 1..(Len(f) + 1)
  BY <1>1, LenProperties
<1> QED BY <1>1, <1>2

-----------------------------------------------------------------------------
(* Every subscriber sees the signals in order. *)

LEMMA InitOrderInv == Init => OrderInv
<1> SUFFICES ASSUME Init PROVE OrderInv
  OBVIOUS
<1>1. \A p \in Publishers : Load[p] \in Seq(Signals) /\ DOMAIN Load[p] = 1..Len(Load[p])
  BY HubAssumption, LenProperties
<1>2. TodoInv
  <2> SUFFICES ASSUME NEW p \in Publishers, NEW q \in Publishers,
                      NEW i \in DOMAIN Load[p], NEW k \in DOMAIN Load[q],
                      p = q => i < k
               PROVE  Precedes(Load[p][i], Load[q][k])
    BY DEF Init, TodoInv
  <2>1. i \in Int /\ k \in Int
    BY <1>1
  <2>2. Load[p][i] # Load[q][k]
    BY <2>1, PublishedOnce
  <2>3. ASSUME NEW r \in Publishers, Before(r, Load[q][k], Load[p][i])
        PROVE  FALSE
    <3>1. PICK m, n \in DOMAIN Load[r] : m < n /\ Load[r][m] = Load[q][k] /\ Load[r][n] = Load[p][i]
      BY <2>3 DEF Before
    <3>2. r = q /\ m = k /\ r = p /\ n = i
      BY <3>1, PublishedOnce
    <3> QED BY <2>1, <3>1, <3>2
  <2> QED BY <2>2, <2>3 DEF Precedes
<1>3. StreamInv
  <2>1. DOMAIN <<>> = {}
    OBVIOUS
  <2> QED BY <2>1 DEF Init, StreamInv, StreamOrdered, StreamAhead, StreamMatches,
                      Sorted, AllBefore, BeforeToCome
<1> QED BY <1>2, <1>3 DEF OrderInv

\* The head of g moves to the end of f, or is dropped.
LEMMA MoveHead ==
  ASSUME NEW f \in Seq(Signals), NEW g \in Seq(Signals), g # <<>>,
         Sorted(f), Sorted(g), AllBefore(f, g)
  PROVE  /\ Sorted(Append(f, Head(g))) /\ Sorted(Tail(g))
         /\ AllBefore(f, Tail(g)) /\ AllBefore(Append(f, Head(g)), Tail(g))
<1>1. Head(g) \in Signals
  BY HeadTailProperties
<1>2. \A i \in DOMAIN f : Precedes(f[i], Head(g))
  BY TailElements DEF AllBefore
<1>3. Sorted(Append(f, Head(g)))
  BY <1>1, <1>2, SortedAppend
<1>4. Sorted(Tail(g)) /\ \A i \in DOMAIN Tail(g) : Precedes(Head(g), Tail(g)[i])
  BY SortedTail
<1>5. AllBefore(f, Tail(g))
  BY TailElements DEF AllBefore
<1>6. AllBefore(Append(f, Head(g)), Tail(g))
  BY <1>1, <1>4, <1>5, AppendElements DEF AllBefore
<1> QED BY <1>3, <1>4, <1>5, <1>6

\* A signal that p has in hand and b has not been offered comes after all b
\* was offered, and before all b will be offered.
LEMMA InHand ==
  ASSUME HubInv, OrderInv, NEW p \in Publishers, NEW b \in Subscribers, PublishTo(p, b)
  PROVE  /\ Head(todo[p]) \in Signals
         /\ \A f \in {written[b], out[b], ch[b]} :
              \A i \in DOMAIN f : Precedes(f[i], Head(todo[p]))
         /\ \A q \in Publishers : \A k \in ToCome(q, b)' : Precedes(Head(todo[p]), todo'[q][k])
<1>1. /\ b \in left[p] /\ b \notin closed /\ ppc[p] = "publishing" /\ todo[p] # <<>>
      /\ todo[p] \in Seq(Signals)
      /\ UNCHANGED <<todo, ppc>>
  BY DEF PublishTo, HubInv, TypeOK, PublishInv, ClosedInv
<1>2. 1 \in DOMAIN todo[p] /\ Head(todo[p]) = todo[p][1] /\ Head(todo[p]) \in Signals
  BY <1>1, TailElements, HeadTailProperties
<1>3. 1 \in ToCome(p, b)
  BY <1>1, <1>2 DEF ToCome
<1>4. \A f \in {written[b], out[b], ch[b]} : \A i \in DOMAIN f : Precedes(f[i], Head(todo[p]))
  BY <1>2, <1>3 DEF OrderInv, StreamInv, StreamAhead, BeforeToCome
<1>5. ASSUME NEW q \in Publishers, NEW k \in ToCome(q, b)'
      PROVE  Precedes(Head(todo[p]), todo'[q][k])
  <2>1. k \in DOMAIN todo[q] /\ todo'[q][k] = todo[q][k]
    BY <1>1 DEF ToCome
  <2>2. q = p => 1 < k
    <3>1. ppc'[p] = "publishing" /\ b \notin left'[p]
      BY <1>1 DEF PublishTo, HubInv, TypeOK
    <3> QED BY <3>1 DEF ToCome
  <2> QED BY <1>2, <2>1, <2>2 DEF OrderInv, TodoInv
<1> QED BY <1>2, <1>4, <1>5

LEMMA PublishKeepsOrder ==
  ASSUME HubInv, OrderInv, NEW p \in Publishers, Publish(p)
  PROVE  OrderInv'
<1> USE DEF HubInv
<1>1. CASE PublishStart(p)
  <2>1. UNCHANGED <<todo, ch, out, written>>
    BY <1>1 DEF PublishStart
  <2>2. TodoInv'
    BY <2>1 DEF OrderInv, TodoInv
  <2>3. \A q \in Publishers, b \in Subscribers : ToCome(q, b)' \subseteq ToCome(q, b)
    BY <1>1, <2>1 DEF PublishStart, ToCome, TypeOK
  <2>4. StreamInv'
    BY <2>1, <2>3 DEF OrderInv, StreamInv, StreamOrdered, StreamAhead, StreamMatches, BeforeToCome
  <2> QED BY <2>2, <2>4 DEF OrderInv
<1>2. ASSUME NEW b \in Subscribers, PublishTo(p, b)
      PROVE  OrderInv'
  <2>1. /\ UNCHANGED <<todo, ppc, out, written>>
        /\ b \in left[p] /\ left' = [left EXCEPT ![p] = @ \ {b}]
        /\ \/ ch' = ch
           \/ ch' = [ch EXCEPT ![b] = Append(@, Head(todo[p]))]
    BY <1>2 DEF PublishTo, PublishInv, ClosedInv
  <2>2. TodoInv'
    BY <2>1 DEF OrderInv, TodoInv
  <2>3. \A q \in Publishers, c \in Subscribers : ToCome(q, c)' \subseteq ToCome(q, c)
    BY <2>1 DEF ToCome, TypeOK
  <2>4. ASSUME NEW c \in Subscribers, ch'[c] = ch[c]
        PROVE  (StreamOrdered(c) /\ StreamAhead(c) /\ StreamMatches(c))'
    BY <2>1, <2>3, <2>4 DEF OrderInv, StreamInv, StreamOrdered, StreamAhead, StreamMatches, BeforeToCome
  <2>5. ASSUME ch' = [ch EXCEPT ![b] = Append(@, Head(todo[p]))]
        PROVE  (StreamOrdered(b) /\ StreamAhead(b) /\ StreamMatches(b))'
    <3> DEFINE h == Head(todo[p])
    <3>1. /\ ch[b] \in Seq(Signals) /\ ch'[b] = Append(ch[b], h)
          /\ h \in Signals
          /\ \A f \in {written[b], out[b], ch[b]} : \A i \in DOMAIN f : Precedes(f[i], h)
          /\ \A q \in Publishers : \A k \in ToCome(q, b)' : Precedes(h, todo'[q][k])
      BY <1>2, <2>5, InHand DEF TypeOK
    <3>2. StreamOrdered(b) /\ StreamAhead(b) /\ StreamMatches(b)
      BY DEF OrderInv, StreamInv
    <3> HIDE DEF h
    <3>3. \A i \in DOMAIN ch'[b] : (i \in DOMAIN ch[b] /\ ch'[b][i] = ch[b][i]) \/ ch'[b][i] = h
      BY <3>1, AppendElements
    <3>4. StreamOrdered(b)'
      <4>1. Sorted(ch'[b])
        BY <3>1, <3>2, SortedAppend DEF StreamOrdered
      <4>2. AllBefore(written[b], ch'[b]) /\ AllBefore(out[b], ch'[b])
        BY <3>1, <3>2, <3>3 DEF StreamOrdered, AllBefore
      <4> QED BY <2>1, <3>2, <4>1, <4>2 DEF StreamOrdered
    <3>5. StreamAhead(b)'
      <4>1. BeforeToCome(ch[b], b)'
        BY <2>1, <2>3, <3>1, <3>2, <3>3 DEF StreamAhead, BeforeToCome
      <4> QED BY <2>1, <2>3, <3>2, <4>1 DEF StreamAhead, BeforeToCome
    <3> QED BY <2>1, <3>2, <3>4, <3>5 DEF StreamMatches
  <2>6. StreamInv'
    BY <2>1, <2>4, <2>5 DEF StreamInv, TypeOK
  <2> QED BY <2>2, <2>6 DEF OrderInv
<1>3. CASE PublishEnd(p)
  <2>1. /\ UNCHANGED <<left, ch, out, written>>
        /\ todo[p] # <<>> /\ todo[p] \in Seq(Signals)
        /\ todo' = [todo EXCEPT ![p] = Tail(@)]
        /\ ppc' = [ppc EXCEPT ![p] = "idle"]
    BY <1>3 DEF PublishEnd, PublishInv, TypeOK
  <2>2. \A k \in DOMAIN todo'[p] : k + 1 \in DOMAIN todo[p] /\ todo'[p][k] = todo[p][k + 1]
    BY <2>1, TailElements DEF TypeOK
  <2>3. /\ \A q \in Publishers : q # p => todo'[q] = todo[q]
        /\ \A q \in Publishers : todo[q] \in Seq(Signals) /\ todo'[q] \in Seq(Signals)
    BY <2>1, HeadTailProperties DEF TypeOK
  <2>4. \A q \in Publishers : DOMAIN todo[q] \subseteq Int /\ DOMAIN todo'[q] \subseteq Nat \ {0}
    BY <2>3, LenProperties
  <2>5. TodoInv'
    <3>1. ASSUME NEW q \in Publishers, NEW i \in DOMAIN todo'[q]
          PROVE  \E j \in DOMAIN todo[q] :
                   todo'[q][i] = todo[q][j] /\ j = (IF q = p THEN i + 1 ELSE i)
      BY <2>2, <2>3
    <3>2. SUFFICES ASSUME NEW q \in Publishers, NEW r \in Publishers,
                          NEW i \in DOMAIN todo'[q], NEW k \in DOMAIN todo'[r], q = r => i < k
                   PROVE  Precedes(todo'[q][i], todo'[r][k])
      BY DEF TodoInv
    <3>3. PICK j \in DOMAIN todo[q] :
            todo'[q][i] = todo[q][j] /\ j = (IF q = p THEN i + 1 ELSE i)
      BY <3>1
    <3>4. PICK l \in DOMAIN todo[r] :
            todo'[r][k] = todo[r][l] /\ l = (IF r = p THEN k + 1 ELSE k)
      BY <3>1
    <3>5. q = r => j < l
      BY <2>4, <3>2, <3>3, <3>4
    <3> QED BY <3>3, <3>4, <3>5 DEF OrderInv, TodoInv
  <2>6. ASSUME NEW b \in Subscribers, NEW q \in Publishers, NEW k \in ToCome(q, b)'
        PROVE  \E m \in ToCome(q, b) : todo'[q][k] = todo[q][m]
    <3>1. CASE q = p
      <4>1. k \in DOMAIN todo'[p]
        BY <3>1 DEF ToCome
      <4>2. k + 1 \in ToCome(p, b)
        BY <2>2, <2>4, <4>1 DEF ToCome
      <4> QED BY <2>2, <3>1, <4>1, <4>2
    <3>2. CASE q # p
      BY <2>1, <2>3, <3>2 DEF ToCome, TypeOK
    <3> QED BY <3>1, <3>2
  <2>7. ASSUME NEW b \in Subscribers
        PROVE  StreamAhead(b)'
    <3>1. StreamAhead(b)
      BY DEF OrderInv, StreamInv
    <3>2. ASSUME NEW f \in {written[b], out[b], ch[b]}, NEW q \in Publishers,
                 NEW k \in ToCome(q, b)', NEW i \in DOMAIN f
          PROVE  Precedes(f[i], todo'[q][k])
      BY <2>6, <3>1, <3>2 DEF StreamAhead, BeforeToCome
    <3> QED BY <2>1, <3>2 DEF StreamAhead, BeforeToCome
  <2>8. StreamInv'
    BY <2>1, <2>7 DEF OrderInv, StreamInv, StreamOrdered, StreamMatches
  <2> QED BY <2>5, <2>8 DEF OrderInv
<1> QED BY <1>1, <1>2, <1>3 DEF Publish

LEMMA ChannelKeepsOrder ==
  ASSUME HubInv, OrderInv, NEW b \in Subscribers, Forward(b) \/ TailWrite(b)
  PROVE  OrderInv'
<1>1. /\ UNCHANGED <<todo, ppc, left>>
      /\ ch[b] \in Seq(Signals) /\ out[b] \in Seq(Signals) /\ written[b] \in Seq(Signals)
  BY DEF Forward, TailWrite, pubVars, HubInv, TypeOK
<1>2. TodoInv'
  BY <1>1 DEF OrderInv, TodoInv
<1>3. \A q \in Publishers, c \in Subscribers : ToCome(q, c)' = ToCome(q, c)
  BY <1>1 DEF ToCome
<1>4. \A c \in Subscribers : StreamOrdered(c) /\ StreamAhead(c) /\ StreamMatches(c)
  BY DEF OrderInv, StreamInv
<1>5. CASE Forward(b)
  <2> DEFINE h == Head(ch[b])
  <2>1. /\ ch[b] # <<>> /\ ch' = [ch EXCEPT ![b] = Tail(@)]
        /\ \/ out' = out
           \/ h \in Match[b] /\ out' = [out EXCEPT ![b] = Append(@, h)]
        /\ UNCHANGED written
    BY <1>5 DEF Forward
  <2>2. h \in Signals
    BY <1>1, <2>1, HeadTailProperties
  <2> HIDE DEF h
  <2>3. ch'[b] = Tail(ch[b]) /\ (out'[b] = out[b] \/ (out'[b] = Append(out[b], h) /\ h \in Match[b]))
    BY <2>1 DEF HubInv, TypeOK
  <2>4. \A i \in DOMAIN ch'[b] : i + 1 \in DOMAIN ch[b] /\ ch'[b][i] = ch[b][i + 1]
    <3>1. \A i \in DOMAIN Tail(ch[b]) : i + 1 \in DOMAIN ch[b] /\ Tail(ch[b])[i] = ch[b][i + 1]
      BY <1>1, <2>1, TailElements
    <3> QED BY <2>3, <3>1
  <2>5. \A i \in DOMAIN out'[b] :
          \/ i \in DOMAIN out[b] /\ out'[b][i] = out[b][i]
          \/ out'[b][i] = ch[b][1] /\ ch[b][1] \in Match[b] /\ 1 \in DOMAIN ch[b]
    <3>1. h = ch[b][1] /\ 1 \in DOMAIN ch[b]
      BY <1>1, <2>1, TailElements DEF h
    <3>2. ASSUME out'[b] = Append(out[b], h), NEW i \in DOMAIN out'[b]
          PROVE  (i \in DOMAIN out[b] /\ out'[b][i] = out[b][i]) \/ out'[b][i] = h
      BY <1>1, <2>2, <3>2, AppendElements
    <3> QED BY <2>3, <3>1, <3>2
  <2>6. StreamOrdered(b)'
    <3>1. Sorted(ch'[b]) /\ Sorted(out'[b]) /\ AllBefore(out'[b], ch'[b])
      BY <1>1, <1>4, <2>1, <2>3, MoveHead DEF StreamOrdered, h
    <3>2. AllBefore(written[b], out'[b]) /\ AllBefore(written[b], ch'[b])
      BY <1>4, <2>4, <2>5 DEF StreamOrdered, AllBefore
    <3> QED BY <1>4, <2>1, <3>1, <3>2 DEF StreamOrdered
  <2>7. StreamAhead(b)'
    BY <1>1, <1>3, <1>4, <2>1, <2>4, <2>5 DEF StreamAhead, BeforeToCome
  <2>8. StreamMatches(b)'
    BY <1>4, <2>1, <2>5 DEF StreamMatches
  <2>9. ASSUME NEW c \in Subscribers, c # b
        PROVE  (StreamOrdered(c) /\ StreamAhead(c) /\ StreamMatches(c))'
    <3>1. ch'[c] = ch[c] /\ out'[c] = out[c] /\ written'[c] = written[c]
      BY <2>1, <2>9 DEF HubInv, TypeOK
    <3> QED BY <1>1, <1>3, <1>4, <3>1 DEF StreamOrdered, StreamAhead, StreamMatches, BeforeToCome
  <2> QED BY <1>2, <2>6, <2>7, <2>8, <2>9 DEF OrderInv, StreamInv
<1>6. CASE TailWrite(b)
  <2> DEFINE h == Head(out[b])
  <2>1. /\ out[b] # <<>> /\ out' = [out EXCEPT ![b] = Tail(@)]
        /\ written' = written \/ written' = [written EXCEPT ![b] = Append(@, h)]
        /\ UNCHANGED ch
    BY <1>6 DEF TailWrite
  <2>2. h \in Signals
    BY <1>1, <2>1, HeadTailProperties
  <2> HIDE DEF h
  <2>3. out'[b] = Tail(out[b]) /\ (written'[b] = written[b] \/ written'[b] = Append(written[b], h))
    BY <2>1 DEF HubInv, TypeOK
  <2>4. \A i \in DOMAIN out'[b] : i + 1 \in DOMAIN out[b] /\ out'[b][i] = out[b][i + 1]
    <3>1. \A i \in DOMAIN Tail(out[b]) : i + 1 \in DOMAIN out[b] /\ Tail(out[b])[i] = out[b][i + 1]
      BY <1>1, <2>1, TailElements
    <3> QED BY <2>3, <3>1
  <2>5. \A i \in DOMAIN written'[b] :
          \/ i \in DOMAIN written[b] /\ written'[b][i] = written[b][i]
          \/ written'[b][i] = out[b][1] /\ 1 \in DOMAIN out[b]
    <3>1. h = out[b][1] /\ 1 \in DOMAIN out[b]
      BY <1>1, <2>1, TailElements DEF h
    <3>2. ASSUME written'[b] = Append(written[b], h), NEW i \in DOMAIN written'[b]
          PROVE  (i \in DOMAIN written[b] /\ written'[b][i] = written[b][i]) \/ written'[b][i] = h
      BY <1>1, <2>2, <3>2, AppendElements
    <3> QED BY <2>3, <3>1, <3>2
  <2>6. StreamOrdered(b)'
    <3>1. Sorted(out'[b]) /\ Sorted(written'[b]) /\ AllBefore(written'[b], out'[b])
      BY <1>1, <1>4, <2>1, <2>3, MoveHead DEF StreamOrdered, h
    <3>2. AllBefore(written'[b], ch[b]) /\ AllBefore(out'[b], ch[b])
      BY <1>4, <2>4, <2>5 DEF StreamOrdered, AllBefore
    <3> QED BY <1>4, <2>1, <3>1, <3>2 DEF StreamOrdered
  <2>7. StreamAhead(b)'
    BY <1>1, <1>3, <1>4, <2>1, <2>4, <2>5 DEF StreamAhead, BeforeToCome
  <2>8. StreamMatches(b)'
    BY <1>4, <2>4, <2>5 DEF StreamMatches
  <2>9. ASSUME NEW c \in Subscribers, c # b
        PROVE  (StreamOrdered(c) /\ StreamAhead(c) /\ StreamMatches(c))'
    <3>1. ch'[c] = ch[c] /\ out'[c] = out[c] /\ written'[c] = written[c]
      BY <2>1, <2>9 DEF HubInv, TypeOK
    <3> QED BY <1>1, <1>3, <1>4, <3>1 DEF StreamOrdered, StreamAhead, StreamMatches, BeforeToCome
  <2> QED BY <1>2, <2>6, <2>7, <2>8, <2>9 DEF OrderInv, StreamInv
<1> QED BY <1>5, <1>6

LEMMA NextOrderInv == HubInv /\ OrderInv /\ [Next]_vars => OrderInv'
<1> SUFFICES ASSUME HubInv, OrderInv, [Next]_vars PROVE OrderInv'
  OBVIOUS
<1>1. ASSUME UNCHANGED <<todo, ppc, left, ch, out, written>>
      PROVE  OrderInv'
  BY <1>1 DEF OrderInv, TodoInv, StreamInv, StreamOrdered, StreamAhead, StreamMatches,
              BeforeToCome, ToCome
<1>2. ASSUME NEW b \in Subscribers,
             \/ Subscribe(b) \/ ForwardEnd(b) \/ ForwardCtxDone(b) \/ ForwardCancel(b)
             \/ TailEnd(b) \/ TailReturn(b) \/ ClientLeaves(b) \/ ContextEnds(b)
      PROVE  UNCHANGED <<todo, ppc, left, ch, out, written>>
  BY <1>2 DEF Subscribe, ForwardEnd, ForwardCtxDone, ForwardCancel, TailEnd, TailReturn,
              ClientLeaves, ContextEnds, pubVars
<1>3. CASE UNCHANGED vars
  BY <1>1, <1>3 DEF vars, pubVars
<1> QED
  BY <1>1, <1>2, <1>3, PublishKeepsOrder, ChannelKeepsOrder DEF Next, Forwarder, Handler

\* A subscriber sees what passes its filter, each signal once and those of one
\* publisher in the order of their publication, however the hub's steps and
\* the forwarders' interleave (hub.go:34-84).
THEOREM HubTailInOrder == Spec => []TailInOrder
<1>1. OrderInv /\ HubInv => TailInOrder
  BY DEF OrderInv, StreamInv, StreamOrdered, StreamMatches, Sorted, Precedes, TailInOrder
<1> QED BY <1>1, InitHubInv, NextHubInv, InitOrderInv, NextOrderInv, PTL DEF Spec
=============================================================================
