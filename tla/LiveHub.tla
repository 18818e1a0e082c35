------------------------------ MODULE LiveHub ------------------------------
(***************************************************************************)
(* The live hub of the server's console: goroutines that ingest signals    *)
(* publish each one to every subscriber under a read lock, without ever    *)
(* waiting for a subscriber; each subscriber (a /api/tail websocket) has a *)
(* forwarder goroutine that filters from the hub's channel into the        *)
(* subscriber's own, and a handler that writes that channel to the client. *)
(*                                                                         *)
(* A signal is published once. Each subscriber subscribes once: map keys   *)
(* (Hub.next) are never used again.                                        *)
(***************************************************************************)
EXTENDS Integers, Sequences, FiniteSets

CONSTANTS
  Signals,
  Publishers,  \* goroutines that call Publish
  Load,        \* Load[p]: what p publishes, in order
  Subscribers,
  Match,       \* Match[b]: the signals that pass b's filter
  Capacity     \* of both channels of a subscriber; 128 in the code

ASSUME HubAssumption ==
  /\ Load \in [Publishers -> Seq(Signals)]
  /\ Match \in [Subscribers -> SUBSET Signals]
  /\ Capacity \in Nat \ {0}

ASSUME PublishedOnce ==
  \A p, q \in Publishers : \A i \in DOMAIN Load[p], j \in DOMAIN Load[q] :
    Load[p][i] = Load[q][j] => p = q /\ i = j

VARIABLES
  todo,      \* todo[p]: what p has still to publish, the current one first
  ppc,       \* idle, publishing (holding the read lock), panicked
  left,      \* left[p]: the subscribers Publish has still to visit
  subs,      \* the keys of Hub.subs
  ch,        \* ch[b]: the hub's channel to b
  closed,    \* the hub's channels that have been closed
  fpc,       \* b's forwarder: off, recv, cancel, done
  out,       \* out[b]: the channel from the forwarder to the handler
  hpc,       \* b's handler: off, tail, cancel, done
  ctxDone,   \* subscribers whose request context is done
  gone,      \* subscribers whose client no longer reads: writes fail
  written    \* written[b]: history: what the handler wrote to the client

pubVars == <<todo, ppc, left>>
subVars == <<subs, closed>>
vars == <<pubVars, subVars, ch, fpc, out, hpc, ctxDone, gone, written>>

TypeOK ==
  /\ todo \in [Publishers -> Seq(Signals)]
  /\ ppc \in [Publishers -> {"idle", "publishing", "panicked"}]
  /\ left \in [Publishers -> SUBSET Subscribers]
  /\ subs \subseteq Subscribers /\ closed \subseteq Subscribers
  /\ ch \in [Subscribers -> Seq(Signals)]
  /\ fpc \in [Subscribers -> {"off", "recv", "cancel", "done"}]
  /\ out \in [Subscribers -> Seq(Signals)]
  /\ \A b \in Subscribers : Len(ch[b]) <= Capacity /\ Len(out[b]) <= Capacity
  /\ hpc \in [Subscribers -> {"off", "tail", "cancel", "done"}]
  /\ ctxDone \subseteq Subscribers /\ gone \subseteq Subscribers
  /\ written \in [Subscribers -> Seq(Signals)]

Init ==
  /\ todo = Load
  /\ ppc = [p \in Publishers |-> "idle"]
  /\ left = [p \in Publishers |-> {}]
  /\ subs = {} /\ closed = {}
  /\ ch = [b \in Subscribers |-> <<>>]
  /\ fpc = [b \in Subscribers |-> "off"]
  /\ out = [b \in Subscribers |-> <<>>]
  /\ hpc = [b \in Subscribers |-> "off"]
  /\ ctxDone = {} /\ gone = {}
  /\ written = [b \in Subscribers |-> <<>>]

-----------------------------------------------------------------------------
(* Publish *)

\* The write lock is free to take: nobody holds the read lock. (The write
\* lock itself is held for one step only, so the read lock is always free.)
Unlocked == \A p \in Publishers : ppc[p] # "publishing"

PublishStart(p) ==
  /\ ppc[p] = "idle"
  /\ todo[p] # <<>>
  /\ ppc' = [ppc EXCEPT ![p] = "publishing"]
  /\ left' = [left EXCEPT ![p] = subs]
  /\ UNCHANGED <<todo, subVars, ch, fpc, out, hpc, ctxDone, gone, written>>

\* Mutant: a send that waits for room in the channel.
PublishToBlocking(p, b) ==
  /\ b \in left[p]
  /\ left' = [left EXCEPT ![p] = @ \ {b}]
  /\ Len(ch[b]) < Capacity
  /\ ch' = [ch EXCEPT ![b] = Append(@, Head(todo[p]))]
  /\ UNCHANGED <<todo, ppc, subVars, fpc, out, hpc, ctxDone, gone, written>>

\* One subscriber, in any order (a map's): a send that never waits. A send on
\* a closed channel panics.
PublishTo(p, b) ==
  /\ b \in left[p]
  /\ left' = [left EXCEPT ![p] = @ \ {b}]
  /\ ppc' = IF b \in closed THEN [ppc EXCEPT ![p] = "panicked"] ELSE ppc
  /\ ch' = IF b \notin closed /\ Len(ch[b]) < Capacity
             THEN [ch EXCEPT ![b] = Append(@, Head(todo[p]))] ELSE ch
  /\ UNCHANGED <<todo, subVars, fpc, out, hpc, ctxDone, gone, written>>

PublishEnd(p) ==
  /\ ppc[p] = "publishing"
  /\ left[p] = {}
  /\ ppc' = [ppc EXCEPT ![p] = "idle"]
  /\ todo' = [todo EXCEPT ![p] = Tail(@)]
  /\ UNCHANGED <<left, subVars, ch, fpc, out, hpc, ctxDone, gone, written>>

Publish(p) ==
  PublishStart(p) \/ (\E b \in Subscribers : PublishTo(p, b)) \/ PublishEnd(p)

-----------------------------------------------------------------------------
(* Subscribe and the forwarder *)

Subscribe(b) ==
  /\ hpc[b] = "off"
  /\ Unlocked
  /\ subs' = subs \cup {b}
  /\ hpc' = [hpc EXCEPT ![b] = "tail"]
  /\ fpc' = [fpc EXCEPT ![b] = "recv"]
  /\ UNCHANGED <<pubVars, closed, ch, out, ctxDone, gone, written>>

\* Mutant: the cancel function does not take the lock.
CancelUnlocked(b) ==
  /\ subs' = subs \ {b}
  /\ closed' = closed \cup ({b} \cap subs)

\* Mutant: the cancel function closes the channel but does not delete it.
CancelNoDelete(b) ==
  /\ Unlocked
  /\ closed' = closed \cup ({b} \cap subs)
  /\ UNCHANGED subs

\* The cancel function; both the forwarder and the handler call it.
Cancel(b) ==
  /\ Unlocked
  /\ subs' = subs \ {b}
  /\ closed' = closed \cup ({b} \cap subs)

\* Mutant: the filter is not applied.
ForwardUnfiltered(b) ==
  /\ fpc[b] = "recv"
  /\ ch[b] # <<>>
  /\ ch' = [ch EXCEPT ![b] = Tail(@)]
  /\ out' = IF Len(out[b]) < Capacity
              THEN [out EXCEPT ![b] = Append(@, Head(ch[b]))] ELSE out
  /\ UNCHANGED <<pubVars, subVars, fpc, hpc, ctxDone, gone, written>>

\* A signal from the hub; it goes on unless filtered or out is full.
Forward(b) ==
  /\ fpc[b] = "recv"
  /\ ch[b] # <<>>
  /\ ch' = [ch EXCEPT ![b] = Tail(@)]
  /\ LET s == Head(ch[b]) IN
       out' = IF s \in Match[b] /\ Len(out[b]) < Capacity
                THEN [out EXCEPT ![b] = Append(@, s)] ELSE out
  /\ UNCHANGED <<pubVars, subVars, fpc, hpc, ctxDone, gone, written>>

\* A closed channel that is empty ends the forwarder, which closes out.
ForwardEnd(b) ==
  /\ fpc[b] = "recv"
  /\ ch[b] = <<>> /\ b \in closed
  /\ fpc' = [fpc EXCEPT ![b] = "done"]
  /\ UNCHANGED <<pubVars, subVars, ch, out, hpc, ctxDone, gone, written>>

ForwardCtxDone(b) ==
  /\ fpc[b] = "recv"
  /\ b \in ctxDone
  /\ fpc' = [fpc EXCEPT ![b] = "cancel"]
  /\ UNCHANGED <<pubVars, subVars, ch, out, hpc, ctxDone, gone, written>>

ForwardCancel(b) ==
  /\ fpc[b] = "cancel"
  /\ Cancel(b)
  /\ fpc' = [fpc EXCEPT ![b] = "done"]
  /\ UNCHANGED <<pubVars, ch, out, hpc, ctxDone, gone, written>>

Forwarder(b) ==
  Forward(b) \/ ForwardEnd(b) \/ ForwardCtxDone(b) \/ ForwardCancel(b)

-----------------------------------------------------------------------------
(* The handler of /api/tail *)

\* A write to a client that is gone, or under a done context, fails and ends
\* the loop; so does the end of the closed channel.
TailWrite(b) ==
  /\ hpc[b] = "tail"
  /\ out[b] # <<>>
  /\ out' = [out EXCEPT ![b] = Tail(@)]
  /\ IF b \in gone \cup ctxDone
       THEN hpc' = [hpc EXCEPT ![b] = "cancel"] /\ UNCHANGED written
       ELSE /\ written' = [written EXCEPT ![b] = Append(@, Head(out[b]))]
            /\ UNCHANGED hpc
  /\ UNCHANGED <<pubVars, subVars, ch, fpc, ctxDone, gone>>

TailEnd(b) ==
  /\ hpc[b] = "tail"
  /\ out[b] = <<>> /\ fpc[b] = "done"
  /\ hpc' = [hpc EXCEPT ![b] = "cancel"]
  /\ UNCHANGED <<pubVars, subVars, ch, fpc, out, ctxDone, gone, written>>

\* The deferred cancel; returning from the handler ends its context.
TailReturn(b) ==
  /\ hpc[b] = "cancel"
  /\ Cancel(b)
  /\ hpc' = [hpc EXCEPT ![b] = "done"]
  /\ ctxDone' = ctxDone \cup {b}
  /\ UNCHANGED <<pubVars, ch, fpc, out, gone, written>>

Handler(b) == TailWrite(b) \/ TailEnd(b) \/ TailReturn(b)

\* The client disconnects. The connection was hijacked by the websocket
\* library, so this does not end the context of the request.
ClientLeaves(b) ==
  /\ hpc[b] = "tail"
  /\ gone' = gone \cup {b}
  /\ UNCHANGED <<pubVars, subVars, ch, fpc, out, hpc, ctxDone, written>>

\* A context that ends by itself: not the case for /api/tail, but Subscribe
\* takes any context.
ContextEnds(b) ==
  /\ hpc[b] = "tail"
  /\ ctxDone' = ctxDone \cup {b}
  /\ UNCHANGED <<pubVars, subVars, ch, fpc, out, hpc, gone, written>>

Next ==
  \/ \E p \in Publishers : Publish(p)
  \/ \E b \in Subscribers : Subscribe(b) \/ Forwarder(b) \/ Handler(b)
  \/ \E b \in Subscribers : ClientLeaves(b) \/ ContextEnds(b)

Spec == Init /\ [][Next]_vars

\* Publishers and the hub's own goroutines are scheduled; a waiting writer
\* keeps new readers out of the RWMutex, so a cancel that waits gets its turn.
\* Handlers get no fairness before they cancel: a client may read as slowly
\* as it likes.
Fairness ==
  /\ \A p \in Publishers : WF_vars(Publish(p))
  /\ \A b \in Subscribers :
       /\ WF_vars(Forward(b) \/ ForwardEnd(b) \/ ForwardCtxDone(b))
       /\ SF_vars(ForwardCancel(b))
       /\ SF_vars(TailReturn(b))

FairSpec == Spec /\ Fairness

-----------------------------------------------------------------------------
(* Properties *)

\* Publish never sends on a closed channel, which would bring the server
\* down: channels are closed under the write lock only (hub.go:34-59).
NoPanic == \A p \in Publishers : ppc[p] # "panicked"

\* A subscriber sees what passes its filter, at most once, and the signals of
\* one publisher in the order they were published (hub.go:34-84).
Before(p, s, t) ==
  \E i, j \in DOMAIN Load[p] : i < j /\ Load[p][i] = s /\ Load[p][j] = t

TailInOrder ==
  \A b \in Subscribers : \A i \in DOMAIN written[b] :
    /\ written[b][i] \in Match[b]
    /\ \A j \in DOMAIN written[b] : i < j =>
         /\ written[b][i] # written[b][j]
         /\ \A p \in Publishers : ~Before(p, written[b][j], written[b][i])

\* Ingestion never waits for a console: every Publish returns even when no
\* subscriber reads (hub.go:34-43).
PublishReturns ==
  \A p \in Publishers : (ppc[p] = "publishing") ~> (ppc[p] = "idle")

\* When a handler ends, its forwarder ends as well and the hub forgets the
\* subscriber (hub.go:53-84, api.go:140-149).
NoLeak ==
  \A b \in Subscribers : (hpc[b] = "cancel") ~> (fpc[b] = "done" /\ b \notin subs)
=============================================================================
