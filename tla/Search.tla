-------------------------------- MODULE Search --------------------------------
(***************************************************************************)
(* From what a client sends to what a reader finds: deliveries over HTTP,  *)
(* websocket, TCP and plain text are dispatched event by event and become   *)
(* rows of the queryable output, while the log page of the console walks    *)
(* through the results of a search, one page at a time, over /api/signals.  *)
(* The filesystem output reads its day files one after the other, the SQL   *)
(* outputs count and then select; rows are written in between.              *)
(*                                                                          *)
(* The dispatcher (module Dispatcher) is a queue here. It may refuse an     *)
(* event, which no handler looks at, and lose a batch that the output does  *)
(* not write. The reader waits for a page before asking for another. Rows   *)
(* of one time may be listed in any order, in each query anew.              *)
(***************************************************************************)
EXTENDS Codec, SequencesExt

CONSTANTS
  Load,         \* the deliveries in their order, [via, addr, v]; v is a set of
                \* texts when via is plain
  Searches,     \* what the reader may ask for
  Backends,
  Limit,        \* the rows of a page
  QueueSize,    \* the events on their way: the dispatcher's channel and batch
  Day,          \* Day[t]: the day of time t
  Minute,       \* the ticks in a minute, the unit of the console's times
  Times, MaxQueries, MaxLost   \* bounds

Deliveries == DOMAIN Load

\* The JSON texts of a delivery, and the events its sender put into them that
\* have a trace, by which the properties know them again.
Bodies(d) == IF d.via = "plain" THEN {} ELSE Range(d.v.items) \cup {d.v}
Sent(d) == {x.f : x \in {y \in Bodies(d) : y.shape = "object" /\ y.f.trace # ""}}

ASSUME SearchAssumption ==
  /\ Limit \in Nat \ {0} /\ QueueSize \in Nat \ {0} /\ MaxQueries \in Nat /\ MaxLost \in Nat
  /\ Len(Load) \in Nat /\ Deliveries = 1..Len(Load)
  /\ DOMAIN Day = Times /\ Times \subseteq Nat
  /\ \E t \in Times : Len(Load) <= t /\ \A u \in Times : u <= t
  /\ Backends \subseteq {"filesystem", "mysql", "clickhouse"}
  /\ Minute \in Nat \ {0} /\ Minute % Milli = 0

\* The console's form gives minutes, and texts.
ASSUME SearchesAssumption ==
  \A s \in Searches :
    /\ s.from \in Nat /\ s.from % Minute = 0 /\ s.to \in Nat /\ s.to % Minute = 0
    /\ {s.kind, s.trace, s.word} \cup s.levels \cup s.services \subseteq Texts
    /\ IsFiniteSet(s.services)

\* What is delivered is text, or JSON.
ASSUME DeliveriesAssumption ==
  \A d \in Range(Load) :
    /\ d.via \in {"http", "json", "plain"}
    /\ d.via = "plain" => d.v \subseteq Texts
    /\ \A x \in Bodies(d) :
         /\ x.shape \in {"object", "array", "null", "scalar"}
         /\ x.f \in EventFields /\ (x.shape # "object" => x.f = NoFields)
    /\ d.via = "http" => /\ Len(d.v.items) \in Nat /\ DOMAIN d.v.items = 1..Len(d.v.items)
                         /\ d.v.shape \in {"null", "scalar"} => d.v.items = <<>>

\* A trace names one event of a delivery, and no event of a batch with a bad
\* item has the trace of what is around them.
ASSUME TracesAssumption ==
  /\ \A d \in Range(Load) : \A f, g \in Sent(d) : f.trace = g.trace => f = g
  /\ \A d \in Range(Load) : d.via = "http" =>
       \/ \A x \in Range(d.v.items) : Decodes(x)
       \/ \A x \in Range(d.v.items) : x.f.trace # "" => x.f.trace # d.v.f.trace

VARIABLES
  backend,  \* which output is queried
  fate,     \* of each delivery that has come: the answer (sent when all is
            \* dispatched), the events it is made into, the next to dispatch
  queue,    \* [d, k, e]: event e, the k-th of delivery d, on its way
  rows,     \* what is stored, in the order it was written
  now,      \* the clock: each delivery without a time gets its own
  q,        \* the search
  offset,   \* state.logOffset
  more,     \* state.logHasMore
  rpc,      \* the request: idle, scan, count, select, respond
  days,     \* filesystem: days still to read
  found,    \* rows found so far
  total,    \* SQL: the count
  queries,  \* requests made, for the bound
  lost,     \* events and batches lost, for the bound
  origin,   \* history: what was in the queue of each row
  began,    \* history: how many rows there were when this request began
  old,      \* history: rows there when the search began
  seen,     \* history: rows shown since then
  raced     \* history: a row was written between a count and its select

rowVars == <<fate, queue, rows, now, lost, origin>>
pageVars == <<q, offset, more>>
askVars == <<rpc, days, found, total>>
readVars == <<pageVars, askVars, queries, began, old, seen>>
vars == <<backend, rowVars, readVars, raced>>

NoSearch == SearchFor("", 0, 0, {}, {}, {}, "", "")

TypeOK ==
  /\ backend \in Backends /\ Len(fate) <= Len(Load) /\ Len(queue) <= QueueSize
  /\ Len(origin) = Len(rows)
  /\ offset \in Nat /\ more \in BOOLEAN
  /\ rpc \in {"idle", "scan", "count", "select", "respond"}
  /\ found \subseteq DOMAIN rows /\ total \in Nat /\ began \in 0..Len(rows)
  /\ queries \in 0..MaxQueries /\ lost \in 0..MaxLost
  /\ old \subseteq DOMAIN rows /\ seen \subseteq DOMAIN rows /\ raced \in BOOLEAN

Init ==
  /\ backend \in Backends
  /\ fate = <<>> /\ queue = <<>> /\ rows = <<>> /\ now = Max(Times) - Len(Load)
  /\ q = NoSearch /\ offset = 0 /\ more = FALSE
  /\ rpc = "idle" /\ days = {} /\ found = {} /\ total = 0
  /\ queries = 0 /\ lost = 0
  /\ origin = <<>> /\ began = 0 /\ old = {} /\ seen = {} /\ raced = FALSE

-----------------------------------------------------------------------------
(* Deliveries *)

\* What a delivery is answered and made into.
Decoded(d, t) ==
  CASE d.via = "http" -> Ingest(d.addr, d.v, t)
    [] d.via = "plain" -> [status |-> 202, evs |-> <<Plain(d.addr, d.v, t)>>]
    [] d.via = "json" ->
         IF Decodes(d.v) THEN [status |-> 202, evs |-> <<Decode(d.addr, d.v, t)>>]
         ELSE [status |-> 400, evs |-> <<>>]

\* A delivery comes, while others may still be being dispatched.
Receive ==
  /\ Len(fate) < Len(Load)
  /\ now' = now + 1
  /\ LET got == Decoded(Load[Len(fate) + 1], now') IN
     fate' = Append(fate, [status |-> got.status, evs |-> got.evs, next |-> 1])
  /\ UNCHANGED <<backend, queue, rows, lost, origin, readVars, raced>>

\* Mutant: there is always room.
DispatchUnbounded(d) ==
  /\ fate[d].next \in DOMAIN fate[d].evs
  /\ fate' = [fate EXCEPT ![d].next = @ + 1]
  /\ LET k == fate[d].next IN
     queue' = Append(queue, [d |-> d, k |-> k, e |-> Normalize(fate[d].evs[k], now)])
  /\ UNCHANGED <<backend, rows, now, lost, origin, readVars, raced>>

\* Its handler dispatches the events one by one, and passes over the error of
\* an event whose context has ended; one that finds the queue full is dropped.
Dispatch(d) ==
  /\ fate[d].next \in DOMAIN fate[d].evs
  /\ fate' = [fate EXCEPT ![d].next = @ + 1]
  /\ LET k == fate[d].next
         e == Normalize(fate[d].evs[k], now)
     IN \/ /\ Len(queue) < QueueSize /\ UNCHANGED lost
           /\ queue' = Append(queue, [d |-> d, k |-> k, e |-> e])
        \/ lost < MaxLost /\ lost' = lost + 1 /\ UNCHANGED queue
  /\ UNCHANGED <<backend, rows, now, origin, readVars, raced>>

\* The filesystem is written line by line, a database batch by batch.
Write(n) ==
  /\ backend = "filesystem" => n = 1
  /\ rows' = rows \o [i \in 1..n |-> Keep(backend, queue[i].e)]
  /\ origin' = origin \o SubSeq(queue, 1, n)
  /\ queue' = SubSeq(queue, n + 1, Len(queue))
  /\ raced' = (raced \/ rpc = "select")
  /\ UNCHANGED <<backend, fate, now, lost, readVars>>

\* The output fails: a batch is not written, or its remaining lines are not.
WriteFails(n) ==
  /\ lost < MaxLost /\ lost' = lost + 1
  /\ queue' = SubSeq(queue, n + 1, Len(queue))
  /\ UNCHANGED <<backend, fate, rows, now, origin, readVars, raced>>

-----------------------------------------------------------------------------
(* A request *)

Matches == {i \in DOMAIN rows : Match(backend, q', rows[i])}

\* searchLogs, from row o on, and /api/signals as far as the output.
AskFor(o) ==
  /\ rpc = "idle" /\ queries < MaxQueries
  /\ queries' = queries + 1
  /\ offset' = o
  /\ rpc' = IF backend = "filesystem" THEN "scan" ELSE "count"
  /\ days' = IF backend = "filesystem" THEN {Day[rows[i].ts] : i \in DOMAIN rows} ELSE {}
  /\ found' = {} /\ total' = 0
  /\ began' = Len(rows)
  /\ UNCHANGED <<backend, rowVars, more>>

\* The reader starts a search, the first one or another,
SearchLogs(s) ==
  /\ q' = s
  /\ AskFor(0)
  /\ old' = Matches /\ seen' = {} /\ raced' = FALSE

\* ... or turns the page. The form is read anew each time: one that has been
\* changed gives a page of another search, whose first pages were not shown.
Turn(o, s) ==
  /\ q' = s
  /\ AskFor(o)
  /\ IF s = q THEN UNCHANGED <<old, seen>> ELSE old' = {} /\ seen' = {}
  /\ UNCHANGED raced

NextPage(s) == more /\ Turn(offset + Limit, s)

PrevPage(s) == offset > 0 /\ Turn(IF offset > Limit THEN offset - Limit ELSE 0, s)

\* Mutant: reading stops as soon as there are enough rows.
ScanDayStopsEarly ==
  /\ rpc = "scan" /\ days # {}
  /\ LET d == Max(days) IN
     /\ found' = found \cup {i \in DOMAIN rows : Day[rows[i].ts] = d /\ Match(backend, q, rows[i])}
     /\ days' = IF Cardinality(found') >= offset + Limit THEN {} ELSE days \ {d}
  /\ UNCHANGED <<backend, rowVars, pageVars, rpc, total, queries, began, old, seen, raced>>

\* The filesystem reads one day file, newest first.
ScanDay ==
  /\ rpc = "scan" /\ days # {}
  /\ LET d == Max(days) IN
     /\ found' = found \cup {i \in DOMAIN rows : Day[rows[i].ts] = d /\ Match(backend, q, rows[i])}
     /\ days' = days \ {d}
  /\ UNCHANGED <<backend, rowVars, pageVars, rpc, total, queries, began, old, seen, raced>>

ScanDone ==
  /\ rpc = "scan" /\ days = {}
  /\ rpc' = "respond" /\ total' = Cardinality(found)
  /\ UNCHANGED <<backend, rowVars, pageVars, days, found, queries, began, old, seen, raced>>

CountRows ==
  /\ rpc = "count"
  /\ total' = Cardinality({i \in DOMAIN rows : Match(backend, q, rows[i])})
  /\ rpc' = "select"
  /\ UNCHANGED <<backend, rowVars, pageVars, days, found, queries, began, old, seen, raced>>

SelectRows ==
  /\ rpc = "select"
  /\ found' = {i \in DOMAIN rows : Match(backend, q, rows[i])}
  /\ rpc' = "respond"
  /\ UNCHANGED <<backend, rowVars, pageVars, days, total, queries, began, old, seen, raced>>

\* The pages that start at row offset of the rows F, newest first; rows of one
\* time are in any order.
Newer(F, i) == {j \in F : rows[j].ts > rows[i].ts}
AsNew(F, i) == {j \in F : rows[j].ts >= rows[i].ts}

PageLength(F) == LET left == Cardinality(F) - offset IN IF left < Limit THEN left ELSE Limit

Pages(F) ==
  {p \in [1..PageLength(F) -> F] :
     /\ \A k, l \in DOMAIN p : p[k] = p[l] => k = l
     /\ \A k \in DOMAIN p :
          Cardinality(Newer(F, p[k])) < offset + k /\ offset + k <= Cardinality(AsNew(F, p[k]))}

\* The filesystem knows there are more by the rows it has left, the SQL
\* outputs by the count.
Respond ==
  /\ rpc = "respond"
  /\ \E page \in Pages(found) :
       /\ more' = IF backend = "filesystem" THEN offset + Limit < Cardinality(found)
                  ELSE offset + Len(page) < total
       /\ seen' = seen \cup Range(page)
  /\ rpc' = "idle" /\ found' = {} /\ total' = 0 /\ began' = 0
  /\ UNCHANGED <<backend, rowVars, q, offset, days, queries, old, raced>>

Next ==
  \/ Receive
  \/ \E d \in DOMAIN fate : Dispatch(d)
  \/ \E n \in DOMAIN queue : Write(n) \/ WriteFails(n)
  \/ \E s \in Searches : SearchLogs(s) \/ NextPage(s) \/ PrevPage(s)
  \/ ScanDay \/ ScanDone \/ CountRows \/ SelectRows
  \/ Respond

Spec == Init /\ [][Next]_vars

-----------------------------------------------------------------------------
(* Properties *)

\* However bad some items of a batch are, however many of its events the
\* dispatcher refuses and however many requests are served at once: an item is
\* stored only when all of its batch decode and the batch is answered with a
\* 202, items are stored in the order they were sent in, each at most once, and
\* nothing is of a delivery that was answered with a 400. Items are told apart
\* by their traces (json.go:123-162, app.go:156-199). It does not say that all
\* are stored: a 202 does not mean that.
BatchIsWhole ==
  /\ \A i, j \in DOMAIN rows :
       i < j /\ origin[i].d = origin[j].d => origin[i].k < origin[j].k
  /\ \A i \in DOMAIN rows :
       LET d == origin[i].d
           items == Load[d].v.items
       IN /\ fate[d].status = 202
          /\ Load[d].via = "http" /\ rows[i].trace \in {x.f.trace : x \in Range(items)} \ {""}
               => /\ \A x \in Range(items) : Decodes(x)
                  /\ rows[i].trace = items[origin[i].k].f.trace

\* The search that names what the sender put into an event, its level in
\* small letters and `info' when it had none, its host or, if it named none,
\* the sender's address in the two ways the inputs write it, the minute it was
\* of, its trace and any of the texts in its message, finds the event in
\* whatever output is queried, although each keeps the time in its own way; and
\* so does a tail with that filter. Excepted are keywords with characters that
\* are special to LIKE, in MySQL (json.go:45-102, decoder/json.go:34-78,
\* app.go:193-197, normalize.go:37-54 and the three Query methods).
Canonical(addr, f, w) ==
  SearchFor(IF f.kind = "" THEN "log" ELSE f.kind,
            IF f.ts = 0 THEN 0 ELSE Whole(f.ts, Minute),
            IF f.ts = 0 THEN 0 ELSE Whole(f.ts, Minute) + Minute,
            {IF f.level = "" THEN "info" ELSE Lower(f.level)}, {f.service} \ {""},
            IF f.host = "" THEN {RemoteHost(addr), StripPort(addr)} ELSE {f.host},
            f.trace, w)

FoundByItsFields ==
  \A i \in DOMAIN rows :
    LET D == Load[origin[i].d] IN
    \A f \in Sent(D) : rows[i].trace = f.trace =>
      \A w \in f.msg \cup {""} :
        LET s == Canonical(D.addr, f, w) IN
        /\ ~(backend = "mysql" /\ w \in DOMAIN Patterns) => Match(backend, s, rows[i])
        /\ MatchTail(s, origin[i].e)

\* What a search asks for.
Wanted(s, e) ==
  /\ e.kind = QueryKind(s)
  /\ s.from # 0 => s.from <= e.ts
  /\ s.to # 0 => e.ts <= s.to
  /\ s.levels # {} => e.level \in s.levels
  /\ s.services # {} => e.service \in s.services
  /\ s.hosts # {} => e.host \in s.hosts
  /\ s.trace # "" => e.trace = s.trace
  /\ s.word # "" => \E w \in e.msg : Lower(w) = Lower(s.word)

\* The output understands the keyword: it is none that LIKE takes for a
\* pattern, or that differs in case by more than letters of ASCII.
Reads(b, s) ==
  /\ b = "mysql" => s.word \notin DOMAIN Patterns
  /\ b = "clickhouse" =>
       \A x \in Texts : Lower(x) = Lower(s.word) => AsciiLower(x) = AsciiLower(s.word)

\* The output passes over none of the conditions, and MySQL's collation takes
\* no other text for one of them.
Honours(b, s) ==
  b # "filesystem" =>
    /\ s.hosts = {} /\ Cardinality(s.services) <= 1
    /\ b = "clickhouse" => s.levels = {} /\ s.trace = ""
    /\ b = "mysql" =>
         /\ s.word \notin DOMAIN Patterns
         /\ \A x \in Texts :
              /\ Collate(x) = Collate(s.word) => Lower(x) = Lower(s.word)
              /\ \A y \in {QueryKind(s), s.trace} \cup s.levels \cup s.services :
                   Collate(x) = Collate(y) => x = y

\* A request is answered with every row that was there when it began and that,
\* as it was sent and before the output kept its time in its own way, is what
\* the search asks for, whatever is written meanwhile; and with no row that the
\* search does not ask for, as the reader is shown it. The first excepts
\* keywords the output does not understand, the second searches with conditions
\* it passes over: these differ between the outputs (filesystem.go:134-216,
\* mysql.go:115-185, clickhouse.go:107-165).
AnswerIsRight ==
  rpc = "respond" =>
    /\ Reads(backend, q) => \A i \in 1..began : Wanted(q, origin[i].e) => i \in found
    /\ Honours(backend, q) => \A i \in found : Wanted(q, rows[i])

\* A reader who turns the pages to the last one, and leaves the form alone
\* meanwhile, has been shown every row that
\* was there when the search began and shares its time with no other, however
\* many rows are written meanwhile; with the SQL outputs, unless one was
\* written between a count and its select (app.js:807-862,
\* filesystem.go:134-191, mysql.go:148-185, clickhouse.go:130-165).
Ended == rpc = "idle" /\ ~more /\ queries > 0
Untied == {i \in old : \A j \in DOMAIN rows : j # i => rows[j].ts # rows[i].ts}

PagesCoverOld ==
  Ended /\ (backend = "filesystem" \/ ~raced) => old \cap Untied \subseteq seen
=============================================================================
