-------------------------------- MODULE Codec --------------------------------
(***************************************************************************)
(* What the server makes of the bytes it is sent: events out of JSON       *)
(* objects, batches and text lines, and their normalisation; and what each *)
(* output and the live tail take a search for.                             *)
(*                                                                         *)
(* A JSON text is [shape, f, items]: f holds the fields of an object, "",  *)
(* {} or 0 for one that is missing or of a wrong type; items are the       *)
(* elements of an array or those of the field `events' of an object. A     *)
(* message is the set of the texts in it that somebody may look for; a     *)
(* time is a number of ticks, 0 for none.                                  *)
(***************************************************************************)
EXTENDS Integers, Sequences, FiniteSets, Functions

CONSTANTS
  Texts,          \* kinds, levels, services, traces, words and keywords
  Lower(_),       \* strings.ToLower
  AsciiLower(_),  \* the same, for the letters of ASCII only
  Collate(_),     \* MySQL's collation: equal for what it takes for equal
  Patterns,       \* Patterns[k]: what LIKE finds for k, for the keywords with
                  \* a %, a _ or a backslash in them
  Milli           \* the ticks in a millisecond

\* What differs in the case of letters of ASCII differs in case, and MySQL
\* passes over case.
ASSUME TextsAssumption ==
  /\ {"", "log", "info"} \subseteq Texts /\ \A x \in Texts : Lower(x) \in Texts
  /\ \A x, y \in Texts : AsciiLower(x) = AsciiLower(y) => Lower(x) = Lower(y)
  /\ \A x, y \in Texts : Lower(x) = Lower(y) => Collate(x) = Collate(y)

ASSUME MilliAssumption == Milli \in Nat \ {0}

Fields(kind, ts, level, service, host, msg, trace) ==
  [kind |-> kind, ts |-> ts, level |-> level, service |-> service, host |-> host,
   msg |-> msg, trace |-> trace]

EventFields ==
  [kind : Texts, ts : Nat, level : Texts, service : Texts, host : STRING,
   msg : SUBSET Texts, trace : Texts]

NoFields == Fields("", 0, "", "", "", {}, "")
Object(f) == [shape |-> "object", f |-> f, items |-> <<>>]
Null == [shape |-> "null", f |-> NoFields, items |-> <<>>]
Scalar == [shape |-> "scalar", f |-> NoFields, items |-> <<>>]
Array(s) == [shape |-> "array", f |-> NoFields, items |-> s]
Envelope(s) == [shape |-> "object", f |-> NoFields, items |-> s]

\* DecodeJSON takes an object, and null, which it takes for an empty one.
Decodes(v) == v.shape \in {"object", "null"}
DecodeJSON(v) == [v.f EXCEPT !.kind = IF @ = "" THEN "log" ELSE @]

DecodePlain(words, now) == Fields("log", now, "info", "", "", words, "")

\* EncodeJSON, and EncodeBatchJSON: what the agent puts on the wire.
EncodeJSON(e) == Object(e)
EncodeBatchJSON(b) == Envelope([i \in DOMAIN b |-> EncodeJSON(b[i])])

Batch(s) == [ok |-> TRUE, evs |-> [i \in DOMAIN s |-> DecodeJSON(s[i])]]
NoBatch == [ok |-> FALSE, evs |-> <<>>]

\* Mutant: items that are not objects are passed over.
DecodeBatchJSONSkips(v) ==
  IF v.shape = "array" \/ (v.shape = "object" /\ v.items # <<>>)
    THEN Batch(SelectSeq(v.items, Decodes))
  ELSE IF Decodes(v) THEN Batch(<<v>>) ELSE NoBatch

\* An array, an object with events, or one event; one bad item spoils all.
\* An object whose events are empty is an event itself.
DecodeBatchJSON(v) ==
  IF v.shape = "array" \/ (v.shape = "object" /\ v.items # <<>>)
    THEN IF \A x \in Range(v.items) : Decodes(x) THEN Batch(v.items) ELSE NoBatch
  ELSE IF Decodes(v) THEN Batch(<<v>>) ELSE NoBatch

-----------------------------------------------------------------------------
(* Where an event came from *)

\* An address is [host, port, v6]; both take the port off, but stripPort
\* leaves the brackets of IPv6.
RemoteHost(addr) == addr.host
StripPort(addr) == IF addr.v6 THEN "[" \o addr.host \o "]" ELSE addr.host

Decode(addr, v, now) ==
  LET e == DecodeJSON(v) IN
  [e EXCEPT !.host = IF @ = "" THEN StripPort(addr) ELSE @,
            !.ts = IF @ = 0 THEN now ELSE @]

Plain(addr, words, now) == [DecodePlain(words, now) EXCEPT !.host = StripPort(addr)]

\* POST /ingest: a body that is no batch is tried as one event before it is
\* refused.
Ingest(addr, v, now) ==
  LET b == DecodeBatchJSON(v)
      hosted(e) == [e EXCEPT !.host = IF @ = "" THEN RemoteHost(addr) ELSE @]
  IN IF b.ok THEN [status |-> 202, evs |-> [i \in DOMAIN b.evs |-> hosted(b.evs[i])]]
     ELSE IF Decodes(v) THEN [status |-> 202, evs |-> <<Decode(addr, v, now)>>]
     ELSE [status |-> 400, evs |-> <<>>]

\* Mutant: levels keep their case.
NormalizeKeepsCase(e, now) ==
  [e EXCEPT !.ts = IF @ = 0 THEN now ELSE @, !.level = IF @ = "" THEN "info" ELSE @]

\* The pipeline's normalize.
Normalize(e, now) ==
  [e EXCEPT !.kind = IF @ = "" THEN "log" ELSE @,
            !.ts = IF @ = 0 THEN now ELSE @,
            !.level = IF @ = "" THEN "info" ELSE Lower(@)]

-----------------------------------------------------------------------------
(* What an output keeps                                                    *)

Whole(t, unit) == t - (t % unit)

\* A line of JSON has the time the event has; DATETIME(3) rounds it to the
\* millisecond, DateTime64(3) cuts it off.
Keep(backend, e) ==
  [e EXCEPT !.ts = CASE backend = "filesystem" -> @
                     [] backend = "mysql" -> Whole(@ + (Milli \div 2), Milli)
                     [] backend = "clickhouse" -> Whole(@, Milli)]

-----------------------------------------------------------------------------
(* Searches. A list of values is a set, empty when there is no condition.  *)

SearchFor(kind, from, to, levels, services, hosts, trace, word) ==
  [kind |-> kind, from |-> from, to |-> to, levels |-> levels, services |-> services,
   hosts |-> hosts, trace |-> trace, word |-> word]

\* /api/signals searches logs unless it is told another kind; /api/metrics,
\* /api/probes and /api/configs name theirs.
QueryKind(q) == IF q.kind = "" THEN "log" ELSE q.kind

In(set, v) == set = {} \/ v \in set
Since(q, e) == q.from = 0 \/ e.ts >= q.from
Until(q, e) == q.to = 0 \/ e.ts <= q.to

\* The keyword is in the message: as strings.Contains finds it in lower case,
HasWord(q, e) == q.word = "" \/ \E w \in e.msg : Lower(w) = Lower(q.word)

\* ... as LIKE does, between two %,
HasLike(q, e) ==
  q.word = "" \/ \E w \in e.msg : IF q.word \in DOMAIN Patterns THEN w \in Patterns[q.word]
                                 ELSE Collate(w) = Collate(q.word)

\* ... and as positionCaseInsensitive does.
HasAscii(q, e) == q.word = "" \/ \E w \in e.msg : AsciiLower(w) = AsciiLower(q.word)

MatchFilesystem(q, e) ==
  /\ e.kind = QueryKind(q)
  /\ Since(q, e) /\ Until(q, e)
  /\ In(q.levels, e.level) /\ In(q.services, e.service) /\ In(q.hosts, e.host)
  /\ q.trace = "" \/ e.trace = q.trace
  /\ HasWord(q, e)

\* Columns of text are compared by their collation.
InColumn(set, v) == set = {} \/ \E x \in set : Collate(x) = Collate(v)

\* Mutant: of several services only one is looked for.
MatchMySQLOneService(q, e) ==
  /\ InColumn({QueryKind(q)}, e.kind)
  /\ Since(q, e) /\ Until(q, e)
  /\ InColumn(q.levels, e.level)
  /\ q.services # {} => InColumn({CHOOSE x \in q.services : TRUE}, e.service)
  /\ HasLike(q, e)
  /\ q.trace = "" \/ InColumn({q.trace}, e.trace)

\* No hosts; services only when there is one.
MatchMySQL(q, e) ==
  /\ InColumn({QueryKind(q)}, e.kind)
  /\ Since(q, e) /\ Until(q, e)
  /\ InColumn(q.levels, e.level)
  /\ Cardinality(q.services) = 1 => InColumn(q.services, e.service)
  /\ HasLike(q, e)
  /\ q.trace = "" \/ InColumn({q.trace}, e.trace)

\* Neither hosts, levels nor trace.
MatchClickHouse(q, e) ==
  /\ e.kind = QueryKind(q)
  /\ Since(q, e) /\ Until(q, e)
  /\ Cardinality(q.services) = 1 => In(q.services, e.service)
  /\ HasAscii(q, e)

Match(backend, q, e) ==
  CASE backend = "filesystem" -> MatchFilesystem(q, e)
    [] backend = "mysql" -> MatchMySQL(q, e)
    [] backend = "clickhouse" -> MatchClickHouse(q, e)

\* The filter of a live tail has no times and no trace.
MatchTail(q, e) ==
  /\ q.kind # "" => e.kind = q.kind
  /\ In(q.levels, e.level) /\ In(q.services, e.service) /\ In(q.hosts, e.host)
  /\ HasWord(q, e)
=============================================================================
