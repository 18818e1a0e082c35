---------------------------- MODULE SearchProofs ----------------------------
(***************************************************************************)
(* Proofs about Search, for any deliveries, searches, calendar and page    *)
(* size, and whichever output is queried.                                  *)
(*                                                                         *)
(* DeliveredInv ties every row to the event of the delivery it was written *)
(* for, and that to what its sender put into it; PagesInv adds what the    *)
(* reader has seen and what the request under way will answer with.        *)
(***************************************************************************)
EXTENDS Search, SequenceTheorems, FiniteSetTheorems, TLAPS

Outputs == {"filesystem", "mysql", "clickhouse"}
Keys == {"kind", "ts", "level", "service", "host", "msg", "trace"}

\* What the events on their way and the rows are; hosts are of no type.
IsEvent(e) ==
  /\ e = [k \in Keys |-> e[k]] /\ e.ts \in Nat
  /\ {e.kind, e.level, e.service, e.trace} \subseteq Texts /\ e.msg \subseteq Texts

IsSearch(s) ==
  /\ s.from \in Nat /\ s.from % Minute = 0 /\ s.to \in Nat /\ s.to % Minute = 0
  /\ {s.kind, s.trace, s.word} \cup s.levels \cup s.services \subseteq Texts
  /\ IsFiniteSet(s.services)

-----------------------------------------------------------------------------
(* Times that outputs keep *)

LEMMA WholeUnits ==
  ASSUME NEW u \in Nat \ {0}, NEW t \in Nat
  PROVE  \E k \in Nat : Whole(t, u) = k * u /\ k * u <= t /\ t < k * u + u
BY DEF Whole

LEMMA UnitsOrder ==
  ASSUME NEW u \in Nat \ {0}, NEW j \in Nat, NEW k \in Nat, j * u < k * u + u
  PROVE  j * u <= k * u
<1>1. j <= k
  <2> SUFFICES ASSUME j >= k + 1 PROVE FALSE
    OBVIOUS
  <2>1. j * u >= (k + 1) * u
    OBVIOUS
  <2>2. QED
    BY <2>1
<1>2. QED
  BY <1>1

\* Cutting a time off, and rounding it, do not move it past a whole unit.
LEMMA WholeKeepsOrder ==
  ASSUME NEW u \in Nat \ {0}, NEW t \in Nat, NEW j \in Nat, NEW h \in Nat, h < u
  PROVE  /\ Whole(t + h, u) \in Nat
         /\ j * u <= t => j * u <= Whole(t + h, u)
         /\ t <= j * u => Whole(t + h, u) <= j * u
<1>1. PICK k \in Nat : Whole(t + h, u) = k * u /\ k * u <= t + h /\ t + h < k * u + u
  <2>1. t + h \in Nat
    OBVIOUS
  <2>2. QED
    BY <2>1, WholeUnits
<1>2. k * u \in Nat /\ j * u \in Nat
  OBVIOUS
<1>3. ASSUME j * u <= t PROVE j * u <= k * u
  <2>1. j * u < k * u + u
    BY <1>1, <1>2, <1>3
  <2>2. QED
    BY <2>1, UnitsOrder
<1>4. ASSUME t <= j * u PROVE k * u <= j * u
  <2>1. k * u < j * u + u
    BY <1>1, <1>2, <1>4
  <2>2. QED
    BY <2>1, UnitsOrder
<1>5. QED
  BY <1>1, <1>2, <1>3, <1>4

LEMMA Multiple ==
  ASSUME NEW u \in Nat \ {0}, NEW m \in Nat, m % u = 0
  PROVE  \E k \in Nat : m = k * u
<1>1. PICK k \in Nat : Whole(m, u) = k * u
  BY WholeUnits
<1>2. QED
  BY <1>1 DEF Whole

LEMMA WholeMinutes ==
  ASSUME NEW m \in Nat, m % Minute = 0
  PROVE  \E k \in Nat : m = k * Milli
<1>1. PICK j \in Nat : m = j * Minute
  BY Multiple, SearchAssumption
<1>2. PICK k \in Nat : Minute = k * Milli
  BY Multiple, SearchAssumption, MilliAssumption
<1>3. m = (j * k) * Milli /\ j * k \in Nat
  BY <1>1, <1>2, MilliAssumption
<1>4. QED
  BY <1>3

\* What an output keeps is the event, at a time that is on the same side of
\* every whole minute.
LEMMA KeepsEvent ==
  ASSUME NEW b \in Outputs, NEW e, IsEvent(e)
  PROVE  /\ IsEvent(Keep(b, e))
         /\ \A k \in Keys : k # "ts" => Keep(b, e)[k] = e[k]
         /\ \A m \in Nat : m % Minute = 0 =>
              /\ m <= e.ts => m <= Keep(b, e).ts
              /\ e.ts <= m => Keep(b, e).ts <= m
<1> DEFINE h == IF b = "mysql" THEN Milli \div 2 ELSE 0
<1>1. h \in Nat /\ h < Milli
  BY MilliAssumption
<1>2. e.ts \in Nat
  BY DEF IsEvent
<1>3. Keep(b, e).ts = (IF b = "filesystem" THEN e.ts ELSE Whole(e.ts + h, Milli))
  BY <1>2 DEF Keep, Outputs, IsEvent, Keys
<1>4. \A k \in Keys : k # "ts" => Keep(b, e)[k] = e[k]
  BY DEF Keep, IsEvent
<1>5. Keep(b, e) = [k \in Keys |-> Keep(b, e)[k]]
  <2>1. PICK t : Keep(b, e) = [e EXCEPT !.ts = t]
    BY DEF Keep
  <2>2. e = [k \in Keys |-> e[k]]
    BY DEF IsEvent
  <2>3. QED
    BY <2>1, <2>2
<1> HIDE DEF h
<1>6. Whole(e.ts + h, Milli) \in Nat
  BY <1>1, <1>2, MilliAssumption, WholeKeepsOrder
<1>7. ASSUME NEW m \in Nat, m % Minute = 0
      PROVE  (m <= e.ts => m <= Keep(b, e).ts) /\ (e.ts <= m => Keep(b, e).ts <= m)
  <2>1. PICK k \in Nat : m = k * Milli
    BY <1>7, WholeMinutes
  <2>2. /\ m <= e.ts => m <= Whole(e.ts + h, Milli)
        /\ e.ts <= m => Whole(e.ts + h, Milli) <= m
    BY <1>1, <1>2, <2>1, MilliAssumption, WholeKeepsOrder
  <2>3. QED
    BY <1>3, <2>2
<1>8. IsEvent(Keep(b, e))
  <2>1. Keep(b, e).ts \in Nat
    BY <1>2, <1>3, <1>6
  <2>2. /\ Keep(b, e).kind = e.kind /\ Keep(b, e).level = e.level /\ Keep(b, e).service = e.service
        /\ Keep(b, e).trace = e.trace /\ Keep(b, e).msg = e.msg
    BY <1>4 DEF Keys
  <2>3. QED
    BY <1>5, <2>1, <2>2 DEF IsEvent
<1>9. QED
  BY <1>4, <1>7, <1>8

-----------------------------------------------------------------------------
(* The filters *)

\* An output finds a row for every event that a search asks for whose keyword
\* it understands.
LEMMA WantedIsMatched ==
  ASSUME NEW b \in Outputs, NEW s, IsSearch(s), NEW e, IsEvent(e), Reads(b, s), Wanted(s, e)
  PROVE  Match(b, s, Keep(b, e))
<1> DEFINE r == Keep(b, e)
<1>1. /\ r.kind = e.kind /\ r.level = e.level /\ r.service = e.service /\ r.host = e.host
      /\ r.trace = e.trace /\ r.msg = e.msg
  BY KeepsEvent DEF Keys
<1>2. Since(s, r) /\ Until(s, r)
  <2>1. /\ s.from # 0 => s.from <= r.ts
        /\ s.to # 0 => r.ts <= s.to
    BY KeepsEvent DEF Wanted, IsSearch
  <2>2. r.ts \in Nat /\ s.from \in Nat /\ s.to \in Nat
    BY KeepsEvent DEF IsEvent, IsSearch
  <2> HIDE DEF r
  <2>3. QED
    BY <2>1, <2>2 DEF Since, Until
<1> HIDE DEF r
<1>3. /\ r.kind = QueryKind(s)
      /\ s.levels # {} => r.level \in s.levels
      /\ s.services # {} => r.service \in s.services
      /\ s.hosts # {} => r.host \in s.hosts
      /\ s.trace # "" => r.trace = s.trace
  BY <1>1 DEF Wanted
<1>4. s.word # "" => \E w \in r.msg : w \in Texts /\ Lower(w) = Lower(s.word)
  BY <1>1 DEF Wanted, IsEvent
<1>5. s.word \in Texts
  BY DEF IsSearch
<1>6. MatchFilesystem(s, r)
  BY <1>2, <1>3, <1>4 DEF MatchFilesystem, In, HasWord
<1>7. CASE b = "mysql"
  <2>1. HasLike(s, r)
    BY <1>4, <1>5, <1>7, TextsAssumption DEF Reads, HasLike
  <2>2. MatchMySQL(s, r)
    BY <1>2, <1>3, <2>1 DEF MatchMySQL, InColumn
  <2>3. QED
    BY <1>7, <2>2 DEF Match, r
<1>8. CASE b = "clickhouse"
  <2>1. HasAscii(s, r)
    BY <1>4, <1>8 DEF Reads, HasAscii
  <2>2. MatchClickHouse(s, r)
    BY <1>2, <1>3, <2>1 DEF MatchClickHouse, In
  <2>3. QED
    BY <1>8, <2>2 DEF Match, r
<1>9. CASE b = "filesystem"
  BY <1>6, <1>9 DEF Match, r
<1>10. QED
  BY <1>7, <1>8, <1>9 DEF Outputs

\* A row that an output finds is what the search asks for, when the output
\* passes over none of its conditions.
LEMMA MatchedIsWanted ==
  ASSUME NEW b \in Outputs, NEW s, IsSearch(s), NEW r, IsEvent(r), Honours(b, s), Match(b, s, r)
  PROVE  Wanted(s, r)
<1>1. r.ts \in Nat /\ s.from \in Nat /\ s.to \in Nat
  BY DEF IsEvent, IsSearch
<1>2. {r.kind, r.level, r.service, r.trace} \subseteq Texts /\ r.msg \subseteq Texts
  BY DEF IsEvent
<1>3. CASE b = "filesystem"
  <2>1. MatchFilesystem(s, r)
    BY <1>3 DEF Match
  <2>2. QED
    BY <1>1, <2>1 DEF MatchFilesystem, Wanted, In, Since, Until, HasWord
<1>4. ASSUME b # "filesystem"
      PROVE  s.hosts = {} /\ (s.services # {} => Cardinality(s.services) = 1)
  <2>1. s.hosts = {} /\ Cardinality(s.services) <= 1
    BY <1>4 DEF Honours
  <2>2. Cardinality(s.services) \in Nat /\ (Cardinality(s.services) = 0 <=> s.services = {})
    BY FS_CardinalityType, FS_EmptySet DEF IsSearch
  <2>3. QED
    BY <2>1, <2>2
<1>5. CASE b = "mysql"
  <2>1. MatchMySQL(s, r)
    BY <1>5 DEF Match
  <2>2. \A x \in Texts :
          /\ Collate(x) = Collate(s.word) => Lower(x) = Lower(s.word)
          /\ \A y \in {QueryKind(s), s.trace} \cup s.levels \cup s.services :
               Collate(x) = Collate(y) => x = y
    BY <1>5 DEF Honours
  <2>3. ASSUME NEW S, S \subseteq {QueryKind(s), s.trace} \cup s.levels \cup s.services,
               NEW v \in Texts, S # {}, InColumn(S, v)
        PROVE  v \in S
    BY <2>2, <2>3 DEF InColumn
  <2>4. r.kind = QueryKind(s)
    BY <1>2, <2>1, <2>3 DEF MatchMySQL
  <2>5. s.levels # {} => r.level \in s.levels
    BY <1>2, <2>1, <2>3 DEF MatchMySQL
  <2>6. s.services # {} => r.service \in s.services
    BY <1>2, <1>4, <1>5, <2>1, <2>3 DEF MatchMySQL
  <2>7. s.trace # "" => r.trace = s.trace
    BY <1>2, <2>1, <2>3 DEF MatchMySQL
  <2>8. s.word # "" => \E w \in r.msg : Lower(w) = Lower(s.word)
    <3>1. s.word \notin DOMAIN Patterns
      BY <1>5 DEF Honours
    <3>2. QED
      BY <1>2, <2>1, <2>2, <3>1 DEF MatchMySQL, HasLike
  <2>9. (s.from # 0 => s.from <= r.ts) /\ (s.to # 0 => r.ts <= s.to)
    BY <1>1, <2>1 DEF MatchMySQL, Since, Until
  <2>10. QED
    BY <1>4, <1>5, <2>4, <2>5, <2>6, <2>7, <2>8, <2>9 DEF Wanted
<1>6. CASE b = "clickhouse"
  <2>1. MatchClickHouse(s, r)
    BY <1>6 DEF Match
  <2>2. s.levels = {} /\ s.trace = ""
    BY <1>6 DEF Honours
  <2>3. s.word # "" => \E w \in r.msg : Lower(w) = Lower(s.word)
    <3>1. s.word \in Texts
      BY DEF IsSearch
    <3>2. QED
      BY <1>2, <2>1, <3>1, TextsAssumption DEF MatchClickHouse, HasAscii
  <2>4. s.services # {} => r.service \in s.services
    BY <1>4, <1>6, <2>1 DEF MatchClickHouse, In
  <2>5. (s.from # 0 => s.from <= r.ts) /\ (s.to # 0 => r.ts <= s.to)
    BY <1>1, <2>1 DEF MatchClickHouse, Since, Until
  <2>6. r.kind = QueryKind(s)
    BY <2>1 DEF MatchClickHouse
  <2>7. QED
    BY <1>4, <1>6, <2>2, <2>3, <2>4, <2>5, <2>6 DEF Wanted
<1>7. QED
  BY <1>3, <1>5, <1>6 DEF Outputs

-----------------------------------------------------------------------------
(* Decoding keeps what was sent *)

KindOf(f) == IF f.kind = "" THEN "log" ELSE f.kind
HostsOf(a, f) == IF f.host = "" THEN {RemoteHost(a), StripPort(a)} ELSE {f.host}

\* e is a record of the fields f, as it is decoded,
Raw(f, e) ==
  /\ IsEvent(e) /\ e.kind = KindOf(f) /\ e.ts = f.ts /\ e.level = f.level
  /\ e.service = f.service /\ e.host = f.host /\ e.msg = f.msg /\ e.trace = f.trace

\* ... and when it comes from address a, with some of them filled in.
Comes(a, f, e) ==
  /\ IsEvent(e) /\ e.kind = KindOf(f) /\ e.level = f.level
  /\ f.ts # 0 => e.ts = f.ts
  /\ e.host \in HostsOf(a, f)
  /\ e.service = f.service /\ e.msg = f.msg /\ e.trace = f.trace

LEMMA DecodedRaw ==
  ASSUME NEW x, x.f \in EventFields
  PROVE  Raw(x.f, DecodeJSON(x))
<1>1. "log" \in Texts
  BY TextsAssumption
<1>2. QED
  BY <1>1 DEF EventFields, DecodeJSON, Raw, IsEvent, Keys, KindOf

LEMMA HostedComes ==
  ASSUME NEW a, NEW f, NEW e, Raw(f, e), NEW h \in {RemoteHost(a), StripPort(a)}
  PROVE  Comes(a, f, [e EXCEPT !.host = IF @ = "" THEN h ELSE @])
BY DEF Raw, Comes, IsEvent, Keys, HostsOf

LEMMA TimedComes ==
  ASSUME NEW a, NEW f, NEW e, Raw(f, e), NEW h \in {RemoteHost(a), StripPort(a)}, NEW t \in Nat
  PROVE  Comes(a, f, [e EXCEPT !.host = IF @ = "" THEN h ELSE @, !.ts = IF @ = 0 THEN t ELSE @])
BY DEF Raw, Comes, IsEvent, Keys, HostsOf

\* e is what is dispatched of the fields f.
Stored(a, f, e) ==
  /\ IsEvent(e) /\ e.kind = KindOf(f)
  /\ e.level = (IF f.level = "" THEN "info" ELSE Lower(f.level))
  /\ f.ts # 0 => e.ts = f.ts
  /\ e.host \in HostsOf(a, f)
  /\ e.service = f.service /\ e.msg = f.msg /\ e.trace = f.trace

LEMMA NormalizedStored ==
  ASSUME NEW a, NEW f, NEW e, Comes(a, f, e), NEW t \in Nat
  PROVE  Stored(a, f, Normalize(e, t))
<1> DEFINE n == Normalize(e, t)
<1>1. "info" \in Texts /\ \A x \in Texts : Lower(x) \in Texts
  BY TextsAssumption
<1>2. e = [k \in Keys |-> e[k]] /\ e.kind = KindOf(f) /\ e.kind # ""
  BY DEF Comes, IsEvent, KindOf
<1>3. n = [k \in Keys |-> IF k = "ts" THEN (IF e.ts = 0 THEN t ELSE e.ts)
                         ELSE IF k = "level" THEN (IF e.level = "" THEN "info" ELSE Lower(e.level)) ELSE e[k]]
  BY <1>2 DEF Normalize, Keys
<1>4. /\ n = [k \in Keys |-> n[k]]
      /\ n.ts = (IF e.ts = 0 THEN t ELSE e.ts)
      /\ n.level = (IF e.level = "" THEN "info" ELSE Lower(e.level))
      /\ n.kind = e.kind /\ n.service = e.service /\ n.host = e.host /\ n.msg = e.msg /\ n.trace = e.trace
  BY <1>3 DEF Keys
<1> HIDE DEF n
<1>5. IsEvent(n)
  BY <1>1, <1>4 DEF IsEvent, Comes
<1>6. Stored(a, f, n)
  BY <1>4, <1>5 DEF Stored, Comes
<1>7. QED
  BY <1>6 DEF n

-----------------------------------------------------------------------------
(* Deliveries *)

\* A batch from address a: each item is an event, in its order.
WholeBatch(a, v, A) ==
  /\ \A x \in Range(v.items) : Decodes(x)
  /\ A.status = 202 /\ DOMAIN A.evs = DOMAIN v.items
  /\ \A i \in DOMAIN v.items : Comes(a, v.items[i].f, A.evs[i])

\* One event, or none.
OneEvent(a, v, A) == Decodes(v) /\ A.status = 202 /\ DOMAIN A.evs = 1..1 /\ Comes(a, v.f, A.evs[1])
NoEvent(A) == A.status = 400 /\ DOMAIN A.evs = 1..0

LEMMA Ingested ==
  ASSUME NEW a, NEW v, NEW t \in Nat, v.f \in EventFields,
         \A x \in Range(v.items) : x.f \in EventFields
  PROVE  LET A == Ingest(a, v, t) IN
         \/ (v.shape = "array" \/ v.items # <<>>) /\ WholeBatch(a, v, A)
         \/ /\ v.shape # "array"
            /\ v.shape = "object" /\ v.items # <<>> => ~ \A x \in Range(v.items) : Decodes(x)
            /\ OneEvent(a, v, A)
         \/ NoEvent(A)
<1> DEFINE A == Ingest(a, v, t)
           many == v.shape = "array" \/ (v.shape = "object" /\ v.items # <<>>)
           good == \A x \in Range(v.items) : Decodes(x)
           hosted(e) == [e EXCEPT !.host = IF @ = "" THEN RemoteHost(a) ELSE @]
<1>a. ASSUME NEW evs, DecodeBatchJSON(v) = [ok |-> TRUE, evs |-> evs]
      PROVE  /\ A.status = 202 /\ DOMAIN A.evs = DOMAIN evs
             /\ \A i \in DOMAIN evs : A.evs[i] = hosted(evs[i])
  <2>1. DecodeBatchJSON(v).ok = TRUE /\ DecodeBatchJSON(v).evs = evs
    BY <1>a
  <2>2. A = [status |-> 202, evs |-> [i \in DOMAIN evs |-> hosted(evs[i])]]
    BY <2>1 DEF Ingest
  <2> HIDE DEF A, hosted
  <2>3. QED
    BY <2>2
<1>1. CASE many /\ good
  <2> DEFINE evs == [i \in DOMAIN v.items |-> DecodeJSON(v.items[i])]
  <2>1. DecodeBatchJSON(v) = [ok |-> TRUE, evs |-> evs]
    BY <1>1 DEF DecodeBatchJSON, Batch
  <2> HIDE DEF A, hosted, evs
  <2>2. /\ A.status = 202 /\ DOMAIN A.evs = DOMAIN v.items
        /\ \A i \in DOMAIN v.items : A.evs[i] = hosted(DecodeJSON(v.items[i]))
    <3>1. A.status = 202 /\ DOMAIN A.evs = DOMAIN evs /\ \A i \in DOMAIN evs : A.evs[i] = hosted(evs[i])
      BY <2>1, <1>a
    <3>2. DOMAIN evs = DOMAIN v.items /\ \A i \in DOMAIN v.items : evs[i] = DecodeJSON(v.items[i])
      BY DEF evs
    <3>3. QED
      BY <3>1, <3>2
  <2> USE DEF hosted
  <2>3. ASSUME NEW i \in DOMAIN v.items PROVE Comes(a, v.items[i].f, hosted(DecodeJSON(v.items[i])))
    <3>1. v.items[i].f \in EventFields
      BY DEF Range
    <3>2. QED
      BY <3>1, DecodedRaw, HostedComes
  <2> HIDE DEF A, hosted
  <2>4. WholeBatch(a, v, A)
    BY <1>1, <2>2, <2>3 DEF WholeBatch
  <2>5. QED
    BY <1>1, <2>4 DEF A
<1>2. CASE ~many /\ Decodes(v)
  <2> DEFINE evs == [i \in DOMAIN <<v>> |-> DecodeJSON(<<v>>[i])]
  <2>1. DecodeBatchJSON(v) = [ok |-> TRUE, evs |-> evs]
    BY <1>2 DEF DecodeBatchJSON, Batch
  <2>2. DOMAIN evs = 1..1 /\ evs[1] = DecodeJSON(v)
    OBVIOUS
  <2> HIDE DEF A, hosted, evs
  <2>3. A.status = 202 /\ DOMAIN A.evs = 1..1 /\ A.evs[1] = hosted(DecodeJSON(v))
    <3>1. A.status = 202 /\ DOMAIN A.evs = DOMAIN evs /\ \A i \in DOMAIN evs : A.evs[i] = hosted(evs[i])
      BY <2>1, <1>a
    <3>2. QED
      BY <2>2, <3>1
  <2> USE DEF hosted
  <2>4. Comes(a, v.f, hosted(DecodeJSON(v)))
    BY DecodedRaw, HostedComes
  <2> HIDE DEF A, hosted
  <2>5. OneEvent(a, v, A)
    BY <1>2, <2>3, <2>4 DEF OneEvent
  <2>6. QED
    BY <1>2, <2>5 DEF A
<1>3. CASE many /\ ~good
  <2>1. DecodeBatchJSON(v).ok = FALSE
    BY <1>3 DEF DecodeBatchJSON, NoBatch
  <2>2. CASE Decodes(v)
    <3>1. A = [status |-> 202, evs |-> <<Decode(a, v, t)>>]
      BY <2>1, <2>2 DEF Ingest
    <3>2. Comes(a, v.f, Decode(a, v, t))
      BY DecodedRaw, TimedComes DEF Decode
    <3> HIDE DEF A
    <3>3. OneEvent(a, v, A)
      BY <2>2, <3>1, <3>2 DEF OneEvent
    <3>4. QED
      BY <1>3, <2>2, <3>3 DEF A, Decodes
  <2>3. CASE ~Decodes(v)
    <3>1. A = [status |-> 400, evs |-> <<>>]
      BY <2>1, <2>3 DEF Ingest
    <3>2. QED
      BY <3>1 DEF NoEvent
  <2>4. QED
    BY <2>2, <2>3
<1>4. CASE ~many /\ ~Decodes(v)
  <2>1. A = [status |-> 400, evs |-> <<>>]
    BY <1>4 DEF Ingest, DecodeBatchJSON, NoBatch
  <2>2. QED
    BY <2>1 DEF NoEvent
<1>5. QED
  BY <1>1, <1>2, <1>3, <1>4

\* The fields f are those of an event that the sender of d put into it, or of
\* something without a trace.
SentBy(d, f) == f.trace = "" \/ f \in Sent(Load[d])

LEMMA LoadTypes ==
  ASSUME NEW d \in Deliveries
  PROVE  /\ Load[d] \in Range(Load) /\ Load[d].via \in {"http", "json", "plain"}
         /\ Load[d].via = "plain" => Load[d].v \subseteq Texts
         /\ Load[d].via # "plain" =>
              /\ Load[d].v.f \in EventFields
              /\ \A x \in Range(Load[d].v.items) : x.f \in EventFields
              /\ \A x \in Range(Load[d].v.items) \cup {Load[d].v} :
                   Decodes(x) => SentBy(d, x.f)
         /\ Load[d].via = "http" =>
              /\ Len(Load[d].v.items) \in Nat /\ DOMAIN Load[d].v.items = 1..Len(Load[d].v.items)
              /\ Load[d].v.shape = "null" => Load[d].v.items = <<>>
<1>1. Load[d] \in Range(Load)
  BY DEF Range, Deliveries
<1> DEFINE D == Load[d]
<1>2. /\ D.via \in {"http", "json", "plain"}
      /\ D.via = "plain" => D.v \subseteq Texts
      /\ \A x \in Bodies(D) : x.f \in EventFields /\ (x.shape # "object" => x.f = NoFields)
      /\ D.via = "http" => /\ Len(D.v.items) \in Nat /\ DOMAIN D.v.items = 1..Len(D.v.items)
                           /\ D.v.shape \in {"null", "scalar"} => D.v.items = <<>>
  BY <1>1, DeliveriesAssumption
<1>3. D.via # "plain" => Bodies(D) = Range(D.v.items) \cup {D.v}
  BY DEF Bodies
<1>4. NoFields.trace = ""
  BY DEF NoFields, Fields
<1>5. \A x \in Bodies(D) : Decodes(x) => SentBy(d, x.f)
  BY <1>2, <1>4 DEF Sent, Decodes, SentBy
<1> HIDE DEF D
<1>6. QED
  BY <1>1, <1>2, <1>3, <1>5 DEF D

LEMMA HttpAnswer ==
  ASSUME NEW d \in Deliveries, Load[d].via = "http", NEW t \in Nat
  PROVE  LET D == Load[d]
             A == Decoded(D, t) IN
         \/ WholeBatch(D.addr, D.v, A)
         \/ /\ D.v.items = <<>> \/ ~ \A x \in Range(D.v.items) : Decodes(x)
            /\ OneEvent(D.addr, D.v, A)
         \/ NoEvent(A)
<1>1. Decoded(Load[d], t) = Ingest(Load[d].addr, Load[d].v, t)
  BY DEF Decoded
<1>2. Load[d].v.f \in EventFields /\ \A x \in Range(Load[d].v.items) : x.f \in EventFields
  BY LoadTypes
<1>3. Load[d].v.shape = "null" => Load[d].v.items = <<>>
  BY LoadTypes
<1>4. QED
  BY <1>1, <1>2, <1>3, Ingested DEF OneEvent, Decodes

Known(d, e) == \E f : Comes(Load[d].addr, f, e) /\ SentBy(d, f)

\* What a delivery is made into.
RightAnswer(d, A) ==
  /\ A.status \in {202, 400}
  /\ A.status = 400 => DOMAIN A.evs = 1..0
  /\ \A i \in DOMAIN A.evs : i \in Nat /\ i >= 1 /\ Known(d, A.evs[i])

LEMMA OneIsRight ==
  ASSUME NEW d, NEW A, A.status = 202, DOMAIN A.evs = 1..1,
         NEW f, Comes(Load[d].addr, f, A.evs[1]), SentBy(d, f)
  PROVE  RightAnswer(d, A)
<1>1. 1 \in Nat /\ 1 >= 1 /\ \A i \in 1..1 : i = 1
  OBVIOUS
<1>2. Known(d, A.evs[1])
  BY DEF Known
<1>3. \A i \in DOMAIN A.evs : i \in Nat /\ i >= 1 /\ Known(d, A.evs[i])
  BY <1>1, <1>2
<1>4. QED
  BY <1>3 DEF RightAnswer

LEMMA OneEventIsRight ==
  ASSUME NEW d \in Deliveries, Load[d].via # "plain", NEW A, OneEvent(Load[d].addr, Load[d].v, A)
  PROVE  RightAnswer(d, A)
<1>1. /\ Decodes(Load[d].v) /\ A.status = 202 /\ DOMAIN A.evs = 1..1
      /\ Comes(Load[d].addr, Load[d].v.f, A.evs[1])
  BY DEF OneEvent
<1>2. SentBy(d, Load[d].v.f)
  BY <1>1, LoadTypes
<1>3. QED
  BY <1>1, <1>2, OneIsRight

LEMMA BatchIsRight ==
  ASSUME NEW d \in Deliveries, Load[d].via = "http", NEW A, WholeBatch(Load[d].addr, Load[d].v, A)
  PROVE  RightAnswer(d, A)
<1> DEFINE items == Load[d].v.items
<1>1. /\ DOMAIN items = 1..Len(items) /\ Len(items) \in Nat /\ A.status = 202
      /\ DOMAIN A.evs = DOMAIN items
      /\ \A i \in DOMAIN items : Comes(Load[d].addr, items[i].f, A.evs[i]) /\ Decodes(items[i])
  BY LoadTypes DEF WholeBatch, Range
<1>2. ASSUME NEW i \in DOMAIN items PROVE Known(d, A.evs[i])
  <2>1. items[i] \in Range(items)
    BY DEF Range
  <2>2. SentBy(d, items[i].f)
    BY <1>1, <2>1, LoadTypes
  <2>3. QED
    BY <1>1, <2>2 DEF Known
<1> HIDE DEF items
<1>3. \A i \in DOMAIN items : i \in Nat /\ i >= 1
  BY <1>1
<1>4. QED
  BY <1>1, <1>2, <1>3 DEF RightAnswer

LEMMA AnswerOf ==
  ASSUME NEW d \in Deliveries, NEW t \in Nat
  PROVE  RightAnswer(d, Decoded(Load[d], t))
<1> DEFINE D == Load[d]
           A == Decoded(D, t)
<1>1. CASE D.via = "plain"
  <2>1. A = [status |-> 202, evs |-> <<Plain(D.addr, D.v, t)>>]
    BY <1>1 DEF Decoded
  <2> DEFINE f == Fields("log", 0, "info", "", "", D.v, "")
  <2>2. Comes(D.addr, f, Plain(D.addr, D.v, t))
    <3>1. D.v \subseteq Texts
      BY <1>1, LoadTypes
    <3>2. QED
      BY <3>1, TextsAssumption DEF Comes, IsEvent, Keys, Plain, DecodePlain, Fields, KindOf, HostsOf
  <2>3. SentBy(d, f)
    BY DEF Fields, SentBy
  <2> HIDE DEF f, A
  <2>4. A.status = 202 /\ DOMAIN A.evs = 1..1 /\ A.evs[1] = Plain(D.addr, D.v, t)
    BY <2>1
  <2>5. RightAnswer(d, A)
    BY <2>2, <2>3, <2>4, OneIsRight
  <2>6. QED
    BY <2>5 DEF A
<1>2. CASE D.via = "json"
  <2>1. CASE Decodes(D.v)
    <3>1. A = [status |-> 202, evs |-> <<Decode(D.addr, D.v, t)>>]
      BY <1>2, <2>1 DEF Decoded
    <3>2. D.v.f \in EventFields
      BY <1>2, LoadTypes
    <3>3. Comes(D.addr, D.v.f, Decode(D.addr, D.v, t))
      BY <3>2, DecodedRaw, TimedComes DEF Decode
    <3> HIDE DEF A
    <3>4. OneEvent(D.addr, D.v, A)
      BY <2>1, <3>1, <3>3 DEF OneEvent
    <3>5. QED
      BY <1>2, <3>4, OneEventIsRight DEF A
  <2>2. CASE ~Decodes(D.v)
    <3>1. A = [status |-> 400, evs |-> <<>>]
      BY <1>2, <2>2 DEF Decoded
    <3>2. QED
      BY <3>1 DEF RightAnswer
  <2>3. QED
    BY <2>1, <2>2
<1>3. CASE D.via = "http"
  <2>1. ASSUME NoEvent(A) PROVE RightAnswer(d, A)
    BY <2>1 DEF NoEvent, RightAnswer
  <2>2. QED
    BY <1>3, <2>1, HttpAnswer, OneEventIsRight, BatchIsRight
<1>4. QED
  BY <1>1, <1>2, <1>3, LoadTypes

-----------------------------------------------------------------------------
(* Where rows come from *)

\* What the dispatcher may hold, and what may be stored of it.
Parcels ==
  {[d |-> z[1], k |-> z[2], e |-> Normalize(Decoded(Load[z[1]], z[3]).evs[z[2]], z[4])] :
     z \in Deliveries \X Nat \X Nat \X Nat}
Kept == UNION {{Keep(b, p.e) : p \in Parcels} : b \in Backends}
Answers ==
  {[status |-> Decoded(Load[z[1]], z[2]).status, evs |-> Decoded(Load[z[1]], z[2]).evs, next |-> z[3]] :
     z \in Deliveries \X Nat \X Nat}

Answered(d, a) ==
  /\ a.next \in Nat
  /\ \E t \in Nat : a.status = Decoded(Load[d], t).status /\ a.evs = Decoded(Load[d], t).evs

\* p was dispatched,
Dispatched(p) ==
  /\ p.d \in DOMAIN fate /\ p.k \in DOMAIN fate[p.d].evs /\ p.k < fate[p.d].next
  /\ \E u \in Nat : p.e = Normalize(fate[p.d].evs[p.k], u)

\* ... and those of a delivery in their order.
Precedes(p, r) == p.d = r.d => p.k < r.k
InOrder(s) == \A i, j \in DOMAIN s : i < j => Precedes(s[i], s[j])
Before(s, t) == \A i \in DOMAIN s, j \in DOMAIN t : Precedes(s[i], t[j])

DeliveredInv ==
  /\ now \in Nat /\ backend \in Backends
  /\ fate \in Seq(Answers) /\ Len(fate) <= Len(Load)
  /\ \A d \in DOMAIN fate : Answered(d, fate[d])
  /\ queue \in Seq(Parcels) /\ origin \in Seq(Parcels)
  /\ \A i \in DOMAIN queue : Dispatched(queue[i])
  /\ \A i \in DOMAIN origin : Dispatched(origin[i])
  /\ InOrder(queue) /\ InOrder(origin) /\ Before(origin, queue)
  /\ rows \in Seq(Kept) /\ Len(rows) = Len(origin)
  /\ \A i \in DOMAIN rows : rows[i] = Keep(backend, origin[i].e)

\* Two sequences put together.
LEMMA Joined ==
  ASSUME NEW S, NEW s \in Seq(S), NEW t \in Seq(S)
  PROVE  /\ s \o t \in Seq(S) /\ Len(s \o t) = Len(s) + Len(t) /\ Len(s) \in Nat /\ Len(t) \in Nat
         /\ DOMAIN s = 1..Len(s) /\ DOMAIN t = 1..Len(t) /\ DOMAIN (s \o t) = 1..(Len(s) + Len(t))
         /\ \A i \in DOMAIN s : (s \o t)[i] = s[i]
         /\ \A i \in DOMAIN (s \o t) : i \notin DOMAIN s => i - Len(s) \in DOMAIN t /\ (s \o t)[i] = t[i - Len(s)]
<1> DEFINE u == s \o t
<1>1. /\ u \in Seq(S) /\ Len(u) = Len(s) + Len(t)
      /\ \A i \in 1..Len(s) : u[i] = s[i]
      /\ \A i \in (Len(s) + 1)..(Len(s) + Len(t)) : u[i] = t[i - Len(s)]
  BY ConcatProperties
<1>2. /\ DOMAIN s = 1..Len(s) /\ Len(s) \in Nat /\ DOMAIN t = 1..Len(t) /\ Len(t) \in Nat
      /\ DOMAIN u = 1..Len(u)
  BY <1>1, LenProperties
<1> HIDE DEF u
<1>3. QED
  BY <1>1, <1>2 DEF u

\* What holds of the elements of both parts, and their order.
LEMMA JoinedOrder ==
  ASSUME NEW s \in Seq(Parcels), NEW t \in Seq(Parcels), InOrder(s), InOrder(t), Before(s, t)
  PROVE  InOrder(s \o t)
<1> DEFINE u == s \o t
<1>1. /\ DOMAIN s = 1..Len(s) /\ Len(s) \in Nat /\ DOMAIN t = 1..Len(t) /\ Len(t) \in Nat
      /\ DOMAIN u = 1..(Len(s) + Len(t))
      /\ \A i \in DOMAIN s : u[i] = s[i]
      /\ \A i \in DOMAIN u : i \notin DOMAIN s => i - Len(s) \in DOMAIN t /\ u[i] = t[i - Len(s)]
  BY Joined
<1> HIDE DEF u
<1>2. ASSUME NEW i \in DOMAIN u, NEW j \in DOMAIN u, i < j PROVE Precedes(u[i], u[j])
  <2>1. CASE j \in DOMAIN s
    <3>1. i \in DOMAIN s
      BY <1>1, <1>2, <2>1
    <3>2. QED
      BY <1>1, <1>2, <2>1, <3>1 DEF InOrder
  <2>2. CASE i \in DOMAIN s /\ j \notin DOMAIN s
    BY <1>1, <1>2, <2>2 DEF Before
  <2>3. CASE i \notin DOMAIN s /\ j \notin DOMAIN s
    <3>1. i - Len(s) < j - Len(s)
      BY <1>1, <1>2
    <3>2. QED
      BY <1>1, <1>2, <2>3, <3>1 DEF InOrder
  <2>4. QED
    BY <2>1, <2>2, <2>3, <1>1, <1>2
<1>3. QED
  BY <1>2 DEF InOrder, u

LEMMA DeliveredInit == Init => DeliveredInv
<1> SUFFICES ASSUME Init PROVE DeliveredInv
  OBVIOUS
<1>1. PICK t \in Times : Len(Load) <= t /\ \A u \in Times : u <= t
  BY SearchAssumption
<1>2. Times \subseteq Nat /\ Len(Load) \in Nat
  BY SearchAssumption
<1>3. Max(Times) \in Times /\ \A u \in Times : Max(Times) >= u
  <2>1. \A u \in Times : t >= u
    BY <1>1, <1>2
  <2>2. QED
    BY <2>1 DEF Max
<1>4. now \in Nat
  <2>1. PICK m : m = Max(Times)
    OBVIOUS
  <2>2. m \in Nat /\ t \in Nat /\ m >= t /\ now = m - Len(Load)
    BY <1>2, <1>3, <2>1 DEF Init
  <2>3. QED
    BY <1>1, <1>2, <2>2
<1>5. /\ queue = <<>> /\ rows = <<>> /\ origin = <<>> /\ fate = <<>> /\ backend \in Backends
  BY DEF Init
<1>6. /\ \A S : <<>> \in Seq(S)
      /\ Len(<<>>) = 0 /\ DOMAIN <<>> = {}
  BY EmptySeq
<1>7. /\ queue \in Seq(Parcels) /\ origin \in Seq(Parcels) /\ rows \in Seq(Kept) /\ fate \in Seq(Answers)
      /\ Len(fate) <= Len(Load) /\ Len(rows) = Len(origin)
      /\ DOMAIN queue = {} /\ DOMAIN rows = {} /\ DOMAIN origin = {} /\ DOMAIN fate = {}
  BY <1>2, <1>5, <1>6
<1>8. QED
  BY <1>4, <1>5, <1>7, Zenon DEF DeliveredInv, InOrder, Before

\* Dispatched events stay dispatched.
LEMMA DispatchedStays ==
  ASSUME DeliveredInv,
         \A d \in DOMAIN fate : /\ d \in DOMAIN fate' /\ fate'[d].evs = fate[d].evs
                                /\ fate'[d].next >= fate[d].next /\ fate'[d].next \in Nat,
         NEW p, Dispatched(p), p.k \in Nat
  PROVE  Dispatched(p)'
<1>1. p.d \in DOMAIN fate /\ p.k \in DOMAIN fate[p.d].evs /\ p.k < fate[p.d].next
  BY DEF Dispatched
<1>2. fate[p.d].next \in Nat
  BY <1>1 DEF DeliveredInv, Answered
<1>3. p.d \in DOMAIN fate' /\ fate'[p.d].evs = fate[p.d].evs /\ p.k < fate'[p.d].next
  BY <1>1, <1>2
<1>4. QED
  BY <1>3 DEF Dispatched

LEMMA IsParcel ==
  ASSUME NEW d \in Deliveries, NEW k \in Nat, NEW t \in Nat, NEW u \in Nat
  PROVE  [d |-> d, k |-> k, e |-> Normalize(Decoded(Load[d], t).evs[k], u)] \in Parcels
<1> DEFINE z == <<d, k, t, u>>
<1>1. z \in Deliveries \X Nat \X Nat \X Nat /\ z[1] = d /\ z[2] = k /\ z[3] = t /\ z[4] = u
  OBVIOUS
<1> HIDE DEF z
<1>2. QED
  BY <1>1 DEF Parcels

LEMMA IsAnswer ==
  ASSUME NEW d \in Deliveries, NEW t \in Nat, NEW n \in Nat
  PROVE  [status |-> Decoded(Load[d], t).status, evs |-> Decoded(Load[d], t).evs, next |-> n] \in Answers
<1> DEFINE z == <<d, t, n>>
<1>1. z \in Deliveries \X Nat \X Nat /\ z[1] = d /\ z[2] = t /\ z[3] = n
  OBVIOUS
<1> HIDE DEF z
<1>2. QED
  BY <1>1 DEF Answers

LEMMA ParcelTypes == ASSUME NEW p \in Parcels PROVE p.d \in Deliveries /\ p.k \in Nat
BY DEF Parcels

\* Deliveries come, and their events are dispatched.
LEMMA FateGrows ==
  ASSUME DeliveredInv, UNCHANGED <<backend, rows, origin>>, now' \in Nat,
         fate' \in Seq(Answers), Len(fate') <= Len(Load),
         \A d \in DOMAIN fate' : Answered(d, fate'[d]),
         \A d \in DOMAIN fate : /\ d \in DOMAIN fate' /\ fate'[d].evs = fate[d].evs
                                /\ fate'[d].next >= fate[d].next,
         \/ queue' = queue
         \/ \E p \in Parcels : /\ queue' = Append(queue, p) /\ Dispatched(p)'
                               /\ p.d \in DOMAIN fate /\ p.k >= fate[p.d].next
  PROVE  DeliveredInv'
<1>1. /\ queue \in Seq(Parcels) /\ origin \in Seq(Parcels)
      /\ DOMAIN queue = 1..Len(queue) /\ Len(queue) \in Nat
      /\ \A i \in DOMAIN queue : queue[i] \in Parcels /\ Dispatched(queue[i])
      /\ \A i \in DOMAIN origin : origin[i] \in Parcels /\ Dispatched(origin[i])
      /\ \A d \in DOMAIN fate : fate[d].next \in Nat
  BY LenProperties, ElementOfSeq DEF DeliveredInv, Answered
<1>2. \A d \in DOMAIN fate : fate'[d].next \in Nat
  BY DEF Answered
<1>3. \A p \in Parcels : Dispatched(p) => Dispatched(p)'
  BY <1>2, DispatchedStays, ParcelTypes
<1>4. (\A i \in DOMAIN queue : Dispatched(queue[i])') /\ \A i \in DOMAIN origin' : Dispatched(origin[i])'
  BY <1>1, <1>3
<1>5. InOrder(queue) /\ InOrder(origin) /\ Before(origin, queue)
  BY DEF DeliveredInv
<1>6. CASE queue' = queue
  BY <1>4, <1>5, <1>6 DEF DeliveredInv, InOrder, Before
<1>7. CASE \E p \in Parcels : /\ queue' = Append(queue, p) /\ Dispatched(p)'
                              /\ p.d \in DOMAIN fate /\ p.k >= fate[p.d].next
  <2>1. PICK p \in Parcels : /\ queue' = Append(queue, p) /\ Dispatched(p)'
                             /\ p.d \in DOMAIN fate /\ p.k >= fate[p.d].next
    BY <1>7
  <2>2. /\ queue' \in Seq(Parcels) /\ Len(queue') = Len(queue) + 1
        /\ \A i \in 1..Len(queue) : queue'[i] = queue[i]
        /\ queue'[Len(queue) + 1] = p
    <3>1. queue' = Append(queue, p) /\ queue \in Seq(Parcels)
      BY <1>1, <2>1
    <3>2. QED
      BY <3>1, AppendProperties
  <2>3. DOMAIN queue' = 1..(Len(queue) + 1)
    BY <2>2, LenProperties
  <2>4. \A r \in Parcels : Dispatched(r) => Precedes(r, p)
    <3> SUFFICES ASSUME NEW r \in Parcels, Dispatched(r), r.d = p.d PROVE r.k < p.k
      BY DEF Precedes
    <3>1. r.k < fate[p.d].next /\ p.k >= fate[p.d].next /\ fate[p.d].next \in Nat /\ r.k \in Nat /\ p.k \in Nat
      BY <1>1, <2>1, ParcelTypes DEF Dispatched
    <3>2. QED
      BY <3>1
  <2>5. ASSUME NEW i \in DOMAIN queue'
        PROVE  \/ i \in DOMAIN queue /\ queue'[i] = queue[i]
               \/ i = Len(queue) + 1 /\ queue'[i] = p
    <3>1. i \in 1..(Len(queue) + 1) /\ DOMAIN queue = 1..Len(queue) /\ Len(queue) \in Nat
      BY <1>1, <2>3
    <3>2. i \in 1..Len(queue) \/ i = Len(queue) + 1
      BY <3>1
    <3>3. i \in 1..Len(queue) => queue'[i] = queue[i]
      BY <2>2, Zenon
    <3>4. i = Len(queue) + 1 => queue'[i] = p
      BY <2>2, Zenon
    <3>5. i \in 1..Len(queue) => i \in DOMAIN queue
      BY <3>1
    <3>6. CASE i \in 1..Len(queue)
      BY <3>3, <3>5, <3>6
    <3>7. CASE i = Len(queue) + 1
      BY <3>4, <3>7
    <3>8. QED
      BY <3>2, <3>6, <3>7
  <2>6. \A i \in DOMAIN queue' : Dispatched(queue[i])'
    BY <1>4, <2>1, <2>5
  <2>7. InOrder(queue')
    <3> SUFFICES ASSUME NEW i \in DOMAIN queue', NEW j \in DOMAIN queue', i < j PROVE Precedes(queue'[i], queue'[j])
      BY DEF InOrder
    <3>1. i \in DOMAIN queue /\ queue'[i] = queue[i]
      <4>1. i \in 1..(Len(queue) + 1) /\ j \in 1..(Len(queue) + 1)
        BY <2>3
      <4>2. i \in 1..Len(queue)
        BY <1>1, <4>1
      <4>3. QED
        BY <1>1, <2>2, <4>2
    <3>2. QED
      BY <1>1, <1>5, <2>4, <2>5, <3>1 DEF InOrder
  <2>8. Before(origin', queue')
    BY <1>1, <1>5, <2>4, <2>5 DEF Before
  <2>9. QED
    BY <1>4, <1>5, <2>2, <2>6, <2>7, <2>8 DEF DeliveredInv, InOrder
<1>8. QED
  BY <1>6, <1>7

LEMMA ReceiveDelivers == DeliveredInv /\ Receive => DeliveredInv'
<1> SUFFICES ASSUME DeliveredInv, Receive PROVE DeliveredInv'
  OBVIOUS
<1> DEFINE n == Len(fate) + 1
           got == Decoded(Load[n], now')
           new == [status |-> got.status, evs |-> got.evs, next |-> 1]
<1>1. /\ fate \in Seq(Answers) /\ Len(fate) \in Nat /\ DOMAIN fate = 1..Len(fate) /\ now \in Nat
      /\ Len(fate) < Len(Load) /\ now' = now + 1 /\ fate' = Append(fate, new)
      /\ UNCHANGED <<backend, queue, rows, origin>>
  BY LenProperties DEF DeliveredInv, Receive
<1>2. n \in Deliveries /\ now' \in Nat /\ n <= Len(Load) /\ n \in Nat
  BY <1>1, SearchAssumption
<1>3. new \in Answers
  <2>1. 1 \in Nat
    OBVIOUS
  <2>2. QED
    BY <1>2, <2>1, IsAnswer
<1>4. Answered(n, new)
  BY <1>2 DEF Answered
<1> HIDE DEF new, got
<1>5. /\ fate' \in Seq(Answers) /\ Len(fate') = n
      /\ \A i \in 1..Len(fate) : fate'[i] = fate[i]
      /\ fate'[n] = new
  BY <1>1, <1>3, AppendProperties
<1>6. DOMAIN fate' = 1..n
  BY <1>5, LenProperties
<1>7. ASSUME NEW d \in DOMAIN fate' PROVE Answered(d, fate'[d])
  <2>1. d \in 1..(Len(fate) + 1) /\ DOMAIN fate = 1..Len(fate) /\ Len(fate) \in Nat
    BY <1>1, <1>6
  <2>2. d = n \/ d \in 1..Len(fate)
    BY <2>1
  <2>3. d = n \/ (d \in DOMAIN fate /\ fate'[d] = fate[d])
    <3>1. d \in 1..Len(fate) => d \in DOMAIN fate
      BY <2>1
    <3>2. d \in 1..Len(fate) => fate'[d] = fate[d]
      BY <1>5, Zenon
    <3>3. CASE d \in 1..Len(fate)
      BY <3>1, <3>2, <3>3
    <3>4. QED
      BY <2>2, <3>3
  <2>4. QED
    BY <1>4, <1>5, <2>3 DEF DeliveredInv
<1>8. ASSUME NEW d \in DOMAIN fate
      PROVE  d \in DOMAIN fate' /\ fate'[d].evs = fate[d].evs /\ fate'[d].next >= fate[d].next
  <2>1. d \in 1..Len(fate)
    BY <1>1
  <2>2. d \in 1..n /\ fate'[d] = fate[d]
    BY <1>1, <1>5, <2>1
  <2>3. d \in DOMAIN fate' /\ fate'[d] = fate[d]
    BY <1>6, <2>2
  <2>4. fate[d].next \in Nat
    BY DEF DeliveredInv, Answered
  <2>5. QED
    BY <2>3, <2>4
<1>9. QED
  BY <1>1, <1>2, <1>5, <1>7, <1>8, FateGrows

LEMMA DispatchDelivers == ASSUME DeliveredInv, NEW d \in DOMAIN fate, Dispatch(d) PROVE DeliveredInv'
<1> DEFINE k == fate[d].next
           new == [fate[d] EXCEPT !.next = k + 1]
<1>0. PICK p : p = [d |-> d, k |-> k, e |-> Normalize(fate[d].evs[k], now)]
  OBVIOUS
<1>1. /\ k \in DOMAIN fate[d].evs /\ fate' = [fate EXCEPT ![d] = new]
      /\ queue' = Append(queue, p) \/ queue' = queue
      /\ UNCHANGED <<backend, rows, now, origin>>
  BY <1>0 DEF Dispatch
<1>2. /\ fate \in Seq(Answers) /\ now \in Nat /\ Len(fate) \in Nat /\ Len(fate) <= Len(Load)
      /\ DOMAIN fate = 1..Len(fate) /\ fate[d] \in Answers /\ Answered(d, fate[d])
  BY LenProperties, ElementOfSeq DEF DeliveredInv
<1>3. d \in Deliveries
  BY <1>2, SearchAssumption
<1>4. PICK t \in Nat : fate[d].status = Decoded(Load[d], t).status /\ fate[d].evs = Decoded(Load[d], t).evs
  BY <1>2 DEF Answered
<1>5. k \in Nat /\ k + 1 \in Nat /\ k < k + 1
  BY <1>2 DEF Answered
<1>6. p \in Parcels
  <2>1. p = [d |-> d, k |-> k, e |-> Normalize(Decoded(Load[d], t).evs[k], now)]
    BY <1>0, <1>4
  <2> HIDE DEF k
  <2>2. now \in Nat /\ k \in Nat
    BY <1>2, <1>5
  <2>3. QED
    BY <1>3, <2>1, <2>2, IsParcel
<1>7. fate[d] = [status |-> fate[d].status, evs |-> fate[d].evs, next |-> fate[d].next]
  BY <1>2 DEF Answers
<1>8. new = [status |-> fate[d].status, evs |-> fate[d].evs, next |-> k + 1]
  BY <1>7
<1>9. new \in Answers
  BY <1>3, <1>4, <1>5, <1>8, IsAnswer
<1>10. Answered(d, new)
  BY <1>4, <1>5, <1>8 DEF Answered
<1>11. new.evs = fate[d].evs /\ new.next = k + 1
  BY <1>8
<1> HIDE DEF new
<1>12. /\ fate' \in Seq(Answers) /\ DOMAIN fate' = DOMAIN fate /\ Len(fate') = Len(fate)
       /\ fate'[d] = new /\ \A c \in DOMAIN fate : c # d => fate'[c] = fate[c]
  BY <1>1, <1>2, <1>9, ExceptSeq
<1>13. \A c \in DOMAIN fate' : Answered(c, fate'[c])
  BY <1>10, <1>12 DEF DeliveredInv
<1>14. ASSUME NEW c \in DOMAIN fate
       PROVE  c \in DOMAIN fate' /\ fate'[c].evs = fate[c].evs /\ fate'[c].next >= fate[c].next
  <2>1. CASE c = d
    BY <2>1, <1>5, <1>11, <1>12
  <2>2. CASE c # d
    <3>1. fate'[c] = fate[c] /\ fate[c].next \in Nat
      BY <2>2, <1>12 DEF DeliveredInv, Answered
    <3>2. QED
      BY <1>12, <3>1
  <2>3. QED
    BY <2>1, <2>2
<1>15. p.d = d /\ p.k = k /\ p.e = Normalize(fate[d].evs[k], now)
  BY <1>0
<1>16. Dispatched(p)'
  <2>1. p.d \in DOMAIN fate' /\ p.k \in DOMAIN fate'[p.d].evs /\ p.k < fate'[p.d].next
    BY <1>1, <1>5, <1>11, <1>12, <1>15
  <2>2. p.e = Normalize(fate'[p.d].evs[p.k], now)
    BY <1>11, <1>12, <1>15
  <2>3. QED
    BY <1>2, <2>1, <2>2 DEF Dispatched
<1>17. p.k >= fate[p.d].next /\ p.d \in DOMAIN fate
  BY <1>5, <1>15
<1>18. QED
  BY <1>1, <1>2, <1>6, <1>12, <1>13, <1>14, <1>16, <1>17, FateGrows

\* The queue cut in two.
LEMMA Cut ==
  ASSUME queue \in Seq(Parcels), NEW n \in DOMAIN queue
  PROVE  LET h == SubSeq(queue, 1, n)
             t == SubSeq(queue, n + 1, Len(queue)) IN
         /\ h \in Seq(Parcels) /\ t \in Seq(Parcels) /\ Len(h) = n /\ n \in Nat /\ Len(t) = Len(queue) - n
         /\ DOMAIN h = 1..n /\ \A i \in 1..n : i \in DOMAIN queue /\ h[i] = queue[i]
         /\ DOMAIN t = 1..(Len(queue) - n) /\ \A i \in DOMAIN t : n + i \in DOMAIN queue /\ t[i] = queue[n + i]
         /\ DOMAIN queue = 1..Len(queue) /\ Len(queue) \in Nat
<1> DEFINE h == SubSeq(queue, 1, n)
           t == SubSeq(queue, n + 1, Len(queue))
<1>1. /\ DOMAIN queue = 1..Len(queue) /\ Len(queue) \in Nat /\ n \in Nat /\ 1 <= n /\ n <= Len(queue)
      /\ \A i \in 1..Len(queue) : queue[i] \in Parcels
  BY LenProperties, ElementOfSeq
<1>2. h \in Seq(Parcels) /\ Len(h) = n /\ \A i \in 1..n : h[i] = queue[i]
  <2>1. \A i \in 1..n : queue[i] \in Parcels
    BY <1>1
  <2>2. Len(h) = IF 1 <= n THEN n - 1 + 1 ELSE 0
    BY <1>1, <2>1, SubSeqProperties
  <2>3. h \in Seq(Parcels) /\ \A i \in 1..(n - 1 + 1) : h[i] = queue[1 + i - 1]
    BY <1>1, <2>1, SubSeqProperties
  <2>4. n - 1 + 1 = n /\ \A i \in 1..n : 1 + i - 1 = i
    BY <1>1
  <2> HIDE DEF h
  <2>5. QED
    BY <1>1, <2>2, <2>3, <2>4
<1>3. t \in Seq(Parcels) /\ Len(t) = Len(queue) - n /\ \A i \in 1..(Len(queue) - n) : t[i] = queue[n + i]
  <2>1. \A i \in (n + 1)..Len(queue) : queue[i] \in Parcels
    BY <1>1
  <2>2. Len(t) = IF n + 1 <= Len(queue) THEN Len(queue) - (n + 1) + 1 ELSE 0
    BY <1>1, <2>1, SubSeqProperties
  <2>3. t \in Seq(Parcels) /\ \A i \in 1..(Len(queue) - (n + 1) + 1) : t[i] = queue[n + 1 + i - 1]
    BY <1>1, <2>1, SubSeqProperties
  <2>4. Len(queue) - (n + 1) + 1 = Len(queue) - n /\ \A i \in 1..(Len(queue) - n) : n + 1 + i - 1 = n + i
    BY <1>1
  <2> HIDE DEF t
  <2>5. QED
    BY <1>1, <2>2, <2>3, <2>4
<1>4. DOMAIN h = 1..n /\ DOMAIN t = 1..(Len(queue) - n)
  BY <1>2, <1>3, LenProperties
<1> HIDE DEF h, t
<1>5. /\ \A i \in 1..n : i \in DOMAIN queue
      /\ \A i \in 1..(Len(queue) - n) : n + i \in DOMAIN queue
  BY <1>1
<1>6. QED
  BY <1>1, <1>2, <1>3, <1>4, <1>5 DEF h, t

\* Rows are written, or lost on their way.
LEMMA WriteDelivers == ASSUME DeliveredInv, NEW n \in DOMAIN queue, Write(n) PROVE DeliveredInv'
<1> DEFINE h == SubSeq(queue, 1, n)
           t == SubSeq(queue, n + 1, Len(queue))
           new == [i \in 1..n |-> Keep(backend, queue[i].e)]
<1>1. /\ rows' = rows \o new /\ origin' = origin \o h /\ queue' = t /\ UNCHANGED <<backend, fate, now>>
  BY DEF Write
<1>2. /\ queue \in Seq(Parcels) /\ origin \in Seq(Parcels) /\ rows \in Seq(Kept) /\ Len(rows) = Len(origin)
      /\ InOrder(queue) /\ InOrder(origin) /\ Before(origin, queue)
      /\ \A i \in DOMAIN queue : queue[i] \in Parcels /\ Dispatched(queue[i])
      /\ \A i \in DOMAIN origin : Dispatched(origin[i])
      /\ \A i \in DOMAIN rows : rows[i] = Keep(backend, origin[i].e)
      /\ backend \in Backends
  BY ElementOfSeq, LenProperties DEF DeliveredInv
<1>3. /\ h \in Seq(Parcels) /\ t \in Seq(Parcels) /\ Len(h) = n /\ n \in Nat /\ Len(t) = Len(queue) - n
      /\ DOMAIN h = 1..n /\ \A i \in 1..n : i \in DOMAIN queue /\ h[i] = queue[i]
      /\ DOMAIN t = 1..(Len(queue) - n)
      /\ \A i \in DOMAIN t : n + i \in DOMAIN queue /\ t[i] = queue[n + i]
      /\ DOMAIN queue = 1..Len(queue) /\ Len(queue) \in Nat
  BY <1>2, Cut
<1>4. new \in Seq(Kept) /\ Len(new) = n /\ DOMAIN new = 1..n /\ \A i \in 1..n : new[i] = Keep(backend, queue[i].e)
  <2>1. \A i \in 1..n : Keep(backend, queue[i].e) \in Kept
    <3>1. \A p \in Parcels : Keep(backend, p.e) \in Kept
      BY <1>2 DEF Kept
    <3>2. \A i \in 1..n : queue[i] \in Parcels
      BY <1>2, <1>3
    <3>3. QED
      BY <3>1, <3>2
  <2>2. new \in [1..n -> Kept] /\ n \in Nat
    BY <1>3, <2>1
  <2>3. new \in Seq(Kept) /\ DOMAIN new = 1..n
    BY <2>2, SeqDef
  <2>4. Len(new) = n
    BY <1>3, <2>3, LenProperties
  <2>5. QED
    BY <2>3, <2>4
<1> HIDE DEF h, t, new
<1>5. /\ origin' \in Seq(Parcels) /\ Len(origin') = Len(origin) + n /\ Len(origin) \in Nat
      /\ DOMAIN origin = 1..Len(origin) /\ DOMAIN origin' = 1..(Len(origin) + n)
      /\ \A i \in DOMAIN origin : origin'[i] = origin[i]
      /\ \A i \in DOMAIN origin' : i \notin DOMAIN origin =>
           i - Len(origin) \in DOMAIN h /\ origin'[i] = h[i - Len(origin)]
  <2>1. origin \in Seq(Parcels) /\ h \in Seq(Parcels)
    BY <1>2, <1>3
  <2>2. origin' = origin \o h /\ Len(h) = n
    BY <1>1, <1>3
  <2> DEFINE both == origin \o h
  <2>3. both \in Seq(Parcels) /\ Len(both) = Len(origin) + Len(h) /\ Len(origin) \in Nat
    BY <2>1, Joined
  <2>4. DOMAIN origin = 1..Len(origin) /\ DOMAIN h = 1..Len(h) /\ DOMAIN both = 1..(Len(origin) + Len(h))
    BY <2>1, Joined
  <2>5. \A i \in DOMAIN origin : both[i] = origin[i]
    BY <2>1, Joined
  <2>6. \A i \in DOMAIN both : i \notin DOMAIN origin =>
          i - Len(origin) \in DOMAIN h /\ both[i] = h[i - Len(origin)]
    BY <2>1, Joined
  <2>7. QED
    BY <2>2, <2>3, <2>4, <2>5, <2>6
<1>6. /\ rows' \in Seq(Kept) /\ Len(rows') = Len(rows) + n
      /\ DOMAIN rows = 1..Len(rows) /\ DOMAIN rows' = 1..(Len(rows) + n)
      /\ \A i \in DOMAIN rows : rows'[i] = rows[i]
      /\ \A i \in DOMAIN rows' : i \notin DOMAIN rows =>
           i - Len(rows) \in DOMAIN new /\ rows'[i] = new[i - Len(rows)]
  <2>1. rows \in Seq(Kept) /\ new \in Seq(Kept)
    BY <1>2, <1>4
  <2>2. rows' = rows \o new /\ Len(new) = n
    BY <1>1, <1>4
  <2> DEFINE both == rows \o new
  <2>3. both \in Seq(Kept) /\ Len(both) = Len(rows) + Len(new)
    BY <2>1, Joined
  <2>4. DOMAIN rows = 1..Len(rows) /\ DOMAIN new = 1..Len(new) /\ DOMAIN both = 1..(Len(rows) + Len(new))
    BY <2>1, Joined
  <2>5. \A i \in DOMAIN rows : both[i] = rows[i]
    BY <2>1, Joined
  <2>6. \A i \in DOMAIN both : i \notin DOMAIN rows => i - Len(rows) \in DOMAIN new /\ both[i] = new[i - Len(rows)]
    BY <2>1, Joined
  <2>7. QED
    BY <2>2, <2>3, <2>4, <2>5, <2>6
<1>7. InOrder(h) /\ InOrder(t) /\ Before(h, t)
  <2>1. InOrder(h)
    BY <1>2, <1>3 DEF InOrder
  <2>2. InOrder(t)
    <3> SUFFICES ASSUME NEW i \in DOMAIN t, NEW j \in DOMAIN t, i < j PROVE Precedes(t[i], t[j])
      BY DEF InOrder
    <3>1. n + i < n + j
      BY <1>3
    <3>2. QED
      BY <1>2, <1>3, <3>1 DEF InOrder
  <2>3. Before(h, t)
    <3> SUFFICES ASSUME NEW i \in DOMAIN h, NEW j \in DOMAIN t PROVE Precedes(h[i], t[j])
      BY DEF Before
    <3>1. i < n + j
      BY <1>3
    <3>2. QED
      BY <1>2, <1>3, <3>1 DEF InOrder
  <2>4. QED
    BY <2>1, <2>2, <2>3
<1>8. Before(origin, h) /\ Before(origin, t)
  BY <1>2, <1>3 DEF Before
<1>9. InOrder(origin')
  BY <1>1, <1>2, <1>3, <1>7, <1>8, JoinedOrder
<1>10. Before(origin', queue')
  <2> SUFFICES ASSUME NEW i \in DOMAIN origin', NEW j \in DOMAIN t PROVE Precedes(origin'[i], t[j])
    BY <1>1 DEF Before
  <2>1. CASE i \in DOMAIN origin
    BY <2>1, <1>5, <1>8 DEF Before
  <2>2. CASE i \notin DOMAIN origin
    BY <2>2, <1>5, <1>7 DEF Before
  <2>3. QED
    BY <2>1, <2>2
<1>11. \A p : Dispatched(p) <=> Dispatched(p)'
  BY <1>1 DEF Dispatched
<1>12. \A i \in DOMAIN queue' : Dispatched(queue[i])'
  BY <1>1, <1>2, <1>3, <1>11
<1>13. ASSUME NEW i \in DOMAIN origin' PROVE Dispatched(origin[i])'
  <2>1. CASE i \in DOMAIN origin
    BY <2>1, <1>2, <1>5, <1>11
  <2>2. CASE i \notin DOMAIN origin
    BY <2>2, <1>2, <1>3, <1>5, <1>11
  <2>3. QED
    BY <2>1, <2>2
<1>14. ASSUME NEW i \in DOMAIN rows' PROVE rows'[i] = Keep(backend', origin'[i].e)
  <2>1. DOMAIN rows = DOMAIN origin /\ DOMAIN rows' = DOMAIN origin'
    BY <1>2, <1>5, <1>6
  <2>2. CASE i \in DOMAIN rows
    BY <2>1, <2>2, <1>1, <1>2, <1>5, <1>6
  <2>3. CASE i \notin DOMAIN rows
    <3> DEFINE k == i - Len(rows)
    <3>1. k \in 1..n /\ rows'[i] = new[k] /\ origin'[i] = h[k]
      BY <2>1, <2>3, <1>2, <1>4, <1>5, <1>6
    <3> HIDE DEF k
    <3>2. QED
      BY <3>1, <1>1, <1>3, <1>4
  <2>4. QED
    BY <2>2, <2>3
<1>15. /\ now' \in Nat /\ fate' \in Seq(Answers) /\ Len(fate') <= Len(Load) /\ backend' \in Backends
       /\ \A d \in DOMAIN fate' : Answered(d, fate'[d])
  BY <1>1 DEF DeliveredInv
<1>16. queue' \in Seq(Parcels) /\ InOrder(queue') /\ Len(rows') = Len(origin')
  BY <1>1, <1>2, <1>3, <1>5, <1>6, <1>7
<1>17. QED
  BY <1>5, <1>6, <1>9, <1>10, <1>12, <1>13, <1>14, <1>15, <1>16 DEF DeliveredInv, InOrder, Before

LEMMA FailDelivers == ASSUME DeliveredInv, NEW n \in DOMAIN queue, WriteFails(n) PROVE DeliveredInv'
<1> DEFINE t == SubSeq(queue, n + 1, Len(queue))
<1>1. queue' = t /\ UNCHANGED <<backend, fate, now, rows, origin>>
  BY DEF WriteFails
<1>2. /\ queue \in Seq(Parcels) /\ InOrder(queue) /\ InOrder(origin) /\ Before(origin, queue)
      /\ \A i \in DOMAIN queue : Dispatched(queue[i])
  BY DEF DeliveredInv
<1>3. /\ t \in Seq(Parcels) /\ n \in Nat /\ DOMAIN t = 1..(Len(queue) - n) /\ Len(queue) \in Nat
      /\ \A i \in DOMAIN t : n + i \in DOMAIN queue /\ t[i] = queue[n + i]
  BY <1>2, Cut
<1> HIDE DEF t
<1>4. InOrder(t)
  <2> SUFFICES ASSUME NEW i \in DOMAIN t, NEW j \in DOMAIN t, i < j PROVE Precedes(t[i], t[j])
    BY DEF InOrder
  <2>1. n + i < n + j
    BY <1>3
  <2>2. QED
    BY <1>2, <1>3, <2>1 DEF InOrder
<1>5. Before(origin, t)
  BY <1>2, <1>3 DEF Before
<1>6. \A p : Dispatched(p) <=> Dispatched(p)'
  BY <1>1 DEF Dispatched
<1>7. (\A i \in DOMAIN queue' : Dispatched(queue[i])') /\ \A i \in DOMAIN origin' : Dispatched(origin[i])'
  BY <1>1, <1>2, <1>3, <1>6 DEF DeliveredInv
<1>8. QED
  BY <1>1, <1>2, <1>3, <1>4, <1>5, <1>7 DEF DeliveredInv, InOrder, Before

\* The reader's steps.
Reading ==
  \/ \E s \in Searches : SearchLogs(s) \/ NextPage(s) \/ PrevPage(s)
  \/ ScanDay \/ ScanDone \/ CountRows \/ SelectRows \/ Respond

LEMMA ReadingLeaves == ASSUME Reading \/ UNCHANGED vars PROVE UNCHANGED <<backend, rowVars>>
BY DEF Reading, SearchLogs, NextPage, PrevPage, Turn, AskFor, ScanDay, ScanDone, CountRows, SelectRows, Respond,
   vars

LEMMA DeliveredStep == DeliveredInv /\ [Next]_vars => DeliveredInv'
<1> SUFFICES ASSUME DeliveredInv, [Next]_vars PROVE DeliveredInv'
  OBVIOUS
<1>1. CASE Receive
  BY <1>1, ReceiveDelivers
<1>2. CASE \E d \in DOMAIN fate : Dispatch(d)
  BY <1>2, DispatchDelivers
<1>3. CASE \E n \in DOMAIN queue : Write(n) \/ WriteFails(n)
  BY <1>3, WriteDelivers, FailDelivers
<1>4. CASE Reading \/ UNCHANGED vars
  <2>1. UNCHANGED <<backend, fate, queue, rows, now, origin>>
    BY <1>4, ReadingLeaves DEF rowVars
  <2>2. QED
    BY <2>1 DEF DeliveredInv, Dispatched, InOrder, Before
<1>5. QED
  BY <1>1, <1>2, <1>3, <1>4 DEF Next, Reading

LEMMA Delivered == Spec => []DeliveredInv
BY DeliveredInit, DeliveredStep, PTL DEF Spec

\* A row and the event it was written for.
LEMMA RowOf ==
  ASSUME DeliveredInv, NEW i \in DOMAIN rows
  PROVE  /\ i \in DOMAIN origin /\ origin[i].d \in Deliveries /\ origin[i].d \in DOMAIN fate
         /\ Answered(origin[i].d, fate[origin[i].d]) /\ Dispatched(origin[i])
         /\ rows[i] = Keep(backend, origin[i].e) /\ backend \in Outputs
         /\ \E f : Stored(Load[origin[i].d].addr, f, origin[i].e) /\ SentBy(origin[i].d, f)
<1> DEFINE p == origin[i]
           d == p.d
<1>1. /\ rows \in Seq(Kept) /\ origin \in Seq(Parcels) /\ Len(rows) = Len(origin) /\ backend \in Backends
      /\ rows[i] = Keep(backend, p.e)
  BY DEF DeliveredInv
<1>2. DOMAIN rows = DOMAIN origin
  BY <1>1, LenProperties
<1>3. p \in Parcels /\ Dispatched(p)
  BY <1>1, <1>2, ElementOfSeq, LenProperties DEF DeliveredInv
<1>4. d \in DOMAIN fate /\ Answered(d, fate[d])
  BY <1>3 DEF Dispatched, DeliveredInv
<1>5. backend \in Outputs
  BY <1>1, SearchAssumption DEF Outputs
<1>6. PICK u \in Nat : p.k \in DOMAIN fate[d].evs /\ p.e = Normalize(fate[d].evs[p.k], u)
  BY <1>3 DEF Dispatched
<1>7. PICK t \in Nat : fate[d].evs = Decoded(Load[d], t).evs
  BY <1>4 DEF Answered
<1>8. d \in Deliveries
  BY <1>3, ParcelTypes
<1>9. Known(d, fate[d].evs[p.k])
  <2>1. RightAnswer(d, Decoded(Load[d], t))
    BY <1>8, AnswerOf
  <2>2. QED
    BY <1>6, <1>7, <2>1 DEF RightAnswer
<1>10. PICK f : Comes(Load[d].addr, f, fate[d].evs[p.k]) /\ SentBy(d, f)
  BY <1>9 DEF Known
<1>11. Stored(Load[d].addr, f, p.e)
  BY <1>6, <1>10, NormalizedStored
<1>12. QED
  BY <1>1, <1>2, <1>3, <1>4, <1>5, <1>8, <1>10, <1>11

LEMMA RowTrace ==
  ASSUME NEW b \in Outputs, NEW e, IsEvent(e)
  PROVE  Keep(b, e).trace = e.trace
BY KeepsEvent DEF Keys

-----------------------------------------------------------------------------
(* Batches *)

LEMMA EmptyNone == DOMAIN <<>> = {}
OBVIOUS

LEMMA OneNone == (\A j \in 1..1 : j = 1) /\ 1..0 = {}
OBVIOUS

LEMMA Around ==
  ASSUME NEW d \in Deliveries, Load[d].via = "http",
         Load[d].v.items = <<>> \/ ~ \A x \in Range(Load[d].v.items) : Decodes(x)
  PROVE  \A x \in Range(Load[d].v.items) : x.f.trace # "" => x.f.trace # Load[d].v.f.trace
<1>1. CASE Load[d].v.items = <<>>
  <2>1. DOMAIN Load[d].v.items = {}
    BY <1>1, EmptyNone
  <2>2. QED
    BY <2>1, Zenon DEF Range
<1>2. CASE ~ \A x \in Range(Load[d].v.items) : Decodes(x)
  BY <1>2, LoadTypes, TracesAssumption
<1>3. QED
  BY <1>1, <1>2

\* Event k of the answer to a batch, if it has the trace of an item.
LEMMA ItemOf ==
  ASSUME NEW d \in Deliveries, Load[d].via = "http", NEW t \in Nat,
         NEW k \in DOMAIN Decoded(Load[d], t).evs,
         NEW x \in Range(Load[d].v.items), x.f.trace # "", Decoded(Load[d], t).evs[k].trace = x.f.trace
  PROVE  /\ \A y \in Range(Load[d].v.items) : Decodes(y)
         /\ Decoded(Load[d], t).evs[k].trace = Load[d].v.items[k].f.trace
<1> DEFINE v == Load[d].v
           A == Decoded(Load[d], t)
           a == Load[d].addr
<1>1. \/ WholeBatch(a, v, A)
      \/ /\ v.items = <<>> \/ ~ \A y \in Range(v.items) : Decodes(y)
         /\ OneEvent(a, v, A)
      \/ NoEvent(A)
  BY HttpAnswer
<1> HIDE DEF A, a
<1>2. CASE WholeBatch(a, v, A)
  BY <1>2 DEF WholeBatch, Comes, A
<1>3. CASE (v.items = <<>> \/ ~ \A y \in Range(v.items) : Decodes(y)) /\ OneEvent(a, v, A)
  <2>1. DOMAIN A.evs = 1..1 /\ A.evs[1].trace = v.f.trace
    BY <1>3 DEF OneEvent, Comes
  <2>3. k = 1
    BY <2>1, OneNone, Zenon DEF A
  <2>4. x.f.trace # v.f.trace
    BY <1>3, Around
  <2>5. QED
    BY <2>1, <2>3, <2>4, Zenon DEF A
<1>4. CASE NoEvent(A)
  BY <1>4, OneNone, Zenon DEF NoEvent, A
<1>5. QED
  BY <1>1, <1>2, <1>3, <1>4

\* An item of a batch is stored only when the whole batch decodes and is
\* answered with a 202, in the place of its item, and the rows of a batch are
\* in its order, each item at most once: a batch with one bad item is refused,
\* or is a single event made of what is around the items; and each handler
\* dispatches its events one after the other, into a queue that only loses
\* some of them (json.go:123-162, app.go:156-199).
THEOREM SearchBatchIsWhole == Spec => []BatchIsWhole
<1>1. DeliveredInv => BatchIsWhole
  <2> SUFFICES ASSUME DeliveredInv PROVE BatchIsWhole
    OBVIOUS
  <2>1. ASSUME NEW i \in DOMAIN rows, NEW j \in DOMAIN rows, i < j, origin[i].d = origin[j].d
        PROVE  origin[i].k < origin[j].k
    <3>1. i \in DOMAIN origin /\ j \in DOMAIN origin
      BY RowOf
    <3>2. QED
      BY <2>1, <3>1 DEF DeliveredInv, InOrder, Precedes
  <2>2. ASSUME NEW i \in DOMAIN rows PROVE fate[origin[i].d].status = 202
    <3> DEFINE d == origin[i].d
    <3>1. d \in Deliveries /\ Answered(d, fate[d]) /\ origin[i].k \in DOMAIN fate[d].evs
      BY <2>2, RowOf DEF Dispatched
    <3>2. PICK t \in Nat : fate[d].status = Decoded(Load[d], t).status /\ fate[d].evs = Decoded(Load[d], t).evs
      BY <3>1 DEF Answered
    <3>3. /\ fate[d].status \in {202, 400}
          /\ fate[d].status = 400 => DOMAIN fate[d].evs = 1..0
          /\ \A k \in DOMAIN fate[d].evs : k \in Nat /\ k >= 1
      BY <3>1, <3>2, AnswerOf DEF RightAnswer
    <3> HIDE DEF d
    <3>4. 1..0 = {}
      OBVIOUS
    <3>5. fate[d].status = 202
      BY <3>1, <3>3, <3>4
    <3>6. QED
      BY <3>5 DEF d
  <2>3. ASSUME NEW i \in DOMAIN rows, Load[origin[i].d].via = "http",
               NEW x \in Range(Load[origin[i].d].v.items), x.f.trace # "", rows[i].trace = x.f.trace
        PROVE  /\ \A y \in Range(Load[origin[i].d].v.items) : Decodes(y)
               /\ rows[i].trace = Load[origin[i].d].v.items[origin[i].k].f.trace
    <3> DEFINE p == origin[i]
               d == p.d
    <3>1. /\ d \in Deliveries /\ Answered(d, fate[d]) /\ Dispatched(p)
          /\ rows[i] = Keep(backend, p.e) /\ backend \in Outputs
      BY <2>3, RowOf
    <3>2. PICK t \in Nat : fate[d].evs = Decoded(Load[d], t).evs
      BY <3>1 DEF Answered
    <3>3. PICK u \in Nat : p.k \in DOMAIN fate[d].evs /\ p.e = Normalize(fate[d].evs[p.k], u)
      BY <3>1 DEF Dispatched
    <3>4. PICK f : Comes(Load[d].addr, f, fate[d].evs[p.k])
      <4>1. RightAnswer(d, Decoded(Load[d], t))
        BY <3>1, AnswerOf
      <4> HIDE DEF d, p
      <4>2. p.k \in DOMAIN Decoded(Load[d], t).evs
        BY <3>2, <3>3
      <4>3. Known(d, Decoded(Load[d], t).evs[p.k])
        BY <4>1, <4>2, Zenon DEF RightAnswer
      <4>4. Known(d, fate[d].evs[p.k])
        BY <3>2, <4>3
      <4>5. QED
        BY <4>4 DEF Known
    <3>5. Stored(Load[d].addr, f, p.e)
      BY <3>3, <3>4, NormalizedStored
    <3>6. p.e.trace = fate[d].evs[p.k].trace
      BY <3>4, <3>5 DEF Stored, Comes
    <3>7. IsEvent(p.e)
      BY <3>5 DEF Stored
    <3>8. rows[i].trace = fate[d].evs[p.k].trace
      BY <3>1, <3>6, <3>7, RowTrace
    <3>9. p.k \in DOMAIN Decoded(Load[d], t).evs /\ Decoded(Load[d], t).evs[p.k].trace = x.f.trace
      BY <2>3, <3>2, <3>3, <3>8
    <3>10. QED
      BY <2>3, <3>1, <3>2, <3>8, <3>9, ItemOf
  <2>4. ASSUME NEW i \in DOMAIN rows, Load[origin[i].d].via = "http",
               rows[i].trace \in {x.f.trace : x \in Range(Load[origin[i].d].v.items)} \ {""}
        PROVE  /\ \A y \in Range(Load[origin[i].d].v.items) : Decodes(y)
               /\ rows[i].trace = Load[origin[i].d].v.items[origin[i].k].f.trace
    <3>1. PICK x \in Range(Load[origin[i].d].v.items) : rows[i].trace = x.f.trace /\ x.f.trace # ""
      BY <2>4, Zenon
    <3>2. QED
      BY <2>3, <2>4, <3>1, Zenon
  <2>5. QED
    BY <2>1, <2>2, <2>4, Zenon DEF BatchIsWhole
<1>2. QED
  BY <1>1, Delivered, PTL

-----------------------------------------------------------------------------
(* What is found *)

LEMMA UnitsWhole ==
  ASSUME NEW u \in Nat \ {0}, NEW k \in Nat
  PROVE  (k * u) % u = 0
<1>1. k * u \in Nat
  OBVIOUS
<1>2. PICK j \in Nat : Whole(k * u, u) = j * u /\ j * u <= k * u /\ k * u < j * u + u
  BY <1>1, WholeUnits
<1>3. k * u <= j * u
  BY <1>2, UnitsOrder
<1>4. Whole(k * u, u) = k * u /\ (k * u) % u \in Nat
  BY <1>1, <1>2, <1>3
<1>5. QED
  BY <1>1, <1>4 DEF Whole

\* The minute of a time, and the next one.
LEMMA MinuteOf ==
  ASSUME NEW t \in Nat
  PROVE  LET m == Whole(t, Minute) IN
         /\ m \in Nat /\ m % Minute = 0 /\ m <= t
         /\ m + Minute \in Nat /\ (m + Minute) % Minute = 0 /\ t <= m + Minute
<1>1. Minute \in Nat \ {0}
  BY SearchAssumption
<1>2. PICK k \in Nat : Whole(t, Minute) = k * Minute /\ k * Minute <= t /\ t < k * Minute + Minute
  BY <1>1, WholeUnits
<1>3. (k * Minute) % Minute = 0 /\ ((k + 1) * Minute) % Minute = 0
  BY <1>1, UnitsWhole
<1>4. (k + 1) * Minute = k * Minute + Minute /\ k * Minute \in Nat
  BY <1>1
<1>5. QED
  BY <1>1, <1>2, <1>3, <1>4

\* In the minute of the event that was sent, whatever becomes of its time.
LEMMA InItsMinute ==
  ASSUME NEW b \in Outputs, NEW f \in EventFields, NEW e, IsEvent(e), f.ts # 0 => e.ts = f.ts,
         NEW a, NEW w
  PROVE  Since(Canonical(a, f, w), Keep(b, e)) /\ Until(Canonical(a, f, w), Keep(b, e))
<1> DEFINE s == Canonical(a, f, w)
<1>0. /\ s.from = (IF f.ts = 0 THEN 0 ELSE Whole(f.ts, Minute))
      /\ s.to = (IF f.ts = 0 THEN 0 ELSE Whole(f.ts, Minute) + Minute)
  BY DEF Canonical, SearchFor
<1> HIDE DEF s
<1>1. f.ts \in Nat
  BY DEF EventFields
<1>2. CASE f.ts = 0
  BY <1>0, <1>2, Zenon DEF Since, Until, s
<1>3. CASE f.ts # 0
  <2>1. e.ts = f.ts /\ s.from = Whole(f.ts, Minute) /\ s.to = Whole(f.ts, Minute) + Minute
    BY <1>0, <1>3
  <2>2. /\ s.from \in Nat /\ s.from % Minute = 0 /\ s.from <= e.ts
        /\ s.to \in Nat /\ s.to % Minute = 0 /\ e.ts <= s.to
    BY <1>1, <2>1, MinuteOf
  <2>3. s.from <= Keep(b, e).ts /\ Keep(b, e).ts <= s.to
    BY <2>2, KeepsEvent
  <2>4. Keep(b, e).ts \in Nat
    BY KeepsEvent DEF IsEvent
  <2>5. Keep(b, e).ts >= s.from
    BY <2>2, <2>3, <2>4
  <2>6. Since(s, Keep(b, e))
    BY <2>5, Zenon DEF Since
  <2>7. Until(s, Keep(b, e))
    BY <2>3, Zenon DEF Until
  <2>8. QED
    BY <2>6, <2>7, Zenon DEF s
<1>4. QED
  BY <1>2, <1>3 DEF s

LEMMA StoredIsFound ==
  ASSUME NEW a, NEW f \in EventFields, NEW e, Stored(a, f, e), NEW b \in Outputs,
         NEW w \in f.msg \cup {""}
  PROVE  /\ ~(b = "mysql" /\ w \in DOMAIN Patterns) => Match(b, Canonical(a, f, w), Keep(b, e))
         /\ MatchTail(Canonical(a, f, w), e)
<1> DEFINE s == Canonical(a, f, w)
           r == Keep(b, e)
<1>1. IsEvent(e) /\ (f.ts # 0 => e.ts = f.ts)
  BY DEF Stored
<1>2. Since(s, r) /\ Until(s, r)
  <2> HIDE DEF s, r
  <2>1. Since(Canonical(a, f, w), Keep(b, e)) /\ Until(Canonical(a, f, w), Keep(b, e))
    BY <1>1, InItsMinute
  <2>2. QED
    BY <2>1 DEF s, r
<1>3. /\ s.kind = KindOf(f) /\ s.kind # ""
      /\ s.levels = {IF f.level = "" THEN "info" ELSE Lower(f.level)}
      /\ s.services = {f.service} \ {""} /\ s.hosts = HostsOf(a, f)
      /\ s.trace = f.trace /\ s.word = w
  BY DEF Canonical, SearchFor, KindOf, HostsOf
<1> HIDE DEF s
<1>4. /\ r.kind = e.kind /\ r.level = e.level /\ r.service = e.service /\ r.host = e.host
      /\ r.trace = e.trace /\ r.msg = e.msg
  <2>1. \A k \in Keys : k # "ts" => r[k] = e[k]
    BY <1>1, KeepsEvent
  <2> HIDE DEF r
  <2>2. QED
    BY <2>1 DEF Keys
<1> HIDE DEF r
<1>5. e.kind = QueryKind(s) /\ e.kind = s.kind
  BY <1>3 DEF Stored, QueryKind
<1>6. In(s.levels, e.level) /\ In(s.hosts, e.host) /\ In(s.services, e.service)
  BY <1>3 DEF Stored, In
<1>7. InColumn(s.levels, e.level) /\ InColumn(s.services, e.service) /\ InColumn({QueryKind(s)}, e.kind)
  BY <1>5, <1>6 DEF In, InColumn
<1>8. s.trace = e.trace /\ InColumn({s.trace}, e.trace)
  BY <1>3 DEF Stored, InColumn
<1>9. HasWord(s, e) /\ HasAscii(s, e) /\ (w \notin DOMAIN Patterns => HasLike(s, e))
  BY <1>3 DEF Stored, HasWord, HasAscii, HasLike
<1>10. HasWord(s, r) /\ HasAscii(s, r) /\ (w \notin DOMAIN Patterns => HasLike(s, r))
  BY <1>4, <1>9 DEF HasWord, HasAscii, HasLike
<1>11. MatchFilesystem(s, r)
  BY <1>2, <1>4, <1>5, <1>6, <1>8, <1>10 DEF MatchFilesystem
<1>12. w \notin DOMAIN Patterns => MatchMySQL(s, r)
  BY <1>2, <1>4, <1>7, <1>8, <1>10 DEF MatchMySQL
<1>13. MatchClickHouse(s, r)
  BY <1>2, <1>4, <1>5, <1>6, <1>10 DEF MatchClickHouse
<1>14. MatchTail(s, e)
  BY <1>5, <1>6, <1>9 DEF MatchTail
<1>15. QED
  BY <1>11, <1>12, <1>13, <1>14 DEF Match, Outputs, s, r

\* The search that names what the sender put into an event, and the address it
\* was sent from when it named no host, finds the event in whatever output is
\* queried, and so does a tail: decoding and normalisation fill in what is
\* missing and change nothing else but the case of the level, and what an
\* output makes of the time stays within its minute (json.go:45-102,
\* decoder/json.go:34-78, app.go:193-197, normalize.go:37-54, mysql.go:60-66,
\* clickhouse.go:59-61).
THEOREM SearchFindsByFields == Spec => []FoundByItsFields
<1>1. DeliveredInv => FoundByItsFields
  <2> SUFFICES ASSUME DeliveredInv, NEW i \in DOMAIN rows, NEW f \in Sent(Load[origin[i].d]),
                      rows[i].trace = f.trace, NEW w \in f.msg \cup {""}
               PROVE  LET s == Canonical(Load[origin[i].d].addr, f, w) IN
                      /\ ~(backend = "mysql" /\ w \in DOMAIN Patterns) => Match(backend, s, rows[i])
                      /\ MatchTail(s, origin[i].e)
    BY DEF FoundByItsFields
  <2> DEFINE p == origin[i]
             d == p.d
  <2>1. d \in Deliveries /\ rows[i] = Keep(backend, p.e) /\ backend \in Outputs
    BY RowOf
  <2>2. PICK g : Stored(Load[d].addr, g, p.e) /\ SentBy(d, g)
    BY RowOf
  <2>3. f \in EventFields /\ f.trace # "" /\ Load[d] \in Range(Load)
    BY <2>1, LoadTypes, DeliveriesAssumption DEF Sent
  <2>4. g.trace = f.trace
    <3>1. IsEvent(p.e) /\ p.e.trace = g.trace
      BY <2>2 DEF Stored
    <3>2. QED
      BY <2>1, <3>1, RowTrace
  <2>5. g = f
    BY <2>2, <2>3, <2>4, TracesAssumption DEF SentBy
  <2>6. QED
    BY <2>1, <2>2, <2>3, <2>5, StoredIsFound
<1>2. QED
  BY <1>1, Delivered, PTL

-----------------------------------------------------------------------------
(* Pages, and answers *)

Rank(F, i) == Cardinality(Newer(F, i))

LEMMA RankGrows ==
  ASSUME NEW S, NEW T, S \subseteq T, IsFiniteSet(T)
  PROVE  Cardinality(S) <= Cardinality(T) /\ Cardinality(S) \in Nat /\ Cardinality(T) \in Nat /\ IsFiniteSet(S)
BY FS_Subset, FS_CardinalityType

\* A row whose time no other row has is on the page its rank is on: one that
\* is not on this page, and not before it, is behind it.
LEMMA PageHolds ==
  ASSUME NEW F, IsFiniteSet(F), \A j \in F : rows[j].ts \in Int, offset \in Nat,
         NEW p \in Pages(F), NEW i \in F, \A j \in F : j # i => rows[j].ts # rows[i].ts,
         i \notin Range(p), Rank(F, i) >= offset
  PROVE  Rank(F, i) >= offset + Limit /\ offset + Limit < Cardinality(F) /\ Len(p) = Limit
<1> DEFINE r == Rank(F, i)
           n == PageLength(F)
<1>1. /\ Newer(F, i) \subseteq F /\ i \notin Newer(F, i) /\ IsFiniteSet(Newer(F, i))
      /\ r \in Nat /\ Cardinality(F) \in Nat
  BY RankGrows DEF Newer, Rank
<1>2. Cardinality(Newer(F, i) \cup {i}) = r + 1 /\ IsFiniteSet(Newer(F, i) \cup {i})
  BY <1>1, FS_AddElement DEF Rank
<1>3. r < Cardinality(F)
  <2>1. Newer(F, i) \cup {i} \subseteq F
    BY <1>1
  <2>2. Cardinality(Newer(F, i) \cup {i}) <= Cardinality(F)
    BY <2>1, RankGrows
  <2>3. QED
    BY <1>1, <1>2, <2>2
<1>4. Limit \in Nat \ {0} /\ n \in Int /\ (n = Limit \/ n = Cardinality(F) - offset) /\ n <= Limit
  BY <1>1, SearchAssumption DEF PageLength
<1>5. /\ p \in [1..n -> F]
      /\ \A k \in 1..n : /\ Cardinality(Newer(F, p[k])) < offset + k
                        /\ offset + k <= Cardinality(AsNew(F, p[k]))
  BY DEF Pages
<1> HIDE DEF r, n
<1>6. ~(r < offset + n)
  <2> SUFFICES ASSUME r < offset + n PROVE FALSE
    OBVIOUS
  <2> DEFINE k == r - offset + 1
             x == p[k]
  <2>1. k \in 1..n /\ offset + k = r + 1
    BY <1>1, <1>4 DEF r
  <2>2. x \in F /\ Cardinality(Newer(F, x)) < r + 1 /\ r + 1 <= Cardinality(AsNew(F, x))
    <3>1. x \in F
      BY <1>5, <2>1
    <3>2. Cardinality(Newer(F, x)) < offset + k /\ offset + k <= Cardinality(AsNew(F, x))
      BY <1>5, <2>1
    <3>3. QED
      BY <2>1, <3>1, <3>2
  <2>3. x # i
    BY <1>5, <2>1 DEF Range
  <2> HIDE DEF k, x
  <2>4. rows[x].ts \in Int /\ rows[i].ts \in Int /\ rows[x].ts # rows[i].ts
    BY <2>2, <2>3
  <2>5. CASE rows[x].ts > rows[i].ts
    <3>1. AsNew(F, x) \subseteq Newer(F, i)
      BY <2>4, <2>5 DEF AsNew, Newer
    <3>2. Cardinality(AsNew(F, x)) <= r /\ Cardinality(AsNew(F, x)) \in Nat
      BY <1>1, <3>1, RankGrows DEF r, Rank
    <3>3. QED
      BY <1>1, <2>2, <3>2
  <2>6. CASE rows[x].ts < rows[i].ts
    <3>1. Newer(F, i) \cup {i} \subseteq Newer(F, x)
      BY <2>4, <2>6 DEF Newer
    <3>2. IsFiniteSet(Newer(F, x))
      BY RankGrows DEF Newer
    <3>3. r + 1 <= Cardinality(Newer(F, x)) /\ Cardinality(Newer(F, x)) \in Nat
      BY <1>2, <3>1, <3>2, RankGrows
    <3>4. QED
      BY <1>1, <2>2, <3>3
  <2>7. QED
    BY <2>4, <2>5, <2>6
<1>7. n = Limit
  BY <1>1, <1>3, <1>4, <1>6
<1>8. Len(p) = Limit
  <2>1. p \in Seq(F)
    BY <1>4, <1>5, <1>7, SeqDef
  <2>2. DOMAIN p = 1..Len(p) /\ Len(p) \in Nat /\ DOMAIN p = 1..Limit
    BY <1>5, <1>7, <2>1, LenProperties
  <2>3. QED
    BY <1>4, <2>2
<1>9. QED
  BY <1>1, <1>3, <1>4, <1>6, <1>7, <1>8 DEF r

\* The rows the search finds, and those the request under way will answer with.
Hits == {i \in DOMAIN rows : Match(backend, q, rows[i])}
Reach ==
  IF rpc = "scan" THEN found \cup {i \in Hits : Day[rows[i].ts] \in days}
  ELSE IF rpc = "respond" THEN found ELSE Hits

\* The reader has seen what is before this row.
Edge == offset + (IF rpc = "idle" THEN Limit ELSE 0)
Missed == (old \cap Untied) \ seen

\* Those that were there when it began.
Begun == {i \in Hits : i <= began}

AskInv ==
  /\ offset \in Nat /\ found \subseteq Hits /\ IsSearch(q)
  /\ began \in Nat /\ began <= Len(rows)
  /\ rpc \in {"idle", "scan", "count", "select", "respond"}
  /\ rpc = "scan" => backend = "filesystem"
  /\ backend # "filesystem" /\ ~raced =>
       /\ rpc = "select" => total = Cardinality(Hits)
       /\ rpc = "respond" => total = Cardinality(found)

CoverInv ==
  /\ old \subseteq Reach /\ Begun \subseteq Reach
  /\ \A i \in Missed : Rank(Reach, i) >= Edge
  /\ rpc = "idle" /\ (backend = "filesystem" \/ ~raced) /\ Missed # {} => more

PagesInv == DeliveredInv /\ AskInv /\ CoverInv

LEMMA RowTypes ==
  ASSUME DeliveredInv
  PROVE  /\ IsFiniteSet(DOMAIN rows) /\ DOMAIN rows = 1..Len(rows) /\ Len(rows) \in Nat
         /\ \A i \in DOMAIN rows : IsEvent(rows[i]) /\ rows[i].ts \in Int
<1>1. DOMAIN rows = 1..Len(rows) /\ Len(rows) \in Nat
  <2>1. rows \in Seq(Kept)
    BY DEF DeliveredInv
  <2>2. QED
    BY <2>1, LenProperties
<1>2. IsFiniteSet(DOMAIN rows)
  BY <1>1, FS_Interval
<1>3. ASSUME NEW i \in DOMAIN rows PROVE IsEvent(rows[i]) /\ rows[i].ts \in Int
  <2>1. PICK f : Stored(Load[origin[i].d].addr, f, origin[i].e)
    BY RowOf
  <2>2. IsEvent(origin[i].e) /\ backend \in Outputs /\ rows[i] = Keep(backend, origin[i].e)
    BY <2>1, RowOf DEF Stored
  <2>3. IsEvent(rows[i])
    BY <2>2, KeepsEvent
  <2>4. QED
    BY <2>3 DEF IsEvent
<1>4. QED
  BY <1>1, <1>2, <1>3

\* A step after which the request reaches no fewer rows and the reader is not
\* past more of them.
LEMMA Covered ==
  ASSUME DeliveredInv, DeliveredInv', AskInv, AskInv', CoverInv,
         UNCHANGED <<seen, old, backend>>, Reach \subseteq Reach', Begun' \subseteq Reach', Edge' <= Edge,
         \A j \in DOMAIN rows : j \in DOMAIN rows' /\ rows'[j] = rows[j],
         rpc' = "idle" => rpc = "idle" /\ more' = more, raced => raced'
  PROVE  CoverInv'
<1>1. Reach \subseteq DOMAIN rows /\ Reach' \subseteq DOMAIN rows'
  BY DEF AskInv, Reach, Hits
<1>2. old' = old /\ old \subseteq Reach /\ old' \subseteq Reach'
  BY DEF CoverInv
<1>3. Missed' \subseteq Missed
  BY <1>1, <1>2 DEF Missed, Untied
<1>4. ASSUME NEW i \in Missed' PROVE Rank(Reach, i)' >= Edge'
  <2>1. i \in Missed /\ i \in Reach /\ i \in DOMAIN rows
    BY <1>1, <1>2, <1>3, <1>4 DEF Missed
  <2>2. Rank(Reach, i) >= Edge
    BY <2>1 DEF CoverInv
  <2>3. Newer(Reach, i) \subseteq Newer(Reach, i)'
    BY <1>1, <2>1 DEF Newer
  <2>4. IsFiniteSet(Newer(Reach, i)')
    <3>1. IsFiniteSet(DOMAIN rows')
      <4>1. rows' \in Seq(Kept)
        BY DEF DeliveredInv
      <4>2. DOMAIN rows' = 1..Len(rows') /\ Len(rows') \in Nat
        BY <4>1, LenProperties
      <4>3. \A n \in Nat : IsFiniteSet(1..n)
        BY FS_Interval
      <4>4. QED
        BY <4>2, <4>3, Zenon
    <3>2. Newer(Reach, i)' \subseteq DOMAIN rows'
      BY <1>1 DEF Newer
    <3>3. QED
      BY <3>1, <3>2, RankGrows
  <2>5. /\ Rank(Reach, i) <= Cardinality(Newer(Reach, i)') /\ Rank(Reach, i) \in Nat
        /\ Cardinality(Newer(Reach, i)') \in Nat
    BY <2>3, <2>4, RankGrows DEF Rank
  <2>6. Edge \in Int /\ Edge' \in Int
    BY SearchAssumption DEF AskInv, Edge
  <2>7. QED
    BY <2>2, <2>5, <2>6 DEF Rank
<1>5. QED
  BY <1>2, <1>3, <1>4 DEF CoverInv

LEMMA NoSearchIsSearch == IsSearch(NoSearch)
<1>1. /\ NoSearch.from = 0 /\ NoSearch.to = 0 /\ NoSearch.levels = {} /\ NoSearch.services = {}
      /\ {NoSearch.kind, NoSearch.trace, NoSearch.word} \subseteq {""}
  BY DEF NoSearch, SearchFor
<1>2. "" \in Texts
  BY TextsAssumption
<1>3. IsFiniteSet(NoSearch.services)
  BY <1>1, FS_EmptySet
<1>4. 0 % Minute = 0 /\ 0 \in Nat
  <2>1. Minute \in Nat \ {0}
    BY SearchAssumption
  <2>2. 0 * Minute = 0 /\ (0 * Minute) % Minute = 0
    BY <2>1, UnitsWhole
  <2>3. QED
    BY <2>2
<1>5. {NoSearch.kind, NoSearch.trace, NoSearch.word} \cup NoSearch.levels \cup NoSearch.services \subseteq Texts
  BY <1>1, <1>2, Zenon
<1>6. QED
  BY <1>1, <1>3, <1>4, <1>5, Zenon DEF IsSearch

LEMMA SearchesAre == ASSUME NEW s \in Searches PROVE IsSearch(s)
BY SearchesAssumption DEF IsSearch

LEMMA PagesInit == Init => PagesInv
<1> SUFFICES ASSUME Init PROVE PagesInv
  OBVIOUS
<1>1. DeliveredInv
  BY DeliveredInit
<1>2. AskInv
  <2>1. IsSearch(q)
    BY NoSearchIsSearch DEF Init
  <2>2. /\ offset = 0 /\ found = {} /\ began = 0 /\ rpc = "idle" /\ Len(rows) = 0
    BY EmptySeq DEF Init
  <2>3. QED
    BY <2>1, <2>2 DEF AskInv
<1>3. CoverInv
  <2>1. Hits = {} /\ old = {}
    BY EmptyNone DEF Init, Hits
  <2>2. QED
    BY <2>1 DEF CoverInv, Missed, Begun
<1>4. QED
  BY <1>1, <1>2, <1>3 DEF PagesInv

\* What is written is added to the end.
LEMMA WriteAdds ==
  ASSUME DeliveredInv, DeliveredInv', NEW n \in DOMAIN queue, Write(n)
  PROVE  /\ \A j \in DOMAIN rows : j \in DOMAIN rows' /\ rows'[j] = rows[j]
         /\ \A j \in DOMAIN rows' : j \in Nat /\ (j \notin DOMAIN rows => j > Len(rows))
         /\ Len(rows') >= Len(rows)
<1> DEFINE new == [i \in 1..n |-> Keep(backend, queue[i].e)]
<1>1. rows' = rows \o new
  BY DEF Write
<1>2. rows \in Seq(Kept) /\ queue \in Seq(Parcels) /\ backend \in Backends
  BY DEF DeliveredInv
<1>3. new \in Seq(Kept)
  <2>1. \A p \in Parcels : Keep(backend, p.e) \in Kept
    BY <1>2 DEF Kept
  <2>2. n \in Nat /\ \A i \in 1..n : queue[i] \in Parcels
    BY <1>2, LenProperties, ElementOfSeq
  <2>3. new \in [1..n -> Kept]
    BY <2>1, <2>2
  <2>4. QED
    BY <2>2, <2>3, SeqDef
<1> HIDE DEF new
<1>4. /\ Len(rows') = Len(rows) + Len(new) /\ Len(rows) \in Nat /\ Len(new) \in Nat
      /\ DOMAIN rows = 1..Len(rows) /\ DOMAIN rows' = 1..(Len(rows) + Len(new))
  BY <1>1, <1>2, <1>3, Joined
<1>5. \A j \in DOMAIN rows : rows'[j] = rows[j]
  BY <1>1, <1>2, <1>3, Joined
<1>6. QED
  BY <1>4, <1>5

LEMMA WritePages ==
  ASSUME PagesInv, DeliveredInv', NEW n \in DOMAIN queue, Write(n)
  PROVE  AskInv' /\ CoverInv'
<1>e. DeliveredInv /\ AskInv /\ CoverInv
  BY DEF PagesInv
<1>1. raced' = (raced \/ rpc = "select")
      /\ UNCHANGED <<backend, q, offset, more, rpc, days, found, total, queries, began, old, seen>>
  BY DEF Write, readVars, pageVars, askVars
<1>2. DOMAIN rows = 1..Len(rows) /\ Len(rows) \in Nat
  BY <1>e, RowTypes
<1>3. /\ \A j \in DOMAIN rows : j \in DOMAIN rows' /\ rows'[j] = rows[j]
      /\ \A j \in DOMAIN rows' : j \in Nat /\ (j \notin DOMAIN rows => j > Len(rows))
      /\ Len(rows') >= Len(rows)
  BY <1>e, WriteAdds
<1>5. Hits \subseteq Hits'
  BY <1>1, <1>3 DEF Hits
<1>6. AskInv'
  <2>1. Len(rows') \in Nat /\ Len(rows') >= Len(rows)
    <3>1. rows' \in Seq(Kept)
      BY DEF DeliveredInv
    <3>2. QED
      BY <1>3, <3>1, LenProperties
  <2>2. began' \in Nat /\ began' <= Len(rows')
    BY <1>e, <1>1, <1>2, <2>1 DEF AskInv
  <2>3. QED
    BY <1>e, <1>1, <1>5, <2>2 DEF AskInv
<1>7. Reach \subseteq Reach'
  BY <1>e, <1>1, <1>3, <1>5 DEF Reach, Hits
<1>8. Begun' \subseteq Reach'
  <2>1. ASSUME NEW i \in Begun' PROVE i \in Begun
    <3>1. i \in DOMAIN rows' /\ Match(backend, q, rows'[i]) /\ i <= began
      BY <1>1, <2>1 DEF Begun, Hits
    <3>2. i \in DOMAIN rows
      BY <1>e, <1>2, <1>3, <3>1 DEF AskInv
    <3>3. QED
      BY <1>3, <3>1, <3>2 DEF Begun, Hits
  <2>2. QED
    BY <1>e, <1>7, <2>1 DEF CoverInv
<1>9. Edge' = Edge /\ Edge \in Int
  BY <1>e, <1>1, SearchAssumption DEF Edge, AskInv
<1>10. Edge' <= Edge
  BY <1>9
<1>11. CoverInv'
  BY <1>e, <1>1, <1>3, <1>6, <1>7, <1>8, <1>10, Covered
<1>12. QED
  BY <1>6, <1>11

\* The reader turns a page: everything before the new one has been shown.
LEMMA AskPages ==
  ASSUME PagesInv, DeliveredInv', NEW o \in Nat, o <= offset + Limit, AskFor(o), UNCHANGED <<q, old, seen, raced>>
  PROVE  AskInv' /\ CoverInv'
<1>e. DeliveredInv /\ AskInv /\ CoverInv
  BY DEF PagesInv
<1>1. /\ rpc = "idle" /\ offset' = o /\ found' = {} /\ UNCHANGED <<rows, backend, more>> /\ began' = Len(rows)
      /\ rpc' = (IF backend = "filesystem" THEN "scan" ELSE "count")
      /\ days' = IF backend = "filesystem" THEN {Day[rows[i].ts] : i \in DOMAIN rows} ELSE {}
  BY DEF AskFor, rowVars
<1>2. Hits' = Hits
  BY <1>1 DEF Hits
<1>3. AskInv'
  <2>1. Len(rows) \in Nat /\ Len(rows) <= Len(rows)
    BY <1>e, RowTypes
  <2>2. QED
    BY <1>e, <1>1, <1>2, <2>1 DEF AskInv
<1>4. Reach \subseteq Reach' /\ Begun' \subseteq Reach'
  BY <1>1, <1>2 DEF Reach, Hits, Begun
<1>5. Edge' <= Edge
  BY <1>1 DEF Edge
<1>6. QED
  BY <1>e, <1>1, <1>3, <1>4, <1>5, Covered

\* ... or leaves it for that of another search.
LEMMA OtherPages ==
  ASSUME PagesInv, DeliveredInv', NEW o \in Nat, AskFor(o), q' \in Searches, old' = {}, seen' = {}, UNCHANGED raced
  PROVE  AskInv' /\ CoverInv'
<1>1. /\ rpc = "idle" /\ offset' = o /\ found' = {} /\ UNCHANGED <<rows, backend, more>> /\ began' = Len(rows)
      /\ rpc' = (IF backend = "filesystem" THEN "scan" ELSE "count")
      /\ days' = IF backend = "filesystem" THEN {Day[rows[i].ts] : i \in DOMAIN rows} ELSE {}
  BY DEF AskFor, rowVars
<1>2. AskInv'
  <2>1. Len(rows) \in Nat /\ Len(rows) <= Len(rows)
    BY RowTypes DEF PagesInv
  <2>2. IsSearch(q')
    BY SearchesAre
  <2>3. QED
    BY <1>1, <2>1, <2>2 DEF AskInv
<1>3. Begun' \subseteq Reach'
  BY <1>1 DEF Reach, Hits, Begun
<1>4. QED
  BY <1>1, <1>2, <1>3 DEF CoverInv, Missed

LEMMA SearchPages ==
  ASSUME PagesInv, DeliveredInv', NEW s \in Searches, SearchLogs(s)
  PROVE  AskInv' /\ CoverInv'
<1>1. /\ rpc = "idle" /\ offset' = 0 /\ found' = {} /\ UNCHANGED <<rows, backend, more>> /\ began' = Len(rows)
      /\ rpc' = (IF backend = "filesystem" THEN "scan" ELSE "count")
      /\ days' = IF backend = "filesystem" THEN {Day[rows[i].ts] : i \in DOMAIN rows} ELSE {}
      /\ old' = Hits' /\ seen' = {} /\ q' = s
  BY DEF SearchLogs, AskFor, rowVars, Hits, Matches
<1>2. AskInv'
  <2>1. Len(rows) \in Nat /\ Len(rows) <= Len(rows)
    BY RowTypes DEF PagesInv
  <2>2. IsSearch(q')
    BY <1>1, SearchesAre
  <2>3. QED
    BY <1>1, <2>1, <2>2 DEF AskInv
<1>3. old' \subseteq Reach' /\ Reach' \subseteq DOMAIN rows' /\ Begun' \subseteq Reach'
  BY <1>1 DEF Reach, Hits, Begun
<1>4. ASSUME NEW i \in Missed' PROVE Rank(Reach, i)' >= Edge'
  <2>1. Newer(Reach, i)' \subseteq DOMAIN rows /\ IsFiniteSet(DOMAIN rows)
    BY <1>1, <1>3, RowTypes DEF Newer, PagesInv
  <2>2. Cardinality(Newer(Reach, i)') \in Nat
    BY <2>1, RankGrows
  <2>3. Edge' = 0
    BY <1>1 DEF Edge
  <2>4. QED
    BY <2>2, <2>3 DEF Rank
<1>5. QED
  BY <1>1, <1>2, <1>3, <1>4 DEF CoverInv

\* What does not concern the reader.
Idle == UNCHANGED <<backend, rows, readVars, raced>>

\* The request goes on: it reaches the same rows, or those written meanwhile.
LEMMA ReadPages ==
  ASSUME PagesInv, DeliveredInv', Idle \/ ScanDay \/ ScanDone \/ CountRows \/ SelectRows
  PROVE  AskInv' /\ CoverInv'
<1>e. DeliveredInv /\ AskInv /\ CoverInv
  BY DEF PagesInv
<1>1. UNCHANGED <<rows, backend, q, offset, more, began, old, seen, raced>>
  BY DEF Idle, ScanDay, ScanDone, CountRows, SelectRows, rowVars, pageVars, readVars
<1>2. Hits' = Hits /\ Begun' = Begun
  BY <1>1 DEF Hits, Begun
<1>3. rpc' = "idle" <=> rpc = "idle"
  BY DEF Idle, ScanDay, ScanDone, CountRows, SelectRows, readVars, askVars
<1>4. AskInv' /\ Reach \subseteq Reach'
  <2>1. CASE Idle
    <3>1. UNCHANGED <<rpc, days, found, total>>
      BY <2>1 DEF Idle, readVars, askVars
    <3>2. QED
      BY <3>1, <1>1, <1>2, <1>e DEF AskInv, Reach
  <2>2. CASE ScanDay
    <3>1. /\ rpc = "scan" /\ UNCHANGED rpc
          /\ found' = found \cup {i \in Hits : Day[rows[i].ts] = Max(days)} /\ days' = days \ {Max(days)}
      BY <2>2 DEF ScanDay, Hits
    <3>2. QED
      BY <3>1, <1>1, <1>2, <1>e DEF AskInv, Reach
  <2>3. CASE ScanDone
    <3>1. rpc = "scan" /\ rpc' = "respond" /\ days = {} /\ UNCHANGED found
      BY <2>3 DEF ScanDone
    <3>2. QED
      BY <3>1, <1>1, <1>2, <1>e DEF AskInv, Reach
  <2>4. CASE CountRows
    <3>1. rpc = "count" /\ rpc' = "select" /\ total' = Cardinality(Hits) /\ UNCHANGED found
      BY <2>4 DEF CountRows, Hits
    <3>2. QED
      BY <3>1, <1>1, <1>2, <1>e DEF AskInv, Reach
  <2>5. CASE SelectRows
    <3>1. rpc = "select" /\ rpc' = "respond" /\ found' = Hits /\ UNCHANGED total
      BY <2>5 DEF SelectRows, Hits
    <3>2. QED
      BY <3>1, <1>1, <1>2, <1>e DEF AskInv, Reach
  <2>6. QED
    BY <2>1, <2>2, <2>3, <2>4, <2>5
<1>5. Edge' = Edge /\ Edge \in Int
  BY <1>e, <1>1, <1>3, SearchAssumption DEF Edge, AskInv
<1>6. Edge' <= Edge
  BY <1>5
<1>7. Begun' \subseteq Reach'
  BY <1>e, <1>2, <1>4 DEF CoverInv
<1>8. CoverInv'
  BY <1>e, <1>1, <1>3, <1>4, <1>6, <1>7, Covered
<1>9. QED
  BY <1>4, <1>8

LEMMA RespondPages == ASSUME PagesInv, Respond PROVE AskInv' /\ CoverInv'
<1>e. DeliveredInv /\ AskInv /\ CoverInv
  BY DEF PagesInv
<1>0. PICK page \in Pages(found) :
        /\ more' = (IF backend = "filesystem" THEN offset + Limit < Cardinality(found)
                    ELSE offset + Len(page) < total)
        /\ seen' = seen \cup Range(page)
  BY DEF Respond
<1>1. /\ rpc = "respond" /\ rpc' = "idle" /\ found' = {} /\ began' = 0
      /\ UNCHANGED <<backend, rows, q, offset, old, raced>>
  BY DEF Respond, rowVars
<1>2. Hits' = Hits /\ Reach = found /\ Reach' = Hits /\ found \subseteq Hits /\ Hits \subseteq DOMAIN rows
  BY <1>e, <1>1 DEF Hits, Reach, AskInv
<1>3. AskInv'
  <2>1. Len(rows) \in Nat /\ 0 <= Len(rows)
    BY <1>e, RowTypes
  <2>2. QED
    BY <1>e, <1>1, <1>2, <2>1 DEF AskInv
<1>4. IsFiniteSet(DOMAIN rows) /\ IsFiniteSet(found) /\ \A j \in DOMAIN rows : rows[j].ts \in Int
  BY <1>e, <1>2, RowTypes, FS_Subset
<1>5. ASSUME NEW i \in Missed'
      PROVE  Rank(Reach, i)' >= Edge' /\ offset + Limit < Cardinality(found) /\ Len(page) = Limit
  <2>1. /\ i \in old /\ i \in found /\ i \in Missed /\ i \notin Range(page)
        /\ \A j \in found : j # i => rows[j].ts # rows[i].ts
    BY <1>e, <1>0, <1>1, <1>2, <1>5 DEF Missed, Untied, CoverInv
  <2>2. offset \in Nat /\ Rank(found, i) >= offset
    <3>1. Rank(Reach, i) >= Edge /\ Edge = offset + 0 /\ offset \in Nat
      BY <1>e, <1>1, <2>1 DEF CoverInv, AskInv, Edge
    <3>2. QED
      BY <3>1, <1>2
  <2>3. Rank(found, i) >= offset + Limit /\ offset + Limit < Cardinality(found) /\ Len(page) = Limit
    <3>1. \A j \in found : rows[j].ts \in Int
      BY <1>2, <1>4
    <3>2. QED
      BY <1>0, <1>4, <2>1, <2>2, <3>1, PageHolds
  <2>4. Newer(found, i) \subseteq Newer(Reach, i)' /\ Newer(Reach, i)' \subseteq DOMAIN rows
    BY <1>1, <1>2 DEF Newer
  <2>5. IsFiniteSet(Newer(Reach, i)')
    BY <1>4, <2>4, RankGrows
  <2>6. /\ Rank(found, i) <= Cardinality(Newer(Reach, i)') /\ Rank(found, i) \in Nat
        /\ Cardinality(Newer(Reach, i)') \in Nat
    BY <2>4, <2>5, RankGrows DEF Rank
  <2>7. Edge' = offset + Limit /\ Limit \in Nat
    BY <1>1, SearchAssumption DEF Edge
  <2>8. QED
    BY <2>2, <2>3, <2>6, <2>7 DEF Rank
<1>6. ASSUME NEW i \in Missed', backend' = "filesystem" \/ ~raced' PROVE more'
  <2>1. offset + Limit < Cardinality(found) /\ Len(page) = Limit
    BY <1>5
  <2>2. backend # "filesystem" => total = Cardinality(found)
    BY <1>e, <1>1, <1>6 DEF AskInv
  <2>3. QED
    BY <1>0, <1>1, <2>1, <2>2
<1>7. old' \subseteq Reach' /\ Begun' \subseteq Reach'
  <2>1. Begun' = {}
    <3>1. DOMAIN rows = 1..Len(rows) /\ Len(rows) \in Nat
      BY <1>e, RowTypes
    <3>2. QED
      BY <1>1, <1>2, <3>1 DEF Begun
  <2>2. QED
    BY <1>e, <1>1, <1>2, <2>1 DEF CoverInv
<1>8. QED
  BY <1>3, <1>5, <1>6, <1>7 DEF CoverInv

LEMMA PagesStep == PagesInv /\ [Next]_vars => PagesInv'
<1> SUFFICES ASSUME PagesInv, [Next]_vars PROVE PagesInv'
  OBVIOUS
<1>1. DeliveredInv'
  BY DeliveredStep DEF PagesInv
<1>2. offset \in Nat /\ Limit \in Nat
  BY SearchAssumption DEF PagesInv, AskInv
<1>3. CASE Idle \/ ScanDay \/ ScanDone \/ CountRows \/ SelectRows
  BY <1>1, <1>3, ReadPages DEF PagesInv
<1>4. CASE \E n \in DOMAIN queue : Write(n)
  BY <1>1, <1>4, WritePages DEF PagesInv
<1>5. CASE \E s \in Searches : SearchLogs(s)
  BY <1>1, <1>5, SearchPages DEF PagesInv
<1>6. ASSUME NEW s \in Searches, NEW o \in Nat, o <= offset + Limit, Turn(o, s)
      PROVE  PagesInv'
  <2>1. AskFor(o) /\ q' = s /\ UNCHANGED raced
    BY <1>6 DEF Turn
  <2>2. CASE s = q
    <3>1. UNCHANGED <<q, old, seen, raced>>
      BY <1>6, <2>2 DEF Turn
    <3>2. QED
      BY <1>1, <1>6, <2>1, <3>1, AskPages DEF PagesInv
  <2>3. CASE s # q
    <3>1. old' = {} /\ seen' = {}
      BY <1>6, <2>3 DEF Turn
    <3>2. QED
      BY <1>1, <1>6, <2>1, <3>1, OtherPages DEF PagesInv
  <2>4. QED
    BY <2>2, <2>3
<1>7. CASE \E s \in Searches : NextPage(s)
  <2>1. PICK s \in Searches : Turn(offset + Limit, s)
    BY <1>7 DEF NextPage
  <2>2. offset + Limit \in Nat /\ offset + Limit <= offset + Limit
    BY <1>2
  <2>3. QED
    BY <1>6, <2>1, <2>2
<1>8. CASE \E s \in Searches : PrevPage(s)
  <2> DEFINE o == IF offset > Limit THEN offset - Limit ELSE 0
  <2>1. PICK s \in Searches : Turn(o, s)
    BY <1>8 DEF PrevPage
  <2>2. o \in Nat /\ o <= offset + Limit
    BY <1>2
  <2> HIDE DEF o
  <2>3. QED
    BY <1>6, <2>1, <2>2
<1>9. CASE Respond
  BY <1>1, <1>9, RespondPages DEF PagesInv
<1>10. CASE \/ Receive \/ UNCHANGED vars
            \/ (\E d \in DOMAIN fate : Dispatch(d)) \/ (\E n \in DOMAIN queue : WriteFails(n))
  <2>1. Idle
    BY <1>10 DEF Idle, Receive, Dispatch, WriteFails, vars, rowVars
  <2>2. QED
    BY <1>3, <2>1
<1>11. QED
  BY <1>3, <1>4, <1>5, <1>7, <1>8, <1>9, <1>10 DEF Next

\* A request is answered with every row that was there when it began and that,
\* as it was sent, is what the search asks for, except for keywords that the
\* output does not understand; and with no other, except for conditions that
\* it passes over. What is written while the request is served does not hide a
\* row, and a search in whole minutes is not misled by what an output makes of
\* the times (filesystem.go:134-216, mysql.go:115-185, clickhouse.go:107-165).
THEOREM SearchAnswersRight == Spec => []AnswerIsRight
<1>1. PagesInv => AnswerIsRight
  <2> SUFFICES ASSUME PagesInv, rpc = "respond" PROVE AnswerIsRight
    BY DEF AnswerIsRight
  <2>1. Reach = found /\ found \subseteq Hits /\ Begun \subseteq found /\ IsSearch(q) /\ began \in Nat
        /\ began <= Len(rows)
    BY DEF PagesInv, AskInv, CoverInv, Reach
  <2>2. DOMAIN rows = 1..Len(rows) /\ Len(rows) \in Nat /\ \A i \in DOMAIN rows : IsEvent(rows[i])
    BY RowTypes DEF PagesInv
  <2>3. ASSUME Reads(backend, q), NEW i \in 1..began, Wanted(q, origin[i].e) PROVE i \in found
    <3>1. i \in DOMAIN rows /\ i <= began
      BY <2>1, <2>2
    <3>2. PICK f : Stored(Load[origin[i].d].addr, f, origin[i].e)
      BY <3>1, RowOf DEF PagesInv
    <3>3. IsEvent(origin[i].e) /\ backend \in Outputs /\ rows[i] = Keep(backend, origin[i].e)
      BY <3>1, <3>2, RowOf DEF Stored, PagesInv
    <3>4. Match(backend, q, rows[i])
      BY <2>1, <2>3, <3>3, WantedIsMatched
    <3>5. QED
      BY <2>1, <3>1, <3>4 DEF Begun, Hits
  <2>4. ASSUME Honours(backend, q), NEW i \in found PROVE Wanted(q, rows[i])
    <3>1. i \in DOMAIN rows /\ Match(backend, q, rows[i])
      BY <2>1, <2>4 DEF Hits
    <3>2. backend \in Outputs
      BY <3>1, RowOf DEF PagesInv
    <3>3. QED
      BY <2>1, <2>2, <2>4, <3>1, <3>2, MatchedIsWanted
  <2>5. QED
    BY <2>3, <2>4 DEF AnswerIsRight
<1>2. QED
  BY <1>1, PagesInit, PagesStep, PTL DEF Spec

\* A reader who turns the pages to the last one, and leaves the form alone
\* meanwhile, has been shown every row that was there when the search began and shares its time with no other, however
\* many rows are written meanwhile; with the SQL outputs, unless one was
\* written between a count and its select. Rows are only added, so that a row
\* the reader has not seen is never before the page being asked for (app.js:807-862,
\* filesystem.go:134-191, mysql.go:148-185, clickhouse.go:130-165).
THEOREM SearchPagesCover == Spec => []PagesCoverOld
<1>1. PagesInv => PagesCoverOld
  BY DEF PagesInv, CoverInv, Missed, PagesCoverOld, Ended
<1>2. QED
  BY <1>1, PagesInit, PagesStep, PTL DEF Spec
-----------------------------------------------------------------------------
(* Types *)

RestOK ==
  /\ Len(queue) <= QueueSize /\ more \in BOOLEAN /\ seen \subseteq DOMAIN rows /\ total \in Nat
  /\ queries \in 0..MaxQueries /\ lost \in 0..MaxLost /\ raced \in BOOLEAN

LEMMA FoundTotal ==
  ASSUME PagesInv
  PROVE  Cardinality(found) \in Nat /\ Cardinality(Hits) \in Nat
<1>1. found \subseteq DOMAIN rows /\ Hits \subseteq DOMAIN rows
  BY DEF PagesInv, AskInv, Hits
<1>2. QED
  BY <1>1, RowTypes, RankGrows DEF PagesInv

LEMMA QueueBounded ==
  ASSUME PagesInv, Len(queue) <= QueueSize, [Next]_vars
  PROVE  Len(queue') <= QueueSize
<1>1. queue \in Seq(Parcels) /\ Len(queue) \in Nat /\ QueueSize \in Nat
  BY LenProperties, SearchAssumption DEF PagesInv, DeliveredInv
<1>2. CASE \E n \in DOMAIN queue : Write(n) \/ WriteFails(n)
  <2>1. PICK n \in DOMAIN queue : queue' = SubSeq(queue, n + 1, Len(queue))
    BY <1>2 DEF Write, WriteFails
  <2>2. Len(queue') = Len(queue) - n /\ n \in Nat
    BY <1>1, <2>1, Cut
  <2>3. QED
    BY <1>1, <2>2
<1>3. CASE \E d \in DOMAIN fate : Dispatch(d)
  <2>1. PICK d \in DOMAIN fate : Dispatch(d)
    BY <1>3
  <2>2. PICK p : queue' = queue \/ (queue' = Append(queue, p) /\ Len(queue) < QueueSize)
    BY <2>1 DEF Dispatch
  <2>3. CASE queue' = queue
    BY <2>3
  <2>4. CASE queue' = Append(queue, p) /\ Len(queue) < QueueSize
    <3>1. Len(queue') = Len(queue) + 1
      BY <1>1, <2>4
    <3>2. QED
      BY <1>1, <2>4, <3>1
  <2>5. QED
    BY <2>2, <2>3, <2>4
<1>4. CASE Receive \/ Reading \/ UNCHANGED vars
  <2>1. queue' = queue
    BY <1>4, ReadingLeaves DEF Receive, rowVars
  <2>2. QED
    BY <2>1
<1>5. QED
  BY <1>2, <1>3, <1>4 DEF Next, Reading

LEMMA LossesBounded ==
  ASSUME RestOK, [Next]_vars
  PROVE  lost' \in 0..MaxLost
<1>1. lost' = lost \/ (lost' = lost + 1 /\ lost < MaxLost)
  BY ReadingLeaves DEF Next, Receive, Dispatch, Write, WriteFails, Reading, rowVars, vars
<1>2. QED
  BY <1>1, SearchAssumption DEF RestOK

LEMMA QueriesBounded ==
  ASSUME RestOK, [Next]_vars
  PROVE  queries' \in 0..MaxQueries
<1>1. queries' = queries \/ (queries' = queries + 1 /\ queries < MaxQueries)
  BY DEF Next, Receive, Dispatch, Write, WriteFails, SearchLogs, NextPage, PrevPage, Turn, AskFor, ScanDay, ScanDone,
     CountRows, SelectRows, Respond, readVars, vars
<1>2. QED
  BY <1>1, SearchAssumption DEF RestOK

LEMMA TypesInit == Init => RestOK
<1> SUFFICES ASSUME Init PROVE RestOK
  OBVIOUS
<1>1. Len(queue) = 0
  BY EmptySeq DEF Init
<1>2. Len(queue) <= QueueSize
  BY <1>1, SearchAssumption
<1>3. total = 0 /\ queries = 0 /\ lost = 0 /\ seen = {}
  BY DEF Init
<1>4. total \in Nat /\ queries \in 0..MaxQueries /\ lost \in 0..MaxLost /\ seen \subseteq DOMAIN rows
  BY <1>3, SearchAssumption
<1>5. more \in BOOLEAN /\ raced \in BOOLEAN
  BY Zenon DEF Init
<1>6. QED
  BY <1>2, <1>4, <1>5, Zenon DEF RestOK

LEMMA TypesStep == PagesInv /\ PagesInv' /\ RestOK /\ [Next]_vars => RestOK'
<1> SUFFICES ASSUME PagesInv, PagesInv', RestOK, [Next]_vars PROVE RestOK'
  OBVIOUS
<1>1. Len(queue') <= QueueSize
  BY QueueBounded DEF RestOK
<1>2. more' \in BOOLEAN /\ raced' \in BOOLEAN
  <2>1. \/ more' = more
        \/ more' = (IF backend = "filesystem" THEN offset + Limit < Cardinality(found) ELSE more') /\ Respond
    BY DEF Next, Receive, Dispatch, Write, WriteFails, SearchLogs, NextPage, PrevPage, Turn, AskFor, ScanDay, ScanDone,
       CountRows, SelectRows, Respond, readVars, pageVars, vars
  <2>2. Respond => more' \in BOOLEAN
    <3> SUFFICES ASSUME Respond PROVE more' \in BOOLEAN
      OBVIOUS
    <3>1. PICK page : more' = (IF backend = "filesystem" THEN offset + Limit < Cardinality(found)
                               ELSE offset + Len(page) < total)
      BY DEF Respond
    <3>2. CASE backend = "filesystem"
      <4>1. more' = (offset + Limit < Cardinality(found))
        BY <3>1, <3>2
      <4>2. QED
        BY <4>1
    <3>3. CASE backend # "filesystem"
      <4>1. more' = (offset + Len(page) < total)
        BY <3>1, <3>3
      <4>2. QED
        BY <4>1
    <3>4. QED
      BY <3>2, <3>3
  <2>3. raced' = raced \/ raced' = FALSE \/ (\E n \in DOMAIN queue : Write(n))
    BY DEF Next, Receive, Dispatch, WriteFails, SearchLogs, NextPage, PrevPage, Turn, ScanDay, ScanDone,
       CountRows, SelectRows, Respond, vars
  <2>4. (\E n \in DOMAIN queue : Write(n)) => raced' \in BOOLEAN
    BY DEF Write
  <2>5. QED
    BY <2>1, <2>2, <2>3, <2>4 DEF RestOK
<1>3. seen' \subseteq DOMAIN rows'
  <2>1. DOMAIN rows \subseteq DOMAIN rows'
    <3>1. CASE \E n \in DOMAIN queue : Write(n)
      BY <3>1, WriteAdds DEF PagesInv
    <3>2. CASE ~ \E n \in DOMAIN queue : Write(n)
      <4>1. rows' = rows
        BY <3>2, ReadingLeaves DEF Next, Receive, Dispatch, WriteFails, Reading, rowVars, vars
      <4>2. QED
        BY <4>1
    <3>3. QED
      BY <3>1, <3>2
  <2>2. seen' = seen \/ seen' = {} \/ (\E page \in Pages(found) : seen' = seen \cup Range(page))
    BY DEF Next, Receive, Dispatch, Write, WriteFails, SearchLogs, NextPage, PrevPage, Turn, ScanDay, ScanDone,
       CountRows, SelectRows, Respond, readVars, vars
  <2>3. \A page \in Pages(found) : Range(page) \subseteq DOMAIN rows
    BY DEF Pages, Range, PagesInv, AskInv, Hits
  <2>4. QED
    BY <2>1, <2>2, <2>3 DEF RestOK
<1>4. total' \in Nat
  <2>1. total' = total \/ total' = 0 \/ total' = Cardinality(found) \/ total' = Cardinality(Hits)
    BY DEF Next, Receive, Dispatch, Write, WriteFails, SearchLogs, NextPage, PrevPage, Turn, AskFor, ScanDay, ScanDone,
       CountRows, SelectRows, Respond, readVars, askVars, vars, Hits
  <2>2. QED
    BY <2>1, FoundTotal DEF RestOK
<1>5. QED
  BY <1>1, <1>2, <1>3, <1>4, LossesBounded, QueriesBounded DEF RestOK

\* What the variables are, and their bounds: the dispatcher holds no more than
\* it has room for, however many handlers dispatch, and every row the reader is
\* shown or answered with is one that is stored (dispatcher.go:122-140,
\* app.js:807-862).
THEOREM SearchTypes == Spec => []TypeOK
<1>1. PagesInv /\ RestOK => TypeOK
  <2> SUFFICES ASSUME PagesInv, RestOK PROVE TypeOK
    OBVIOUS
  <2>1. backend \in Backends /\ Len(fate) <= Len(Load) /\ Len(origin) = Len(rows)
    BY DEF PagesInv, DeliveredInv
  <2>2. /\ offset \in Nat /\ rpc \in {"idle", "scan", "count", "select", "respond"}
        /\ found \subseteq DOMAIN rows /\ old \subseteq DOMAIN rows
    BY DEF PagesInv, AskInv, CoverInv, Reach, Hits
  <2>3. began \in 0..Len(rows)
    <3>1. Len(rows) \in Nat /\ began \in Nat /\ began <= Len(rows)
      BY RowTypes DEF PagesInv, AskInv
    <3>2. QED
      BY <3>1
  <2>4. QED
    BY <2>1, <2>2, <2>3 DEF TypeOK, RestOK
<1>2. QED
  BY <1>1, PagesInit, PagesStep, TypesInit, TypesStep, PTL DEF Spec
=============================================================================
