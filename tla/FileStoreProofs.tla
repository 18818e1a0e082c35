--------------------------- MODULE FileStoreProofs ---------------------------
(***************************************************************************)
(* Proofs about FileStore, for any signals, load, calendar and retention,  *)
(* any number of writes cut short, crashes, archives and restores.         *)
(***************************************************************************)
EXTENDS FileStore, SequenceTheorems, FiniteSetTheorems, FunctionTheorems, WellFoundedInduction, TLAPS

\* The file Archive works on is there, and packed as far as apc says.
ArchiveInv ==
  /\ adays \subseteq exists
  /\ apc \in {"idle", "list", "prune"} => adays = {}
  /\ apc \in {"copy", "meta", "remove"} => adays # {}
  /\ apc = "copy" => gz[Current] = "partial"
  /\ apc \in {"meta", "remove"} => gz[Current] = "whole"

\* A handle of a removed file: its day is packed, and Archive is past it.
HandleInv ==
  /\ \A d \in Days : handle[d] = "stale" => d \notin adays /\ (gz[d] = "whole" \/ d \in Expired)
  /\ apc = "list" => \A d \in Days : handle[d] # "stale"

RestoreInv == rday \in (IF rpc = "idle" THEN {0} ELSE Days)

PackInv == TypeOK /\ ArchiveInv /\ RestoreInv

Clean(d) == d \notin dirty \cup Expired
Restored(d) == rpc = "copy" /\ rday = d

\* The hot file of a packed day is a copy of the archive, or is being restored.
MirrorInv ==
  \A d \in Days : Clean(d) =>
    /\ Restored(d) => gz[d] = "whole" /\ hot[d] = <<>>
    /\ gz[d] = "whole" /\ d \in exists /\ ~Restored(d) => hot[d] = packed[d]

\* What a day holds, and where writes were cut short in it.
Content(d) == IF gz[d] = "whole" THEN packed[d] ELSE hot[d]
Torn == UNION {{<<d, j>> : j \in {k \in DOMAIN Content(d) : ~Content(d)[k][2]}} : d \in {e \in Days : Clean(e)}}

StoredInv ==
  \A s \in stored : Clean(DayOf(s)) => \E j \in DOMAIN Content(DayOf(s)) : Content(DayOf(s))[j] = <<s, TRUE>>

TornInv == IsFiniteSet(Torn) /\ Cardinality(Torn) <= tears

LossInv == PackInv /\ HandleInv /\ MirrorInv /\ StoredInv /\ TornInv

-----------------------------------------------------------------------------
(* Lemmas *)

LEMMA MinMember ==
  ASSUME NEW S \in SUBSET Nat, S # {}
  PROVE  Min(S) \in S /\ \A y \in S : Min(S) <= y
<1>1. PICK x \in S : \A y \in S : ~(<<y, x>> \in OpToRel(<, Nat))
  BY NatLessThanWellFounded, WFMin, Zenon
<1>2. ASSUME NEW y \in S PROVE x <= y
  <2>1. ~(y < x)
    BY <1>1, Zenon DEF OpToRel
  <2>2. QED
    BY <2>1
<1>3. \E z \in S : \A y \in S : z =< y
  BY <1>2
<1>4. QED
  BY <1>3 DEF Min

LEMMA Calendar ==
  /\ Days \subseteq Nat /\ Today \in Days /\ 0 \notin Days /\ 0 \in 0..Today /\ Days \subseteq 0..Today
  /\ Old \subseteq Days /\ Expired \subseteq Old
  /\ \A s \in Signals : DayOf(s) \in Days
<1>1. Today \in Nat \ {0} /\ Stamp \in [Signals -> 0..Today] /\ Expired \subseteq Old /\ Old \subseteq Days
  BY FileStoreAssumption
<1>2. QED
  BY <1>1 DEF Days, DayOf

\* The file Archive works on is one of those it has to visit.
LEMMA CurrentDay ==
  ASSUME TypeOK, adays # {}
  PROVE  Current \in adays /\ Current \in Old /\ Current \in Days
<1>1. adays \in SUBSET Nat /\ adays \subseteq Old /\ Old \subseteq Days
  BY Calendar DEF TypeOK
<1>2. QED
  BY <1>1, MinMember DEF Current

LEMMA NextBatch ==
  ASSUME TypeOK
  PROVE  /\ todo # <<>> => Head(todo) \in Seq(Signals) /\ Tail(todo) \in Seq(Seq(Signals))
         /\ batch # <<>> => /\ Head(batch) \in Signals /\ Tail(batch) \in Seq(Signals)
                            /\ DayOf(Head(batch)) \in Days
         /\ <<>> \in Seq(Signals)
<1>1. todo \in Seq(Seq(Signals)) /\ batch \in Seq(Signals)
  BY DEF TypeOK
<1>2. QED
  BY <1>1, HeadTailProperties, EmptySeq, Calendar

\* What a write does to the files.
LEMMA AppendedTypes ==
  ASSUME TypeOK, NEW d \in Days, NEW s \in Signals, NEW b \in BOOLEAN, Appended(d, <<s, b>>)
  PROVE  /\ hot' \in Files /\ \A e \in Days \ {d} : hot'[e] = hot[e]
         /\ handle[d] = "stale" => hot'[d] = hot[d]
         /\ handle[d] # "stale" => hot'[d] = Append(hot[d], <<s, b>>)
<1>1. hot \in [Days -> Seq(Signals \X BOOLEAN)] /\ hot[d] \in Seq(Signals \X BOOLEAN)
  BY DEF TypeOK, Files
<1>2. <<s, b>> \in Signals \X BOOLEAN
  OBVIOUS
<1>3. Append(hot[d], <<s, b>>) \in Seq(Signals \X BOOLEAN)
  BY <1>1, <1>2, AppendProperties
<1>4. QED
  BY <1>1, <1>3 DEF Appended, Files

LEMMA OpenTypes ==
  ASSUME TypeOK, NEW d \in Days, OpenLocked(d)
  PROVE  /\ handle' \in [Days -> {"none", "open", "stale"}]
         /\ exists' \subseteq Days /\ dirty' \subseteq Days /\ exists \subseteq exists' /\ dirty \subseteq dirty'
         /\ \A e \in Days \ {d} : handle'[e] = handle[e] /\ (e \in exists' <=> e \in exists)
         /\ handle'[d] = "stale" <=> handle[d] = "stale"
         /\ handle'[d] # "stale" => handle'[d] = "open" /\ d \in exists'
         /\ gz[d] = "whole" => d \in dirty'
BY DEF TypeOK, OpenLocked

-----------------------------------------------------------------------------
(* Types, and where Archive is *)

LEMMA PackInit == Init => PackInv
<1> SUFFICES ASSUME Init PROVE PackInv
  OBVIOUS
<1>1. <<>> \in Seq(Signals) /\ <<>> \in Seq(Signals \X BOOLEAN)
  BY EmptySeq
<1>2. /\ 0 \in 0..MaxTears /\ 0 \in 0..MaxCrashes /\ 0 \in 0..MaxArchives /\ 0 \in 0..MaxRestores
      /\ 0 \in 0..Today
  BY FileStoreAssumption
<1>3. todo \in Seq(Seq(Signals)) /\ hot \in Files /\ packed \in Files
  BY <1>1, FileStoreAssumption DEF Init, Files
<1>4. TypeOK
  BY <1>1, <1>2, <1>3 DEF Init, TypeOK
<1>5. ArchiveInv /\ RestoreInv
  BY DEF Init, ArchiveInv, RestoreInv
<1>6. QED
  BY <1>4, <1>5 DEF PackInv

LEMMA PackWrite ==
  ASSUME PackInv, WriteBegin \/ WriteSignal \/ WriteFails \/ Close
  PROVE  PackInv'
<1>e. TypeOK /\ ArchiveInv /\ RestoreInv
  BY DEF PackInv
<1>u. UNCHANGED <<gz, packed, meta, apc, adays, archives, rpc, rday, restores>>
  BY DEF WriteBegin, WriteSignal, WriteFails, Close, gzVars, archVars, restVars
<1>r. ASSUME TypeOK', exists \subseteq exists' PROVE PackInv'
  BY <1>e, <1>u, <1>r DEF PackInv, ArchiveInv, RestoreInv, Current
<1>1. CASE WriteBegin
  <2>1. batch' \in Seq(Signals) /\ todo' \in Seq(Seq(Signals))
    BY <1>1, <1>e, NextBatch DEF WriteBegin
  <2>2. TypeOK' /\ exists \subseteq exists'
    BY <1>1, <1>e, <1>u, <2>1 DEF WriteBegin, TypeOK, hotVars
  <2>3. QED
    BY <2>2, <1>r
<1>2. CASE WriteSignal
  <2> DEFINE s == Head(batch)
             d == DayOf(s)
  <2>1. /\ batch # <<>> /\ OpenLocked(d) /\ Appended(d, <<s, TRUE>>) /\ stored' = stored \cup {s}
        /\ batch' = Tail(batch) /\ UNCHANGED <<todo, tears, crashes>>
    BY <1>2 DEF WriteSignal
  <2>2. s \in Signals /\ d \in Days /\ batch' \in Seq(Signals)
    BY <2>1, <1>e, NextBatch
  <2>3. /\ hot' \in Files /\ \A e \in Days \ {d} : hot'[e] = hot[e]
        /\ handle[d] = "stale" => hot'[d] = hot[d]
    BY <2>1, <2>2, <1>e, AppendedTypes
  <2>4. /\ handle' \in [Days -> {"none", "open", "stale"}]
        /\ exists' \subseteq Days /\ dirty' \subseteq Days /\ exists \subseteq exists'
        /\ \A e \in Days \ {d} : handle'[e] = handle[e] /\ (e \in exists' <=> e \in exists)
        /\ (handle'[d] = "stale" <=> handle[d] = "stale")
        /\ (handle'[d] # "stale" => handle'[d] = "open" /\ d \in exists')
    BY <2>1, <2>2, <1>e, OpenTypes
  <2> HIDE DEF s, d
  <2>5. \A e \in Days \ exists' : hot'[e] = <<>> /\ handle'[e] # "open"
    BY <2>2, <2>3, <2>4, <1>e DEF TypeOK
  <2>6. TypeOK'
    BY <2>1, <2>2, <2>3, <2>4, <2>5, <1>e, <1>u DEF TypeOK
  <2>7. QED
    BY <2>4, <2>6, <1>r
<1>3. CASE WriteFails
  <2> DEFINE s == Head(batch)
             d == DayOf(s)
  <2>1. /\ batch # <<>> /\ batch' = <<>> /\ UNCHANGED <<todo, stored, crashes>>
    BY <1>3 DEF WriteFails
  <2>2. s \in Signals /\ d \in Days /\ batch' \in Seq(Signals)
    BY <2>1, <1>e, NextBatch
  <2>3. CASE UNCHANGED <<hotVars, tears, dirty>>
    <3>1. TypeOK' /\ exists \subseteq exists'
      BY <2>1, <2>2, <2>3, <1>e, <1>u DEF TypeOK, hotVars
    <3>2. QED
      BY <3>1, <1>r
  <2>4. ASSUME OpenLocked(d), tears' \in 0..MaxTears, UNCHANGED hot \/ Appended(d, <<s, FALSE>>)
        PROVE  PackInv'
    <3>1. /\ hot' \in Files /\ \A e \in Days \ {d} : hot'[e] = hot[e]
          /\ handle[d] = "stale" => hot'[d] = hot[d]
      BY <2>4, <2>2, <1>e, AppendedTypes DEF TypeOK
    <3>2. /\ handle' \in [Days -> {"none", "open", "stale"}]
          /\ exists' \subseteq Days /\ dirty' \subseteq Days /\ exists \subseteq exists'
          /\ \A e \in Days \ {d} : handle'[e] = handle[e] /\ (e \in exists' <=> e \in exists)
          /\ (handle'[d] = "stale" <=> handle[d] = "stale")
          /\ (handle'[d] # "stale" => handle'[d] = "open" /\ d \in exists')
      BY <2>4, <2>2, <1>e, OpenTypes
    <3> HIDE DEF s, d
    <3>3. \A e \in Days \ exists' : hot'[e] = <<>> /\ handle'[e] # "open"
      BY <2>2, <3>1, <3>2, <1>e DEF TypeOK
    <3>4. TypeOK'
      BY <2>1, <2>2, <2>4, <3>1, <3>2, <3>3, <1>e, <1>u DEF TypeOK
    <3>5. QED
      BY <3>2, <3>4, <1>r
  <2>5. tears < MaxTears => tears + 1 \in 0..MaxTears
    BY <1>e, FileStoreAssumption DEF TypeOK
  <2>6. tears \in 0..MaxTears
    BY <1>e DEF TypeOK
  <2>7. QED
    BY <1>3, <2>3, <2>4, <2>5, <2>6 DEF WriteFails
<1>4. CASE Close
  <2>1. TypeOK' /\ exists \subseteq exists'
    BY <1>4, <1>e, <1>u DEF Close, NoHandles, TypeOK
  <2>2. QED
    BY <2>1, <1>r
<1>5. QED
  BY <1>1, <1>2, <1>3, <1>4

LEMMA PackArchive == ASSUME PackInv, Archive PROVE PackInv'
<1>e. TypeOK /\ ArchiveInv /\ RestoreInv
  BY DEF PackInv
<1>c. adays # {} => Current \in adays /\ Current \in Old /\ Current \in Days
  BY <1>e, CurrentDay
<1>k. UNCHANGED adays => Current' = Current
  BY DEF Current
<1>f. hot \in Files /\ packed \in Files /\ <<>> \in Seq(Signals \X BOOLEAN)
      /\ \A d \in Days : hot[d] \in Seq(Signals \X BOOLEAN)
  BY <1>e, EmptySeq DEF TypeOK, Files
<1>u. UNCHANGED <<todo, batch, restVars, stored, tears, crashes>>
  BY DEF Archive, ArchiveStart, ArchiveList, ArchivePick, ArchiveCopy, ArchiveCopyFails, ArchiveMeta,
         ArchiveRemove, PruneStart, Prune, ArchiveReturn
<1>1. CASE ArchiveStart
  <2>1. archives' \in 0..MaxArchives
    BY <1>1, <1>e, FileStoreAssumption DEF ArchiveStart, TypeOK
  <2>2. TypeOK'
    BY <1>1, <1>e, <1>u, <2>1 DEF ArchiveStart, NoHandles, TypeOK, gzVars, restVars
  <2>3. ArchiveInv' /\ RestoreInv'
    BY <1>1, <1>e, <1>u DEF ArchiveStart, ArchiveInv, RestoreInv, restVars
  <2>4. QED
    BY <2>2, <2>3 DEF PackInv
<1>2. CASE ArchiveList
  <2>2. TypeOK'
    BY <1>2, <1>e, <1>u DEF ArchiveList, TypeOK, hotVars, gzVars, restVars
  <2>3. ArchiveInv' /\ RestoreInv'
    BY <1>2, <1>e, <1>u DEF ArchiveList, ArchiveInv, RestoreInv, hotVars, restVars
  <2>4. QED
    BY <2>2, <2>3 DEF PackInv
<1>3. CASE ArchivePick
  <2>1. packed' \in Files /\ gz' \in [Days -> {"none", "partial", "whole"}] /\ gz'[Current] = "partial"
    BY <1>3, <1>c, <1>e, <1>f DEF ArchivePick, TypeOK, Files
  <2>2. TypeOK'
    BY <1>3, <1>c, <1>e, <1>u, <2>1 DEF ArchivePick, TypeOK, hotVars, restVars
  <2>3. ArchiveInv' /\ RestoreInv'
    BY <1>3, <1>e, <1>u, <1>k, <2>1 DEF ArchivePick, ArchiveInv, RestoreInv, hotVars, restVars
  <2>4. QED
    BY <2>2, <2>3 DEF PackInv
<1>4. CASE ArchiveCopy
  <2>c. Current \in Days
    BY <1>4, <1>c, <1>e DEF ArchiveCopy, ArchiveInv
  <2>1. packed' \in Files /\ gz' \in [Days -> {"none", "partial", "whole"}] /\ gz'[Current] = "whole"
    BY <1>4, <2>c, <1>e, <1>f DEF ArchiveCopy, TypeOK, Files
  <2>2. TypeOK'
    BY <1>4, <1>e, <1>u, <2>1 DEF ArchiveCopy, TypeOK, hotVars, restVars
  <2>3. ArchiveInv' /\ RestoreInv'
    BY <1>4, <1>e, <1>u, <1>k, <2>1 DEF ArchiveCopy, ArchiveInv, RestoreInv, hotVars, restVars
  <2>4. QED
    BY <2>2, <2>3 DEF PackInv
<1>5. CASE ArchiveCopyFails
  <2>2. TypeOK'
    BY <1>5, <1>e, <1>u DEF ArchiveCopyFails, TypeOK, hotVars, gzVars, restVars
  <2>3. ArchiveInv' /\ RestoreInv'
    BY <1>5, <1>e, <1>u DEF ArchiveCopyFails, ArchiveInv, RestoreInv, hotVars, restVars
  <2>4. QED
    BY <2>2, <2>3 DEF PackInv
<1>6. CASE ArchiveMeta
  <2>c. Current \in Days
    BY <1>6, <1>c, <1>e DEF ArchiveMeta, ArchiveInv
  <2>2. TypeOK'
    BY <1>6, <1>e, <1>u, <2>c DEF ArchiveMeta, TypeOK, hotVars, restVars
  <2>3. ArchiveInv' /\ RestoreInv'
    BY <1>6, <1>e, <1>u, <1>k DEF ArchiveMeta, ArchiveInv, RestoreInv, hotVars, restVars
  <2>4. QED
    BY <2>2, <2>3 DEF PackInv
<1>7. CASE ArchiveRemove
  <2>c. Current \in Days
    BY <1>7, <1>c, <1>e DEF ArchiveRemove, ArchiveInv
  <2>1. /\ hot' \in Files /\ hot'[Current] = <<>> /\ \A d \in Days \ {Current} : hot'[d] = hot[d]
        /\ handle' \in [Days -> {"none", "open", "stale"}] /\ handle'[Current] # "open"
        /\ \A d \in Days \ {Current} : handle'[d] = handle[d]
        /\ exists' = exists \ {Current}
    BY <1>7, <2>c, <1>e, <1>f DEF ArchiveRemove, TypeOK, Files
  <2>2. \A d \in Days \ exists' : hot'[d] = <<>> /\ handle'[d] # "open"
    BY <2>1, <1>e DEF TypeOK
  <2>3. TypeOK'
    BY <1>7, <1>e, <1>u, <2>1, <2>2 DEF ArchiveRemove, TypeOK, gzVars, restVars
  <2>4. ArchiveInv' /\ RestoreInv'
    BY <1>7, <1>e, <1>u DEF ArchiveRemove, ArchiveInv, RestoreInv, restVars
  <2>5. QED
    BY <2>3, <2>4 DEF PackInv
<1>8. CASE PruneStart \/ ArchiveReturn
  <2>2. TypeOK'
    BY <1>8, <1>e, <1>u DEF PruneStart, ArchiveReturn, TypeOK, hotVars, gzVars, restVars
  <2>3. ArchiveInv' /\ RestoreInv'
    BY <1>8, <1>e, <1>u DEF PruneStart, ArchiveReturn, ArchiveInv, RestoreInv, hotVars, restVars
  <2>4. QED
    BY <2>2, <2>3 DEF PackInv
<1>9. ASSUME NEW d \in Expired, Prune(d) PROVE PackInv'
  <2>1. d \in Days
    BY Calendar
  <2>2. packed' \in Files /\ gz' \in [Days -> {"none", "partial", "whole"}] /\ meta' \subseteq Days
    BY <1>9, <2>1, <1>e, <1>f DEF Prune, TypeOK, Files
  <2>3. TypeOK'
    BY <1>9, <1>e, <1>u, <2>2 DEF Prune, TypeOK, hotVars, archVars, restVars
  <2>4. ArchiveInv' /\ RestoreInv'
    BY <1>9, <1>e, <1>u DEF Prune, ArchiveInv, RestoreInv, hotVars, archVars, restVars
  <2>5. QED
    BY <2>3, <2>4 DEF PackInv
<1>10. QED
  BY <1>1, <1>2, <1>3, <1>4, <1>5, <1>6, <1>7, <1>8, <1>9 DEF Archive

\* A prefix of one file in the place of that of another.
LEMMA Overwritten ==
  ASSUME NEW S, NEW f \in Seq(S), NEW g \in Seq(S), NEW n \in 0..Len(f)
  PROVE  /\ SubSeq(f, 1, n) \o SubSeq(g, n + 1, Len(g)) \in Seq(S)
         /\ n = Len(f) /\ g = <<>> => SubSeq(f, 1, n) \o SubSeq(g, n + 1, Len(g)) = f
<1>1. /\ Len(f) \in Nat /\ Len(g) \in Nat /\ n \in Int /\ 1 \in Int /\ n + 1 \in Int
      /\ DOMAIN f = 1..Len(f) /\ DOMAIN g = 1..Len(g)
      /\ \A i \in 1..n : f[i] \in S
      /\ \A i \in (n + 1)..Len(g) : g[i] \in S
  BY LenProperties, ElementOfSeq
<1>2. SubSeq(f, 1, n) \in Seq(S) /\ SubSeq(g, n + 1, Len(g)) \in Seq(S)
  BY <1>1, SubSeqProperties
<1>3. SubSeq(f, 1, n) \o SubSeq(g, n + 1, Len(g)) \in Seq(S)
  BY <1>2, ConcatProperties
<1>4. ASSUME n = Len(f), g = <<>> PROVE SubSeq(f, 1, n) \o SubSeq(g, n + 1, Len(g)) = f
  <2>1. SubSeq(g, n + 1, Len(g)) = <<>>
    <3>1. Len(g) < n + 1 /\ Len(g) \in Int
      BY <1>1, <1>4, EmptySeq
    <3>2. QED
      BY <3>1, <1>1, SubSeqEmpty
  <2>2. SubSeq(f, 1, n) = f
    BY <1>4, SubSeqFull
  <2>3. QED
    BY <2>1, <2>2, ConcatEmptySeq
<1>5. QED
  BY <1>3, <1>4

LEMMA PackRestore ==
  ASSUME PackInv,
         \/ \E d \in Days, overwrite \in BOOLEAN : RestoreStart(d, overwrite)
         \/ RestoreOpen \/ RestoreOpenFails \/ RestoreCopy
  PROVE  PackInv'
<1>e. TypeOK /\ ArchiveInv /\ RestoreInv
  BY DEF PackInv
<1>f. hot \in Files /\ packed \in Files /\ <<>> \in Seq(Signals \X BOOLEAN)
      /\ \A d \in Days : hot[d] \in Seq(Signals \X BOOLEAN) /\ packed[d] \in Seq(Signals \X BOOLEAN)
  BY <1>e, EmptySeq DEF TypeOK, Files
<1>u. /\ UNCHANGED <<todo, batch, handle, gzVars, archVars, stored, tears, crashes>> /\ Current' = Current
      /\ exists \subseteq exists'
  BY DEF RestoreStart, RestoreOpen, RestoreOpenFails, RestoreCopy, hotVars, archVars, Current
<1>a. ArchiveInv'
  BY <1>e, <1>u DEF ArchiveInv, gzVars, archVars
<1>1. ASSUME NEW d \in Days, NEW overwrite \in BOOLEAN, RestoreStart(d, overwrite) PROVE PackInv'
  <2>1. restores' \in 0..MaxRestores /\ rday' \in 0..Today
    BY <1>1, <1>e, FileStoreAssumption, Calendar DEF RestoreStart, TypeOK
  <2>2. TypeOK'
    BY <1>1, <1>e, <1>u, <2>1 DEF RestoreStart, TypeOK, hotVars, gzVars, archVars
  <2>3. QED
    BY <1>1, <1>a, <2>2 DEF PackInv, RestoreStart, RestoreInv
<1>2. CASE RestoreOpen
  <2>1. rday \in Days
    BY <1>2, <1>e DEF RestoreOpen, RestoreInv
  <2>2. hot' \in Files /\ hot'[rday] = <<>> /\ \A d \in Days \ {rday} : hot'[d] = hot[d]
    BY <1>2, <2>1, <1>f DEF RestoreOpen, Files
  <2>3. TypeOK'
    BY <1>2, <1>e, <1>u, <2>1, <2>2 DEF RestoreOpen, TypeOK, gzVars, archVars
  <2>4. QED
    BY <1>2, <1>a, <2>1, <2>3 DEF PackInv, RestoreOpen, RestoreInv
<1>3. CASE RestoreOpenFails
  <2>1. TypeOK'
    BY <1>3, <1>e, <1>u, Calendar DEF RestoreOpenFails, TypeOK, hotVars, gzVars, archVars
  <2>2. QED
    BY <1>3, <1>a, <2>1 DEF PackInv, RestoreOpenFails, RestoreInv
<1>4. CASE RestoreCopy
  <2>1. rday \in Days
    BY <1>4, <1>e DEF RestoreCopy, RestoreInv
  <2>2. PICK n \in 0..Len(packed[rday]) :
          /\ hot' = IF rday \in exists
                      THEN [hot EXCEPT ![rday] = SubSeq(packed[rday], 1, n) \o SubSeq(@, n + 1, Len(@))] ELSE hot
          /\ dirty' = IF n < Len(packed[rday]) THEN dirty \cup {rday} ELSE dirty
    BY <1>4 DEF RestoreCopy
  <2>3. SubSeq(packed[rday], 1, n) \o SubSeq(hot[rday], n + 1, Len(hot[rday])) \in Seq(Signals \X BOOLEAN)
    BY <2>1, <1>f, Overwritten
  <2>4. hot' \in Files /\ \A d \in Days \ {rday} : hot'[d] = hot[d]
    BY <2>1, <2>2, <2>3, <1>f DEF Files
  <2>5. dirty' \subseteq Days /\ \A d \in Days \ exists : hot'[d] = hot[d]
    BY <2>1, <2>2, <2>4, <1>e DEF TypeOK
  <2>6. TypeOK'
    BY <1>4, <1>e, <1>u, <2>4, <2>5, Calendar DEF RestoreCopy, TypeOK, gzVars, archVars
  <2>7. QED
    BY <1>4, <1>a, <2>6 DEF PackInv, RestoreCopy, RestoreInv
<1>5. QED
  BY <1>1, <1>2, <1>3, <1>4

LEMMA PackCrash == ASSUME PackInv, Crash PROVE PackInv'
<1>e. TypeOK /\ ArchiveInv /\ RestoreInv
  BY DEF PackInv
<1>u. /\ UNCHANGED <<todo, gzVars, archives, restores, stored>> /\ batch' = <<>> /\ NoHandles
      /\ apc' = "idle" /\ adays' = {} /\ rpc' = "idle" /\ rday' = 0 /\ crashes' = crashes + 1
      /\ crashes < MaxCrashes
  BY DEF Crash
<1>c. crashes' \in 0..MaxCrashes
  BY <1>e, <1>u, FileStoreAssumption DEF TypeOK
<1>r. rpc = "copy" => rday \in Days
  BY <1>e DEF RestoreInv
<1>i. ArchiveInv' /\ RestoreInv'
  BY <1>u DEF ArchiveInv, RestoreInv
<1>1. CASE UNCHANGED <<exists, hot, tears>> /\ dirty' = dirty \cup (IF rpc = "copy" THEN {rday} ELSE {})
  <2>1. TypeOK'
    BY <1>1, <1>e, <1>u, <1>c, <1>r, NextBatch, Calendar DEF TypeOK, gzVars, NoHandles
  <2>2. QED
    BY <2>1, <1>i DEF PackInv
<1>2. CASE /\ batch # <<>> /\ tears < MaxTears
           /\ LET d == DayOf(Head(batch)) IN
                /\ exists' = IF handle[d] = "none" THEN exists \cup {d} ELSE exists
                /\ Appended(d, <<Head(batch), FALSE>>)
                /\ dirty' = dirty \cup (IF rpc = "copy" THEN {rday} ELSE {})
                                  \cup (IF gz[d] = "whole" THEN {d} ELSE {})
           /\ tears' = tears + 1
  <2> DEFINE d == DayOf(Head(batch))
  <2>1. Head(batch) \in Signals /\ d \in Days
    BY <1>2, <1>e, NextBatch
  <2>2. /\ hot' \in Files /\ \A e \in Days \ {d} : hot'[e] = hot[e]
        /\ handle[d] = "stale" => hot'[d] = hot[d]
    BY <1>2, <2>1, <1>e, AppendedTypes
  <2>3. /\ exists' = IF handle[d] = "none" THEN exists \cup {d} ELSE exists
        /\ dirty' = dirty \cup (IF rpc = "copy" THEN {rday} ELSE {}) \cup (IF gz[d] = "whole" THEN {d} ELSE {})
    BY <1>2
  <2> HIDE DEF d
  <2>4. exists' \subseteq Days /\ dirty' \subseteq Days
    BY <2>1, <2>3, <1>e, <1>r DEF TypeOK
  <2>h. handle' = [e \in Days |-> "none"]
    BY <1>u DEF NoHandles
  <2>s. handle[d] \in {"none", "open", "stale"} /\ \A e \in Days \ exists : hot[e] = <<>> /\ handle[e] # "open"
    BY <2>1, <1>e DEF TypeOK
  <2>5. \A e \in Days \ exists' : hot'[e] = <<>> /\ handle'[e] # "open"
    <3>1. ASSUME NEW e \in Days \ exists' PROVE hot'[e] = <<>>
      <4>1. CASE e # d
        BY <4>1, <2>2, <2>3, <2>s, <3>1
      <4>2. CASE e = d
        BY <4>2, <2>1, <2>2, <2>3, <2>s, <3>1
      <4>3. QED
        BY <4>1, <4>2
    <3>2. QED
      BY <3>1, <2>h
  <2>6. tears' \in 0..MaxTears
    BY <1>2, <1>e, FileStoreAssumption DEF TypeOK
  <2>7. TypeOK'
    BY <1>e, <1>u, <1>c, <2>2, <2>4, <2>5, <2>6, <2>h, NextBatch, Calendar DEF TypeOK, gzVars
  <2>8. QED
    BY <2>7, <1>i DEF PackInv
<1>3. QED
  BY <1>1, <1>2 DEF Crash

LEMMA PackStep == PackInv /\ [Next]_vars => PackInv'
<1>1. PackInv /\ UNCHANGED vars => PackInv'
  BY DEF PackInv, TypeOK, ArchiveInv, RestoreInv, Current, vars, hotVars, gzVars, archVars, restVars
<1>2. QED
  BY <1>1, PackWrite, PackArchive, PackRestore, PackCrash DEF Next

LEMMA Packed == Spec => []PackInv
BY PackInit, PackStep, PTL DEF Spec

\* The type invariant of the files, the handles and the steps of Archive and
\* Restore: among others, no file that is not there holds anything or is open.
THEOREM FileTypes == Spec => []TypeOK
<1>1. PackInv => TypeOK
  BY DEF PackInv
<1>2. QED
  BY <1>1, Packed, PTL

-----------------------------------------------------------------------------
(* What is listed *)

ListInv == PackInv /\ ListedIsThere

LEMMA ListArchive == ASSUME ListInv, Archive PROVE ListedIsThere'
<1>e. TypeOK /\ ArchiveInv /\ ListedIsThere
  BY DEF ListInv, PackInv
<1>c. adays # {} => Current \in adays /\ Current \in Days /\ Current \in exists
  BY <1>e, CurrentDay DEF ArchiveInv
<1>g. gz \in [Days -> {"none", "partial", "whole"}] /\ meta \subseteq Days
  BY <1>e DEF TypeOK
<1>1. CASE ArchiveStart \/ ArchiveList \/ ArchiveCopyFails \/ PruneStart \/ ArchiveReturn
  <2>1. UNCHANGED <<gz, meta, exists>>
    BY <1>1 DEF ArchiveStart, ArchiveList, ArchiveCopyFails, PruneStart, ArchiveReturn, gzVars, hotVars
  <2>2. QED
    BY <2>1, <1>e DEF ListedIsThere
<1>2. CASE ArchivePick
  <2>1. /\ UNCHANGED <<meta, exists>> /\ Current \in exists
        /\ \A d \in Days \ {Current} : gz'[d] = gz[d]
    BY <1>2, <1>c, <1>g DEF ArchivePick, hotVars
  <2>2. QED
    BY <2>1, <1>e, <1>g DEF ListedIsThere
<1>3. CASE ArchiveCopy
  <2>1. /\ UNCHANGED <<meta, exists>> /\ gz'[Current] = "whole"
        /\ \A d \in Days \ {Current} : gz'[d] = gz[d]
    BY <1>3, <1>c, <1>e, <1>g DEF ArchiveCopy, ArchiveInv, hotVars
  <2>2. QED
    BY <2>1, <1>e, <1>g DEF ListedIsThere
<1>4. CASE ArchiveMeta
  <2>1. UNCHANGED <<gz, exists>> /\ gz[Current] = "whole" /\ meta' \subseteq meta \cup {Current}
    BY <1>4, <1>e DEF ArchiveMeta, ArchiveInv, hotVars
  <2>2. QED
    BY <2>1, <1>e DEF ListedIsThere
<1>5. CASE ArchiveRemove
  <2>1. UNCHANGED <<gz, meta>> /\ gz[Current] = "whole" /\ exists' = exists \ {Current}
    BY <1>5, <1>e DEF ArchiveRemove, ArchiveInv, gzVars
  <2>2. QED
    BY <2>1, <1>e DEF ListedIsThere
<1>6. ASSUME NEW d \in Expired, Prune(d) PROVE ListedIsThere'
  <2>1. UNCHANGED exists /\ meta' \subseteq meta /\ \A e \in Days \ {d} : gz'[e] = gz[e]
    BY <1>6, <1>g DEF Prune, hotVars
  <2>2. QED
    BY <2>1, <1>e, <1>g DEF ListedIsThere
<1>7. QED
  BY <1>1, <1>2, <1>3, <1>4, <1>5, <1>6 DEF Archive

LEMMA ListStep == ListInv /\ [Next]_vars => ListInv'
<1> SUFFICES ASSUME ListInv, [Next]_vars PROVE ListInv'
  OBVIOUS
<1>1. PackInv'
  BY PackStep DEF ListInv
<1>2. CASE Archive
  BY <1>1, <1>2, ListArchive DEF ListInv
<1>3. CASE ~Archive
  <2>1. UNCHANGED <<gz, meta>>
    BY <1>3 DEF Next, WriteBegin, WriteSignal, WriteFails, Close, RestoreStart, RestoreOpen,
         RestoreOpenFails, RestoreCopy, Crash, vars, gzVars
  <2>2. exists \subseteq exists'
    BY <1>3 DEF Next, WriteBegin, WriteSignal, WriteFails, Close, RestoreStart, RestoreOpen,
         RestoreOpenFails, RestoreCopy, Crash, vars, hotVars, OpenLocked
  <2>3. QED
    BY <1>1, <2>1, <2>2 DEF ListInv, ListedIsThere
<1>4. QED
  BY <1>2, <1>3

\* A listed archive can be restored, or the file it was made from is still
\* there, whatever is written, restored, fails or crashes meanwhile: Archive
\* removes a file only after its archive was closed without an error, and
\* empties an archive only while the file it packs is there.
THEOREM FileListed == Spec => []ListedIsThere
<1>1. Init => ListInv
  BY PackInit DEF Init, ListInv, ListedIsThere
<1>2. ListInv => ListedIsThere
  BY DEF ListInv
<1>3. QED
  BY <1>1, <1>2, ListStep, PTL DEF Spec

-----------------------------------------------------------------------------
(* What is lost *)

LEMMA HandleStep == PackInv /\ HandleInv /\ [Next]_vars => HandleInv'
<1> SUFFICES ASSUME PackInv, HandleInv, [Next]_vars PROVE HandleInv'
  OBVIOUS
<1>e. TypeOK /\ ArchiveInv /\ RestoreInv
  BY DEF PackInv
<1>c. adays # {} => Current \in adays /\ Current \in Days
  BY <1>e, CurrentDay
<1>g. /\ gz \in [Days -> {"none", "partial", "whole"}] /\ handle \in [Days -> {"none", "open", "stale"}]
      /\ Expired \subseteq Days
  BY <1>e, Calendar DEF TypeOK
<1>1. CASE ArchiveStart \/ Close \/ Crash
  <2>1. \A d \in Days : handle'[d] = "none"
    BY <1>1 DEF ArchiveStart, Close, Crash, NoHandles
  <2>2. QED
    BY <2>1 DEF HandleInv
<1>2. CASE WriteBegin \/ RestoreOpen \/ RestoreOpenFails \/ RestoreCopy
           \/ (\E d \in Days, overwrite \in BOOLEAN : RestoreStart(d, overwrite)) \/ UNCHANGED vars
  <2>1. UNCHANGED <<handle, gz, adays, apc>>
    BY <1>2 DEF WriteBegin, RestoreOpen, RestoreOpenFails, RestoreCopy, RestoreStart, vars, hotVars, gzVars, archVars
  <2>2. QED
    BY <2>1 DEF HandleInv
<1>3. CASE WriteSignal \/ WriteFails
  <2>1. UNCHANGED <<gz, adays, apc>> /\ batch # <<>>
    BY <1>3 DEF WriteSignal, WriteFails, gzVars, archVars
  <2>2. UNCHANGED handle \/ OpenLocked(DayOf(Head(batch)))
    BY <1>3 DEF WriteSignal, WriteFails, hotVars
  <2>3. \A d \in Days : handle'[d] = "stale" => handle[d] = "stale"
    <3>1. DayOf(Head(batch)) \in Days
      BY <2>1, <1>e, NextBatch
    <3>2. QED
      BY <2>2, <3>1, <1>e, OpenTypes
  <2>4. QED
    BY <2>1, <2>3 DEF HandleInv
<1>4. CASE ArchiveList
  BY <1>4 DEF ArchiveList, HandleInv, hotVars, gzVars
<1>5. CASE ArchivePick
  <2>1. UNCHANGED <<handle, adays>> /\ apc' = "copy" /\ Current \in adays /\ Current \in Days
        /\ \A d \in Days \ {Current} : gz'[d] = gz[d]
    BY <1>5, <1>c, <1>g DEF ArchivePick, hotVars
  <2>2. QED
    BY <2>1 DEF HandleInv
<1>6. CASE ArchiveCopy
  <2>1. UNCHANGED <<handle, adays>> /\ apc' = "meta" /\ Current \in Days /\ gz'[Current] = "whole"
        /\ \A d \in Days \ {Current} : gz'[d] = gz[d]
    BY <1>6, <1>c, <1>e, <1>g DEF ArchiveCopy, ArchiveInv, hotVars
  <2>2. QED
    BY <2>1 DEF HandleInv
<1>7. CASE ArchiveCopyFails \/ ArchiveMeta \/ PruneStart \/ ArchiveReturn
  <2>1. UNCHANGED <<handle, gz>> /\ adays' \subseteq adays /\ apc' # "list"
    BY <1>7 DEF ArchiveCopyFails, ArchiveMeta, PruneStart, ArchiveReturn, hotVars, gzVars
  <2>2. QED
    BY <2>1 DEF HandleInv
<1>8. CASE ArchiveRemove
  <2>1. /\ UNCHANGED gz /\ adays' = adays \ {Current} /\ apc' = "pick" /\ gz[Current] = "whole"
        /\ \A d \in Days \ {Current} : handle'[d] = handle[d]
    BY <1>8, <1>e, <1>g DEF ArchiveRemove, ArchiveInv, gzVars
  <2>2. QED
    BY <2>1 DEF HandleInv
<1>9. ASSUME NEW d \in Expired, Prune(d) PROVE HandleInv'
  <2>1. UNCHANGED <<handle, adays, apc>> /\ \A e \in Days \ {d} : gz'[e] = gz[e]
    BY <1>9, <1>g DEF Prune, hotVars, archVars
  <2>2. QED
    BY <2>1, <1>9 DEF HandleInv
<1>10. QED
  BY <1>1, <1>2, <1>3, <1>4, <1>5, <1>6, <1>7, <1>8, <1>9 DEF Next, Archive

\* The steps after which every clean day holds what it held before.
Holds == dirty \subseteq dirty' /\ \A d \in Days : Clean(d)' => Clean(d) /\ Content(d)' = Content(d)

LEMMA ArchiveHolds == ASSUME PackInv, HandleInv, MirrorInv, Archive PROVE MirrorInv' /\ Holds
<1>e. TypeOK /\ ArchiveInv /\ RestoreInv
  BY DEF PackInv
<1>c. adays # {} => Current \in adays /\ Current \in Days /\ Current \in exists
  BY <1>e, CurrentDay DEF ArchiveInv
<1>g. /\ gz \in [Days -> {"none", "partial", "whole"}] /\ Expired \subseteq Days
      /\ hot \in [Days -> Seq(Signals \X BOOLEAN)] /\ packed \in [Days -> Seq(Signals \X BOOLEAN)]
  BY <1>e, Calendar DEF TypeOK, Files
<1>r. UNCHANGED <<rpc, rday>>
  BY DEF Archive, ArchiveStart, ArchiveList, ArchivePick, ArchiveCopy, ArchiveCopyFails, ArchiveMeta,
         ArchiveRemove, PruneStart, Prune, ArchiveReturn, restVars
<1>1. CASE ArchiveStart \/ ArchiveList \/ ArchiveCopyFails \/ ArchiveMeta \/ PruneStart \/ ArchiveReturn
  <2>1. UNCHANGED <<gz, packed, hot, exists, dirty>>
    BY <1>1 DEF ArchiveStart, ArchiveList, ArchiveCopyFails, ArchiveMeta, PruneStart, ArchiveReturn, hotVars, gzVars
  <2>2. QED
    BY <2>1, <1>r DEF MirrorInv, Holds, Clean, Content, Restored
<1>2. CASE ArchivePick
  <2>1. /\ Current \in exists /\ Current \in Days /\ UNCHANGED <<exists, hot>>
        /\ gz'[Current] = "partial" /\ dirty \subseteq dirty'
        /\ \A d \in Days \ {Current} : gz'[d] = gz[d] /\ packed'[d] = packed[d]
        /\ Current \notin dirty' => Current # rday
    BY <1>2, <1>c, <1>g DEF ArchivePick, hotVars
  <2>2. ASSUME NEW d \in Days, Clean(d)'
        PROVE  /\ Clean(d) /\ Content(d)' = Content(d)
               /\ Restored(d)' => gz'[d] = "whole" /\ hot'[d] = <<>>
               /\ gz'[d] = "whole" /\ d \in exists' /\ ~Restored(d)' => hot'[d] = packed'[d]
    <3>1. Clean(d)
      BY <2>1, <2>2 DEF Clean
    <3>2. CASE d = Current
      <4>1. ~Restored(d) /\ ~Restored(d)'
        BY <2>1, <2>2, <3>2, <1>r DEF Clean, Restored
      <4>2. QED
        BY <2>1, <3>1, <3>2, <4>1 DEF MirrorInv, Content
    <3>3. CASE d # Current
      BY <2>1, <3>1, <3>3, <1>r DEF MirrorInv, Content, Restored
    <3>4. QED
      BY <3>2, <3>3
  <2>3. QED
    BY <2>1, <2>2 DEF MirrorInv, Holds
<1>3. CASE ArchiveCopy
  <2>1. /\ Current \in Days /\ UNCHANGED <<exists, hot, dirty>> /\ gz[Current] = "partial"
        /\ gz'[Current] = "whole" /\ packed'[Current] = hot[Current]
        /\ \A d \in Days \ {Current} : gz'[d] = gz[d] /\ packed'[d] = packed[d]
    BY <1>3, <1>c, <1>e, <1>g DEF ArchiveCopy, ArchiveInv, hotVars
  <2>2. ASSUME NEW d \in Days, Clean(d)'
        PROVE  /\ Clean(d) /\ Content(d)' = Content(d)
               /\ Restored(d)' => gz'[d] = "whole" /\ hot'[d] = <<>>
               /\ gz'[d] = "whole" /\ d \in exists' /\ ~Restored(d)' => hot'[d] = packed'[d]
    <3>1. Clean(d)
      BY <2>1, <2>2 DEF Clean
    <3>2. CASE d = Current
      BY <2>1, <3>1, <3>2, <1>r DEF MirrorInv, Content, Restored
    <3>3. CASE d # Current
      BY <2>1, <3>1, <3>3, <1>r DEF MirrorInv, Content, Restored
    <3>4. QED
      BY <3>2, <3>3
  <2>3. QED
    BY <2>1, <2>2 DEF MirrorInv, Holds
<1>4. CASE ArchiveRemove
  <2>1. /\ Current \in Days /\ UNCHANGED <<gz, packed, dirty>> /\ gz[Current] = "whole"
        /\ hot'[Current] = <<>> /\ exists' = exists \ {Current}
        /\ \A d \in Days \ {Current} : hot'[d] = hot[d]
    BY <1>4, <1>c, <1>e, <1>g DEF ArchiveRemove, ArchiveInv, gzVars
  <2>2. QED
    BY <2>1, <1>r DEF MirrorInv, Holds, Clean, Content, Restored
<1>5. ASSUME NEW d \in Expired, Prune(d) PROVE MirrorInv' /\ Holds
  <2>1. /\ UNCHANGED <<exists, hot, dirty>>
        /\ \A e \in Days \ {d} : gz'[e] = gz[e] /\ packed'[e] = packed[e]
    BY <1>5, <1>g DEF Prune, hotVars
  <2>2. \A e \in Days : Clean(e)' => e # d /\ Clean(e)
    BY <2>1, <1>5 DEF Clean
  <2>3. QED
    BY <2>1, <2>2, <1>r DEF MirrorInv, Holds, Content, Restored
<1>6. QED
  BY <1>1, <1>2, <1>3, <1>4, <1>5 DEF Archive

LEMMA RestoreHolds ==
  ASSUME PackInv, MirrorInv,
         \/ \E d \in Days, overwrite \in BOOLEAN : RestoreStart(d, overwrite)
         \/ RestoreOpen \/ RestoreOpenFails \/ RestoreCopy
  PROVE  MirrorInv' /\ Holds
<1>e. TypeOK /\ ArchiveInv /\ RestoreInv
  BY DEF PackInv
<1>g. /\ gz \in [Days -> {"none", "partial", "whole"}]
      /\ hot \in [Days -> Seq(Signals \X BOOLEAN)] /\ packed \in [Days -> Seq(Signals \X BOOLEAN)]
  BY <1>e DEF TypeOK, Files
<1>1. CASE \E d \in Days, overwrite \in BOOLEAN : RestoreStart(d, overwrite)
  <2>1. UNCHANGED <<gz, packed, hot, exists, dirty>> /\ rpc = "idle" /\ rpc' = "open"
    BY <1>1 DEF RestoreStart, hotVars, gzVars
  <2>2. QED
    BY <2>1 DEF MirrorInv, Holds, Clean, Content, Restored
<1>2. CASE RestoreOpenFails
  <2>1. UNCHANGED <<gz, packed, hot, exists, dirty>> /\ rpc = "open" /\ rpc' = "idle"
    BY <1>2 DEF RestoreOpenFails, hotVars, gzVars
  <2>2. QED
    BY <2>1 DEF MirrorInv, Holds, Clean, Content, Restored
<1>3. CASE RestoreOpen
  <2>1. /\ rday \in Days /\ UNCHANGED <<gz, packed, rday>> /\ rpc = "open" /\ rpc' = "copy"
        /\ hot'[rday] = <<>> /\ exists' = exists \cup {rday} /\ dirty \subseteq dirty'
        /\ \A d \in Days \ {rday} : hot'[d] = hot[d]
        /\ rday \notin dirty' => gz[rday] = "whole"
    BY <1>3, <1>e, <1>g DEF RestoreOpen, RestoreInv, gzVars
  <2>2. QED
    BY <2>1 DEF MirrorInv, Holds, Clean, Content, Restored
<1>4. CASE RestoreCopy
  <2>1. rday \in Days /\ UNCHANGED <<gz, packed, exists>> /\ rpc = "copy" /\ rpc' = "idle"
    BY <1>4, <1>e DEF RestoreCopy, RestoreInv, gzVars
  <2>2. PICK n \in 0..Len(packed[rday]) :
          /\ hot' = IF rday \in exists
                      THEN [hot EXCEPT ![rday] = SubSeq(packed[rday], 1, n) \o SubSeq(@, n + 1, Len(@))] ELSE hot
          /\ dirty' = IF n < Len(packed[rday]) THEN dirty \cup {rday} ELSE dirty
    BY <1>4 DEF RestoreCopy
  <2>3. dirty \subseteq dirty' /\ \A d \in Days \ {rday} : hot'[d] = hot[d]
    BY <2>1, <2>2, <1>g
  <2>4. ASSUME NEW d \in Days, d = rday, d \notin dirty' \cup Expired
        PROVE  Clean(d) /\ gz[d] = "whole" /\ (d \in exists => hot'[d] = packed[d])
    <3>1. Clean(d) /\ Restored(d)
      BY <2>1, <2>3, <2>4 DEF Clean, Restored
    <3>2. gz[d] = "whole" /\ hot[d] = <<>>
      BY <3>1 DEF MirrorInv
    <3>3. hot[d] \in Seq(Signals \X BOOLEAN) /\ packed[d] \in Seq(Signals \X BOOLEAN)
      BY <1>g
    <3>4. n = Len(packed[d])
      <4>1. Len(packed[d]) \in Nat /\ n \in 0..Len(packed[d])
        BY <2>4, <3>3, LenProperties
      <4>2. ~(n < Len(packed[d]))
        BY <2>2, <2>4
      <4>3. QED
        BY <4>1, <4>2
    <3>5. SubSeq(packed[d], 1, n) \o SubSeq(hot[d], n + 1, Len(hot[d])) = packed[d]
      <4>1. n \in 0..Len(packed[d])
        BY <2>4
      <4>2. ASSUME NEW f \in Seq(Signals \X BOOLEAN), NEW g \in Seq(Signals \X BOOLEAN), g = <<>>,
                   NEW k \in 0..Len(f), k = Len(f)
            PROVE  SubSeq(f, 1, k) \o SubSeq(g, k + 1, Len(g)) = f
        <5>1. k = Len(f) /\ g = <<>> => SubSeq(f, 1, k) \o SubSeq(g, k + 1, Len(g)) = f
          BY Overwritten, Zenon
        <5>2. QED
          BY <4>2, <5>1, Zenon
      <4>3. QED
        BY <3>2, <3>3, <3>4, <4>1, <4>2, Zenon
    <3>6. d \in exists => hot'[d] = SubSeq(packed[d], 1, n) \o SubSeq(hot[d], n + 1, Len(hot[d]))
      BY <2>2, <2>4, <1>g
    <3>7. QED
      BY <3>1, <3>2, <3>5, <3>6
  <2>5. ASSUME NEW d \in Days, Clean(d)'
        PROVE  /\ Clean(d) /\ Content(d)' = Content(d)
               /\ ~Restored(d)'
               /\ gz'[d] = "whole" /\ d \in exists' => hot'[d] = packed'[d]
    <3>1. Clean(d) /\ ~Restored(d)' /\ d \notin dirty' \cup Expired
      BY <2>1, <2>3, <2>5 DEF Clean, Restored
    <3>2. CASE d = rday
      <4>1. gz[d] = "whole" /\ (d \in exists => hot'[d] = packed[d])
        BY <2>4, <3>1, <3>2
      <4>2. QED
        BY <2>1, <3>1, <4>1 DEF Content
    <3>3. CASE d # rday
      BY <2>1, <2>3, <3>1, <3>3 DEF Content, MirrorInv, Restored
    <3>4. QED
      BY <3>2, <3>3
  <2>6. QED
    BY <2>3, <2>5 DEF MirrorInv, Holds
<1>5. QED
  BY <1>1, <1>2, <1>3, <1>4

\* A step of the writer, or a crash: at most one line is appended, and a day
\* that is packed, or was being restored, is not clean any more.
Quiet ==
  /\ UNCHANGED <<gz, packed>> /\ dirty \subseteq dirty'
  /\ \A d \in Days : Clean(d)' => (Restored(d)' <=> Restored(d))
                               /\ (gz[d] = "whole" => (d \in exists' <=> d \in exists))

Adds(s, b) ==
  \A d \in Days : Clean(d)' =>
    Clean(d) /\ Content(d)' = (IF d = DayOf(s) THEN Append(Content(d), <<s, b>>) ELSE Content(d))

LEMMA QuietHolds == ASSUME MirrorInv, Quiet, UNCHANGED hot PROVE MirrorInv' /\ Holds
<1>1. \A d \in Days : Clean(d)' => Clean(d)
  BY DEF Quiet, Clean
<1>2. QED
  BY <1>1 DEF MirrorInv, Holds, Quiet, Content

LEMMA AppendsAdds ==
  ASSUME PackInv, HandleInv, MirrorInv, NEW s \in Signals, NEW b \in BOOLEAN,
         Quiet, Appended(DayOf(s), <<s, b>>), gz[DayOf(s)] = "whole" => DayOf(s) \in dirty'
  PROVE  MirrorInv' /\ Adds(s, b)
<1> DEFINE e == DayOf(s)
<1>e. TypeOK /\ e \in Days
  BY Calendar DEF PackInv
<1>1. \A d \in Days : Clean(d)' => Clean(d)
  BY DEF Quiet, Clean
<1>2. /\ \A d \in Days \ {e} : hot'[d] = hot[d]
      /\ handle[e] # "stale" => hot'[e] = Append(hot[e], <<s, b>>)
  BY <1>e, AppendedTypes
<1>3. ASSUME Clean(e)' PROVE gz[e] # "whole" /\ hot'[e] = Append(hot[e], <<s, b>>) /\ ~Restored(e)'
  <2>1. gz[e] # "whole" /\ Clean(e)
    BY <1>1, <1>3, <1>e DEF Clean
  <2>2. handle[e] # "stale"
    BY <2>1, <1>e DEF HandleInv, Clean
  <2>3. ~Restored(e)
    BY <2>1, <1>e DEF MirrorInv
  <2>4. QED
    BY <2>1, <2>2, <2>3, <1>2, <1>3, <1>e DEF Quiet
<1>4. UNCHANGED <<gz, packed>>
  BY DEF Quiet
<1> HIDE DEF e
<1>5. ASSUME NEW d \in Days, Clean(d)'
      PROVE  /\ Clean(d) /\ Content(d)' = (IF d = e THEN Append(Content(d), <<s, b>>) ELSE Content(d))
             /\ Restored(d)' => gz'[d] = "whole" /\ hot'[d] = <<>>
             /\ gz'[d] = "whole" /\ d \in exists' /\ ~Restored(d)' => hot'[d] = packed'[d]
  <2>1. CASE d = e
    BY <2>1, <1>1, <1>3, <1>4, <1>5 DEF Content
  <2>2. CASE d # e
    BY <2>2, <1>1, <1>2, <1>4, <1>5 DEF Content, Quiet, MirrorInv
  <2>3. QED
    BY <2>1, <2>2
<1>6. MirrorInv'
  BY <1>5 DEF MirrorInv
<1>7. Adds(s, b)
  BY <1>5 DEF Adds, e
<1>8. QED
  BY <1>6, <1>7

\* What a step does to the contents, the accepted signals and the tears.
Effect ==
  \/ Holds /\ UNCHANGED <<stored, tears>>
  \/ \E s \in Signals : Adds(s, TRUE) /\ stored' = stored \cup {s} /\ UNCHANGED tears
  \/ \E s \in Signals : Adds(s, FALSE) /\ UNCHANGED stored /\ tears' = tears + 1

LEMMA WriteEffect ==
  ASSUME PackInv, HandleInv, MirrorInv, WriteBegin \/ WriteSignal \/ WriteFails \/ Close \/ UNCHANGED vars
  PROVE  MirrorInv' /\ Effect
<1>e. TypeOK
  BY DEF PackInv
<1>u. UNCHANGED <<gz, packed, rpc, rday>>
  BY DEF WriteBegin, WriteSignal, WriteFails, Close, vars, gzVars, restVars
<1>1. ASSUME UNCHANGED <<hot, exists, dirty, stored, tears>> PROVE MirrorInv' /\ Effect
  <2>1. Quiet
    BY <1>1, <1>u DEF Quiet, Restored, Clean
  <2>2. QED
    BY <2>1, <1>1, QuietHolds DEF Effect
<1>2. ASSUME NEW d \in Days, OpenLocked(d) PROVE Quiet /\ (gz[d] = "whole" => d \in dirty')
  <2>1. /\ dirty \subseteq dirty' /\ (gz[d] = "whole" => d \in dirty')
        /\ \A e \in Days \ {d} : e \in exists' <=> e \in exists
    BY <1>2, <1>e, OpenTypes
  <2>2. QED
    BY <2>1, <1>u DEF Quiet, Restored, Clean
<1>3. CASE WriteBegin \/ Close \/ UNCHANGED vars
  BY <1>1, <1>3 DEF WriteBegin, Close, vars, hotVars
<1>4. CASE WriteSignal
  <2> DEFINE s == Head(batch)
  <2>1. /\ batch # <<>> /\ OpenLocked(DayOf(s)) /\ Appended(DayOf(s), <<s, TRUE>>)
        /\ stored' = stored \cup {s} /\ UNCHANGED tears
    BY <1>4 DEF WriteSignal
  <2>2. s \in Signals /\ DayOf(s) \in Days
    BY <2>1, <1>e, NextBatch
  <2> HIDE DEF s
  <2>3. Quiet /\ (gz[DayOf(s)] = "whole" => DayOf(s) \in dirty')
    BY <2>1, <2>2, <1>2
  <2>4. MirrorInv' /\ Adds(s, TRUE)
    BY <2>1, <2>2, <2>3, AppendsAdds
  <2>5. QED
    BY <2>1, <2>2, <2>4 DEF Effect
<1>5. CASE WriteFails
  <2> DEFINE s == Head(batch)
  <2>1. /\ batch # <<>> /\ UNCHANGED stored
        /\ \/ UNCHANGED <<hotVars, tears, dirty>>
           \/ OpenLocked(DayOf(s)) /\ UNCHANGED <<hot, tears>>
           \/ tears' = tears + 1 /\ OpenLocked(DayOf(s)) /\ Appended(DayOf(s), <<s, FALSE>>)
    BY <1>5 DEF WriteFails
  <2>2. s \in Signals /\ DayOf(s) \in Days
    BY <2>1, <1>e, NextBatch
  <2> HIDE DEF s
  <2>3. CASE UNCHANGED <<hotVars, tears, dirty>>
    BY <2>1, <2>3, <1>1 DEF hotVars
  <2>4. CASE OpenLocked(DayOf(s)) /\ UNCHANGED <<hot, tears>>
    <3>1. Quiet
      BY <2>2, <2>4, <1>2
    <3>2. QED
      BY <2>1, <2>4, <3>1, QuietHolds DEF Effect
  <2>5. CASE tears' = tears + 1 /\ OpenLocked(DayOf(s)) /\ Appended(DayOf(s), <<s, FALSE>>)
    <3>1. Quiet /\ (gz[DayOf(s)] = "whole" => DayOf(s) \in dirty')
      BY <2>2, <2>5, <1>2
    <3>2. MirrorInv' /\ Adds(s, FALSE)
      BY <2>2, <2>5, <3>1, AppendsAdds
    <3>3. QED
      BY <2>1, <2>2, <2>5, <3>2 DEF Effect
  <2>6. QED
    BY <2>1, <2>3, <2>4, <2>5
<1>6. QED
  BY <1>3, <1>4, <1>5

\* A crash ends a restore: the day it restored is not clean any more.
LEMMA CrashEffect == ASSUME PackInv, HandleInv, MirrorInv, Crash PROVE MirrorInv' /\ Effect
<1> DEFINE s == Head(batch)
           restored == IF rpc = "copy" THEN {rday} ELSE {}
<1>e. TypeOK
  BY DEF PackInv
<1>u. UNCHANGED <<gz, packed, stored>> /\ rpc' = "idle"
  BY DEF Crash, gzVars
<1>r. ASSUME dirty \cup restored \subseteq dirty' PROVE \A d \in Days : Clean(d)' => ~Restored(d)' /\ ~Restored(d)
  BY <1>r, <1>u DEF Clean, Restored
<1>1. CASE UNCHANGED <<exists, hot, tears>> /\ dirty' = dirty \cup restored
  <2>1. Quiet
    BY <1>1, <1>u, <1>r DEF Quiet
  <2>2. QED
    BY <1>1, <1>u, <2>1, QuietHolds DEF Effect
<1>2. CASE /\ batch # <<>> /\ tears < MaxTears
           /\ exists' = IF handle[DayOf(s)] = "none" THEN exists \cup {DayOf(s)} ELSE exists
           /\ Appended(DayOf(s), <<s, FALSE>>)
           /\ dirty' = dirty \cup restored \cup (IF gz[DayOf(s)] = "whole" THEN {DayOf(s)} ELSE {})
           /\ tears' = tears + 1
  <2>1. s \in Signals /\ DayOf(s) \in Days
    BY <1>2, <1>e, NextBatch
  <2>2. /\ dirty \cup restored \subseteq dirty' /\ (gz[DayOf(s)] = "whole" => DayOf(s) \in dirty')
        /\ \A d \in Days \ {DayOf(s)} : d \in exists' <=> d \in exists
    BY <1>2
  <2> HIDE DEF s, restored
  <2>3. Quiet
    BY <2>1, <2>2, <1>u, <1>r DEF Quiet, Clean
  <2>4. MirrorInv' /\ Adds(s, FALSE)
    BY <1>2, <2>1, <2>2, <2>3, AppendsAdds
  <2>5. QED
    BY <1>2, <1>u, <2>1, <2>4 DEF Effect
<1>3. QED
  BY <1>1, <1>2 DEF Crash

LEMMA EffectLoss ==
  ASSUME TypeOK, TypeOK', StoredInv, TornInv, Effect
  PROVE  StoredInv' /\ TornInv'
<1>c. \A d \in Days : Content(d) \in Seq(Signals \X BOOLEAN)
  BY DEF TypeOK, Content, Files
<1>t. tears \in Nat /\ stored \subseteq Signals /\ (IsFiniteSet(Torn) => Cardinality(Torn) \in Nat)
  <2>1. tears \in Nat /\ stored \subseteq Signals
    BY FileStoreAssumption DEF TypeOK
  <2>2. IsFiniteSet(Torn) => Cardinality(Torn) \in Nat
    BY FS_CardinalityType
  <2>3. QED
    BY <2>1, <2>2
<1>n. ASSUME Torn' \subseteq Torn, UNCHANGED tears PROVE TornInv'
  <2>1. IsFiniteSet(Torn) /\ Cardinality(Torn) <= tears
    BY DEF TornInv
  <2>2. IsFiniteSet(Torn') /\ Cardinality(Torn') <= Cardinality(Torn)
    BY <1>n, <2>1, FS_Subset
  <2>3. Cardinality(Torn') \in Nat
    BY <2>2, FS_CardinalityType
  <2>4. QED
    BY <1>n, <1>t, <2>1, <2>2, <2>3 DEF TornInv
<1>1. CASE Holds /\ UNCHANGED <<stored, tears>>
  <2>1. StoredInv'
    BY <1>1, <1>t, Calendar DEF Holds, StoredInv
  <2>2. Torn' \subseteq Torn
    BY <1>1 DEF Holds, Torn
  <2>3. QED
    BY <1>1, <2>1, <2>2, <1>n
<1>2. ASSUME NEW s \in Signals, NEW b \in BOOLEAN, Adds(s, b)
      PROVE  /\ stored' \subseteq stored \cup (IF b THEN {s} ELSE {}) => StoredInv'
             /\ Torn' \subseteq Torn \cup (IF b THEN {} ELSE {<<DayOf(s), Len(Content(DayOf(s))) + 1>>})
  <2> DEFINE e == DayOf(s)
             n == Len(Content(e))
  <2>1. e \in Days /\ Content(e) \in Seq(Signals \X BOOLEAN) /\ <<s, b>> \in Signals \X BOOLEAN /\ n \in Nat
    BY <1>c, Calendar, LenProperties
  <2>2. /\ Append(Content(e), <<s, b>>) \in Seq(Signals \X BOOLEAN)
        /\ Len(Append(Content(e), <<s, b>>)) = n + 1
        /\ \A i \in 1..n : Append(Content(e), <<s, b>>)[i] = Content(e)[i]
        /\ Append(Content(e), <<s, b>>)[n + 1] = <<s, b>>
    BY <2>1, AppendProperties
  <2>3. DOMAIN Content(e) = 1..n /\ DOMAIN Append(Content(e), <<s, b>>) = 1..(n + 1)
    BY <2>1, <2>2, LenProperties
  <2>4. ASSUME stored' \subseteq stored \cup (IF b THEN {s} ELSE {}), NEW r \in stored', Clean(DayOf(r))'
        PROVE  \E j \in DOMAIN Content(DayOf(r))' : Content(DayOf(r))'[j] = <<r, TRUE>>
    <3>1. r \in Signals /\ DayOf(r) \in Days
      BY <2>4, <1>t, Calendar
    <3>2. /\ Clean(DayOf(r))
          /\ Content(DayOf(r))' = (IF DayOf(r) = e THEN Append(Content(DayOf(r)), <<s, b>>) ELSE Content(DayOf(r)))
      BY <1>2, <2>4, <3>1 DEF Adds
    <3>3. CASE r \in stored
      <4>1. PICK j \in DOMAIN Content(DayOf(r)) : Content(DayOf(r))[j] = <<r, TRUE>>
        BY <3>2, <3>3 DEF StoredInv
      <4>2. CASE DayOf(r) = e
        <5>1. Content(DayOf(r)) = Content(e)
          BY <4>2
        <5>2. j \in 1..n /\ Content(e)[j] = <<r, TRUE>>
          BY <2>3, <4>1, <5>1, Zenon
        <5>3. j \in 1..(n + 1)
          BY <2>1, <5>2
        <5>4. Append(Content(e), <<s, b>>)[j] = <<r, TRUE>>
          BY <2>2, <5>2
        <5>5. QED
          BY <2>3, <3>2, <4>2, <5>3, <5>4
      <4>3. CASE DayOf(r) # e
        BY <3>2, <4>1, <4>3
      <4>4. QED
        BY <4>2, <4>3
    <3>4. CASE b /\ r = s
      <4>1. n + 1 \in 1..(n + 1)
        BY <2>1
      <4>2. <<s, b>> = <<r, TRUE>>
        BY <3>4, Zenon
      <4>3. QED
        BY <2>2, <2>3, <3>2, <3>4, <4>1, <4>2
    <3>5. QED
      BY <2>4, <3>3, <3>4
  <2>5. ASSUME NEW d \in Days, Clean(d)', NEW k \in DOMAIN Content(d)', ~Content(d)'[k][2]
        PROVE  <<d, k>> \in Torn \cup (IF b THEN {} ELSE {<<e, n + 1>>})
    <3>1. Clean(d) /\ Content(d)' = (IF d = e THEN Append(Content(d), <<s, b>>) ELSE Content(d))
      BY <1>2, <2>5 DEF Adds
    <3>2. CASE d # e
      BY <2>5, <3>1, <3>2 DEF Torn
    <3>3. CASE d = e /\ k = n + 1
      BY <2>2, <2>5, <3>1, <3>3
    <3>4. CASE d = e /\ k \in 1..n
      BY <2>2, <2>3, <2>5, <3>1, <3>4 DEF Torn
    <3>5. QED
      BY <2>1, <2>3, <2>5, <3>1, <3>2, <3>3, <3>4
  <2>6. Torn' \subseteq Torn \cup (IF b THEN {} ELSE {<<e, n + 1>>})
    BY <2>5 DEF Torn
  <2>7. QED
    BY <2>4, <2>6 DEF StoredInv
<1>3. ASSUME NEW s \in Signals, Adds(s, TRUE), stored' = stored \cup {s}, UNCHANGED tears
      PROVE  StoredInv' /\ TornInv'
  <2>1. StoredInv' /\ Torn' \subseteq Torn
    BY <1>2, <1>3
  <2>2. QED
    BY <1>3, <2>1, <1>n
<1>4. ASSUME NEW s \in Signals, Adds(s, FALSE), UNCHANGED stored, tears' = tears + 1
      PROVE  StoredInv' /\ TornInv'
  <2> DEFINE x == <<DayOf(s), Len(Content(DayOf(s))) + 1>>
  <2>1. StoredInv' /\ Torn' \subseteq Torn \cup {x}
    BY <1>2, <1>4
  <2> HIDE DEF x
  <2>2. /\ IsFiniteSet(Torn \cup {x}) /\ Cardinality(Torn \cup {x}) \in Nat
        /\ Cardinality(Torn \cup {x}) <= tears + 1
    <3>1. IsFiniteSet(Torn) /\ Cardinality(Torn) <= tears /\ Cardinality(Torn) \in Nat
      BY <1>t DEF TornInv
    <3>2. /\ IsFiniteSet(Torn \cup {x})
          /\ Cardinality(Torn \cup {x}) = IF x \in Torn THEN Cardinality(Torn) ELSE Cardinality(Torn) + 1
      BY <3>1, FS_AddElement, Zenon
    <3>3. QED
      BY <3>1, <3>2, <1>t
  <2>3. IsFiniteSet(Torn') /\ Cardinality(Torn') <= Cardinality(Torn \cup {x}) /\ Cardinality(Torn') \in Nat
    BY <2>1, <2>2, FS_Subset, FS_CardinalityType
  <2>4. QED
    BY <1>4, <2>1, <2>2, <2>3, <1>t DEF TornInv
<1>5. QED
  BY <1>1, <1>3, <1>4 DEF Effect

LEMMA LossInit == Init => LossInv
<1> SUFFICES ASSUME Init PROVE LossInv
  OBVIOUS
<1>1. PackInv
  BY PackInit
<1>2. HandleInv /\ MirrorInv /\ StoredInv
  BY DEF Init, HandleInv, MirrorInv, StoredInv, Restored
<1>3. Torn = {}
  <2>1. \A d \in Days : Content(d) = <<>> /\ DOMAIN Content(d) = {}
    BY EmptySeq DEF Init, Content
  <2>2. QED
    BY <2>1 DEF Torn
<1>4. TornInv
  BY <1>3, FS_EmptySet DEF Init, TornInv
<1>5. QED
  BY <1>1, <1>2, <1>4 DEF LossInv

LEMMA LossStep == LossInv /\ [Next]_vars => LossInv'
<1> SUFFICES ASSUME LossInv, [Next]_vars PROVE LossInv'
  OBVIOUS
<1>1. PackInv' /\ HandleInv' /\ TypeOK /\ TypeOK'
  BY PackStep, HandleStep DEF LossInv, PackInv
<1>2. CASE WriteBegin \/ WriteSignal \/ WriteFails \/ Close \/ UNCHANGED vars
  BY <1>1, <1>2, WriteEffect, EffectLoss DEF LossInv
<1>3. CASE Archive
  <2>1. UNCHANGED <<stored, tears>>
    BY <1>3 DEF Archive, ArchiveStart, ArchiveList, ArchivePick, ArchiveCopy, ArchiveCopyFails, ArchiveMeta,
         ArchiveRemove, PruneStart, Prune, ArchiveReturn
  <2>2. QED
    BY <1>1, <1>3, <2>1, ArchiveHolds, EffectLoss DEF LossInv, Effect
<1>4. CASE \/ \E d \in Days, overwrite \in BOOLEAN : RestoreStart(d, overwrite)
           \/ RestoreOpen \/ RestoreOpenFails \/ RestoreCopy
  <2>1. UNCHANGED <<stored, tears>>
    BY <1>4 DEF RestoreStart, RestoreOpen, RestoreOpenFails, RestoreCopy
  <2>2. QED
    BY <1>1, <1>4, <2>1, RestoreHolds, EffectLoss DEF LossInv, Effect
<1>5. CASE Crash
  BY <1>1, <1>5, CrashEffect, EffectLoss DEF LossInv
<1>6. QED
  BY <1>2, <1>3, <1>4, <1>5 DEF Next

\* Each signal that is lost in a clean day has a torn write of its own right
\* before it.
LEMMA LossInvBounds == LossInv => LossBounded
<1> SUFFICES ASSUME LossInv PROVE LossBounded
  OBVIOUS
<1> DEFINE lost == {s \in stored : LET d == DayOf(s) IN d \notin dirty \cup Expired /\ s \notin Found(d)}
           At(s, j) == j \in DOMAIN Content(DayOf(s)) /\ Content(DayOf(s))[j] = <<s, TRUE>>
           where == [s \in lost |-> CHOOSE j \in Nat : At(s, j)]
           f == [s \in lost |-> <<DayOf(s), where[s] - 1>>]
<1>e. TypeOK /\ StoredInv /\ TornInv
  BY DEF LossInv, PackInv
<1>c. \A d \in Days : Content(d) \in Seq(Signals \X BOOLEAN) /\ DOMAIN Content(d) \subseteq Nat \ {0}
  <2>1. \A d \in Days : Content(d) \in Seq(Signals \X BOOLEAN)
    BY <1>e DEF TypeOK, Content, Files
  <2>2. QED
    BY <2>1, LenProperties
<1>1. ASSUME NEW s \in lost
      PROVE /\ DayOf(s) \in Days /\ Clean(DayOf(s)) /\ s \notin Found(DayOf(s))
            /\ where[s] \in Nat /\ At(s, where[s])
  <2>1. s \in stored /\ DayOf(s) \in Days /\ Clean(DayOf(s)) /\ s \notin Found(DayOf(s))
    BY <1>e, Calendar DEF TypeOK, Clean
  <2>2. \E j \in Nat : At(s, j)
    BY <2>1, <1>e, <1>c DEF StoredInv
  <2> HIDE DEF lost, At
  <2>3. where[s] \in Nat /\ At(s, where[s])
    BY <2>2
  <2>4. QED
    BY <2>1, <2>3
<1>2. ASSUME NEW s \in lost PROVE f[s] \in Torn
  <2> DEFINE d == DayOf(s)
             j == where[s]
  <2>1. d \in Days /\ Clean(d) /\ j \in DOMAIN Content(d) /\ Content(d)[j] = <<s, TRUE>>
    BY <1>1
  <2>2. s \notin Readable(Content(d))
    BY <1>1 DEF Found, Content
  <2> HIDE DEF d, j, lost
  <2>3. Content(d)[j][1] = s /\ Content(d)[j][2] = TRUE
    BY <2>1
  <2>4. j > 1 /\ ~Content(d)[j - 1][2]
    BY <2>1, <2>2, <2>3 DEF Readable
  <2>5. j - 1 \in DOMAIN Content(d)
    <3>1. DOMAIN Content(d) = 1..Len(Content(d)) /\ Len(Content(d)) \in Nat
      BY <2>1, <1>c, LenProperties
    <3>2. QED
      BY <2>1, <2>4, <3>1
  <2>6. <<d, j - 1>> \in Torn
    BY <2>1, <2>4, <2>5 DEF Torn
  <2>7. QED
    BY <2>6 DEF d, j
<1>3. \A a, b \in lost : f[a] = f[b] => a = b
  <2> SUFFICES ASSUME NEW a \in lost, NEW b \in lost, f[a] = f[b] PROVE a = b
    OBVIOUS
  <2>1. where[a] \in Nat /\ where[b] \in Nat
    BY <1>1
  <2>2. Content(DayOf(a))[where[a]] = <<a, TRUE>> /\ Content(DayOf(b))[where[b]] = <<b, TRUE>>
    BY <1>1
  <2> HIDE DEF where, lost
  <2>3. DayOf(a) = DayOf(b) /\ where[a] - 1 = where[b] - 1
    OBVIOUS
  <2>4. where[a] = where[b]
    BY <2>1, <2>3
  <2>5. QED
    BY <2>2, <2>3, <2>4
<1> HIDE DEF f, lost
<1>4. f \in [lost -> Torn]
  BY <1>2 DEF f
<1>5. Cardinality(lost) <= Cardinality(Torn) /\ IsFiniteSet(lost)
  BY <1>3, <1>4, <1>e, Fun_IsInj, FS_Injection DEF TornInv
<1>6. Cardinality(lost) <= tears
  <2>1. Cardinality(lost) \in Nat /\ Cardinality(Torn) \in Nat /\ tears \in Nat
    BY <1>5, <1>e, FS_CardinalityType, FileStoreAssumption DEF TypeOK, TornInv
  <2>2. QED
    BY <2>1, <1>5, <1>e DEF TornInv
<1>7. QED
  BY <1>6 DEF lost, LossBounded

\* A day nothing was written to, and no restore or archive touched, at the
\* wrong moment, loses one accepted signal at most for each write that was cut
\* short, whatever is archived, restored, fails or crashes in between. A clean
\* day is in its archive or in its file, the file of a packed one mirrors the
\* archive, and what is not read back stands right after a cut line.
THEOREM FileLoss == Spec => []LossBounded
BY LossInit, LossStep, LossInvBounds, PTL DEF Spec

=============================================================================
