------------------------------ MODULE FileStore ------------------------------
(***************************************************************************)
(* The filesystem output: hot files, one for each day, to which batches    *)
(* are appended under a mutex; Archive, which packs the files of old days  *)
(* and removes them, and deletes archives past their retention, without    *)
(* the mutex; Restore, which unpacks an archive into the hot directory; a  *)
(* process that is killed at any step and started again.                   *)
(*                                                                         *)
(* One kind of signals: kinds have directories of their own. Days are      *)
(* 1..Today. A file is the sequence of what was written to it, <<s, TRUE>> *)
(* for a whole line and <<s, FALSE>> for a write that was cut short, whose *)
(* line then runs into the next one.                                       *)
(***************************************************************************)
EXTENDS Integers, Sequences, FiniteSets, FiniteSetsExt

CONSTANTS
  Signals,
  Load,       \* the batches the dispatcher writes, in order
  Today,
  Stamp,      \* Stamp[s]: the day of s, or 0 when s has no time
  Old,        \* the days before the `before' of Archive
  Expired,    \* the days whose archives are past the retention
  MaxTears, MaxCrashes, MaxArchives, MaxRestores   \* bounds

Days == 1..Today

ASSUME FileStoreAssumption ==
  /\ Load \in Seq(Seq(Signals))
  /\ Today \in Nat \ {0}
  /\ Stamp \in [Signals -> 0..Today]
  /\ Expired \subseteq Old /\ Old \subseteq Days
  /\ {MaxTears, MaxCrashes, MaxArchives, MaxRestores} \subseteq Nat

VARIABLES
  todo,      \* batches the dispatcher has still to write
  batch,     \* the rest of the batch being written; mu is held meanwhile
  exists,    \* days with a hot file
  hot,       \* hot[d]: what is in it
  handle,    \* Output.files: none, open, stale (the file was removed since)
  gz,        \* gz[d]: none, partial, whole
  packed,    \* packed[d]: what the archive of d holds
  meta,      \* days with a readable .meta.json
  apc,       \* Archive: idle, list, pick, copy, meta, remove, prune
  adays,     \* the files Archive has still to visit
  rpc,       \* Restore: idle, open, copy
  rday,      \* the day it restores, 0 when idle
  stored,    \* history: signals whose write succeeded
  tears,     \* history: writes cut short
  dirty,     \* history: days something else touched at the wrong moment
  crashes, archives, restores   \* counters for the bounds

hotVars == <<exists, hot, handle>>
gzVars == <<gz, packed, meta>>
archVars == <<apc, adays, archives>>
restVars == <<rpc, rday, restores>>
vars == <<todo, batch, hotVars, gzVars, archVars, restVars, stored, tears, dirty, crashes>>

Files == [Days -> Seq(Signals \X BOOLEAN)]

TypeOK ==
  /\ todo \in Seq(Seq(Signals)) /\ batch \in Seq(Signals)
  /\ exists \subseteq Days /\ hot \in Files /\ packed \in Files
  /\ \A d \in Days \ exists : hot[d] = <<>> /\ handle[d] # "open"
  /\ handle \in [Days -> {"none", "open", "stale"}]
  /\ gz \in [Days -> {"none", "partial", "whole"}]
  /\ meta \subseteq Days
  /\ apc \in {"idle", "list", "pick", "copy", "meta", "remove", "prune"}
  /\ adays \subseteq Old
  /\ rpc \in {"idle", "open", "copy"} /\ rday \in 0..Today
  /\ stored \subseteq Signals /\ tears \in 0..MaxTears /\ dirty \subseteq Days
  /\ crashes \in 0..MaxCrashes /\ archives \in 0..MaxArchives /\ restores \in 0..MaxRestores

Init ==
  /\ todo = Load /\ batch = <<>>
  /\ exists = {} /\ hot = [d \in Days |-> <<>>]
  /\ handle = [d \in Days |-> "none"]
  /\ gz = [d \in Days |-> "none"] /\ packed = [d \in Days |-> <<>>] /\ meta = {}
  /\ apc = "idle" /\ adays = {} /\ archives = 0
  /\ rpc = "idle" /\ rday = 0 /\ restores = 0
  /\ stored = {} /\ tears = 0 /\ dirty = {} /\ crashes = 0

-----------------------------------------------------------------------------
(* Write, Close *)

DayOf(s) == IF Stamp[s] = 0 THEN Today ELSE Stamp[s]

\* The file Archive works on: it visits them in the order of their names.
Current == Min(adays)

WriteBegin ==
  /\ batch = <<>> /\ todo # <<>>
  /\ batch' = Head(todo) /\ todo' = Tail(todo)
  /\ UNCHANGED <<hotVars, gzVars, archVars, restVars, stored, tears, dirty, crashes>>

\* The file of d is open for appending, and created if need be. A day is
\* dirty once a file is written beside its archive, or even only created.
OpenLocked(d) ==
  /\ handle' = [handle EXCEPT ![d] = IF @ = "none" THEN "open" ELSE @]
  /\ exists' = IF handle[d] = "none" THEN exists \cup {d} ELSE exists
  /\ dirty' = IF gz[d] = "whole" THEN dirty \cup {d} ELSE dirty

\* Mutant: the file is emptied when it is opened.
AppendedTruncating(d, chunk) ==
  hot' = IF handle[d] = "stale" THEN hot
         ELSE [hot EXCEPT ![d] = IF handle[d] = "none" THEN <<chunk>> ELSE Append(@, chunk)]

\* What is written through a stale handle is in no directory any more.
Appended(d, chunk) ==
  hot' = IF handle[d] = "stale" THEN hot ELSE [hot EXCEPT ![d] = Append(@, chunk)]

WriteSignal ==
  /\ batch # <<>>
  /\ LET s == Head(batch)
         d == DayOf(s) IN
     /\ OpenLocked(d) /\ Appended(d, <<s, TRUE>>)
     /\ stored' = stored \cup {s}
  /\ batch' = Tail(batch)
  /\ UNCHANGED <<todo, gzVars, archVars, restVars, tears, crashes>>

\* The file cannot be opened, or the disk refuses the write at once or
\* half-way: the rest of the batch is given up.
WriteFails ==
  /\ batch # <<>>
  /\ LET d == DayOf(Head(batch)) IN
       \/ UNCHANGED <<hotVars, tears, dirty>>
       \/ OpenLocked(d) /\ UNCHANGED <<hot, tears>>
       \/ /\ tears < MaxTears /\ tears' = tears + 1
          /\ OpenLocked(d) /\ Appended(d, <<Head(batch), FALSE>>)
  /\ batch' = <<>>
  /\ UNCHANGED <<todo, gzVars, archVars, restVars, stored, crashes>>

NoHandles == handle' = [d \in Days |-> "none"]

\* Close, which app.Stop may call while batches are still to come: they open
\* the files anew.
Close ==
  /\ batch = <<>>
  /\ NoHandles
  /\ UNCHANGED <<todo, batch, exists, hot, gzVars, archVars, restVars, stored, tears, dirty, crashes>>

-----------------------------------------------------------------------------
(* Archive *)

ArchiveStart ==
  /\ apc = "idle" /\ batch = <<>> /\ archives < MaxArchives
  /\ NoHandles
  /\ apc' = "list" /\ archives' = archives + 1
  /\ UNCHANGED <<todo, batch, exists, hot, gzVars, adays, restVars, stored, tears, dirty, crashes>>

ArchiveList ==
  /\ apc = "list"
  /\ adays' = Old \cap exists /\ apc' = "pick"
  /\ UNCHANGED <<todo, batch, hotVars, gzVars, archives, restVars, stored, tears, dirty, crashes>>

\* gzipFile creates, that is, empties, the archive first.
ArchivePick ==
  /\ apc = "pick" /\ adays # {}
  /\ gz' = [gz EXCEPT ![Current] = "partial"]
  /\ packed' = [packed EXCEPT ![Current] = <<>>]
  /\ dirty' = IF Current = rday THEN dirty \cup {Current} ELSE dirty
  /\ apc' = "copy"
  /\ UNCHANGED <<todo, batch, hotVars, meta, adays, archives, restVars, stored, tears, crashes>>

ArchiveCopy ==
  /\ apc = "copy"
  /\ gz' = [gz EXCEPT ![Current] = "whole"]
  /\ packed' = [packed EXCEPT ![Current] = hot[Current]]
  /\ apc' = "meta"
  /\ UNCHANGED <<todo, batch, hotVars, meta, adays, archives, restVars, stored, tears, dirty, crashes>>

\* Mutant: an archive that could not be written does not stop Archive.
ArchiveCopyFailsGoesOn ==
  /\ apc = "copy"
  /\ apc' = "meta"
  /\ UNCHANGED <<todo, batch, hotVars, gzVars, adays, archives, restVars, stored, tears, dirty, crashes>>

\* The archive cannot be created or written: Archive returns and leaves what
\* there is.
ArchiveCopyFails ==
  /\ apc = "copy" \/ (apc = "pick" /\ adays # {})
  /\ apc' = "idle" /\ adays' = {}
  /\ UNCHANGED <<todo, batch, hotVars, gzVars, archives, restVars, stored, tears, dirty, crashes>>

\* Errors of writing the description are ignored.
ArchiveMeta ==
  /\ apc = "meta"
  /\ meta' \in {meta \cup {Current}, meta \ {Current}}
  /\ apc' = "remove"
  /\ UNCHANGED <<todo, batch, hotVars, gz, packed, adays, archives, restVars, stored, tears, dirty, crashes>>

ArchiveRemove ==
  /\ apc = "remove"
  /\ exists' = exists \ {Current}
  /\ hot' = [hot EXCEPT ![Current] = <<>>]
  /\ handle' = [handle EXCEPT ![Current] = IF @ = "open" THEN "stale" ELSE @]
  /\ adays' = adays \ {Current} /\ apc' = "pick"
  /\ UNCHANGED <<todo, batch, gzVars, archives, restVars, stored, tears, dirty, crashes>>

\* pruneArchives: for each listed archive past its retention, first the
\* archive and then its description.
PruneStart ==
  /\ apc = "pick" /\ adays = {}
  /\ apc' = "prune"
  /\ UNCHANGED <<todo, batch, hotVars, gzVars, adays, archives, restVars, stored, tears, dirty, crashes>>

Prune(d) ==
  /\ apc = "prune" /\ d \in meta \cap Expired
  /\ IF gz[d] # "none"
       THEN /\ gz' = [gz EXCEPT ![d] = "none"] /\ packed' = [packed EXCEPT ![d] = <<>>]
            /\ UNCHANGED meta
       ELSE meta' = meta \ {d} /\ UNCHANGED <<gz, packed>>
  /\ UNCHANGED <<todo, batch, hotVars, archVars, restVars, stored, tears, dirty, crashes>>

ArchiveReturn ==
  /\ apc = "prune" /\ meta \cap Expired = {}
  /\ apc' = "idle"
  /\ UNCHANGED <<todo, batch, hotVars, gzVars, adays, archives, restVars, stored, tears, dirty, crashes>>

Archive ==
  \/ ArchiveStart \/ ArchiveList \/ ArchivePick \/ ArchiveCopy \/ ArchiveCopyFails
  \/ ArchiveMeta \/ ArchiveRemove \/ PruneStart \/ (\E d \in Expired : Prune(d)) \/ ArchiveReturn

-----------------------------------------------------------------------------
(* Restore, as /api/archives/restore calls it: into the hot directory *)

\* An archive that is not listed, and a hot file that is there when the
\* request does not overwrite, end it before it changes anything.
RestoreStart(d, overwrite) ==
  /\ rpc = "idle" /\ restores < MaxRestores
  /\ d \in meta
  /\ d \in exists => overwrite
  /\ rpc' = "open" /\ rday' = d /\ restores' = restores + 1
  /\ UNCHANGED <<todo, batch, hotVars, gzVars, archVars, stored, tears, dirty, crashes>>

\* gunzipFile opens the archive and then creates, that is, empties, the file.
RestoreOpen ==
  /\ rpc = "open" /\ gz[rday] # "none"
  /\ exists' = exists \cup {rday} /\ hot' = [hot EXCEPT ![rday] = <<>>]
  /\ dirty' = IF gz[rday] = "partial" THEN dirty \cup {rday} ELSE dirty
  /\ rpc' = "copy"
  /\ UNCHANGED <<todo, batch, handle, gzVars, archVars, rday, restores, stored, tears, crashes>>

\* No archive, one that is cut before its first block, or a file that cannot
\* be created.
RestoreOpenFails ==
  /\ rpc = "open"
  /\ rpc' = "idle" /\ rday' = 0
  /\ UNCHANGED <<todo, batch, hotVars, gzVars, archVars, restores, stored, tears, dirty, crashes>>

\* It writes from the start of the file, over what was appended meanwhile;
\* into nothing when the file has been removed meanwhile. The disk may refuse
\* the rest after n lines.
RestoreCopy ==
  /\ rpc = "copy"
  /\ \E n \in 0..Len(packed[rday]) :
       LET p == SubSeq(packed[rday], 1, n) IN
       /\ hot' = IF rday \in exists
                   THEN [hot EXCEPT ![rday] = p \o SubSeq(@, n + 1, Len(@))] ELSE hot
       /\ dirty' = IF n < Len(packed[rday]) THEN dirty \cup {rday} ELSE dirty
  /\ rpc' = "idle" /\ rday' = 0
  /\ UNCHANGED <<todo, batch, exists, handle, gzVars, archVars, restores, stored, tears, crashes>>

-----------------------------------------------------------------------------
\* The process is killed, perhaps in the middle of a write, and started again.
Crash ==
  LET restored == IF rpc = "copy" THEN {rday} ELSE {} IN
  /\ crashes < MaxCrashes
  /\ crashes' = crashes + 1
  /\ \/ UNCHANGED <<exists, hot, tears>> /\ dirty' = dirty \cup restored
     \/ /\ batch # <<>> /\ tears < MaxTears
        /\ LET d == DayOf(Head(batch)) IN
             /\ exists' = IF handle[d] = "none" THEN exists \cup {d} ELSE exists
             /\ Appended(d, <<Head(batch), FALSE>>)
             /\ dirty' = dirty \cup restored \cup (IF gz[d] = "whole" THEN {d} ELSE {})
        /\ tears' = tears + 1
  /\ batch' = <<>> /\ NoHandles
  /\ apc' = "idle" /\ adays' = {}
  /\ rpc' = "idle" /\ rday' = 0
  /\ UNCHANGED <<todo, gzVars, archives, restores, stored>>

Next ==
  \/ WriteBegin \/ WriteSignal \/ WriteFails \/ Close
  \/ Archive
  \/ \E d \in Days, overwrite \in BOOLEAN : RestoreStart(d, overwrite)
  \/ RestoreOpen \/ RestoreOpenFails \/ RestoreCopy
  \/ Crash

Spec == Init /\ [][Next]_vars

-----------------------------------------------------------------------------
(* Properties *)

\* What Query reads of a file: a line that was cut short, and the one that
\* was appended to it, do not parse.
Readable(f) == {f[i][1] : i \in {j \in DOMAIN f : f[j][2] /\ (j > 1 => f[j - 1][2])}}

Found(d) == Readable(hot[d]) \cup (IF gz[d] = "whole" THEN Readable(packed[d]) ELSE {})

\* A day nothing was written to, and no restore or archive touched, at the
\* wrong moment, loses one accepted signal at most for each write that was
\* cut short, whatever is archived, restored, fails or crashes in between
\* (filesystem.go:72-98, 227-275, 304-385).
LossBounded ==
  Cardinality({s \in stored : LET d == DayOf(s) IN
                 d \notin dirty \cup Expired /\ s \notin Found(d)}) <= tears

\* An archive the console lists can be restored, or there is a hot file of its
\* day; what such a file holds is the business of LossBounded
\* (filesystem.go:247-264, 277-302).
ListedIsThere ==
  \A d \in meta \ Expired : gz[d] = "whole" \/ d \in exists
=============================================================================
