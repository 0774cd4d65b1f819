---------------------------- MODULE LookupCache ----------------------------
(***************************************************************************)
(* release-lookup-cache.json: the answers of the release docs, kept for    *)
(* when the docs cannot be reached.  The lookups of one process share a    *)
(* mutex; panel and worker processes share the file, and the name of the   *)
(* temporary file that each update writes and renames.                     *)
(***************************************************************************)
EXTENDS Naturals

CONSTANTS
  Lookups,      \* goroutines that look releases up
  Home,         \* the process of each
  Keys,         \* product and minor, or support matrix
  Asked,        \* bound: the keys that each looks up
  Absent, Torn  \* no file; a file that is not JSON

\* A process that holds no mutex, and files that are no set of entries.
Free == "free"
ASSUME CacheAssumption ==
  Free \notin Lookups /\ Absent # Torn /\ \A S \in SUBSET Keys : S \notin {Absent, Torn}

VARIABLES
  cache, tmp, \* the file and its temporary file
  look,     \* the lookups
  mutex,    \* releaseLookupCacheMu of each process: its holder, or none
  overlap   \* two processes have updated the file at the same time

lookupVars == <<cache, tmp, look, mutex, overlap>>

IdleLookup == [at |-> "idle", key |-> CHOOSE k \in Keys : TRUE, base |-> {}, fd |-> "none"]

LookupInit ==
  /\ cache = Absent /\ tmp = Absent
  /\ look = [t \in Lookups |-> IdleLookup]
  /\ mutex = [p \in {Home[t] : t \in Lookups} |-> Free]
  /\ overlap = FALSE

Loaded == IF cache \in {Absent, Torn} THEN {} ELSE cache
LookAt(t, step) == look[t].at = step
Move(t, step) == look' = [look EXCEPT ![t].at = step]
Unlock(t) == mutex' = [mutex EXCEPT ![Home[t]] = Free]
Updating == {t \in Lookups : look[t].at \in {"truncate", "write", "rename"}}

-----------------------------------------------------------------------------
(* resolveLatestCachedReleasePatch.                                        *)

Begin(t, k) ==
  /\ LookAt(t, "idle") /\ k \in Asked[t]
  /\ look' = [look EXCEPT ![t] = [IdleLookup EXCEPT !.at = "docs", !.key = k]]
  /\ UNCHANGED <<cache, tmp, mutex, overlap>>

\* The docs, their fallback pages, and after the cache the tags of GitHub.
Fetch(t) ==
  /\ look[t].at \in {"docs", "tags"}
  /\ \/ Move(t, "lock")
     \/ look' = [look EXCEPT ![t] = IF @.at = "docs" THEN [@ EXCEPT !.at = "cache"] ELSE IdleLookup]
  /\ UNCHANGED <<cache, tmp, mutex, overlap>>

\* cachedRelease: the entry, if the file can be read and has a valid one.
ReadCache(t) ==
  /\ LookAt(t, "cache") /\ mutex[Home[t]] = Free
  /\ look' = [look EXCEPT ![t] = IF @.key \in Loaded THEN IdleLookup ELSE [@ EXCEPT !.at = "tags"]]
  /\ UNCHANGED <<cache, tmp, mutex, overlap>>

RacyLoad(t) ==
  /\ LookAt(t, "lock")
  /\ look' = [look EXCEPT ![t].at = "truncate", ![t].base = Loaded]
  /\ overlap' = (overlap \/ \E o \in Updating : Home[o] # Home[t])
  /\ UNCHANGED <<cache, tmp, mutex>>

\* updateReleaseCache, updateSupportRangeCache: what cannot be read is nothing.
Load(t) ==
  /\ LookAt(t, "lock") /\ mutex[Home[t]] = Free
  /\ mutex' = [mutex EXCEPT ![Home[t]] = t]
  /\ look' = [look EXCEPT ![t].at = "truncate", ![t].base = Loaded]
  /\ overlap' = (overlap \/ \E o \in Updating : Home[o] # Home[t])
  /\ UNCHANGED <<cache, tmp>>

\* saveReleaseLookupCache: open and truncate, write, rename.
Truncate(t) ==
  /\ LookAt(t, "truncate")
  /\ tmp' = Torn
  /\ look' = [look EXCEPT ![t].at = "write", ![t].fd = "tmp"]
  /\ UNCHANGED <<cache, mutex, overlap>>

\* Two writers of one file, each from its start: the result is no JSON.
Filled(file, content) == IF file \in {Torn, content} THEN content ELSE Torn

Write(t) ==
  LET content == look[t].base \cup {look[t].key} IN
  /\ LookAt(t, "write")
  /\ tmp' = IF look[t].fd = "tmp" THEN Filled(tmp, content) ELSE tmp
  /\ cache' = IF look[t].fd = "file" THEN Filled(cache, content) ELSE cache
  /\ look' = [look EXCEPT ![t] = [IdleLookup EXCEPT !.at = "rename"]]
  /\ UNCHANGED <<mutex, overlap>>

Renamed(fd) == CASE fd = "tmp" -> "file" [] fd = "file" -> "none" [] OTHER -> fd

\* An open file keeps its writer when it gets another name.
Rename(t) ==
  /\ LookAt(t, "rename")
  /\ IF tmp = Absent THEN UNCHANGED <<cache, tmp>> ELSE cache' = tmp /\ tmp' = Absent
  /\ look' = [o \in Lookups |->
       IF o = t THEN IdleLookup
       ELSE [look[o] EXCEPT !.fd = IF tmp = Absent THEN @ ELSE Renamed(@)]]
  /\ Unlock(t)
  /\ UNCHANGED <<overlap>>

\* A failed save is a warning; the lookup has its answer.
SaveFails(t) ==
  /\ t \in Updating
  /\ look' = [look EXCEPT ![t] = IdleLookup]
  /\ Unlock(t)
  /\ UNCHANGED <<cache, tmp, overlap>>

\* A worker is aborted, or the panel ends.
ProcessDies(p) ==
  /\ \E t \in Lookups : Home[t] = p /\ ~LookAt(t, "idle")
  /\ look' = [t \in Lookups |-> IF Home[t] = p THEN IdleLookup ELSE look[t]]
  /\ mutex' = [mutex EXCEPT ![p] = Free]
  /\ UNCHANGED <<cache, tmp, overlap>>

LookupStep(t) == Fetch(t) \/ ReadCache(t) \/ Load(t) \/ Truncate(t) \/ Write(t) \/ Rename(t) \/ SaveFails(t)
LookupNext ==
  \/ \E t \in Lookups : LookupStep(t) \/ \E k \in Keys : Begin(t, k)
  \/ \E p \in DOMAIN mutex : ProcessDies(p)
LookupSpec == LookupInit /\ [][LookupNext]_lookupVars

-----------------------------------------------------------------------------
(* Properties.                                                             *)

\* An entry of the cache survives every update of another entry, failed save
\* and death of a process, as long as no two processes have updated the file
\* at the same time (releaseLookupCacheMu, saveReleaseLookupCache).
EntriesKept ==
  [][overlap' \/ Loaded \subseteq Loaded']_lookupVars
=============================================================================
