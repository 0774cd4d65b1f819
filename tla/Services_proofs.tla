-------------------------- MODULE Services_proofs ---------------------------
(***************************************************************************)
(* What the programs around the runs keep, for every number of processes,  *)
(* versions and steps: panel-session.json, which keeps a repository at one *)
(* panel; release-lookup-cache.json, whose updates keep each other's       *)
(* entries; and the desktop app's runtime, which keeps a workspace with the*)
(* version that opens it, for the workers that it records and with what    *)
(* they saved, through upgrades, failures and deaths.                      *)
(***************************************************************************)
EXTENDS PanelSession, LookupCache, RuntimeInstall, TLAPS

-----------------------------------------------------------------------------
(* The panel session.                                                      *)

PanelPlaces == {"off", "closed", "serving", "stopping"} \cup Starting

SessionTypes ==
  /\ panel \in [Panels -> PanelPlaces]
  /\ seen \in [Panels -> Panels \cup {NoSession}]

\* A launch is the only one, knows the panel that answers while it checks for
\* it, and once it has found none is the only one that can answer.
LaunchOK(p) ==
  /\ panel[p] \in Starting => \A q \in Panels : panel[q] \in Starting => q = p
  /\ panel[p] = "check" =>
       seen[p] \in Panels /\ \A q \in Panels : panel[q] \in Up => q = seen[p]
  /\ panel[p] \in {"forget", "listen", "unlisted", "writing"} =>
       \A q \in Panels : panel[q] \in Up => q = p

\* A panel that has recorded itself stays recorded while it serves.
ListedOK(p) == panel[p] \in {"serving", "stopping"} => session = p

SessionInv == SessionTypes /\ \A p \in Panels : LaunchOK(p) /\ ListedOK(p)

LEMMA SessionStepInv ==
  ASSUME Prompt, SessionInv, NEW p \in Panels, SessionStep(p)
  PROVE  SessionInv'
<1> USE DEF SessionInv, SessionTypes, PanelPlaces, LaunchOK, ListedOK, Starting, Up, Is, Becomes
<1>1. CASE StartPanel(p)
  BY <1>1 DEF StartPanel
<1>2. CASE ReadSession(p)
  <2>1. CASE session \in Panels
    BY <1>2, <2>1, SessionAssumption DEF ReadSession
  <2>2. CASE session \notin Panels
    BY <1>2, <2>2, SessionAssumption DEF ReadSession
  <2> QED
    BY <2>1, <2>2
<1>3. CASE Reuse(p)
  BY <1>3 DEF Reuse
<1>4. CASE FindStale(p)
  BY <1>4 DEF FindStale
<1>5. CASE Forget(p)
  BY <1>5 DEF Forget
<1>6. CASE Serve(p)
  BY <1>6 DEF Serve
<1>7. CASE PersistSession(p)
  BY <1>7 DEF PersistSession
<1>8. CASE AskShutdown(p)
  BY <1>8 DEF AskShutdown
<1>9. CASE CloseServer(p)
  BY <1>9 DEF CloseServer
<1>10. CASE RemoveOwn(p)
  BY <1>10 DEF RemoveOwn
<1>11. CASE Killed(p)
  BY <1>11 DEF Killed
<1> QED
  BY <1>1, <1>2, <1>3, <1>4, <1>5, <1>6, <1>7, <1>8, <1>9, <1>10, <1>11 DEF SessionStep

\* Two panels never answer for one repository, for any number of launches,
\* whatever panels were killed and left their record behind, as long as a
\* serving panel answers the health check (existingControlPanelURL,
\* StartHAControlPanelServer, removePanelSession).
THEOREM OnePanelServes ==
  ASSUME Prompt
  PROVE  SessionSpec => []OnePanel
<1>1. SessionInit => SessionInv
  BY DEF SessionInit, SessionInv, SessionTypes, PanelPlaces, LaunchOK, ListedOK, Starting
<1>2. SessionInv /\ [SessionNext]_sessionVars => SessionInv'
  <2> SUFFICES ASSUME SessionInv, [SessionNext]_sessionVars PROVE SessionInv'
    OBVIOUS
  <2>1. CASE UNCHANGED sessionVars
    BY <2>1 DEF sessionVars, SessionInv, SessionTypes, LaunchOK, ListedOK
  <2> QED
    BY <2>1, SessionStepInv DEF SessionNext
<1>3. SessionInv => OnePanel
  BY DEF SessionInv, SessionTypes, LaunchOK, ListedOK, OnePanel, Up
<1> QED
  BY <1>1, <1>2, <1>3, PTL DEF SessionSpec

-----------------------------------------------------------------------------
(* The lookup cache.                                                       *)

LookupPlaces == {"idle", "docs", "cache", "tags", "lock", "truncate", "write", "rename"}
Look == [at : LookupPlaces, key : {IdleLookup.key} \cup Keys, base : SUBSET Keys,
         fd : {"none", "tmp", "file"}]
File == {Absent, Torn} \cup SUBSET Keys

LookupTypes ==
  /\ cache \in File /\ tmp \in File
  /\ mutex \in [{Home[t] : t \in Lookups} -> {Free} \cup Lookups]
  /\ look \in [Lookups -> Look]
  /\ \A t \in Lookups : look[t].at \notin {"idle", "rename"} => look[t].key \in Keys

\* An update holds the mutex of its process.
HolderInv == \A t \in Updating : mutex[Home[t]] = t

\* One update at a time holds in memory, and then in the temporary file, all
\* that the cache holds.
UpdateOK(t) ==
  /\ \A o \in Updating : o = t
  /\ look[t].at \in {"truncate", "write"} => Loaded \subseteq look[t].base
  /\ look[t].at = "write" => look[t].fd = "tmp" /\ tmp = Torn
  /\ look[t].at = "rename" => tmp \in SUBSET Keys /\ Loaded \subseteq tmp

LookupInv ==
  /\ LookupTypes /\ HolderInv
  /\ ~overlap => \A t \in Updating : UpdateOK(t)

\* A step of a lookup that is not updating leaves the files and the mutex.
LEMMA AsideKeeps ==
  ASSUME LookupInv, LookupTypes', NEW t \in Lookups,
         t \notin Updating, look'[t].at \notin {"truncate", "write", "rename"},
         \A o \in Lookups \ {t} : look'[o] = look[o],
         UNCHANGED <<cache, tmp, mutex, overlap>>
  PROVE  LookupInv'
<1>1. Updating' = Updating /\ \A o \in Updating : look'[o] = look[o]
  BY DEF Updating
<1> QED
  BY <1>1 DEF LookupInv, HolderInv, UpdateOK, Loaded

LEMMA LoadedType ==
  ASSUME LookupTypes
  PROVE  Loaded \in SUBSET Keys
BY DEF LookupTypes, File, Loaded

LEMMA LookUpdates ==
  /\ IdleLookup \in Look /\ IdleLookup.at = "idle"
  /\ \A at \in LookupPlaces : [IdleLookup EXCEPT !.at = at] \in Look
  /\ \A k \in Keys : [IdleLookup EXCEPT !.at = "docs", !.key = k] \in Look
BY DEF Look, IdleLookup, LookupPlaces

\* A rename moves what a lookup holds open, and nothing else.
LEMMA FdEffect ==
  ASSUME NEW l \in Look
  PROVE  LET x == IF tmp = Absent THEN l.fd ELSE Renamed(l.fd)
         IN  /\ [l EXCEPT !.fd = x] \in Look
             /\ [l EXCEPT !.fd = x].at = l.at /\ [l EXCEPT !.fd = x].key = l.key
BY DEF Look, Renamed

\* A lookup that goes on keeps its key.
LEMMA LookMoves ==
  ASSUME NEW l \in Look, l.key \in Keys
  PROVE  /\ \A at \in LookupPlaces : [l EXCEPT !.at = at] \in Look /\ [l EXCEPT !.at = at].key \in Keys
         /\ \A b \in SUBSET Keys : /\ [l EXCEPT !.at = "truncate", !.base = b] \in Look
                                   /\ [l EXCEPT !.at = "truncate", !.base = b].key \in Keys
         /\ [l EXCEPT !.at = "write", !.fd = "tmp"] \in Look
         /\ [l EXCEPT !.at = "write", !.fd = "tmp"].key \in Keys
BY DEF Look, LookupPlaces

LEMMA TypesNext ==
  ASSUME LookupTypes, LookupNext
  PROVE  LookupTypes'
<1> DEFINE Typed(l) == l \in Look /\ (l.at \notin {"idle", "rename"} => l.key \in Keys)
<1>0. Loaded \in SUBSET Keys /\ \A t \in Lookups : look[t] \in Look /\ Typed(look[t])
  BY LoadedType DEF LookupTypes
<1>a. ASSUME NEW t \in Lookups, NEW l, look' = [look EXCEPT ![t] = l], Typed(l),
             cache' \in File, tmp' \in File,
             mutex' = mutex \/ (\E x \in {Free} \cup Lookups : mutex' = [mutex EXCEPT ![Home[t]] = x])
      PROVE  LookupTypes'
  BY <1>a DEF LookupTypes
<1>1. ASSUME NEW t \in Lookups, NEW k \in Keys, Begin(t, k) PROVE LookupTypes'
  <2>1. Typed([IdleLookup EXCEPT !.at = "docs", !.key = k])
    BY <1>0, LookUpdates DEF IdleLookup
  <2> QED
    BY <1>1, <1>a, <2>1 DEF Begin, LookupTypes
<1>2. ASSUME NEW t \in Lookups, Fetch(t) PROVE LookupTypes'
  <2>1. look[t].at \in {"docs", "tags"} /\ look[t].key \in Keys
    BY <1>0, <1>2 DEF Fetch
  <2>2. Typed([look[t] EXCEPT !.at = "lock"]) /\ Typed([look[t] EXCEPT !.at = "cache"]) /\ Typed(IdleLookup)
    BY <1>0, <2>1, LookUpdates, LookMoves DEF LookupPlaces
  <2> QED
    BY <1>2, <1>a, <2>2 DEF Fetch, Move, LookupTypes
<1>3. ASSUME NEW t \in Lookups, ReadCache(t) PROVE LookupTypes'
  <2>1. look[t].key \in Keys
    BY <1>0, <1>3 DEF ReadCache, LookAt
  <2>2. Typed([look[t] EXCEPT !.at = "tags"]) /\ Typed(IdleLookup)
    BY <1>0, <2>1, LookUpdates, LookMoves DEF LookupPlaces
  <2> QED
    BY <1>3, <1>a, <2>2 DEF ReadCache, LookupTypes
<1>4. ASSUME NEW t \in Lookups, Load(t) PROVE LookupTypes'
  <2>1. look[t].key \in Keys
    BY <1>0, <1>4 DEF Load, LookAt
  <2>2. Typed([look[t] EXCEPT !.at = "truncate", !.base = Loaded])
    BY <1>0, <2>1, LookMoves
  <2>3. look' = [look EXCEPT ![t] = [look[t] EXCEPT !.at = "truncate", !.base = Loaded]]
    BY <1>4, <1>0 DEF Load, LookupTypes, Look
  <2> QED
    BY <1>4, <1>a, <2>2, <2>3 DEF Load, LookupTypes
<1>5. ASSUME NEW t \in Lookups, Truncate(t) PROVE LookupTypes'
  <2>1. look[t].key \in Keys
    BY <1>0, <1>5 DEF Truncate, LookAt
  <2>2. Typed([look[t] EXCEPT !.at = "write", !.fd = "tmp"])
    BY <1>0, <2>1, LookMoves
  <2>3. look' = [look EXCEPT ![t] = [look[t] EXCEPT !.at = "write", !.fd = "tmp"]]
    BY <1>5, <1>0 DEF Truncate, LookupTypes, Look
  <2> QED
    BY <1>5, <1>a, <2>2, <2>3 DEF Truncate, LookupTypes, File
<1>6. ASSUME NEW t \in Lookups, Write(t) PROVE LookupTypes'
  <2>1. look[t].base \cup {look[t].key} \in SUBSET Keys
    BY <1>0, <1>6 DEF Write, LookAt, Look
  <2>2. Typed([IdleLookup EXCEPT !.at = "rename"])
    BY <1>0, LookUpdates DEF IdleLookup, LookupPlaces
  <2>3. cache' \in File /\ tmp' \in File
    BY <1>6, <2>1 DEF Write, Filled, File, LookupTypes
  <2> QED
    BY <1>6, <1>a, <2>2, <2>3 DEF Write
<1>7. ASSUME NEW t \in Lookups, Rename(t) PROVE LookupTypes'
  <2>1. cache' \in File /\ tmp' \in File
    BY <1>7 DEF Rename, LookupTypes, File
  <2>2. \A o \in Lookups : Typed(look'[o])
    <3>1. Typed(IdleLookup)
      BY <1>0, LookUpdates
    <3>2. ASSUME NEW o \in Lookups, o # t PROVE Typed(look'[o])
      <4>1. look'[o] = [look[o] EXCEPT !.fd = IF tmp = Absent THEN look[o].fd ELSE Renamed(look[o].fd)]
        BY <1>7, <3>2 DEF Rename
      <4> QED
        BY <1>0, <4>1, FdEffect
    <3> QED
      BY <1>0, <1>7, <3>1, <3>2 DEF Rename
  <2> QED
    BY <1>7, <2>1, <2>2 DEF Rename, Unlock, LookupTypes
<1>8. ASSUME NEW t \in Lookups, SaveFails(t) PROVE LookupTypes'
  <2>1. Typed(IdleLookup)
    BY <1>0, LookUpdates
  <2> QED
    BY <1>8, <1>a, <2>1 DEF SaveFails, Unlock, LookupTypes
<1>9. ASSUME NEW p \in DOMAIN mutex, ProcessDies(p) PROVE LookupTypes'
  <2>1. \A t \in Lookups : Typed(look'[t])
    BY <1>0, <1>9, LookUpdates DEF ProcessDies
  <2> QED
    BY <1>9, <2>1 DEF ProcessDies, LookupTypes
<1> QED
  BY <1>1, <1>2, <1>3, <1>4, <1>5, <1>6, <1>7, <1>8, <1>9 DEF LookupNext, LookupStep

\* What one step does to the invariant and to the entries.
LEMMA LookupStepInv ==
  ASSUME LookupInv, LookupNext
  PROVE  LookupInv' /\ (overlap' \/ Loaded \subseteq Loaded')
<1>0. LookupTypes /\ LookupTypes' /\ HolderInv /\ (~overlap => \A t \in Updating : UpdateOK(t))
  BY TypesNext DEF LookupInv
<1>a. ASSUME NEW t \in Lookups, t \notin Updating, look'[t].at \notin {"truncate", "write", "rename"},
             \A o \in Lookups \ {t} : look'[o] = look[o], UNCHANGED <<cache, tmp, mutex, overlap>>
      PROVE  LookupInv' /\ (overlap' \/ Loaded \subseteq Loaded')
  BY <1>0, <1>a, AsideKeeps DEF Loaded
<1>1. ASSUME NEW t \in Lookups, NEW k \in Keys, Begin(t, k)
      PROVE  LookupInv' /\ (overlap' \/ Loaded \subseteq Loaded')
  <2>1. look'[t].at = "docs" /\ \A o \in Lookups \ {t} : look'[o] = look[o]
    BY <1>0, <1>1 DEF Begin, LookupTypes, IdleLookup
  <2> QED
    BY <1>1, <1>a, <2>1 DEF Begin, LookAt, Updating
<1>2. ASSUME NEW t \in Lookups, Fetch(t)
      PROVE  LookupInv' /\ (overlap' \/ Loaded \subseteq Loaded')
  <2>1. look'[t].at \in {"lock", "cache", "idle"} /\ \A o \in Lookups \ {t} : look'[o] = look[o]
    BY <1>0, <1>2 DEF Fetch, Move, LookupTypes, Look, IdleLookup
  <2> QED
    BY <1>2, <1>a, <2>1 DEF Fetch, Updating
<1>3. ASSUME NEW t \in Lookups, ReadCache(t)
      PROVE  LookupInv' /\ (overlap' \/ Loaded \subseteq Loaded')
  <2>1. look'[t].at \in {"tags", "idle"} /\ \A o \in Lookups \ {t} : look'[o] = look[o]
    BY <1>0, <1>3 DEF ReadCache, LookupTypes, Look, IdleLookup
  <2> QED
    BY <1>3, <1>a, <2>1 DEF ReadCache, LookAt, Updating
<1>4. ASSUME NEW t \in Lookups, Load(t)
      PROVE  LookupInv' /\ (overlap' \/ Loaded \subseteq Loaded')
  <2>1. /\ look'[t].at = "truncate" /\ look'[t].base = Loaded
        /\ \A o \in Lookups \ {t} : look'[o] = look[o]
    BY <1>0, <1>4 DEF Load, LookupTypes, Look
  <2>2. \A o \in Updating : Home[o] # Home[t]
    BY <1>0, <1>4, CacheAssumption DEF Load, HolderInv, Updating
  <2>3. Updating' = Updating \cup {t} /\ t \notin Updating
    BY <1>4, <2>1 DEF Updating, Load, LookAt
  <2>4. HolderInv'
    BY <1>0, <1>4, <2>2, <2>3 DEF HolderInv, Load, LookupTypes, Updating
  <2>5. ~overlap' => Updating = {}
    BY <1>4, <2>2 DEF Load
  <2>6. ~overlap' => \A o \in Updating' : UpdateOK(o)'
    BY <1>4, <2>1, <2>3, <2>5 DEF UpdateOK, Loaded, Load
  <2> QED
    BY <1>0, <1>4, <2>4, <2>6 DEF LookupInv, Load, Loaded
<1>5. ASSUME NEW t \in Lookups, Truncate(t)
      PROVE  LookupInv' /\ (overlap' \/ Loaded \subseteq Loaded')
  <2>1. /\ look'[t].at = "write" /\ look'[t].base = look[t].base /\ look'[t].fd = "tmp"
        /\ look[t].at = "truncate"
        /\ \A o \in Lookups \ {t} : look'[o] = look[o]
    BY <1>0, <1>5 DEF Truncate, LookAt, LookupTypes, Look
  <2>2. Updating' = Updating /\ t \in Updating
    BY <2>1 DEF Updating
  <2>3. HolderInv'
    BY <1>0, <1>5, <2>2 DEF HolderInv, Truncate
  <2>4. ~overlap' => \A o \in Updating' : UpdateOK(o)'
    BY <1>0, <1>5, <2>1, <2>2 DEF UpdateOK, Loaded, Truncate
  <2> QED
    BY <1>0, <1>5, <2>3, <2>4 DEF LookupInv, Truncate, Loaded
<1>6. ASSUME NEW t \in Lookups, Write(t)
      PROVE  LookupInv' /\ (overlap' \/ Loaded \subseteq Loaded')
  <2> DEFINE content == look[t].base \cup {look[t].key}
  <2>1. /\ look'[t].at = "rename" /\ look[t].at = "write"
        /\ \A o \in Lookups \ {t} : look'[o] = look[o]
    BY <1>0, <1>6 DEF Write, LookAt, LookupTypes, IdleLookup
  <2>2. Updating' = Updating /\ t \in Updating
    BY <2>1 DEF Updating
  <2>3. HolderInv'
    BY <1>0, <1>6, <2>2 DEF HolderInv, Write
  <2>4. content \in SUBSET Keys
    BY <1>0, <2>1 DEF LookupTypes, Look
  <2>5. ASSUME ~overlap
        PROVE  cache' = cache /\ tmp' = content /\ Loaded \subseteq content
    BY <1>0, <1>6, <2>1, <2>2, <2>5 DEF UpdateOK, Write, Filled
  <2> HIDE DEF content
  <2>6. ~overlap' => \A o \in Updating' : UpdateOK(o)'
    BY <1>0, <1>6, <2>1, <2>2, <2>4, <2>5 DEF UpdateOK, Loaded, Write
  <2> QED
    BY <1>0, <1>6, <2>3, <2>5, <2>6 DEF LookupInv, Write, Loaded
<1>7. ASSUME NEW t \in Lookups, Rename(t)
      PROVE  LookupInv' /\ (overlap' \/ Loaded \subseteq Loaded')
  <2>1. /\ look[t].at = "rename" /\ look'[t].at = "idle"
        /\ \A o \in Lookups : look'[o].at = IF o = t THEN "idle" ELSE look[o].at
    BY <1>0, <1>7 DEF Rename, LookAt, LookupTypes, Look, IdleLookup
  <2>2. Updating' = Updating \ {t} /\ t \in Updating
    BY <2>1 DEF Updating
  <2>3. HolderInv'
    <3>1. mutex' = [mutex EXCEPT ![Home[t]] = Free]
      BY <1>7 DEF Rename, Unlock
    <3>2. \A o \in Updating' : o \in Lookups /\ mutex[Home[o]] = o /\ Home[o] # Home[t]
      BY <1>0, <2>2 DEF HolderInv, Updating
    <3> QED
      BY <1>0, <3>1, <3>2 DEF HolderInv, LookupTypes
  <2>4. ASSUME ~overlap
        PROVE  Updating' = {} /\ Loaded \subseteq Loaded'
    <3>1. Updating' = {} /\ tmp \in SUBSET Keys /\ Loaded \subseteq tmp
      BY <1>0, <2>1, <2>2, <2>4 DEF UpdateOK
    <3>2. tmp \notin {Absent, Torn}
      BY <3>1, CacheAssumption
    <3>3. cache' = tmp
      BY <1>7, <3>2 DEF Rename
    <3> QED
      BY <3>1, <3>2, <3>3 DEF Loaded
  <2> QED
    BY <1>0, <1>7, <2>3, <2>4 DEF LookupInv, Rename
<1>8. ASSUME NEW t \in Lookups, SaveFails(t)
      PROVE  LookupInv' /\ (overlap' \/ Loaded \subseteq Loaded')
  <2>1. look'[t].at = "idle" /\ \A o \in Lookups \ {t} : look'[o] = look[o]
    BY <1>0, <1>8 DEF SaveFails, LookupTypes, IdleLookup
  <2>2. Updating' = Updating \ {t} /\ t \in Updating
    BY <1>8, <2>1 DEF Updating, SaveFails
  <2>3. HolderInv'
    BY <1>0, <1>8, <2>2 DEF HolderInv, SaveFails, Unlock, LookupTypes, Updating
  <2>4. ~overlap' => Updating' = {}
    BY <1>0, <1>8, <2>2 DEF UpdateOK, SaveFails
  <2> QED
    BY <1>0, <1>8, <2>3, <2>4 DEF LookupInv, SaveFails, Loaded
<1>9. ASSUME NEW p \in DOMAIN mutex, ProcessDies(p)
      PROVE  LookupInv' /\ (overlap' \/ Loaded \subseteq Loaded')
  <2>1. \A t \in Lookups : IF Home[t] = p THEN look'[t].at = "idle" ELSE look'[t] = look[t]
    BY <1>9 DEF ProcessDies, IdleLookup
  <2>2. Updating' \subseteq Updating /\ \A t \in Updating' : Home[t] # p /\ look'[t] = look[t]
    BY <2>1 DEF Updating
  <2>3. HolderInv'
    BY <1>0, <1>9, <2>2 DEF HolderInv, ProcessDies, LookupTypes, Updating
  <2>4. ~overlap' => \A o \in Updating' : UpdateOK(o)'
    BY <1>0, <1>9, <2>2 DEF UpdateOK, Loaded, ProcessDies
  <2> QED
    BY <1>0, <1>9, <2>3, <2>4 DEF LookupInv, ProcessDies, Loaded
<1> QED
  BY <1>1, <1>2, <1>3, <1>4, <1>5, <1>6, <1>7, <1>8, <1>9 DEF LookupNext, LookupStep

\* An update loses no entry that another one has saved, for any number of
\* lookups in any number of processes, when saves fail and processes die in
\* between, as long as no two processes update at the same time
\* (releaseLookupCacheMu, updateReleaseCache, saveReleaseLookupCache).
THEOREM CacheKeepsEntries == LookupSpec => EntriesKept
<1>1. LookupInit => LookupInv
  <2> SUFFICES ASSUME LookupInit PROVE LookupInv
    OBVIOUS
  <2>1. \A t \in Lookups : look[t] \in Look /\ look[t].at = "idle"
    BY LookUpdates DEF LookupInit
  <2>2. LookupTypes /\ Updating = {}
    BY <2>1 DEF LookupInit, LookupTypes, File, Updating
  <2> QED
    BY <2>2 DEF LookupInv, HolderInv
<1>2. LookupInv /\ [LookupNext]_lookupVars => LookupInv'
  <2> SUFFICES ASSUME LookupInv, UNCHANGED lookupVars PROVE LookupInv'
    BY LookupStepInv
  <2> QED
    BY DEF lookupVars, LookupInv, LookupTypes, HolderInv, Updating, UpdateOK, Loaded
<1>3. LookupInv /\ [LookupNext]_lookupVars => (overlap' \/ Loaded \subseteq Loaded')
  <2> SUFFICES ASSUME UNCHANGED lookupVars PROVE Loaded \subseteq Loaded'
    BY LookupStepInv
  <2> QED
    BY DEF lookupVars, Loaded
<1> QED
  BY <1>1, <1>2, <1>3, PTL DEF LookupSpec, EntriesKept

-----------------------------------------------------------------------------
(* The desktop runtime.                                                    *)

Steps == {"closed", "start", "stage", "select", "seed", "migrate", "drop", "move", "swap",
          "point", "open", "closing"}
App == [at : Steps, version : 0..MaxVersion, runtime : 0..MaxVersion, moved : BOOLEAN]
Place == Directories \cup {NoDir}

RuntimeTypes ==
  /\ bundle \in Versions /\ app \in App
  /\ runtimes \in [Versions -> {"none", "valid", "invalid"}]
  /\ workspace \in Place /\ previous \in Place /\ staged \in Place
  /\ pointer \in 0..MaxVersion
  /\ spawning \in [Kinds -> {"none", "entry", "started"}]
  /\ live \subseteq Kinds /\ saved \subseteq States

-----------------------------------------------------------------------------
(* Directories and steps.                                                  *)

LEMMA VersionRange == Versions \subseteq 0..MaxVersion /\ 0 \in 0..MaxVersion /\ 1 \in Versions
                      /\ \A v \in 0..MaxVersion : v # 0 => v \in Versions
BY RuntimeAssumption DEF Versions

LEMMA DirectoryUpdates ==
  ASSUME NEW d \in Directories
  PROVE  /\ d # NoDir /\ d.data \subseteq States /\ d.pids \subseteq Kinds
         /\ d.version \in 0..MaxVersion /\ d.whole \in BOOLEAN
         /\ \A k \in Kinds : LET e == [d EXCEPT !.pids = @ \cup {k}] IN
              /\ e \in Directories /\ e.version = d.version /\ e.whole = d.whole
              /\ e.data = d.data /\ e.pids = d.pids \cup {k}
         /\ \A s \in States : LET e == [d EXCEPT !.data = @ \cup {s}] IN
              /\ e \in Directories /\ e.version = d.version /\ e.whole = d.whole
              /\ e.data = d.data \cup {s} /\ e.pids = d.pids
         /\ LET e == [d EXCEPT !.version = 0] IN
              e \in Directories /\ e.version = 0 /\ e.data = d.data /\ e.pids = d.pids
         /\ LET e == [d EXCEPT !.whole = FALSE] IN
              e \in Directories /\ e.version = d.version /\ e.data = d.data /\ e.pids = d.pids
BY RuntimeAssumption, VersionRange DEF Directories

LEMMA SeededDirectory ==
  ASSUME NEW v \in Versions
  PROVE  /\ Seeded(v) \in Directories /\ Seeded(v).version = v /\ Seeded(v).whole
         /\ Seeded(v).pids = {}
BY VersionRange DEF Seeded, Directories

LEMMA MigratedDirectory ==
  ASSUME NEW d \in Directories, NEW e \in Directories
  PROVE  LET f == [d EXCEPT !.data = e.data, !.pids = e.pids] IN
           /\ f \in Directories /\ f.version = d.version /\ f.whole = d.whole
           /\ f.data = e.data /\ f.pids = e.pids
BY DEF Directories

\* The app goes to another step and keeps what it knows.
LEMMA GoEffect ==
  ASSUME NEW a \in App, NEW step \in Steps
  PROVE  LET b == [a EXCEPT !.at = step] IN
           /\ b \in App /\ b.at = step /\ b.version = a.version
           /\ b.runtime = a.runtime /\ b.moved = a.moved
BY DEF App

LEMMA ClosedApp == Closed \in App /\ Closed.at = "closed"
BY VersionRange DEF Closed, App, Steps

-----------------------------------------------------------------------------
(* The runtime and the workspace agree.                                    *)

Replacing == {"seed", "migrate", "drop", "move", "swap"}
Chosen == Replacing \cup {"select", "point"}

\* The app installs a version that exists, over a runtime it has validated.
ChosenInv ==
  /\ app.at \in Chosen \cup {"stage", "open", "closing"} => app.version \in Versions
  /\ app.at \in Chosen => runtimes[app.version] = "valid"
  /\ At("point") => WorkspaceValid(app.version)

\* A workspace is replaced by a complete one of the version to be opened, and
\* none of the directories that may become the workspace records a live process.
Unheld(d) == d # NoDir => d.pids \cap live = {}
ReplaceInv ==
  /\ app.at \in Replacing => Unheld(workspace)
  /\ app.at \in Replacing \ {"seed"} =>
       /\ staged # NoDir /\ staged.version = app.version /\ staged.whole
       /\ Unheld(staged)
  /\ At("swap") => workspace = NoDir /\ (app.moved => previous # NoDir /\ Unheld(previous))

\* A workspace that a live process holds is the one that was opened last.
HeldInv == LifecycleActive => workspace.version \in {0, pointer}

RuntimeInv == RuntimeTypes /\ ChosenInv /\ ReplaceInv /\ HeldInv /\ OpenRuntimeMatches

\* A step of the app that touches nothing but itself.
LEMMA GoKeeps ==
  ASSUME RuntimeInv, RuntimeTypes', NEW step \in Steps, Go(step),
         UNCHANGED <<runtimes, workspace, previous, staged, pointer, live>>,
         step \in Chosen \cup {"stage", "open", "closing"} => app.version \in Versions,
         step \in Chosen => runtimes[app.version] = "valid",
         step = "point" => WorkspaceValid(app.version),
         step \in Replacing => (app.at \in Replacing \/ ~LifecycleActive),
         step \in Replacing \ {"seed"} => app.at \in Replacing \ {"seed"},
         step = "swap" => At("swap"),
         step \in {"open", "closing"} => Serving
  PROVE  RuntimeInv'
<1>1. /\ app'.at = step /\ app'.version = app.version /\ app'.runtime = app.runtime
      /\ app'.moved = app.moved
  BY GoEffect DEF Go, RuntimeInv, RuntimeTypes
<1>2. ChosenInv'
  BY <1>1 DEF RuntimeInv, ChosenInv, WorkspaceValid, At
<1>3. ReplaceInv'
  BY <1>1 DEF RuntimeInv, ReplaceInv, Unheld, LifecycleActive, At
<1>4. HeldInv' /\ OpenRuntimeMatches'
  BY <1>1 DEF RuntimeInv, HeldInv, OpenRuntimeMatches, LifecycleActive, Serving
<1> QED
  BY <1>2, <1>3, <1>4 DEF RuntimeInv

LEMMA RuntimeTypesNext ==
  ASSUME RuntimeInv, RuntimeNext
  PROVE  RuntimeTypes'
<1>0. RuntimeTypes /\ app.at \in Steps /\ app \in App
  BY DEF RuntimeInv, RuntimeTypes, App
<1>a. \A step \in Steps : Go(step) => app' \in App
  BY <1>0, GoEffect DEF Go
<1>b. {"closed", "start", "stage", "select", "seed", "migrate", "drop", "move", "swap",
       "point", "open", "closing"} = Steps
  BY DEF Steps
<1>1. CASE Launch \/ AskClose \/ CancelClose
  BY <1>0, <1>1, <1>a, <1>b DEF Launch, AskClose, CancelClose, RuntimeTypes
<1>2. CASE BeginInstall
  <2>1. app' \in App
    BY <1>0, <1>2, VersionRange DEF BeginInstall, RuntimeTypes, App, Steps
  <2> QED
    BY <1>0, <1>2, <2>1 DEF BeginInstall, RuntimeTypes, Place
<1>3. CASE Quarantine
  BY <1>0, <1>3 DEF Quarantine, RuntimeTypes
<1>4. CASE ActivateRuntime
  BY <1>0, <1>4, <1>a, <1>b DEF ActivateRuntime, RuntimeTypes
<1>5. CASE SelectWorkspace
  <2>1. WorkspaceVersion \in 0..MaxVersion
    BY <1>0, DirectoryUpdates, VersionRange DEF WorkspaceVersion, RuntimeTypes, Place
  <2>2. app' \in App
    BY <1>0, <1>5, <2>1, <1>b DEF SelectWorkspace, Select, App
  <2> QED
    BY <1>0, <1>5, <2>2 DEF SelectWorkspace, RuntimeTypes
<1>6. CASE SeedWorkspace
  <2>1. staged' \in Place
    BY <1>6, SeededDirectory DEF SeedWorkspace, Place, RuntimeInv, ChosenInv, Chosen, Replacing, At
  <2> QED
    BY <1>0, <1>6, <1>a, <1>b, <2>1 DEF SeedWorkspace, RuntimeTypes
<1>7. CASE Migrate
  <2>1. staged' \in Place
    BY <1>0, <1>7, MigratedDirectory
       DEF Migrate, Place, RuntimeTypes, RuntimeInv, ReplaceInv, Replacing, At
  <2> QED
    BY <1>0, <1>7, <1>a, <1>b, <2>1 DEF Migrate, RuntimeTypes
<1>8. CASE DropPrevious \/ StepFails
  BY <1>0, <1>8, <1>a, <1>b DEF DropPrevious, StepFails, RuntimeTypes, Place
<1>9. CASE MoveAway
  <2>1. app' \in App
    BY <1>0, <1>9, <1>b DEF MoveAway, App
  <2> QED
    BY <1>0, <1>9, <2>1 DEF MoveAway, RuntimeTypes, Place
<1>10. CASE Activate \/ ActivateFails
  BY <1>0, <1>10, <1>a, <1>b DEF Activate, ActivateFails, RuntimeTypes, Place
<1>11. CASE Open
  <2>1. app' \in App
    BY <1>0, <1>11, <1>b DEF Open, App
  <2>2. app.version \in 0..MaxVersion
    BY <1>0 DEF App
  <2> QED
    BY <1>0, <1>11, <2>1, <2>2 DEF Open, RuntimeTypes
<1>12. ASSUME NEW k \in Kinds, BeginWorker(k) \/ SpawnWorker(k) \/ WorkerEnds(k) PROVE RuntimeTypes'
  BY <1>0, <1>12 DEF BeginWorker, SpawnWorker, WorkerEnds, RuntimeTypes, installVars
<1>13. ASSUME NEW k \in Kinds, NotePid(k) PROVE RuntimeTypes'
  <2>1. workspace \in Directories
    BY <1>0, <1>13 DEF NotePid, RuntimeInv, OpenRuntimeMatches, RuntimeTypes, Place
  <2> QED
    BY <1>0, <1>13, <2>1, DirectoryUpdates DEF NotePid, RuntimeTypes, Place
<1>14. ASSUME NEW s \in States, Save(s) PROVE RuntimeTypes'
  BY <1>0, <1>14, DirectoryUpdates DEF Save, RuntimeTypes, Place
<1>15. CASE Quit \/ Die
  BY <1>0, <1>15, ClosedApp DEF Quit, Die, RuntimeTypes
<1>16. CASE Upgrade
  BY <1>0, <1>16, RuntimeAssumption DEF Upgrade, RuntimeTypes, installVars, Versions
<1>17. CASE Damage
  BY <1>0, <1>17, DirectoryUpdates DEF Damage, RuntimeTypes, Place
<1> QED
  BY <1>1, <1>2, <1>3, <1>4, <1>5, <1>6, <1>7, <1>8, <1>9, <1>10, <1>11, <1>12, <1>13, <1>14, <1>15,
     <1>16, <1>17 DEF RuntimeNext, InstallStep, WorkerStep

\* Neither the app nor its directories change, and processes only end.
LEMMA EndingKeeps ==
  ASSUME RuntimeInv, RuntimeTypes', UNCHANGED installVars, live' \subseteq live
  PROVE  RuntimeInv'
<1>1. ChosenInv'
  BY DEF RuntimeInv, ChosenInv, WorkspaceValid, At, installVars
<1>2. ReplaceInv'
  BY DEF RuntimeInv, ReplaceInv, Unheld, At, installVars
<1>3. HeldInv' /\ OpenRuntimeMatches'
  BY DEF RuntimeInv, HeldInv, OpenRuntimeMatches, LifecycleActive, Serving, installVars
<1> QED
  BY <1>1, <1>2, <1>3 DEF RuntimeInv

\* A worker of an open app notes its pid or saves state: the workspace keeps
\* its version.
LEMMA WorkerKeeps ==
  ASSUME RuntimeInv, RuntimeTypes', UNCHANGED <<app, runtimes, previous, staged, pointer, live>>,
         workspace # NoDir, workspace' # NoDir, workspace'.version = workspace.version,
         workspace'.whole = workspace.whole,
         workspace'.pids = workspace.pids \/ Serving
  PROVE  RuntimeInv'
<1>1. ChosenInv'
  BY DEF RuntimeInv, ChosenInv, WorkspaceValid, At
<1>2. ReplaceInv'
  BY DEF RuntimeInv, ReplaceInv, Unheld, At, Serving, Replacing
<1>3. HeldInv' /\ OpenRuntimeMatches'
  BY DEF RuntimeInv, HeldInv, OpenRuntimeMatches, LifecycleActive, Serving
<1> QED
  BY <1>1, <1>2, <1>3 DEF RuntimeInv

LEMMA RuntimeInvNext ==
  ASSUME RuntimeInv, RuntimeNext
  PROVE  RuntimeInv'
<1>0. /\ RuntimeTypes /\ RuntimeTypes' /\ ChosenInv /\ ReplaceInv /\ HeldInv /\ OpenRuntimeMatches
      /\ app \in App
  BY RuntimeTypesNext DEF RuntimeInv, RuntimeTypes
<1> USE DEF Steps, Chosen, Replacing
<1>1. CASE Launch
  BY <1>0, <1>1, GoKeeps DEF Launch
<1>2. CASE AskClose \/ CancelClose
  BY <1>0, <1>2, GoKeeps DEF AskClose, CancelClose, At, Serving, ChosenInv
<1>3. CASE BeginInstall
  <2>1. /\ app'.version = bundle /\ app'.at \in {"select", "stage"}
        /\ app'.at = "select" => runtimes[bundle] = "valid"
    BY <1>0, <1>3 DEF BeginInstall, App
  <2> QED
    BY <1>0, <1>3, <2>1 DEF BeginInstall, RuntimeInv, RuntimeTypes, ChosenInv, ReplaceInv, HeldInv,
       OpenRuntimeMatches, LifecycleActive, Serving, At
<1>4. CASE Quarantine
  BY <1>0, <1>4 DEF Quarantine, RuntimeInv, ChosenInv, ReplaceInv, HeldInv, OpenRuntimeMatches,
     LifecycleActive, Serving, At, Unheld
<1>5. CASE ActivateRuntime
  <2>1. app'.at = "select" /\ app'.version = app.version
    BY <1>0, <1>5, GoEffect DEF ActivateRuntime, Go
  <2>2. app.version \in Versions
    BY <1>0, <1>5 DEF ActivateRuntime, ChosenInv, At
  <2> QED
    BY <1>0, <1>5, <2>1, <2>2 DEF ActivateRuntime, RuntimeInv, RuntimeTypes, ChosenInv, ReplaceInv,
       HeldInv, OpenRuntimeMatches, LifecycleActive, Serving, At
<1>6. CASE SelectWorkspace
  <2> DEFINE v == WorkspaceVersion
  <2>1. At("select") /\ app.version \in Versions /\ runtimes[app.version] = "valid"
    BY <1>0, <1>6 DEF SelectWorkspace, ChosenInv, At
  <2>2. CASE Select(v) = "deferred"
    <3>1. /\ LifecycleActive /\ v # 0 /\ v # app.version /\ runtimes[v] = "valid"
          /\ workspace # NoDir /\ v = workspace.version
      BY <2>2 DEF Select, LifecycleActive, WorkspaceVersion
    <3>2. app' = [app EXCEPT !.at = "open", !.runtime = v]
      BY <1>6, <2>2 DEF SelectWorkspace
    <3>3. app'.at = "open" /\ app'.runtime = v /\ app'.version = app.version
      BY <1>0, <3>2 DEF App
    <3>4. v = pointer
      BY <1>0, <3>1 DEF HeldInv
    <3> QED
      BY <1>0, <1>6, <2>1, <3>1, <3>3, <3>4 DEF SelectWorkspace, RuntimeInv, ChosenInv, ReplaceInv,
         HeldInv, OpenRuntimeMatches, LifecycleActive, Serving, At
  <2>3. CASE Select(v) # "deferred"
    <3>1. /\ Select(v) \in {"start", "point", "seed"}
          /\ Select(v) = "point" => WorkspaceValid(app.version)
          /\ Select(v) = "seed" => ~LifecycleActive
      BY <2>3 DEF Select
    <3>2. Go(Select(v))
      BY <1>6, <2>3 DEF SelectWorkspace, Go
    <3> HIDE DEF v
    <3> QED
      BY <1>0, <1>6, <2>1, <3>1, <3>2, GoKeeps DEF SelectWorkspace
  <2> QED
    BY <2>2, <2>3
<1>7. CASE SeedWorkspace
  <2>1. app.version \in Versions
    BY <1>0, <1>7 DEF SeedWorkspace, ChosenInv, At
  <2>2. app'.at = "migrate" /\ app'.version = app.version
    BY <1>0, <1>7, GoEffect DEF SeedWorkspace, Go
  <2>3. staged' # NoDir /\ staged'.version = app.version /\ staged'.whole /\ staged'.pids = {}
    BY <1>7, <2>1, SeededDirectory, DirectoryUpdates DEF SeedWorkspace
  <2>4. ReplaceInv'
    BY <1>0, <1>7, <2>2, <2>3 DEF SeedWorkspace, ReplaceInv, Unheld, At
  <2> QED
    BY <1>0, <1>7, <2>2, <2>4 DEF SeedWorkspace, RuntimeInv, ChosenInv, HeldInv, OpenRuntimeMatches,
       LifecycleActive, Serving, At
<1>8. CASE Migrate
  <2>1. app'.at = "drop" /\ app'.version = app.version
    BY <1>0, <1>8, GoEffect DEF Migrate, Go
  <2>2. staged \in Directories /\ staged.version = app.version /\ staged.whole
        /\ Unheld(staged) /\ Unheld(workspace)
    BY <1>0, <1>8 DEF Migrate, ReplaceInv, At, RuntimeTypes, Place
  <2>3. staged' # NoDir /\ staged'.version = app.version /\ staged'.whole /\ Unheld(staged)'
    <3>1. CASE workspace = NoDir
      BY <1>8, <2>2, <3>1, DirectoryUpdates DEF Migrate, Unheld
    <3>2. CASE workspace # NoDir
      <4>1. workspace \in Directories
        BY <1>0, <3>2 DEF RuntimeTypes, Place
      <4>2. staged' = [staged EXCEPT !.data = workspace.data, !.pids = workspace.pids] /\ live' = live
        BY <1>8, <3>2 DEF Migrate
      <4>3. /\ staged' \in Directories /\ staged'.version = staged.version
            /\ staged'.whole = staged.whole /\ staged'.pids = workspace.pids
        BY <2>2, <4>1, <4>2, MigratedDirectory
      <4>4. staged' # NoDir /\ Unheld(staged)'
        BY <2>2, <3>2, <4>2, <4>3, DirectoryUpdates DEF Unheld
      <4> QED
        BY <2>2, <4>3, <4>4
    <3> QED
      BY <3>1, <3>2
  <2>4. ReplaceInv'
    BY <1>0, <1>8, <2>1, <2>2, <2>3 DEF Migrate, ReplaceInv, Unheld, At
  <2> QED
    BY <1>0, <1>8, <2>1, <2>4 DEF Migrate, RuntimeInv, ChosenInv, HeldInv, OpenRuntimeMatches,
       LifecycleActive, Serving, At
<1>9. CASE DropPrevious
  <2>1. app'.at = "move" /\ app'.version = app.version
    BY <1>0, <1>9, GoEffect DEF DropPrevious, Go
  <2>2. ReplaceInv'
    BY <1>0, <1>9, <2>1 DEF DropPrevious, ReplaceInv, Unheld, At
  <2> QED
    BY <1>0, <1>9, <2>1, <2>2 DEF DropPrevious, RuntimeInv, ChosenInv, HeldInv, OpenRuntimeMatches,
       LifecycleActive, Serving, At
<1>10. CASE MoveAway
  <2>1. app'.at = "swap" /\ app'.version = app.version /\ app'.moved = (workspace # NoDir)
    BY <1>0, <1>10 DEF MoveAway, App
  <2>2. ReplaceInv'
    BY <1>0, <1>10, <2>1 DEF MoveAway, ReplaceInv, Unheld, At
  <2> QED
    BY <1>0, <1>10, <2>1, <2>2 DEF MoveAway, RuntimeInv, ChosenInv, HeldInv, OpenRuntimeMatches,
       LifecycleActive, Serving, At
<1>11. CASE Activate
  <2>1. app'.at = "point" /\ app'.version = app.version
    BY <1>0, <1>11, GoEffect DEF Activate, Go
  <2>2. /\ workspace' # NoDir /\ workspace'.version = app.version /\ workspace'.whole
        /\ workspace'.pids \cap live' = {}
    BY <1>0, <1>11 DEF Activate, ReplaceInv, Unheld, At
  <2> QED
    BY <1>0, <1>11, <2>1, <2>2 DEF Activate, RuntimeInv, ChosenInv, ReplaceInv, HeldInv,
       OpenRuntimeMatches, LifecycleActive, Serving, At, WorkspaceValid
<1>12. CASE ActivateFails
  <2>1. app'.at = "start" /\ app'.version = app.version
    BY <1>0, <1>12, GoEffect DEF ActivateFails, Go
  <2>2. ~LifecycleActive'
    BY <1>0, <1>12 DEF ActivateFails, ReplaceInv, Unheld, At, LifecycleActive
  <2> QED
    BY <1>0, <1>12, <2>1, <2>2 DEF ActivateFails, RuntimeInv, ChosenInv, ReplaceInv, HeldInv,
       OpenRuntimeMatches, Serving, At
<1>13. CASE StepFails
  <2>1. app'.at = "start" /\ app'.version = app.version
    BY <1>0, <1>13, GoEffect DEF StepFails, Go
  <2> QED
    BY <1>0, <1>13, <2>1 DEF StepFails, RuntimeInv, ChosenInv, ReplaceInv, HeldInv,
       OpenRuntimeMatches, LifecycleActive, Serving, At
<1>14. CASE Open
  <2>1. app'.at = "open" /\ app'.version = app.version /\ app'.runtime = app.version
    BY <1>0, <1>14 DEF Open, App
  <2>2. app.version \in Versions /\ runtimes[app.version] = "valid" /\ WorkspaceValid(app.version)
    BY <1>0, <1>14 DEF Open, ChosenInv, At
  <2> QED
    BY <1>0, <1>14, <2>1, <2>2 DEF Open, RuntimeInv, ChosenInv, ReplaceInv, HeldInv,
       OpenRuntimeMatches, LifecycleActive, Serving, At, WorkspaceValid
<1>15. ASSUME NEW k \in Kinds, BeginWorker(k) \/ WorkerEnds(k) PROVE RuntimeInv'
  BY <1>0, <1>15, EndingKeeps DEF BeginWorker, WorkerEnds
<1>16. ASSUME NEW k \in Kinds, SpawnWorker(k) PROVE RuntimeInv'
  <2>1. Serving /\ UNCHANGED installVars
    BY <1>16 DEF SpawnWorker
  <2> QED
    BY <1>0, <2>1 DEF RuntimeInv, ChosenInv, ReplaceInv, HeldInv, OpenRuntimeMatches,
       Serving, At, WorkspaceValid, installVars
<1>17. ASSUME NEW k \in Kinds, NotePid(k) PROVE RuntimeInv'
  <2>1. workspace \in Directories /\ Serving
    BY <1>0, <1>17 DEF NotePid, OpenRuntimeMatches, RuntimeTypes, Place
  <2>2. /\ workspace' # NoDir /\ workspace'.version = workspace.version
        /\ workspace'.whole = workspace.whole /\ workspace # NoDir
    BY <1>17, <2>1, DirectoryUpdates DEF NotePid
  <2> QED
    BY <1>0, <1>17, <2>1, <2>2, WorkerKeeps DEF NotePid
<1>18. ASSUME NEW s \in States, Save(s) PROVE RuntimeInv'
  <2>1. workspace \in Directories
    BY <1>0, <1>18 DEF Save, RuntimeTypes, Place
  <2>2. /\ workspace' # NoDir /\ workspace'.version = workspace.version
        /\ workspace'.whole = workspace.whole /\ workspace # NoDir
        /\ workspace'.pids = workspace.pids
    BY <1>18, <2>1, DirectoryUpdates DEF Save
  <2> QED
    BY <1>0, <1>18, <2>1, <2>2, WorkerKeeps DEF Save
<1>19. CASE Quit \/ Die
  BY <1>0, <1>19, ClosedApp DEF Quit, Die, RuntimeInv, ChosenInv, ReplaceInv, HeldInv,
     OpenRuntimeMatches, LifecycleActive, Serving, At
<1>20. CASE Upgrade
  BY <1>0, <1>20, EndingKeeps DEF Upgrade
<1>21. CASE Damage
  <2>1. app'.at = "closed"
    BY <1>21 DEF Damage, At
  <2>2. HeldInv'
    <3>1. CASE UNCHANGED workspace
      BY <1>0, <1>21, <3>1 DEF Damage, HeldInv, LifecycleActive
    <3>2. CASE workspace # NoDir /\ workspace' = [workspace EXCEPT !.version = 0]
      <4>1. workspace \in Directories
        BY <1>0, <3>2 DEF RuntimeTypes, Place
      <4> QED
        BY <3>2, <4>1, DirectoryUpdates DEF HeldInv
    <3>3. CASE workspace # NoDir /\ workspace' = [workspace EXCEPT !.whole = FALSE]
      <4>1. workspace \in Directories
        BY <1>0, <3>3 DEF RuntimeTypes, Place
      <4> QED
        BY <1>0, <1>21, <3>3, <4>1, DirectoryUpdates DEF Damage, HeldInv, LifecycleActive
    <3> QED
      BY <1>21, <3>1, <3>2, <3>3 DEF Damage
  <2> QED
    BY <1>0, <2>1, <2>2 DEF RuntimeInv, ChosenInv, ReplaceInv, OpenRuntimeMatches, Serving, At
<1> QED
  BY <1>1, <1>2, <1>3, <1>4, <1>5, <1>6, <1>7, <1>8, <1>9, <1>10, <1>11, <1>12, <1>13, <1>14, <1>15,
     <1>16, <1>17, <1>18, <1>19, <1>20, <1>21 DEF RuntimeNext, InstallStep, WorkerStep

\* The app is closed and nothing was installed.
LEMMA RuntimeInvInit ==
  ASSUME RuntimeInit
  PROVE  RuntimeInv
<1>1. RuntimeTypes
  BY ClosedApp, VersionRange DEF RuntimeInit, RuntimeTypes, Place
<1> QED
  BY <1>1, ClosedApp DEF RuntimeInit, RuntimeInv, ChosenInv, ReplaceInv, HeldInv, OpenRuntimeMatches,
     LifecycleActive, Serving, At, Chosen, Replacing

LEMMA RuntimeStutters ==
  ASSUME RuntimeInv, UNCHANGED runtimeVars
  PROVE  RuntimeInv'
<1>1. RuntimeTypes'
  BY DEF RuntimeInv, RuntimeTypes, runtimeVars, installVars
<1> QED
  BY <1>1, EndingKeeps DEF runtimeVars

THEOREM RuntimeInvariance == RuntimeSpec => []RuntimeInv
<1>1. RuntimeInv /\ [RuntimeNext]_runtimeVars => RuntimeInv'
  BY RuntimeInvNext, RuntimeStutters
<1> QED
  BY <1>1, RuntimeInvInit, PTL DEF RuntimeSpec

\* An open app runs the version of its workspace from a valid runtime, for any
\* number of versions and wherever earlier installs failed or died, between
\* the two renames and before a pid was noted included
\* (installManagedRuntimeLocked).
THEOREM OpenedRuntimeMatches == RuntimeSpec => []OpenRuntimeMatches
<1>1. RuntimeInv => OpenRuntimeMatches
  BY DEF RuntimeInv
<1> QED
  BY <1>1, RuntimeInvariance, PTL

\* The workspace of a recorded live process is neither moved nor replaced,
\* whatever the app does or wherever it died (runtimeLifecycleActive).
THEOREM WorkspaceIsKept == RuntimeSpec => WorkspaceKeptForWorker
<1>1. RuntimeInv /\ [RuntimeNext]_runtimeVars =>
        (LifecycleActive => workspace' # NoDir
                            /\ (workspace'.version = workspace.version \/ damaged # damaged'))
  <2> SUFFICES ASSUME RuntimeInv, [RuntimeNext]_runtimeVars, LifecycleActive
               PROVE  /\ workspace' # NoDir
                      /\ workspace'.version = workspace.version \/ damaged # damaged'
    OBVIOUS
  <2>1. workspace \in Directories /\ workspace # NoDir /\ app.at \notin Replacing
    BY DEF RuntimeInv, RuntimeTypes, Place, ReplaceInv, Unheld, LifecycleActive
  <2>2. CASE UNCHANGED workspace
    BY <2>1, <2>2
  <2>3. CASE MoveAway \/ Activate \/ ActivateFails
    BY <2>1, <2>3 DEF MoveAway, Activate, ActivateFails, At, Replacing
  <2>4. ASSUME NEW k \in Kinds, NotePid(k) PROVE workspace' # NoDir /\ workspace'.version = workspace.version
    BY <2>1, <2>4, DirectoryUpdates DEF NotePid
  <2>5. ASSUME NEW s \in States, Save(s) PROVE workspace' # NoDir /\ workspace'.version = workspace.version
    BY <2>1, <2>5, DirectoryUpdates DEF Save
  <2>6. CASE Damage
    BY <2>1, <2>6, DirectoryUpdates DEF Damage
  <2>7. CASE \/ Launch \/ AskClose \/ CancelClose \/ Quit \/ Die \/ Upgrade
             \/ BeginInstall \/ Quarantine \/ ActivateRuntime \/ SelectWorkspace \/ SeedWorkspace
             \/ Migrate \/ DropPrevious \/ StepFails \/ Open
             \/ UNCHANGED runtimeVars
             \/ \E k \in Kinds : BeginWorker(k) \/ SpawnWorker(k) \/ WorkerEnds(k)
    BY <2>2, <2>7 DEF Launch, AskClose, CancelClose, Quit, Die, Upgrade, BeginInstall, Quarantine,
       ActivateRuntime, SelectWorkspace, SeedWorkspace, Migrate, DropPrevious, StepFails, Open,
       BeginWorker, SpawnWorker, WorkerEnds, runtimeVars, installVars
  <2> QED
    BY <2>3, <2>4, <2>5, <2>6, <2>7 DEF RuntimeNext, InstallStep, WorkerStep
<1> QED
  BY <1>1, RuntimeInvariance, PTL DEF RuntimeSpec, WorkspaceKeptForWorker

-----------------------------------------------------------------------------
(* What workers saved.                                                     *)

\* No process is alive while the workspace is replaced, and otherwise each one
\* is recorded or about to be.
LiveInv ==
  /\ app.at \in Replacing => live = {}
  /\ \A k \in live : /\ workspace # NoDir
                     /\ k \in workspace.pids \/ (spawning[k] = "started" /\ Serving)

\* What was saved is in the workspace, or in the copy that replaces it and in
\* the backup that comes back when the replacement fails.
Holds(d) == saved \subseteq (IF d = NoDir THEN {} ELSE d.data)
DataInv ==
  /\ ~At("swap") => Holds(workspace)
  /\ app.at \in {"drop", "move", "swap"} => Holds(staged)
  /\ At("swap") => Holds(IF app.moved THEN previous ELSE NoDir)

\* Steps of the app that leave processes and directories alone.
LEMMA AppKeepsData ==
  ASSUME LiveInv, DataInv, UNCHANGED <<workspace, live, saved, spawning>>,
         ~At("swap"), app'.at \notin {"drop", "move", "swap"},
         app'.at \in Replacing => app.at \in Replacing \/ ~LifecycleActive,
         app'.at \in Replacing => ~Serving,
         Serving => Serving' \/ \A k \in Kinds : spawning[k] # "started",
         live \subseteq Kinds
  PROVE  LiveInv' /\ DataInv'
<1>1. LiveInv'
  BY DEF LiveInv, LifecycleActive
<1>2. DataInv'
  BY DEF DataInv, Holds, At
<1> QED
  BY <1>1, <1>2

LEMMA DataNext ==
  ASSUME "swap" \notin Gaps, "spawn" \notin Gaps, RuntimeInv, LiveInv, DataInv, RuntimeNext
  PROVE  LiveInv' /\ DataInv'
<1>0. /\ RuntimeTypes /\ ChosenInv /\ ReplaceInv /\ OpenRuntimeMatches /\ app \in App
      /\ live \subseteq Kinds
  BY DEF RuntimeInv, RuntimeTypes
<1> USE DEF Steps, Replacing
<1>a. ASSUME NEW step \in Steps, Go(step) PROVE app'.at = step /\ app'.moved = app.moved
  BY <1>0, <1>a, GoEffect DEF Go
<1>1. CASE Launch \/ AskClose \/ CancelClose
  BY <1>0, <1>1, <1>a, AppKeepsData DEF Launch, AskClose, CancelClose, At, Serving
<1>2. CASE BeginInstall
  <2>1. app'.at \in {"select", "stage"}
    BY <1>0, <1>2 DEF BeginInstall, App
  <2> QED
    BY <1>0, <1>2, <2>1, AppKeepsData DEF BeginInstall, At, Serving
<1>3. CASE Quarantine \/ ActivateRuntime
  BY <1>0, <1>3, <1>a, AppKeepsData DEF Quarantine, ActivateRuntime, At, Serving
<1>4. CASE SelectWorkspace
  <2>1. app'.at \in {"start", "point", "seed", "open"} /\ (app'.at = "seed" => ~LifecycleActive)
    BY <1>0, <1>4 DEF SelectWorkspace, Select, App
  <2> QED
    BY <1>0, <1>4, <2>1, AppKeepsData DEF SelectWorkspace, At, Serving
<1>5. CASE SeedWorkspace
  BY <1>0, <1>5, <1>a, AppKeepsData DEF SeedWorkspace, At, Serving
<1>6. CASE Migrate
  <2>1. app'.at = "drop" /\ At("migrate") /\ Holds(workspace) /\ live' = {}
    BY <1>6, <1>a DEF Migrate, DataInv, LiveInv, At
  <2>2. saved \subseteq staged'.data /\ staged' # NoDir
    <3>1. staged \in Directories
      BY <1>0, <2>1 DEF ReplaceInv, At, RuntimeTypes, Place
    <3>2. CASE workspace = NoDir
      BY <1>6, <2>1, <3>1, <3>2, DirectoryUpdates DEF Migrate, Holds
    <3>3. CASE workspace # NoDir
      <4>1. workspace \in Directories
        BY <1>0, <3>3 DEF RuntimeTypes, Place
      <4>2. staged' \in Directories /\ staged'.data = workspace.data
        BY <1>6, <3>1, <3>3, <4>1, MigratedDirectory DEF Migrate
      <4> QED
        BY <2>1, <3>3, <4>2, DirectoryUpdates DEF Holds
    <3> QED
      BY <3>2, <3>3
  <2> QED
    BY <1>6, <2>1, <2>2 DEF Migrate, DataInv, LiveInv, Holds, At
<1>7. CASE DropPrevious
  BY <1>7, <1>a DEF DropPrevious, DataInv, LiveInv, Holds, At
<1>8. CASE MoveAway
  <2>1. app'.at = "swap" /\ app'.moved = (workspace # NoDir)
    BY <1>0, <1>8 DEF MoveAway, App
  <2> QED
    BY <1>8, <2>1 DEF MoveAway, DataInv, LiveInv, Holds, At
<1>9. CASE Activate
  BY <1>9, <1>a DEF Activate, DataInv, LiveInv, Holds, At
<1>10. CASE ActivateFails
  BY <1>0, <1>10, <1>a DEF ActivateFails, DataInv, LiveInv, Holds, At, ReplaceInv
<1>11. CASE StepFails
  <2>1. app'.at = "start" /\ ~At("swap") /\ ~Serving
    BY <1>11, <1>a DEF StepFails, At, Serving
  <2> QED
    BY <1>0, <1>11, <2>1, AppKeepsData DEF StepFails
<1>12. CASE Open
  <2>1. app'.at = "open" /\ At("point")
    BY <1>0, <1>12 DEF Open, App
  <2> QED
    BY <1>0, <1>12, <2>1, AppKeepsData DEF Open, At, Serving
<1>13. ASSUME NEW k \in Kinds, BeginWorker(k) \/ SpawnWorker(k) \/ WorkerEnds(k)
       PROVE  LiveInv' /\ DataInv'
  <2>1. DataInv'
    BY <1>13 DEF BeginWorker, SpawnWorker, WorkerEnds, DataInv, Holds, At, installVars
  <2>2. LiveInv'
    BY <1>0, <1>13 DEF BeginWorker, SpawnWorker, WorkerEnds, LiveInv, installVars, Serving,
       RuntimeTypes, OpenRuntimeMatches
  <2> QED
    BY <2>1, <2>2
<1>14. ASSUME NEW k \in Kinds, NotePid(k) PROVE LiveInv' /\ DataInv'
  <2>1. workspace \in Directories /\ Serving
    BY <1>0, <1>14 DEF NotePid, OpenRuntimeMatches, RuntimeTypes, Place
  <2>2. /\ workspace' # NoDir /\ workspace # NoDir /\ workspace'.data = workspace.data
        /\ workspace'.pids = workspace.pids \cup {k}
    BY <1>14, <2>1, DirectoryUpdates DEF NotePid
  <2>3. \A j \in Kinds : j # k => spawning'[j] = spawning[j]
    BY <1>0, <1>14 DEF NotePid, RuntimeTypes
  <2>4. LiveInv'
    BY <1>0, <1>14, <2>1, <2>2, <2>3 DEF NotePid, LiveInv, Serving
  <2>5. DataInv'
    BY <1>14, <2>1, <2>2 DEF NotePid, DataInv, Holds, At, Serving
  <2> QED
    BY <2>4, <2>5
<1>15. ASSUME NEW s \in States, Save(s) PROVE LiveInv' /\ DataInv'
  <2>1. workspace \in Directories /\ app.at \notin Replacing
    BY <1>0, <1>15 DEF Save, LiveInv, RuntimeTypes, Place
  <2>2. /\ workspace' # NoDir /\ workspace # NoDir /\ workspace'.data = workspace.data \cup {s}
        /\ workspace'.pids = workspace.pids
    BY <1>15, <2>1, DirectoryUpdates DEF Save
  <2>3. LiveInv'
    BY <1>15, <2>1, <2>2 DEF Save, LiveInv, Serving
  <2>4. DataInv'
    BY <1>15, <2>1, <2>2 DEF Save, DataInv, Holds, At
  <2> QED
    BY <2>3, <2>4
<1>16. CASE Quit \/ Die
  <2>1. app'.at = "closed" /\ ~At("swap") /\ \A k \in Kinds : spawning[k] # "started"
    BY <1>16, ClosedApp DEF Quit, Die, At
  <2>2. LiveInv'
    BY <1>0, <1>16, <2>1 DEF Quit, Die, LiveInv
  <2>3. DataInv'
    BY <1>16, <2>1 DEF Quit, Die, DataInv, Holds, At
  <2> QED
    BY <2>2, <2>3
<1>17. CASE Upgrade
  BY <1>17 DEF Upgrade, installVars, LiveInv, DataInv, Holds, At, Serving
<1>18. CASE Damage
  <2>1. app' = app /\ At("closed") /\ UNCHANGED <<previous, staged, spawning, live, saved>>
    BY <1>18 DEF Damage
  <2>2. \/ workspace' = workspace
        \/ /\ workspace # NoDir /\ workspace' # NoDir
           /\ workspace'.data = workspace.data /\ workspace'.pids = workspace.pids
    BY <1>0, <1>18, DirectoryUpdates DEF Damage, RuntimeTypes, Place
  <2> QED
    BY <2>1, <2>2 DEF LiveInv, DataInv, Holds, At, Serving
<1> QED
  BY <1>1, <1>2, <1>3, <1>4, <1>5, <1>6, <1>7, <1>8, <1>9, <1>10, <1>11, <1>12, <1>13, <1>14, <1>15,
     <1>16, <1>17, <1>18 DEF RuntimeNext, InstallStep, WorkerStep

\* What workers saved is in the workspace of every app that opens after them,
\* for any number of versions, upgrades, failed installs and deaths of the app,
\* as long as it does not die between the two renames of a swap nor between
\* the start of a worker and the note of its pid (migrateRuntimeState,
\* activateStagedDirectory, runtimeLifecycleActive).
THEOREM SavedStateSurvives ==
  ASSUME "swap" \notin Gaps, "spawn" \notin Gaps
  PROVE  RuntimeSpec => []StateSurvives
<1>1. RuntimeInit => LiveInv /\ DataInv
  BY ClosedApp DEF RuntimeInit, LiveInv, DataInv, Holds, At, Replacing
<1>2. RuntimeInv /\ (LiveInv /\ DataInv) /\ [RuntimeNext]_runtimeVars => (LiveInv /\ DataInv)'
  <2>1. ASSUME LiveInv, DataInv, UNCHANGED runtimeVars PROVE (LiveInv /\ DataInv)'
    BY <2>1 DEF runtimeVars, installVars, LiveInv, DataInv, Holds, At, Serving
  <2> QED
    BY <2>1, DataNext
<1>3. RuntimeInv /\ LiveInv /\ DataInv => StateSurvives
  BY DEF RuntimeInv, OpenRuntimeMatches, DataInv, Holds, StateSurvives, Serving, At
<1> QED
  BY <1>1, <1>2, <1>3, RuntimeInvariance, PTL DEF RuntimeSpec
=============================================================================
