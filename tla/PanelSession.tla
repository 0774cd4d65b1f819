---------------------------- MODULE PanelSession ----------------------------
(***************************************************************************)
(* panel-session.json: a panel that is started for a repository looks for  *)
(* one that already serves it and reuses that one, or forgets a stale      *)
(* record and serves itself.  A panel removes its own record when it ends; *)
(* one that is killed leaves it behind.                                    *)
(***************************************************************************)
EXTENDS Naturals

CONSTANTS
  Panels,      \* processes started as a panel of the repository
  Prompt,      \* a serving panel answers the health check within 750 ms
  NoSession,
  Garbled      \* a record that is being written, or was not to its end

ASSUME SessionAssumption == NoSession \notin Panels /\ Garbled \notin Panels

VARIABLES
  panel,       \* where each process is
  seen,        \* the session it has read
  session      \* the file: a panel, NoSession or Garbled

sessionVars == <<panel, seen, session>>

SessionInit ==
  /\ panel = [p \in Panels |-> "off"] /\ seen = [p \in Panels |-> NoSession]
  /\ session = NoSession

Starting == {"look", "check", "forget", "listen", "unlisted", "writing"}
Up == {"unlisted", "writing", "serving", "stopping"}   \* the server answers
Is(p, where) == panel[p] = where
Becomes(p, where) == panel' = [panel EXCEPT ![p] = where]

\* Bound: launches take turns; they do overlap the end of other panels.
StartPanel(p) ==
  /\ Is(p, "off") /\ \A q \in Panels : panel[q] \notin Starting
  /\ Becomes(p, "look")
  /\ UNCHANGED <<seen, session>>

\* readPanelSession removes what it cannot parse.
ReadSession(p) ==
  /\ Is(p, "look")
  /\ seen' = [seen EXCEPT ![p] = IF session \in Panels THEN session ELSE NoSession]
  /\ Becomes(p, IF session \in Panels THEN "check" ELSE "listen")
  /\ session' = IF session = Garbled THEN NoSession ELSE session

\* existingControlPanelURL: the process lives and its server answers in time.
Reuse(p) ==
  /\ Is(p, "check") /\ panel[seen[p]] \in Up
  /\ Becomes(p, "off")
  /\ UNCHANGED <<seen, session>>
FindStale(p) ==
  /\ Is(p, "check") /\ (panel[seen[p]] \in Up => ~Prompt)
  /\ Becomes(p, "forget")
  /\ UNCHANGED <<seen, session>>
Forget(p) ==
  /\ Is(p, "forget")
  /\ session' = NoSession
  /\ Becomes(p, "listen")
  /\ UNCHANGED seen

\* The listener and the server, then the record: not an atomic write.
Serve(p) ==
  /\ Is(p, "listen")
  /\ Becomes(p, "unlisted")
  /\ UNCHANGED <<seen, session>>
PersistSession(p) ==
  \/ Is(p, "unlisted") /\ session' = Garbled /\ Becomes(p, "writing") /\ UNCHANGED seen
  \/ Is(p, "writing") /\ session' = p /\ Becomes(p, "serving") /\ UNCHANGED seen

\* handleShutdown answers first; the server closes 150 ms later.
AskShutdown(p) ==
  /\ Is(p, "serving") /\ Becomes(p, "stopping")
  /\ UNCHANGED <<seen, session>>
CloseServer(p) ==
  /\ Is(p, "stopping") /\ Becomes(p, "closed")
  /\ UNCHANGED <<seen, session>>

CarelessRemove(p) ==
  /\ Is(p, "closed") /\ Becomes(p, "off")
  /\ session' = NoSession
  /\ UNCHANGED seen

\* removePanelSession: only the record of this process and session.
RemoveOwn(p) ==
  /\ Is(p, "closed") /\ Becomes(p, "off")
  /\ session' = IF session = p THEN NoSession ELSE session
  /\ UNCHANGED seen

Killed(p) ==
  /\ ~Is(p, "off") /\ Becomes(p, "off")
  /\ UNCHANGED <<seen, session>>

SessionStep(p) ==
  \/ StartPanel(p) \/ ReadSession(p) \/ Reuse(p) \/ FindStale(p) \/ Forget(p) \/ Serve(p)
  \/ PersistSession(p) \/ AskShutdown(p) \/ CloseServer(p) \/ RemoveOwn(p) \/ Killed(p)
SessionNext == \E p \in Panels : SessionStep(p)
SessionSpec == SessionInit /\ [][SessionNext]_sessionVars

\* At most one panel serves the repository, so that one process keeps the
\* operations, however panels were stopped or killed before
\* (StartHAControlPanelServer with ReuseExisting).
OnePanel == \A p, q \in Panels : panel[p] \in Up /\ panel[q] \in Up => p = q
=============================================================================
