------------------------------ MODULE LastWriter ------------------------------
(***************************************************************************)
(* What the synchronisation of truth_events promises, with the messages,   *)
(* the reconcile loop and the audit log left out: every replica holds, for *)
(* every row id, nothing or one version that some replica wrote, and only  *)
(* ever replaces it by a written version with a strictly later timestamp.  *)
(* TruthSync is shown to implement this specification.                     *)
(***************************************************************************)
EXTENDS Naturals

CONSTANTS Replica,  \* the nodes that hold a copy
          Key,      \* row ids
          Version,  \* records with a field ts, the timestamp that decides
          Absent    \* the row does not exist

VARIABLES store,    \* store[r][k]: the version of row k that replica r holds
          written   \* the <<key, version>> pairs written so far

lwVars == <<store, written>>

LWTypeOK ==
    /\ store \in [Replica -> [Key -> Version \cup {Absent}]]
    /\ written \subseteq Key \X Version

LWInit ==
    /\ store = [r \in Replica |-> [k \in Key |-> Absent]]
    /\ written = {}

\* A replica creates a row it does not have yet.
Write(r, k, v) ==
    /\ store[r][k] = Absent
    /\ store' = [store EXCEPT ![r][k] = v]
    /\ written' = written \cup {<<k, v>>}

\* A replica takes over a version that was written, here or elsewhere.
Adopt(r, k, v) ==
    /\ <<k, v>> \in written
    /\ store[r][k] = Absent \/ v.ts > store[r][k].ts
    /\ store' = [store EXCEPT ![r][k] = v]
    /\ UNCHANGED written

LWNext ==
    \E r \in Replica, k \in Key, v \in Version : Write(r, k, v) \/ Adopt(r, k, v)

LWSpec == LWInit /\ [][LWNext]_lwVars

===============================================================================
