----------------------------- MODULE OfflineShell -----------------------------
(***************************************************************************)
(* The service worker that lets the app open without a network: installing   *)
(* and replacing versions of it, what each version has stored, and the       *)
(* "available offline" the page claims on the word of the worker in control. *)
(***************************************************************************)
EXTENDS Naturals, FiniteSets

CONSTANTS
  Core, Required, Optional,   \* assets: CORE_URLS, REQUIRED_CDN, OPTIONAL_CDN
  LastVersion,                \* bound: deployments of SW_VERSION
  MaxStatus                   \* bound: GET_STATUS messages in flight

ASSUME ShellAssumption == LastVersion \in Nat \ {0} /\ MaxStatus \in Nat

VARIABLES
  deployed,    \* the version the server serves
  control,     \* the version that controls the page, 0 without one
  installing,  \* the version being installed, 0 without one
  activating,  \* the version in its activate handler, 0 without one
  cleaned,     \* that handler has deleted the other caches
  stored,      \* per version: asset -> what its caches hold
  statuses,    \* GET_STATUS messages in flight
  claim        \* state.sw of the page: the version that said "ready", 0 if none

shellVars == <<deployed, control, installing, activating, cleaned, stored, statuses, claim>>

Assets == Core \cup Required \cup Optional
Versions == 1..LastVersion
Responses == {"ok", "error", "lost"}
NothingStored == [a \in Assets |-> "nothing"]

ShellInit ==
  /\ deployed = 1 /\ control = 0 /\ installing = 0 /\ activating = 0 /\ cleaned = FALSE
  /\ stored = [v \in Versions |-> NothingStored]
  /\ statuses = {} /\ claim = 0

\* Mutant: an error page is stored like any other response.
PutAny(v, a, response) ==
  IF response = "lost" THEN stored ELSE [stored EXCEPT ![v][a] = response]

\* Only successful responses are stored, "so an error page can never become
\* the offline copy".
Put(v, a, response) ==
  IF response = "ok" THEN [stored EXCEPT ![v][a] = response] ELSE stored

-----------------------------------------------------------------------------
Deploy ==
  /\ deployed < LastVersion
  /\ deployed' = deployed + 1
  /\ UNCHANGED <<control, installing, activating, stored, statuses, claim, cleaned>>

\* registerServiceWorker, on each visit, finds the version that is served.
Register ==
  /\ installing = 0 /\ activating = 0 /\ control # deployed
  /\ installing' = deployed
  /\ UNCHANGED <<deployed, control, activating, stored, statuses, claim, cleaned>>

\* install: the core assets one by one; one that cannot be had ends it.
Precache(a, response) ==
  /\ installing # 0 /\ a \in Core
  /\ stored' = Put(installing, a, response)
  /\ installing' = IF response = "ok" THEN installing ELSE 0
  /\ UNCHANGED <<deployed, control, activating, statuses, claim, cleaned>>

\* The libraries, as many as can be had; then skipWaiting.
Installed ==
  /\ installing # 0
  /\ \A a \in Core : stored[installing][a] = "ok"
  /\ \E had \in SUBSET (Required \cup Optional) :
       stored' = [stored EXCEPT ![installing] =
                    [a \in Assets |-> IF a \in had THEN "ok" ELSE @[a]]]
  /\ installing' = 0 /\ activating' = installing
  /\ UNCHANGED <<deployed, control, statuses, claim, cleaned>>

\* activate: the caches of every other version are deleted ...
Cleaned(v) == [w \in Versions |-> IF w = v THEN stored[w] ELSE NothingStored]

CleanUp ==
  /\ activating # 0 /\ ~cleaned
  /\ stored' = Cleaned(activating) /\ cleaned' = TRUE
  /\ UNCHANGED <<deployed, control, installing, activating, statuses, claim>>

\* ... and the open page is claimed; controllerchange asks for the status.
Ask(v) == statuses' = statuses \cup {[to |-> v, core |-> "unknown"]}

Claimed ==
  /\ activating # 0 /\ cleaned
  /\ control' = activating /\ activating' = 0 /\ cleaned' = FALSE
  /\ Ask(activating)
  /\ UNCHANGED <<deployed, installing, stored, claim>>

-----------------------------------------------------------------------------
\* networkFirst and staleWhileRevalidate: whatever the page is given, the
\* answer of the network is what may be stored.
Fetch(a, response) ==
  /\ control # 0
  /\ stored' = Put(control, a, response)
  /\ UNCHANGED <<deployed, control, installing, activating, statuses, claim, cleaned>>

\* refreshSwStatus
RefreshSwStatus ==
  /\ IF control = 0 THEN claim' = 0 /\ UNCHANGED statuses
     ELSE Cardinality(statuses) < MaxStatus /\ Ask(control) /\ UNCHANGED claim
  /\ UNCHANGED <<deployed, control, installing, activating, stored, cleaned>>

\* computeStatus looks at the core, and then at the libraries.
Has(v, assets) == \A a \in assets : stored[v][a] # "nothing"

CoreChecked(s) ==
  /\ s \in statuses /\ s.core = "unknown"
  /\ statuses' = (statuses \ {s}) \cup
                 {[s EXCEPT !.core = IF Has(s.to, Core) THEN "there" ELSE "missing"]}
  /\ UNCHANGED <<deployed, control, installing, activating, stored, claim, cleaned>>

Ready(s) == s.core = "there" /\ Has(s.to, Required)

StatusAnswered(s) ==
  /\ s \in statuses /\ s.core # "unknown"
  /\ statuses' = statuses \ {s}
  /\ claim' = IF Ready(s) THEN s.to ELSE 0
  /\ UNCHANGED <<deployed, control, installing, activating, stored, cleaned>>

\* SW_STATUS_TIMEOUT_MS: a late answer is not listened to.
StatusTimeout(s) ==
  /\ s \in statuses
  /\ statuses' = statuses \ {s}
  /\ claim' = 0
  /\ UNCHANGED <<deployed, control, installing, activating, stored, cleaned>>

ShellNext ==
  \/ Deploy \/ Register \/ Installed \/ CleanUp \/ Claimed \/ RefreshSwStatus
  \/ \E a \in Assets, r \in Responses : Precache(a, r) \/ Fetch(a, r)
  \/ \E s \in statuses : CoreChecked(s) \/ StatusAnswered(s) \/ StatusTimeout(s)

ShellSpec == ShellInit /\ [][ShellNext]_shellVars

-----------------------------------------------------------------------------
\* "The UI never claims offline support that is not actually there": when the
\* worker in control is the one that said "ready", its caches hold a good copy of
\* everything the app needs to open, whatever was fetched, failed, installed or
\* deployed since.  While the next version cleans up, they may be gone already.
ReadyIsTrue ==
  (claim # 0 /\ claim = control /\ activating = 0) =>
     \A a \in Core \cup Required : stored[claim][a] = "ok"
=============================================================================
