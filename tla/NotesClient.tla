----------------------------- MODULE NotesClient -----------------------------
(***************************************************************************)
(* Pocket Notes in the browser: the list on screen, the IndexedDB copy for  *)
(* offline reading, and the requests that are in flight while students      *)
(* sign in and out of one device.                                           *)
(*                                                                         *)
(* A request captures its token when it is sent; its reply is applied       *)
(* later, to whatever `state' is then.  The list is a snapshot the server   *)
(* took in between; of a write only the order of the replies matters, so    *)
(* the server runs it in the step that applies the reply.                   *)
(* IndexedDB runs its transactions in the order of the calls; only the      *)
(* completion of the long one, a whole list, is a step of its own.          *)
(***************************************************************************)
EXTENDS Functions

CONSTANTS
  Users, Notes,    \* a note stands for the saved answer too: client_id <-> id
  Owner,           \* the student whose answer it is
  NoUser, NoNote

ASSUME NotesAssumption ==
  /\ Owner \in [Notes -> Users]
  /\ NoUser \notin Users /\ NoNote \notin Notes

VARIABLES
  session,   \* the Supabase session of the browser
  online,    \* navigator.onLine
  rows,      \* server: the notes of each student
  state,     \* the page's state object
  load,      \* the list request and what follows it
  mut,       \* the request `busy' is raised for
  saves,     \* Save buttons and their requests
  idb,       \* the offline copy
  mixed      \* history: a sign-out overtook a request, or a reply of one
             \* student was applied under another

notesVars == <<session, online, rows, state, load, mut, saves, idb, mixed>>

Kinds == {"tags", "suggest", "delete", "generate"}
Idle == [at |-> "idle"]
EmptyState ==
  [notes |-> {}, loaded |-> FALSE, fromCache |-> FALSE, userId |-> NoUser,
   cachedIds |-> {}, storageOk |-> TRUE, selectedId |-> NoNote, study |-> NoNote,
   busy |-> FALSE]
EmptyStore == [notes |-> [u \in Users \cup {NoUser} |-> {}], synced |-> {}, last |-> NoUser]

Own(u) == {n \in Notes : Owner[n] = u}

\* A visit begins on a device that may keep the copy of an earlier one, whose
\* session may have ended without a sign-out.
NotesInit ==
  /\ session \in Users \cup {NoUser}
  /\ online \in BOOLEAN
  /\ rows = [u \in Users |-> Own(u)]
  /\ state = EmptyState
  /\ load = Idle /\ mut = Idle
  /\ saves = [n \in Notes |-> [at |-> "idle"]]
  /\ idb \in {EmptyStore} \cup
       {[EmptyStore EXCEPT !.notes[u] = Own(u), !.synced = {u}, !.last = u] : u \in Users}
  /\ mixed = FALSE

-----------------------------------------------------------------------------
(* notes-store.js *)

\* A cursor over the index for no user runs over the records of every user.
StoreAll(u, ns) ==
  [notes  |-> IF u = NoUser THEN [EmptyStore.notes EXCEPT ![NoUser] = @ \cup ns]
              ELSE [idb.notes EXCEPT ![u] = ns],
   synced |-> idb.synced \cup {u},
   last   |-> u]

PutNote(u, n) == [idb EXCEPT !.notes[u] = @ \cup {n}, !.last = u]

RemoveNote(u, n) == [idb EXCEPT !.notes[u] = @ \ {n}]

ClearUser(u) == [idb EXCEPT !.notes[u] = {}, !.synced = @ \ {u}, !.last = NoUser]

\* The id the cache is read for: the page's, else the last one stored.
CacheUser == IF state.userId # NoUser THEN state.userId ELSE idb.last

-----------------------------------------------------------------------------
(* Requests *)

\* What becomes of a request when it is asked for.
Asked(r) ==
  IF ~online THEN [r EXCEPT !.at = "reply", !.reply = "network"]
  ELSE IF session = NoUser THEN [r EXCEPT !.at = "reply", !.reply = "auth"]
  ELSE [r EXCEPT !.at = "sent", !.tok = session]

Crosses(r) == mixed \/ (r.tok # NoUser /\ r.tok # state.userId)

\* Mutant: the note is marked before it is known to be stored.
CacheNoteFirst(s, n) ==
  /\ state' = [s EXCEPT !.cachedIds = @ \cup {n}]
  /\ idb' \in {idb, PutNote(s.userId, n)}

\* noteCached: the put is called for the user of the moment.
CacheNote(s, n) ==
  \/ /\ idb' = PutNote(s.userId, n)
     /\ state' = [s EXCEPT !.cachedIds = @ \cup {n}]
  \/ /\ state' = [s EXCEPT !.storageOk = FALSE]
     /\ UNCHANGED idb

-----------------------------------------------------------------------------
(* Loading *)

\* Mutant: the list of the other student stays until the new one is there.
ResetButList(s) ==
  [s EXCEPT !.loaded = FALSE, !.cachedIds = {}, !.selectedId = NoNote,
            !.study = NoNote, !.fromCache = FALSE]

ResetForNewUser(s) ==
  [s EXCEPT !.notes = {}, !.loaded = FALSE, !.cachedIds = {}, !.selectedId = NoNote,
            !.study = NoNote, !.fromCache = FALSE]

\* Opening the view, Retry, the network coming back, and 1.5 s after a sign-in.
LoadNotes ==
  /\ load.at = "idle"
  /\ state' = IF session = NoUser THEN state
              ELSE [(IF state.userId \in {NoUser, session} THEN state
                     ELSE ResetForNewUser(state)) EXCEPT !.userId = session]
  /\ load' = Asked([at |-> "", tok |-> NoUser, reply |-> "", got |-> {}, partial |-> FALSE])
  /\ UNCHANGED <<session, online, rows, mut, saves, idb, mixed>>

\* fetchAllPages reads by offset: a note that goes away between two pages makes
\* it miss another one.  With more than 12 pages the listing is partial.
ServeList ==
  /\ load.at = "sent"
  /\ \/ \E got \in SUBSET rows[load.tok], partial \in BOOLEAN :
          load' = [load EXCEPT !.at = "reply", !.reply = "ok", !.got = got, !.partial = partial]
     \/ \E e \in {"network", "http"} : load' = [load EXCEPT !.at = "reply", !.reply = e]
  /\ UNCHANGED <<session, online, rows, state, mut, saves, idb, mixed>>

ApplyServerList ==
  /\ load.at = "reply" /\ load.reply = "ok"
  /\ mixed' = Crosses(load)
  /\ LET shown == [state EXCEPT !.notes = load.got, !.fromCache = FALSE, !.cachedIds = {}]
     IN  \/ /\ ~load.partial
            /\ idb' = StoreAll(state.userId, load.got)
            /\ state' = shown
            /\ load' = [load EXCEPT !.at = "store"]
         \/ /\ ~load.partial
            /\ state' = [shown EXCEPT !.storageOk = FALSE, !.loaded = TRUE]
            /\ load' = Idle
            /\ UNCHANGED idb
         \/ /\ load.partial     \* a partial listing never replaces the cache
            /\ state' = [shown EXCEPT !.loaded = TRUE]
            /\ load' = Idle
            /\ UNCHANGED idb
  /\ UNCHANGED <<session, online, rows, mut, saves>>

ListStored ==
  /\ load.at = "store"
  /\ state' = [state EXCEPT !.cachedIds = @ \cup load.got, !.loaded = TRUE]
  /\ load' = Idle
  /\ UNCHANGED <<session, online, rows, mut, saves, idb, mixed>>

LoadFails ==
  /\ load.at = "reply" /\ load.reply \in {"auth", "http"} /\ online
  /\ state' = IF load.reply = "auth"
              THEN [state EXCEPT !.notes = {}, !.fromCache = FALSE, !.loaded = TRUE]
              ELSE [state EXCEPT !.loaded = TRUE]
  /\ load' = Idle
  /\ UNCHANGED <<session, online, rows, mut, saves, idb, mixed>>

\* loadFromCache: the copy is read, and shown in a later step.
ReadCache ==
  /\ load.at = "reply" /\ load.reply # "ok"
  /\ load.reply = "network" \/ ~online
  /\ load' = [at |-> "cached", uid |-> CacheUser, got |-> idb.notes[CacheUser],
              any |-> CacheUser # NoUser /\ (CacheUser \in idb.synced \/ idb.notes[CacheUser] # {})]
  /\ UNCHANGED <<session, online, rows, state, mut, saves, idb, mixed>>

ShowCache ==
  /\ load.at = "cached"
  /\ state' = IF load.any
              THEN [state EXCEPT !.userId = load.uid, !.notes = load.got, !.cachedIds = load.got,
                                 !.fromCache = TRUE, !.loaded = TRUE]
              ELSE [state EXCEPT !.loaded = TRUE]
  /\ load' = Idle
  /\ UNCHANGED <<session, online, rows, mut, saves, idb, mixed>>

-----------------------------------------------------------------------------
(* Saving an answer *)

SaveAnswer(n) ==
  /\ Owner[n] = session
  /\ saves[n].at = "idle"
  /\ saves' = [saves EXCEPT ![n] = IF online THEN [at |-> "sent", tok |-> session] ELSE @]
  /\ UNCHANGED <<session, online, rows, state, load, mut, idb, mixed>>

\* The same answer has the same client_id: a repeated save finds the row.
RunSave(n) == rows' = [rows EXCEPT ![saves[n].tok] = @ \cup {n}]

Saved(n) ==
  /\ saves[n].at = "sent"
  /\ RunSave(n)
  /\ saves' = [saves EXCEPT ![n] = Idle]
  /\ mixed' = Crosses(saves[n])
  /\ LET s == IF state.loaded THEN [state EXCEPT !.notes = @ \cup {n}] ELSE state
     IN  IF state.userId # NoUser THEN CacheNote(s, n)
         ELSE state' = s /\ UNCHANGED idb
  /\ UNCHANGED <<session, online, load, mut>>

\* Refused, or lost before or after the server ran it: the button offers a retry.
SaveFails(n) ==
  /\ saves[n].at = "sent"
  /\ RunSave(n) \/ UNCHANGED rows
  /\ saves' = [saves EXCEPT ![n] = Idle]
  /\ UNCHANGED <<session, online, state, load, mut, idb, mixed>>

-----------------------------------------------------------------------------
(* A note that is open *)

OpenNote(n) ==
  /\ n \in state.notes /\ state.selectedId = NoNote
  /\ state' = [state EXCEPT !.selectedId = n, !.study = NoNote]
  /\ UNCHANGED <<session, online, rows, load, mut, saves, idb, mixed>>

CloseNote ==
  /\ state.selectedId # NoNote
  /\ state' = [state EXCEPT !.selectedId = NoNote, !.study = NoNote]
  /\ UNCHANGED <<session, online, rows, load, mut, saves, idb, mixed>>

\* ensureStudy: stored flashcards or a stored quiz are opened without a request.
OpenStored ==
  /\ state.selectedId \in state.notes
  /\ state' = [state EXCEPT !.study = state.selectedId]
  /\ UNCHANGED <<session, online, rows, load, mut, saves, idb, mixed>>

\* The buttons of an open note act unless they were drawn disabled.
Editable == /\ state.selectedId \in state.notes
            /\ ~state.fromCache /\ online /\ ~state.busy

\* saveTags, suggestTopics, deleteNote and generate up to their request.
Mutate(k) ==
  /\ Editable
  /\ state' = [state EXCEPT !.busy = TRUE,
                            !.study = IF k \in {"suggest", "generate"} THEN state.selectedId ELSE @]
  /\ mut' = Asked([at |-> "", kind |-> k, note |-> state.selectedId, tok |-> NoUser, reply |-> ""])
  /\ UNCHANGED <<session, online, rows, load, saves, idb, mixed>>

Found == mut.note \in rows[mut.tok]

RunMutation ==
  rows' = IF mut.kind = "delete"
          THEN [rows EXCEPT ![mut.tok] = @ \ {mut.note}] ELSE rows

MutationOver(s) == [s EXCEPT !.busy = FALSE]

\* replaceNote, for saveTags and generate.  A list that lost the note stays so.
NoteReplaced ==
  /\ mut.at = "sent" /\ mut.kind \in {"tags", "generate"} /\ Found
  /\ mixed' = Crosses(mut)
  /\ CacheNote(MutationOver(state), mut.note)
  /\ mut' = Idle
  /\ UNCHANGED <<session, online, rows, load, saves>>

\* Topics or an error are written into the study of the moment.  Without one the
\* handler throws, so does the handler of that error, and `busy' stays raised.
TopicsSuggested ==
  /\ mut.at # "idle" /\ mut.kind = "suggest"
  /\ mixed' = Crosses(mut)
  /\ state' = IF state.study = NoNote THEN state ELSE MutationOver(state)
  /\ mut' = Idle
  /\ UNCHANGED <<session, online, rows, load, saves, idb>>

NoteDeleted ==
  /\ mut.at = "sent" /\ mut.kind = "delete"
  /\ RunMutation
  /\ mixed' = Crosses(mut)
  /\ LET n == mut.note
         s == [MutationOver(state) EXCEPT !.notes = @ \ {n}, !.selectedId = NoNote,
                 !.study = IF Found THEN NoNote ELSE @,       \* 404: already gone
                 !.cachedIds = IF Found THEN @ \ {n} ELSE @]
     IN  \/ /\ idb' = RemoveNote(state.userId, n)
            /\ state' = s
         \/ /\ state' = [s EXCEPT !.storageOk = FALSE]
            /\ UNCHANGED idb
  /\ mut' = Idle
  /\ UNCHANGED <<session, online, load, saves>>

\* Refused, or lost before or after the server ran it.
MutationFails ==
  /\ mut.at # "idle" /\ mut.kind # "suggest"
  /\ (mut.at = "sent" /\ RunMutation) \/ UNCHANGED rows
  /\ state' = [MutationOver(state) EXCEPT !.study = IF mut.kind = "generate" THEN @ ELSE mut.note]
  /\ mut' = Idle
  /\ UNCHANGED <<session, online, load, saves, idb, mixed>>

-----------------------------------------------------------------------------
(* Surroundings *)

SignIn(u) ==
  /\ session = NoUser /\ online
  /\ session' = u
  /\ UNCHANGED <<online, rows, state, load, mut, saves, idb, mixed>>

\* SIGNED_OUT: the page forgets and the student's copy is wiped, if it can be.
OnSignedOut ==
  /\ session # NoUser
  /\ session' = NoUser
  /\ state' = [ResetForNewUser(state) EXCEPT !.userId = NoUser]
  /\ idb' \in {idb, IF CacheUser = NoUser THEN idb ELSE ClearUser(CacheUser)}
  /\ mixed' = (mixed \/ {load, mut} # {Idle} \/ Range(saves) # {Idle})
  /\ UNCHANGED <<online, rows, load, mut, saves>>

Network ==
  /\ online' = ~online
  /\ UNCHANGED <<session, rows, state, load, mut, saves, idb, mixed>>

\* Another device of the student deletes a note.
Elsewhere(u) ==
  /\ \E n \in rows[u] : rows' = [rows EXCEPT ![u] = @ \ {n}]
  /\ UNCHANGED <<session, online, state, load, mut, saves, idb, mixed>>

-----------------------------------------------------------------------------
Loading == ServeList \/ ApplyServerList \/ ListStored
           \/ LoadFails \/ ReadCache \/ ShowCache

Mutating == NoteReplaced \/ TopicsSuggested \/ NoteDeleted \/ MutationFails

Saving(n) == Saved(n) \/ SaveFails(n)

NotesNext ==
  \/ LoadNotes \/ Loading
  \/ \E n \in Notes : SaveAnswer(n) \/ Saving(n) \/ OpenNote(n)
  \/ CloseNote \/ OpenStored
  \/ \E k \in Kinds : Mutate(k)
  \/ Mutating
  \/ \E u \in Users : SignIn(u) \/ Elsewhere(u)
  \/ OnSignedOut \/ Network

NotesSpec == NotesInit /\ [][NotesNext]_notesVars

-----------------------------------------------------------------------------
\* The page, the copy and the requests keep their types.
NotesTypeOK ==
  /\ session \in Users \cup {NoUser} /\ online \in BOOLEAN /\ mixed \in BOOLEAN
  /\ \A u \in Users : rows[u] \subseteq Own(u)
  /\ state.notes \cup state.cachedIds \subseteq Notes
  /\ state.userId \in Users \cup {NoUser}
  /\ {state.selectedId, state.study} \subseteq Notes \cup {NoNote}
  /\ idb.last \in Users \cup {NoUser}
  /\ \A u \in Users \cup {NoUser} : idb.notes[u] \subseteq Notes

\* As long as no request outlived the visit it was made in, the list
\* and every student's offline copy hold only their own notes, across sign-ins,
\* sign-outs, expired sessions and copies that an earlier visit left behind.
OwnNotesOnly ==
  ~mixed => /\ state.notes \subseteq Own(state.userId)
            /\ \A u \in Users : idb.notes[u] \subseteq Own(u)

\* A note the list marks as available offline is in the copy that an offline
\* load would read, whatever raced with the list and however writes failed.
OfflineClaimHolds ==
  (~mixed /\ state.storageOk /\ ~state.fromCache /\ state.userId # NoUser) =>
     (state.notes \cap state.cachedIds) \subseteq idb.notes[state.userId]
=============================================================================
