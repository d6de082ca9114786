----------------------------- MODULE ProjectStore -----------------------------
(***************************************************************************)
(* Notebooks and accounts in one browser: what is in memory, the copy in    *)
(* localStorage, the rows in the database, and the requests in flight while *)
(* students sign in and out.  Of a notebook the model keeps which students   *)
(* have their work in it.  Saves reach the database in any order.          *)
(***************************************************************************)
EXTENDS FiniteSets, Functions

CONSTANTS
  Students, Guest,
  Books,       \* ids a new notebook can get
  Recent,      \* id of the Recent Chats bucket, per student and for a guest
  NoBook,
  MaxSaves,    \* bound: saves in flight
  MaxVisits    \* bound: sign-ins

ASSUME ProjectAssumption ==
  /\ Guest \notin Students
  /\ Recent \in [Students \cup {Guest} -> STRING] /\ IsInjective(Recent)
  /\ \A u \in DOMAIN Recent : Recent[u] \notin Books \cup {NoBook}
  /\ NoBook \notin Books

VARIABLES
  user,       \* currentUser
  view,       \* projectsLoadState
  books,      \* projects: notebook -> whose work is in it
  current,    \* activeProjectId
  cache,      \* localStorage["kognit_projects"]
  full,       \* localStorage refuses to store (for the whole visit)
  table,      \* user_projects: notebook -> owner and whose work
  loading,    \* <<student, "list" or "profile">> requests in flight
  upserts,    \* syncProjectToDatabase in flight
  deletion,   \* deleteProjectFromDatabase in flight: <<notebook, student>>
  profile,    \* whose profile is shown
  visits,     \* sign-ins so far
  crossed     \* history: a session ended without Log out, or Log out
              \* overtook a request

projectVars == <<user, view, books, current, cache, full, table, loading, upserts,
                 deletion, profile, visits, crossed>>

NoDeletion == <<NoBook, Guest>>

\* Whose work there is in a notebook that u makes.
By(u) == {u} \ {Guest}

None == [b \in {} |-> {}]
With(f, b, v) == [x \in DOMAIN f \cup {b} |-> IF x = b THEN v ELSE f[x]]
Without(f, b) == Restrict(f, DOMAIN f \ {b})

\* A visit begins with or without a session, on a browser whose last visitor
\* may have left a copy behind.
ProjectInit ==
  /\ user \in Students \cup {Guest}
  /\ view = "loading" /\ books = None /\ current = NoBook
  /\ cache \in {None} \cup {With(None, Recent[u], {u}) : u \in Students}
  /\ user # Guest => cache \in {None, With(None, Recent[user], {user})}
  /\ full \in BOOLEAN
  /\ table \in {None} \cup {With(None, Recent[u], [owner |-> u, work |-> {u}]) : u \in Students}
  /\ loading = {} /\ upserts = {} /\ deletion = NoDeletion
  /\ profile = Guest /\ visits = 0
  /\ crossed = (user = Guest /\ cache # None)

-----------------------------------------------------------------------------
\* saveProjectsToStorage: the local copy is written if it can be; of a student,
\* the active notebook, and no other, goes to the database.
SaveProjects(bs, b) ==
  /\ books' = bs
  /\ cache' = IF full THEN cache ELSE bs
  /\ upserts' = IF user # Guest /\ b \in DOMAIN bs
                THEN upserts \cup {[book |-> b, owner |-> user, work |-> bs[b]]}
                ELSE upserts

\* What the student does is bounded; the page's own saves come on top.
Room == Cardinality(upserts) < MaxSaves

\* initializeActiveProject: the startup chat is one of Recent Chats, an unused
\* one if there is one, and then nothing is saved.
StartupChat(bs, u, state) ==
  LET r == Recent[u]
      all == IF r \in DOMAIN bs THEN bs ELSE With(bs, r, By(u))
  IN  /\ current' = r
      /\ view' = state
      /\ \/ books' = all /\ r \in DOMAIN bs /\ UNCHANGED <<cache, upserts>>
         \/ SaveProjects(all, r)

\* DOMContentLoaded, and handleEmailAuth after a sign-in: the list, and then
\* the profile.
OpenApp ==
  /\ current = NoBook /\ loading = {}
  /\ IF user = Guest
     THEN StartupChat(cache, Guest, "ready") /\ UNCHANGED loading
     ELSE loading' = {<<user, "list">>} /\ UNCHANGED <<view, books, current, cache, upserts>>
  /\ UNCHANGED <<user, table, deletion, profile, crossed, full, visits>>

SignIn(u) ==
  /\ user = Guest /\ current # NoBook
  /\ user' = u /\ visits < MaxVisits /\ visits' = visits + 1
  /\ loading' = loading \cup {<<u, "list">>}
  /\ view' = "loading"
  /\ UNCHANGED <<books, current, cache, full, table, upserts, deletion, profile, crossed>>

\* reloadProjectsFromDatabase: Retry on the Notebooks page.
Reload ==
  /\ view = "degraded" /\ user # Guest /\ Room
  /\ loading' = loading \cup {<<user, "reload">>}
  /\ view' = "loading"
  /\ UNCHANGED <<user, books, current, cache, full, table, upserts, deletion, profile, crossed, visits>>

\* proj_<time>: an id no notebook has.
Fresh == Books \ (DOMAIN books \cup DOMAIN table \cup DOMAIN cache \cup {s.book : s \in upserts})

Rows(u) == {b \in DOMAIN table : table[b].owner = u}

ListOver(u, r) ==
  /\ <<u, r>> \in loading /\ r # "profile"
  /\ loading' = (loading \ {<<u, r>>}) \cup IF r = "list" THEN {<<u, "profile">>} ELSE {}
  /\ UNCHANGED <<user, table, deletion, profile, crossed, full, visits>>

\* loadProjectsFromDatabase.  An account without rows starts fresh.
ListLoaded(u, r) ==
  /\ ListOver(u, r)
  /\ IF Rows(u) # {}
     THEN StartupChat([b \in Rows(u) |-> table[b].work], user, "ready")
     ELSE \E b \in Fresh :
            /\ SaveProjects(With(None, b, By(user)), b)
            /\ current' = b /\ view' = "ready"

\* Mutant: a list that cannot be had is reported to nobody.
ListFailsUnseen(u, r) == ListOver(u, r) /\ UNCHANGED <<view, books, current, cache, upserts>>

ListFails(u, r) == ListOver(u, r) /\ StartupChat(cache, user, "degraded")

\* checkAndLoadProfile: found or missing; after an error nothing changes.
ProfileAnswers(u) ==
  /\ <<u, "profile">> \in loading
  /\ loading' = loading \ {<<u, "profile">>}
  /\ profile' \in {u, Guest, profile}
  /\ UNCHANGED <<user, view, books, current, cache, full, table, upserts, deletion, crossed, visits>>

-----------------------------------------------------------------------------
\* A message, a title, a pin, feedback: typed in a notebook, or an answer that
\* arrives in it while another one is active.
Write(b) ==
  /\ b \in DOMAIN books /\ Room /\ current # NoBook
  /\ SaveProjects([books EXCEPT ![b] = @ \cup By(user)], current)
  /\ UNCHANGED <<user, view, current, table, loading, deletion, profile, crossed, full, visits>>

CreateNewProject(b) ==
  /\ b \in Fresh /\ Room /\ current # NoBook
  /\ current' = b
  /\ SaveProjects(With(books, b, By(user)), b)
  /\ UNCHANGED <<user, view, table, loading, deletion, profile, crossed, full, visits>>

OpenBook(b) ==
  /\ b \in DOMAIN books \ {current}
  /\ current' = b
  /\ UNCHANGED <<user, view, books, cache, full, table, loading, upserts, deletion, profile, crossed, visits>>

\* renameProject syncs the notebook that was renamed.
RenameProject(b) ==
  /\ b \in DOMAIN books \cap Books /\ user # Guest /\ Room
  /\ upserts' = upserts \cup {[book |-> b, owner |-> user, work |-> books[b]]}
  /\ UNCHANGED <<user, view, books, current, cache, full, table, loading, deletion, profile, crossed, visits>>

DeleteProject(b) ==
  /\ b \in DOMAIN books \cap Books /\ deletion = NoDeletion /\ Room
  /\ deletion' = <<b, user>>
  /\ UNCHANGED <<user, view, books, current, cache, full, table, loading, upserts, profile, crossed, visits>>

\* The row goes first (a guest has none); then memory, and another notebook opens.
ProjectDeleted ==
  LET b == deletion[1]
      left == Without(books, b)
      real == DOMAIN left \cap Books
  IN
  /\ b # NoBook
  /\ deletion' = NoDeletion
  /\ table' = IF b \in Rows(deletion[2]) THEN Without(table, b) ELSE table
  /\ IF real # {} \/ Recent[user] \in DOMAIN left
     THEN /\ SaveProjects(left, current)
          /\ IF real # {} THEN current' \in real ELSE current' = Recent[user]
     ELSE current' = Recent[user] /\ SaveProjects(With(left, Recent[user], By(user)), Recent[user])
  /\ UNCHANGED <<user, view, loading, profile, crossed, full, visits>>

DeletionFails ==
  /\ deletion # NoDeletion
  /\ deletion' = NoDeletion
  /\ UNCHANGED <<user, view, books, current, cache, full, table, loading, upserts, profile, crossed, visits>>

\* The row is written unless it is another student's.
UpsertLands(s) ==
  /\ s \in upserts
  /\ upserts' = upserts \ {s}
  /\ table' = IF s.book \in DOMAIN table \ Rows(s.owner) THEN table
              ELSE With(table, s.book, [owner |-> s.owner, work |-> s.work])
  /\ UNCHANGED <<user, view, books, current, cache, loading, deletion, profile, crossed, full, visits>>

UpsertFails(s) ==
  /\ s \in upserts
  /\ upserts' = upserts \ {s}
  /\ UNCHANGED <<user, view, books, current, cache, full, table, loading, deletion, profile, crossed, visits>>

-----------------------------------------------------------------------------
\* onAuthStateChange: a session that expired.  Nothing but the account is touched.
SessionEnds ==
  /\ user # Guest /\ current # NoBook
  /\ user' = Guest
  /\ crossed' = TRUE
  /\ UNCHANGED <<view, books, current, cache, full, table, loading, upserts, deletion, profile, visits>>

\* Mutant: signing out leaves the local copy in place.
ReadAgain == cache

Forgotten == None   \* safeLocalStorageRemove

\* handleLogout: the page and its copy forget the student; the guest starts on a
\* new chat.
HandleLogout ==
  /\ user # Guest /\ current # NoBook
  /\ user' = Guest
  /\ profile' = Guest
  /\ books' = With(Forgotten, Recent[Guest], {}) /\ current' = Recent[Guest]
  /\ cache' = IF full THEN Forgotten ELSE books'
  /\ view' = "ready"
  /\ crossed' = (crossed \/ loading # {})
  /\ UNCHANGED <<table, loading, upserts, deletion, full, visits>>

-----------------------------------------------------------------------------
Loaded(u) == \E r \in {"list", "reload"} : ListLoaded(u, r) \/ ListFails(u, r)

ProjectNext ==
  \/ OpenApp \/ Reload
  \/ \E u \in Students : SignIn(u) \/ ProfileAnswers(u) \/ Loaded(u)
  \/ \E b \in DOMAIN books : Write(b) \/ OpenBook(b) \/ RenameProject(b) \/ DeleteProject(b)
  \/ \E b \in Books : CreateNewProject(b)
  \/ ProjectDeleted \/ DeletionFails
  \/ \E s \in upserts : UpsertLands(s) \/ UpsertFails(s)
  \/ HandleLogout \/ SessionEnds

\* Every request is answered or fails, and the page starts.
ProjectFairness ==
  /\ WF_projectVars(OpenApp)
  /\ \A u \in Students : WF_projectVars(Loaded(u))

ProjectSpec == ProjectInit /\ [][ProjectNext]_projectVars /\ ProjectFairness

-----------------------------------------------------------------------------
\* A student who logs out leaves nothing behind: as long as every session ends
\* by Log out and no request is overtaken by it, nobody sees the work or the
\* profile of another student, and no row of a student holds another's work,
\* whatever loads, saves and local writes fail.
NobodyElsesWork ==
  ~crossed =>
    /\ \A b \in DOMAIN books : books[b] \cap Students \subseteq {user}
    /\ \A b \in DOMAIN table : table[b].work \cap Students \subseteq {table[b].owner}
    /\ profile \in {user, Guest}

\* The Notebooks page does not show "loading" for ever.
LoadSettles == (view = "loading") ~> (view # "loading")
=============================================================================
