----------------------------- MODULE ServerList -----------------------------
(***************************************************************************)
(* Loading the list of servers and the favourites.                         *)
(*                                                                         *)
(* DashBoard shows what RetainFragment loads: the list from one of two     *)
(* addresses on the net or from the file the last answer was saved to, and *)
(* the favourites from the database.  The callbacks of the HTTP client and *)
(* the onPostExecute() of the tasks run on the main looper, one after the  *)
(* other; doInBackground() of all tasks runs on one background thread, in  *)
(* the order of execute(), and saving an answer is three steps of it.  The *)
(* activity may be rotated (its fragment stays), closed and opened (a new  *)
(* fragment, while tasks of the old one go on), or killed with the app.    *)
(*                                                                         *)
(* No VPN is active meanwhile: the cover over the list would then also be  *)
(* the background of the connection panel, and hiding it is left out.      *)
(***************************************************************************)
EXTENDS Naturals, Sequences, FiniteSets

CONSTANTS
    MaxWork,    \* bound on the loads of the list and the changes of favourites,
    MaxTasks,   \*   on the tasks when favourites are loaded,
    MaxOpens,   \*   on the times the activity is opened or rotated,
    MaxFaults,  \*   and on kills and failed writes
    Blank,      \* an answer or a file without a line, or cut off
    Garbled,    \* one that cannot be parsed
    None        \* null; no file

ASSUME ConstantsAssumption ==
    /\ {MaxWork, MaxTasks, MaxOpens, MaxFaults} \subseteq Nat
    /\ Blank # Garbled /\ None \notin {Blank, Garbled}
    /\ {Blank, Garbled, None} \cap Nat = {}

VARIABLES
    open,       \* DashBoard is there,
    attached,   \*   with its fragment (which is not, in the middle of a rotation)
    frag,       \* the number of the fragment
    page,       \* the page, "all" or "fav"
    loadedPage, \* the pages that were loaded, {} before the first focus
    cover,      \* clickPreventingLayout: "gone", "visible", "hiding"
    isLoadingCSV, RetainAllServerVPNs, RetainFavoriteVPNs,  \* of the fragment
    due,        \* doReload()
    http,       \* requests: [frag, api, sent, no]
    executor,   \* tasks: [kind, frag, data, save], in the order of execute()
    saving,     \*   and the progress in saving: "no", "deleted", "created"
    posts,      \* results on their way to the main looper
    file,       \* the saved answer
    db,         \* the rows of the favourites of one server: [id, name]
    served, loads, edits, opens, faults,  \* how many there were
    overlapped, \* history: loads of this fragment have overlapped,
    torn        \*   the last save was cut short or left out

activity == <<open, attached, frag, page, loadedPage>>
fragment == <<isLoadingCSV, RetainAllServerVPNs, RetainFavoriteVPNs>>
tasks    == <<executor, saving, posts>>
stored   == <<file, torn>>
counts   == <<edits, opens, faults>>
loading  == <<due, http, loads, overlapped>>  \* what the start of a load changes
vars == <<activity, cover, fragment, loading, tasks, stored, db, served, counts>>

\* The answers so far; 0 is one that an earlier process has saved.
Answers == 0..served

Task(kind, f, data, save) == [kind |-> kind, frag |-> f, data |-> data, save |-> save]

\* csvLoadCallbacks and getContext() are null: the activity of the fragment is gone.
Detached(f) == ~open \/ ~attached \/ f # frag

\* A load of the list for the present fragment is under way.
InFlight ==
    \/ \E r \in http : r.frag = frag
    \/ \E i \in 1..Len(executor) : executor[i].frag = frag /\ executor[i].kind # "db"
    \/ \E i \in 1..Len(posts) : posts[i].frag = frag /\ posts[i].kind # "db"

\* The cover is gone: the user can touch what is on the screen.
Touchable == open /\ attached /\ cover = "gone" /\ loadedPage # {}
------------------------------------------------------------------------------
(* The cover: showClickPreventingLayout() and hideClickPreventingLayout(),    *)
(* whose animation ends later; both end one that is running.                  *)

Shown == IF cover = "hiding" /\ ~isLoadingCSV THEN "gone" ELSE "visible"

Hidden(flag) == IF cover = "gone" \/ (cover = "hiding" /\ ~flag) THEN "gone" ELSE "hiding"

\* onAnimationEnd()
HidingEnds ==
    /\ cover = "hiding"
    /\ cover' = IF isLoadingCSV THEN "visible" ELSE "gone"
    /\ UNCHANGED <<activity, fragment, loading, tasks, stored, db, served, counts>>
------------------------------------------------------------------------------
(* Starting loads; each operator says what becomes of cover, fragment,        *)
(* loading and executor.                                                      *)

Init ==
    /\ open = FALSE /\ attached = TRUE /\ frag = 0 /\ page = "all" /\ loadedPage = {}
    /\ cover = "gone"
    /\ isLoadingCSV = FALSE /\ RetainAllServerVPNs = None /\ RetainFavoriteVPNs = None
    /\ due = TRUE /\ http = {} /\ loads = 0 /\ overlapped = FALSE
    /\ executor = <<>> /\ saving = "no" /\ posts = <<>>
    /\ torn = FALSE /\ served = 0
    /\ \/ file = None /\ db = {}  \* the first process, or a later one
       \/ file = 0 /\ db = {[id |-> 1, name |-> 0]}
    /\ edits = 0 /\ opens = 0 /\ faults = 0

NoLoad == UNCHANGED <<cover, fragment, loading, executor>>

\* A load begins; the history notes whether another one is under way.
BeginsLoad == loads' = loads + 1 /\ overlapped' = (overlapped \/ InFlight)

Request(f, api, n) == [frag |-> f, api |-> api, sent |-> FALSE, no |-> n]

\* loadVPNGateCsvFile(): the time is noted before there is an answer.
loadVPNGateCsvFile ==
    /\ BeginsLoad
    /\ isLoadingCSV' = TRUE /\ due' = FALSE
    /\ http' = http \cup {Request(frag, "API", loads)}
    /\ UNCHANGED <<RetainAllServerVPNs, RetainFavoriteVPNs, executor>>

\* loadVPNGateViaSaveFile(): without a file it goes to the net.
loadVPNGateViaSaveFile ==
    /\ cover' = Shown
    /\ \/ file = None /\ loadVPNGateCsvFile
       \/ /\ file # None /\ BeginsLoad
          /\ executor' = Append(executor, Task("offline", frag, None, FALSE))
          /\ UNCHANGED <<fragment, due, http>>

\* getVPNClasses(ALL_SERVERS): its case falls through to that of the favourites.
NoOldData == RetainAllServerVPNs = None /\ RetainFavoriteVPNs \in {None, {}}

\* tryToLoadCSVData(false)
LoadListIfNeeded ==
    \/ due /\ loads + edits < MaxWork /\ loadVPNGateCsvFile /\ UNCHANGED cover
    \/ ~due /\ NoOldData /\ loads + edits < MaxWork /\ loadVPNGateViaSaveFile
    \/ ~due /\ ~NoOldData /\ NoLoad

\* tryToLoadCSVData(true), and the button "Retry".
LoadList == loads + edits < MaxWork /\ loadVPNGateCsvFile /\ UNCHANGED cover

\* loadVPNGateSQLite(), from tryToLoadDatabaseData(true).
loadVPNGateSQLite ==
    /\ Len(executor) + Len(posts) < MaxTasks
    /\ executor' = Append(executor, Task("db", frag, None, FALSE))
    /\ UNCHANGED <<cover, fragment, loading>>

\* tryToLoadDatabaseData(false)
LoadFavoritesIfNeeded ==
    IF RetainFavoriteVPNs \in {None, {}} THEN loadVPNGateSQLite ELSE NoLoad

\* Mutant: favourites that were loaded once are not loaded again after a change.
ReloadIfNeeded ==
    IF RetainFavoriteVPNs = None THEN loadVPNGateSQLite ELSE NoLoad

\* tryToLoadDatabaseData(true)
ReloadFavorites == loadVPNGateSQLite

LoadPage(p) == IF p = "all" THEN LoadListIfNeeded ELSE LoadFavoritesIfNeeded
------------------------------------------------------------------------------
(* The activity and its user                                                  *)

\* A new activity and a new fragment.
Open ==
    /\ ~open /\ opens < MaxOpens /\ opens' = opens + 1
    /\ open' = TRUE /\ frag' = frag + 1
    /\ UNCHANGED <<attached, page, loadedPage, cover, fragment, loading, tasks, stored, db,
                   served, edits, faults>>

\* A new activity with the old fragment.
Rotate ==
    /\ open /\ attached /\ opens < MaxOpens /\ opens' = opens + 1
    /\ attached' = FALSE /\ loadedPage' = {} /\ cover' = "gone"
    /\ UNCHANGED <<open, frag, page, fragment, loading, tasks, stored, db, served,
                   edits, faults>>

Attach ==
    /\ ~attached /\ attached' = TRUE
    /\ UNCHANGED <<open, frag, page, loadedPage, cover, fragment, loading, tasks, stored,
                   db, served, counts>>

\* The activity and its fragment are gone; requests and tasks go on.
Gone ==
    /\ open' = FALSE /\ attached' = TRUE
    /\ page' = "all" /\ loadedPage' = {} /\ cover' = "gone"
    /\ isLoadingCSV' = FALSE /\ RetainAllServerVPNs' = None /\ RetainFavoriteVPNs' = None
    /\ overlapped' = FALSE

Finish ==
    /\ open /\ attached /\ Gone
    /\ UNCHANGED <<frag, due, http, loads, tasks, stored, db, served, counts>>

\* onWindowFocusChanged(true): loadDataAfterShowUp() loads the page again each time.
Focus ==
    /\ open /\ attached /\ loadedPage' = {page}
    /\ IF page = "all" /\ due THEN LoadList ELSE LoadPage(page)
    /\ UNCHANGED <<open, attached, frag, page, saving, posts, stored, db, served, counts>>

\* onPageSelected()
SelectPage(p) ==
    /\ Touchable /\ p # page /\ page' = p
    /\ loadedPage' = loadedPage \cup {p}
    /\ IF p \in loadedPage THEN NoLoad ELSE LoadPage(p)
    /\ UNCHANGED <<open, attached, frag, saving, posts, stored, db, served, counts>>

\* refreshLoadCSV(), or "Retry" on a snackbar.
Refresh ==
    /\ Touchable /\ page = "all" /\ LoadList
    /\ UNCHANGED <<activity, saving, posts, stored, db, served, counts>>

\* refreshLoadDatabase()
RefreshFavorites ==
    /\ Touchable /\ page = "fav" /\ ReloadFavorites
    /\ UNCHANGED <<activity, saving, posts, stored, db, served, counts>>

\* The user changes the favourites in a dialog; they are loaded again.
Edits ==
    /\ Touchable /\ loads + edits < MaxWork /\ edits' = edits + 1
    /\ ReloadFavorites
    /\ UNCHANGED <<activity, saving, posts, stored, served, opens, faults>>

\* insertVPN(): the id is the next one that is free at the end.
insertVPN(name) ==
    LET ids == {r.id : r \in db}
        id  == IF ids = {} THEN 1 ELSE 1 + CHOOSE i \in ids : \A j \in ids : j <= i
    IN  db' = db \cup {[id |-> id, name |-> name]}

\* updateVPN() changes all rows with the IP of the server.
updateVPN(name) == db' = {[r EXCEPT !.name = name] : r \in db}

\* saveVPN(): a row that exists is updated or, "as new", doubled.
saveVPN ==
    /\ page = "all" /\ RetainAllServerVPNs \in Answers /\ Edits
    /\ \/ insertVPN(edits + 1)
       \/ db # {} /\ updateVPN(edits + 1)

\* editVPN() of a row that is shown, unless checkExistVPN() does not find one.
editVPN ==
    /\ page = "fav" /\ RetainFavoriteVPNs \notin {None, {}} /\ db # {} /\ Edits
    /\ updateVPN(edits + 1)

\* deleteVPN() of a row that is shown, by its id.
deleteVPN ==
    /\ page = "fav" /\ RetainFavoriteVPNs # None /\ Edits
    /\ \E r \in RetainFavoriteVPNs : db' = {s \in db : s.id # r.id}

\* The list is due again after minutes; a request is given up after 30 seconds.
TimePasses ==
    /\ ~due /\ http = {} /\ executor = <<>> /\ posts = <<>>
    /\ due' = TRUE
    /\ UNCHANGED <<activity, cover, fragment, http, loads, overlapped, tasks, stored, db,
                   served, counts>>
------------------------------------------------------------------------------
(* Requests                                                                   *)

\* onStart(): startLoading()
HttpStart(r) ==
    /\ attached /\ ~r.sent
    /\ http' = (http \ {r}) \cup {[r EXCEPT !.sent = TRUE]}
    /\ cover' = IF Detached(r.frag) THEN cover ELSE Shown
    /\ UNCHANGED <<activity, fragment, due, loads, overlapped, tasks, stored, db, served,
                   counts>>

\* onSuccess(): an answer of the first address is parsed, one of the second is
\* decrypted before.
HttpSuccess(r) ==
    /\ attached /\ r.sent /\ http' = http \ {r}
    /\ \E d \in {served + 1, Blank, Garbled} :
          /\ served' = IF d = served + 1 THEN d ELSE served
          /\ executor' = Append(executor,
                IF r.api = "API" THEN Task("csv", r.frag, d, TRUE)
                                 ELSE Task("decrypt", r.frag, d, FALSE))
    /\ UNCHANGED <<activity, cover, fragment, due, loads, overlapped, saving, posts, stored,
                   db, counts>>

\* onFailure() of the first: reloadVPNGateCsvFile() tries the second address.
HttpFailure(r) ==
    /\ attached /\ r.sent /\ r.api = "API"
    /\ http' = (http \ {r}) \cup {Request(r.frag, "SUB_API", r.no)}
    /\ due' = FALSE
    /\ UNCHANGED <<activity, cover, fragment, loads, overlapped, tasks, stored, db, served,
                   counts>>

\* Mutant: the flag is left when both addresses have failed.
BothFailNoFlag(r) ==
    /\ attached /\ r.sent /\ r.api = "SUB_API" /\ http' = http \ {r}
    /\ cover' = IF Detached(r.frag) THEN cover ELSE Hidden(isLoadingCSV)
    /\ UNCHANGED <<activity, fragment, due, loads, overlapped, tasks, stored, db, served,
                   counts>>

\* onFailure() of the second: stopLoading(), retry() and then the flag.
BothFail(r) ==
    /\ attached /\ r.sent /\ r.api = "SUB_API" /\ http' = http \ {r}
    /\ IF Detached(r.frag) THEN UNCHANGED <<cover, isLoadingCSV>>
       ELSE cover' = Hidden(isLoadingCSV) /\ isLoadingCSV' = FALSE
    /\ UNCHANGED <<activity, RetainAllServerVPNs, RetainFavoriteVPNs, due, loads, overlapped,
                   tasks, stored, db, served, counts>>
------------------------------------------------------------------------------
(* doInBackground()                                                           *)

\* Mutant: the tasks run in a pool of threads.
Pooled(i) == i \in 1..Len(executor)

\* The default executor: one task after the other.
Running(i) == i = 1 /\ executor # <<>>

\* Task i ends with a result.
Posts(i, d) ==
    /\ executor' = [j \in 1..(Len(executor) - 1) |-> executor[IF j < i THEN j ELSE j + 1]]
    /\ posts' = Append(posts, [kind |-> executor[i].kind, frag |-> executor[i].frag,
                               data |-> d])

\* DatabaseLoadTask: getAllVPNs()
LoadsRows(i) ==
    /\ Running(i) /\ executor[i].kind = "db"
    /\ Posts(i, db)
    /\ UNCHANGED <<activity, cover, fragment, loading, saving, stored, db, served, counts>>

\* OfflineFileTask: the file as it is; an exception without one.
ReadsFile(i) ==
    /\ Running(i) /\ executor[i].kind = "offline"
    /\ Posts(i, file)
    /\ UNCHANGED <<activity, cover, fragment, loading, saving, stored, db, served, counts>>

\* DecryptTask: what cannot be decrypted is null.
Decrypts(i) ==
    /\ Running(i) /\ executor[i].kind = "decrypt"
    /\ \E d \in {executor[i].data, None} :
          /\ d = None => executor[i].data \in {Blank, Garbled}
          /\ Posts(i, d)
    /\ UNCHANGED <<activity, cover, fragment, loading, saving, stored, db, served, counts>>

Parsed(d) == IF d \in Answers THEN d ELSE None

\* Mutant: answers are not saved.
NeverSaves(i) == FALSE

\* CSVLoadTask saves what it has parsed, and what it could not; an answer without
\* a line returns before, and without a context there is an exception.
Saves(i) == executor[i].save /\ executor[i].data # Blank /\ ~Detached(executor[i].frag)

ParsesOnly(i) ==
    /\ Running(i) /\ executor[i].kind = "csv" /\ saving = "no" /\ ~Saves(i)
    /\ Posts(i, Parsed(executor[i].data))
    /\ torn' = (torn \/ (executor[i].save /\ executor[i].data # Blank
                            /\ executor[i].frag = frag /\ ~attached))
    /\ UNCHANGED <<activity, cover, fragment, loading, saving, file, db, served, counts>>

\* saveByteArrayToFile() deletes the file, ...
Deletes(i) ==
    /\ Running(i) /\ executor[i].kind = "csv" /\ saving = "no" /\ Saves(i)
    /\ file' = None /\ saving' = "deleted"
    /\ UNCHANGED <<activity, cover, fragment, loading, executor, posts, torn, db, served,
                   counts>>

\* ... creates a new one, ...
Creates(i) ==
    /\ Running(i) /\ executor[i].kind = "csv" /\ saving = "deleted"
    /\ file' = Blank /\ saving' = "created"
    /\ UNCHANGED <<activity, cover, fragment, loading, executor, posts, torn, db, served,
                   counts>>

\* ... and writes it.
Writes(i) ==
    /\ Running(i) /\ executor[i].kind = "csv" /\ saving = "created"
    /\ file' = executor[i].data /\ saving' = "no" /\ torn' = FALSE
    /\ Posts(i, Parsed(executor[i].data))
    /\ UNCHANGED <<activity, cover, fragment, loading, db, served, counts>>

\* An exception on the way is swallowed.
SaveFails(i) ==
    /\ Running(i) /\ executor[i].kind = "csv" /\ saving # "no"
    /\ faults < MaxFaults /\ faults' = faults + 1
    /\ saving' = "no" /\ torn' = TRUE
    /\ Posts(i, Parsed(executor[i].data))
    /\ UNCHANGED <<activity, cover, fragment, loading, file, db, served, edits, opens>>
------------------------------------------------------------------------------
(* onPostExecute()                                                            *)

Result == Head(posts)

\* The main looper takes the next result.
Delivered(kind) ==
    /\ attached /\ posts # <<>> /\ Result.kind = kind /\ posts' = Tail(posts)
    /\ UNCHANGED <<activity, saving, stored, db, served, counts>>

\* Mutant: the flag is left.
FlagStays == UNCHANGED isLoadingCSV

\* The fragment the result belongs to is the present one: its flag falls.
FlagFalls == isLoadingCSV' = IF open /\ Result.frag = frag THEN FALSE ELSE isLoadingCSV

\* The file could not be read: the net is asked.
OfflineUnread ==
    /\ Delivered("offline") /\ Result.data = None
    /\ loads' = loads + 1 /\ due' = FALSE
    /\ http' = http \cup {Request(Result.frag, "API", loads)}
    /\ isLoadingCSV' = (isLoadingCSV \/ (open /\ Result.frag = frag))
    /\ UNCHANGED <<cover, RetainAllServerVPNs, RetainFavoriteVPNs, overlapped, executor>>

OfflineRead ==
    /\ Delivered("offline") /\ Result.data # None
    /\ executor' = Append(executor, Task("csv", Result.frag, Result.data, FALSE))
    /\ UNCHANGED <<cover, fragment, loading>>

Decrypted ==
    /\ Delivered("decrypt") /\ Result.data # None /\ FlagFalls
    /\ executor' = Append(executor, Task("csv", Result.frag, Result.data, TRUE))
    /\ UNCHANGED <<cover, RetainAllServerVPNs, RetainFavoriteVPNs, loading>>

\* stopLoading() and retry()
NotDecrypted ==
    /\ Delivered("decrypt") /\ Result.data = None /\ FlagFalls
    /\ cover' = IF Detached(Result.frag) THEN cover ELSE Hidden(FALSE)
    /\ UNCHANGED <<RetainAllServerVPNs, RetainFavoriteVPNs, loading, executor>>

\* The list is shown, or null with a snackbar.
ListLoaded ==
    /\ Delivered("csv") /\ FlagFalls
    /\ IF Detached(Result.frag) THEN UNCHANGED <<cover, RetainAllServerVPNs>>
       ELSE cover' = Hidden(FALSE) /\ RetainAllServerVPNs' = Result.data
    /\ UNCHANGED <<RetainFavoriteVPNs, loading, executor>>

\* The favourites are shown; the cover stays while the flag says that the list loads.
FavoritesLoaded ==
    /\ Delivered("db")
    /\ IF Detached(Result.frag) THEN UNCHANGED <<cover, RetainFavoriteVPNs>>
       ELSE /\ cover' = IF isLoadingCSV THEN cover ELSE Hidden(FALSE)
            /\ RetainFavoriteVPNs' = Result.data
    /\ UNCHANGED <<isLoadingCSV, RetainAllServerVPNs, loading, executor>>

\* The app is killed: what is stored remains, the time of the last load with it.
Kill ==
    /\ open /\ faults < MaxFaults /\ faults' = faults + 1
    /\ Gone
    /\ http' = {} /\ executor' = <<>> /\ saving' = "no" /\ posts' = <<>>
    /\ torn' = (torn \/ saving # "no")
    /\ UNCHANGED <<frag, due, loads, file, db, served, edits, opens>>
------------------------------------------------------------------------------
User ==
    \/ Open \/ Rotate \/ Finish \/ Focus \/ Refresh \/ RefreshFavorites
    \/ \E p \in {"all", "fav"} : SelectPage(p)
    \/ saveVPN \/ editVPN \/ deleteVPN \/ TimePasses

\* The HTTP client answers or gives up after its timeout.
Net == \E r \in http : HttpStart(r) \/ HttpSuccess(r) \/ HttpFailure(r) \/ BothFail(r)

Background ==
    \E i \in 1..Len(executor) :
        \/ LoadsRows(i) \/ ReadsFile(i) \/ Decrypts(i)
        \/ ParsesOnly(i) \/ Deletes(i) \/ Creates(i) \/ Writes(i) \/ SaveFails(i)

Main ==
    \/ OfflineUnread \/ OfflineRead \/ Decrypted \/ NotDecrypted
    \/ ListLoaded \/ FavoritesLoaded

Next == User \/ Net \/ Background \/ Main \/ Attach \/ HidingEnds \/ Kill

Spec == Init /\ [][Next]_vars

\* Requests end, the threads go on and animations end; nobody has to touch
\* anything, to close or to kill.
FairSpec ==
    Spec /\ WF_vars(Net) /\ WF_vars(Background) /\ WF_vars(Main) /\ WF_vars(Attach)
         /\ WF_vars(HidingEnds)
------------------------------------------------------------------------------
(* Properties                                                                 *)

Data == Answers \cup {Blank, Garbled, None}
Apis == {"API", "SUB_API"}
Kinds == {"csv", "decrypt", "offline"}

TypeOK ==
    /\ open \in BOOLEAN /\ attached \in BOOLEAN /\ page \in {"all", "fav"}
    /\ loadedPage \subseteq {"all", "fav"} /\ cover \in {"gone", "visible", "hiding"}
    /\ {isLoadingCSV, due, overlapped, torn} \subseteq BOOLEAN
    /\ RetainAllServerVPNs \in Answers \cup {None}
    /\ \A r \in http : r.api \in Apis /\ r.frag \in 1..frag /\ r.no < loads
    /\ \A q, r \in http : q.no = r.no => q = r
    /\ \A i \in 1..Len(executor) :
          executor[i].kind = "db" \/ (executor[i].kind \in Kinds /\ executor[i].data \in Data)
    /\ \A i \in 1..Len(posts) :
          posts[i].kind = "db" \/ (posts[i].kind \in Kinds /\ posts[i].data \in Data)
    /\ saving \in {"no", "deleted", "created"} /\ file \in Data
    /\ saving # "no" => executor # <<>> /\ executor[1].kind = "csv"
    /\ frag <= MaxOpens /\ edits <= MaxWork /\ opens <= MaxOpens /\ faults <= MaxFaults

\* isLoadingCSV says that a load of the list is under way; were it left behind,
\* the favourites would never take the cover away again.
FlagMeansLoading == open /\ isLoadingCSV => InFlight

\* The list on the screen is the one the next start reads from the file, unless loads of
\* the fragment have overlapped, or the last save was cut short (an exception, a kill) or
\* left out (a rotation took the context away).
ListIsSaved ==
    open /\ ~InFlight /\ ~overlapped /\ ~torn /\ RetainAllServerVPNs # None
        => file = RetainAllServerVPNs

\* Favourites that were loaded are those of the database once no load of them waits.
FavoritesAreCurrent ==
    open /\ RetainFavoriteVPNs # None
         /\ (\A i \in 1..Len(executor) : executor[i].kind # "db")
         /\ (\A i \in 1..Len(posts) : posts[i].kind # "db")
        => RetainFavoriteVPNs = db

\* A file is never read while it is being saved, whichever fragment saves it; one
\* that was cut off is left by a kill or a failure.
FileIsReadWhole ==
    [][\A i \in 1..Len(posts') :
          i > Len(posts) /\ posts'[i].kind = "offline" /\ posts'[i].data = Blank => torn]_vars

\* The cover over the list goes away in the end, unless the activity does.
CoverComesDown == (open /\ cover # "gone") ~> (~open \/ cover = "gone")

(* What does not hold; the README tells of the runs that show it. *)

\* Only an answer that can be parsed takes the place of one that could.
GoodFileIsKept == file # Garbled

\* The page of all servers is loaded when it is selected and has none.
AllPageIsLoaded ==
    [][SelectPage("all") /\ "all" \notin loadedPage /\ RetainAllServerVPNs = None
          => loads' > loads]_vars

\* The cover is there as long as the file is being read.
CoverWhileLoading ==
    open /\ attached /\ cover = "gone" =>
        \A i \in 1..Len(executor) : executor[i].kind = "offline" => executor[i].frag # frag

\* The list on the screen is the saved one, however the loads overlap, ...
OverlapIsSaved ==
    open /\ ~InFlight /\ ~torn /\ RetainAllServerVPNs # None => file = RetainAllServerVPNs

\* ... and also when nothing but a rotation came between.
RotatedIsSaved ==
    open /\ ~InFlight /\ ~overlapped /\ faults = 0 /\ RetainAllServerVPNs # None
        => file = RetainAllServerVPNs

\* A change of one favourite leaves the others as they are.
EditsOneRow == [][Cardinality(db \ db') <= 1]_db
=============================================================================
