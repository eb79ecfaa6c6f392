--------------------------- MODULE ServerListProofs ---------------------------
(***************************************************************************)
(* What is proved of ServerList, for any number of loads, edits, openings, *)
(* rotations and kills.                                                    *)
(*                                                                         *)
(* The requests, the tasks and the results are three stations a load goes  *)
(* through.  An item of a load only moves from one to the next, and the    *)
(* flag falls when it leaves the last one (FlagMeansLoading).  Loads of    *)
(* the favourites go through the two queues in order, so that the last one *)
(* has seen the last edit (FavoritesAreCurrent).  Without an overlap there *)
(* is one item at a time, and what it carries is what the file has or is   *)
(* about to get (ListIsSaved).                                             *)
(***************************************************************************)
EXTENDS ServerList, SequenceTheorems, TLAPS

------------------------------------------------------------------------------
(* Queues                                                                     *)

Elements(q) == {q[i] : i \in 1..Len(q)}
IsQueue(q) == q \in Seq(Elements(q))

LEMMA QueueOf ==
    ASSUME NEW S, NEW q \in Seq(S)
    PROVE  IsQueue(q)
  <1> DEFINE E == Elements(q)
             n == Len(q)
  <1>1. \A i \in 1..n : q[i] \in E
    BY DEF Elements
  <1>2. n \in Nat /\ q \in [1..n -> S]
    BY LenProperties
  <1> HIDE DEF E, n
  <1>3. q \in [1..n -> E]
    BY <1>1, <1>2
  <1>4. q \in UNION {[1..m -> E] : m \in Nat}
    BY <1>2, <1>3
  <1>5. q \in Seq(E)
    BY <1>4, SeqDef
  <1> QED
    BY <1>5 DEF E, IsQueue

LEMMA EmptyQueue ==
    IsQueue(<<>>) /\ Len(<<>>) = 0
  BY QueueOf, EmptySeq

\* What a queue holds behind one more element.
LEMMA Longer ==
    ASSUME NEW q, IsQueue(q), NEW x
    PROVE  /\ IsQueue(Append(q, x)) /\ Append(q, x) # <<>>
           /\ Len(q) \in Nat /\ Len(Append(q, x)) = Len(q) + 1
           /\ Append(q, x)[Len(q) + 1] = x
           /\ \A i \in 1..Len(q) : Append(q, x)[i] = q[i]
  <1>1. q \in Seq(Elements(q) \cup {x})
    BY DEF IsQueue
  <1>2. Append(q, x) \in Seq(Elements(q) \cup {x})
    BY <1>1
  <1>3. IsQueue(Append(q, x))
    BY <1>2, QueueOf
  <1> QED
    BY <1>1, <1>2, <1>3, AppendProperties

\* What it holds without the first one.
LEMMA Shorter ==
    ASSUME NEW q, IsQueue(q), q # <<>>
    PROVE  /\ IsQueue(Tail(q))
           /\ Len(q) \in Nat \ {0} /\ Len(Tail(q)) = Len(q) - 1 /\ Head(q) = q[1]
           /\ \A i \in 1..Len(Tail(q)) : Tail(q)[i] = q[i + 1]
  <1>1. q \in Seq(Elements(q))
    BY DEF IsQueue
  <1>2. Tail(q) \in Seq(Elements(q))
    BY <1>1, HeadTailProperties
  <1>3. IsQueue(Tail(q))
    BY <1>2, QueueOf
  <1>4. Len(q) \in Nat \ {0}
    BY <1>1, EmptySeq
  <1> QED
    BY <1>1, <1>3, <1>4, HeadTailProperties

\* A task ends: it was the first one.
LEMMA PostsDoes ==
    ASSUME IsQueue(executor), NEW i, Running(i), NEW d, Posts(i, d)
    PROVE  /\ i = 1 /\ executor # <<>> /\ executor' = Tail(executor)
           /\ posts' = Append(posts, [kind |-> executor[1].kind, frag |-> executor[1].frag,
                                      data |-> d])
  <1>1. i = 1 /\ executor # <<>>
    BY DEF Running
  <1>2. executor' = [j \in 1..(Len(executor) - 1) |-> executor[j + 1]]
    <2>1. \A j \in 1..(Len(executor) - 1) : ~(j < 1)
      BY <1>1, Shorter
    <2> QED
      BY <1>1, <2>1 DEF Posts
  <1>3. Tail(executor) = [j \in 1..(Len(executor) - 1) |-> executor[j + 1]]
    <2> DEFINE t == Tail(executor)
    <2>1. /\ IsQueue(t) /\ Len(t) = Len(executor) - 1
          /\ \A j \in 1..Len(t) : t[j] = executor[j + 1]
      BY <1>1, Shorter
    <2> HIDE DEF t
    <2>2. t = [j \in 1..Len(t) |-> t[j]]
      BY <2>1, LenProperties DEF IsQueue
    <2> QED
      BY <2>1, <2>2 DEF t
  <1> QED
    BY <1>1, <1>2, <1>3 DEF Posts

\* What is in a queue.
LEMMA ElementsLonger ==
    ASSUME NEW q, IsQueue(q), NEW x
    PROVE  Elements(Append(q, x)) = Elements(q) \cup {x}
  <1> DEFINE r == Append(q, x)
             n == Len(q)
  <1>1. /\ n \in Nat /\ Len(r) = n + 1 /\ r[n + 1] = x
        /\ \A i \in 1..n : r[i] = q[i]
    BY Longer
  <1>2. Elements(r) = {r[i] : i \in 1..(n + 1)} /\ Elements(q) = {q[i] : i \in 1..n}
    BY <1>1 DEF Elements
  <1> HIDE DEF r, n
  <1>3. 1..(n + 1) = (1..n) \cup {n + 1}
    BY <1>1
  <1>4. {r[i] : i \in 1..(n + 1)} = {q[i] : i \in 1..n} \cup {x}
    BY <1>1, <1>3
  <1>5. Elements(r) = Elements(q) \cup {x}
    BY <1>2, <1>4
  <1> QED
    BY <1>5 DEF r

LEMMA ElementsShorter ==
    ASSUME NEW q, IsQueue(q), q # <<>>
    PROVE  Elements(q) = Elements(Tail(q)) \cup {q[1]} /\ Head(q) = q[1]
  <1> DEFINE r == Tail(q)
             n == Len(q)
  <1>1. /\ n \in Nat \ {0} /\ Len(r) = n - 1 /\ Head(q) = q[1]
        /\ \A i \in 1..(n - 1) : r[i] = q[i + 1]
    BY Shorter
  <1>2. Elements(r) = {r[i] : i \in 1..(n - 1)} /\ Elements(q) = {q[i] : i \in 1..n}
    BY <1>1 DEF Elements
  <1> HIDE DEF r, n
  <1>3. ASSUME NEW i \in 1..n
        PROVE  i = 1 \/ (i - 1 \in 1..(n - 1) /\ r[i - 1] = q[i])
    BY <1>1, <1>3
  <1>4. ASSUME NEW i \in 1..(n - 1)
        PROVE  i + 1 \in 1..n /\ 1 \in 1..n /\ r[i] = q[i + 1]
    BY <1>1, <1>4
  <1>5. 1 \in 1..n
    BY <1>1
  <1>6. {q[i] : i \in 1..n} = {r[i] : i \in 1..(n - 1)} \cup {q[1]}
    BY <1>3, <1>4, <1>5
  <1>7. Elements(q) = Elements(r) \cup {q[1]}
    BY <1>2, <1>6
  <1> QED
    BY <1>1, <1>7 DEF r
------------------------------------------------------------------------------
(* What the steps of the activity do to loads                                 *)

Nothing     == UNCHANGED <<fragment, http, overlapped, loads, executor, db>>
NewRequest  == loadVPNGateCsvFile /\ db' = db
NewFileTask ==
    /\ BeginsLoad /\ executor' = Append(executor, Task("offline", frag, None, FALSE))
    /\ UNCHANGED <<fragment, http, db>>
NewRowsTask ==
    /\ executor' = Append(executor, Task("db", frag, None, FALSE))
    /\ UNCHANGED <<fragment, http, overlapped, loads>>

\* All that starts loads: a focus, a page, a refresh and an edit, which alone changes db.
Starts ==
    /\ open /\ UNCHANGED <<open, attached, frag, saving, posts, stored>>
    /\ Nothing \/ NewRequest \/ NewFileTask \/ NewRowsTask

\* What changes nothing of it.
Rests ==
    UNCHANGED <<open, frag, fragment, http, overlapped, loads, tasks, stored, db>>

LEMMA PagesLoad ==
    /\ LoadListIfNeeded /\ db' = db => Nothing \/ NewRequest \/ NewFileTask
    /\ LoadFavoritesIfNeeded /\ db' = db => Nothing \/ NewRowsTask
    /\ ReloadFavorites => NewRowsTask
  <1>1. NoLoad /\ db' = db => Nothing
    BY DEF NoLoad, Nothing, loading
  <1>2. loadVPNGateViaSaveFile /\ db' = db => NewRequest \/ NewFileTask
    BY DEF loadVPNGateViaSaveFile, NewRequest, NewFileTask
  <1>3. loadVPNGateSQLite => NewRowsTask
    BY DEF loadVPNGateSQLite, NewRowsTask, loading
  <1> QED
    BY <1>1, <1>2, <1>3
       DEF LoadListIfNeeded, LoadFavoritesIfNeeded, ReloadFavorites, NewRequest

LEMMA UserStarts ==
    ASSUME Focus \/ Refresh \/ RefreshFavorites \/ (\E p \in {"all", "fav"} : SelectPage(p))
               \/ saveVPN \/ editVPN \/ deleteVPN
    PROVE  Starts
  <1>1. ASSUME NEW p, LoadPage(p), db' = db
        PROVE  Nothing \/ NewRequest \/ NewFileTask \/ NewRowsTask
    BY <1>1, PagesLoad DEF LoadPage
  <1>2. CASE Focus
    <2>1. open /\ db' = db /\ UNCHANGED <<open, attached, frag, saving, posts, stored>>
      BY <1>2 DEF Focus
    <2>2. LoadList \/ LoadPage(page)
      BY <1>2 DEF Focus
    <2> QED
      BY <1>1, <2>1, <2>2 DEF Starts, LoadList, NewRequest
  <1>3. CASE Refresh
    BY <1>3 DEF Refresh, Touchable, activity, Starts, LoadList, NewRequest
  <1>4. CASE RefreshFavorites
    BY <1>4, PagesLoad DEF RefreshFavorites, Touchable, activity, Starts
  <1>5. ASSUME NEW p \in {"all", "fav"}, SelectPage(p)
        PROVE  Starts
    <2>1. open /\ db' = db /\ UNCHANGED <<open, attached, frag, saving, posts, stored>>
      BY <1>5 DEF SelectPage, Touchable
    <2>2. NoLoad \/ LoadPage(p)
      BY <1>5 DEF SelectPage
    <2>3. NoLoad /\ db' = db => Nothing
      BY DEF NoLoad, Nothing, loading
    <2> QED
      BY <1>1, <2>1, <2>2, <2>3 DEF Starts
  <1>6. CASE saveVPN \/ editVPN \/ deleteVPN
    <2>1. Edits
      BY <1>6 DEF saveVPN, editVPN, deleteVPN
    <2> QED
      BY <2>1, PagesLoad DEF Edits, Touchable, activity, Starts
  <1> QED
    BY <1>2, <1>3, <1>4, <1>5, <1>6

LEMMA Resting ==
    ASSUME Rotate \/ Attach \/ HidingEnds \/ TimePasses
    PROVE  Rests
  BY DEF Rotate, Attach, HidingEnds, TimePasses, Rests, activity, fragment, loading, tasks, stored
------------------------------------------------------------------------------
(* What the steps of the background do                                        *)

Moved(d) ==
    /\ executor' = Tail(executor)
    /\ posts' = Append(posts, [kind |-> executor[1].kind, frag |-> executor[1].frag,
                               data |-> d])

RowsPosted == executor[1].kind = "db" /\ Moved(db) /\ UNCHANGED <<saving, stored>>
FilePosted == executor[1].kind = "offline" /\ Moved(file) /\ UNCHANGED <<saving, stored>>
KeyPosted ==
    /\ executor[1].kind = "decrypt" /\ UNCHANGED <<saving, stored>>
    /\ \E d \in {executor[1].data, None} : Moved(d)
ListPosted ==
    /\ executor[1].kind = "csv" /\ saving = "no" /\ ~Saves(1)
    /\ Moved(Parsed(executor[1].data)) /\ UNCHANGED <<saving, file>>
    /\ torn' = (torn \/ (executor[1].save /\ executor[1].data # Blank
                            /\ executor[1].frag = frag /\ ~attached))
SaveBegins ==
    /\ executor[1].kind = "csv" /\ saving = "no" /\ Saves(1) /\ saving' = "deleted"
    /\ file' = None /\ UNCHANGED <<executor, posts, torn>>
SaveGoesOn ==
    /\ executor[1].kind = "csv" /\ saving = "deleted" /\ saving' = "created"
    /\ file' = Blank /\ UNCHANGED <<executor, posts, torn>>
SaveEnds ==
    /\ executor[1].kind = "csv" /\ saving = "created" /\ saving' = "no"
    /\ file' = executor[1].data /\ torn' = FALSE /\ Moved(Parsed(executor[1].data))
SaveStops ==
    /\ executor[1].kind = "csv" /\ saving # "no" /\ saving' = "no"
    /\ torn' = TRUE /\ file' = file /\ Moved(Parsed(executor[1].data))

Works ==
    /\ executor # <<>>
    /\ UNCHANGED <<open, attached, frag, fragment, http, overlapped, loads, db>>
    /\ \/ RowsPosted \/ FilePosted \/ KeyPosted \/ ListPosted
       \/ SaveBegins \/ SaveGoesOn \/ SaveEnds \/ SaveStops

LEMMA BackgroundWorks ==
    ASSUME IsQueue(executor), NEW i,
           \/ LoadsRows(i) \/ ReadsFile(i) \/ Decrypts(i) \/ ParsesOnly(i)
           \/ Deletes(i) \/ Creates(i) \/ Writes(i) \/ SaveFails(i)
    PROVE  Works
  <1>1. Running(i) /\ i = 1 /\ executor # <<>>
    BY DEF LoadsRows, ReadsFile, Decrypts, ParsesOnly, Deletes, Creates, Writes, SaveFails,
           Running
  <1>2. ASSUME NEW d, Posts(i, d)
        PROVE  Moved(d)
    BY <1>1, <1>2, PostsDoes DEF Moved
  <1>3. UNCHANGED <<open, attached, frag, fragment, http, overlapped, loads, db>>
    BY DEF LoadsRows, ReadsFile, Decrypts, ParsesOnly, Deletes, Creates, Writes, SaveFails,
           activity, loading, fragment
  <1>4. LoadsRows(i) => RowsPosted
    BY <1>1, <1>2 DEF LoadsRows, RowsPosted
  <1>5. ReadsFile(i) => FilePosted
    BY <1>1, <1>2 DEF ReadsFile, FilePosted
  <1>6. Decrypts(i) => KeyPosted
    BY <1>1, <1>2 DEF Decrypts, KeyPosted
  <1>7. ParsesOnly(i) => ListPosted
    BY <1>1, <1>2 DEF ParsesOnly, ListPosted
  <1>8. Deletes(i) => SaveBegins
    BY <1>1 DEF Deletes, SaveBegins
  <1>9. Creates(i) => SaveGoesOn
    BY <1>1 DEF Creates, SaveGoesOn
  <1>10. Writes(i) => SaveEnds
    BY <1>1, <1>2 DEF Writes, SaveEnds
  <1>11. SaveFails(i) => SaveStops
    BY <1>1, <1>2 DEF SaveFails, SaveStops
  <1> QED
    BY <1>1, <1>3, <1>4, <1>5, <1>6, <1>7, <1>8, <1>9, <1>10, <1>11 DEF Works

\* Every step is one of these.
LEMMA StepIs ==
    ASSUME IsQueue(executor), Next
    PROVE  \/ Rests \/ Starts \/ Open \/ Finish \/ Kill
           \/ \E r \in http : HttpStart(r) \/ HttpSuccess(r) \/ HttpFailure(r) \/ BothFail(r)
           \/ Works
           \/ OfflineUnread \/ OfflineRead \/ Decrypted \/ NotDecrypted
           \/ ListLoaded \/ FavoritesLoaded
  <1>1. Background => Works
    BY BackgroundWorks DEF Background
  <1> QED
    BY <1>1, UserStarts, Resting DEF Next, User, Net, Main
------------------------------------------------------------------------------
(* Types                                                                      *)

RequestRecords == [frag : Nat, api : {"API", "SUB_API"}, sent : BOOLEAN, no : Nat]

\* The fragments are counted: no item belongs to one that is still to come, ...
NotAhead ==
    /\ \A r \in http : r.frag <= frag
    /\ \A t \in Elements(executor) \cup Elements(posts) : t.frag \in Nat /\ t.frag <= frag

\* ... and without the activity there is nothing in the fragment.
ClosedIsEmpty ==
    ~open => /\ isLoadingCSV = FALSE /\ overlapped = FALSE
             /\ RetainAllServerVPNs = None /\ RetainFavoriteVPNs = None

\* What is being saved is the answer of the first task.
SavingIsFirst ==
    saving # "no" => /\ executor # <<>> /\ executor[1].kind = "csv"
                     /\ executor[1].save /\ executor[1].data # Blank

Typed ==
    /\ IsQueue(executor) /\ IsQueue(posts) /\ http \subseteq RequestRecords
    /\ frag \in Nat /\ loads \in Nat /\ {isLoadingCSV, overlapped} \subseteq BOOLEAN
    /\ NotAhead /\ ClosedIsEmpty /\ SavingIsFirst

LEMMA RequestStays ==
    ASSUME NEW r \in RequestRecords
    PROVE  /\ [r EXCEPT !.sent = TRUE] \in RequestRecords
           /\ [r EXCEPT !.sent = TRUE].frag = r.frag
           /\ [r EXCEPT !.sent = TRUE].sent /\ [r EXCEPT !.sent = TRUE].api = r.api
           /\ [r EXCEPT !.sent = TRUE].no = r.no
  BY DEF RequestRecords

LEMMA RequestIs ==
    ASSUME NEW f \in Nat, NEW api \in {"API", "SUB_API"}, NEW n \in Nat
    PROVE  /\ Request(f, api, n) \in RequestRecords
           /\ Request(f, api, n).frag = f /\ ~Request(f, api, n).sent
  BY DEF Request, RequestRecords

LEMMA TypedAtFirst == Init => Typed
  <1> SUFFICES ASSUME Init
               PROVE  Typed
    OBVIOUS
  <1>1. executor = <<>> /\ posts = <<>> /\ http = {} /\ frag = 0 /\ loads = 0
    BY DEF Init
  <1>2. isLoadingCSV = FALSE /\ overlapped = FALSE /\ saving = "no"
    BY DEF Init
  <1>3. Elements(executor) \cup Elements(posts) = {}
    BY <1>1, EmptyQueue DEF Elements
  <1>4. NotAhead
    BY <1>1, <1>3 DEF NotAhead
  <1>5. ClosedIsEmpty /\ SavingIsFirst
    BY DEF Init, ClosedIsEmpty, SavingIsFirst
  <1> QED
    BY <1>1, <1>2, <1>4, <1>5, EmptyQueue DEF Typed

LEMMA StartsTyped ==
    ASSUME Typed, Starts
    PROVE  Typed'
  <1> USE DEF Starts, Typed
  <1>1. open /\ UNCHANGED <<open, frag, saving, posts>>
    OBVIOUS
  <1>2. CASE Nothing
    BY <1>1, <1>2 DEF Nothing, NotAhead, ClosedIsEmpty, SavingIsFirst, fragment
  <1>3. CASE NewRequest
    <2> DEFINE r == Request(frag, "API", loads)
    <2>1. /\ http' = http \cup {r} /\ loads' = loads + 1 /\ isLoadingCSV' = TRUE
          /\ executor' = executor /\ overlapped' = (overlapped \/ InFlight)
      BY <1>3 DEF NewRequest, loadVPNGateCsvFile, BeginsLoad
    <2>2. r \in RequestRecords /\ r.frag = frag
      BY RequestIs
    <2> HIDE DEF r
    <2> QED
      BY <1>1, <2>1, <2>2 DEF NotAhead, ClosedIsEmpty, SavingIsFirst
  <1>4. ASSUME NEW t, t.frag = frag, executor' = Append(executor, t), http' = http,
               isLoadingCSV' = isLoadingCSV, loads' \in Nat, overlapped' \in BOOLEAN
        PROVE  Typed'
    <2>1. /\ IsQueue(executor') /\ Elements(executor') = Elements(executor) \cup {t}
          /\ executor' # <<>> /\ (executor # <<>> => executor'[1] = executor[1])
      <3>1. executor # <<>> => 1 \in 1..Len(executor)
        BY Shorter
      <3> QED
        BY <1>4, <3>1, Longer, ElementsLonger
    <2> QED
      BY <1>1, <1>4, <2>1 DEF NotAhead, ClosedIsEmpty, SavingIsFirst
  <1>5. CASE NewFileTask
    <2> DEFINE t == Task("offline", frag, None, FALSE)
    <2>1. t.frag = frag
      BY DEF Task
    <2>2. executor' = Append(executor, t) /\ http' = http /\ isLoadingCSV' = isLoadingCSV
      BY <1>5 DEF NewFileTask, fragment
    <2>3. loads' = loads + 1 /\ overlapped' = (overlapped \/ InFlight)
      BY <1>5 DEF NewFileTask, BeginsLoad
    <2> HIDE DEF t
    <2> QED
      BY <1>4, <2>1, <2>2, <2>3
  <1>6. CASE NewRowsTask
    <2> DEFINE t == Task("db", frag, None, FALSE)
    <2>1. t.frag = frag
      BY DEF Task
    <2>2. executor' = Append(executor, t) /\ http' = http /\ isLoadingCSV' = isLoadingCSV
      BY <1>6 DEF NewRowsTask, fragment
    <2>3. loads' = loads /\ overlapped' = overlapped
      BY <1>6 DEF NewRowsTask
    <2> HIDE DEF t
    <2> QED
      BY <1>4, <2>1, <2>2, <2>3
  <1> QED
    BY <1>2, <1>3, <1>5, <1>6

LEMMA WorksTyped ==
    ASSUME Typed, Works
    PROVE  Typed'
  <1> USE DEF Works, Typed
  <1>1. /\ executor # <<>> /\ UNCHANGED <<open, frag, isLoadingCSV, http, overlapped, loads>>
        /\ UNCHANGED <<RetainAllServerVPNs, RetainFavoriteVPNs>>
    BY DEF fragment
  <1>2. ASSUME NEW d, Moved(d), saving' = "no"
        PROVE  Typed'
    <2> DEFINE p == [kind |-> executor[1].kind, frag |-> executor[1].frag, data |-> d]
    <2>1. executor' = Tail(executor) /\ posts' = Append(posts, p) /\ p.frag = executor[1].frag
      BY <1>2 DEF Moved
    <2> HIDE DEF p
    <2>2. IsQueue(executor') /\ Elements(executor) = Elements(executor') \cup {executor[1]}
      BY <1>1, <2>1, Shorter, ElementsShorter
    <2>3. IsQueue(posts') /\ Elements(posts') = Elements(posts) \cup {p}
      BY <2>1, Longer, ElementsLonger
    <2>4. NotAhead'
      BY <1>1, <2>1, <2>2, <2>3 DEF NotAhead
    <2>5. ClosedIsEmpty'
      BY <1>1 DEF ClosedIsEmpty
    <2> QED
      BY <1>1, <1>2, <2>2, <2>3, <2>4, <2>5 DEF SavingIsFirst
  <1>3. executor[1].kind # "csv" => saving = "no"
    BY DEF SavingIsFirst
  <1>4. CASE RowsPosted \/ FilePosted \/ KeyPosted
    BY <1>2, <1>3, <1>4 DEF RowsPosted, FilePosted, KeyPosted
  <1>5. CASE ListPosted \/ SaveEnds \/ SaveStops
    BY <1>2, <1>5 DEF ListPosted, SaveEnds, SaveStops
  <1>6. CASE SaveBegins \/ SaveGoesOn
    <2>1. UNCHANGED <<executor, posts>> /\ executor[1].kind = "csv"
      BY <1>6 DEF SaveBegins, SaveGoesOn
    <2>2. executor[1].save /\ executor[1].data # Blank
      BY <1>6 DEF SaveBegins, SaveGoesOn, Saves, SavingIsFirst
    <2> QED
      BY <1>1, <2>1, <2>2 DEF NotAhead, ClosedIsEmpty, SavingIsFirst
  <1> QED
    BY <1>4, <1>5, <1>6

LEMMA NetTyped ==
    ASSUME Typed, NEW r \in http, HttpStart(r) \/ HttpSuccess(r) \/ HttpFailure(r) \/ BothFail(r)
    PROVE  Typed'
  <1> USE DEF Typed
  <1>1. UNCHANGED <<open, frag, saving, posts, overlapped, loads>>
    BY DEF HttpStart, HttpSuccess, HttpFailure, BothFail, activity, tasks
  <1>2. UNCHANGED <<RetainAllServerVPNs, RetainFavoriteVPNs>>
    BY DEF HttpStart, HttpSuccess, HttpFailure, BothFail, fragment
  <1>3. r \in RequestRecords /\ r.frag <= frag
    BY DEF NotAhead
  <1>4. CASE HttpStart(r) \/ HttpFailure(r)
    <2>1. UNCHANGED <<executor, isLoadingCSV>>
      BY <1>4 DEF HttpStart, HttpFailure, tasks, fragment
    <2>2. PICK q \in RequestRecords : q.frag = r.frag /\ http' = (http \ {r}) \cup {q}
      <3>1. r.frag \in Nat /\ r.no \in Nat
        BY <1>3 DEF RequestRecords
      <3> DEFINE a == [r EXCEPT !.sent = TRUE]
                 b == Request(r.frag, "SUB_API", r.no)
      <3>2. a \in RequestRecords /\ a.frag = r.frag /\ b \in RequestRecords /\ b.frag = r.frag
        BY <1>3, <3>1, RequestStays, RequestIs
      <3>3. http' = (http \ {r}) \cup {a} \/ http' = (http \ {r}) \cup {b}
        BY <1>4 DEF HttpStart, HttpFailure
      <3> HIDE DEF a, b
      <3> QED
        BY <3>2, <3>3
    <2> QED
      BY <1>1, <1>2, <1>3, <2>1, <2>2 DEF NotAhead, ClosedIsEmpty, SavingIsFirst
  <1>5. CASE HttpSuccess(r)
    <2>1. http' = http \ {r} /\ isLoadingCSV' = isLoadingCSV
      BY <1>5 DEF HttpSuccess, fragment
    <2>2. PICK t : t.frag = r.frag /\ executor' = Append(executor, t)
      <3>1. PICK d : executor' = Append(executor,
                IF r.api = "API" THEN Task("csv", r.frag, d, TRUE)
                                 ELSE Task("decrypt", r.frag, d, FALSE))
        BY <1>5 DEF HttpSuccess
      <3> QED
        BY <3>1 DEF Task
    <2>3. /\ IsQueue(executor') /\ Elements(executor') = Elements(executor) \cup {t}
          /\ executor' # <<>> /\ (executor # <<>> => executor'[1] = executor[1])
      <3>1. executor # <<>> => 1 \in 1..Len(executor)
        BY Shorter
      <3> QED
        BY <2>2, <3>1, Longer, ElementsLonger
    <2>4. r.frag \in Nat
      BY <1>3 DEF RequestRecords
    <2> QED
      BY <1>1, <1>2, <1>3, <2>1, <2>2, <2>3, <2>4 DEF NotAhead, ClosedIsEmpty, SavingIsFirst
  <1>6. CASE BothFail(r)
    <2>1. executor' = executor /\ http' = http \ {r} /\ isLoadingCSV' \in {isLoadingCSV, FALSE}
      BY <1>6 DEF BothFail, tasks
    <2> QED
      BY <1>1, <1>2, <2>1 DEF NotAhead, ClosedIsEmpty, SavingIsFirst
  <1> QED
    BY <1>4, <1>5, <1>6
\* The main looper has taken the first result.
Taken(kind) ==
    /\ attached /\ posts # <<>> /\ posts[1].kind = kind /\ posts' = Tail(posts)
    /\ UNCHANGED <<open, frag, saving, stored, db>>

LEMMA MainTakes ==
    ASSUME IsQueue(posts), NEW kind, Delivered(kind)
    PROVE  Taken(kind) /\ Result = posts[1]
  <1>1. posts # <<>> /\ Head(posts) = posts[1]
    BY Shorter DEF Delivered
  <1> QED
    BY <1>1 DEF Delivered, Taken, Result, activity

LEMMA MainTyped ==
    ASSUME Typed, \/ OfflineUnread \/ OfflineRead \/ Decrypted \/ NotDecrypted
                  \/ ListLoaded \/ FavoritesLoaded
    PROVE  Typed'
  <1> USE DEF Typed
  <1>1. PICK kind : Delivered(kind)
    BY DEF OfflineUnread, OfflineRead, Decrypted, NotDecrypted, ListLoaded, FavoritesLoaded
  <1>2. Taken(kind) /\ Result = posts[1]
    BY <1>1, MainTakes
  <1>3. posts # <<>> /\ posts' = Tail(posts) /\ UNCHANGED <<open, frag, saving>>
    BY <1>2 DEF Taken
  <1>4. /\ IsQueue(posts') /\ Elements(posts) = Elements(posts') \cup {posts[1]}
        /\ posts[1].frag \in Nat /\ posts[1].frag <= frag
    BY <1>3, Shorter, ElementsShorter DEF NotAhead
  <1>5. ~open => /\ isLoadingCSV' = isLoadingCSV /\ overlapped' = overlapped
                 /\ UNCHANGED <<RetainAllServerVPNs, RetainFavoriteVPNs>>
    BY DEF OfflineUnread, OfflineRead, Decrypted, NotDecrypted, ListLoaded, FavoritesLoaded,
           fragment, loading, FlagFalls, Detached, ClosedIsEmpty
  <1>6. isLoadingCSV' \in BOOLEAN /\ overlapped' = overlapped
    <2>1. FlagFalls => isLoadingCSV' \in BOOLEAN
      BY DEF FlagFalls
    <2>2. ~FlagFalls => isLoadingCSV' \in BOOLEAN
      BY DEF OfflineUnread, OfflineRead, Decrypted, NotDecrypted, ListLoaded, FavoritesLoaded,
             fragment
    <2>3. overlapped' = overlapped
      BY DEF OfflineUnread, OfflineRead, Decrypted, NotDecrypted, ListLoaded, FavoritesLoaded,
             loading
    <2> QED
      BY <2>1, <2>2, <2>3
  <1>7. CASE OfflineUnread
    <2> DEFINE r == Request(posts[1].frag, "API", loads)
    <2>1. http' = http \cup {r} /\ loads' = loads + 1 /\ executor' = executor
      BY <1>2, <1>7 DEF OfflineUnread
    <2>2. r \in RequestRecords /\ r.frag = posts[1].frag
      BY <1>4, RequestIs
    <2> HIDE DEF r
    <2> QED
      BY <1>3, <1>4, <1>5, <1>6, <2>1, <2>2 DEF NotAhead, ClosedIsEmpty, SavingIsFirst
  <1>8. CASE OfflineRead \/ Decrypted
    <2>1. UNCHANGED <<http, loads>>
      BY <1>8 DEF OfflineRead, Decrypted, loading
    <2>2. PICK t : executor' = Append(executor, t) /\ t.frag = posts[1].frag
      BY <1>2, <1>8 DEF OfflineRead, Decrypted, Task
    <2>3. /\ IsQueue(executor') /\ Elements(executor') = Elements(executor) \cup {t}
          /\ executor' # <<>> /\ (executor # <<>> => executor'[1] = executor[1])
      <3>1. executor # <<>> => 1 \in 1..Len(executor)
        BY Shorter
      <3> QED
        BY <2>2, <3>1, Longer, ElementsLonger
    <2> QED
      BY <1>3, <1>4, <1>5, <1>6, <2>1, <2>2, <2>3 DEF NotAhead, ClosedIsEmpty, SavingIsFirst
  <1>9. CASE NotDecrypted \/ ListLoaded \/ FavoritesLoaded
    <2>1. UNCHANGED <<http, loads, executor>>
      BY <1>9 DEF NotDecrypted, ListLoaded, FavoritesLoaded, loading
    <2> QED
      BY <1>3, <1>4, <1>5, <1>6, <2>1 DEF NotAhead, ClosedIsEmpty, SavingIsFirst
  <1> QED
    BY <1>7, <1>8, <1>9

LEMMA TypedKept ==
    ASSUME Typed, [Next]_vars
    PROVE  Typed'
  <1>1. CASE UNCHANGED vars \/ Rests
    <2>1. /\ UNCHANGED <<open, frag, isLoadingCSV, RetainAllServerVPNs, RetainFavoriteVPNs>>
          /\ UNCHANGED <<http, overlapped, loads, executor, posts, saving>>
      BY <1>1 DEF vars, Rests, activity, fragment, loading, tasks
    <2> QED
      BY <2>1 DEF Typed, NotAhead, ClosedIsEmpty, SavingIsFirst
  <1>2. CASE Open
    <2>1. /\ UNCHANGED <<isLoadingCSV, RetainAllServerVPNs, RetainFavoriteVPNs>>
          /\ UNCHANGED <<http, overlapped, loads, executor, posts, saving>>
          /\ open' = TRUE /\ frag' = frag + 1
      BY <1>2 DEF Open, fragment, loading, tasks
    <2>2. frag \in Nat /\ (\A r \in http : r.frag \in Nat)
      BY DEF Typed, RequestRecords
    <2>3. NotAhead'
      BY <2>1, <2>2 DEF Typed, NotAhead
    <2> QED
      BY <2>1, <2>2, <2>3 DEF Typed, ClosedIsEmpty, SavingIsFirst
  <1>3. CASE Finish
    <2>1. UNCHANGED <<frag, http, loads, executor, posts, saving>> /\ Gone
      BY <1>3 DEF Finish, tasks
    <2> QED
      BY <2>1 DEF Typed, Gone, NotAhead, ClosedIsEmpty, SavingIsFirst
  <1>4. CASE Kill
    <2>1. /\ http' = {} /\ executor' = <<>> /\ posts' = <<>> /\ saving' = "no" /\ Gone
          /\ UNCHANGED <<frag, loads>>
      BY <1>4 DEF Kill
    <2>2. Elements(executor') \cup Elements(posts') = {}
      BY <2>1, EmptyQueue DEF Elements
    <2>3. NotAhead' /\ SavingIsFirst' /\ ClosedIsEmpty'
      BY <2>1, <2>2 DEF NotAhead, SavingIsFirst, ClosedIsEmpty, Gone
    <2> QED
      BY <2>1, <2>3, EmptyQueue DEF Typed, Gone
  <1> QED
    BY <1>1, <1>2, <1>3, <1>4, StepIs, StartsTyped, WorksTyped, NetTyped, MainTyped DEF Typed
------------------------------------------------------------------------------
(* The flag                                                                   *)

\* A queue holds an item of a load of the list for fragment f.
Holds(q, f) == \E t \in Elements(q) : t.frag = f /\ t.kind # "db"

LEMMA InFlightIs ==
    /\ InFlight <=> (\E r \in http : r.frag = frag) \/ Holds(executor, frag) \/ Holds(posts, frag)
    /\ InFlight' <=> (\E r \in http' : r.frag = frag') \/ Holds(executor', frag')
                     \/ Holds(posts', frag')
  BY DEF InFlight, Holds, Elements

LEMMA HoldsMore ==
    ASSUME NEW q, IsQueue(q), NEW x, NEW f
    PROVE  Holds(Append(q, x), f) <=> Holds(q, f) \/ (x.frag = f /\ x.kind # "db")
  BY ElementsLonger DEF Holds

LEMMA HoldsLess ==
    ASSUME NEW q, IsQueue(q), q # <<>>, NEW f
    PROVE  Holds(q, f) <=> Holds(Tail(q), f) \/ (q[1].frag = f /\ q[1].kind # "db")
  BY ElementsShorter DEF Holds

LEMMA FlagKept ==
    ASSUME Typed, FlagMeansLoading, [Next]_vars
    PROVE  FlagMeansLoading'
  <1> SUFFICES ASSUME open', isLoadingCSV'
               PROVE  InFlight'
    BY DEF FlagMeansLoading
  <1> USE DEF FlagMeansLoading
  <1> DEFINE Mine(x) == x.frag = frag /\ x.kind # "db"
  <1>1. IsQueue(executor) /\ IsQueue(posts)
    BY DEF Typed
  <1>2. CASE UNCHANGED vars \/ Rests
    <2>1. UNCHANGED <<open, frag, isLoadingCSV, http, executor, posts>>
      BY <1>2 DEF vars, Rests, activity, fragment, loading, tasks
    <2> QED
      BY <2>1, InFlightIs
  <1>3. CASE Starts
    <2>1. UNCHANGED <<open, frag, posts>>
      BY <1>3 DEF Starts
    <2>2. CASE Nothing
      BY <2>1, <2>2, InFlightIs DEF Nothing, fragment
    <2>3. CASE NewRequest
      <3>1. http' = http \cup {Request(frag, "API", loads)}
        BY <2>3 DEF NewRequest, loadVPNGateCsvFile
      <3>2. Request(frag, "API", loads).frag = frag
        BY DEF Request
      <3> QED
        BY <2>1, <3>1, <3>2, InFlightIs
    <2>4. CASE NewFileTask \/ NewRowsTask
      <3>1. PICK t : executor' = Append(executor, t)
        BY <2>4 DEF NewFileTask, NewRowsTask
      <3>2. UNCHANGED <<http, isLoadingCSV>>
        BY <2>4 DEF NewFileTask, NewRowsTask, fragment
      <3> QED
        BY <1>1, <2>1, <3>1, <3>2, InFlightIs, HoldsMore
    <2> QED
      BY <1>3, <2>2, <2>3, <2>4 DEF Starts
  <1>4. CASE Open \/ Finish \/ Kill
    BY <1>4 DEF Open, Finish, Kill, Gone, fragment, Typed, ClosedIsEmpty
  <1>5. CASE Works
    <2>1. UNCHANGED <<open, frag, isLoadingCSV, http>> /\ executor # <<>>
      BY <1>5 DEF Works, fragment
    <2>2. CASE UNCHANGED <<executor, posts>>
      BY <2>1, <2>2, InFlightIs
    <2>3. ASSUME NEW d, Moved(d)
          PROVE  InFlight'
      <3> DEFINE p == [kind |-> executor[1].kind, frag |-> executor[1].frag, data |-> d]
      <3>1. executor' = Tail(executor) /\ posts' = Append(posts, p)
        BY <2>3 DEF Moved
      <3>2. p.frag = executor[1].frag /\ p.kind = executor[1].kind
        OBVIOUS
      <3> HIDE DEF p
      <3>3. Holds(executor, frag) => Holds(executor', frag) \/ Mine(p)
        BY <1>1, <2>1, <3>1, <3>2, HoldsLess
      <3>4. Holds(posts', frag) <=> Holds(posts, frag) \/ Mine(p)
        BY <1>1, <3>1, HoldsMore
      <3> QED
        BY <2>1, <3>3, <3>4, InFlightIs
    <2> QED
      BY <1>5, <2>2, <2>3 DEF Works, RowsPosted, FilePosted, KeyPosted, ListPosted, SaveBegins,
                              SaveGoesOn, SaveEnds, SaveStops
  <1>6. ASSUME NEW r \in http, HttpStart(r) \/ HttpSuccess(r) \/ HttpFailure(r) \/ BothFail(r)
        PROVE  InFlight'
    <2>1. UNCHANGED <<open, frag, posts, attached>>
      BY <1>6 DEF HttpStart, HttpSuccess, HttpFailure, BothFail, activity, tasks
    <2>2. CASE HttpStart(r) \/ HttpFailure(r)
      <3>1. UNCHANGED <<isLoadingCSV, executor>>
        BY <2>2 DEF HttpStart, HttpFailure, fragment, tasks
      <3>2. PICK q : q.frag = r.frag /\ http' = (http \ {r}) \cup {q}
        <4>1. r \in RequestRecords
          BY DEF Typed
        <4> DEFINE a == [r EXCEPT !.sent = TRUE]
                   b == Request(r.frag, "SUB_API", r.no)
        <4>2. a.frag = r.frag
          BY <4>1, RequestStays
        <4>3. b.frag = r.frag
          BY DEF Request
        <4>4. http' = (http \ {r}) \cup {a} \/ http' = (http \ {r}) \cup {b}
          BY <2>2 DEF HttpStart, HttpFailure
        <4> HIDE DEF a, b
        <4> QED
          BY <4>2, <4>3, <4>4
      <3> QED
        BY <2>1, <3>1, <3>2, InFlightIs
    <2>3. CASE HttpSuccess(r)
      <3>1. UNCHANGED isLoadingCSV /\ http' = http \ {r}
        BY <2>3 DEF HttpSuccess, fragment
      <3>2. PICK t : t.frag = r.frag /\ t.kind # "db" /\ executor' = Append(executor, t)
        <4>1. PICK d : executor' = Append(executor,
                  IF r.api = "API" THEN Task("csv", r.frag, d, TRUE)
                                   ELSE Task("decrypt", r.frag, d, FALSE))
          BY <2>3 DEF HttpSuccess
        <4> QED
          BY <4>1 DEF Task
      <3> QED
        BY <1>1, <2>1, <3>1, <3>2, InFlightIs, HoldsMore
    <2>4. CASE BothFail(r)
      <3>1. attached /\ http' = http \ {r} /\ executor' = executor /\ Detached(r.frag)
            /\ isLoadingCSV' = isLoadingCSV
        BY <2>4 DEF BothFail, tasks
      <3>2. r.frag # frag
        BY <2>1, <3>1 DEF Detached
      <3> QED
        BY <2>1, <3>1, <3>2, InFlightIs
    <2> QED
      BY <1>6, <2>2, <2>3, <2>4
  <1>7. CASE \/ OfflineUnread \/ OfflineRead \/ Decrypted \/ NotDecrypted
             \/ ListLoaded \/ FavoritesLoaded
    <2>1. PICK kind : Delivered(kind)
      BY <1>7 DEF OfflineUnread, OfflineRead, Decrypted, NotDecrypted, ListLoaded,
                  FavoritesLoaded
    <2>2. Taken(kind) /\ Result = posts[1]
      BY <1>1, <2>1, MainTakes
    <2>3. posts # <<>> /\ posts' = Tail(posts) /\ UNCHANGED <<open, frag>>
      BY <2>2 DEF Taken
    <2>4. Holds(posts, frag) => Holds(posts', frag) \/ Mine(posts[1])
      BY <1>1, <2>3, HoldsLess
    <2>5. CASE OfflineUnread
      <3>1. http' = http \cup {Request(posts[1].frag, "API", loads)} /\ executor' = executor
            /\ isLoadingCSV' = (isLoadingCSV \/ (open /\ posts[1].frag = frag))
        BY <2>2, <2>5 DEF OfflineUnread
      <3>2. Request(posts[1].frag, "API", loads).frag = posts[1].frag
        BY DEF Request
      <3> QED
        BY <2>3, <2>4, <3>1, <3>2, InFlightIs
    <2>6. CASE OfflineRead
      <3>1. UNCHANGED <<http, isLoadingCSV>>
        BY <2>6 DEF OfflineRead, fragment, loading
      <3>2. PICK t : t.frag = posts[1].frag /\ t.kind # "db" /\ executor' = Append(executor, t)
        BY <2>2, <2>6 DEF OfflineRead, Task
      <3> QED
        BY <1>1, <2>3, <2>4, <3>1, <3>2, InFlightIs, HoldsMore
    <2>7. CASE FlagFalls
      <3>1. posts[1].frag # frag /\ isLoadingCSV
        BY <2>2, <2>3, <2>7 DEF FlagFalls
      <3>2. InFlight /\ ~Mine(posts[1])
        BY <2>3, <3>1
      <3>3. http \subseteq http' /\ (executor' = executor \/ \E t : executor' = Append(executor, t))
        BY <1>7 DEF OfflineUnread, OfflineRead, Decrypted, NotDecrypted, ListLoaded,
                    FavoritesLoaded, loading
      <3>4. Holds(executor, frag) => Holds(executor', frag)
        BY <1>1, <3>3, HoldsMore
      <3> QED
        BY <2>3, <2>4, <3>2, <3>3, <3>4, InFlightIs
    <2>8. CASE FavoritesLoaded
      <3>1. UNCHANGED <<http, executor, isLoadingCSV>> /\ posts[1].kind = "db"
        BY <1>1, <2>8, MainTakes DEF FavoritesLoaded, loading, Taken
      <3> QED
        BY <2>3, <2>4, <3>1, InFlightIs
    <2> QED
      BY <1>7, <2>5, <2>6, <2>7, <2>8 DEF Decrypted, NotDecrypted, ListLoaded
  <1> QED
    BY <1>1, <1>2, <1>3, <1>4, <1>5, <1>6, <1>7, StepIs
------------------------------------------------------------------------------
(* The file                                                                   *)

\* A file that was cut off is being written or was left so.
FileIsWhole == file = Blank => saving = "created" \/ torn

LEMMA WholeAtFirst == Init => FileIsWhole
  BY ConstantsAssumption DEF Init, FileIsWhole

LEMMA WholeKept ==
    ASSUME Typed, FileIsWhole, [Next]_vars
    PROVE  FileIsWhole'
  <1> USE DEF FileIsWhole
  <1>1. CASE UNCHANGED vars \/ Rests \/ Starts \/ Open \/ Finish
    BY <1>1 DEF vars, Rests, Starts, Open, Finish, tasks, stored
  <1>2. CASE Kill
    BY <1>2 DEF Kill
  <1>3. CASE Works
    <2>1. SaveBegins => file' # Blank
      BY ConstantsAssumption DEF SaveBegins
    <2>2. SaveEnds => file' # Blank
      BY DEF SaveEnds, Typed, SavingIsFirst
    <2>3. RowsPosted \/ FilePosted \/ KeyPosted => UNCHANGED <<saving, file, torn>>
      BY DEF RowsPosted, FilePosted, KeyPosted, stored
    <2>4. ListPosted => UNCHANGED <<saving, file>> /\ (torn => torn')
      BY DEF ListPosted
    <2>5. SaveGoesOn => saving' = "created"
      BY DEF SaveGoesOn
    <2>6. SaveStops => torn'
      BY DEF SaveStops
    <2> QED
      BY <1>3, <2>1, <2>2, <2>3, <2>4, <2>5, <2>6 DEF Works
  <1>4. ASSUME NEW r \in http, HttpStart(r) \/ HttpSuccess(r) \/ HttpFailure(r) \/ BothFail(r)
        PROVE  FileIsWhole'
    BY <1>4 DEF HttpStart, HttpSuccess, HttpFailure, BothFail, tasks, stored
  <1>5. CASE \/ OfflineUnread \/ OfflineRead \/ Decrypted \/ NotDecrypted
             \/ ListLoaded \/ FavoritesLoaded
    BY <1>5 DEF OfflineUnread, OfflineRead, Decrypted, NotDecrypted, ListLoaded,
                FavoritesLoaded, Delivered, stored
  <1> QED
    BY <1>1, <1>2, <1>3, <1>4, <1>5, StepIs DEF Typed

\* What a step posts is the result of the first task.
LEMMA OneIsPosted ==
    ASSUME Typed, [Next]_vars, NEW i \in 1..Len(posts'), i > Len(posts)
    PROVE  /\ Works /\ posts'[i].kind = executor[1].kind
           /\ executor[1].kind = "offline" => posts'[i].data = file
  <1>1. IsQueue(executor) /\ IsQueue(posts) /\ Len(posts) \in Nat
    BY Longer DEF Typed
  <1>2. CASE UNCHANGED vars \/ Rests \/ Starts \/ Open \/ Finish \/ Kill
    <2>1. posts' = posts \/ posts' = <<>>
      BY <1>2 DEF vars, Rests, Starts, Open, Finish, Kill, tasks
    <2>2. Len(posts') = Len(posts) \/ Len(posts') = 0
      BY <2>1, EmptyQueue
    <2> QED
      BY <1>1, <2>2
  <1>3. ASSUME NEW r \in http, HttpStart(r) \/ HttpSuccess(r) \/ HttpFailure(r) \/ BothFail(r)
        PROVE  FALSE
    <2>1. posts' = posts
      BY <1>3 DEF HttpStart, HttpSuccess, HttpFailure, BothFail, tasks
    <2> QED
      BY <1>1, <2>1
  <1>4. CASE \/ OfflineUnread \/ OfflineRead \/ Decrypted \/ NotDecrypted
             \/ ListLoaded \/ FavoritesLoaded
    <2>1. posts # <<>> /\ posts' = Tail(posts)
      BY <1>4 DEF OfflineUnread, OfflineRead, Decrypted, NotDecrypted, ListLoaded,
                  FavoritesLoaded, Delivered
    <2> QED
      BY <1>1, <2>1, Shorter
  <1>5. CASE Works
    <2>1. CASE posts' = posts
      BY <1>1, <2>1
    <2>2. ASSUME NEW d, Moved(d), executor[1].kind = "offline" => d = file
          PROVE  /\ posts'[i].kind = executor[1].kind
                 /\ executor[1].kind = "offline" => posts'[i].data = file
      <3> DEFINE p == [kind |-> executor[1].kind, frag |-> executor[1].frag, data |-> d]
      <3>1. posts' = Append(posts, p)
        BY <2>2 DEF Moved
      <3>2. p.kind = executor[1].kind /\ p.data = d
        OBVIOUS
      <3> HIDE DEF p
      <3>3. Len(posts') = Len(posts) + 1 /\ posts'[Len(posts) + 1] = p
        BY <1>1, <3>1, Longer
      <3>4. i = Len(posts) + 1
        BY <1>1, <3>3
      <3> QED
        BY <2>2, <3>2, <3>3, <3>4
    <2> QED
      BY <1>5, <2>1, <2>2
         DEF Works, RowsPosted, FilePosted, KeyPosted, ListPosted, SaveBegins, SaveGoesOn,
             SaveEnds, SaveStops
  <1> QED
    BY <1>1, <1>2, <1>3, <1>4, <1>5, StepIs
------------------------------------------------------------------------------
(* The favourites                                                             *)

\* The places of the loads of the favourites in a queue.
RowsAt(q) == {i \in 1..Len(q) : q[i].kind = "db"}

LEMMA RowsAtLonger ==
    ASSUME NEW q, IsQueue(q), NEW x
    PROVE  /\ Len(q) \in Nat /\ Append(q, x)[Len(q) + 1] = x
           /\ \A i \in RowsAt(q) : i \in RowsAt(Append(q, x)) /\ Append(q, x)[i] = q[i]
           /\ \A i \in RowsAt(Append(q, x)) : i \in RowsAt(q) \/ i = Len(q) + 1
           /\ Len(q) + 1 \in RowsAt(Append(q, x)) <=> x.kind = "db"
           /\ \A i \in RowsAt(q) : i \in 1..Len(q) /\ q[i] \in Elements(q)
  <1> DEFINE r == Append(q, x)
  <1>1. /\ Len(q) \in Nat /\ Len(r) = Len(q) + 1 /\ r[Len(q) + 1] = x
        /\ \A i \in 1..Len(q) : r[i] = q[i]
    BY Longer
  <1> HIDE DEF r
  <1>2. /\ \A i \in RowsAt(q) : i \in RowsAt(r) /\ r[i] = q[i]
        /\ \A i \in RowsAt(r) : i \in RowsAt(q) \/ i = Len(q) + 1
        /\ Len(q) + 1 \in RowsAt(r) <=> x.kind = "db"
    BY <1>1 DEF RowsAt
  <1>3. \A i \in RowsAt(q) : i \in 1..Len(q) /\ q[i] \in Elements(q)
    BY DEF RowsAt, Elements
  <1> QED
    BY <1>1, <1>2, <1>3 DEF r

LEMMA RowsAtShorter ==
    ASSUME NEW q, IsQueue(q), q # <<>>
    PROVE  /\ \A i \in RowsAt(Tail(q)) : i \in Nat /\ i + 1 \in RowsAt(q) /\ Tail(q)[i] = q[i + 1]
           /\ \A i \in RowsAt(q) : i = 1 \/ i - 1 \in RowsAt(Tail(q))
           /\ \A i \in RowsAt(q) : i \in Nat /\ 1 <= i
           /\ 1 \in RowsAt(q) <=> q[1].kind = "db"
  <1> DEFINE r == Tail(q)
  <1>1. /\ Len(q) \in Nat \ {0} /\ Len(r) = Len(q) - 1
        /\ \A i \in 1..Len(r) : r[i] = q[i + 1]
    BY Shorter
  <1> HIDE DEF r
  <1>2. \A i \in RowsAt(r) : i \in Nat /\ i + 1 \in RowsAt(q) /\ r[i] = q[i + 1]
    BY <1>1 DEF RowsAt
  <1>3. ASSUME NEW i \in RowsAt(q), i # 1
        PROVE  i - 1 \in RowsAt(r)
    <2>1. i \in 1..Len(q) /\ q[i].kind = "db"
      BY DEF RowsAt
    <2>2. i - 1 \in 1..Len(r) /\ (i - 1) + 1 = i
      BY <1>1, <1>3, <2>1
    <2>3. r[i - 1] = q[i]
      BY <1>1, <2>2
    <2> QED
      BY <2>1, <2>2, <2>3 DEF RowsAt
  <1>4. /\ \A i \in RowsAt(q) : i \in Nat /\ 1 <= i
        /\ 1 \in RowsAt(q) <=> q[1].kind = "db"
    BY <1>1 DEF RowsAt
  <1> QED
    BY <1>2, <1>3, <1>4 DEF r

\* The loads of the favourites are in the order of their fragments.
Sorted(q) == \A i, j \in RowsAt(q) : i <= j => q[i].frag <= q[j].frag

LEMMA SortedLonger ==
    ASSUME NEW q, IsQueue(q), Sorted(q), NEW x, x.frag \in Nat,
           x.kind = "db" => \A t \in Elements(q) : t.kind = "db" => t.frag <= x.frag
    PROVE  Sorted(Append(q, x))
  <1> DEFINE r == Append(q, x)
  <1>1. /\ Len(q) \in Nat /\ r[Len(q) + 1] = x
        /\ \A i \in RowsAt(q) : r[i] = q[i] /\ i \in 1..Len(q) /\ q[i] \in Elements(q)
        /\ \A i \in RowsAt(r) : i \in RowsAt(q) \/ i = Len(q) + 1
        /\ Len(q) + 1 \in RowsAt(r) => x.kind = "db"
    BY RowsAtLonger
  <1> HIDE DEF r
  <1>2. SUFFICES ASSUME NEW i \in RowsAt(r), NEW j \in RowsAt(r), i <= j
                 PROVE  r[i].frag <= r[j].frag
    BY DEF r, Sorted
  <1>3. CASE j = Len(q) + 1 /\ i = Len(q) + 1
    BY <1>1, <1>3
  <1>4. CASE j = Len(q) + 1 /\ i \in RowsAt(q)
    <2>1. q[i] \in Elements(q) /\ q[i].kind = "db" /\ r[i] = q[i] /\ r[j] = x /\ x.kind = "db"
      BY <1>1, <1>4 DEF RowsAt
    <2> QED
      BY <2>1
  <1>5. CASE j \in RowsAt(q)
    <2>1. i \in RowsAt(q)
      BY <1>1, <1>2, <1>5
    <2> QED
      BY <1>1, <1>2, <1>5, <2>1 DEF Sorted
  <1> QED
    BY <1>1, <1>3, <1>4, <1>5

LEMMA SortedShorter ==
    ASSUME NEW q, IsQueue(q), q # <<>>, Sorted(q)
    PROVE  /\ Sorted(Tail(q))
           /\ q[1].kind = "db" => \A t \in Elements(q) : t.kind = "db" => q[1].frag <= t.frag
  <1>1. Sorted(Tail(q))
    <2> DEFINE r == Tail(q)
    <2>1. \A i \in RowsAt(r) : i \in Nat /\ i + 1 \in RowsAt(q) /\ r[i] = q[i + 1]
      BY RowsAtShorter
    <2> HIDE DEF r
    <2>2. ASSUME NEW i \in RowsAt(r), NEW j \in RowsAt(r), i <= j
          PROVE  r[i].frag <= r[j].frag
      <3>1. i + 1 <= j + 1
        BY <2>1, <2>2
      <3> QED
        BY <2>1, <3>1 DEF Sorted
    <2> QED
      BY <2>2 DEF Sorted, r
  <1>2. ASSUME q[1].kind = "db", NEW t \in Elements(q), t.kind = "db"
        PROVE  q[1].frag <= t.frag
    <2>1. PICK i \in 1..Len(q) : t = q[i]
      BY DEF Elements
    <2>2. i \in RowsAt(q) /\ 1 \in RowsAt(q) /\ 1 <= i
      BY <1>2, <2>1, RowsAtShorter DEF RowsAt
    <2> QED
      BY <2>1, <2>2 DEF Sorted
  <1> QED
    BY <1>1, <1>2

\* The last of them has read d.
LastHas(q, d) == \A i \in RowsAt(q) : (\A j \in RowsAt(q) : j <= i) => q[i].data = d

NoRows(q) == \A t \in Elements(q) : t.kind # "db"

LEMMA LastLonger ==
    ASSUME NEW q, IsQueue(q), NEW x, NEW d, IF x.kind = "db" THEN x.data = d ELSE LastHas(q, d)
    PROVE  LastHas(Append(q, x), d)
  <1> DEFINE r == Append(q, x)
  <1>1. /\ Len(q) \in Nat /\ r[Len(q) + 1] = x
        /\ \A i \in RowsAt(q) : i \in RowsAt(r) /\ r[i] = q[i] /\ i \in 1..Len(q)
        /\ \A i \in RowsAt(r) : i \in RowsAt(q) \/ i = Len(q) + 1
        /\ Len(q) + 1 \in RowsAt(r) <=> x.kind = "db"
    BY RowsAtLonger
  <1> HIDE DEF r
  <1>2. SUFFICES ASSUME NEW i \in RowsAt(r), \A j \in RowsAt(r) : j <= i
                 PROVE  r[i].data = d
    BY DEF r, LastHas
  <1>3. CASE x.kind = "db"
    <2>1. Len(q) + 1 <= i
      BY <1>1, <1>2, <1>3
    <2>2. i = Len(q) + 1
      BY <1>1, <2>1
    <2> QED
      BY <1>1, <1>3, <2>2
  <1>4. CASE x.kind # "db"
    <2>1. i \in RowsAt(q) /\ \A j \in RowsAt(q) : j <= i
      BY <1>1, <1>2, <1>4
    <2> QED
      BY <1>1, <1>4, <2>1 DEF LastHas
  <1> QED
    BY <1>3, <1>4

LEMMA LastShorter ==
    ASSUME NEW q, IsQueue(q), q # <<>>, NEW d, LastHas(q, d)
    PROVE  /\ LastHas(Tail(q), d)
           /\ q[1].kind = "db" /\ NoRows(Tail(q)) => q[1].data = d
  <1> DEFINE r == Tail(q)
  <1>1. /\ \A i \in RowsAt(r) : i \in Nat /\ i + 1 \in RowsAt(q) /\ r[i] = q[i + 1]
        /\ \A i \in RowsAt(q) : i = 1 \/ i - 1 \in RowsAt(r)
        /\ \A i \in RowsAt(q) : i \in Nat /\ 1 <= i
        /\ 1 \in RowsAt(q) <=> q[1].kind = "db"
    BY RowsAtShorter
  <1> HIDE DEF r
  <1>2. ASSUME NEW i \in RowsAt(r), \A j \in RowsAt(r) : j <= i
        PROVE  r[i].data = d
    <2>1. i \in Nat /\ i + 1 \in RowsAt(q) /\ r[i] = q[i + 1]
      BY <1>1
    <2>2. ASSUME NEW j \in RowsAt(q)
          PROVE  j <= i + 1
      <3>1. j \in Nat /\ (j = 1 \/ j - 1 <= i)
        BY <1>1, <1>2
      <3> QED
        BY <2>1, <3>1
    <2> QED
      BY <2>1, <2>2 DEF LastHas
  <1>3. ASSUME q[1].kind = "db", NoRows(r)
        PROVE  q[1].data = d
    <2>1. RowsAt(r) = {}
      BY <1>3 DEF NoRows, RowsAt, Elements
    <2>2. \A j \in RowsAt(q) : j <= 1
      BY <1>1, <2>1
    <2> QED
      BY <1>1, <1>3, <2>2 DEF LastHas
  <1> QED
    BY <1>2, <1>3 DEF LastHas, r
\* What a step does to the loads of the favourites: nothing, ...
RowsRest ==
    /\ UNCHANGED <<open, frag, db, RetainFavoriteVPNs>>
    /\ executor' = executor \/ \E t : /\ executor' = Append(executor, t)
                                      /\ t.kind # "db" /\ t.frag \in Nat
    /\ posts' = posts \/ (posts # <<>> /\ posts[1].kind # "db" /\ posts' = Tail(posts))

\* ... one is added, ...
RowsAsked ==
    /\ open /\ UNCHANGED <<open, frag, posts, RetainFavoriteVPNs>>
    /\ \E t : executor' = Append(executor, t) /\ t.kind = "db" /\ t.frag = frag

\* ... the first task has a result, ...
RowsRead ==
    /\ executor # <<>> /\ UNCHANGED <<open, frag, db, RetainFavoriteVPNs>>
    /\ \E p : /\ posts' = Append(posts, p) /\ executor' = Tail(executor)
              /\ p.kind = executor[1].kind /\ p.frag = executor[1].frag
              /\ p.kind = "db" => p.data = db

\* ... a result is shown, ...
RowsShown ==
    /\ posts # <<>> /\ posts[1].kind = "db" /\ posts' = Tail(posts)
    /\ UNCHANGED <<open, frag, db, executor>>
    /\ RetainFavoriteVPNs' = IF open /\ posts[1].frag = frag THEN posts[1].data
                                                             ELSE RetainFavoriteVPNs

\* ... or the activity comes and goes.
RowsLeft ==
    /\ UNCHANGED <<frag, db>> /\ ~open'
    /\ UNCHANGED <<executor, posts>> \/ (executor' = <<>> /\ posts' = <<>>)
RowsFresh ==
    /\ ~open /\ UNCHANGED <<executor, posts, db, RetainFavoriteVPNs>> /\ frag' = frag + 1

LEMMA RowsMove ==
    ASSUME Typed, [Next]_vars
    PROVE  RowsRest \/ RowsAsked \/ RowsRead \/ RowsShown \/ RowsLeft \/ RowsFresh
  <1>1. IsQueue(executor) /\ IsQueue(posts) /\ frag \in Nat
    BY DEF Typed
  <1>2. CASE UNCHANGED vars \/ Rests
    BY <1>2 DEF vars, Rests, activity, fragment, tasks, RowsRest
  <1>3. CASE Starts
    <2>1. open /\ UNCHANGED <<open, frag, posts>>
      BY <1>3 DEF Starts
    <2>2. Nothing \/ NewRequest => RowsRest
      BY <2>1 DEF Nothing, NewRequest, loadVPNGateCsvFile, fragment, RowsRest
    <2>3. CASE NewFileTask
      <3> DEFINE t == Task("offline", frag, None, FALSE)
      <3>1. t.kind # "db" /\ t.frag \in Nat
        BY <1>1 DEF Task
      <3>2. executor' = Append(executor, t) /\ UNCHANGED <<db, RetainFavoriteVPNs>>
        BY <2>3 DEF NewFileTask, fragment
      <3> HIDE DEF t
      <3> QED
        BY <2>1, <3>1, <3>2 DEF RowsRest
    <2>4. CASE NewRowsTask
      <3> DEFINE t == Task("db", frag, None, FALSE)
      <3>1. t.kind = "db" /\ t.frag = frag
        BY DEF Task
      <3>2. executor' = Append(executor, t) /\ UNCHANGED RetainFavoriteVPNs
        BY <2>4 DEF NewRowsTask, fragment
      <3> HIDE DEF t
      <3> QED
        BY <2>1, <3>1, <3>2 DEF RowsAsked
    <2> QED
      BY <1>3, <2>2, <2>3, <2>4 DEF Starts
  <1>4. CASE Open
    BY <1>4 DEF Open, fragment, tasks, RowsFresh
  <1>5. CASE Finish \/ Kill
    BY <1>5 DEF Finish, Kill, Gone, tasks, RowsLeft
  <1>6. CASE Works
    <2>1. executor # <<>> /\ UNCHANGED <<open, frag, db, RetainFavoriteVPNs>>
      BY <1>6 DEF Works, fragment
    <2>2. CASE UNCHANGED <<executor, posts>>
      BY <2>1, <2>2 DEF RowsRest
    <2>3. ASSUME NEW d, Moved(d), executor[1].kind = "db" => d = db
          PROVE  RowsRead
      <3> DEFINE p == [kind |-> executor[1].kind, frag |-> executor[1].frag, data |-> d]
      <3>1. executor' = Tail(executor) /\ posts' = Append(posts, p)
        BY <2>3 DEF Moved
      <3>2. p.kind = executor[1].kind /\ p.frag = executor[1].frag /\ p.data = d
        OBVIOUS
      <3> HIDE DEF p
      <3> QED
        BY <2>1, <2>3, <3>1, <3>2 DEF RowsRead
    <2> QED
      BY <1>6, <2>2, <2>3
         DEF Works, RowsPosted, FilePosted, KeyPosted, ListPosted, SaveBegins, SaveGoesOn,
             SaveEnds, SaveStops
  <1>7. ASSUME NEW r \in http, HttpStart(r) \/ HttpSuccess(r) \/ HttpFailure(r) \/ BothFail(r)
        PROVE  RowsRest
    <2>1. UNCHANGED <<open, frag, posts, db, RetainFavoriteVPNs>>
      BY <1>7 DEF HttpStart, HttpSuccess, HttpFailure, BothFail, activity, tasks, fragment
    <2>2. CASE HttpSuccess(r)
      <3>1. PICK d : executor' = Append(executor,
                IF r.api = "API" THEN Task("csv", r.frag, d, TRUE)
                                 ELSE Task("decrypt", r.frag, d, FALSE))
        BY <2>2 DEF HttpSuccess
      <3>2. r.frag \in Nat
        BY DEF Typed, RequestRecords
      <3>3. PICK t : executor' = Append(executor, t) /\ t.frag \in Nat /\ t.kind # "db"
        BY <3>1, <3>2 DEF Task
      <3> QED
        BY <2>1, <3>3 DEF RowsRest
    <2>3. ~HttpSuccess(r) => executor' = executor
      BY <1>7 DEF HttpStart, HttpFailure, BothFail, tasks
    <2> QED
      BY <2>1, <2>2, <2>3 DEF RowsRest
  <1>8. CASE \/ OfflineUnread \/ OfflineRead \/ Decrypted \/ NotDecrypted \/ ListLoaded
    <2>1. PICK kind \in {"offline", "decrypt", "csv"} : Delivered(kind)
      BY <1>8, Zenon DEF OfflineUnread, OfflineRead, Decrypted, NotDecrypted, ListLoaded
    <2>2. Taken(kind) /\ Result = posts[1]
      BY <1>1, <2>1, MainTakes
    <2>3. /\ posts # <<>> /\ posts[1].kind # "db" /\ posts' = Tail(posts)
          /\ UNCHANGED <<open, frag, db>>
      BY <2>1, <2>2 DEF Taken
    <2>4. RetainFavoriteVPNs' = RetainFavoriteVPNs
      BY <1>8 DEF OfflineUnread, OfflineRead, Decrypted, NotDecrypted, ListLoaded, fragment
    <2>5. CASE OfflineRead \/ Decrypted
      <3>1. posts[1].frag \in Nat
        BY <2>3, ElementsShorter DEF Typed, NotAhead
      <3>2. PICK t : executor' = Append(executor, t) /\ t.frag \in Nat /\ t.kind # "db"
        BY <2>2, <2>5, <3>1 DEF OfflineRead, Decrypted, Task
      <3> QED
        BY <2>3, <2>4, <3>2 DEF RowsRest
    <2>6. OfflineUnread \/ NotDecrypted \/ ListLoaded => executor' = executor
      BY DEF OfflineUnread, NotDecrypted, ListLoaded
    <2> QED
      BY <1>8, <2>3, <2>4, <2>5, <2>6 DEF RowsRest
  <1>9. CASE FavoritesLoaded
    <2>1. Taken("db") /\ Result = posts[1]
      BY <1>1, <1>9, MainTakes DEF FavoritesLoaded
    <2>2. RetainFavoriteVPNs' = IF open /\ posts[1].frag = frag THEN posts[1].data
                                                                ELSE RetainFavoriteVPNs
      BY <1>9, <2>1 DEF FavoritesLoaded, Detached, Taken
    <2> QED
      BY <1>9, <2>1, <2>2 DEF FavoritesLoaded, Taken, RowsShown
  <1> QED
    BY <1>1, <1>2, <1>3, <1>4, <1>5, <1>6, <1>7, <1>8, <1>9, StepIs

\* They are in the order of their fragments through both queues, ...
InOrder ==
    /\ Sorted(executor) /\ Sorted(posts)
    /\ \A p \in Elements(posts), t \in Elements(executor) :
          p.kind = "db" /\ t.kind = "db" => p.frag <= t.frag

\* ... none of an old fragment is left once the present one has loaded favourites, ...
NoneIsOld ==
    open /\ RetainFavoriteVPNs # None =>
        \A t \in Elements(executor) \cup Elements(posts) : t.kind = "db" => t.frag = frag

\* ... and when there is no task left, the last result is that of the database, ...
LastIsCurrent == NoRows(executor) => LastHas(posts, db)

\* ... and so is what is shown.
ShownIsCurrent ==
    open /\ RetainFavoriteVPNs # None /\ NoRows(executor) /\ NoRows(posts)
        => RetainFavoriteVPNs = db

Current == InOrder /\ NoneIsOld /\ LastIsCurrent /\ ShownIsCurrent

LEMMA NoRowsChange ==
    ASSUME NEW q, IsQueue(q)
    PROVE  /\ \A x : NoRows(Append(q, x)) <=> NoRows(q) /\ x.kind # "db"
           /\ q # <<>> => (NoRows(q) <=> NoRows(Tail(q)) /\ q[1].kind # "db")
  <1>1. ASSUME NEW x
        PROVE  NoRows(Append(q, x)) <=> NoRows(q) /\ x.kind # "db"
    BY ElementsLonger DEF NoRows
  <1>2. ASSUME q # <<>>
        PROVE  NoRows(q) <=> NoRows(Tail(q)) /\ q[1].kind # "db"
    BY <1>2, ElementsShorter DEF NoRows
  <1> QED
    BY <1>1, <1>2

LEMMA CurrentAtFirst == Init => Current
  <1> SUFFICES ASSUME Init
               PROVE  Current
    OBVIOUS
  <1>1. executor = <<>> /\ posts = <<>> /\ ~open
    BY DEF Init
  <1>2. Elements(executor) = {} /\ Elements(posts) = {} /\ RowsAt(executor) = {}
        /\ RowsAt(posts) = {}
    BY <1>1, EmptyQueue DEF Elements, RowsAt
  <1> QED
    BY <1>1, <1>2 DEF Current, InOrder, NoneIsOld, LastIsCurrent, ShownIsCurrent, Sorted, LastHas
LEMMA RowsRestAlike ==
    ASSUME Typed, RowsRest
    PROVE  /\ \A t \in Elements(executor') : t.kind = "db" => t \in Elements(executor)
           /\ Elements(posts') \subseteq Elements(posts)
           /\ (NoRows(executor') <=> NoRows(executor)) /\ (NoRows(posts') <=> NoRows(posts))
  <1>1. IsQueue(executor) /\ IsQueue(posts)
    BY DEF Typed
  <1>2. /\ \A t \in Elements(executor') : t.kind = "db" => t \in Elements(executor)
        /\ NoRows(executor') <=> NoRows(executor)
    <2>1. CASE executor' = executor
      BY <2>1
    <2>2. ASSUME NEW t, executor' = Append(executor, t), t.kind # "db"
          PROVE  /\ \A u \in Elements(executor') : u.kind = "db" => u \in Elements(executor)
                 /\ NoRows(executor') <=> NoRows(executor)
      <3>1. Elements(executor') = Elements(executor) \cup {t}
        BY <1>1, <2>2, ElementsLonger
      <3> QED
        BY <2>2, <3>1 DEF NoRows
    <2> QED
      BY <2>1, <2>2 DEF RowsRest
  <1>3. Elements(posts') \subseteq Elements(posts) /\ (NoRows(posts') <=> NoRows(posts))
    <2>1. CASE posts' = posts
      BY <2>1
    <2>2. CASE posts # <<>> /\ posts[1].kind # "db" /\ posts' = Tail(posts)
      <3>1. Elements(posts) = Elements(posts') \cup {posts[1]}
        BY <1>1, <2>2, ElementsShorter
      <3> QED
        BY <2>2, <3>1 DEF NoRows
    <2> QED
      BY <2>1, <2>2 DEF RowsRest
  <1> QED
    BY <1>2, <1>3

LEMMA OrderKept ==
    ASSUME Typed, InOrder, [Next]_vars
    PROVE  InOrder'
  <1> USE DEF InOrder
  <1>1. /\ IsQueue(executor) /\ IsQueue(posts) /\ frag \in Nat
        /\ \A t \in Elements(executor) \cup Elements(posts) : t.frag \in Nat /\ t.frag <= frag
    BY DEF Typed, NotAhead
  <1>2. CASE RowsRest
    <2>1. Sorted(executor')
      BY <1>1, <1>2, SortedLonger DEF RowsRest
    <2>2. Sorted(posts')
      BY <1>1, <1>2, SortedShorter DEF RowsRest
    <2>3. \A t \in Elements(executor') : t.kind = "db" => t \in Elements(executor)
      BY <1>2, RowsRestAlike
    <2>4. Elements(posts') \subseteq Elements(posts)
      BY <1>2, RowsRestAlike
    <2> QED
      BY <2>1, <2>2, <2>3, <2>4
  <1>3. CASE RowsAsked
    <2>1. PICK t : executor' = Append(executor, t) /\ t.kind = "db" /\ t.frag = frag
      BY <1>3 DEF RowsAsked
    <2>2. Sorted(executor')
      BY <1>1, <2>1, SortedLonger
    <2>3. Elements(executor') = Elements(executor) \cup {t} /\ posts' = posts
      BY <1>1, <1>3, <2>1, ElementsLonger DEF RowsAsked
    <2> QED
      BY <1>1, <2>1, <2>2, <2>3
  <1>4. CASE RowsRead
    <2>1. executor # <<>>
      BY <1>4 DEF RowsRead
    <2>2. PICK p : /\ posts' = Append(posts, p) /\ executor' = Tail(executor)
                   /\ p.kind = executor[1].kind /\ p.frag = executor[1].frag
      BY <1>4 DEF RowsRead
    <2>3. Elements(executor) = Elements(executor') \cup {executor[1]}
          /\ Elements(posts') = Elements(posts) \cup {p}
      BY <1>1, <2>1, <2>2, ElementsShorter, ElementsLonger
    <2>4. Sorted(executor') /\ (executor[1].kind = "db" =>
              \A t \in Elements(executor) : t.kind = "db" => executor[1].frag <= t.frag)
      BY <1>1, <2>1, <2>2, SortedShorter
    <2>5. Sorted(posts')
      BY <1>1, <2>2, <2>3, SortedLonger
    <2> QED
      BY <2>2, <2>3, <2>4, <2>5
  <1>5. CASE RowsShown
    <2>1. Sorted(posts') /\ Elements(posts') \subseteq Elements(posts) /\ executor' = executor
      BY <1>1, <1>5, SortedShorter, ElementsShorter DEF RowsShown
    <2> QED
      BY <2>1
  <1>6. CASE RowsLeft \/ RowsFresh
    <2>1. CASE UNCHANGED <<executor, posts>>
      BY <2>1
    <2>2. CASE executor' = <<>> /\ posts' = <<>>
      BY <2>2, EmptyQueue DEF Sorted, RowsAt, Elements
    <2> QED
      BY <1>6, <2>1, <2>2 DEF RowsLeft, RowsFresh
  <1> QED
    BY <1>2, <1>3, <1>4, <1>5, <1>6, RowsMove

LEMMA CurrentKept ==
    ASSUME Typed, Current, [Next]_vars
    PROVE  Current'
  <1> USE DEF Current
  <1>1. /\ IsQueue(executor) /\ IsQueue(posts) /\ frag \in Nat
        /\ \A t \in Elements(executor) \cup Elements(posts) : t.frag \in Nat /\ t.frag <= frag
        /\ ~open => RetainFavoriteVPNs = None
    BY DEF Typed, NotAhead, ClosedIsEmpty
  <1>2. InOrder'
    BY OrderKept
  <1>3. NoneIsOld' /\ LastIsCurrent' /\ ShownIsCurrent'
    <2>1. CASE RowsRest
      <3>1. UNCHANGED <<open, frag, db, RetainFavoriteVPNs>>
        BY <2>1 DEF RowsRest
      <3>2. \A t \in Elements(executor') : t.kind = "db" => t \in Elements(executor)
        BY <2>1, RowsRestAlike
      <3>3. Elements(posts') \subseteq Elements(posts)
        BY <2>1, RowsRestAlike
      <3>4. (NoRows(executor') <=> NoRows(executor)) /\ (NoRows(posts') <=> NoRows(posts))
        BY <2>1, RowsRestAlike
      <3>5. LastHas(posts, db) => LastHas(posts', db)
        BY <1>1, <2>1, LastShorter DEF RowsRest
      <3> QED
        BY <3>1, <3>2, <3>3, <3>4, <3>5 DEF NoneIsOld, LastIsCurrent, ShownIsCurrent
    <2>2. CASE RowsAsked
      <3>1. PICK t : executor' = Append(executor, t) /\ t.kind = "db" /\ t.frag = frag
        BY <2>2 DEF RowsAsked
      <3>2. /\ ~NoRows(executor') /\ Elements(executor') = Elements(executor) \cup {t}
            /\ UNCHANGED <<open, frag, posts, RetainFavoriteVPNs>>
        BY <1>1, <2>2, <3>1, NoRowsChange, ElementsLonger DEF RowsAsked
      <3> QED
        BY <3>1, <3>2 DEF NoneIsOld, LastIsCurrent, ShownIsCurrent
    <2>3. CASE RowsRead
      <3>1. executor # <<>> /\ UNCHANGED <<open, frag, db, RetainFavoriteVPNs>>
        BY <2>3 DEF RowsRead
      <3>2. PICK p : /\ posts' = Append(posts, p) /\ executor' = Tail(executor)
                     /\ p.kind = executor[1].kind /\ p.frag = executor[1].frag
                     /\ p.kind = "db" => p.data = db
        BY <2>3 DEF RowsRead
      <3>3. Elements(executor) = Elements(executor') \cup {executor[1]}
            /\ Elements(posts') = Elements(posts) \cup {p}
        BY <1>1, <3>1, <3>2, ElementsShorter, ElementsLonger
      <3>4. /\ NoRows(executor) <=> NoRows(executor') /\ p.kind # "db"
            /\ NoRows(posts') <=> NoRows(posts) /\ p.kind # "db"
        BY <1>1, <3>1, <3>2, NoRowsChange
      <3>5. NoneIsOld'
        BY <3>1, <3>2, <3>3 DEF NoneIsOld
      <3>6. LastIsCurrent'
        BY <1>1, <3>1, <3>2, <3>4, LastLonger DEF LastIsCurrent
      <3>7. ShownIsCurrent'
        BY <3>1, <3>4 DEF ShownIsCurrent
      <3> QED
        BY <3>5, <3>6, <3>7
    <2>4. CASE RowsShown
      <3>1. /\ posts # <<>> /\ posts[1].kind = "db" /\ posts' = Tail(posts)
            /\ UNCHANGED <<open, frag, db, executor>>
            /\ RetainFavoriteVPNs' = IF open /\ posts[1].frag = frag THEN posts[1].data
                                                                     ELSE RetainFavoriteVPNs
        BY <2>4 DEF RowsShown
      <3>2. Elements(posts) = Elements(posts') \cup {posts[1]}
        BY <1>1, <3>1, ElementsShorter
      <3>3. \A t \in Elements(posts) \cup Elements(executor) :
               t.kind = "db" => posts[1].frag <= t.frag
        BY <1>1, <3>1, <3>2, SortedShorter DEF InOrder
      <3>4. NoneIsOld'
        BY <1>1, <3>1, <3>2, <3>3 DEF NoneIsOld
      <3>5. LastHas(posts, db) => LastHas(posts', db) /\ (NoRows(posts') => posts[1].data = db)
        BY <1>1, <3>1, LastShorter
      <3>6. LastIsCurrent'
        BY <3>1, <3>5 DEF LastIsCurrent
      <3>7. ShownIsCurrent'
        <4>1. SUFFICES ASSUME open, RetainFavoriteVPNs' # None, NoRows(executor),
                              NoRows(posts')
                       PROVE  RetainFavoriteVPNs' = db
          BY <3>1 DEF ShownIsCurrent
        <4>2. posts[1].data = db
          BY <3>5, <4>1 DEF LastIsCurrent
        <4>3. posts[1].frag = frag
          BY <3>1, <3>2, <4>1 DEF NoneIsOld
        <4> QED
          BY <3>1, <4>1, <4>2, <4>3
      <3> QED
        BY <3>4, <3>6, <3>7
    <2>5. CASE RowsLeft
      <3>1. CASE UNCHANGED <<executor, posts>>
        BY <2>5, <3>1 DEF RowsLeft, NoneIsOld, LastIsCurrent, ShownIsCurrent
      <3>2. CASE executor' = <<>> /\ posts' = <<>>
        BY <2>5, <3>2, EmptyQueue
           DEF RowsLeft, NoneIsOld, LastIsCurrent, ShownIsCurrent, LastHas, RowsAt
      <3> QED
        BY <2>5, <3>1, <3>2 DEF RowsLeft
    <2>6. CASE RowsFresh
      BY <1>1, <2>6 DEF RowsFresh, NoneIsOld, LastIsCurrent, ShownIsCurrent
    <2> QED
      BY <2>1, <2>2, <2>3, <2>4, <2>5, <2>6, RowsMove
  <1> QED
    BY <1>2, <1>3
------------------------------------------------------------------------------
(* The list: the way of an item                                               *)

\* Nothing of what the file and the list depend on changes.
Kept == UNCHANGED <<open, frag, overlapped, saving, file, torn, RetainAllServerVPNs>>

ListRests == Kept /\ UNCHANGED <<http, executor, posts>>
ListAsked ==
    /\ open /\ UNCHANGED <<open, frag, saving, file, torn, RetainAllServerVPNs, posts>>
    /\ overlapped' = (overlapped \/ InFlight)
    /\ \/ executor' = executor /\ \E r : http' = http \cup {r} /\ r.frag = frag
       \/ http' = http /\ \E t : /\ executor' = Append(executor, t)
                                 /\ t.frag = frag /\ t.kind = "offline"
RowsBegin ==
    /\ Kept /\ UNCHANGED <<http, posts>>
    /\ \E t : executor' = Append(executor, t) /\ t.frag = frag /\ t.kind = "db"
NetGoesOn ==
    /\ Kept /\ UNCHANGED <<executor, posts>>
    /\ \E r \in http : \/ http' = http \ {r}
                       \/ \E q : q.frag = r.frag /\ http' = (http \ {r}) \cup {q}
NetToTasks ==
    /\ Kept /\ UNCHANGED posts
    /\ \E r \in http : \E t :
          /\ http' = http \ {r} /\ executor' = Append(executor, t)
          /\ t.frag = r.frag /\ t.kind # "db" /\ (t.kind = "csv" => t.save)
PostsToNet ==
    /\ Kept /\ UNCHANGED executor
    /\ posts # <<>> /\ posts[1].kind = "offline" /\ posts' = Tail(posts)
    /\ \E r : http' = http \cup {r} /\ r.frag = posts[1].frag
PostsToTasks ==
    /\ Kept /\ UNCHANGED http
    /\ posts # <<>> /\ posts[1].kind \in {"offline", "decrypt"} /\ posts' = Tail(posts)
    /\ \E t : /\ executor' = Append(executor, t) /\ t.frag = posts[1].frag /\ t.kind = "csv"
              /\ t.save \/ (posts[1].kind = "offline" /\ t.data = posts[1].data)
PostsTaken ==
    /\ UNCHANGED <<open, frag, overlapped, saving, file, torn, http, executor>>
    /\ posts # <<>> /\ posts' = Tail(posts)
    /\ RetainAllServerVPNs' = IF posts[1].kind = "csv" /\ open /\ posts[1].frag = frag
                                 THEN posts[1].data ELSE RetainAllServerVPNs
Fresh ==
    /\ ~open /\ frag' = frag + 1
    /\ UNCHANGED <<overlapped, saving, file, torn, RetainAllServerVPNs, http, executor, posts>>

LEMMA ListMoves ==
    ASSUME Typed, [Next]_vars
    PROVE  \/ ListRests \/ ListAsked \/ RowsBegin \/ NetGoesOn \/ NetToTasks \/ Works
           \/ PostsToNet \/ PostsToTasks \/ PostsTaken \/ Fresh \/ ~open'
  <1>1. IsQueue(executor) /\ IsQueue(posts)
    BY DEF Typed
  <1>2. CASE UNCHANGED vars \/ Rests
    BY <1>2 DEF vars, Rests, activity, fragment, loading, tasks, stored, ListRests, Kept
  <1>3. CASE Starts
    <2>1. open /\ UNCHANGED <<open, frag, saving, posts, file, torn>>
      BY <1>3 DEF Starts, stored
    <2>2. Nothing => ListRests
      BY <2>1 DEF Nothing, fragment, ListRests, Kept
    <2>3. CASE NewRequest
      <3> DEFINE r == Request(frag, "API", loads)
      <3>1. r.frag = frag
        BY DEF Request
      <3>2. /\ http' = http \cup {r} /\ UNCHANGED <<executor, RetainAllServerVPNs>>
            /\ overlapped' = (overlapped \/ InFlight)
        BY <2>3 DEF NewRequest, loadVPNGateCsvFile, BeginsLoad
      <3> HIDE DEF r
      <3> QED
        BY <2>1, <3>1, <3>2 DEF ListAsked
    <2>4. CASE NewFileTask
      <3> DEFINE t == Task("offline", frag, None, FALSE)
      <3>1. t.kind = "offline" /\ t.frag = frag
        BY DEF Task
      <3>2. /\ executor' = Append(executor, t) /\ UNCHANGED <<http, RetainAllServerVPNs>>
            /\ overlapped' = (overlapped \/ InFlight)
        BY <2>4 DEF NewFileTask, BeginsLoad, fragment
      <3> HIDE DEF t
      <3> QED
        BY <2>1, <3>1, <3>2 DEF ListAsked
    <2>5. CASE NewRowsTask
      <3> DEFINE t == Task("db", frag, None, FALSE)
      <3>1. t.kind = "db" /\ t.frag = frag
        BY DEF Task
      <3>2. executor' = Append(executor, t) /\ UNCHANGED <<http, RetainAllServerVPNs, overlapped>>
        BY <2>5 DEF NewRowsTask, fragment
      <3> HIDE DEF t
      <3> QED
        BY <2>1, <3>1, <3>2 DEF RowsBegin, Kept
    <2> QED
      BY <1>3, <2>2, <2>3, <2>4, <2>5 DEF Starts
  <1>4. CASE Open
    BY <1>4 DEF Open, fragment, loading, tasks, stored, Fresh
  <1>5. CASE Finish \/ Kill
    BY <1>5 DEF Finish, Kill, Gone
  <1>6. ASSUME NEW r \in http, HttpStart(r) \/ HttpSuccess(r) \/ HttpFailure(r) \/ BothFail(r)
        PROVE  NetGoesOn \/ NetToTasks
    <2>1. Kept /\ UNCHANGED posts
      BY <1>6 DEF HttpStart, HttpSuccess, HttpFailure, BothFail, activity, tasks, fragment,
                  stored, Kept
    <2>2. CASE HttpStart(r) \/ HttpFailure(r)
      <3> DEFINE a == [r EXCEPT !.sent = TRUE]
                 b == Request(r.frag, "SUB_API", r.no)
      <3>1. executor' = executor
        BY <2>2 DEF HttpStart, HttpFailure, tasks
      <3>2. r \in RequestRecords
        BY DEF Typed
      <3>3. a.frag = r.frag
        BY <3>2, RequestStays
      <3>4. b.frag = r.frag
        BY DEF Request
      <3>5. http' = (http \ {r}) \cup {a} \/ http' = (http \ {r}) \cup {b}
        BY <2>2 DEF HttpStart, HttpFailure
      <3> HIDE DEF a, b
      <3> QED
        BY <2>1, <3>1, <3>3, <3>4, <3>5 DEF NetGoesOn
    <2>3. CASE HttpSuccess(r)
      <3>1. PICK d : executor' = Append(executor,
                IF r.api = "API" THEN Task("csv", r.frag, d, TRUE)
                                 ELSE Task("decrypt", r.frag, d, FALSE))
        BY <2>3 DEF HttpSuccess
      <3>2. PICK t : /\ executor' = Append(executor, t)
                     /\ t.frag = r.frag /\ t.kind # "db" /\ (t.kind = "csv" => t.save)
        BY <3>1 DEF Task
      <3>3. http' = http \ {r}
        BY <2>3 DEF HttpSuccess
      <3> QED
        BY <2>1, <3>2, <3>3 DEF NetToTasks
    <2>4. CASE BothFail(r)
      BY <2>1, <2>4 DEF BothFail, tasks, NetGoesOn
    <2> QED
      BY <1>6, <2>2, <2>3, <2>4
  <1>7. CASE \/ OfflineUnread \/ OfflineRead \/ Decrypted \/ NotDecrypted
             \/ ListLoaded \/ FavoritesLoaded
    <2>1. PICK kind \in {"offline", "decrypt", "csv", "db"} : Delivered(kind)
      BY <1>7, Zenon DEF OfflineUnread, OfflineRead, Decrypted, NotDecrypted, ListLoaded,
                         FavoritesLoaded
    <2>2. Taken(kind) /\ Result = posts[1]
      BY <1>1, <2>1, MainTakes
    <2>3. /\ attached /\ posts # <<>> /\ posts' = Tail(posts)
          /\ UNCHANGED <<open, frag, saving, file, torn>>
      BY <2>2 DEF Taken, stored
    <2>4. CASE OfflineUnread
      <3> DEFINE r == Request(posts[1].frag, "API", loads)
      <3>1. posts[1].kind = "offline" /\ http' = http \cup {r}
        BY <1>1, <2>2, <2>4, MainTakes DEF OfflineUnread, Taken
      <3>2. r.frag = posts[1].frag
        BY DEF Request
      <3>3. UNCHANGED <<RetainAllServerVPNs, overlapped, executor>>
        BY <2>4 DEF OfflineUnread
      <3> HIDE DEF r
      <3> QED
        BY <2>3, <3>1, <3>2, <3>3 DEF PostsToNet, Kept
    <2>5. CASE OfflineRead
      <3>1. posts[1].kind = "offline"
        BY <1>1, <2>5, MainTakes DEF OfflineRead, Taken
      <3>2. UNCHANGED <<RetainAllServerVPNs, overlapped, http>>
        BY <2>5 DEF OfflineRead, fragment, loading
      <3>3. PICK t : /\ executor' = Append(executor, t) /\ t.frag = posts[1].frag
                     /\ t.kind = "csv" /\ t.data = posts[1].data
        BY <2>2, <2>5 DEF OfflineRead, Task
      <3> QED
        BY <2>3, <3>1, <3>2, <3>3 DEF PostsToTasks, Kept
    <2>6. CASE Decrypted
      <3>1. posts[1].kind = "decrypt"
        BY <1>1, <2>6, MainTakes DEF Decrypted, Taken
      <3>2. UNCHANGED <<RetainAllServerVPNs, overlapped, http>>
        BY <2>6 DEF Decrypted, loading
      <3>3. PICK t : /\ executor' = Append(executor, t) /\ t.frag = posts[1].frag
                     /\ t.kind = "csv" /\ t.save
        BY <2>2, <2>6 DEF Decrypted, Task
      <3> QED
        BY <2>3, <3>1, <3>2, <3>3 DEF PostsToTasks, Kept
    <2>7. CASE NotDecrypted \/ FavoritesLoaded
      <3>1. posts[1].kind # "csv"
        <4>1. Delivered("decrypt") \/ Delivered("db")
          BY <2>7 DEF NotDecrypted, FavoritesLoaded
        <4> QED
          BY <1>1, <4>1, MainTakes DEF Taken
      <3>2. UNCHANGED <<RetainAllServerVPNs, overlapped, http, executor>>
        BY <2>7 DEF NotDecrypted, FavoritesLoaded, loading
      <3> QED
        BY <2>3, <3>1, <3>2 DEF PostsTaken
    <2>8. CASE ListLoaded
      <3>1. posts[1].kind = "csv"
        BY <1>1, <2>8, MainTakes DEF ListLoaded, Taken
      <3>2. UNCHANGED <<overlapped, http, executor>>
        BY <2>8 DEF ListLoaded, loading
      <3>3. RetainAllServerVPNs' = IF open /\ posts[1].frag = frag
                                      THEN posts[1].data ELSE RetainAllServerVPNs
        BY <2>2, <2>3, <2>8 DEF ListLoaded, Detached
      <3> QED
        BY <2>3, <3>1, <3>2, <3>3 DEF PostsTaken
    <2> QED
      BY <1>7, <2>4, <2>5, <2>6, <2>7, <2>8
  <1> QED
    BY <1>1, <1>2, <1>3, <1>4, <1>5, <1>6, <1>7, StepIs
------------------------------------------------------------------------------
(* The list: one load at a time                                               *)

\* A queue holds at most one item of a load of the list for fragment f.
ItemsAt(q, f) == {i \in 1..Len(q) : q[i].frag = f /\ q[i].kind # "db"}
OneItem(q, f) == \A i, j \in ItemsAt(q, f) : i = j

LEMMA OneItemLonger ==
    ASSUME NEW q, IsQueue(q), NEW x, NEW f, OneItem(q, f),
           x.frag = f /\ x.kind # "db" => ~Holds(q, f)
    PROVE  OneItem(Append(q, x), f)
  <1> DEFINE r == Append(q, x)
  <1>1. /\ Len(q) \in Nat /\ Len(r) = Len(q) + 1 /\ r[Len(q) + 1] = x
        /\ \A i \in 1..Len(q) : r[i] = q[i]
    BY Longer
  <1> HIDE DEF r
  <1>2. \A i \in ItemsAt(r, f) : i \in ItemsAt(q, f) \/ i = Len(q) + 1
    BY <1>1 DEF ItemsAt
  <1>3. CASE x.frag = f /\ x.kind # "db"
    <2>1. ItemsAt(q, f) = {}
      BY <1>3 DEF Holds, ItemsAt, Elements
    <2> QED
      BY <1>2, <2>1 DEF OneItem, r
  <1>4. CASE ~(x.frag = f /\ x.kind # "db")
    <2>1. Len(q) + 1 \notin ItemsAt(r, f)
      BY <1>1, <1>4 DEF ItemsAt
    <2> QED
      BY <1>2, <2>1 DEF OneItem, r
  <1> QED
    BY <1>3, <1>4

LEMMA OneItemShorter ==
    ASSUME NEW q, IsQueue(q), q # <<>>, NEW f, OneItem(q, f)
    PROVE  /\ OneItem(Tail(q), f)
           /\ q[1].frag = f /\ q[1].kind # "db" => ~Holds(Tail(q), f)
           /\ q[1].frag = f /\ q[1].kind # "db" =>
                 \A t \in Elements(q) : t.frag = f /\ t.kind # "db" => t = q[1]
  <1> DEFINE r == Tail(q)
  <1>1. /\ Len(q) \in Nat \ {0} /\ Len(r) = Len(q) - 1
        /\ \A i \in 1..Len(r) : r[i] = q[i + 1]
    BY Shorter
  <1> HIDE DEF r
  <1>2. \A i \in ItemsAt(r, f) : i \in Nat \ {0} /\ i + 1 \in ItemsAt(q, f)
    BY <1>1 DEF ItemsAt
  <1>3. OneItem(r, f)
    <2>1. ASSUME NEW i \in ItemsAt(r, f), NEW j \in ItemsAt(r, f)
          PROVE  i = j
      <3>1. i + 1 = j + 1
        BY <1>2 DEF OneItem
      <3> QED
        BY <1>2, <3>1
    <2> QED
      BY <2>1 DEF OneItem
  <1>4. ASSUME q[1].frag = f, q[1].kind # "db"
        PROVE  /\ ~Holds(r, f)
               /\ \A t \in Elements(q) : t.frag = f /\ t.kind # "db" => t = q[1]
    <2>1. 1 \in ItemsAt(q, f)
      BY <1>1, <1>4 DEF ItemsAt
    <2>2. \A i \in ItemsAt(q, f) : i = 1
      BY <2>1 DEF OneItem
    <2>3. ItemsAt(r, f) = {}
      BY <1>2, <2>2
    <2> QED
      BY <2>2, <2>3 DEF Holds, ItemsAt, Elements
  <1> QED
    BY <1>3, <1>4 DEF r

Single ==
    open /\ ~overlapped =>
        /\ \A q, r \in http : q.frag = frag /\ r.frag = frag => q = r
        /\ OneItem(executor, frag) /\ OneItem(posts, frag)
        /\ \A r \in http : r.frag = frag => ~Holds(executor, frag) /\ ~Holds(posts, frag)
        /\ Holds(executor, frag) => ~Holds(posts, frag)

LEMMA SingleKept ==
    ASSUME Typed, Single, [Next]_vars
    PROVE  Single'
  <1> SUFFICES ASSUME open', ~overlapped'
               PROVE  /\ \A q, r \in http' : q.frag = frag' /\ r.frag = frag' => q = r
                      /\ OneItem(executor', frag') /\ OneItem(posts', frag')
                      /\ \A r \in http' :
                            r.frag = frag' => ~Holds(executor', frag') /\ ~Holds(posts', frag')
                      /\ Holds(executor', frag') => ~Holds(posts', frag')
    BY DEF Single
  <1> USE DEF Single
  <1>1. IsQueue(executor) /\ IsQueue(posts)
    BY DEF Typed
  <1>2. CASE ListRests
    BY <1>2 DEF ListRests, Kept
  <1>3. CASE ListAsked
    <2>1. open /\ ~overlapped /\ ~InFlight /\ UNCHANGED <<open, frag, posts>>
      BY <1>3 DEF ListAsked
    <2>2. ~Holds(executor, frag) /\ ~Holds(posts, frag) /\ \A r \in http : r.frag # frag
      BY <2>1, InFlightIs
    <2>3. CASE executor' = executor /\ \E r : http' = http \cup {r} /\ r.frag = frag
      BY <2>1, <2>2, <2>3
    <2>4. CASE http' = http /\ \E t : executor' = Append(executor, t)
      BY <1>1, <2>1, <2>2, <2>4, OneItemLonger
    <2> QED
      BY <1>3, <2>3, <2>4 DEF ListAsked
  <1>4. CASE RowsBegin
    <2>1. PICK t : executor' = Append(executor, t) /\ t.kind = "db"
      BY <1>4 DEF RowsBegin
    <2>2. UNCHANGED <<open, overlapped, frag, http, posts>>
      BY <1>4 DEF RowsBegin, Kept
    <2>3. OneItem(executor, frag) => OneItem(executor', frag)
      BY <1>1, <2>1, OneItemLonger
    <2>4. Holds(executor', frag) <=> Holds(executor, frag)
      BY <1>1, <2>1, HoldsMore
    <2> QED
      BY <2>2, <2>3, <2>4
  <1>5. CASE NetGoesOn
    <2>1. UNCHANGED <<open, overlapped, frag, executor, posts>>
      BY <1>5 DEF NetGoesOn, Kept
    <2>2. PICK r \in http : \/ http' = http \ {r}
                            \/ \E q : q.frag = r.frag /\ http' = (http \ {r}) \cup {q}
      BY <1>5 DEF NetGoesOn
    <2> QED
      BY <2>1, <2>2
  <1>6. CASE NetToTasks
    <2>1. UNCHANGED <<open, overlapped, frag, posts>>
      BY <1>6 DEF NetToTasks, Kept
    <2>2. PICK r, t : /\ r \in http
                      /\ http' = http \ {r} /\ executor' = Append(executor, t)
                      /\ t.frag = r.frag /\ t.kind # "db"
      BY <1>6 DEF NetToTasks
    <2>3. OneItem(executor', frag)
      BY <1>1, <2>1, <2>2, OneItemLonger
    <2>4. Holds(executor', frag) <=> Holds(executor, frag) \/ r.frag = frag
      BY <1>1, <2>2, HoldsMore
    <2> QED
      BY <2>1, <2>2, <2>3, <2>4
  <1>7. CASE Works
    <2>1. executor # <<>> /\ UNCHANGED <<open, overlapped, frag, http>>
      BY <1>7 DEF Works
    <2>2. CASE UNCHANGED <<executor, posts>>
      BY <2>1, <2>2
    <2>3. ASSUME NEW d, Moved(d)
          PROVE  /\ OneItem(executor', frag) /\ OneItem(posts', frag)
                 /\ \A r \in http :
                       r.frag = frag => ~Holds(executor', frag) /\ ~Holds(posts', frag)
                 /\ Holds(executor', frag) => ~Holds(posts', frag)
      <3> DEFINE p == [kind |-> executor[1].kind, frag |-> executor[1].frag, data |-> d]
                 Mine == p.frag = frag /\ p.kind # "db"
      <3>1. executor' = Tail(executor) /\ posts' = Append(posts, p)
        BY <2>3 DEF Moved
      <3>2. p.kind = executor[1].kind /\ p.frag = executor[1].frag
        OBVIOUS
      <3> HIDE DEF p
      <3>3. Holds(executor, frag) <=> Holds(executor', frag) \/ Mine
        BY <1>1, <2>1, <3>1, <3>2, HoldsLess
      <3>4. Holds(posts', frag) <=> Holds(posts, frag) \/ Mine
        BY <1>1, <3>1, HoldsMore
      <3>5. OneItem(executor', frag) /\ (Mine => ~Holds(executor', frag))
        BY <1>1, <2>1, <3>1, <3>2, OneItemShorter
      <3>6. OneItem(posts', frag)
        BY <1>1, <2>1, <3>1, <3>3, OneItemLonger
      <3> QED
        BY <2>1, <3>3, <3>4, <3>5, <3>6
    <2> QED
      BY <1>7, <2>1, <2>2, <2>3
         DEF Works, RowsPosted, FilePosted, KeyPosted, ListPosted, SaveBegins, SaveGoesOn,
             SaveEnds, SaveStops
  <1>8. ASSUME posts # <<>>, posts' = Tail(posts), UNCHANGED <<open, overlapped, frag>>
        PROVE  /\ OneItem(posts', frag)
               /\ Holds(posts, frag) <=> Holds(posts', frag)
                                         \/ (posts[1].frag = frag /\ posts[1].kind # "db")
               /\ posts[1].frag = frag /\ posts[1].kind # "db" => ~Holds(posts', frag)
    BY <1>1, <1>8, OneItemShorter, HoldsLess
  <1>9. CASE PostsToNet
    <2>1. /\ posts # <<>> /\ posts' = Tail(posts) /\ posts[1].kind # "db"
          /\ UNCHANGED <<open, overlapped, frag, executor>>
      BY <1>9 DEF PostsToNet, Kept
    <2>2. PICK r : http' = http \cup {r} /\ r.frag = posts[1].frag
      BY <1>9 DEF PostsToNet
    <2> QED
      BY <1>8, <2>1, <2>2
  <1>10. CASE PostsToTasks
    <2>1. /\ posts # <<>> /\ posts' = Tail(posts) /\ posts[1].kind # "db"
          /\ UNCHANGED <<open, overlapped, frag, http>>
      BY <1>10 DEF PostsToTasks, Kept
    <2>2. PICK t : executor' = Append(executor, t) /\ t.frag = posts[1].frag /\ t.kind = "csv"
      BY <1>10 DEF PostsToTasks
    <2>3. Holds(executor', frag) <=> Holds(executor, frag) \/ posts[1].frag = frag
      BY <1>1, <2>2, HoldsMore
    <2>4. OneItem(executor', frag)
      BY <1>1, <1>8, <2>1, <2>2, OneItemLonger
    <2> QED
      BY <1>8, <2>1, <2>3, <2>4
  <1>11. CASE PostsTaken
    <2>1. /\ posts # <<>> /\ posts' = Tail(posts)
          /\ UNCHANGED <<open, overlapped, frag, executor, http>>
      BY <1>11 DEF PostsTaken
    <2> QED
      BY <1>8, <2>1
  <1>12. CASE Fresh
    <2>1. /\ frag' = frag + 1 /\ frag \in Nat /\ \A r \in http : r.frag \in Nat /\ r.frag <= frag
          /\ UNCHANGED <<http, executor, posts>>
      BY <1>12 DEF Fresh, Typed, NotAhead, RequestRecords
    <2>2. \A t \in Elements(executor) \cup Elements(posts) : t.frag # frag + 1
      BY <2>1 DEF Typed, NotAhead
    <2>3. ItemsAt(executor, frag + 1) = {} /\ ItemsAt(posts, frag + 1) = {}
      BY <2>2 DEF ItemsAt, Elements
    <2>4. ~Holds(executor, frag + 1) /\ ~Holds(posts, frag + 1)
      BY <2>2 DEF Holds
    <2> QED
      BY <2>1, <2>3, <2>4 DEF OneItem
  <1> QED
    BY <1>2, <1>3, <1>4, <1>5, <1>6, <1>7, <1>9, <1>10, <1>11, <1>12, ListMoves
------------------------------------------------------------------------------
(* The list: what an item carries                                             *)

\* The answer of the present fragment is being saved.
SavesMine == saving # "no" /\ executor[1].frag = frag

\* While that of an older one is, the present one has no list, nor any item that
\* has read the file.
OldSave ==
    open /\ saving # "no" /\ executor[1].frag # frag =>
        /\ RetainAllServerVPNs = None /\ ~Holds(posts, frag)
        /\ \A t \in Elements(executor) : t.frag = frag /\ t.kind = "csv" => t.save

\* What was read from the file, and what was parsed, is what the file has.
ReadIsFile ==
    \A t \in Elements(executor) : t.frag = frag /\ t.kind = "csv" /\ ~t.save => t.data = file
PostedIsFile ==
    \A t \in Elements(posts) :
        t.frag = frag => /\ t.kind = "offline" => t.data = file
                         /\ t.kind = "csv" /\ t.data # None => t.data = file
NoList(q) == \A t \in Elements(q) : t.frag = frag => t.kind # "csv"
ShownIsFile ==
    RetainAllServerVPNs # None /\ ~SavesMine /\ NoList(posts) => file = RetainAllServerVPNs

Saved == open /\ ~overlapped /\ ~torn => ReadIsFile /\ PostedIsFile /\ ShownIsFile

\* The task that saves stays the first one.
LEMMA FirstStays ==
    ASSUME IsQueue(executor), executor # <<>>, NEW t, executor' = Append(executor, t)
    PROVE  executor'[1] = executor[1] /\ Elements(executor') = Elements(executor) \cup {t}
  <1>1. 1 \in 1..Len(executor)
    BY Shorter
  <1> QED
    BY <1>1, Longer, ElementsLonger

LEMMA OldSaveKept ==
    ASSUME Typed, OldSave, [Next]_vars
    PROVE  OldSave'
  <1> SUFFICES ASSUME open', saving' # "no", executor'[1].frag # frag'
               PROVE  /\ RetainAllServerVPNs' = None /\ ~Holds(posts', frag')
                      /\ \A t \in Elements(executor') : t.frag = frag' /\ t.kind = "csv" => t.save
    BY DEF OldSave
  <1> USE DEF OldSave
  <1>1. /\ IsQueue(executor) /\ IsQueue(posts) /\ (saving # "no" => executor # <<>>)
        /\ frag \in Nat
    BY DEF Typed, SavingIsFirst
  <1>2. CASE ListRests
    BY <1>2 DEF ListRests, Kept
  <1>3. ASSUME NEW t, executor' = Append(executor, t),
               t.frag = frag /\ t.kind = "csv" => t.save \/ Holds(posts, frag),
               UNCHANGED <<open, frag, saving, RetainAllServerVPNs>>,
               Holds(posts', frag) => Holds(posts, frag)
        PROVE  OldSave'
    <2>1. executor'[1] = executor[1] /\ Elements(executor') = Elements(executor) \cup {t}
      BY <1>1, <1>3, FirstStays
    <2> QED
      BY <1>3, <2>1
  <1>4. CASE ListAsked \/ RowsBegin
    <2>1. UNCHANGED <<open, frag, saving, RetainAllServerVPNs, posts>>
      BY <1>4 DEF ListAsked, RowsBegin, Kept
    <2>2. executor' = executor \/ \E t : executor' = Append(executor, t) /\ t.kind # "csv"
      BY <1>4 DEF ListAsked, RowsBegin
    <2>3. CASE executor' = executor
      BY <2>1, <2>3
    <2>4. CASE \E t : executor' = Append(executor, t) /\ t.kind # "csv"
      BY <1>3, <2>1, <2>4
    <2> QED
      BY <2>2, <2>3, <2>4
  <1>5. CASE NetGoesOn \/ PostsToNet
    <2>1. UNCHANGED <<open, frag, saving, RetainAllServerVPNs, executor>>
      BY <1>5 DEF NetGoesOn, PostsToNet, Kept
    <2>2. Holds(posts', frag) => Holds(posts, frag)
      BY <1>1, <1>5, HoldsLess DEF NetGoesOn, PostsToNet
    <2> QED
      BY <2>1, <2>2
  <1>6. CASE NetToTasks
    <2>1. UNCHANGED <<open, frag, saving, RetainAllServerVPNs, posts>>
      BY <1>6 DEF NetToTasks, Kept
    <2>2. PICK t : executor' = Append(executor, t) /\ (t.kind = "csv" => t.save)
      BY <1>6 DEF NetToTasks
    <2> QED
      BY <1>3, <2>1, <2>2
  <1>7. CASE Works
    <2>1. UNCHANGED <<open, frag, RetainAllServerVPNs>>
      BY <1>7 DEF Works, fragment
    <2>2. executor[1].kind # "csv" => saving = "no"
      BY DEF Typed, SavingIsFirst
    <2>3. CASE SaveBegins
      BY <2>1, <2>3 DEF SaveBegins, Saves, Detached
    <2>4. CASE SaveGoesOn
      BY <2>1, <2>4 DEF SaveGoesOn
    <2>5. ~SaveBegins /\ ~SaveGoesOn => saving' = "no"
      BY <1>7, <2>2 DEF Works, RowsPosted, FilePosted, KeyPosted, ListPosted, SaveEnds, SaveStops
    <2> QED
      BY <2>3, <2>4, <2>5
  <1>8. CASE PostsToTasks
    <2>1. /\ posts # <<>> /\ posts' = Tail(posts) /\ posts[1].kind # "db"
          /\ UNCHANGED <<open, frag, saving, RetainAllServerVPNs>>
      BY <1>8 DEF PostsToTasks, Kept
    <2>2. PICK t : executor' = Append(executor, t) /\ t.frag = posts[1].frag
      BY <1>8 DEF PostsToTasks
    <2>3. Holds(posts, frag) <=> Holds(posts', frag) \/ posts[1].frag = frag
      BY <1>1, <2>1, HoldsLess
    <2> QED
      BY <1>3, <2>1, <2>2, <2>3
  <1>9. CASE PostsTaken
    <2>1. /\ posts # <<>> /\ posts' = Tail(posts) /\ UNCHANGED <<open, frag, saving, executor>>
          /\ RetainAllServerVPNs' = IF posts[1].kind = "csv" /\ open /\ posts[1].frag = frag
                                       THEN posts[1].data ELSE RetainAllServerVPNs
      BY <1>9 DEF PostsTaken
    <2>2. Holds(posts, frag) <=> Holds(posts', frag)
                                 \/ (posts[1].frag = frag /\ posts[1].kind # "db")
      BY <1>1, <2>1, HoldsLess
    <2> QED
      BY <2>1, <2>2
  <1>10. CASE Fresh
    <2>1. UNCHANGED <<RetainAllServerVPNs, executor, posts>> /\ ~open /\ frag' = frag + 1
      BY <1>10 DEF Fresh
    <2>2. RetainAllServerVPNs = None
      BY <2>1 DEF Typed, ClosedIsEmpty
    <2>3. \A t \in Elements(executor) \cup Elements(posts) : t.frag # frag + 1
      BY <1>1 DEF Typed, NotAhead
    <2> QED
      BY <2>1, <2>2, <2>3 DEF Holds
  <1> QED
    BY <1>2, <1>4, <1>5, <1>6, <1>7, <1>8, <1>9, <1>10, ListMoves
\* The step of the first task.
LEMMA WorksSaved ==
    ASSUME Typed, Single, OldSave, Saved, Works, open, ~overlapped, ~torn'
    PROVE  ReadIsFile' /\ PostedIsFile' /\ ShownIsFile'
  <1> DEFINE t == executor[1]
             Mine == t.frag = frag
  <1>1. /\ IsQueue(executor) /\ IsQueue(posts) /\ executor # <<>>
        /\ UNCHANGED <<open, overlapped, frag, RetainAllServerVPNs>>
    BY DEF Typed, Works, fragment
  <1>2. Elements(executor) = Elements(Tail(executor)) \cup {t}
    BY <1>1, ElementsShorter
  <1>3. ASSUME Mine, t.kind = "csv"
        PROVE  /\ \A u \in Elements(executor) : u.frag = frag /\ u.kind # "db" => u = t
               /\ ~Holds(Tail(executor), frag) /\ ~Holds(posts, frag)
    <2>1. Holds(executor, frag)
      BY <1>2, <1>3 DEF Holds
    <2> QED
      BY <1>1, <1>3, <2>1, OneItemShorter DEF Single
  <1>4. t.kind # "csv" => saving = "no"
    BY DEF Typed, SavingIsFirst
  <1>5. ASSUME NEW d, Moved(d), saving' = "no", file' = file, ~torn,
               Mine /\ t.kind = "offline" => d = file,
               Mine /\ t.kind = "csv" /\ d # None => d = file,
               saving = "no"
        PROVE  ReadIsFile' /\ PostedIsFile' /\ ShownIsFile'
    <2> DEFINE p == [kind |-> t.kind, frag |-> t.frag, data |-> d]
    <2>1. executor' = Tail(executor) /\ posts' = Append(posts, p)
      BY <1>5 DEF Moved
    <2>2. p.kind = t.kind /\ p.frag = t.frag /\ p.data = d
      OBVIOUS
    <2> HIDE DEF p
    <2>3. Elements(posts') = Elements(posts) \cup {p}
      BY <1>1, <2>1, ElementsLonger
    <2>4. ReadIsFile /\ PostedIsFile /\ ShownIsFile
      BY <1>5 DEF Saved
    <2>5. ReadIsFile'
      BY <1>1, <1>2, <1>5, <2>1, <2>4 DEF ReadIsFile
    <2>6. PostedIsFile'
      BY <1>1, <1>5, <2>2, <2>3, <2>4 DEF PostedIsFile
    <2>7. ShownIsFile'
      BY <1>1, <1>5, <2>3, <2>4 DEF ShownIsFile, SavesMine, NoList
    <2> QED
      BY <2>5, <2>6, <2>7
  <1>6. CASE RowsPosted \/ FilePosted \/ KeyPosted
    <2>1. UNCHANGED <<saving, file, torn>> /\ saving = "no"
      BY <1>4, <1>6 DEF RowsPosted, FilePosted, KeyPosted, stored
    <2>2. PICK d : Moved(d) /\ (t.kind = "offline" => d = file) /\ t.kind # "csv"
      BY <1>6 DEF RowsPosted, FilePosted, KeyPosted
    <2> QED
      BY <1>5, <2>1, <2>2
  <1>7. CASE ListPosted
    <2>1. /\ t.kind = "csv" /\ saving = "no" /\ ~Saves(1) /\ Moved(Parsed(t.data))
          /\ UNCHANGED <<saving, file>> /\ ~torn
          /\ ~(t.save /\ t.data # Blank /\ Mine /\ ~attached)
      BY <1>7 DEF ListPosted
    <2>2. ASSUME Mine, Parsed(t.data) # None
          PROVE  Parsed(t.data) = file
      <3>1. Parsed(t.data) = t.data /\ t.data \in Answers
        BY <2>2 DEF Parsed
      <3>2. t.data # Blank
        BY <3>1, ConstantsAssumption DEF Answers
      <3>3. ~t.save
        BY <2>1, <2>2, <3>2 DEF Saves, Detached
      <3>4. t \in Elements(executor)
        BY <1>2
      <3> QED
        BY <2>1, <2>2, <3>1, <3>3, <3>4 DEF Saved, ReadIsFile
    <2> QED
      BY <1>5, <2>1, <2>2
  <1>8. CASE SaveBegins \/ SaveGoesOn
    <2>1. /\ t.kind = "csv" /\ saving' # "no" /\ UNCHANGED <<executor, posts, torn>>
          /\ Mine => t.save
          /\ ~Mine => saving # "no"
      BY <1>8 DEF SaveBegins, SaveGoesOn, Saves, Detached, Typed, SavingIsFirst
    <2>2. CASE Mine
      BY <1>1, <1>3, <2>1, <2>2 DEF ReadIsFile, PostedIsFile, ShownIsFile, SavesMine, Holds
    <2>3. CASE ~Mine
      BY <1>1, <2>1, <2>3 DEF OldSave, ReadIsFile, PostedIsFile, ShownIsFile, Holds
    <2> QED
      BY <2>2, <2>3
  <1>9. CASE SaveEnds
    <2> DEFINE d == Parsed(t.data)
               p == [kind |-> t.kind, frag |-> t.frag, data |-> d]
    <2>1. t.kind = "csv" /\ saving = "created" /\ saving' = "no" /\ file' = t.data
      BY <1>9 DEF SaveEnds
    <2>2. executor' = Tail(executor) /\ posts' = Append(posts, p)
      BY <1>9 DEF SaveEnds, Moved
    <2>3. p.kind = "csv" /\ p.frag = t.frag /\ p.data \in {t.data, None}
      BY <2>1 DEF Parsed
    <2> HIDE DEF p, d
    <2>4. Elements(posts') = Elements(posts) \cup {p}
      BY <1>1, <2>2, ElementsLonger
    <2>5. CASE Mine
      <3>1. ~Holds(executor', frag) /\ ~Holds(posts, frag)
        BY <1>3, <2>1, <2>2, <2>5
      <3>2. ReadIsFile'
        BY <1>1, <3>1 DEF ReadIsFile, Holds
      <3>3. PostedIsFile'
        BY <1>1, <2>1, <2>3, <2>4, <3>1 DEF PostedIsFile, Holds
      <3>4. ShownIsFile'
        BY <1>1, <2>3, <2>4, <2>5 DEF ShownIsFile, NoList
      <3> QED
        BY <3>2, <3>3, <3>4
    <2>6. CASE ~Mine
      <3>1. RetainAllServerVPNs = None /\ ~Holds(posts, frag)
            /\ \A u \in Elements(executor) : u.frag = frag /\ u.kind = "csv" => u.save
        BY <2>1, <2>6 DEF OldSave
      <3>2. ReadIsFile'
        BY <1>1, <1>2, <2>2, <3>1 DEF ReadIsFile
      <3>3. PostedIsFile'
        BY <1>1, <2>3, <2>4, <2>6, <3>1 DEF PostedIsFile, Holds
      <3>4. ShownIsFile'
        BY <1>1, <3>1 DEF ShownIsFile
      <3> QED
        BY <3>2, <3>3, <3>4
    <2> QED
      BY <2>5, <2>6
  <1>10. ~SaveStops
    BY DEF SaveStops
  <1> QED
    BY <1>6, <1>7, <1>8, <1>9, <1>10 DEF Works

LEMMA SavedKept ==
    ASSUME Typed, Single, OldSave, Saved, [Next]_vars
    PROVE  Saved'
  <1> SUFFICES ASSUME open', ~overlapped', ~torn'
               PROVE  ReadIsFile' /\ PostedIsFile' /\ ShownIsFile'
    BY DEF Saved
  <1> USE DEF Saved
  <1>1. IsQueue(executor) /\ IsQueue(posts) /\ (saving # "no" => executor # <<>>)
    BY DEF Typed, SavingIsFirst
  <1>2. CASE ListRests \/ NetGoesOn
    BY <1>2 DEF ListRests, NetGoesOn, Kept, ReadIsFile, PostedIsFile, ShownIsFile, SavesMine,
                NoList
  <1>3. ASSUME NEW t, executor' = Append(executor, t), UNCHANGED <<frag, saving, file>>,
               ReadIsFile, t.frag = frag /\ t.kind = "csv" /\ ~t.save => t.data = file
        PROVE  ReadIsFile' /\ (SavesMine' <=> SavesMine)
    <2>1. Elements(executor') = Elements(executor) \cup {t}
      BY <1>1, <1>3, ElementsLonger
    <2>2. saving # "no" => executor'[1] = executor[1]
      BY <1>1, <1>3, FirstStays
    <2> QED
      BY <1>3, <2>1, <2>2 DEF ReadIsFile, SavesMine
  <1>4. CASE ListAsked \/ RowsBegin \/ NetToTasks
    <2>1. /\ UNCHANGED <<open, frag, saving, file, torn, RetainAllServerVPNs, posts>>
          /\ open /\ ~overlapped /\ ~torn
      <3>1. UNCHANGED <<open, frag, saving, file, torn, RetainAllServerVPNs, posts>>
        BY <1>4 DEF ListAsked, RowsBegin, NetToTasks, Kept
      <3>2. open /\ ~torn
        BY <3>1
      <3>3. overlapped => overlapped'
        BY <1>4 DEF ListAsked, RowsBegin, NetToTasks, Kept
      <3> QED
        BY <3>1, <3>2, <3>3
    <2>2. executor' = executor
          \/ \E t : executor' = Append(executor, t) /\ (t.kind # "csv" \/ t.save)
      BY <1>4 DEF ListAsked, RowsBegin, NetToTasks
    <2>3. ReadIsFile' /\ (SavesMine' <=> SavesMine)
      <3>1. CASE executor' = executor
        BY <2>1, <3>1 DEF ReadIsFile, SavesMine
      <3>2. CASE \E t : executor' = Append(executor, t) /\ (t.kind # "csv" \/ t.save)
        BY <1>3, <2>1, <3>2
      <3> QED
        BY <2>2, <3>1, <3>2
    <2> QED
      BY <2>1, <2>3 DEF PostedIsFile, ShownIsFile, NoList
  <1>5. CASE Works
    <2>1. UNCHANGED <<open, overlapped>>
      BY <1>5 DEF Works
    <2> QED
      BY <1>5, <2>1, WorksSaved
  <1>6. CASE PostsToNet \/ PostsToTasks
    <2>1. /\ UNCHANGED <<open, frag, overlapped, saving, file, torn, RetainAllServerVPNs>>
          /\ posts # <<>> /\ posts' = Tail(posts) /\ posts[1].kind # "csv"
      BY <1>6 DEF PostsToNet, PostsToTasks, Kept
    <2>2. Elements(posts) = Elements(posts') \cup {posts[1]}
      BY <1>1, <2>1, ElementsShorter
    <2>3. ReadIsFile' /\ (SavesMine' <=> SavesMine)
      <3>1. CASE PostsToNet
        BY <2>1, <3>1 DEF PostsToNet, ReadIsFile, SavesMine
      <3>2. CASE PostsToTasks
        <4>1. PICK t : /\ executor' = Append(executor, t) /\ t.frag = posts[1].frag
                       /\ t.save \/ (posts[1].kind = "offline" /\ t.data = posts[1].data)
          BY <3>2 DEF PostsToTasks
        <4>2. t.frag = frag /\ ~t.save => t.data = file
          BY <2>1, <2>2, <4>1 DEF PostedIsFile
        <4> QED
          BY <1>3, <2>1, <4>1, <4>2
      <3> QED
        BY <1>6, <3>1, <3>2
    <2>4. PostedIsFile'
      BY <2>1, <2>2 DEF PostedIsFile
    <2>5. ShownIsFile'
      BY <2>1, <2>2, <2>3 DEF ShownIsFile, NoList
    <2> QED
      BY <2>3, <2>4, <2>5
  <1>7. CASE PostsTaken
    <2>1. /\ UNCHANGED <<open, frag, overlapped, saving, file, torn, executor>>
          /\ posts # <<>> /\ posts' = Tail(posts)
          /\ RetainAllServerVPNs' = IF posts[1].kind = "csv" /\ open /\ posts[1].frag = frag
                                       THEN posts[1].data ELSE RetainAllServerVPNs
      BY <1>7 DEF PostsTaken
    <2>2. Elements(posts) = Elements(posts') \cup {posts[1]}
      BY <1>1, <2>1, ElementsShorter
    <2>3. ReadIsFile' /\ PostedIsFile'
      BY <2>1, <2>2 DEF ReadIsFile, PostedIsFile
    <2>4. ShownIsFile'
      <3>1. CASE posts[1].kind = "csv" /\ posts[1].frag = frag
        BY <2>1, <2>2, <3>1 DEF PostedIsFile, ShownIsFile
      <3>2. CASE ~(posts[1].kind = "csv" /\ posts[1].frag = frag)
        BY <2>1, <2>2, <3>2 DEF ShownIsFile, NoList, SavesMine
      <3> QED
        BY <3>1, <3>2
    <2> QED
      BY <2>3, <2>4
  <1>8. CASE Fresh
    <2>1. UNCHANGED <<RetainAllServerVPNs, executor, posts>> /\ ~open /\ frag' = frag + 1
      BY <1>8 DEF Fresh
    <2>2. RetainAllServerVPNs = None /\ frag \in Nat
      BY <2>1 DEF Typed, ClosedIsEmpty
    <2>3. \A t \in Elements(executor) \cup Elements(posts) : t.frag # frag + 1
      BY <2>2 DEF Typed, NotAhead
    <2> QED
      BY <2>1, <2>2, <2>3 DEF ReadIsFile, PostedIsFile, ShownIsFile
  <1> QED
    BY <1>2, <1>4, <1>5, <1>6, <1>7, <1>8, ListMoves
------------------------------------------------------------------------------
(* The theorems                                                               *)

Inv ==
    /\ Typed /\ FlagMeansLoading /\ FileIsWhole /\ Current
    /\ Single /\ OldSave /\ Saved

\* What all of them follow from: the invariant that every step of ServerList keeps.
THEOREM Inductive ==
    Spec => []Inv
  <1>1. Init => Inv
    <2> SUFFICES ASSUME Init
                 PROVE  Inv
      OBVIOUS
    <2>1. ~open /\ isLoadingCSV = FALSE
      BY DEF Init
    <2>2. FlagMeansLoading /\ Single /\ OldSave /\ Saved
      BY <2>1 DEF FlagMeansLoading, Single, OldSave, Saved
    <2> QED
      BY <2>2, TypedAtFirst, WholeAtFirst, CurrentAtFirst DEF Inv
  <1>2. Inv /\ [Next]_vars => Inv'
    <2> SUFFICES ASSUME Inv, [Next]_vars
                 PROVE  Inv'
      OBVIOUS
    <2>1. Typed' /\ FlagMeansLoading' /\ FileIsWhole' /\ Current'
      BY TypedKept, FlagKept, WholeKept, CurrentKept DEF Inv
    <2>2. Single' /\ OldSave' /\ Saved'
      BY SingleKept, OldSaveKept, SavedKept DEF Inv
    <2> QED
      BY <2>1, <2>2 DEF Inv
  <1> QED
    BY <1>1, <1>2, PTL DEF Spec

\* The flag never stays behind without a load of its fragment (RetainFragment:
\* isLoadingCSV and the callbacks that clear it), whatever is closed, killed or
\* rotated, and however many loads overlap.
THEOREM FlagIsNotLeft == Spec => []FlagMeansLoading
  BY Inductive, PTL DEF Inv

\* The favourites on the screen are those of the database once no load of them
\* waits (DatabaseLoadTask), whichever page or fragment asked for them.
THEOREM FavoritesCurrent == Spec => []FavoritesAreCurrent
  <1>1. Inv => FavoritesAreCurrent
    BY DEF Inv, Current, ShownIsCurrent, NoRows, Elements, FavoritesAreCurrent
  <1> QED
    BY <1>1, Inductive, PTL

\* The list that is shown is the one a later start reads from the file
\* (saveByteArrayToFile() and OfflineFileTask), when no loads of this fragment have
\* overlapped and the last save was neither cut short, by an exception or a kill, nor left
\* out after a rotation; in each of these cases it need not be.
THEOREM ListSaved == Spec => []ListIsSaved
  <1>1. Inv => ListIsSaved
    <2> SUFFICES ASSUME Inv, open, ~InFlight, ~overlapped, ~torn,
                        RetainAllServerVPNs # None
                 PROVE  file = RetainAllServerVPNs
      BY DEF ListIsSaved
    <2>1. ~Holds(executor, frag) /\ ~Holds(posts, frag)
      BY InFlightIs
    <2>2. ~SavesMine
      <3>1. ASSUME saving # "no"
            PROVE  executor[1].kind = "csv" /\ executor[1] \in Elements(executor)
        BY <3>1, ElementsShorter DEF Inv, Typed, SavingIsFirst
      <3> QED
        BY <2>1, <3>1 DEF SavesMine, Holds
    <2>3. NoList(posts)
      BY <2>1 DEF NoList, Holds
    <2> QED
      BY <2>2, <2>3 DEF Inv, Saved, ShownIsFile
  <1> QED
    BY <1>1, Inductive, PTL

\* A file that is being saved is not read (doInBackground() of all tasks runs on one
\* thread): one that was cut off comes from a kill or a failure.
THEOREM FileReadWhole == Spec => FileIsReadWhole
  <1>1. ASSUME Typed, FileIsWhole, [Next]_vars, NEW i \in 1..Len(posts'), i > Len(posts),
               posts'[i].kind = "offline", posts'[i].data = Blank
        PROVE  torn
    <2>1. executor[1].kind = "offline" /\ file = Blank
      BY <1>1, OneIsPosted
    <2>2. saving = "no"
      BY <1>1, <2>1 DEF Typed, SavingIsFirst
    <2> QED
      BY <1>1, <2>1, <2>2 DEF FileIsWhole
  <1>2. Inv /\ [Next]_vars =>
           [\A i \in 1..Len(posts') :
               i > Len(posts) /\ posts'[i].kind = "offline" /\ posts'[i].data = Blank => torn]_vars
    BY <1>1 DEF Inv
  <1> QED
    BY <1>2, Inductive, PTL DEF Spec, FileIsReadWhole
=============================================================================
