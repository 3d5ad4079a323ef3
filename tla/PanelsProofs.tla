---------------------------- MODULE PanelsProofs ----------------------------
(***************************************************************************)
(* What the panels keep for every size of the stores: a page that is       *)
(* listed has its strokes, a kept page stays, a page behind the dialogue's *)
(* boundary stays behind it, a panel gives the page back as it was, the    *)
(* agent's panel shows the answer to the last command, what is chosen is   *)
(* in effect and found again, a stroke hits the row it was made on, and    *)
(* every variable keeps its type.                                          *)
(*                                                                         *)
(* The first rests on ids: an append that fails takes back the strokes of  *)
(* its own page only, because its id is above every id of the index.  The  *)
(* types rest on the order of lists: in an ordered set every place up to   *)
(* its size is taken, so that each line of a list has an entry.            *)
(***************************************************************************)
EXTENDS Panels, FiniteSetTheorems, WellFoundedInduction, TLAPS

USE NotebookAssumption, WidgetAssumption, PanelsAssumption

-----------------------------------------------------------------------------
(* Ids.                                                                    *)

\* Nothing is newer than an id exactly when it is the largest.
LEMMA NewestIsLargest ==
    ASSUME NEW entries \in SUBSET Ids, NEW m \in entries
    PROVE  Newer(entries, m) = {} <=> \A id \in entries : id <= m
<1>1. \A id \in entries : id \in Nat
    BY DEF Ids
<1>2. Newer(entries, m) = {} <=> \A id \in entries : ~(id > m)
    BY DEF Newer
<1>3. \A id \in entries : ~(id > m) <=> id <= m
    BY <1>1
<1> QED BY <1>2, <1>3

\* A set of ids has a largest one, which LastId finds (next_id, try_append).
LEMMA LastIdIsLast ==
    ASSUME NEW entries \in SUBSET Ids, entries # {}
    PROVE  LastId(entries) \in entries /\ \A id \in entries : id <= LastId(entries)
<1>1. \E last \in entries : \A id \in entries : id <= last
    <2> DEFINE T == {MaxId - id : id \in entries}
    <2>1. \A id \in entries : id \in Nat /\ MaxId - id \in Nat
        BY DEF Ids
    <2>2. T \subseteq Nat
        BY <2>1
    <2>3. T # {}
        OBVIOUS
    <2> HIDE DEF T
    <2>4. PICK least \in T : \A y \in T : ~(<<y, least>> \in OpToRel(<, Nat))
        BY <2>2, <2>3, NatLessThanWellFounded, WFMin
    <2>5. \A y \in T : ~(y < least)
        BY <2>2, <2>4, Zenon DEF OpToRel
    <2>6. PICK last \in entries : least = MaxId - last
        BY DEF T
    <2>7. \A id \in entries : ~(MaxId - id < MaxId - last)
        BY <2>5, <2>6 DEF T
    <2>8. \A id \in entries : id <= last
        BY <2>1, <2>7
    <2> QED BY <2>8
<1>2. \E last \in entries : Newer(entries, last) = {}
    BY <1>1, NewestIsLargest
<1>3. LastId(entries) \in entries /\ Newer(entries, LastId(entries)) = {}
    BY <1>2 DEF LastId
<1> QED BY <1>3, NewestIsLargest

\* A page gets an id that no page of the index has.
LEMMA PageIdIsNew ==
    ASSUME NEW entries \in SUBSET Ids, NEW requested \in Ids
    PROVE  PageId(entries, requested) \notin entries
<1>1. CASE entries = {}
    BY <1>1
<1>2. CASE entries # {}
    <2>0. Ids \subseteq Nat
        BY DEF Ids
    <2>1. LastId(entries) \in Nat /\ requested \in Nat
        BY <2>0, <1>2, LastIdIsLast
    <2>2. LastId(entries) + 1 \notin entries
        BY <1>2, <2>1, LastIdIsLast
    <2>3. requested > LastId(entries) => requested \notin entries
        BY <1>2, <2>1, LastIdIsLast
    <2> QED BY <1>2, <2>1, <2>2, <2>3 DEF PageId
<1> QED BY <1>1, <1>2

-----------------------------------------------------------------------------
(* The operations of the stores.                                           *)

Listed(d) == d.index \subseteq d.strokes

\* What the operations need of a directory: its fields, and ids in its index.
Kept(d) == DOMAIN d = {"index", "strokes", "floor", "paused"} /\ d.index \subseteq Ids

\* A replaced file leaves the directory as it was or as it should be.
LEMMA ReplacedIsEither ==
    ASSUME NEW before, NEW after, NEW o \in Replaced(before, after)
    PROVE  o.disk \in {before, after}
BY DEF Replaced, Outcome

\* Writing, removing and indexing keep a directory one.
LEMMA WithStrokesWrites ==
    ASSUME NEW d, Kept(d), NEW id
    PROVE  /\ Kept(WithStrokes(d, id)) /\ WithStrokes(d, id).index = d.index
           /\ WithStrokes(d, id).strokes = d.strokes \cup {id}
           /\ WithStrokes(d, id).floor = d.floor
BY DEF Kept, WithStrokes

\* Removing strokes leaves the index (remove_strokes).
LEMMA WithoutStrokesRemoves ==
    ASSUME NEW d, Kept(d), NEW ids
    PROVE  /\ Kept(WithoutStrokes(d, ids)) /\ WithoutStrokes(d, ids).index = d.index
           /\ WithoutStrokes(d, ids).strokes = d.strokes \ ids
           /\ WithoutStrokes(d, ids).floor = d.floor
BY DEF Kept, WithoutStrokes

\* A published index leaves the strokes.
LEMMA IndexedNames ==
    ASSUME NEW d, Kept(d), NEW entries \in SUBSET Ids
    PROVE  /\ Kept(Indexed(d, entries)) /\ Indexed(d, entries).index = entries
           /\ Indexed(d, entries).strokes = d.strokes
           /\ Indexed(d, entries).floor = d.floor
BY DEF Kept, Indexed

\* try_append, wherever it ends: its strokes are written before the index names
\* them, and only strokes the index does not name are removed.
LEMMA AppendKeepsListed ==
    ASSUME NEW d, Kept(d), Listed(d), NEW entries, NEW requested \in Ids,
           PageId(d.index, requested) \in Ids,
           NEW o \in AppendPage(d, entries, requested)
    PROVE  Kept(o.disk) /\ Listed(o.disk)
<1> DEFINE id        == PageId(d.index, requested)
           stay      == Newest(d.index \cup {id}, MaxPages)
           written   == WithStrokes(d, id)
           published == Indexed(written, stay)
           pruned    == WithoutStrokes(published, d.index \ stay)
           undone    == WithoutStrokes(written, {id})
<1>1. d.index \in SUBSET Ids
    BY DEF Kept
<1>2. id \in Ids /\ id \notin d.index
    BY <1>1, PageIdIsNew
<1>3. stay \subseteq d.index \cup {id} /\ stay \in SUBSET Ids
    BY <1>1, <1>2 DEF Newest
<1>4. o.disk \in {d, written, published, pruned, undone}
    BY DEF AppendPage, Outcome
<1> HIDE DEF id, stay
<1>5. Kept(written) /\ written.index = d.index /\ written.strokes = d.strokes \cup {id}
    BY WithStrokesWrites
<1> HIDE DEF written
<1>6. /\ Kept(published) /\ published.index = stay
      /\ published.strokes = d.strokes \cup {id}
    BY <1>3, <1>5, IndexedNames
<1>7. /\ Kept(undone) /\ undone.index = d.index
      /\ undone.strokes = (d.strokes \cup {id}) \ {id}
    BY <1>5, WithoutStrokesRemoves
<1> HIDE DEF published, undone
<1>8. /\ Kept(pruned) /\ pruned.index = stay
      /\ pruned.strokes = (d.strokes \cup {id}) \ (d.index \ stay)
    BY <1>6, WithoutStrokesRemoves
<1> HIDE DEF pruned
<1> QED BY <1>2, <1>3, <1>4, <1>5, <1>6, <1>7, <1>8 DEF Listed

\* delete_number of a page: the index lets go first.
LEMMA ForgetKeepsListed ==
    ASSUME NEW d, Kept(d), NEW id, NEW o \in ForgetPage(d, id)
    PROVE  Kept(o.disk) /\ (Listed(d) => Listed(o.disk))
<1> DEFINE cut  == Indexed(d, d.index \ {id})
           gone == WithoutStrokes(cut, {id})
<1>1. d.index \ {id} \in SUBSET Ids
    BY DEF Kept
<1>2. o.disk \in {d, cut, gone}
    BY DEF ForgetPage, Outcome
<1>3. Kept(cut) /\ cut.index = d.index \ {id} /\ cut.strokes = d.strokes
    BY <1>1, IndexedNames
<1> HIDE DEF cut
<1>4. Kept(gone) /\ gone.index = d.index \ {id} /\ gone.strokes = d.strokes \ {id}
    BY <1>3, WithoutStrokesRemoves
<1> HIDE DEF gone
<1> QED BY <1>2, <1>3, <1>4 DEF Listed

\* A boundary touches neither the index nor the strokes.
LEMMA BoundaryKeepsListed ==
    ASSUME NEW d, Kept(d), NEW entries, NEW o \in BeginSession(d, entries)
    PROVE  Kept(o.disk) /\ (Listed(d) => Listed(o.disk))
<1>1. o.disk \in {d, [d EXCEPT !.floor = LastId(d.index)]}
    BY ReplacedIsEither DEF BeginSession, Unread
<1> QED BY <1>1 DEF Kept, Listed

\* A row that is removed, paused or resumed takes nothing else along.
LEMMA RowsKeepListed ==
    ASSUME NEW d, Kept(d), NEW id, NEW o \in DropRow(d, id) \cup ToggleTask(d, id)
    PROVE  Kept(o.disk) /\ (Listed(d) => Listed(o.disk))
<1> DEFINE dropped == [d EXCEPT !.index = d.index \ {id}, !.paused = @ \cap (d.index \ {id})]
           toggled == [d EXCEPT !.paused = IF id \in @ THEN @ \ {id} ELSE @ \cup {id}]
<1>1. o.disk \in {d, dropped, toggled}
    BY ReplacedIsEither DEF DropRow, ToggleTask, SaveIndex
<1>2. Kept(dropped) /\ dropped.index = d.index \ {id} /\ dropped.strokes = d.strokes
    BY DEF Kept
<1>3. Kept(toggled) /\ toggled.index = d.index /\ toggled.strokes = d.strokes
    BY DEF Kept
<1> HIDE DEF dropped, toggled
<1> QED BY <1>1, <1>2, <1>3 DEF Listed

\* An added row keeps the directory one, if its id is within the bound.
LEMMA AddKeepsDisk ==
    ASSUME NEW d, Kept(d), NEW now, NEW o \in AddTodo(d, now), o.disk.index \subseteq Ids
    PROVE  Kept(o.disk)
<1> DEFINE id      == IF LastId(d.index) + 1 > now THEN LastId(d.index) + 1 ELSE now
           entries == d.index \cup {id}
           added   == [d EXCEPT !.index = entries, !.paused = @ \cap entries]
<1>1. o.disk \in {d, added}
    <2>1. CASE Cardinality(d.index) >= MaxTodos
        BY <2>1 DEF AddTodo, Outcome
    <2>2. CASE ~(Cardinality(d.index) >= MaxTodos)
        <3>1. o \in Replaced(d, added)
            BY <2>2 DEF AddTodo, SaveIndex
        <3> QED BY <3>1, ReplacedIsEither
    <2> QED BY <2>1, <2>2
<1> HIDE DEF entries
<1>2. DOMAIN added = DOMAIN d
    OBVIOUS
<1> QED BY <1>1, <1>2 DEF Kept

-----------------------------------------------------------------------------
(* A page that is listed has its strokes.                                  *)

\* The strengthening: what is on disk is a directory, also where it keeps no
\* pages.
Sound == Kept(disk) /\ (topic \in PageTopics => Listed(disk))

\* A fresh directory lists no page; two tasks may be there.
LEMMA InitSound == Init => Sound
<1> SUFFICES ASSUME Init PROVE Sound
    OBVIOUS
<1>1. /\ topic \in Topics
      /\ disk \in [index : IF topic = "Tasks" THEN {{1, 2}} ELSE {{}},
                  strokes : {{}}, floor : {0}, paused : {{}}]
    BY Zenon DEF Init
<1>2. Kept(disk)
    <2>1. \/ disk.index = {1, 2} /\ MaxId >= 2
          \/ disk.index = {}
        BY <1>1
    <2> QED BY <1>1, <2>1 DEF Kept, Ids
<1>3. topic \in PageTopics => disk.index = {}
    BY <1>1 DEF PageTopics
<1> QED BY <1>2, <1>3 DEF Sound, Listed

\* A restart changes nothing on disk.
LEMMA RestartKeepsWhatItFinds ==
    ASSUME NEW found, Restarted(found)
    PROVE  disk' = found
BY DEF Restarted

\* A turn that is persisted, or fails to be (persist_user_turn).
LEMMA AppendTurnSound == Sound /\ AppendTurn => Sound'
<1> SUFFICES ASSUME Sound, AppendTurn PROVE Sound'
    OBVIOUS
<1>1. topic \in PageTopics /\ topic' = topic
    BY DEF AppendTurn
<1>2. PICK requested \in Ids : PageId(disk.index, requested) \in Ids
         /\ \E o \in AppendPage(disk, copy, requested) : disk' = o.disk
    BY DEF AppendTurn, Restarted, Stored
<1>3. Kept(disk') /\ Listed(disk')
    BY <1>1, <1>2, AppendKeepsListed DEF Sound
<1> QED BY <1>1, <1>3 DEF Sound

\* A todo or a task that is added.
LEMMA AddRowSound == Sound /\ AddRow => Sound'
<1> SUFFICES ASSUME Sound, AddRow PROVE Sound'
    OBVIOUS
<1>1. topic \notin PageTopics /\ topic' = topic
    BY DEF AddRow, PageTopics
<1>2. PICK now \in Ids : \E o \in AddTodo(disk, now) :
         o.disk.index \subseteq Ids /\ disk' = o.disk
    BY DEF AddRow, Restarted, Stored
<1>3. Kept(disk')
    BY <1>2, AddKeepsDisk DEF Sound
<1> QED BY <1>1, <1>3 DEF Sound

\* Another process appends, strikes or adds.
LEMMA OtherWriterSound == Sound /\ OtherWriter => Sound'
<1> SUFFICES ASSUME Sound, OtherWriter PROVE Sound'
    OBVIOUS
<1>0. topic' = topic
    BY DEF OtherWriter
<1>1. CASE /\ topic \in PageTopics
           /\ \E requested \in Ids :
                PageId(disk.index, requested) \in Ids
                /\ \E o \in AppendPage(disk, disk.index, requested) : disk' = o.disk
    <2>1. Kept(disk') /\ Listed(disk')
        BY <1>1, AppendKeepsListed DEF Sound
    <2> QED BY <1>0, <2>1 DEF Sound
<1>2. CASE /\ topic \in PageTopics
           /\ \E id \in disk.index : \E o \in ForgetPage(disk, id) : disk' = o.disk
    <2>1. Kept(disk') /\ Listed(disk')
        BY <1>2, ForgetKeepsListed DEF Sound
    <2> QED BY <1>0, <2>1 DEF Sound
<1>3. CASE /\ topic \notin PageTopics
           /\ \E now \in Ids : \E o \in AddTodo(disk, now) :
                o.disk.index \subseteq Ids /\ disk' = o.disk
    <2>1. Kept(disk')
        BY <1>3, AddKeepsDisk DEF Sound
    <2> QED BY <1>0, <1>3, <2>1 DEF Sound
<1>4. CASE /\ topic \notin PageTopics
           /\ \E id \in disk.index : \E o \in DropRow(disk, id) : disk' = o.disk
    <2>1. Kept(disk')
        BY <1>4, RowsKeepListed DEF Sound
    <2> QED BY <1>0, <1>4, <2>1 DEF Sound
<1> QED BY <1>1, <1>2, <1>3, <1>4 DEF OtherWriter

\* A row struck or toggled, however the operation ends.
LEMMA RowActionSound ==
    ASSUME Sound, topic' = topic, NEW id,
           NEW o \in ForgetPage(disk, id) \cup DropRow(disk, id) \cup ToggleTask(disk, id),
           disk' = o.disk
    PROVE  Sound'
<1>1. Kept(disk') /\ (Listed(disk) => Listed(disk'))
    BY ForgetKeepsListed, RowsKeepListed DEF Sound
<1> QED BY <1>1 DEF Sound

\* A stroke or a tap, on a row the store still numbers.
LEMMA ListGestureSound == Sound /\ ListGesture => Sound'
<1> SUFFICES ASSUME Sound, ListGesture PROVE Sound'
    OBVIOUS
<1>0. topic' = topic
    BY DEF ListGesture
<1>1. PICK action, page : ListAct(action, page)
    BY DEF ListGesture
<1>2. CASE disk' = disk
    BY <1>0, <1>2 DEF Sound
<1>3. CASE \E id \in Numbered(action.number, disk.index) :
             \E o \in (IF panel.kind = "History" THEN ForgetPage(disk, id) ELSE DropRow(disk, id)) :
               disk' = o.disk
    BY <1>0, <1>3, RowActionSound
<1>4. CASE \E id \in Numbered(action.number, disk.index) :
             \E o \in ToggleTask(disk, id) : disk' = o.disk
    BY <1>0, <1>4, RowActionSound
<1> QED BY <1>1, <1>2, <1>3, <1>4, Zenon
        DEF ListAct, ListDismissed, ListRedrawn, NothingNumbered, Struck, Stored, storeVars

\* The process ends while it strikes.
LEMMA CrashInStrikeSound == Sound /\ CrashInStrike => Sound'
<1> SUFFICES ASSUME Sound, CrashInStrike PROVE Sound'
    OBVIOUS
<1>0. topic' = topic
    BY DEF CrashInStrike
<1>1. PICK id : \E o \in ForgetPage(disk, id) \cup DropRow(disk, id) \cup ToggleTask(disk, id) :
        disk' = o.disk
    BY RestartKeepsWhatItFinds, Zenon DEF CrashInStrike
<1> QED BY <1>0, <1>1, RowActionSound

\* A boundary, confirmed or not.
LEMMA BoundarySound ==
    ASSUME Sound, topic' = topic, NEW o \in BeginSession(disk, copy), disk' = o.disk
    PROVE  Sound'
<1>1. Kept(disk') /\ (Listed(disk) => Listed(disk'))
    BY BoundaryKeepsListed DEF Sound
<1> QED BY <1>1 DEF Sound

\* The process ends while it writes a boundary.
LEMMA CrashInBoundarySound == Sound /\ CrashInBoundary => Sound'
<1> SUFFICES ASSUME Sound, CrashInBoundary PROVE Sound'
    OBVIOUS
<1>0. topic' = topic
    BY DEF CrashInBoundary
<1>1. PICK o \in BeginSession(disk, copy) : disk' = o.disk
    BY RestartKeepsWhatItFinds, Zenon DEF CrashInBoundary
<1> QED BY <1>0, <1>1, BoundarySound

\* Of what the agent's panel does, a new session alone reaches the store.
LEMMA PiGestureSound == Sound /\ PiGesture => Sound'
<1> SUFFICES ASSUME Sound, PiGesture PROVE Sound'
    OBVIOUS
<1>0. topic' = topic
    BY Zenon DEF PiGesture
<1>1. disk' = disk \/ \E o \in BeginSession(disk, copy) : disk' = o.disk
    BY Zenon DEF PiGesture, Stored, storeVars
<1>2. CASE disk' = disk
    BY <1>0, <1>2 DEF Sound
<1>3. CASE \E o \in BeginSession(disk, copy) : disk' = o.disk
    BY <1>0, <1>3, BoundarySound
<1> QED BY <1>1, <1>2, <1>3

\* The other actions leave the store alone.
LEMMA OthersLeaveTheStore ==
    ASSUME [Next]_vars, ~AppendTurn, ~AddRow, ~OtherWriter, ~ListGesture,
           ~CrashInStrike, ~CrashInBoundary, ~PiGesture
    PROVE  disk' = disk /\ topic' = topic
<1>1. CASE Crash
    BY <1>1, RestartKeepsWhatItFinds DEF Crash
<1>2. CASE Write \/ ReplyCleanup
    BY <1>2, Zenon DEF Write, ReplyCleanup, storeVars
<1>3. CASE OpenList \/ OpenSettings \/ OpenFontList
    BY <1>3, Zenon DEF OpenList, OpenSettings, OpenFontList, Opened, storeVars
<1>4. CASE AskForBook \/ OpenHelp
    BY <1>4, Zenon DEF AskForBook, OpenHelp, Opened, storeVars
<1>5. CASE ContactBegins \/ Background \/ ControlAnswers \/ ControlPolled
    BY <1>5, Zenon DEF ContactBegins, Background, ControlAnswers, ControlPolled, storeVars
<1>6. CASE ReaderGesture \/ HelpGesture \/ HelpTimesOut
    BY <1>6, Zenon DEF ReaderGesture, HelpGesture, HelpTimesOut, storeVars
<1>7. CASE SettingsGesture \/ FontGesture
    BY <1>7, Zenon DEF SettingsGesture, FontGesture, storeVars
<1>8. CASE UNCHANGED vars
    BY <1>8, Zenon DEF vars, storeVars
<1> QED BY <1>1, <1>2, <1>3, <1>4, <1>5, <1>6, <1>7, <1>8, Zenon DEF Next

\* Every page the index names has its strokes, wherever an append or a deletion
\* ends, in this process or another, and for every size of the store
\* (try_append, delete_number).
THEOREM IndexAlwaysHasStrokes == Spec => []IndexHasStrokes
<1>1. Sound /\ [Next]_vars => Sound'
    <2> SUFFICES ASSUME Sound, [Next]_vars PROVE Sound'
        OBVIOUS
    <2>1. CASE AppendTurn
        BY <2>1, AppendTurnSound
    <2>2. CASE AddRow
        BY <2>2, AddRowSound
    <2>3. CASE OtherWriter
        BY <2>3, OtherWriterSound
    <2>4. CASE ListGesture
        BY <2>4, ListGestureSound
    <2>5. CASE CrashInStrike
        BY <2>5, CrashInStrikeSound
    <2>6. CASE CrashInBoundary
        BY <2>6, CrashInBoundarySound
    <2>7. CASE PiGesture
        BY <2>7, PiGestureSound
    <2>8. CASE disk' = disk /\ topic' = topic
        BY <2>8 DEF Sound
    <2> QED BY <2>1, <2>2, <2>3, <2>4, <2>5, <2>6, <2>7, <2>8, OthersLeaveTheStore
<1>2. Sound => IndexHasStrokes
    BY DEF Sound, Listed, IndexHasStrokes
<1> QED BY InitSound, <1>1, <1>2, PTL DEF Spec

-----------------------------------------------------------------------------
(* A kept page stays, and a page behind the boundary stays behind it.      *)

\* try_append: the index holds the newest pages, or it is as it was and the page
\* is not reported as kept.
LEMMA AppendIndexes ==
    ASSUME NEW d, Kept(d), NEW entries, NEW requested \in Ids,
           PageId(d.index, requested) \in Ids,
           NEW o \in AppendPage(d, entries, requested)
    PROVE  /\ Kept(o.disk) /\ o.disk.floor = d.floor
           /\ \/ o.disk.index = Newest(d.index \cup {PageId(d.index, requested)}, MaxPages)
              \/ o.disk.index = d.index /\ o.said # "ok"
<1> DEFINE id        == PageId(d.index, requested)
           stay      == Newest(d.index \cup {id}, MaxPages)
           written   == WithStrokes(d, id)
           published == Indexed(written, stay)
           pruned    == WithoutStrokes(published, d.index \ stay)
           undone    == WithoutStrokes(written, {id})
<1>1. stay \in SUBSET Ids
    BY DEF Newest, Kept
<1>2. \/ o.disk \in {published, pruned}
      \/ o.disk \in {d, written, undone} /\ o.said # "ok"
    BY DEF AppendPage, Outcome
<1> HIDE DEF id, stay
<1>3. Kept(written) /\ written.index = d.index /\ written.floor = d.floor
    BY WithStrokesWrites
<1> HIDE DEF written
<1>4. Kept(published) /\ published.index = stay /\ published.floor = d.floor
    BY <1>1, <1>3, IndexedNames
<1>5. Kept(undone) /\ undone.index = d.index /\ undone.floor = d.floor
    BY <1>3, WithoutStrokesRemoves
<1> HIDE DEF published, undone
<1>6. Kept(pruned) /\ pruned.index = stay /\ pruned.floor = d.floor
    BY <1>4, WithoutStrokesRemoves
<1> HIDE DEF pruned
<1>7. \/ o.disk.index = stay
      \/ o.disk.index = d.index /\ o.said # "ok"
    BY <1>2, <1>3, <1>4, <1>5, <1>6
<1> QED BY <1>2, <1>3, <1>4, <1>5, <1>6, <1>7 DEF id, stay

\* delete_number and toggle_number take at most the row they are given.
LEMMA RowsLeaveOthers ==
    ASSUME NEW d, Kept(d), NEW id,
           NEW o \in ForgetPage(d, id) \cup DropRow(d, id) \cup ToggleTask(d, id)
    PROVE  /\ Kept(o.disk) /\ o.disk.floor = d.floor
           /\ d.index \ {id} \subseteq o.disk.index
           /\ o \in ToggleTask(d, id) => o.disk.index = d.index
<1> DEFINE cut     == Indexed(d, d.index \ {id})
           gone    == WithoutStrokes(cut, {id})
           dropped == [d EXCEPT !.index = d.index \ {id}, !.paused = @ \cap (d.index \ {id})]
           toggled == [d EXCEPT !.paused = IF id \in @ THEN @ \ {id} ELSE @ \cup {id}]
<1>1. Kept(o.disk)
    BY ForgetKeepsListed, RowsKeepListed
<1>2. o \in ForgetPage(d, id) => o.disk \in {d, cut, gone}
    BY DEF ForgetPage, Outcome
<1>3. o \in DropRow(d, id) => o.disk \in {d, dropped}
    BY ReplacedIsEither DEF DropRow, SaveIndex
<1>4. o \in ToggleTask(d, id) => o.disk \in {d, toggled}
    BY ReplacedIsEither DEF ToggleTask
<1>5. Kept(cut) /\ cut.index = d.index \ {id} /\ cut.floor = d.floor
    BY IndexedNames DEF Kept
<1> HIDE DEF cut
<1>6. gone.index = d.index \ {id} /\ gone.floor = d.floor
    BY <1>5, WithoutStrokesRemoves
<1>7. dropped.index = d.index \ {id} /\ dropped.floor = d.floor
    BY DEF Kept
<1>8. toggled.index = d.index /\ toggled.floor = d.floor
    BY DEF Kept
<1> HIDE DEF gone, dropped, toggled
<1> QED BY <1>1, <1>2, <1>3, <1>4, <1>5, <1>6, <1>7, <1>8

\* A new boundary lies behind every page of the index.
LEMMA BoundaryIsBehindAll ==
    ASSUME NEW d, Kept(d), NEW entries, NEW o \in BeginSession(d, entries)
    PROVE  /\ Kept(o.disk) /\ o.disk.index = d.index
           /\ \/ o.disk.floor = d.floor /\ o.said # "ok"
              \/ \A id \in d.index : ~(id > o.disk.floor)
<1> DEFINE bounded == [d EXCEPT !.floor = LastId(d.index)]
<1>1. \/ o.disk = bounded
      \/ o.disk = d /\ o.said # "ok"
    BY DEF BeginSession, Replaced, Outcome, Unread
<1>2. Kept(bounded) /\ bounded.index = d.index /\ bounded.floor = LastId(d.index)
    BY DEF Kept
<1>3. \A id \in d.index : ~(id > LastId(d.index))
    <2>1. \A id \in d.index : id <= LastId(d.index) /\ LastId(d.index) \in d.index
        BY LastIdIsLast DEF Kept
    <2> QED BY <2>1 DEF Kept, Ids
<1> HIDE DEF bounded
<1> QED BY <1>1, <1>2, <1>3

\* The strengthening: a page is put behind the boundary as a page of the index,
\* and only the writer's card for a new session does so; pages are kept in their
\* own store.
OnlySessions == contact.from.place = "session" => topic = "Session"

Promised ==
    /\ Kept(disk) /\ kept \subseteq disk.index /\ old \subseteq disk.index
    /\ \A id \in old : ~(id > disk.floor)
    /\ topic \notin PageTopics => kept = {} /\ old = {}
    /\ OnlySessions

\* A contact on a card or a row.
LEMMA SessionCards == \A spot \in Spots : spot.place = "session" => topic = "Session"
<1>1. CASE panel.kind \in Lists
    <2>1. \A spot \in ListSpots(panel.page, panel.lines, panel.kind) :
            spot.place \in {"blank", "card", "text", "box"}
        BY DEF ListSpots, Spot, Blank
    <2> QED BY <1>1, <2>1 DEF Spots
<1>2. CASE panel.kind \notin Lists
    <2>1. \A spot \in Cards : spot.place = "session" => topic = "Session"
        BY DEF Cards, Spot, Blank
    <2> QED BY <1>2, <2>1 DEF Spots
<1> QED BY <1>1, <1>2

\* What a step does to the contact, and the topic it leaves alone.
LEMMA TopicStays == [Next]_vars => topic' = topic
<1> SUFFICES ASSUME [Next]_vars PROVE topic' = topic
    OBVIOUS
<1>1. CASE Crash \/ Write \/ AppendTurn \/ AddRow \/ OtherWriter \/ ReplyCleanup
    BY <1>1, Zenon DEF Crash, Write, AppendTurn, AddRow, OtherWriter, ReplyCleanup
<1>2. CASE OpenList \/ OpenSettings \/ OpenFontList \/ AskForBook \/ OpenHelp
    BY <1>2, Zenon DEF OpenList, OpenSettings, OpenFontList, AskForBook, OpenHelp, Opened
<1>3. CASE ContactBegins \/ Background \/ ControlAnswers \/ ControlPolled
    BY <1>3, Zenon DEF ContactBegins, Background, ControlAnswers, ControlPolled
<1>4. CASE ListGesture \/ CrashInStrike \/ CrashInBoundary \/ ReaderGesture
    BY <1>4, Zenon DEF ListGesture, CrashInStrike, CrashInBoundary, ReaderGesture
<1>5. CASE HelpGesture \/ HelpTimesOut \/ SettingsGesture \/ FontGesture \/ PiGesture
    BY <1>5, Zenon DEF HelpGesture, HelpTimesOut, SettingsGesture, FontGesture, PiGesture
<1>6. CASE UNCHANGED vars
    BY <1>6, Zenon DEF vars
<1> QED BY <1>1, <1>2, <1>3, <1>4, <1>5, <1>6, Zenon DEF Next

\* A restart finds no contact.
LEMMA RestartEndsContact ==
    ASSUME NEW found, Restarted(found)
    PROVE  contact' = NoContact
BY DEF Restarted

\* Only a contact that begins puts another in its place (begin_modal_contact).
LEMMA ContactsBeginOnce ==
    [Next]_vars => ContactBegins \/ contact' = contact \/ contact' = NoContact
<1> SUFFICES ASSUME [Next]_vars, ~ContactBegins
             PROVE  contact' = contact \/ contact' = NoContact
    OBVIOUS
<1>1. CASE Crash \/ CrashInStrike \/ CrashInBoundary
    <2>1. \E found : Restarted(found)
        BY <1>1, Zenon DEF Crash, CrashInStrike, CrashInBoundary
    <2> QED BY <2>1, RestartEndsContact
<1>2. CASE Write \/ OtherWriter \/ ReplyCleanup \/ ControlAnswers \/ ControlPolled
    BY <1>2, Zenon DEF Write, Quiet, OtherWriter, ReplyCleanup, ControlAnswers, ControlPolled,
                       screenVars
<1>3. CASE AppendTurn \/ AddRow
    <2>1. (\E found : Restarted(found)) \/ UNCHANGED screenVars
        BY <1>3, Zenon DEF AppendTurn, AddRow
    <2> QED BY <2>1, RestartEndsContact DEF screenVars
<1>4. CASE OpenList \/ OpenSettings \/ OpenFontList \/ AskForBook \/ OpenHelp
    BY <1>4, Zenon DEF OpenList, OpenSettings, OpenFontList, AskForBook, OpenHelp, Opened
<1>5. CASE Background \/ ListGesture \/ ReaderGesture \/ HelpGesture
    BY <1>5, Zenon DEF Background, ListGesture, ReaderGesture, HelpGesture, ContactEnds
<1>6. CASE HelpTimesOut \/ SettingsGesture \/ FontGesture \/ PiGesture
    BY <1>6, Zenon DEF HelpTimesOut, SettingsGesture, FontGesture, PiGesture, ContactEnds
<1>7. CASE UNCHANGED vars
    BY <1>7, Zenon DEF vars, screenVars
<1> QED BY <1>1, <1>2, <1>3, <1>4, <1>5, <1>6, <1>7, Zenon DEF Next

\* ... on a spot of the panel that is open.
LEMMA ContactsStay ==
    [Next]_vars => contact' = contact \/ contact' = NoContact \/ contact'.from \in Spots
<1> SUFFICES ASSUME [Next]_vars
             PROVE  contact' = contact \/ contact' = NoContact \/ contact'.from \in Spots
    OBVIOUS
<1>1. CASE ContactBegins
    <2>1. PICK tool \in Tools, from \in Spots :
            LET preview == IF panel.kind \in Lists
                           THEN ListPreview(tool, from, panel.lines, panel.kind)
                           ELSE CardPreview(from)
            IN  contact' = [tool |-> tool, from |-> from, preview |-> preview]
        BY <1>1, Zenon DEF ContactBegins, Tools
    <2> QED BY <2>1
<1> QED BY <1>1, ContactsBeginOnce

\* A contact on the card for a new session is the session writer's.
LEMMA OnlySessionsStays == OnlySessions /\ [Next]_vars => OnlySessions'
<1> SUFFICES ASSUME OnlySessions, [Next]_vars PROVE OnlySessions'
    OBVIOUS
<1>1. topic' = topic
    BY TopicStays
<1>2. CASE contact' = contact
    BY <1>1, <1>2 DEF OnlySessions
<1>3. CASE contact' = NoContact
    BY <1>3 DEF OnlySessions, NoContact, Blank, Spot
<1>4. CASE contact'.from \in Spots
    BY <1>1, <1>4, SessionCards DEF OnlySessions
<1> QED BY <1>2, <1>3, <1>4, ContactsStay

\* A page appended, here or elsewhere.
LEMMA AppendKeepsPromise ==
    ASSUME Promised, OnlySessions', topic' = topic, topic \in PageTopics,
           NEW entries, NEW requested \in Ids, PageId(disk.index, requested) \in Ids,
           NEW o \in AppendPage(disk, entries, requested), disk' = o.disk,
           Remembers(o, PageId(disk.index, requested))
    PROVE  Promised'
<1>0. Kept(disk)
    BY DEF Promised
<1>1. /\ Kept(o.disk) /\ o.disk.floor = disk.floor
      /\ \/ o.disk.index = Newest(disk.index \cup {PageId(disk.index, requested)}, MaxPages)
         \/ o.disk.index = disk.index /\ o.said # "ok"
    BY <1>0, AppendIndexes, Z3
<1> DEFINE id   == PageId(disk.index, requested)
           stay == Newest(disk.index \cup {id}, MaxPages)
<1>2. /\ kept' = (IF o.said = "ok" THEN kept \cup {id} ELSE kept) \cap stay
      /\ old' = old \cap disk'.index
      /\ disk'.index = stay \/ (disk'.index = disk.index /\ o.said # "ok")
    BY <1>1 DEF Remembers
<1> HIDE DEF id, stay
<1>3. kept' \subseteq disk'.index
    BY <1>1, <1>2 DEF Promised
<1> QED BY <1>1, <1>2, <1>3 DEF Promised

\* A row struck, here or elsewhere, or paused.
LEMMA StrikeKeepsPromise ==
    ASSUME Promised, OnlySessions', topic' = topic, NEW id,
           NEW o \in ForgetPage(disk, id) \cup DropRow(disk, id), disk' = o.disk,
           kept' = kept \ {id}, old' = old \cap o.disk.index
    PROVE  Promised'
<1>1. Kept(disk') /\ disk'.floor = disk.floor /\ disk.index \ {id} \subseteq disk'.index
    BY RowsLeaveOthers DEF Promised
<1> QED BY <1>1 DEF Promised

\* A task that is paused or resumed is no page.
LEMMA ToggleKeepsPromise ==
    ASSUME Promised, OnlySessions', topic' = topic, NEW id,
           NEW o \in ToggleTask(disk, id), disk' = o.disk, kept' = kept, old' = old
    PROVE  Promised'
<1>1. Kept(disk') /\ disk'.floor = disk.floor /\ disk'.index = disk.index
    BY RowsLeaveOthers DEF Promised
<1> QED BY <1>1 DEF Promised

\* A boundary taken, confirmed or not.
LEMMA SessionKeepsPromise ==
    ASSUME Promised, OnlySessions', topic' = topic,
           NEW o \in BeginSession(disk, copy), disk' = o.disk,
           kept' = kept, old' = old \/ (o.said = "ok" /\ topic = "Session" /\ old' = disk.index)
    PROVE  Promised'
<1>1. /\ Kept(disk') /\ disk'.index = disk.index
      /\ \/ disk'.floor = disk.floor /\ o.said # "ok"
         \/ \A id \in disk.index : ~(id > disk'.floor)
    BY BoundaryIsBehindAll DEF Promised
<1> QED BY <1>1 DEF Promised, PageTopics

\* Where no page is kept, any directory will do.
LEMMA OtherStoresKeepPromise ==
    ASSUME Promised, OnlySessions', topic' = topic, topic \notin PageTopics,
           Kept(disk'), kept' = kept, old' = old
    PROVE  Promised'
BY DEF Promised

\* A step that leaves the store and the promises alone.
LEMMA SameStoreKeepsPromise ==
    ASSUME Promised, OnlySessions', topic' = topic,
           disk' = disk, kept' = kept, old' = old
    PROVE  Promised'
BY DEF Promised

\* A turn that is persisted keeps the pages that stay among the newest.
LEMMA AppendTurnPromised == Promised /\ OnlySessions' /\ AppendTurn => Promised'
<1> SUFFICES ASSUME Promised, OnlySessions', AppendTurn PROVE Promised'
    OBVIOUS
<1>1. topic \in PageTopics /\ topic' = topic
    BY DEF AppendTurn
<1>2. PICK requested \in Ids : PageId(disk.index, requested) \in Ids
         /\ \E o \in AppendPage(disk, copy, requested) :
              disk' = o.disk /\ Remembers(o, PageId(disk.index, requested))
    BY DEF AppendTurn, Restarted, Stored
<1> QED BY <1>1, <1>2, AppendKeepsPromise

\* Todos and tasks promise no page.
LEMMA AddRowPromised == Promised /\ OnlySessions' /\ AddRow => Promised'
<1> SUFFICES ASSUME Promised, OnlySessions', AddRow PROVE Promised'
    OBVIOUS
<1>1. topic \notin PageTopics /\ topic' = topic /\ kept' = kept /\ old' = old
    BY DEF AddRow, PageTopics
<1>2. PICK now \in Ids : \E o \in AddTodo(disk, now) :
         o.disk.index \subseteq Ids /\ disk' = o.disk
    BY DEF AddRow, Restarted, Stored
<1>3. Kept(disk')
    BY <1>2, AddKeepsDisk DEF Promised
<1> QED BY <1>1, <1>3, OtherStoresKeepPromise

\* What another process strikes is not promised any more.
LEMMA OtherWriterPromised == Promised /\ OnlySessions' /\ OtherWriter => Promised'
<1> SUFFICES ASSUME Promised, OnlySessions', OtherWriter PROVE Promised'
    OBVIOUS
<1>0. topic' = topic
    BY DEF OtherWriter
<1>1. CASE /\ topic \in PageTopics
           /\ \E requested \in Ids :
                PageId(disk.index, requested) \in Ids
                /\ \E o \in AppendPage(disk, disk.index, requested) :
                     disk' = o.disk /\ Remembers(o, PageId(disk.index, requested))
    BY <1>0, <1>1, AppendKeepsPromise
<1>2. CASE /\ topic \in PageTopics
           /\ \E id \in disk.index : \E o \in ForgetPage(disk, id) :
                disk' = o.disk /\ kept' = kept \ {id} /\ old' = old \cap o.disk.index
    BY <1>0, <1>2, StrikeKeepsPromise
<1>3. CASE /\ topic \notin PageTopics /\ kept' = kept /\ old' = old
           /\ \/ \E now \in Ids : \E o \in AddTodo(disk, now) :
                   o.disk.index \subseteq Ids /\ disk' = o.disk
              \/ \E id \in disk.index : \E o \in DropRow(disk, id) : disk' = o.disk
    <2>1. Kept(disk')
        BY <1>3, AddKeepsDisk, RowsKeepListed DEF Promised
    <2> QED BY <1>0, <1>3, <2>1, OtherStoresKeepPromise
<1> QED BY <1>1, <1>2, <1>3 DEF OtherWriter

\* What the writer strikes is not promised any more, ...
LEMMA ListGesturePromised == Promised /\ OnlySessions' /\ ListGesture => Promised'
<1> SUFFICES ASSUME Promised, OnlySessions', ListGesture PROVE Promised'
    OBVIOUS
<1>0. topic' = topic
    BY DEF ListGesture
<1>1. PICK action, page : ListAct(action, page)
    BY DEF ListGesture
<1>2. CASE disk' = disk /\ kept' = kept /\ old' = old
    BY <1>0, <1>2, SameStoreKeepsPromise
<1>3. CASE \E id \in Numbered(action.number, disk.index) :
             \E o \in (IF panel.kind = "History" THEN ForgetPage(disk, id) ELSE DropRow(disk, id)) :
               disk' = o.disk /\ kept' = kept \ {id} /\ old' = old \cap o.disk.index
    BY <1>0, <1>3, StrikeKeepsPromise
<1>4. CASE \E id \in Numbered(action.number, disk.index) :
             \E o \in ToggleTask(disk, id) : disk' = o.disk /\ kept' = kept /\ old' = old
    BY <1>0, <1>4, ToggleKeepsPromise
<1> QED BY <1>1, <1>2, <1>3, <1>4, Zenon
        DEF ListAct, ListDismissed, ListRedrawn, NothingNumbered, Struck, Stored, storeVars

\* ... also when the process ends in between.
LEMMA CrashInStrikePromised == Promised /\ OnlySessions' /\ CrashInStrike => Promised'
<1> SUFFICES ASSUME Promised, OnlySessions', CrashInStrike PROVE Promised'
    OBVIOUS
<1>0. topic' = topic
    BY DEF CrashInStrike
<1>1. PICK id : \/ \E o \in ForgetPage(disk, id) \cup DropRow(disk, id) :
                     disk' = o.disk /\ kept' = kept \ {id} /\ old' = old \cap o.disk.index
                \/ \E o \in ToggleTask(disk, id) : disk' = o.disk /\ kept' = kept /\ old' = old
    BY RestartKeepsWhatItFinds, Zenon DEF CrashInStrike
<1>2. CASE \E o \in ForgetPage(disk, id) \cup DropRow(disk, id) :
             disk' = o.disk /\ kept' = kept \ {id} /\ old' = old \cap o.disk.index
    BY <1>0, <1>2, StrikeKeepsPromise
<1>3. CASE \E o \in ToggleTask(disk, id) : disk' = o.disk /\ kept' = kept /\ old' = old
    BY <1>0, <1>3, ToggleKeepsPromise
<1> QED BY <1>1, <1>2, <1>3

\* A boundary that is not confirmed takes no page from behind the last one.
LEMMA CrashInBoundaryPromised == Promised /\ OnlySessions' /\ CrashInBoundary => Promised'
<1> SUFFICES ASSUME Promised, OnlySessions', CrashInBoundary PROVE Promised'
    OBVIOUS
<1>1. topic' = topic /\ kept' = kept /\ old' = old
    BY DEF CrashInBoundary
<1>2. PICK o \in BeginSession(disk, copy) : disk' = o.disk
    BY RestartKeepsWhatItFinds, Zenon DEF CrashInBoundary
<1> QED BY <1>1, <1>2, SessionKeepsPromise

\* A confirmed session puts every page of the index behind its boundary.
LEMMA PiGesturePromised == Promised /\ OnlySessions' /\ PiGesture => Promised'
<1> SUFFICES ASSUME Promised, OnlySessions', PiGesture PROVE Promised'
    OBVIOUS
<1>0. topic' = topic
    BY Zenon DEF PiGesture
<1>1. CASE disk' = disk /\ kept' = kept /\ old' = old
    BY <1>0, <1>1, SameStoreKeepsPromise
<1>2. CASE /\ "session" \in CardActions(contact.from) /\ kept' = kept
           /\ \E o \in BeginSession(disk, copy) :
                disk' = o.disk /\ old' = IF o.said = "ok" THEN disk.index ELSE old
    <2>1. contact.from.place = "session"
        BY <1>2 DEF CardActions
    <2>2. topic = "Session"
        BY <2>1 DEF Promised, OnlySessions
    <2>3. PICK o \in BeginSession(disk, copy) :
                disk' = o.disk /\ old' = IF o.said = "ok" THEN disk.index ELSE old
        BY <1>2
    <2> QED BY <1>0, <1>2, <2>2, <2>3, SessionKeepsPromise
<1>3. \/ disk' = disk /\ kept' = kept /\ old' = old
      \/ /\ "session" \in CardActions(contact.from) /\ kept' = kept
         /\ \E o \in BeginSession(disk, copy) :
              disk' = o.disk /\ old' = IF o.said = "ok" THEN disk.index ELSE old
    BY Zenon DEF PiGesture, Stored, storeVars
<1> QED BY <1>1, <1>2, <1>3

\* The other actions leave the pages alone.
LEMMA OthersLeaveThePages ==
    ASSUME [Next]_vars, ~AppendTurn, ~AddRow, ~OtherWriter, ~ListGesture,
           ~CrashInStrike, ~CrashInBoundary, ~PiGesture
    PROVE  kept' = kept /\ old' = old
<1>1. CASE Crash \/ Write \/ ReplyCleanup
    BY <1>1, Zenon DEF Crash, Write, ReplyCleanup, storeVars
<1>2. CASE OpenList \/ OpenSettings \/ OpenFontList \/ AskForBook \/ OpenHelp
    BY <1>2, Zenon DEF OpenList, OpenSettings, OpenFontList, AskForBook, OpenHelp, Opened,
                       storeVars
<1>3. CASE ContactBegins \/ Background \/ ControlAnswers \/ ControlPolled
    BY <1>3, Zenon DEF ContactBegins, Background, ControlAnswers, ControlPolled, storeVars
<1>4. CASE ReaderGesture \/ HelpGesture \/ HelpTimesOut
    BY <1>4, Zenon DEF ReaderGesture, HelpGesture, HelpTimesOut, storeVars
<1>5. CASE SettingsGesture \/ FontGesture
    BY <1>5, Zenon DEF SettingsGesture, FontGesture, storeVars
<1>6. CASE UNCHANGED vars
    BY <1>6, Zenon DEF vars, storeVars
<1> QED BY <1>1, <1>2, <1>3, <1>4, <1>5, <1>6, Zenon DEF Next

\* Nothing is promised at first.
LEMMA InitPromised == Init => Promised
<1> SUFFICES ASSUME Init PROVE Promised
    OBVIOUS
<1>1. Kept(disk)
    BY InitSound DEF Sound
<1>2. kept = {} /\ old = {} /\ contact = NoContact
    BY Zenon DEF Init
<1> QED BY <1>1, <1>2 DEF Promised, OnlySessions, NoContact, Blank, Spot

\* The promises are kept by every step.
LEMMA PromisedIsKept == Promised /\ [Next]_vars => Promised'
<1> SUFFICES ASSUME Promised, [Next]_vars PROVE Promised'
    OBVIOUS
<1>0. OnlySessions' /\ topic' = topic
    BY OnlySessionsStays, TopicStays DEF Promised
<1>1. CASE AppendTurn \/ AddRow \/ OtherWriter
    BY <1>0, <1>1, AppendTurnPromised, AddRowPromised, OtherWriterPromised
<1>2. CASE ListGesture \/ CrashInStrike
    BY <1>0, <1>2, ListGesturePromised, CrashInStrikePromised
<1>3. CASE PiGesture \/ CrashInBoundary
    BY <1>0, <1>3, PiGesturePromised, CrashInBoundaryPromised
<1>4. CASE disk' = disk /\ kept' = kept /\ old' = old
    BY <1>0, <1>4, SameStoreKeepsPromise
<1> QED BY <1>1, <1>2, <1>3, <1>4, OthersLeaveTheStore, OthersLeaveThePages

\* A page whose keeping was reported stays until the writer strikes it or enough
\* newer pages push it out, whoever appends or strikes in between and wherever
\* this process ends (try_append reloads under the lock).
THEOREM PagesAlwaysSurvive == Spec => []PagesSurvive
<1>1. Promised => PagesSurvive
    BY DEF Promised, PagesSurvive
<1> QED BY InitPromised, PromisedIsKept, <1>1, PTL DEF Spec

\* After a new session was confirmed, no page from before it is given to the
\* agent again, whichever process appended it (begin_dialogue_session).
THEOREM BoundaryAlwaysHolds == Spec => []BoundaryHolds
<1>1. Promised => BoundaryHolds
    BY DEF Promised, BoundaryHolds, RecentDialogue
<1> QED BY InitPromised, PromisedIsKept, <1>1, PTL DEF Spec

-----------------------------------------------------------------------------
(* A panel gives the page back.                                            *)

\* The strengthening: the upper layer is the panel that is open, and a contact
\* never outlives its panel; its preview would be cleared from a stale page.
Layered ==
    /\ DOMAIN layers = {"paper", "ui", "front", "mark"} /\ "kind" \in DOMAIN panel
    /\ layers.ui = panel.kind /\ (contact # NoContact => ~NoneOpen)
    /\ PaperIsRestored

\* A panel that is shown has its kind.
LEMMA ShownHasKind ==
    ASSUME NEW kind, NEW page, NEW lines, NEW values
    PROVE  /\ Show(kind, page, lines, values).kind = kind
           /\ "kind" \in DOMAIN Show(kind, page, lines, values)
           /\ ShowList(kind, page, lines).kind = kind
           /\ "kind" \in DOMAIN ShowList(kind, page, lines)
           /\ [Show(kind, page, lines, values) EXCEPT !.back = TRUE].kind = kind
           /\ "kind" \in DOMAIN [Show(kind, page, lines, values) EXCEPT !.back = TRUE]
BY DEF Show, ShowList

\* What a handler does to the screen is one of these.
Kind(p, kind) == "kind" \in DOMAIN p /\ p.kind = kind

Replaces   == \E kind \in Kinds : Kind(panel', kind) /\ layers' = ReplaceUi(kind)
Redraws    == \E kind \in Kinds : Kind(panel', kind) /\ layers' = RedrawUi(kind)
Dismisses  == panel' = NoPanel /\ layers' = DismissUi
Clears     == panel' = panel /\ layers' = ClearPreview
LeavesIt   == panel' = panel /\ layers' = layers

\* Each of these keeps the layers in order: a panel that opens over another finds
\* the page saved.
LEMMA ScreenStays ==
    ASSUME Layered, sheet' = sheet,
           \/ Replaces
           \/ panel.kind # "none" /\ Redraws
           \/ panel.kind # "none" /\ Dismisses /\ contact' = NoContact
           \/ panel.kind # "none" /\ Clears
           \/ LeavesIt /\ contact' = contact
    PROVE  Layered'
<1> USE DEF Layered, PaperIsRestored, NoneOpen
<1>1. CASE Replaces
    BY <1>1 DEF Replaces, Kind, ReplaceUi, Kinds, Lists
<1>2. CASE panel.kind # "none" /\ Redraws
    BY <1>2 DEF Redraws, Kind, RedrawUi, Kinds, Lists
<1>3. CASE panel.kind # "none" /\ Dismisses /\ contact' = NoContact
    BY <1>3 DEF Dismisses, DismissUi, NoPanel, Show
<1>4. CASE panel.kind # "none" /\ Clears
    BY <1>4 DEF Clears, ClearPreview
<1>5. CASE LeavesIt /\ contact' = contact
    BY <1>5 DEF LeavesIt
<1> QED BY <1>1, <1>2, <1>3, <1>4, <1>5

\* A process that starts has a blank page and no panel.
LEMMA RestartIsLayered ==
    ASSUME NEW found, Restarted(found)
    PROVE  Layered'
BY DEF Restarted, Layered, PaperIsRestored, NoneOpen, FreshLayers, NoPanel, Show

\* Steps without a panel: the page's ink lies on the screen.
LEMMA PageActionsLayered ==
    ASSUME Layered, Write \/ AppendTurn \/ AddRow \/ OtherWriter \/ ReplyCleanup
    PROVE  Layered'
<1>1. CASE Write
    BY <1>1 DEF Write, Quiet, Layered, PaperIsRestored, NoneOpen
<1>2. CASE AppendTurn
    <2>1. (\E found : Restarted(found)) \/ UNCHANGED screenVars
        BY <1>2, Zenon DEF AppendTurn
    <2> QED BY <2>1, RestartIsLayered, ScreenStays DEF screenVars, LeavesIt
<1>3. CASE AddRow
    <2>1. (\E found : Restarted(found)) \/ UNCHANGED screenVars
        BY <1>3, Zenon DEF AddRow
    <2> QED BY <2>1, RestartIsLayered, ScreenStays DEF screenVars, LeavesIt
<1>4. CASE OtherWriter \/ ReplyCleanup
    <2>1. UNCHANGED screenVars
        BY <1>4, Zenon DEF OtherWriter, ReplyCleanup
    <2> QED BY <2>1, ScreenStays DEF screenVars, LeavesIt
<1> QED BY <1>1, <1>2, <1>3, <1>4

\* A panel opens over the page.
LEMMA OpensLayered ==
    ASSUME Layered, OpenList \/ OpenSettings \/ OpenFontList \/ AskForBook \/ OpenHelp
    PROVE  Layered'
<1>1. CASE OpenList
    <2>1. PICK kind \in {"History", "Todo", "Task"} :
            Opened(ShowList(kind, 0, Rows(kind, copy)))
        BY <1>1, Zenon DEF OpenList
    <2>2. Replaces
        BY <2>1, ShownHasKind DEF Opened, Replaces, Kind, Kinds, Lists
    <2> QED BY <1>1, <2>2, ScreenStays DEF OpenList
<1>2. CASE OpenSettings
    <2>1. Replaces
        BY <1>2, ShownHasKind DEF OpenSettings, Opened, Replaces, Kind, Kinds
    <2> QED BY <1>2, <2>1, ScreenStays DEF OpenSettings
<1>3. CASE OpenFontList
    <2>1. Replaces
        BY <1>3, ShownHasKind DEF OpenFontList, Opened, Replaces, Kind, Kinds
    <2> QED BY <1>3, <2>1, ScreenStays DEF OpenFontList
<1>4. CASE AskForBook
    <2>1. (\E found : Opened(ShowList("Reader", 0, found)))
          \/ UNCHANGED <<panel, contact, layers>>
        BY <1>4, Zenon DEF AskForBook
    <2>2. Replaces \/ (LeavesIt /\ contact' = contact)
        BY <2>1, ShownHasKind DEF Opened, Replaces, LeavesIt, Kind, Kinds, Lists
    <2> QED BY <1>4, <2>2, ScreenStays DEF AskForBook
<1>5. CASE OpenHelp
    BY <1>5 DEF OpenHelp, ReplaceUi, Show, Layered, PaperIsRestored, NoneOpen
<1> QED BY <1>1, <1>2, <1>3, <1>4, <1>5

\* A contact leaves its mark, which does not outlive it.
LEMMA ContactsLayered ==
    ASSUME Layered, ContactBegins \/ Background
    PROVE  Layered'
<1>1. CASE ContactBegins
    <2>0. PICK tool \in Tools : \E from, preview :
            /\ contact' = [tool |-> tool, from |-> from, preview |-> preview]
            /\ layers' = [layers EXCEPT !.mark = preview # "none"]
        BY <1>1, Zenon DEF ContactBegins, Tools
    <2>1. PICK from, preview :
            /\ contact' = [tool |-> tool, from |-> from, preview |-> preview]
            /\ layers' = [layers EXCEPT !.mark = preview # "none"]
        BY <2>0, Zenon
    <2>2. contact' # NoContact
        BY <2>1 DEF NoContact, Tools
    <2>3. panel' = panel /\ sheet' = sheet
        BY <1>1, Zenon DEF ContactBegins
    <2>4. ~NoneOpen
        BY <1>1, Zenon DEF ContactBegins
    <2> QED BY <2>1, <2>2, <2>3, <2>4 DEF Layered, PaperIsRestored, NoneOpen
<1>2. CASE Background
    BY <1>2, ScreenStays DEF Background, ContactEnds, Clears, Layered, NoneOpen
<1> QED BY <1>1, <1>2

\* The agent's answers change its panel only.
LEMMA ControlLayered ==
    ASSUME Layered, ControlAnswers \/ ControlPolled
    PROVE  Layered'
<1>1. CASE ControlAnswers
    <2>1. UNCHANGED screenVars
        BY <1>1, Zenon DEF ControlAnswers
    <2> QED BY <2>1, ScreenStays DEF screenVars, LeavesIt
<1>2. CASE ControlPolled
    <2>1. sheet' = sheet /\ contact' = contact
        BY <1>2, Zenon DEF ControlPolled
    <2>2. \/ /\ panel.kind = "Pi" /\ panel' = [panel EXCEPT !.status = control[control.rx]]
             /\ layers' = RedrawUi("Pi")
          \/ panel' = panel /\ layers' = layers
        BY <1>2 DEF ControlPolled
    <2>3. CASE panel.kind = "Pi" /\ panel' = [panel EXCEPT !.status = control[control.rx]]
               /\ layers' = RedrawUi("Pi")
        <3>1. Redraws
            BY <2>3 DEF Redraws, Kind, Kinds, Layered
        <3> QED BY <2>1, <2>3, <3>1, ScreenStays
    <2> QED BY <2>1, <2>2, <2>3, ScreenStays DEF LeavesIt
<1> QED BY <1>1, <1>2

\* The end of a contact on a list.
LEMMA ListsLayered ==
    ASSUME Layered, ListGesture \/ CrashInStrike \/ ReaderGesture
    PROVE  Layered'
<1>1. CASE ListGesture
    <2>0. /\ panel.kind \in {"History", "Todo", "Task"}
          /\ contact' = NoContact /\ sheet' = sheet
        BY <1>1 DEF ListGesture, ContactEnds, Lists
    <2>1. PICK action, page : ListAct(action, page)
        BY <1>1, Zenon DEF ListGesture
    <2>2. \/ Clears \/ Dismisses
          \/ \E entries : panel' = Redrawn(entries, page) /\ layers' = RedrawUi(panel.kind)
        BY <2>1, Zenon DEF ListAct, ListDismissed, ListRedrawn, NothingNumbered, Struck,
                           Clears, Dismisses
    <2>3. CASE \E entries : panel' = Redrawn(entries, page) /\ layers' = RedrawUi(panel.kind)
        <3>1. Redraws
            BY <2>0, <2>3, ShownHasKind DEF Redrawn, Redraws, Kind, Kinds, Lists
        <3> QED BY <2>0, <3>1, ScreenStays
    <2> QED BY <2>0, <2>2, <2>3, ScreenStays
<1>2. CASE CrashInStrike
    <2>1. \E found : Restarted(found)
        BY <1>2, Zenon DEF CrashInStrike
    <2> QED BY <2>1, RestartIsLayered
<1>3. CASE ReaderGesture
    <2>0. panel.kind = "Reader" /\ contact' = NoContact /\ sheet' = sheet
        BY <1>3, Zenon DEF ReaderGesture, ContactEnds
    <2>1. \/ Clears \/ Dismisses
          \/ \E page : panel' = ShowList("Reader", page, panel.lines)
                       /\ layers' = RedrawUi("Reader")
        BY <1>3, Zenon DEF ReaderGesture, Clears, Dismisses
    <2>2. CASE \E page : panel' = ShowList("Reader", page, panel.lines)
                         /\ layers' = RedrawUi("Reader")
        <3>1. Redraws
            BY <2>2, ShownHasKind DEF Redraws, Kind, Kinds, Lists
        <3> QED BY <2>0, <3>1, ScreenStays
    <2> QED BY <2>0, <2>1, <2>2, ScreenStays
<1> QED BY <1>1, <1>2, <1>3

\* The guide closes by a tap or by itself, then without a contact.
LEMMA HelpLayered ==
    ASSUME Layered, HelpGesture \/ HelpTimesOut
    PROVE  Layered'
<1>1. /\ panel.kind = "Help" /\ contact' = NoContact /\ sheet' = sheet
      /\ Dismisses \/ Clears
    BY Zenon DEF HelpGesture, HelpTimesOut, ContactEnds, Dismisses, Clears
<1> QED BY <1>1, ScreenStays

\* The settings, which open other panels over themselves, ...
LEMMA SettingsLayered ==
    ASSUME Layered, SettingsGesture
    PROVE  Layered'
<1>1. panel.kind = "Settings" /\ contact' = NoContact /\ sheet' = sheet
    BY Zenon DEF SettingsGesture, ContactEnds
<1>2. \/ Clears \/ Dismisses
      \/ /\ \E values : panel' = [panel EXCEPT !.shown = values]
         /\ layers' = RedrawUi("Settings")
      \/ Nested(Show("Font", 0, <<>>, fonts.use))
      \/ /\ panel' = [Show("Pi", 0, <<>>, Loaded(pi.saved)) EXCEPT !.back = TRUE,
                                                        !.status = "Starting"]
         /\ layers' = ReplaceUi("Pi")
    BY Zenon DEF SettingsGesture, UpdateValues, Clears, Dismisses, Dismissed
<1>3. CASE /\ \E values : panel' = [panel EXCEPT !.shown = values]
           /\ layers' = RedrawUi("Settings")
    <2>1. Redraws
        BY <1>1, <1>3 DEF Redraws, Kind, Kinds, Layered
    <2> QED BY <1>1, <2>1, ScreenStays
<1>4. CASE Nested(Show("Font", 0, <<>>, fonts.use))
    <2>1. Replaces
        BY <1>4, ShownHasKind DEF Nested, Replaces, Kind, Kinds
    <2> QED BY <1>1, <2>1, ScreenStays
<1>5. CASE /\ panel' = [Show("Pi", 0, <<>>, Loaded(pi.saved)) EXCEPT !.back = TRUE,
                                                          !.status = "Starting"]
           /\ layers' = ReplaceUi("Pi")
    <2>1. Replaces
        BY <1>5 DEF Show, Replaces, Kind, Kinds
    <2> QED BY <1>1, <2>1, ScreenStays
<1> QED BY <1>1, <1>2, <1>3, <1>4, <1>5, ScreenStays

\* ... the fonts, which may return to them, ...
LEMMA FontLayered ==
    ASSUME Layered, FontGesture
    PROVE  Layered'
<1>1. panel.kind = "Font" /\ contact' = NoContact /\ sheet' = sheet
    BY Zenon DEF FontGesture, ContactEnds
<1>2. \/ Clears \/ Dismisses \/ FontShown
      \/ /\ panel' = Show("Settings", 0, <<>>, prefs.use) /\ layers' = RedrawUi("Settings")
    BY Zenon DEF FontGesture, Clears, Dismisses, Dismissed
<1>3. CASE FontShown
    <2>1. Redraws
        BY <1>1, <1>3 DEF FontShown, Redraws, Kind, Kinds, Layered
    <2> QED BY <1>1, <2>1, ScreenStays
<1>4. CASE panel' = Show("Settings", 0, <<>>, prefs.use) /\ layers' = RedrawUi("Settings")
    <2>1. Redraws
        BY <1>4, ShownHasKind DEF Redraws, Kind, Kinds
    <2> QED BY <1>1, <2>1, ScreenStays
<1> QED BY <1>1, <1>2, <1>3, <1>4, ScreenStays

\* ... and the agent, which always does.
LEMMA PiLayered ==
    ASSUME Layered, PiGesture \/ CrashInBoundary
    PROVE  Layered'
<1>1. CASE CrashInBoundary
    <2>1. \E found : Restarted(found)
        BY <1>1, Zenon DEF CrashInBoundary
    <2> QED BY <2>1, RestartIsLayered
<1>2. CASE PiGesture
    <2>1. panel.kind = "Pi" /\ contact' = NoContact /\ sheet' = sheet
        BY <1>2, Zenon DEF PiGesture, ContactEnds
    <2>2. \/ Clears
          \/ /\ \/ \E values, said : panel' = [panel EXCEPT !.shown = values, !.status = said]
                \/ \E said : panel' = [panel EXCEPT !.status = said]
             /\ layers' = RedrawUi("Pi")
          \/ panel' = Show("Settings", 0, <<>>, prefs.saved) /\ layers' = RedrawUi("Settings")
        BY <1>2, Zenon DEF PiGesture, UpdatePi, Clears
    <2>3. CASE /\ \/ \E values, said : panel' = [panel EXCEPT !.shown = values, !.status = said]
                  \/ \E said : panel' = [panel EXCEPT !.status = said]
               /\ layers' = RedrawUi("Pi")
        <3>1. Redraws
            BY <2>1, <2>3 DEF Redraws, Kind, Kinds, Layered
        <3> QED BY <2>1, <3>1, ScreenStays
    <2>4. CASE panel' = Show("Settings", 0, <<>>, prefs.saved) /\ layers' = RedrawUi("Settings")
        <3>1. Redraws
            BY <2>4, ShownHasKind DEF Redraws, Kind, Kinds
        <3> QED BY <2>1, <3>1, ScreenStays
    <2> QED BY <2>1, <2>2, <2>3, <2>4, ScreenStays
<1> QED BY <1>1, <1>2

\* The layers stay in order through every step.
LEMMA LayeredIsKept == Layered /\ [Next]_vars => Layered'
<1> SUFFICES ASSUME Layered, [Next]_vars PROVE Layered'
    OBVIOUS
<1>1. CASE Crash
    BY <1>1, RestartIsLayered DEF Crash
<1>2. CASE UNCHANGED vars
    <2>1. UNCHANGED screenVars
        BY <1>2, Zenon DEF vars
    <2> QED BY <2>1, ScreenStays DEF screenVars, LeavesIt
<1> QED BY <1>1, <1>2, PageActionsLayered, OpensLayered, ContactsLayered, ControlLayered,
           ListsLayered, HelpLayered, SettingsLayered, FontLayered, PiLayered, Zenon DEF Next

\* The bare page at first.
LEMMA InitLayered == Init => Layered
<1> SUFFICES ASSUME Init PROVE Layered
    OBVIOUS
<1>1. panel = NoPanel /\ contact = NoContact /\ layers = FreshLayers /\ sheet = "blank"
    BY Zenon DEF Init
<1> QED BY <1>1 DEF Layered, PaperIsRestored, NoneOpen, NoPanel, Show, FreshLayers

\* What is seen is the top panel, and the page as it was when the last panel
\* goes; a preview lies on the screen only while its contact lasts, through
\* nested panels, answers of the agent, recalls and restarts (ModalLayers).
THEOREM PaperIsAlwaysRestored == Spec => []PaperIsRestored
<1>1. Layered => PaperIsRestored
    BY DEF Layered
<1> QED BY InitLayered, LayeredIsKept, <1>1, PTL DEF Spec

-----------------------------------------------------------------------------
(* The agent's panel shows the answer to the last command.                 *)

\* The strengthening: only the last command's receiver is kept.
Receives ==
    /\ DOMAIN control = {"last", "prev", "rx"} /\ control.rx \in {"none", "last"}
    /\ control.last \in {"idle", "busy"} \cup Answers
    /\ {"kind", "status"} \subseteq DOMAIN panel
    /\ StatusIsOfLastCommand

HasFields(p) == {"kind", "status"} \subseteq DOMAIN p

\* What a handler does to the panel and the command is one of these.
SameStatus   == /\ control' = control /\ HasFields(panel')
                /\ panel'.kind = panel.kind /\ panel'.status = panel.status
AnotherPanel == control' \in {control, Started} /\ HasFields(panel') /\ panel'.kind # "Pi"
Commands     == control' = Started /\ HasFields(panel') /\ panel'.status = "Starting"
SaysOther    == control' = control /\ HasFields(panel')
                /\ panel'.status \in {"Waiting", "StorageError"}

\* None of these shows an answer to an earlier command.
LEMMA StatusStays ==
    ASSUME Receives, SameStatus \/ AnotherPanel \/ Commands \/ SaysOther
    PROVE  Receives'
<1> USE DEF Receives, StatusIsOfLastCommand, HasFields, Answers
<1>1. CASE SameStatus
    BY <1>1 DEF SameStatus
<1>2. CASE AnotherPanel
    BY <1>2 DEF AnotherPanel, Started
<1>3. CASE Commands
    BY <1>3 DEF Commands, Started
<1>4. CASE SaysOther
    BY <1>4 DEF SaysOther
<1> QED BY <1>1, <1>2, <1>3, <1>4

\* A panel that is shown has its kind and a status.
LEMMA ShownHasStatus ==
    ASSUME NEW kind, NEW page, NEW lines, NEW values
    PROVE  /\ HasFields(Show(kind, page, lines, values))
           /\ Show(kind, page, lines, values).kind = kind
           /\ HasFields(ShowList(kind, page, lines))
           /\ ShowList(kind, page, lines).kind = kind
           /\ HasFields(NoPanel) /\ NoPanel.kind = "none"
BY DEF Show, ShowList, NoPanel, HasFields

\* A restart awaits no answer.
LEMMA RestartReceives ==
    ASSUME NEW found, Restarted(found)
    PROVE  Receives'
BY DEF Restarted, Receives, StatusIsOfLastCommand, NoControl, NoPanel, Show, Answers

\* An answer arrives where the panel still says that the command is under way;
\* the panel shows it when it is polled.
LEMMA AnswersReceived ==
    ASSUME Receives, ControlAnswers \/ ControlPolled
    PROVE  Receives'
<1> USE DEF Receives, StatusIsOfLastCommand, Answers
<1>1. CASE ControlAnswers
    <2>1. PICK who \in {"last", "prev"}, answer \in Answers :
            control[who] = "busy" /\ control' = [control EXCEPT ![who] = answer]
        BY <1>1, Zenon DEF ControlAnswers
    <2>2. panel' = panel
        BY <1>1, Zenon DEF ControlAnswers, screenVars
    <2> QED BY <2>1, <2>2
<1>2. CASE ControlPolled
    <2>1. /\ control.rx = "last" /\ control.last # "busy"
          /\ control' = [control EXCEPT !.rx = "none"]
          /\ \/ panel.kind = "Pi" /\ panel' = [panel EXCEPT !.status = control.last]
             \/ panel.kind # "Pi" /\ panel' = panel
        BY <1>2 DEF ControlPolled
    <2>2. CASE panel.kind # "Pi" /\ panel' = panel
        BY <2>1, <2>2
    <2>3. CASE panel.kind = "Pi" /\ panel' = [panel EXCEPT !.status = control.last]
        <3>1. control.last # "Starting"
            OBVIOUS
        <3> QED BY <2>1, <2>3, <3>1
    <2> QED BY <2>1, <2>2, <2>3
<1> QED BY <1>1, <1>2

\* Steps without a panel, and the panels that open over the page, give no
\* command.
LEMMA PagesReceive ==
    ASSUME Receives,
           Write \/ AppendTurn \/ AddRow \/ OtherWriter \/ ReplyCleanup
           \/ OpenList \/ OpenSettings \/ OpenFontList \/ AskForBook \/ OpenHelp
    PROVE  Receives'
<1>1. CASE Write \/ OtherWriter \/ ReplyCleanup
    <2>1. panel' = panel /\ control' = control
        BY <1>1, Zenon DEF Write, Quiet, OtherWriter, ReplyCleanup, screenVars
    <2> QED BY <2>1, StatusStays DEF SameStatus, HasFields, Receives
<1>2. CASE AppendTurn \/ AddRow
    <2>1. (\E found : Restarted(found)) \/ (panel' = panel /\ control' = control)
        BY <1>2, Zenon DEF AppendTurn, AddRow, screenVars
    <2> QED BY <2>1, RestartReceives, StatusStays DEF SameStatus, HasFields, Receives
<1>3. CASE OpenList \/ OpenSettings \/ OpenFontList \/ AskForBook \/ OpenHelp
    <2>1. control' = control
        BY <1>3, Zenon DEF OpenList, OpenSettings, OpenFontList, AskForBook, OpenHelp, Opened
    <2>2. \/ \E kind \in {"History", "Todo", "Task"} :
               panel' = ShowList(kind, 0, Rows(kind, copy))
          \/ \E found : panel' = ShowList("Reader", 0, found)
          \/ panel' = Show("Settings", 0, <<>>, prefs.use)
          \/ panel' = Show("Font", 0, <<>>, fonts.use)
          \/ panel' = Show("Help", 0, <<>>, DefaultValues)
          \/ panel' = panel
        BY <1>3, Zenon DEF OpenList, OpenSettings, OpenFontList, AskForBook, OpenHelp, Opened
    <2>3. (HasFields(panel') /\ panel'.kind # "Pi") \/ panel' = panel
        <3>1. CASE \E kind \in {"History", "Todo", "Task"} :
                     panel' = ShowList(kind, 0, Rows(kind, copy))
            <4>1. PICK kind \in {"History", "Todo", "Task"} :
                     panel' = ShowList(kind, 0, Rows(kind, copy))
                BY <3>1
            <4>2. HasFields(panel') /\ panel'.kind = kind
                BY <4>1, ShownHasStatus, Zenon
            <4> QED BY <4>2
        <3>2. CASE \E found : panel' = ShowList("Reader", 0, found)
            <4>1. PICK found : panel' = ShowList("Reader", 0, found)
                BY <3>2
            <4>2. HasFields(panel') /\ panel'.kind = "Reader"
                BY <4>1, ShownHasStatus
            <4> QED BY <4>2
        <3>3. CASE \E kind \in {"Settings", "Font", "Help"} :
                     \E values : panel' = Show(kind, 0, <<>>, values)
            <4>0. PICK kind \in {"Settings", "Font", "Help"} :
                     \E values : panel' = Show(kind, 0, <<>>, values)
                BY <3>3
            <4>1. PICK values : panel' = Show(kind, 0, <<>>, values)
                BY <4>0
            <4>2. HasFields(panel') /\ panel'.kind = kind
                BY <4>1 DEF Show, HasFields
            <4> QED BY <4>2
        <3> QED BY <2>2, <3>1, <3>2, <3>3
    <2>4. AnotherPanel \/ SameStatus
        BY <2>1, <2>3 DEF AnotherPanel, SameStatus, HasFields, Receives
    <2> QED BY <2>4, StatusStays
<1> QED BY <1>1, <1>2, <1>3

\* A struck page starts a command too, which a list does not show.
LEMMA ListsReceive ==
    ASSUME Receives, ListGesture \/ CrashInStrike \/ ReaderGesture
    PROVE  Receives'
<1>1. CASE ListGesture
    <2>0. panel.kind \in {"History", "Todo", "Task"}
        BY <1>1, Zenon DEF ListGesture, Lists
    <2>1. PICK action, page : ListAct(action, page)
        BY <1>1, Zenon DEF ListGesture
    <2>2. /\ control' \in {control, Started}
          /\ panel' = panel \/ panel' = NoPanel \/ \E entries : panel' = Redrawn(entries, page)
        <3> USE <2>1 DEF ListAct
        <3>1. CASE action.do = "nothing"
                   /\ layers' = ClearPreview /\ UNCHANGED <<storeVars, control, panel>>
            BY <3>1, Zenon
        <3>2. CASE ListDismissed
            BY <3>2, Zenon DEF ListDismissed
        <3>3. CASE ListRedrawn(page)
            BY <3>3, Zenon DEF ListRedrawn
        <3>4. CASE NothingNumbered(page)
            BY <3>4, Zenon DEF NothingNumbered
        <3>5. CASE \E o : Struck(o, page)
            <4>1. PICK o : Struck(o, page)
                BY <3>5
            <4>2. control' = Started \/ control' = control
                BY <4>1 DEF Struck
            <4> QED BY <4>1, <4>2, Zenon DEF Struck
        <3> QED BY <3>1, <3>2, <3>3, <3>4, <3>5, Zenon
    <2>3. HasFields(panel') /\ panel'.kind # "Pi"
        BY <2>0, <2>2, ShownHasStatus DEF Redrawn, Receives, HasFields
    <2>4. AnotherPanel
        BY <2>2, <2>3 DEF AnotherPanel
    <2> QED BY <2>4, StatusStays
<1>2. CASE CrashInStrike
    <2>1. \E found : Restarted(found)
        BY <1>2, Zenon DEF CrashInStrike
    <2> QED BY <2>1, RestartReceives
<1>3. CASE ReaderGesture
    <2>1. /\ panel.kind = "Reader" /\ control' = control
          /\ \/ panel' = panel \/ panel' = NoPanel
             \/ \E page : panel' = ShowList("Reader", page, panel.lines)
        BY <1>3, Zenon DEF ReaderGesture
    <2>2. HasFields(panel') /\ panel'.kind # "Pi"
        BY <2>1, ShownHasStatus DEF Receives, HasFields
    <2>3. AnotherPanel
        BY <2>1, <2>2 DEF AnotherPanel
    <2> QED BY <2>3, StatusStays
<1> QED BY <1>1, <1>2, <1>3

\* A contact that begins, and the panels above the agent's.
LEMMA PanelsReceive ==
    ASSUME Receives,
           ContactBegins \/ Background \/ HelpGesture \/ HelpTimesOut \/ FontGesture
    PROVE  Receives'
<1>1. CASE ContactBegins \/ Background
    <2>1. panel' = panel /\ control' = control
        BY <1>1, Zenon DEF ContactBegins, Background
    <2> QED BY <2>1, StatusStays DEF SameStatus, HasFields, Receives
<1>2. CASE HelpGesture \/ HelpTimesOut
    <2>1. control' = control /\ (panel' = panel \/ panel' = NoPanel)
        BY <1>2, Zenon DEF HelpGesture, HelpTimesOut
    <2>2. SameStatus \/ AnotherPanel
        BY <2>1, ShownHasStatus DEF SameStatus, AnotherPanel, HasFields, Receives
    <2> QED BY <2>2, StatusStays
<1>3. CASE FontGesture
    <2>1. /\ control' = control
          /\ \/ panel' = panel \/ panel' = NoPanel
             \/ panel' = [panel EXCEPT !.shown = fonts'.use]
             \/ panel' = Show("Settings", 0, <<>>, prefs.use)
        BY <1>3, Zenon DEF FontGesture, FontShown, Dismissed
    <2>2. SameStatus \/ AnotherPanel
        BY <2>1, ShownHasStatus DEF SameStatus, AnotherPanel, HasFields, Receives
    <2> QED BY <2>2, StatusStays
<1> QED BY <1>1, <1>2, <1>3

\* The agent's panel gives a command when it opens.
LEMMA SettingsReceive ==
    ASSUME Receives, SettingsGesture
    PROVE  Receives'
<1>1. \/ /\ control' = Started
         /\ panel' = [Show("Pi", 0, <<>>, Loaded(pi.saved)) EXCEPT !.back = TRUE,
                                                             !.status = "Starting"]
      \/ /\ control' = control
         /\ \/ panel' = panel \/ panel' = NoPanel
            \/ \E values : panel' = [panel EXCEPT !.shown = values]
            \/ panel' = [Show("Font", 0, <<>>, fonts.use) EXCEPT !.back = TRUE]
    BY Zenon DEF SettingsGesture, UpdateValues, Nested, Dismissed
<1>2. CASE /\ control' = Started
           /\ panel' = [Show("Pi", 0, <<>>, Loaded(pi.saved)) EXCEPT !.back = TRUE,
                                                               !.status = "Starting"]
    <2>1. Commands
        BY <1>2 DEF Commands, Show, HasFields
    <2> QED BY <2>1, StatusStays
<1>3. CASE control' = control /\ (panel' = panel
                                  \/ \E values : panel' = [panel EXCEPT !.shown = values])
    <2>1. SameStatus
        BY <1>3 DEF SameStatus, HasFields, Receives
    <2> QED BY <2>1, StatusStays
<1>4. CASE control' = control /\ (panel' = NoPanel
                    \/ panel' = [Show("Font", 0, <<>>, fonts.use) EXCEPT !.back = TRUE])
    <2>1. AnotherPanel
        BY <1>4, ShownHasStatus DEF AnotherPanel, Show, HasFields
    <2> QED BY <2>1, StatusStays
<1> QED BY <1>1, <1>2, <1>3, <1>4

\* What is asked of the agent there: every card that changes something is a
\* command, except for a session whose boundary could not be kept.
LEMMA PiReceives ==
    ASSUME Receives, PiGesture \/ CrashInBoundary
    PROVE  Receives'
<1>1. CASE CrashInBoundary
    <2>1. \E found : Restarted(found)
        BY <1>1, Zenon DEF CrashInBoundary
    <2> QED BY <2>1, RestartReceives
<1>2. CASE PiGesture
    <2> DEFINE Says(said) ==
            \/ panel' = [panel EXCEPT !.status = said]
            \/ \E values : panel' = [panel EXCEPT !.shown = values, !.status = said]
    <2>1. \/ control' = Started /\ Says("Starting")
          \/ /\ control' = control
             /\ \/ Says("StorageError") \/ Says("Waiting")
                \/ panel' = panel \/ panel' = Show("Settings", 0, <<>>, prefs.saved)
        <3>1. PICK do : \/ /\ UpdatePi(Chosen(do)) /\ control' = Started
                        \/ /\ panel' = [panel EXCEPT !.status = "Starting"]
                           /\ control' = Started
                        \/ \E o \in BeginSession(disk, copy) :
                             /\ panel' = [panel EXCEPT !.status = IF o.said = "ok" THEN "Starting"
                                                                  ELSE "StorageError"]
                             /\ control' = IF o.said = "ok" THEN Started ELSE control
                        \/ /\ panel' = Show("Settings", 0, <<>>, prefs.saved)
                           /\ control' = control
                        \/ /\ panel' = [panel EXCEPT !.shown = Loaded(pi.saved),
                                                     !.status = "Waiting"]
                           /\ control' = control
                        \/ panel' = panel /\ control' = control
            BY <1>2, Zenon DEF PiGesture
        <3>2. CASE UpdatePi(Chosen(do)) /\ control' = Started
            BY <3>2, Zenon DEF UpdatePi
        <3>3. CASE \E o \in BeginSession(disk, copy) :
                     /\ panel' = [panel EXCEPT !.status = IF o.said = "ok" THEN "Starting"
                                                          ELSE "StorageError"]
                     /\ control' = IF o.said = "ok" THEN Started ELSE control
            <4>1. PICK o \in BeginSession(disk, copy) :
                     /\ panel' = [panel EXCEPT !.status = IF o.said = "ok" THEN "Starting"
                                                          ELSE "StorageError"]
                     /\ control' = IF o.said = "ok" THEN Started ELSE control
                BY <3>3
            <4>2. CASE o.said = "ok"
                BY <4>1, <4>2
            <4>3. CASE o.said # "ok"
                BY <4>1, <4>3
            <4> QED BY <4>2, <4>3
        <3> QED BY <3>1, <3>2, <3>3, Zenon
    <2>2. CASE control' = Started /\ Says("Starting")
        <3>1. Commands
            BY <2>2 DEF Commands, HasFields, Receives
        <3> QED BY <3>1, StatusStays
    <2>3. CASE control' = control /\ (Says("StorageError") \/ Says("Waiting"))
        <3>1. SaysOther
            BY <2>3 DEF SaysOther, HasFields, Receives
        <3> QED BY <3>1, StatusStays
    <2>4. CASE control' = control
               /\ (panel' = panel \/ panel' = Show("Settings", 0, <<>>, prefs.saved))
        <3>1. SameStatus \/ AnotherPanel
            BY <2>4, ShownHasStatus DEF SameStatus, AnotherPanel, HasFields, Receives
        <3> QED BY <3>1, StatusStays
    <2> HIDE DEF Says
    <2> QED BY <2>1, <2>2, <2>3, <2>4
<1> QED BY <1>1, <1>2

\* An answer shown on the agent's panel is that of the last command given, and
\* a command that is shown as under way is the one whose answer is awaited
\* (start_agent_control drops the receiver of an earlier command).
THEOREM StatusIsAlwaysOfLastCommand == Spec => []StatusIsOfLastCommand
<1>1. Init => Receives
    <2> SUFFICES ASSUME Init PROVE Receives
        OBVIOUS
    <2>1. control = NoControl /\ panel = NoPanel
        BY Zenon DEF Init
    <2> QED BY <2>1 DEF Receives, StatusIsOfLastCommand, NoControl, NoPanel, Show, Answers
<1>2. Receives /\ [Next]_vars => Receives'
    <2> SUFFICES ASSUME Receives, [Next]_vars PROVE Receives'
        OBVIOUS
    <2>1. CASE Crash
        BY <2>1, RestartReceives DEF Crash
    <2>2. CASE UNCHANGED vars
        <3>1. panel' = panel /\ control' = control
            BY <2>2, Zenon DEF vars, screenVars
        <3> QED BY <3>1, StatusStays DEF SameStatus, HasFields, Receives
    <2> QED BY <2>1, <2>2, PagesReceive, AnswersReceived, ListsReceive, PanelsReceive,
               SettingsReceive, PiReceives, Zenon DEF Next
<1>3. Receives => StatusIsOfLastCommand
    BY DEF Receives
<1> QED BY <1>1, <1>2, <1>3, PTL DEF Spec

-----------------------------------------------------------------------------
(* What is chosen is in effect, and is found again.                        *)

\* The parts of the strengthening: each file of choices with what is in effect,
\* what a panel of settings shows, and which rows of the fonts there are.
PrefsInv ==
    /\ prefs \in [use : Values, saved : Values, debt : 0..MaxEvery]
    /\ "settings" \notin unsaved => prefs.use = prefs.saved
    /\ DebtBelowInterval

FontsInv ==
    /\ fonts \in [use : FontValues, saved : FontValues]
    /\ "font" \notin unsaved => fonts.use.face = fonts.saved.face
    /\ "scales" \notin unsaved => fonts.use.scale = fonts.saved.scale

PiInv == pi \in [saved : PiStored, profile : PiValues] /\ pi.profile = Loaded(pi.saved)

HasShown(p) == {"kind", "shown"} \subseteq DOMAIN p

Reflects ==
    /\ HasShown(panel)
    /\ panel.kind = "Settings" =>
         panel.shown \in Values /\ ("settings" \notin unsaved => panel.shown = prefs.use)
    /\ panel.kind = "Font" => panel.shown = fonts.use
    /\ panel.kind = "Pi" =>
         panel.shown \in PiStored /\ ("pi" \notin unsaved => Loaded(panel.shown) = pi.profile)

FaceRows == contact.from.place \in {"face", "scale"} => contact.from.row \in Faces

ChoiceInv == PrefsInv /\ FontsInv /\ PiInv /\ Reflects /\ FaceRows

\* A loaded file has a level its provider knows, and loading changes no such
\* file (PiThinking::normalized).
LEMMA LoadedIsKnown ==
    ASSUME NEW v \in PiStored
    PROVE  Loaded(v) \in PiValues /\ (v \in PiValues => Loaded(v) = v)
<1>1. v.provider \in {"DeepSeek", "OpenAi"} /\ v.thinking \in {"off", "high", "xhigh", "max"}
      /\ v.tools \in BOOLEAN
    BY DEF PiStored
<1>2. Range(Levels(v.provider)) = (IF v.provider = "DeepSeek" THEN {"off", "high", "max"}
                                                             ELSE {"off", "xhigh", "max"})
    BY <1>1 DEF Range, Levels
<1>3. Normalized(v.thinking, v.provider) \in Range(Levels(v.provider))
      /\ Normalized(v.thinking, v.provider) \in {"off", "high", "xhigh", "max"}
    BY <1>1, <1>2 DEF Normalized
<1>4. Loaded(v) = [provider |-> v.provider, tools |-> v.tools,
                   thinking |-> Normalized(v.thinking, v.provider)]
    BY DEF Loaded, PiStored
<1>5. Loaded(v) \in PiStored /\ Loaded(v).thinking \in Range(Levels(Loaded(v).provider))
    BY <1>1, <1>3, <1>4 DEF PiStored
<1>6. v \in PiValues => Normalized(v.thinking, v.provider) = v.thinking
    BY DEF PiValues, Normalized
<1> QED BY <1>4, <1>5, <1>6 DEF PiValues, PiStored

\* PiThinking::next stays among the levels there are.
LEMMA LevelsFollow ==
    ASSUME NEW thinking, NEW provider
    PROVE  NextLevel(thinking, provider) \in {"off", "high", "xhigh", "max"}
<1> DEFINE levels == Levels(provider)
           at     == CHOOSE i \in DOMAIN levels : levels[i] = thinking
<1>1. /\ Len(levels) = 3 /\ DOMAIN levels = 1..3
      /\ \A i \in 1..3 : levels[i] \in {"off", "high", "xhigh", "max"}
    BY DEF Levels
<1>2. CASE thinking \notin Range(levels)
    BY <1>2 DEF NextLevel
<1>3. CASE thinking \in Range(levels)
    <2>1. \E i \in DOMAIN levels : levels[i] = thinking
        BY <1>3 DEF Range
    <2>2. at \in 1..3
        BY <1>1, <2>1
    <2>3. NextLevel(thinking, provider) = levels[(at % Len(levels)) + 1]
        BY <1>3, Zenon DEF NextLevel
    <2> HIDE DEF at, levels
    <2>4. (at % 3) + 1 \in 1..3
        BY <2>2
    <2> QED BY <1>1, <2>3, <2>4
<1> QED BY <1>2, <1>3

\* A restart puts into effect what was saved.
LEMMA RestartKeepsChoices ==
    ASSUME ChoiceInv, NEW found, Restarted(found)
    PROVE  ChoiceInv'
<1>1. /\ prefs' = [use |-> prefs.saved, saved |-> prefs.saved, debt |-> 0]
      /\ fonts' = [use |-> fonts.saved, saved |-> fonts.saved]
      /\ pi' = [saved |-> pi.saved, profile |-> Loaded(pi.saved)]
      /\ panel' = NoPanel /\ contact' = NoContact /\ unsaved' = {}
    BY Zenon DEF Restarted, PrefsOpened, FontsOpened
<1>2. PrefsInv'
    <2>1. prefs.saved \in Values /\ prefs.saved.every \in Nat /\ 0 \in 0..MaxEvery
        BY DEF ChoiceInv, PrefsInv, Values
    <2> QED BY <1>1, <2>1 DEF PrefsInv, DebtBelowInterval
<1>3. FontsInv'
    BY <1>1 DEF ChoiceInv, FontsInv
<1>4. PiInv'
    BY <1>1, LoadedIsKnown DEF ChoiceInv, PiInv
<1>5. Reflects'
    BY <1>1 DEF Reflects, HasShown, NoPanel, Show
<1>6. FaceRows'
    BY <1>1 DEF FaceRows, NoContact, Blank, Spot
<1> QED BY <1>2, <1>3, <1>4, <1>5, <1>6 DEF ChoiceInv

\* A step that chooses nothing: the panel goes on showing what it showed, shows
\* what is in effect, or shows no choice at all.
SameShown    == HasShown(panel') /\ panel'.kind = panel.kind /\ panel'.shown = panel.shown
NoChoice     == HasShown(panel') /\ panel'.kind \notin {"Settings", "Font", "Pi"}
ShowsPrefs   == HasShown(panel') /\ panel'.kind = "Settings" /\ panel'.shown = prefs.use
ShowsFonts   == HasShown(panel') /\ panel'.kind = "Font" /\ panel'.shown = fonts.use
ShowsProfile == HasShown(panel') /\ panel'.kind = "Pi" /\ panel'.shown = Loaded(pi.saved)

\* None of these shows a choice that is not in effect.
LEMMA PanelsReflect ==
    ASSUME ChoiceInv, UNCHANGED choiceVars,
           SameShown \/ NoChoice \/ ShowsPrefs \/ ShowsFonts \/ ShowsProfile
    PROVE  PrefsInv' /\ FontsInv' /\ PiInv' /\ Reflects'
<1>1. prefs' = prefs /\ fonts' = fonts /\ pi' = pi /\ unsaved' = unsaved
    BY DEF choiceVars
<1>2. PrefsInv' /\ FontsInv' /\ PiInv'
    BY <1>1 DEF ChoiceInv, PrefsInv, FontsInv, PiInv, DebtBelowInterval
<1>3. prefs.use \in Values /\ pi.saved \in PiStored /\ pi.profile = Loaded(pi.saved)
    BY DEF ChoiceInv, PrefsInv, PiInv
<1>4. Loaded(pi.saved) \in PiStored /\ Loaded(Loaded(pi.saved)) = Loaded(pi.saved)
    BY <1>3, LoadedIsKnown DEF PiValues
<1>5. CASE SameShown
    BY <1>1, <1>2, <1>5 DEF SameShown, ChoiceInv, Reflects, HasShown
<1>6. CASE NoChoice
    BY <1>1, <1>2, <1>6 DEF NoChoice, Reflects, HasShown
<1>7. CASE ShowsPrefs
    BY <1>1, <1>2, <1>3, <1>7 DEF ShowsPrefs, Reflects, HasShown
<1>8. CASE ShowsFonts
    BY <1>1, <1>2, <1>8 DEF ShowsFonts, Reflects, HasShown
<1>9. CASE ShowsProfile
    BY <1>1, <1>2, <1>3, <1>4, <1>9 DEF ShowsProfile, Reflects, HasShown
<1> QED BY <1>2, <1>5, <1>6, <1>7, <1>8, <1>9

\* The faces and scales a contact can touch are those of the fonts there are.
LEMMA FaceCards == \A spot \in Spots : spot.place \in {"face", "scale"} => spot.row \in Faces
<1>1. CASE panel.kind \in Lists
    <2>1. \A spot \in ListSpots(panel.page, panel.lines, panel.kind) :
            spot.place \in {"blank", "card", "text", "box"}
        BY DEF ListSpots, Spot, Blank
    <2> QED BY <1>1, <2>1 DEF Spots
<1>2. CASE panel.kind \notin Lists
    <2>1. \A spot \in Cards : spot.place \in {"face", "scale"} => spot.row \in Faces
        BY DEF Cards, Spot, Blank
    <2> QED BY <1>2, <2>1 DEF Spots
<1> QED BY <1>1, <1>2

\* A contact on a face or a size names a font there is.
LEMMA FaceRowsStay == FaceRows /\ [Next]_vars => FaceRows'
<1> SUFFICES ASSUME FaceRows, [Next]_vars PROVE FaceRows'
    OBVIOUS
<1>1. CASE contact' = contact
    BY <1>1 DEF FaceRows
<1>2. CASE contact' = NoContact
    BY <1>2 DEF FaceRows, NoContact, Blank, Spot
<1>3. CASE contact'.from \in Spots
    BY <1>3, FaceCards DEF FaceRows
<1> QED BY <1>1, <1>2, <1>3, ContactsStay

\* A panel that is shown has its kind and its values.
LEMMA ShownAreShown ==
    ASSUME NEW kind, NEW page, NEW lines, NEW values
    PROVE  /\ HasShown(Show(kind, page, lines, values))
           /\ Show(kind, page, lines, values).kind = kind
           /\ Show(kind, page, lines, values).shown = values
           /\ HasShown([Show(kind, page, lines, values) EXCEPT !.back = TRUE])
           /\ [Show(kind, page, lines, values) EXCEPT !.back = TRUE].kind = kind
           /\ [Show(kind, page, lines, values) EXCEPT !.back = TRUE].shown = values
           /\ HasShown(ShowList(kind, page, lines)) /\ ShowList(kind, page, lines).kind = kind
           /\ HasShown(NoPanel) /\ NoPanel.kind = "none"
BY DEF Show, ShowList, NoPanel, HasShown

\* The page, and the panels that open over it.
LEMMA PagesReflect ==
    ASSUME ChoiceInv, FaceRows',
           Write \/ AppendTurn \/ AddRow \/ OtherWriter
           \/ OpenList \/ OpenSettings \/ OpenFontList \/ AskForBook \/ OpenHelp
    PROVE  ChoiceInv'
<1>0. HasShown(panel)
    BY DEF ChoiceInv, Reflects
<1>1. CASE Write \/ OtherWriter
    <2>1. panel' = panel /\ UNCHANGED choiceVars
        BY <1>1, Zenon DEF Write, Quiet, OtherWriter, screenVars
    <2> QED BY <1>0, <2>1, PanelsReflect DEF SameShown, ChoiceInv
<1>2. CASE AppendTurn \/ AddRow
    <2>1. (\E found : Restarted(found)) \/ (panel' = panel /\ UNCHANGED choiceVars)
        BY <1>2, Zenon DEF AppendTurn, AddRow, screenVars
    <2> QED BY <1>0, <2>1, PanelsReflect, RestartKeepsChoices DEF SameShown, ChoiceInv
<1>3. CASE OpenList
    <2>1. PICK kind \in {"History", "Todo", "Task"} :
            Opened(ShowList(kind, 0, Rows(kind, copy)))
        BY <1>3, Zenon DEF OpenList
    <2>2. NoChoice /\ UNCHANGED choiceVars
        BY <2>1, ShownAreShown DEF Opened, NoChoice
    <2> QED BY <2>2, PanelsReflect DEF ChoiceInv
<1>4. CASE OpenSettings
    <2>1. ShowsPrefs /\ UNCHANGED choiceVars
        BY <1>4, ShownAreShown DEF OpenSettings, Opened, ShowsPrefs, HasShown
    <2> QED BY <2>1, PanelsReflect DEF ChoiceInv
<1>5. CASE OpenFontList
    <2>1. ShowsFonts /\ UNCHANGED choiceVars
        BY <1>5, ShownAreShown DEF OpenFontList, Opened, ShowsFonts, HasShown
    <2> QED BY <2>1, PanelsReflect DEF ChoiceInv
<1>6. CASE AskForBook
    <2>1. (\E found : Opened(ShowList("Reader", 0, found)))
          \/ UNCHANGED <<panel, choiceVars>>
        BY <1>6, Zenon DEF AskForBook
    <2>2. CASE \E found : Opened(ShowList("Reader", 0, found))
        <3>1. NoChoice /\ UNCHANGED choiceVars
            BY <2>2, ShownAreShown DEF Opened, NoChoice, HasShown
        <3> QED BY <3>1, PanelsReflect DEF ChoiceInv
    <2>3. CASE UNCHANGED <<panel, choiceVars>>
        BY <1>0, <2>3, PanelsReflect DEF SameShown, ChoiceInv
    <2> QED BY <2>1, <2>2, <2>3
<1>7. CASE OpenHelp
    <2>1. NoChoice /\ UNCHANGED choiceVars
        BY <1>7, ShownAreShown DEF OpenHelp, NoChoice, HasShown
    <2> QED BY <2>1, PanelsReflect DEF ChoiceInv
<1> QED BY <1>1, <1>2, <1>3, <1>4, <1>5, <1>6, <1>7

\* Contacts, the agent's answers, the lists and the guide.
LEMMA ListsReflect ==
    ASSUME ChoiceInv, FaceRows',
           ContactBegins \/ Background \/ ControlAnswers \/ ControlPolled
           \/ ListGesture \/ CrashInStrike \/ ReaderGesture \/ HelpGesture \/ HelpTimesOut
    PROVE  ChoiceInv'
<1>0. HasShown(panel)
    BY DEF ChoiceInv, Reflects
<1>1. CASE ContactBegins \/ Background \/ ControlAnswers
    <2>1. panel' = panel /\ UNCHANGED choiceVars
        BY <1>1, Zenon DEF ContactBegins, Background, ControlAnswers, screenVars
    <2> QED BY <1>0, <2>1, PanelsReflect DEF SameShown, ChoiceInv
<1>2. CASE ControlPolled
    <2>1. UNCHANGED choiceVars
        BY <1>2, Zenon DEF ControlPolled
    <2>2. (\E said : panel' = [panel EXCEPT !.status = said]) \/ panel' = panel
        BY <1>2, Zenon DEF ControlPolled
    <2>3. SameShown
        BY <1>0, <2>2 DEF SameShown, HasShown
    <2> QED BY <2>1, <2>3, PanelsReflect DEF ChoiceInv
<1>3. CASE ListGesture
    <2>0. panel.kind \in {"History", "Todo", "Task"} /\ UNCHANGED choiceVars
        BY <1>3, Zenon DEF ListGesture, Lists
    <2>1. PICK action, page : ListAct(action, page)
        BY <1>3, Zenon DEF ListGesture
    <2>2. panel' = panel \/ panel' = NoPanel \/ \E entries : panel' = Redrawn(entries, page)
        BY <2>1, Zenon DEF ListAct, ListDismissed, ListRedrawn, NothingNumbered, Struck
    <2>3. NoChoice
        BY <1>0, <2>0, <2>2, ShownAreShown DEF Redrawn, NoChoice, HasShown
    <2> QED BY <2>0, <2>3, PanelsReflect DEF ChoiceInv
<1>4. CASE CrashInStrike
    <2>1. \E found : Restarted(found)
        BY <1>4, Zenon DEF CrashInStrike
    <2> QED BY <2>1, RestartKeepsChoices
<1>5. CASE ReaderGesture
    <2>1. /\ panel.kind = "Reader" /\ UNCHANGED choiceVars
          /\ \/ panel' = panel \/ panel' = NoPanel
             \/ \E page : panel' = ShowList("Reader", page, panel.lines)
        BY <1>5, Zenon DEF ReaderGesture
    <2>2. NoChoice
        BY <1>0, <2>1, ShownAreShown DEF NoChoice, HasShown
    <2> QED BY <2>1, <2>2, PanelsReflect DEF ChoiceInv
<1>6. CASE HelpGesture \/ HelpTimesOut
    <2>1. /\ panel.kind = "Help" /\ UNCHANGED choiceVars
          /\ panel' = panel \/ panel' = NoPanel
        BY <1>6, Zenon DEF HelpGesture, HelpTimesOut
    <2>2. NoChoice
        BY <1>0, <2>1, ShownAreShown DEF NoChoice
    <2> QED BY <2>1, <2>2, PanelsReflect DEF ChoiceInv
<1> QED BY <1>1, <1>2, <1>3, <1>4, <1>5, <1>6

\* Counting a reply: the debt stays below the interval (next_reply_cleanup_intent).
LEMMA CleanupKeepsChoices ==
    ASSUME ChoiceInv, FaceRows', ReplyCleanup
    PROVE  ChoiceInv'
<1>1. PICK debt \in {NextDebt(prefs.debt, prefs.use.every), 0} :
        prefs' = [prefs EXCEPT !.debt = debt]
    BY Zenon DEF ReplyCleanup
<1>2. fonts' = fonts /\ pi' = pi /\ unsaved' = unsaved /\ panel' = panel
    BY Zenon DEF ReplyCleanup, screenVars
<1>3. /\ prefs.use \in Values /\ prefs.use.every \in 0..MaxEvery /\ prefs.debt \in 0..MaxEvery
      /\ prefs.use.every > 0 => prefs.debt < prefs.use.every
    BY DEF ChoiceInv, PrefsInv, Values, DebtBelowInterval
<1>4. /\ debt \in 0..MaxEvery
      /\ prefs.use.every > 0 => debt < prefs.use.every
    BY <1>3 DEF NextDebt
<1>5. PrefsInv'
    BY <1>1, <1>2, <1>4 DEF ChoiceInv, PrefsInv, DebtBelowInterval
<1>6. FontsInv' /\ PiInv'
    BY <1>2 DEF ChoiceInv, FontsInv, PiInv
<1>7. Reflects'
    BY <1>1, <1>2 DEF ChoiceInv, PrefsInv, Reflects, HasShown
<1> QED BY <1>5, <1>6, <1>7 DEF ChoiceInv

\* update_values: a failed write leaves the old file and the new choice, and
\* another interval starts without a debt.
LEMMA UpdateKeepsChoices ==
    ASSUME ChoiceInv, panel.kind = "Settings", NEW values \in Values, UpdateValues(values)
    PROVE  PrefsInv' /\ FontsInv' /\ PiInv' /\ Reflects'
<1>1. /\ fonts' = fonts /\ pi' = pi /\ panel' = [panel EXCEPT !.shown = values]
      /\ \/ /\ unsaved' = unsaved \ {"settings"}
            /\ prefs' = [use |-> values, saved |-> values, debt |-> ReplacedDebt(values)]
         \/ /\ unsaved' = unsaved \cup {"settings"}
            /\ prefs' = [prefs EXCEPT !.use = values, !.debt = ReplacedDebt(values)]
    BY Zenon DEF UpdateValues, Wrote, FailedToWrite
<1>2. /\ prefs \in [use : Values, saved : Values, debt : 0..MaxEvery]
      /\ prefs.use.every > 0 => prefs.debt < prefs.use.every
    BY DEF ChoiceInv, PrefsInv, DebtBelowInterval
<1>3. /\ ReplacedDebt(values) \in 0..MaxEvery
      /\ values.every > 0 => ReplacedDebt(values) < values.every
    BY <1>2 DEF ReplacedDebt, Values
<1>4. PrefsInv'
    <2>1. CASE prefs' = [use |-> values, saved |-> values, debt |-> ReplacedDebt(values)]
        BY <1>3, <2>1 DEF PrefsInv, DebtBelowInterval
    <2>2. CASE /\ "settings" \in unsaved'
               /\ prefs' = [prefs EXCEPT !.use = values, !.debt = ReplacedDebt(values)]
        <3>1. prefs' = [use |-> values, saved |-> prefs.saved, debt |-> ReplacedDebt(values)]
            BY <1>2, <2>2
        <3> QED BY <1>2, <1>3, <2>2, <3>1 DEF PrefsInv, DebtBelowInterval
    <2> QED BY <1>1, <2>1, <2>2
<1>5. FontsInv' /\ PiInv'
    BY <1>1 DEF ChoiceInv, FontsInv, PiInv
<1>6. Reflects'
    BY <1>1, <1>2 DEF ChoiceInv, Reflects, HasShown
<1> QED BY <1>4, <1>5, <1>6

\* finish_settings_stroke
LEMMA SettingsKeepChoices ==
    ASSUME ChoiceInv, FaceRows', SettingsGesture
    PROVE  ChoiceInv'
<1>0. panel.kind = "Settings" /\ HasShown(panel) /\ panel.shown \in Values
      /\ prefs \in [use : Values, saved : Values, debt : 0..MaxEvery]
    BY Zenon DEF SettingsGesture, ChoiceInv, Reflects, PrefsInv
<1>1. CASE UpdateValues([prefs.use EXCEPT !.strong = ~panel.shown.strong])
    <2>1. [prefs.use EXCEPT !.strong = ~panel.shown.strong] \in Values
        BY <1>0 DEF Values
    <2> QED BY <1>0, <1>1, <2>1, UpdateKeepsChoices DEF ChoiceInv
<1>2. CASE \E n \in 0..MaxEvery : UpdateValues([prefs.use EXCEPT !.every = n])
    <2>1. PICK n \in 0..MaxEvery : UpdateValues([prefs.use EXCEPT !.every = n])
        BY <1>2
    <2>2. [prefs.use EXCEPT !.every = n] \in Values
        BY <1>0 DEF Values
    <2> QED BY <1>0, <2>1, <2>2, UpdateKeepsChoices DEF ChoiceInv
<1>3. CASE prefs' = [prefs EXCEPT !.debt = 0] /\ UNCHANGED <<panel, fonts, pi, unsaved>>
    <2>1. PrefsInv'
        BY <1>0, <1>3 DEF ChoiceInv, PrefsInv, DebtBelowInterval, Values
    <2>2. FontsInv' /\ PiInv'
        BY <1>3 DEF ChoiceInv, FontsInv, PiInv
    <2>3. Reflects'
        BY <1>0, <1>3 DEF ChoiceInv, Reflects, HasShown
    <2> QED BY <2>1, <2>2, <2>3 DEF ChoiceInv
<1>4. CASE /\ pi' = [pi EXCEPT !.profile = Loaded(pi.saved)]
           /\ panel' = [Show("Pi", 0, <<>>, Loaded(pi.saved)) EXCEPT !.back = TRUE,
                                                              !.status = "Starting"]
           /\ UNCHANGED <<prefs, fonts, unsaved>>
    <2>1. pi' = pi
        BY <1>4 DEF ChoiceInv, PiInv
    <2>2. ShowsProfile
        BY <1>4 DEF ShowsProfile, Show, HasShown
    <2>3. UNCHANGED choiceVars
        BY <1>4, <2>1 DEF choiceVars
    <2> QED BY <2>2, <2>3, PanelsReflect DEF ChoiceInv
<1>5. CASE /\ UNCHANGED choiceVars
           /\ \/ panel' = [Show("Font", 0, <<>>, fonts.use) EXCEPT !.back = TRUE]
              \/ panel' = NoPanel \/ panel' = panel
              \/ panel' = [panel EXCEPT !.shown = prefs.use]
    <2>1. ShowsFonts \/ NoChoice \/ SameShown \/ ShowsPrefs
        BY <1>0, <1>5 DEF ShowsFonts, NoChoice, SameShown, ShowsPrefs, HasShown, Show, NoPanel
    <2> QED BY <1>5, <2>1, PanelsReflect DEF ChoiceInv
<1> QED BY <1>1, <1>2, <1>3, <1>4, <1>5, Zenon DEF SettingsGesture, Nested, Dismissed

\* select and set_scale_percent: one file each, and the sizes of all fonts in
\* theirs.
LEMMA FontsKeepChoices ==
    ASSUME ChoiceInv, FaceRows', FontGesture
    PROVE  ChoiceInv'
<1>0. /\ panel.kind = "Font" /\ HasShown(panel)
      /\ fonts \in [use : FontValues, saved : FontValues]
    BY Zenon DEF FontGesture, ChoiceInv, Reflects, FontsInv
<1>1. CASE /\ \E do \in CardActions(contact.from) :
                \/ do = "face" /\ SelectFace(contact.from.row)
                \/ /\ do = "scale"
                   /\ \E percent \in Scales : SetScale(contact.from.row, percent)
           /\ FontShown /\ UNCHANGED <<prefs, pi>>
    <2>0. contact.from.row \in Faces
        BY <1>1 DEF ChoiceInv, FaceRows, CardActions
    <2> DEFINE row == contact.from.row
    <2>1. \/ SelectFace(row)
          \/ \E percent \in Scales : SetScale(row, percent)
        BY <1>1, Zenon
    <2> HIDE DEF row
    <2>2. row \in Faces
        BY <2>0 DEF row
    <2>3. /\ FontsInv' /\ fonts'.use \in FontValues
          /\ "settings" \notin unsaved' => "settings" \notin unsaved
          /\ "pi" \notin unsaved' => "pi" \notin unsaved
        <3>1. CASE SelectFace(row)
            BY <1>0, <2>2, <3>1 DEF SelectFace, Wrote, FailedToWrite, ChoiceInv, FontsInv,
                                    FontValues
        <3>2. CASE \E percent \in Scales : SetScale(row, percent)
            <4>1. PICK percent \in Scales : SetScale(row, percent)
                BY <3>2
            <4> DEFINE sizes == [fonts.use.scale EXCEPT ![row] = percent]
            <4>2. /\ fonts.use \in FontValues /\ fonts.saved \in FontValues
                  /\ fonts = [use |-> fonts.use, saved |-> fonts.saved]
                BY <1>0
            <4>3. sizes \in [Faces -> Scales]
                BY <4>2 DEF FontValues
            <4>4. [fonts.use EXCEPT !.scale[row] = percent]
                    = [face |-> fonts.use.face, scale |-> sizes]
                BY <4>2 DEF FontValues
            <4>5. [SavedScales(row) EXCEPT !.scale[row] = percent]
                    = [face |-> fonts.saved.face, scale |-> sizes]
                <5>1. SavedScales(row) = [face |-> fonts.saved.face, scale |-> fonts.use.scale]
                    BY <4>2 DEF FontValues, SavedScales
                <5> QED BY <5>1
            <4> HIDE DEF sizes
            <4>6. \/ /\ unsaved' = unsaved \ {"scales"}
                     /\ fonts' = [use |-> [face |-> fonts.use.face, scale |-> sizes],
                                  saved |-> [face |-> fonts.saved.face, scale |-> sizes]]
                  \/ /\ unsaved' = unsaved \cup {"scales"}
                     /\ fonts' = [use |-> [face |-> fonts.use.face, scale |-> sizes],
                                  saved |-> fonts.saved]
                BY <4>1, <4>2, <4>4, <4>5 DEF SetScale, Wrote, FailedToWrite
            <4> QED BY <4>2, <4>3, <4>6 DEF ChoiceInv, FontsInv, FontValues
        <3> QED BY <2>1, <3>1, <3>2
    <2>4. PrefsInv' /\ PiInv'
        BY <1>1, <2>3 DEF ChoiceInv, PrefsInv, PiInv, DebtBelowInterval
    <2>5. Reflects'
        BY <1>0, <1>1, <2>3 DEF FontShown, Reflects, HasShown
    <2> QED BY <2>3, <2>4, <2>5 DEF ChoiceInv
<1>2. CASE /\ UNCHANGED choiceVars
           /\ \/ FontShown \/ panel' = NoPanel \/ panel' = panel
              \/ panel' = Show("Settings", 0, <<>>, prefs.use)
    <2>1. fonts' = fonts
        BY <1>2 DEF choiceVars
    <2>2. ShowsFonts \/ NoChoice \/ SameShown \/ ShowsPrefs
        BY <1>0, <1>2, <2>1 DEF FontShown, ShowsFonts, NoChoice, SameShown, ShowsPrefs,
                                HasShown, Show, NoPanel
    <2> QED BY <1>2, <2>2, PanelsReflect DEF ChoiceInv
<1> QED BY <1>1, <1>2, Zenon DEF FontGesture, Dismissed

\* A changed card is a file the agent could have written.
LEMMA ChosenIsStored ==
    ASSUME ChoiceInv, NEW do \in {"provider", "thinking", "tools"}
    PROVE  Chosen(do) \in PiStored
<1> DEFINE now      == Loaded(pi.saved)
           provider == Other(panel.shown.provider)
<1>1. now \in PiStored
    BY LoadedIsKnown DEF ChoiceInv, PiInv, PiValues
<1>2. provider \in {"DeepSeek", "OpenAi"}
    BY DEF Other
<1>3. Normalized(now.thinking, provider) \in {"off", "high", "xhigh", "max"}
    BY <1>1 DEF Normalized, PiStored
<1>4. NextLevel(panel.shown.thinking, panel.shown.provider) \in {"off", "high", "xhigh", "max"}
    BY LevelsFollow
<1>5. /\ do = "provider" => Chosen(do) = [now EXCEPT !.provider = provider,
                                          !.thinking = Normalized(now.thinking, provider)]
      /\ do = "thinking" => Chosen(do) = [now EXCEPT
              !.thinking = NextLevel(panel.shown.thinking, panel.shown.provider)]
      /\ do = "tools" => Chosen(do) = [now EXCEPT !.tools = ~panel.shown.tools]
    BY DEF Chosen
<1> HIDE DEF now, provider
<1>6. (~panel.shown.tools) \in BOOLEAN
    OBVIOUS
<1> QED BY <1>1, <1>2, <1>3, <1>4, <1>5, <1>6 DEF PiStored

\* finish_stroke: a write that fails shows the old values, whatever was
\* published.
LEMMA PiKeepsChoices ==
    ASSUME ChoiceInv, FaceRows', PiGesture \/ CrashInBoundary
    PROVE  ChoiceInv'
<1>1. CASE CrashInBoundary
    <2>1. \E found : Restarted(found)
        BY <1>1, Zenon DEF CrashInBoundary
    <2> QED BY <2>1, RestartKeepsChoices
<1>2. CASE PiGesture
    <2>0. panel.kind = "Pi" /\ HasShown(panel) /\ pi.saved \in PiStored
          /\ pi \in [saved : PiStored, profile : PiValues]
        BY <1>2, Zenon DEF PiGesture, ChoiceInv, Reflects, PiInv
    <2>1. CASE /\ \E do \in {"provider", "thinking", "tools"} : UpdatePi(Chosen(do))
               /\ UNCHANGED <<prefs, fonts>>
        <3>1. PICK do \in {"provider", "thinking", "tools"} : UpdatePi(Chosen(do))
            BY <2>1
        <3> DEFINE values == Chosen(do)
        <3>2. values \in PiStored
            BY ChosenIsStored
        <3>3. \/ /\ unsaved' = unsaved \ {"pi"}
                 /\ panel' = [panel EXCEPT !.shown = values, !.status = "Starting"]
                 /\ pi' = [saved |-> values, profile |-> Loaded(values)]
              \/ /\ unsaved' = unsaved \cup {"pi"}
                 /\ panel' = [panel EXCEPT !.shown = Loaded(pi.saved), !.status = "Starting"]
                 /\ \E found \in {pi.saved, values} :
                      pi' = [saved |-> found, profile |-> Loaded(found)]
            BY <3>1, Zenon DEF UpdatePi, Wrote, FailedToWrite
        <3> HIDE DEF values
        <3>4. Loaded(values) \in PiValues /\ Loaded(pi.saved) \in PiValues
              /\ Loaded(pi.saved) \in PiStored
            BY <2>0, <3>2, LoadedIsKnown DEF PiValues
        <3>5. PiInv'
            BY <2>0, <3>2, <3>3, <3>4 DEF PiInv
        <3>6. /\ "settings" \notin unsaved' => "settings" \notin unsaved
              /\ "font" \notin unsaved' => "font" \notin unsaved
              /\ "scales" \notin unsaved' => "scales" \notin unsaved
            BY <3>3
        <3>7. PrefsInv' /\ FontsInv'
            BY <2>1, <3>6 DEF ChoiceInv, PrefsInv, FontsInv, DebtBelowInterval
        <3>8. Reflects'
            <4>1. HasShown(panel') /\ panel'.kind = "Pi" /\ panel'.shown \in PiStored
                BY <2>0, <3>2, <3>3, <3>4 DEF HasShown
            <4>2. "pi" \notin unsaved' => Loaded(panel'.shown) = pi'.profile
                <5> SUFFICES ASSUME "pi" \notin unsaved'
                             PROVE  Loaded(panel'.shown) = pi'.profile
                    OBVIOUS
                <5>1. /\ panel' = [panel EXCEPT !.shown = values, !.status = "Starting"]
                      /\ pi' = [saved |-> values, profile |-> Loaded(values)]
                    BY <3>3
                <5>2. panel'.shown = values /\ pi'.profile = Loaded(values)
                    BY <2>0, <5>1 DEF HasShown
                <5> QED BY <5>2
            <4> QED BY <4>1, <4>2 DEF Reflects, HasShown
        <3> QED BY <3>5, <3>7, <3>8 DEF ChoiceInv
    <2>2. CASE /\ pi' \in {pi, [pi EXCEPT !.profile = Loaded(pi.saved)]}
               /\ panel' = [panel EXCEPT !.status = "Starting"]
               /\ UNCHANGED <<prefs, fonts, unsaved>>
        <3>1. pi' = pi
            BY <2>0, <2>2 DEF ChoiceInv, PiInv
        <3>2. UNCHANGED choiceVars /\ SameShown
            BY <2>0, <2>2, <3>1 DEF choiceVars, SameShown, HasShown
        <3> QED BY <3>2, PanelsReflect DEF ChoiceInv
    <2>3. CASE /\ UNCHANGED choiceVars
               /\ \/ \E said : panel' = [panel EXCEPT !.status = said]
                  \/ panel' = panel \/ panel' = Show("Settings", 0, <<>>, prefs.saved)
                  \/ panel' = [panel EXCEPT !.shown = Loaded(pi.saved), !.status = "Waiting"]
        \* The settings come back from their file, which differs from what is in
        \* effect only after a failed write.
        <3>1. CASE panel' = Show("Settings", 0, <<>>, prefs.saved)
            <4>1. prefs' = prefs /\ fonts' = fonts /\ pi' = pi /\ unsaved' = unsaved
                BY <2>3 DEF choiceVars
            <4>2. PrefsInv' /\ FontsInv' /\ PiInv'
                BY <4>1 DEF ChoiceInv, PrefsInv, FontsInv, PiInv, DebtBelowInterval
            <4>3. Reflects'
                BY <3>1, <4>1 DEF ChoiceInv, PrefsInv, Reflects, HasShown, Show
            <4> QED BY <4>2, <4>3 DEF ChoiceInv
        <3>2. CASE \/ \E said : panel' = [panel EXCEPT !.status = said]
                   \/ panel' = panel
                   \/ panel' = [panel EXCEPT !.shown = Loaded(pi.saved), !.status = "Waiting"]
            <4>1. SameShown \/ ShowsProfile
                BY <2>0, <3>2 DEF SameShown, ShowsProfile, HasShown
            <4> QED BY <2>3, <4>1, PanelsReflect DEF ChoiceInv
        <3> QED BY <2>3, <3>1, <3>2
    <2> QED BY <1>2, <2>1, <2>2, <2>3, Zenon DEF PiGesture
<1> QED BY <1>1, <1>2

\* Every step keeps the choices, what is saved of them and what is shown of them.
LEMMA ChoiceInvIsKept == ChoiceInv /\ [Next]_vars => ChoiceInv'
<1> SUFFICES ASSUME ChoiceInv, [Next]_vars PROVE ChoiceInv'
    OBVIOUS
<1>0. FaceRows'
    BY FaceRowsStay DEF ChoiceInv
<1>1. CASE Crash
    BY <1>1, RestartKeepsChoices DEF Crash
<1>2. CASE UNCHANGED vars
    <2>1. panel' = panel /\ UNCHANGED choiceVars
        BY <1>2, Zenon DEF vars, screenVars
    <2> QED BY <1>0, <2>1, PanelsReflect DEF SameShown, ChoiceInv, Reflects, HasShown
<1> QED BY <1>0, <1>1, <1>2, PagesReflect, ListsReflect, CleanupKeepsChoices,
           SettingsKeepChoices, FontsKeepChoices, PiKeepsChoices, Zenon DEF Next

\* The defaults are in effect and saved at first.
LEMMA InitChoices == Init => ChoiceInv
<1> SUFFICES ASSUME Init PROVE ChoiceInv
    OBVIOUS
<1>1. /\ prefs = [use |-> DefaultValues, saved |-> DefaultValues, debt |-> 0]
      /\ panel = NoPanel /\ contact = NoContact
    BY Zenon DEF Init
<1>2. PICK w \in FontValues : fonts = [use |-> w, saved |-> w]
    BY DEF Init
<1>3. LET first == [provider |-> "OpenAi", tools |-> TRUE, thinking |-> "off"]
      IN  pi = [saved |-> first, profile |-> first]
    BY DEF Init
<1>4. DefaultValues \in Values /\ DefaultValues.every = 0
    BY DEF DefaultValues, Values
<1>5. PrefsInv
    BY <1>1, <1>4 DEF PrefsInv, DebtBelowInterval
<1>6. FontsInv
    BY <1>2 DEF FontsInv
<1>7. PiInv
    <2> DEFINE v == [provider |-> "OpenAi", tools |-> TRUE, thinking |-> "off"]
    <2>1. v \in PiStored /\ v \in PiValues
        BY DEF PiStored, PiValues, Range, Levels
    <2>2. Loaded(v) = v
        BY <2>1, LoadedIsKnown
    <2> QED BY <1>3, <2>1, <2>2 DEF PiInv
<1>8. Reflects /\ FaceRows
    BY <1>1 DEF Reflects, HasShown, FaceRows, NoPanel, Show, NoContact, Blank, Spot
<1> QED BY <1>5, <1>6, <1>7, <1>8 DEF ChoiceInv

\* What a panel of settings shows is what is in effect, and what is in effect is
\* what a restart finds, for every file whose last write was confirmed and every
\* number of fonts and sizes (update_values, set_scale_percent, PiPreferences).
THEOREM ChoicesAlwaysStick == Spec => []ChoicesStick
<1>1. ChoiceInv => ChoicesStick
    BY DEF ChoiceInv, PrefsInv, FontsInv, PiInv, Reflects, ChoicesStick
<1> QED BY InitChoices, ChoiceInvIsKept, <1>1, PTL DEF Spec

\* The replies counted since the last full refresh stay below the interval, for
\* every interval and whenever it changes (next_reply_cleanup_intent,
\* replace_values).
THEOREM DebtAlwaysBelowInterval == Spec => []DebtBelowInterval
<1>1. ChoiceInv => DebtBelowInterval
    BY DEF ChoiceInv, PrefsInv
<1> QED BY InitChoices, ChoiceInvIsKept, <1>1, PTL DEF Spec

-----------------------------------------------------------------------------
(* A stroke hits the row it was made on.                                   *)

\* A spot is a row of the list, or the blank beside them.
Aimed(spot) == spot.row = 0 => spot = Blank

\* What there is to touch on a list is a row or the blank.
LEMMA ListSpotsAreAimed ==
    ASSUME NEW page, NEW lines, NEW kind, NEW spot \in ListSpots(page, lines, kind)
    PROVE  Aimed(spot)
<1>1. spot = Blank \/ \E row \in 1..RowsOn(page, lines) : \E place : spot = Spot(place, row)
    BY DEF ListSpots
<1>2. ASSUME NEW row \in 1..RowsOn(page, lines), NEW place, spot = Spot(place, row)
      PROVE  spot.row # 0
    BY <1>2 DEF Spot
<1> QED BY <1>1, <1>2 DEF Aimed

\* A gesture ends where its contact began, or beside it.
LEMMA GesturesStayNear ==
    ASSUME NEW preview, NEW tool, NEW from, NEW g \in Released(preview, tool, from)
    PROVE  g.at \in {from, Blank}
<1> USE DEF Gesture, NoGesture
<1>1. \A c \in Classified(tool, from) : c.at \in {from, Blank}
    <2>1. ASSUME NEW c \in Classified(tool, from)
          PROVE  \/ c \in {NoGesture, Gesture("up", from), Gesture("down", from),
                           Gesture("sideways", from), Gesture("tap", from), Gesture("tap", Blank)}
                 \/ \E crosses : c = [Gesture("strike", from) EXCEPT !.crosses = crosses]
        <3> HIDE DEF Gesture, NoGesture
        <3> QED BY DEF Classified
    <2>2. \A crosses : [Gesture("strike", from) EXCEPT !.crosses = crosses].at = from
        OBVIOUS
    <2>3. /\ NoGesture.at = Blank /\ Gesture("tap", Blank).at = Blank
          /\ \A kind : Gesture(kind, from).at = from
        OBVIOUS
    <2> HIDE DEF Gesture, NoGesture
    <2> QED BY <2>1, <2>2, <2>3
<1>2. g \in Classified(tool, from) \/ g \in {Gesture("tap", from), Gesture("sideways", from)}
    BY DEF Released
<1> QED BY <1>1, <1>2

\* interact: what acts on a row has the number of the row the contact began on.
LEMMA ActionsNumberTheirRow ==
    ASSUME NEW g, NEW from, g.at \in {from, Blank}, Aimed(from), NEW page, NEW kind,
           ListAction(g, page, kind).do \in {"delete", "toggle", "select"}
    PROVE  /\ from.row # 0
           /\ ListAction(g, page, kind).number = RowNumber(page, from.row)
<1>1. g.at # Blank
    BY DEF ListAction, Blank, Spot
<1>2. ListAction(g, page, kind).number = RowNumber(page, g.at.row)
    BY DEF ListAction
<1> QED BY <1>1, <1>2 DEF Aimed

\* What an operation on one row takes from the index, or changes of the pauses.
Touched(before, after) ==
    (before.index \ after.index)
    \cup ((before.paused \ after.paused) \cup (after.paused \ before.paused))

\* A struck or toggled row is the only one that changes.
LEMMA RowsTouchOne ==
    ASSUME NEW d, Kept(d), NEW id, NEW o,
           \/ o \in ForgetPage(d, id) \cup ToggleTask(d, id)
           \/ o \in DropRow(d, id) /\ d.paused \subseteq d.index
    PROVE  Touched(d, o.disk) \subseteq {id}
<1> DEFINE cut     == Indexed(d, d.index \ {id})
           gone    == WithoutStrokes(cut, {id})
           dropped == [d EXCEPT !.index = d.index \ {id}, !.paused = @ \cap (d.index \ {id})]
           toggled == [d EXCEPT !.paused = IF id \in @ THEN @ \ {id} ELSE @ \cup {id}]
<1>1. o \in ForgetPage(d, id) => o.disk \in {d, cut, gone}
    BY DEF ForgetPage, Outcome
<1>2. o \in DropRow(d, id) => o.disk \in {d, dropped}
    BY ReplacedIsEither DEF DropRow, SaveIndex
<1>3. o \in ToggleTask(d, id) => o.disk \in {d, toggled}
    BY ReplacedIsEither DEF ToggleTask
<1>4. /\ cut.index = d.index \ {id} /\ cut.paused = d.paused
      /\ gone.index = d.index \ {id} /\ gone.paused = d.paused
    BY DEF Indexed, WithoutStrokes, Kept
<1>5. dropped.index = d.index \ {id} /\ dropped.paused = d.paused \cap (d.index \ {id})
    BY DEF Kept
<1>6. /\ toggled.index = d.index
      /\ toggled.paused = IF id \in d.paused THEN d.paused \ {id} ELSE d.paused \cup {id}
    BY DEF Kept
<1> HIDE DEF cut, gone, dropped, toggled
<1>7. CASE o.disk \in {d, cut, gone}
    BY <1>4, <1>7 DEF Touched
<1>8. CASE o.disk = dropped /\ d.paused \subseteq d.index
    BY <1>5, <1>8 DEF Touched
<1>9. CASE o.disk = toggled
    BY <1>6, <1>9 DEF Touched
<1> QED BY <1>1, <1>2, <1>3, <1>7, <1>8, <1>9

\* The strengthening: only rows that are there are paused, a list shows the
\* store of its topic, and a contact on a list began on a row or beside it.
PausedAreListed == topic \notin PageTopics => disk.paused \subseteq disk.index

ListTopics ==
    /\ panel.kind = "History" => topic \in PageTopics
    /\ panel.kind \in {"Todo", "Task"} => topic \notin PageTopics

ContactsAim == contact # NoContact /\ panel.kind \in Lists => Aimed(contact.from)

Struckable == Promised /\ Layered /\ PausedAreListed /\ ListTopics /\ ContactsAim

\* What a step does to the kind of the panel: it stays, a list opens over the
\* page, or no list is open afterwards.
LEMMA KindsStay ==
    ASSUME "kind" \in DOMAIN panel, [Next]_vars
    PROVE  \/ panel'.kind = panel.kind
           \/ panel'.kind \notin Lists
           \/ NoneOpen /\ panel'.kind = "Reader"
           \/ NoneOpen /\ ListTopics'
<1>1. CASE Crash \/ CrashInStrike \/ CrashInBoundary
    <2>1. \E found : Restarted(found)
        BY <1>1, Zenon DEF Crash, CrashInStrike, CrashInBoundary
    <2>2. panel' = NoPanel
        BY <2>1, Zenon DEF Restarted
    <2> QED BY <2>2 DEF NoPanel, Show, Lists
<1>2. CASE Write \/ OtherWriter \/ ReplyCleanup \/ ContactBegins \/ Background \/ ControlAnswers
    <2>1. panel' = panel
        BY <1>2, Zenon DEF Write, Quiet, OtherWriter, ReplyCleanup, ContactBegins, Background,
                           ControlAnswers, screenVars
    <2> QED BY <2>1
<1>3. CASE AppendTurn \/ AddRow
    <2>1. panel' = NoPanel \/ panel' = panel
        BY <1>3, Zenon DEF AppendTurn, AddRow, Restarted, screenVars
    <2> QED BY <2>1 DEF NoPanel, Show, Lists
<1>4. CASE OpenList
    <2>1. PICK kind \in {"History", "Todo", "Task"} :
            /\ topic = CASE kind = "History" -> "Pages" [] kind = "Todo" -> "Todos"
                         [] OTHER -> "Tasks"
            /\ Opened(ShowList(kind, 0, Rows(kind, copy)))
        BY <1>4, Zenon DEF OpenList
    <2>2. panel'.kind = kind /\ topic' = topic /\ NoneOpen
        BY <2>1, ShownHasKind DEF Opened
    <2>3. /\ kind = "History" => topic = "Pages"
          /\ kind \in {"Todo", "Task"} => topic \in {"Todos", "Tasks"}
        BY <2>1
    <2> QED BY <2>2, <2>3 DEF ListTopics, PageTopics
<1>5. CASE OpenSettings \/ OpenFontList \/ OpenHelp
    <2>1. \E kind \in {"Settings", "Font", "Help"} :
            \E values : panel' = Show(kind, 0, <<>>, values)
        BY <1>5, Zenon DEF OpenSettings, OpenFontList, OpenHelp, Opened
    <2> QED BY <2>1, ShownHasKind DEF Lists
<1>6. CASE AskForBook
    <2>1. \/ \E found : panel' = ShowList("Reader", 0, found)
          \/ panel' = panel
        BY <1>6, Zenon DEF AskForBook, Opened
    <2>2. NoneOpen
        BY <1>6, Zenon DEF AskForBook
    <2> QED BY <2>1, <2>2, ShownHasKind
<1>7. CASE ControlPolled
    <2>1. panel' = panel \/ \E said : panel' = [panel EXCEPT !.status = said]
        BY <1>7, Zenon DEF ControlPolled
    <2> QED BY <2>1
<1>8. CASE ListGesture
    <2>1. PICK action, page : ListAct(action, page)
        BY <1>8, Zenon DEF ListGesture
    <2>2. panel' = panel \/ panel' = NoPanel \/ \E entries : panel' = Redrawn(entries, page)
        BY <2>1, Zenon DEF ListAct, ListDismissed, ListRedrawn, NothingNumbered, Struck
    <2> QED BY <2>2, ShownHasKind DEF Redrawn, NoPanel, Show, Lists
<1>9. CASE ReaderGesture
    <2>1. /\ panel.kind = "Reader"
          /\ \/ panel' = panel \/ panel' = NoPanel
             \/ \E page : panel' = ShowList("Reader", page, panel.lines)
        BY <1>9, Zenon DEF ReaderGesture
    <2> QED BY <2>1, ShownHasKind DEF NoPanel, Show, Lists
<1>10. CASE HelpGesture \/ HelpTimesOut
    <2>1. panel' = panel \/ panel' = NoPanel
        BY <1>10, Zenon DEF HelpGesture, HelpTimesOut
    <2> QED BY <2>1 DEF NoPanel, Show, Lists
<1>11. CASE SettingsGesture
    <2>1. \/ panel' = panel \/ panel' = NoPanel
          \/ \E values : panel' = [panel EXCEPT !.shown = values]
          \/ panel' = [Show("Font", 0, <<>>, fonts.use) EXCEPT !.back = TRUE]
          \/ panel' = [Show("Pi", 0, <<>>, Loaded(pi.saved)) EXCEPT !.back = TRUE,
                                                              !.status = "Starting"]
        BY <1>11, Zenon DEF SettingsGesture, UpdateValues, Nested, Dismissed
    <2>2. CASE panel' = panel \/ \E values : panel' = [panel EXCEPT !.shown = values]
        BY <2>2
    <2>3. CASE panel' = NoPanel
        BY <2>3 DEF NoPanel, Show, Lists
    <2>4. CASE panel' = [Show("Font", 0, <<>>, fonts.use) EXCEPT !.back = TRUE]
        BY <2>4 DEF Show, Lists
    <2>5. CASE panel' = [Show("Pi", 0, <<>>, Loaded(pi.saved)) EXCEPT !.back = TRUE,
                                                              !.status = "Starting"]
        BY <2>5 DEF Show, Lists
    <2> QED BY <2>1, <2>2, <2>3, <2>4, <2>5
<1>12. CASE FontGesture
    <2>1. \/ panel' = panel \/ panel' = NoPanel
          \/ panel' = [panel EXCEPT !.shown = fonts'.use]
          \/ panel' = Show("Settings", 0, <<>>, prefs.use)
        BY <1>12, Zenon DEF FontGesture, FontShown, Dismissed
    <2> QED BY <2>1 DEF NoPanel, Show, Lists
<1>13. CASE PiGesture
    <2>1. \/ panel' = panel \/ panel' = Show("Settings", 0, <<>>, prefs.saved)
          \/ \E said : panel' = [panel EXCEPT !.status = said]
          \/ \E values, said : panel' = [panel EXCEPT !.shown = values, !.status = said]
        BY <1>13, Zenon DEF PiGesture, UpdatePi
    <2>2. CASE panel' = panel \/ \E said : panel' = [panel EXCEPT !.status = said]
        BY <2>2
    <2>3. CASE \E values, said : panel' = [panel EXCEPT !.shown = values, !.status = said]
        BY <2>3
    <2>4. CASE panel' = Show("Settings", 0, <<>>, prefs.saved)
        BY <2>4 DEF Show, Lists
    <2> QED BY <2>1, <2>2, <2>3, <2>4
<1>14. CASE UNCHANGED vars
    BY <1>14, Zenon DEF vars, screenVars
<1> QED BY <1>1, <1>2, <1>3, <1>4, <1>5, <1>6, <1>7, <1>8, <1>9, <1>10, <1>11, <1>12, <1>13,
           <1>14, Zenon DEF Next

\* Removing, pausing and resuming rows pauses only rows that are there, ...
LEMMA RowsPauseListed ==
    ASSUME NEW d, Kept(d), d.paused \subseteq d.index, NEW id \in d.index,
           NEW o \in DropRow(d, id) \cup ToggleTask(d, id)
    PROVE  o.disk.paused \subseteq o.disk.index
<1> DEFINE dropped == [d EXCEPT !.index = d.index \ {id}, !.paused = @ \cap (d.index \ {id})]
           toggled == [d EXCEPT !.paused = IF id \in @ THEN @ \ {id} ELSE @ \cup {id}]
<1>1. o \in DropRow(d, id) => o.disk \in {d, dropped}
    BY ReplacedIsEither DEF DropRow, SaveIndex
<1>2. o \in ToggleTask(d, id) => o.disk \in {d, toggled}
    BY ReplacedIsEither DEF ToggleTask
<1>4. dropped.index = d.index \ {id} /\ dropped.paused = d.paused \cap (d.index \ {id})
    BY DEF Kept
<1>5. /\ toggled.index = d.index
      /\ toggled.paused = IF id \in d.paused THEN d.paused \ {id} ELSE d.paused \cup {id}
    BY DEF Kept
<1> HIDE DEF dropped, toggled
<1> QED BY <1>1, <1>2, <1>4, <1>5

\* ... and adding one pauses nothing.
LEMMA AddsPauseListed ==
    ASSUME NEW d, Kept(d), d.paused \subseteq d.index, NEW now, NEW o \in AddTodo(d, now)
    PROVE  o.disk.paused \subseteq o.disk.index
<1> DEFINE id      == IF LastId(d.index) + 1 > now THEN LastId(d.index) + 1 ELSE now
           entries == d.index \cup {id}
           added   == [d EXCEPT !.index = entries, !.paused = @ \cap entries]
<1>1. o.disk \in {d, added}
    <2>1. CASE Cardinality(d.index) >= MaxTodos
        BY <2>1 DEF AddTodo, Outcome
    <2>2. CASE ~(Cardinality(d.index) >= MaxTodos)
        <3>1. o \in Replaced(d, added)
            BY <2>2 DEF AddTodo, SaveIndex
        <3> QED BY <3>1, ReplacedIsEither
    <2> QED BY <2>1, <2>2
<1> HIDE DEF entries
<1>2. added.index = entries /\ added.paused = d.paused \cap entries
    BY DEF Kept
<1> QED BY <1>1, <1>2

\* A boundary leaves the rows and their pauses as they are.
LEMMA BoundaryPausesNothing ==
    ASSUME NEW d, Kept(d), NEW entries, NEW o \in BeginSession(d, entries)
    PROVE  o.disk.index = d.index /\ o.disk.paused = d.paused
<1>1. o.disk \in {d, [d EXCEPT !.floor = LastId(d.index)]}
    BY ReplacedIsEither DEF BeginSession, Unread
<1> QED BY <1>1 DEF Kept

\* The rows a number stands for are rows of the store (delete_number).
LEMMA NumbersNameRows ==
    ASSUME NEW number, NEW entries, NEW id \in Numbered(number, entries)
    PROVE  id \in entries
BY DEF Numbered

\* What a stroke or a tap on a list does to the store, if it does anything.
RowActed(o, id) ==
    \/ panel.kind = "History" /\ o \in ForgetPage(disk, id)
    \/ panel.kind # "History" /\ o \in DropRow(disk, id)
    \/ o \in ToggleTask(disk, id)

ActsOnRow ==
    \E g \in Released(contact.preview, contact.tool, contact.from) :
      LET action == ListAction(g, panel.page, panel.kind)
      IN  /\ action.do \in {"delete", "toggle"}
          /\ \E id \in Numbered(action.number, disk.index) :
               \E o : RowActed(o, id) /\ disk' = o.disk

\* A gesture on a list leaves the store alone, or acts on the row of its number,
\* whether it ends or the process does (delete_number, toggle_number).
LEMMA ListsActOnRows ==
    ASSUME ListGesture \/ CrashInStrike
    PROVE  /\ reader' \in {reader, 0}
           /\ disk' = disk \/ ActsOnRow
<1>1. CASE ListGesture
    <2>1. reader' = reader
        BY <1>1, Zenon DEF ListGesture
    <2>2. PICK g \in Released(contact.preview, contact.tool, contact.from) :
            ListAct(ListAction(g, panel.page, panel.kind), TurnedPage(g, panel.page, panel.lines))
        BY <1>1, Zenon DEF ListGesture
    <2> DEFINE action == ListAction(g, panel.page, panel.kind)
               page   == TurnedPage(g, panel.page, panel.lines)
    <2>3. ListAct(action, page)
        BY <2>2
    <2> HIDE DEF action, page
    <2>4. \/ disk' = disk
          \/ /\ action.do \in {"delete", "toggle"}
             /\ \E id \in Numbered(action.number, disk.index) :
                  \E o : RowActed(o, id) /\ disk' = o.disk
        <3>1. CASE \/ action.do = "nothing" /\ UNCHANGED <<storeVars, control, panel>>
                   \/ ListDismissed \/ ListRedrawn(page) \/ NothingNumbered(page)
            BY <3>1, Zenon DEF ListDismissed, ListRedrawn, NothingNumbered, storeVars
        <3>2. CASE /\ action.do = "delete"
                   /\ \E id \in Numbered(action.number, disk.index) :
                      \E o \in (IF panel.kind = "History" THEN ForgetPage(disk, id)
                                                          ELSE DropRow(disk, id)) :
                        disk' = o.disk
            <4>1. PICK id \in Numbered(action.number, disk.index) :
                      \E o \in (IF panel.kind = "History" THEN ForgetPage(disk, id)
                                                          ELSE DropRow(disk, id)) :
                        disk' = o.disk
                BY <3>2
            <4>2. PICK o \in (IF panel.kind = "History" THEN ForgetPage(disk, id)
                                                        ELSE DropRow(disk, id)) :
                        disk' = o.disk
                BY <4>1
            <4>3. RowActed(o, id)
                BY <4>2 DEF RowActed
            <4> QED BY <3>2, <4>2, <4>3
        <3>3. CASE /\ action.do = "toggle"
                   /\ \E id \in Numbered(action.number, disk.index) :
                      \E o \in ToggleTask(disk, id) : disk' = o.disk
            BY <3>3 DEF RowActed
        <3> QED BY <2>3, <3>1, <3>2, <3>3, Zenon DEF ListAct, Struck, Stored
    <2> QED BY <2>1, <2>4, Zenon DEF ActsOnRow, action
<1>2. CASE CrashInStrike
    <2>1. \E found : Restarted(found)
        BY <1>2, Zenon DEF CrashInStrike
    <2>2. reader' = 0
        BY <2>1, Zenon DEF Restarted
    <2>3. PICK g \in Released(contact.preview, contact.tool, contact.from) :
            LET action == ListAction(g, panel.page, panel.kind)
            IN  \E id \in Numbered(action.number, disk.index) :
                  \/ /\ action.do = "delete"
                     /\ \E o \in (IF panel.kind = "History" THEN ForgetPage(disk, id)
                                                            ELSE DropRow(disk, id)) :
                          disk' = o.disk
                  \/ /\ action.do = "toggle"
                     /\ \E o \in ToggleTask(disk, id) : disk' = o.disk
        BY <1>2, RestartKeepsWhatItFinds, Zenon DEF CrashInStrike
    <2> DEFINE action == ListAction(g, panel.page, panel.kind)
    <2>4. PICK id \in Numbered(action.number, disk.index) :
                  \/ /\ action.do = "delete"
                     /\ \E o \in (IF panel.kind = "History" THEN ForgetPage(disk, id)
                                                            ELSE DropRow(disk, id)) :
                          disk' = o.disk
                  \/ /\ action.do = "toggle"
                     /\ \E o \in ToggleTask(disk, id) : disk' = o.disk
        BY <2>3
    <2> HIDE DEF action
    <2>5. action.do \in {"delete", "toggle"} /\ \E o : RowActed(o, id) /\ disk' = o.disk
        BY <2>4 DEF RowActed
    <2> QED BY <2>2, <2>4, <2>5, Zenon DEF ActsOnRow, action
<1> QED BY <1>1, <1>2

\* Only rows that are there stay paused.
LEMMA PausedStayListed == Struckable /\ [Next]_vars => PausedAreListed'
<1> SUFFICES ASSUME Struckable, [Next]_vars, topic \notin PageTopics
             PROVE  disk'.paused \subseteq disk'.index
    BY TopicStays DEF PausedAreListed
<1>1. Kept(disk) /\ disk.paused \subseteq disk.index
    BY DEF Struckable, Promised, PausedAreListed
<1>2. CASE disk' = disk
    BY <1>1, <1>2
<1>3. CASE AppendTurn
    BY <1>3 DEF AppendTurn
<1>4. CASE AddRow
    <2>1. PICK now \in Ids : \E o \in AddTodo(disk, now) : disk' = o.disk
        BY <1>4, RestartKeepsWhatItFinds, Zenon DEF AddRow, Stored
    <2> QED BY <1>1, <2>1, AddsPauseListed
<1>5. CASE OtherWriter
    <2>1. \/ \E now \in Ids : \E o \in AddTodo(disk, now) : disk' = o.disk
          \/ \E id \in disk.index : \E o \in DropRow(disk, id) : disk' = o.disk
        BY <1>5, Zenon DEF OtherWriter
    <2> QED BY <1>1, <2>1, AddsPauseListed, RowsPauseListed
<1>6. CASE ListGesture \/ CrashInStrike
    <2>1. panel.kind # "History"
        BY DEF Struckable, ListTopics
    <2>2. CASE ActsOnRow
        <3>1. PICK number : \E id \in Numbered(number, disk.index) :
                              \E o : RowActed(o, id) /\ disk' = o.disk
            BY <2>2, Zenon DEF ActsOnRow
        <3>2. PICK id \in Numbered(number, disk.index) : \E o : RowActed(o, id) /\ disk' = o.disk
            BY <3>1
        <3>3. PICK o \in DropRow(disk, id) \cup ToggleTask(disk, id) : disk' = o.disk
            BY <2>1, <3>2 DEF RowActed
        <3> QED BY <1>1, <3>2, <3>3, NumbersNameRows, RowsPauseListed
    <2> QED BY <1>2, <1>6, <2>2, ListsActOnRows
<1>7. CASE CrashInBoundary \/ PiGesture
    <2>1. disk' = disk \/ \E o \in BeginSession(disk, copy) : disk' = o.disk
        BY <1>7, RestartKeepsWhatItFinds, Zenon DEF CrashInBoundary, PiGesture, Stored, storeVars
    <2> QED BY <1>1, <2>1, BoundaryPausesNothing
<1> QED BY <1>2, <1>3, <1>4, <1>5, <1>6, <1>7, OthersLeaveTheStore

\* A list shows the store of its topic.
LEMMA ListTopicsStay == Struckable /\ [Next]_vars => ListTopics'
<1> SUFFICES ASSUME Struckable, [Next]_vars PROVE ListTopics'
    OBVIOUS
<1>1. topic' = topic /\ "kind" \in DOMAIN panel
    BY TopicStays DEF Struckable, Layered
<1>2. CASE panel'.kind = panel.kind
    BY <1>1, <1>2 DEF Struckable, ListTopics
<1>3. CASE panel'.kind \notin Lists \/ panel'.kind = "Reader"
    BY <1>3 DEF ListTopics, Lists
<1> QED BY <1>1, <1>2, <1>3, KindsStay

\* A contact keeps the list it began on, and it began on a row or beside it.
LEMMA ContactsStayAimed == Struckable /\ [Next]_vars => ContactsAim'
<1> SUFFICES ASSUME Struckable, [Next]_vars, contact' # NoContact, panel'.kind \in Lists
             PROVE  Aimed(contact'.from)
    BY DEF ContactsAim, Aimed
<1>0. "kind" \in DOMAIN panel /\ (contact # NoContact => ~NoneOpen)
    BY DEF Struckable, Layered
<1>1. CASE ContactBegins
    <2>1. panel' = panel
        BY <1>1, Zenon DEF ContactBegins
    <2>2. PICK tool \in Tools, from \in Spots :
            LET preview == IF panel.kind \in Lists
                           THEN ListPreview(tool, from, panel.lines, panel.kind)
                           ELSE CardPreview(from)
            IN  contact' = [tool |-> tool, from |-> from, preview |-> preview]
        BY <1>1, Zenon DEF ContactBegins, Tools
    <2>3. contact'.from \in ListSpots(panel.page, panel.lines, panel.kind)
        BY <2>1, <2>2 DEF Spots
    <2> QED BY <2>3, ListSpotsAreAimed
<1>2. CASE contact' = contact
    <2>1. panel'.kind = panel.kind
        BY <1>0, <1>2, KindsStay
    <2> QED BY <1>2, <2>1 DEF Struckable, ContactsAim, Aimed
<1>3. ContactBegins \/ contact' = contact \/ contact' = NoContact
    BY ContactsBeginOnce
<1> QED BY <1>1, <1>2, <1>3

\* No row is paused at first, and no list is open.
LEMMA InitStruckable == Init => Struckable
<1> SUFFICES ASSUME Init PROVE Struckable
    OBVIOUS
<1>1. /\ disk \in [index : IF topic = "Tasks" THEN {{1, 2}} ELSE {{}},
                   strokes : {{}}, floor : {0}, paused : {{}}]
      /\ panel = NoPanel /\ contact = NoContact
    BY Zenon DEF Init
<1>2. disk.paused = {} /\ panel.kind = "none"
    BY <1>1 DEF NoPanel, Show
<1> QED BY <1>1, <1>2, InitPromised, InitLayered
        DEF Struckable, PausedAreListed, ListTopics, ContactsAim

\* The strengthening is kept by every step.
LEMMA StruckableIsKept == Struckable /\ [Next]_vars => Struckable'
BY PromisedIsKept, LayeredIsKept, PausedStayListed, ListTopicsStay, ContactsStayAimed
   DEF Struckable

\* The rows on which a contact on a list can act.
Row == IF contact.from.row = 0 THEN {}
       ELSE {LineAt(panel.page, panel.lines, contact.from.row)}

\* A list of the stores: the number of the row is looked up in what the list was
\* drawn from.
LEMMA StoredRowsAreHit ==
    ASSUME Struckable, panel.kind \in Lists \ {"Reader"}, contact # NoContact,
           panel.lines = Rows(panel.kind, disk.index), ListGesture \/ CrashInStrike
    PROVE  Hit \subseteq Row
<1>1. /\ Kept(disk) /\ Aimed(contact.from)
      /\ panel.kind # "History" => disk.paused \subseteq disk.index
    BY DEF Struckable, Promised, ContactsAim, ListTopics, PausedAreListed, Lists
<1>2. reader' \in {reader, 0} /\ (disk' = disk \/ ActsOnRow)
    BY ListsActOnRows
<1>3. Hit = Touched(disk, disk')
    BY <1>2 DEF Hit, Touched
<1>4. CASE disk' = disk
    BY <1>3, <1>4 DEF Touched
<1>5. CASE ActsOnRow
    <2>1. PICK g \in Released(contact.preview, contact.tool, contact.from) :
            /\ ListAction(g, panel.page, panel.kind).do \in {"delete", "toggle"}
            /\ \E id \in Numbered(ListAction(g, panel.page, panel.kind).number, disk.index) :
                 \E o : RowActed(o, id) /\ disk' = o.disk
        BY <1>5, Zenon DEF ActsOnRow
    <2>2. g.at \in {contact.from, Blank}
        BY GesturesStayNear
    <2>3. /\ contact.from.row # 0
          /\ ListAction(g, panel.page, panel.kind).number
               = RowNumber(panel.page, contact.from.row)
        BY <1>1, <2>1, <2>2, ActionsNumberTheirRow
    <2>4. PICK id \in Numbered(RowNumber(panel.page, contact.from.row), disk.index) :
            \E o : RowActed(o, id) /\ disk' = o.disk
        BY <2>1, <2>3
    <2>5. id = LineAt(panel.page, panel.lines, contact.from.row)
        BY <2>4 DEF Numbered, RowNumber, LineAt
    <2>6. PICK o : RowActed(o, id) /\ disk' = o.disk
        BY <2>4
    <2>7. /\ o \in ForgetPage(disk, id) \cup DropRow(disk, id) \cup ToggleTask(disk, id)
          /\ Touched(disk, o.disk) \subseteq {id}
        <3>1. CASE panel.kind = "History" /\ o \in ForgetPage(disk, id)
            BY <1>1, <3>1, RowsTouchOne
        <3>2. CASE panel.kind # "History" /\ o \in DropRow(disk, id)
            BY <1>1, <3>2, RowsTouchOne
        <3>3. CASE o \in ToggleTask(disk, id)
            BY <1>1, <3>3, RowsTouchOne
        <3> QED BY <2>6, <3>1, <3>2, <3>3 DEF RowActed
    <2> QED BY <1>3, <2>3, <2>5, <2>6, <2>7 DEF Row
<1> QED BY <1>2, <1>4, <1>5

\* The list of books, which holds what was found.
LEMMA BooksAreHit ==
    ASSUME Struckable, panel.kind = "Reader", contact # NoContact, ReaderGesture
    PROVE  Hit \subseteq Row
<1>1. Aimed(contact.from) /\ disk' = disk
    BY Zenon DEF Struckable, ContactsAim, Lists, ReaderGesture, storeVars
<1>2. CASE reader' = reader
    BY <1>1, <1>2 DEF Hit
<1>3. CASE \E g \in Released(contact.preview, contact.tool, contact.from) :
             /\ ListAction(g, panel.page, "Reader").do = "select"
             /\ reader' = panel.lines[ListAction(g, panel.page, "Reader").number]
    <2>1. PICK g \in Released(contact.preview, contact.tool, contact.from) :
             /\ ListAction(g, panel.page, "Reader").do = "select"
             /\ reader' = panel.lines[ListAction(g, panel.page, "Reader").number]
        BY <1>3
    <2>2. g.at \in {contact.from, Blank}
        BY GesturesStayNear
    <2>3. /\ contact.from.row # 0
          /\ ListAction(g, panel.page, "Reader").number = RowNumber(panel.page, contact.from.row)
        BY <1>1, <2>1, <2>2, ActionsNumberTheirRow
    <2>4. reader' = LineAt(panel.page, panel.lines, contact.from.row)
        BY <2>1, <2>3 DEF RowNumber, LineAt
    <2> QED BY <1>1, <2>3, <2>4 DEF Hit, Row
<1>4. \/ reader' = reader
      \/ \E g \in Released(contact.preview, contact.tool, contact.from) :
             /\ ListAction(g, panel.page, "Reader").do = "select"
             /\ reader' = panel.lines[ListAction(g, panel.page, "Reader").number]
    BY Zenon DEF ReaderGesture
<1> QED BY <1>2, <1>3, <1>4

\* No other step ends a contact on a list, except for a recall or the end of the
\* process, which touch no row.
LEMMA OthersHitNothing ==
    ASSUME Struckable, [Next]_vars, panel.kind \in Lists, contact # NoContact,
           contact' = NoContact, ~ListGesture, ~CrashInStrike, ~ReaderGesture
    PROVE  Hit = {}
<1>0. ~NoneOpen /\ contact' # contact
    BY DEF Struckable, Layered
<1>1. CASE Crash
    <2>1. disk' = disk /\ reader' = 0
        BY <1>1, Zenon DEF Crash, Restarted
    <2> QED BY <2>1 DEF Hit
<1>2. CASE Background
    <2>1. disk' = disk /\ reader' = reader
        BY <1>2, Zenon DEF Background, storeVars
    <2> QED BY <2>1 DEF Hit
<1>3. ~Write /\ ~AppendTurn /\ ~AddRow /\ ~ReplyCleanup /\ ~OpenHelp /\ ~AskForBook
    BY <1>0, Zenon DEF Write, AppendTurn, AddRow, ReplyCleanup, OpenHelp, AskForBook
<1>4. ~OpenList /\ ~OpenSettings /\ ~OpenFontList
    BY <1>0, Zenon DEF OpenList, OpenSettings, OpenFontList, Opened
<1>5. ~OtherWriter /\ ~ControlAnswers /\ ~ControlPolled /\ ~UNCHANGED vars
    BY <1>0, Zenon DEF OtherWriter, ControlAnswers, ControlPolled, screenVars, vars
<1>6. ~ContactBegins
    BY Zenon DEF ContactBegins
<1>7. ~HelpGesture /\ ~HelpTimesOut /\ ~SettingsGesture /\ ~FontGesture /\ ~PiGesture
      /\ ~CrashInBoundary
    BY DEF HelpGesture, HelpTimesOut, SettingsGesture, FontGesture, PiGesture, CrashInBoundary,
           Lists
<1> QED BY <1>1, <1>2, <1>3, <1>4, <1>5, <1>6, <1>7, Zenon DEF Next

\* A stroke or a tap acts on the row it was made on, on every page of a list of
\* any length, also if the process ends in its middle, if nobody changed the
\* store since the list was drawn (RowNumber, delete_number, toggle_number).
THEOREM StrokesAlwaysHitTheRow == Spec => StrikeHitsTheRow
<1> DEFINE Hits == \A kind \in Lists :
                     /\ panel.kind = kind /\ contact # NoContact /\ contact' = NoContact
                     /\ kind = "Reader" \/ panel.lines = Rows(kind, disk.index)
                     => Hit \subseteq Row
<1>1. Struckable /\ [Next]_vars => Hits
    <2> SUFFICES ASSUME Struckable, [Next]_vars, NEW kind \in Lists,
                        panel.kind = kind, contact # NoContact, contact' = NoContact,
                        kind = "Reader" \/ panel.lines = Rows(kind, disk.index)
                 PROVE  Hit \subseteq Row
        OBVIOUS
    <2>1. CASE kind = "Reader"
        <3>1. ~ListGesture /\ ~CrashInStrike
            BY <2>1, Zenon DEF ListGesture, CrashInStrike
        <3> QED BY <2>1, <3>1, BooksAreHit, OthersHitNothing
    <2>2. CASE kind # "Reader"
        <3>1. ~ReaderGesture
            BY <2>2, Zenon DEF ReaderGesture
        <3> QED BY <2>2, <3>1, StoredRowsAreHit, OthersHitNothing
    <2> QED BY <2>1, <2>2
<1>2. StrikeHitsTheRow <=> [][Hits]_vars
    BY DEF StrikeHitsTheRow, Row
<1> HIDE DEF Hits
<1> QED BY InitStruckable, StruckableIsKept, <1>1, <1>2, PTL DEF Spec

-----------------------------------------------------------------------------
(* Lists in order.                                                         *)

\* In a finite set with a total order every place is taken: two elements never
\* have the same number before them.
LEMMA PlacesAreTaken ==
    ASSUME NEW S, IsFiniteSet(S), NEW before \in [S -> SUBSET S],
           \A x \in S : x \notin before[x],
           \A x, y \in S : x # y => x \in before[y] \/ y \in before[x],
           \A x, y \in S : x \in before[y] => before[x] \subseteq before[y]
    PROVE  /\ Cardinality(S) \in Nat
           /\ \A n \in 1..Cardinality(S) : \E x \in S : Cardinality(before[x]) + 1 = n
<1> DEFINE last  == Cardinality(S)
           place == [x \in S |-> Cardinality(before[x]) + 1]
<1>1. last \in Nat
    BY FS_CardinalityType
<1>2. ASSUME NEW x \in S
      PROVE  /\ IsFiniteSet(before[x]) /\ Cardinality(before[x]) \in Nat
             /\ Cardinality(before[x]) + 1 \in 1..last
    <2>1. before[x] \in SUBSET S /\ before[x] # S
        OBVIOUS
    <2>2. /\ IsFiniteSet(before[x]) /\ Cardinality(before[x]) <= last
          /\ Cardinality(before[x]) # last
        BY <2>1, FS_Subset
    <2>3. Cardinality(before[x]) \in Nat
        BY <2>2, FS_CardinalityType
    <2> QED BY <1>1, <2>2, <2>3
<1>3. ASSUME NEW x \in S, NEW y \in S, x \in before[y]
      PROVE  Cardinality(before[x]) < Cardinality(before[y])
    <2>1. before[x] \in SUBSET before[y] /\ before[x] # before[y]
        BY <1>3
    <2>2. /\ Cardinality(before[x]) <= Cardinality(before[y])
          /\ Cardinality(before[x]) # Cardinality(before[y])
        BY <1>2, <2>1, FS_Subset
    <2> QED BY <1>2, <2>2
<1>4. place \in Injection(S, 1..last)
    <2>1. place \in [S -> 1..last]
        BY <1>2
    <2>2. ASSUME NEW x \in S, NEW y \in S, place[x] = place[y]
          PROVE  x = y
        <3>1. Cardinality(before[x]) = Cardinality(before[y])
            BY <1>2, <2>2
        <3> QED BY <1>2, <1>3, <3>1
    <2> HIDE DEF place
    <2> QED BY <2>1, <2>2 DEF Injection, IsInjective
<1>5. IsFiniteSet(1..last) /\ Cardinality(1..last) = last
    BY <1>1, FS_Interval
<1>6. place \in Surjection(S, 1..last)
    BY <1>4, <1>5, FS_Injection
<1>7. \A n \in 1..last : \E x \in S : place[x] = n
    BY <1>6, Zenon DEF Surjection
<1> QED BY <1>1, <1>7

\* The rows of a list are ids of the store.
LEMMA IdsAreFinite ==
    ASSUME NEW entries \in SUBSET Ids
    PROVE  IsFiniteSet(entries)
<1>1. IsFiniteSet(Ids)
    <2>1. 1 \in Int /\ MaxId \in Int
        OBVIOUS
    <2> QED BY <2>1, FS_Interval, Zenon DEF Ids
<1> QED BY <1>1, FS_Subset, Zenon

\* What a list is drawn from lists entries of the store.
LEMMA RowsAreListed ==
    ASSUME NEW kind, NEW entries \in SUBSET Ids
    PROVE  Rows(kind, entries) \in Seq(entries)
<1>1. CASE kind = "History"
    <2> DEFINE S      == Newest(entries, HistoryVisible)
               before == [x \in S |-> {y \in S : y > x}]
    <2>1. /\ \A x \in S : x \in entries
          /\ \A x \in entries : x \in Nat
        BY DEF Newest, Ids
    <2> HIDE DEF S
    <2>2. IsFiniteSet(S)
        <3>1. S \in SUBSET Ids
            BY <2>1
        <3> QED BY <3>1, IdsAreFinite
    <2>3. /\ before \in [S -> SUBSET S]
          /\ \A x \in S : x \notin before[x]
          /\ \A x, y \in S : x # y => x \in before[y] \/ y \in before[x]
          /\ \A x, y \in S : x \in before[y] => before[x] \subseteq before[y]
        BY <2>1
    <2>4. /\ Cardinality(S) \in Nat
          /\ \A n \in 1..Cardinality(S) : \E x \in S : Cardinality(before[x]) + 1 = n
        <3> HIDE DEF before
        <3> QED BY <2>2, <2>3, PlacesAreTaken
    <2>5. \A n \in 1..Cardinality(S) : \E x \in S : Cardinality({y \in S : y > x}) + 1 = n
        BY <2>4
    <2>6. Rows(kind, entries) = [n \in 1..Cardinality(S) |->
                                   CHOOSE x \in S : Cardinality({y \in S : y > x}) + 1 = n]
        BY <1>1 DEF Rows, InOrder, S
    <2>7. Rows(kind, entries) \in [1..Cardinality(S) -> S]
        BY <2>5, <2>6
    <2> QED BY <2>1, <2>4, <2>7
<1>2. CASE kind # "History"
    <2> DEFINE before == [x \in entries |-> {y \in entries : y < x}]
    <2>1. IsFiniteSet(entries) /\ \A x \in entries : x \in Nat
        BY IdsAreFinite DEF Ids
    <2>3. /\ before \in [entries -> SUBSET entries]
          /\ \A x \in entries : x \notin before[x]
          /\ \A x, y \in entries : x # y => x \in before[y] \/ y \in before[x]
          /\ \A x, y \in entries : x \in before[y] => before[x] \subseteq before[y]
        BY <2>1
    <2>4. /\ Cardinality(entries) \in Nat
          /\ \A n \in 1..Cardinality(entries) :
               \E x \in entries : Cardinality(before[x]) + 1 = n
        <3> HIDE DEF before
        <3> QED BY <2>1, <2>3, PlacesAreTaken
    <2>5. \A n \in 1..Cardinality(entries) :
            \E x \in entries : Cardinality({y \in entries : y < x}) + 1 = n
        BY <2>4
    <2>6. Rows(kind, entries) = [n \in 1..Cardinality(entries) |->
                         CHOOSE x \in entries : Cardinality({y \in entries : y < x}) + 1 = n]
        BY <1>2 DEF Rows, InOrder
    <2>7. Rows(kind, entries) \in [1..Cardinality(entries) -> entries]
        BY <2>5, <2>6
    <2> QED BY <2>4, <2>7
<1> QED BY <1>1, <1>2

\* Books that are offered are books of the catalog (Catalog::lookup).
LEMMA OfferedAreBooks ==
    ASSUME NEW match \in [1..MaxBooks -> Ranks]
    PROVE  Offered(match) \in Seq(1..MaxBooks)
<1> DEFINE S      == Best(match)
           before == [x \in S |-> {y \in S : Before(match, y, x)}]
           order  == InOrder(S, LAMBDA a, b : Before(match, a, b))
<1>1. S \in SUBSET (1..MaxBooks)
    BY DEF Best
<1> HIDE DEF S
<1>2. IsFiniteSet(S)
    <2>1. 1 \in Int /\ MaxBooks \in Int
        OBVIOUS
    <2>2. IsFiniteSet(1..MaxBooks)
        BY <2>1, FS_Interval, Zenon
    <2> QED BY <1>1, <2>2, FS_Subset, Zenon
<1>3. \A x \in S : x \in Nat /\ match[x] \in Nat
    BY <1>1 DEF Ranks
<1>4. /\ before \in [S -> SUBSET S]
      /\ \A x \in S : x \notin before[x]
      /\ \A x, y \in S : x # y => x \in before[y] \/ y \in before[x]
      /\ \A x, y \in S : x \in before[y] => before[x] \subseteq before[y]
    BY <1>3 DEF Before
<1>5. /\ Cardinality(S) \in Nat
      /\ \A n \in 1..Cardinality(S) : \E x \in S : Cardinality(before[x]) + 1 = n
    <2> HIDE DEF before
    <2> QED BY <1>2, <1>4, PlacesAreTaken
<1>6. \A n \in 1..Cardinality(S) :
        \E x \in S : Cardinality({y \in S : Before(match, y, x)}) + 1 = n
    BY <1>5
<1>7. order = [n \in 1..Cardinality(S) |->
                 CHOOSE x \in S : Cardinality({y \in S : Before(match, y, x)}) + 1 = n]
    BY DEF InOrder
<1>8. order \in [1..Cardinality(S) -> S]
    BY <1>6, <1>7
<1>9. Offered(match) = SubSeq(order, 1, Least(Len(order), MaxCandidates))
    BY DEF Offered, S
<1> HIDE DEF order
<1>10. order \in Seq(1..MaxBooks) /\ Len(order) = Cardinality(S)
    <2>1. order \in [1..Cardinality(S) -> 1..MaxBooks]
        BY <1>1, <1>8
    <2> QED BY <1>5, <2>1
<1>11. SubSeq(order, 1, Least(Len(order), MaxCandidates)) \in Seq(1..MaxBooks)
    BY <1>5, <1>10 DEF Least
<1> QED BY <1>9, <1>11

\* The page a list shows (redraw, a vertical swipe).
LEMMA PagesAreNumbers ==
    ASSUME NEW rows \in Nat
    PROVE  Pages(rows) \in Nat /\ (rows # 0 => Pages(rows) >= 1)
<1>1. CASE rows = 0
    BY <1>1 DEF Pages
<1>2. CASE rows # 0
    <2>1. (rows - 1) \div PageSize \in Nat
        BY <1>2
    <2> QED BY <1>2, <2>1 DEF Pages
<1> QED BY <1>1, <1>2

\* ... also when the list became shorter, ...
LEMMA DrawnPagesAreNumbers ==
    ASSUME NEW page \in Nat, NEW rows \in Nat
    PROVE  DrawnPage(page, rows) \in Nat
BY PagesAreNumbers DEF DrawnPage, Least

\* ... and when a page is turned.
LEMMA TurnedPagesAreNumbers ==
    ASSUME NEW g, NEW page \in Nat, NEW lines, Len(lines) \in Nat
    PROVE  TurnedPage(g, page, lines) \in Nat
<1>1. Pages(Len(lines)) \in Nat
    BY PagesAreNumbers
<1> QED BY <1>1 DEF TurnedPage, Least

-----------------------------------------------------------------------------
(* Every variable keeps its type.                                          *)

\* The stores: each operation leaves a directory, and the entries it loaded.
LEMMA AppendsKeepDisk ==
    ASSUME NEW d \in Disk, NEW entries, NEW requested \in Ids, PageId(d.index, requested) \in Ids,
           NEW o \in AppendPage(d, entries, requested)
    PROVE  o.disk \in Disk /\ o.copy = o.disk.index
<1> DEFINE id        == PageId(d.index, requested)
           stay      == Newest(d.index \cup {id}, MaxPages)
           written   == WithStrokes(d, id)
           published == Indexed(written, stay)
           pruned    == WithoutStrokes(published, d.index \ stay)
           undone    == WithoutStrokes(written, {id})
<1>1. id \in Ids /\ stay \in SUBSET Ids
    BY DEF Newest, Disk
<1>2. o.disk \in {d, written, published, pruned, undone} /\ o.copy = o.disk.index
    BY DEF AppendPage, Outcome
<1> HIDE DEF id, stay
<1>3. written \in Disk
    BY <1>1 DEF WithStrokes, Disk
<1> HIDE DEF written
<1>4. published \in Disk /\ undone \in Disk
    BY <1>1, <1>3 DEF Indexed, WithoutStrokes, Disk
<1> HIDE DEF published, undone
<1>5. pruned \in Disk
    BY <1>4 DEF WithoutStrokes, Disk
<1> HIDE DEF pruned
<1> QED BY <1>2, <1>3, <1>4, <1>5

\* A replaced file is loaded as it was left.
LEMMA ReplacedKeepDisk ==
    ASSUME NEW before \in Disk, NEW after, NEW o \in Replaced(before, after)
    PROVE  /\ o.copy = o.disk.index
           /\ o.disk \in {before, after}
BY DEF Replaced, Outcome

\* A row struck or toggled, ...
LEMMA RowsKeepDisk ==
    ASSUME NEW d \in Disk, NEW id \in Ids,
           NEW o \in ForgetPage(d, id) \cup DropRow(d, id) \cup ToggleTask(d, id)
    PROVE  o.disk \in Disk /\ o.copy = o.disk.index
<1> DEFINE cut     == Indexed(d, d.index \ {id})
           gone    == WithoutStrokes(cut, {id})
           dropped == [d EXCEPT !.index = d.index \ {id}, !.paused = @ \cap (d.index \ {id})]
           toggled == [d EXCEPT !.paused = IF id \in @ THEN @ \ {id} ELSE @ \cup {id}]
<1>1. o \in ForgetPage(d, id) => o.disk \in {d, cut, gone} /\ o.copy = o.disk.index
    BY DEF ForgetPage, Outcome
<1>2. o \in DropRow(d, id) => o.disk \in {d, dropped} /\ o.copy = o.disk.index
    BY ReplacedKeepDisk DEF DropRow, SaveIndex
<1>3. o \in ToggleTask(d, id) => o.disk \in {d, toggled} /\ o.copy = o.disk.index
    BY ReplacedKeepDisk DEF ToggleTask
<1>4. cut \in Disk
    BY DEF Indexed, Disk
<1> HIDE DEF cut
<1>5. gone \in Disk
    BY <1>4 DEF WithoutStrokes, Disk
<1>6. dropped \in Disk
    BY DEF Disk
<1>7. toggled \in Disk
    BY DEF Disk
<1> HIDE DEF gone, dropped, toggled
<1> QED BY <1>1, <1>2, <1>3, <1>4, <1>5, <1>6, <1>7

\* ... a row added within the bound, ...
LEMMA AddsKeepDisk ==
    ASSUME NEW d \in Disk, NEW now, NEW o \in AddTodo(d, now)
    PROVE  /\ o.copy = o.disk.index
           /\ o.disk.index \subseteq Ids => o.disk \in Disk
<1> DEFINE id      == IF LastId(d.index) + 1 > now THEN LastId(d.index) + 1 ELSE now
           entries == d.index \cup {id}
           added   == [d EXCEPT !.index = entries, !.paused = @ \cap entries]
<1>1. o.disk \in {d, added} /\ o.copy = o.disk.index
    <2>1. CASE Cardinality(d.index) >= MaxTodos
        BY <2>1 DEF AddTodo, Outcome
    <2>2. CASE ~(Cardinality(d.index) >= MaxTodos)
        <3>1. o \in Replaced(d, added)
            BY <2>2 DEF AddTodo, SaveIndex
        <3> QED BY <3>1, ReplacedKeepDisk
    <2> QED BY <2>1, <2>2
<1> HIDE DEF entries
<1>2. added.index \subseteq Ids => added \in Disk
    BY DEF Disk
<1> HIDE DEF added
<1> QED BY <1>1, <1>2

\* ... and a boundary at the last id.
LEMMA BoundariesKeepDisk ==
    ASSUME NEW d \in Disk, NEW entries, NEW o \in BeginSession(d, entries)
    PROVE  o.disk \in Disk /\ o.copy \in {entries, o.disk.index}
<1>1. /\ o.disk \in {d, [d EXCEPT !.floor = LastId(d.index)]}
      /\ o.copy \in {entries, o.disk.index}
    BY ReplacedKeepDisk DEF BeginSession, Unread
<1>2. LastId(d.index) \in 0..MaxId
    <2>1. CASE d.index = {}
        BY <2>1 DEF LastId
    <2>2. CASE d.index # {}
        BY <2>2, LastIdIsLast DEF Disk, Ids
    <2> QED BY <2>1, <2>2
<1> QED BY <1>1, <1>2 DEF Disk

\* A list is redrawn from what was loaded, and a restart loads what it finds.
LEMMA CopiesAreIndexes ==
    ASSUME disk \in Disk, ListGesture \/ CrashInStrike
    PROVE  copy' \in {copy, disk'.index}
<1>1. CASE ListGesture
    <2>1. PICK action, page : ListAct(action, page)
        BY <1>1, Zenon DEF ListGesture
    <2>2. \/ copy' = copy
          \/ copy' = disk.index /\ disk' = disk
          \/ \E id \in Numbered(action.number, disk.index) :
               \E o \in ForgetPage(disk, id) \cup DropRow(disk, id) \cup ToggleTask(disk, id) :
                 Stored(o)
        <3>1. CASE action.do = "delete"
               /\ \E id \in Numbered(action.number, disk.index) :
                    \E o \in (IF panel.kind = "History" THEN ForgetPage(disk, id)
                                                        ELSE DropRow(disk, id)) : Stored(o)
            BY <3>1
        <3> QED BY <2>1, <3>1, Zenon
                DEF ListAct, ListDismissed, ListRedrawn, NothingNumbered, Struck, storeVars
    <2>3. CASE \E id \in Numbered(action.number, disk.index) :
               \E o \in ForgetPage(disk, id) \cup DropRow(disk, id) \cup ToggleTask(disk, id) :
                 Stored(o)
        <3>1. PICK id \in Numbered(action.number, disk.index) :
               \E o \in ForgetPage(disk, id) \cup DropRow(disk, id) \cup ToggleTask(disk, id) :
                 Stored(o)
            BY <2>3
        <3>2. PICK o \in ForgetPage(disk, id) \cup DropRow(disk, id) \cup ToggleTask(disk, id) :
                 Stored(o)
            BY <3>1
        <3>3. id \in Ids
            BY <3>1, NumbersNameRows DEF Disk
        <3>4. o.copy = o.disk.index
            BY <3>2, <3>3, RowsKeepDisk
        <3> QED BY <3>2, <3>4 DEF Stored
    <2> QED BY <2>2, <2>3
<1>2. CASE CrashInStrike
    <2>1. \E found : Restarted(found)
        BY <1>2, Zenon DEF CrashInStrike
    <2> QED BY <2>1 DEF Restarted
<1> QED BY <1>1, <1>2

\* Other steps keep the entries they hold, or load the index.
LEMMA OthersHoldTheirCopy ==
    ASSUME [Next]_vars, ~AppendTurn, ~AddRow, ~OtherWriter, ~ListGesture,
           ~CrashInStrike, ~CrashInBoundary, ~PiGesture
    PROVE  copy' \in {copy, disk.index}
<1>1. CASE Crash
    BY <1>1 DEF Crash, Restarted
<1>2. CASE Write \/ ReplyCleanup
    BY <1>2, Zenon DEF Write, ReplyCleanup, storeVars
<1>3. CASE OpenList \/ OpenSettings \/ OpenFontList
    BY <1>3, Zenon DEF OpenList, OpenSettings, OpenFontList, Opened, storeVars
<1>4. CASE AskForBook \/ OpenHelp
    BY <1>4, Zenon DEF AskForBook, OpenHelp, Opened, storeVars
<1>5. CASE ContactBegins \/ Background \/ ControlAnswers \/ ControlPolled
    BY <1>5, Zenon DEF ContactBegins, Background, ControlAnswers, ControlPolled, storeVars
<1>6. CASE ReaderGesture \/ HelpGesture \/ HelpTimesOut
    BY <1>6, Zenon DEF ReaderGesture, HelpGesture, HelpTimesOut, storeVars
<1>7. CASE SettingsGesture \/ FontGesture
    BY <1>7, Zenon DEF SettingsGesture, FontGesture, storeVars
<1>8. CASE UNCHANGED vars
    BY <1>8, Zenon DEF vars, storeVars
<1> QED BY <1>1, <1>2, <1>3, <1>4, <1>5, <1>6, <1>7, <1>8, Zenon DEF Next

StoreTypes == disk \in Disk /\ copy \subseteq Ids

\* The directory stays one, and the entries held are ids.
LEMMA StoreTypesStay == StoreTypes /\ [Next]_vars => StoreTypes'
<1> SUFFICES ASSUME StoreTypes, [Next]_vars PROVE StoreTypes'
    OBVIOUS
<1>0. disk \in Disk /\ copy \subseteq Ids /\ disk.index \subseteq Ids
    BY DEF StoreTypes, Disk
<1> DEFINE Held == copy' \in {copy, disk'.index}
<1>1. ASSUME disk' \in Disk, Held PROVE StoreTypes'
    BY <1>0, <1>1 DEF StoreTypes, Disk
<1>2. CASE AppendTurn
    <2>1. PICK requested \in Ids :
            /\ PageId(disk.index, requested) \in Ids
            /\ \E o \in AppendPage(disk, copy, requested) : Restarted(o.disk) \/ Stored(o)
        BY <1>2, Zenon DEF AppendTurn
    <2>2. PICK o \in AppendPage(disk, copy, requested) : Restarted(o.disk) \/ Stored(o)
        BY <2>1
    <2>3. o.disk \in Disk /\ o.copy = o.disk.index
        BY <1>0, <2>1, AppendsKeepDisk
    <2> QED BY <1>1, <2>2, <2>3 DEF Restarted, Stored
<1>3. CASE AddRow
    <2>1. PICK now \in Ids : \E o \in AddTodo(disk, now) :
            o.disk.index \subseteq Ids /\ (Restarted(o.disk) \/ Stored(o))
        BY <1>3, Zenon DEF AddRow
    <2>2. PICK o \in AddTodo(disk, now) :
            o.disk.index \subseteq Ids /\ (Restarted(o.disk) \/ Stored(o))
        BY <2>1
    <2>3. o.disk \in Disk /\ o.copy = o.disk.index
        BY <1>0, <2>2, AddsKeepDisk
    <2> QED BY <1>1, <2>2, <2>3 DEF Restarted, Stored
<1>4. CASE OtherWriter
    <2>0. copy' = copy
        BY <1>4, Zenon DEF OtherWriter
    <2>1. \/ \E requested \in Ids : PageId(disk.index, requested) \in Ids
               /\ \E o \in AppendPage(disk, disk.index, requested) : disk' = o.disk
          \/ \E id \in disk.index : \E o \in ForgetPage(disk, id) \cup DropRow(disk, id) :
               disk' = o.disk
          \/ \E now \in Ids : \E o \in AddTodo(disk, now) :
               o.disk.index \subseteq Ids /\ disk' = o.disk
        BY <1>4, Zenon DEF OtherWriter
    <2>2. disk' \in Disk
        BY <1>0, <2>1, AppendsKeepDisk, RowsKeepDisk, AddsKeepDisk
    <2> QED BY <1>1, <2>0, <2>2
<1>5. CASE ListGesture \/ CrashInStrike
    <2>1. disk' \in Disk
        <3>1. CASE ActsOnRow
            <4>1. PICK number : \E id \in Numbered(number, disk.index) :
                                  \E o : RowActed(o, id) /\ disk' = o.disk
                BY <3>1, Zenon DEF ActsOnRow
            <4>2. PICK id \in Numbered(number, disk.index) :
                                  \E o : RowActed(o, id) /\ disk' = o.disk
                BY <4>1
            <4>3. PICK o \in ForgetPage(disk, id) \cup DropRow(disk, id) \cup ToggleTask(disk, id) :
                    disk' = o.disk
                BY <4>2 DEF RowActed
            <4>4. id \in Ids
                BY <1>0, <4>2, NumbersNameRows
            <4> QED BY <1>0, <4>3, <4>4, RowsKeepDisk
        <3> QED BY <1>0, <1>5, <3>1, ListsActOnRows
    <2>2. Held
        BY <1>0, <1>5, CopiesAreIndexes
    <2> QED BY <1>1, <2>1, <2>2
<1>6. CASE CrashInBoundary \/ PiGesture
    <2>1. \/ disk' = disk /\ copy' = copy
          \/ \E o \in BeginSession(disk, copy) : Restarted(o.disk) \/ Stored(o)
        BY <1>6, Zenon DEF CrashInBoundary, PiGesture, storeVars
    <2>2. CASE \E o \in BeginSession(disk, copy) : Restarted(o.disk) \/ Stored(o)
        <3>1. PICK o \in BeginSession(disk, copy) : Restarted(o.disk) \/ Stored(o)
            BY <2>2
        <3>2. o.disk \in Disk /\ o.copy \in {copy, o.disk.index}
            BY <1>0, BoundariesKeepDisk
        <3> QED BY <1>1, <3>1, <3>2 DEF Restarted, Stored
    <2> QED BY <1>0, <1>1, <2>1, <2>2
<1>7. CASE disk' = disk /\ copy' \in {copy, disk.index}
    BY <1>0, <1>1, <1>7
<1> QED BY <1>2, <1>3, <1>4, <1>5, <1>6, <1>7, OthersLeaveTheStore, OthersHoldTheirCopy

\* What a panel last drew, as far as TypeOK speaks of it.
Drawn(p) ==
    /\ {"kind", "page", "lines", "back"} \subseteq DOMAIN p
    /\ p.kind \in Kinds \cup {"none"} /\ p.page \in Nat /\ p.back \in BOOLEAN
    /\ Len(p.lines) \in Nat
    /\ p.kind = "Reader" => p.lines \in Seq(1..MaxBooks)

\* A panel of cards, or none, and what else is drawn of it later.
LEMMA CardsAreDrawn ==
    ASSUME NEW kind \in (Kinds \ Lists) \cup {"none"}, NEW values
    PROVE  /\ Drawn(Show(kind, 0, <<>>, values))
           /\ Drawn([Show(kind, 0, <<>>, values) EXCEPT !.back = TRUE])
           /\ \A said : Drawn([Show(kind, 0, <<>>, values) EXCEPT !.back = TRUE,
                                                                   !.status = said])
<1>1. kind # "Reader" /\ kind \in Kinds \cup {"none"}
    BY DEF Lists
<1>2. Drawn(Show(kind, 0, <<>>, values))
    BY <1>1 DEF Show, Drawn
<1>3. Drawn([Show(kind, 0, <<>>, values) EXCEPT !.back = TRUE])
    BY <1>1 DEF Show, Drawn
<1>4. ASSUME NEW said
      PROVE  Drawn([Show(kind, 0, <<>>, values) EXCEPT !.back = TRUE, !.status = said])
    BY <1>1 DEF Show, Drawn
<1> QED BY <1>2, <1>3, <1>4

\* No panel draws nothing.
LEMMA NoPanelIsDrawn == Drawn(NoPanel)
BY CardsAreDrawn DEF NoPanel

\* A list draws a page of its lines.
LEMMA ListsAreDrawn ==
    ASSUME NEW kind \in Lists, NEW page \in Nat, NEW lines, Len(lines) \in Nat,
           kind = "Reader" => lines \in Seq(1..MaxBooks)
    PROVE  Drawn(ShowList(kind, page, lines))
<1>1. DrawnPage(page, Len(lines)) \in Nat
    BY DrawnPagesAreNumbers
<1> QED BY <1>1 DEF ShowList, Show, Drawn, Kinds

\* A list of the stores draws their rows.
LEMMA StoresAreDrawn ==
    ASSUME NEW kind \in Lists \ {"Reader"}, NEW page \in Nat, NEW entries \in SUBSET Ids
    PROVE  Drawn(ShowList(kind, page, Rows(kind, entries)))
<1>1. Len(Rows(kind, entries)) \in Nat
    BY RowsAreListed
<1> QED BY <1>1, ListsAreDrawn

\* What a step does to a panel: it shows the same place of the same list, or no
\* contact is on it.
SamePlace ==
    panel'.kind = panel.kind /\ panel'.page = panel.page /\ panel'.lines = panel.lines

\* Values or a status drawn anew leave the place.
LEMMA NewValuesAreDrawn ==
    ASSUME Drawn(panel), NEW values, NEW said,
           \/ panel' = panel
           \/ panel' = [panel EXCEPT !.shown = values]
           \/ panel' = [panel EXCEPT !.status = said]
           \/ panel' = [panel EXCEPT !.shown = values, !.status = said]
    PROVE  Drawn(panel') /\ SamePlace
<1>1. CASE panel' = panel
    BY <1>1 DEF SamePlace
<1>2. CASE panel' = [panel EXCEPT !.shown = values]
    BY <1>2 DEF Drawn, SamePlace
<1>3. CASE panel' = [panel EXCEPT !.status = said]
    BY <1>3 DEF Drawn, SamePlace
<1>4. CASE panel' = [panel EXCEPT !.shown = values, !.status = said]
    BY <1>4 DEF Drawn, SamePlace
<1> QED BY <1>1, <1>2, <1>3, <1>4

\* A panel turns to another place only when its contact has ended or none was open.
LEMMA PanelsAreDrawn ==
    ASSUME Drawn(panel), StoreTypes, StoreTypes', [Next]_vars
    PROVE  Drawn(panel') /\ (SamePlace \/ NoneOpen \/ contact' = NoContact)
<1>0. copy \in SUBSET Ids /\ copy' \in SUBSET Ids
    BY DEF StoreTypes
<1>1. CASE Crash \/ CrashInStrike \/ CrashInBoundary
    <2>1. \E found : Restarted(found)
        BY <1>1, Zenon DEF Crash, CrashInStrike, CrashInBoundary
    <2>2. panel' = NoPanel /\ contact' = NoContact
        BY <2>1, Zenon DEF Restarted
    <2> QED BY <2>2, NoPanelIsDrawn
<1>2. CASE Write \/ OtherWriter \/ ReplyCleanup \/ ContactBegins \/ Background \/ ControlAnswers
    <2>1. panel' = panel
        BY <1>2, Zenon DEF Write, Quiet, OtherWriter, ReplyCleanup, ContactBegins, Background,
                           ControlAnswers, screenVars
    <2> QED BY <2>1, NewValuesAreDrawn
<1>3. CASE AppendTurn \/ AddRow
    <2>1. (panel' = NoPanel /\ contact' = NoContact) \/ panel' = panel
        BY <1>3, Zenon DEF AppendTurn, AddRow, Restarted, screenVars
    <2> QED BY <2>1, NoPanelIsDrawn, NewValuesAreDrawn
<1>4. CASE OpenList
    <2>1. NoneOpen /\ \E kind \in {"History", "Todo", "Task"} :
            panel' = ShowList(kind, 0, Rows(kind, copy))
        BY <1>4, Zenon DEF OpenList, Opened
    <2>2. Drawn(panel')
        BY <1>0, <2>1, StoresAreDrawn DEF Lists
    <2> QED BY <2>1, <2>2
<1>5. CASE OpenSettings \/ OpenFontList \/ OpenHelp
    <2>1. NoneOpen /\ \E kind \in {"Settings", "Font", "Help"} :
            \E values : panel' = Show(kind, 0, <<>>, values)
        BY <1>5, Zenon DEF OpenSettings, OpenFontList, OpenHelp, Opened
    <2>2. Drawn(panel')
        BY <2>1, CardsAreDrawn DEF Kinds, Lists
    <2> QED BY <2>1, <2>2
<1>6. CASE AskForBook
    <2>1. NoneOpen
          /\ \/ \E match \in [1..MaxBooks -> Ranks] : panel' = ShowList("Reader", 0, Offered(match))
             \/ panel' = panel
        BY <1>6, Zenon DEF AskForBook, Opened
    <2>2. CASE \E match \in [1..MaxBooks -> Ranks] : panel' = ShowList("Reader", 0, Offered(match))
        <3>1. PICK match \in [1..MaxBooks -> Ranks] : panel' = ShowList("Reader", 0, Offered(match))
            BY <2>2
        <3>2. Offered(match) \in Seq(1..MaxBooks)
            BY OfferedAreBooks
        <3>3. Drawn(panel')
            BY <3>1, <3>2, ListsAreDrawn DEF Lists
        <3> QED BY <2>1, <3>3
    <2> QED BY <2>1, <2>2
<1>7. CASE ControlPolled
    <2>1. panel' = panel \/ \E said : panel' = [panel EXCEPT !.status = said]
        BY <1>7, Zenon DEF ControlPolled
    <2> QED BY <2>1, NewValuesAreDrawn
<1>8. CASE ListGesture
    <2>1. panel.kind \in Lists \ {"Reader"} /\ contact' = NoContact
        BY <1>8, Zenon DEF ListGesture, ContactEnds
    <2>2. PICK g : ListAct(ListAction(g, panel.page, panel.kind),
                           TurnedPage(g, panel.page, panel.lines))
        BY <1>8, Zenon DEF ListGesture
    <2> DEFINE page == TurnedPage(g, panel.page, panel.lines)
    <2>3. page \in Nat
        BY TurnedPagesAreNumbers DEF Drawn
    <2>4. panel' = panel \/ panel' = NoPanel \/ panel' = Redrawn(copy', page)
        <3> DEFINE action == ListAction(g, panel.page, panel.kind)
        <3>1. ListAct(action, page)
            BY <2>2
        <3> HIDE DEF action, page
        <3>2. CASE ListRedrawn(page)
            BY <3>2 DEF ListRedrawn, storeVars
        <3>3. CASE NothingNumbered(page)
            BY <3>3 DEF NothingNumbered
        <3>4. CASE \E o : Struck(o, page)
            BY <3>4 DEF Struck, Stored
        <3> QED BY <3>1, <3>2, <3>3, <3>4, Zenon DEF ListAct, ListDismissed
    <2>5. Drawn(Redrawn(copy', page))
        <3> HIDE DEF page
        <3> QED BY <1>0, <2>1, <2>3, StoresAreDrawn DEF Redrawn
    <2> QED BY <2>1, <2>4, <2>5, NoPanelIsDrawn
<1>9. CASE ReaderGesture
    <2>1. panel.kind = "Reader" /\ contact' = NoContact
        BY <1>9, Zenon DEF ReaderGesture, ContactEnds
    <2>2. PICK g : \/ panel' = panel \/ panel' = NoPanel
                   \/ panel' = ShowList("Reader", TurnedPage(g, panel.page, panel.lines),
                                        panel.lines)
        BY <1>9, Zenon DEF ReaderGesture
    <2>3. Drawn(ShowList("Reader", TurnedPage(g, panel.page, panel.lines), panel.lines))
        BY <2>1, TurnedPagesAreNumbers, ListsAreDrawn DEF Drawn, Lists
    <2> QED BY <2>1, <2>2, <2>3, NoPanelIsDrawn
<1>10. CASE HelpGesture \/ HelpTimesOut
    <2>1. (panel' = panel \/ panel' = NoPanel) /\ contact' = NoContact
        BY <1>10, Zenon DEF HelpGesture, HelpTimesOut, ContactEnds
    <2> QED BY <2>1, NoPanelIsDrawn
<1>11. CASE SettingsGesture
    <2>1. contact' = NoContact
          /\ \/ panel' = panel \/ panel' = NoPanel
             \/ \E values : panel' = [panel EXCEPT !.shown = values]
             \/ panel' = [Show("Font", 0, <<>>, fonts.use) EXCEPT !.back = TRUE]
             \/ panel' = [Show("Pi", 0, <<>>, Loaded(pi.saved)) EXCEPT !.back = TRUE,
                                                                 !.status = "Starting"]
        BY <1>11, Zenon DEF SettingsGesture, UpdateValues, Nested, Dismissed, ContactEnds
    <2>2. "Font" \in Kinds \ Lists /\ "Pi" \in Kinds \ Lists
        BY DEF Kinds, Lists
    <2>3. CASE panel' = [Show("Font", 0, <<>>, fonts.use) EXCEPT !.back = TRUE]
        BY <2>1, <2>2, <2>3, CardsAreDrawn
    <2>4. CASE panel' = [Show("Pi", 0, <<>>, Loaded(pi.saved)) EXCEPT !.back = TRUE,
                                                                 !.status = "Starting"]
        BY <2>1, <2>2, <2>4, CardsAreDrawn
    <2> QED BY <2>1, <2>3, <2>4, NoPanelIsDrawn, NewValuesAreDrawn
<1>12. CASE FontGesture
    <2>1. contact' = NoContact
          /\ \/ panel' = panel \/ panel' = NoPanel
             \/ panel' = [panel EXCEPT !.shown = fonts'.use]
             \/ panel' = Show("Settings", 0, <<>>, prefs.use)
        BY <1>12, Zenon DEF FontGesture, FontShown, Dismissed, ContactEnds
    <2>2. "Settings" \in Kinds \ Lists
        BY DEF Kinds, Lists
    <2>3. Drawn(Show("Settings", 0, <<>>, prefs.use))
        BY <2>2, CardsAreDrawn
    <2> QED BY <2>1, <2>3, NoPanelIsDrawn, NewValuesAreDrawn
<1>13. CASE PiGesture
    <2>1. contact' = NoContact
          /\ \/ panel' = panel \/ panel' = Show("Settings", 0, <<>>, prefs.saved)
             \/ \E said : panel' = [panel EXCEPT !.status = said]
             \/ \E values, said : panel' = [panel EXCEPT !.shown = values, !.status = said]
        BY <1>13, Zenon DEF PiGesture, UpdatePi, ContactEnds
    <2>2. "Settings" \in Kinds \ Lists
        BY DEF Kinds, Lists
    <2>3. Drawn(Show("Settings", 0, <<>>, prefs.saved))
        BY <2>2, CardsAreDrawn
    <2> QED BY <2>1, <2>3, NewValuesAreDrawn
<1>14. CASE UNCHANGED vars
    <2>1. panel' = panel
        BY <1>14, Zenon DEF vars, screenVars
    <2> QED BY <2>1, NewValuesAreDrawn
<1> QED BY <1>1, <1>2, <1>3, <1>4, <1>5, <1>6, <1>7, <1>8, <1>9, <1>10, <1>11, <1>12, <1>13,
           <1>14, Zenon DEF Next

\* A contact is of a tool, on a spot there is on the panel that is open.
ContactFits == contact # NoContact => contact.tool \in Tools /\ contact.from \in Spots

\* A contact lies on what is drawn as long as it lasts.
LEMMA ContactsFit ==
    ASSUME Layered, Drawn(panel), StoreTypes, StoreTypes', ContactFits, [Next]_vars
    PROVE  ContactFits'
<1>1. topic' = topic
    BY TopicStays
<1>2. SamePlace \/ NoneOpen \/ contact' = NoContact
    BY PanelsAreDrawn
<1>3. SamePlace => Spots' = Spots
    <2>1. SamePlace => Cards' = Cards
        BY <1>1 DEF SamePlace, Cards
    <2> QED BY <2>1 DEF SamePlace, Spots
<1>4. CASE ContactBegins
    <2>1. SamePlace
        BY <1>4, Zenon DEF ContactBegins, SamePlace
    <2>2. PICK tool \in Tools, from \in Spots :
            LET preview == IF panel.kind \in Lists
                           THEN ListPreview(tool, from, panel.lines, panel.kind)
                           ELSE CardPreview(from)
            IN  contact' = [tool |-> tool, from |-> from, preview |-> preview]
        BY <1>4, Zenon DEF ContactBegins, Tools
    <2>3. contact'.tool \in Tools /\ contact'.from \in Spots
        BY <2>2
    <2> QED BY <1>3, <2>1, <2>3 DEF ContactFits
<1>5. CASE contact' = NoContact
    BY <1>5 DEF ContactFits, NoContact
<1>6. CASE contact' = contact /\ contact' # NoContact
    <2>1. SamePlace
        BY <1>2, <1>6 DEF Layered
    <2> QED BY <1>3, <1>6, <2>1 DEF ContactFits
<1> QED BY <1>4, <1>5, <1>6, ContactsBeginOnce

\* The commands of the agent's panel.
ControlTypes ==
    control \in [last : {"idle", "busy"} \cup Answers, prev : {"idle", "busy"} \cup Answers,
                 rx : {"none", "last", "prev"}]

\* Workers are idle, busy or have answered; a receiver is of one of them.
LEMMA ControlTypesStay == ControlTypes /\ [Next]_vars => ControlTypes'
<1> SUFFICES ASSUME ControlTypes, [Next]_vars PROVE ControlTypes'
    OBVIOUS
<1>0. NoControl \in [last : {"idle", "busy"} \cup Answers, prev : {"idle", "busy"} \cup Answers,
                     rx : {"none", "last", "prev"}]
      /\ Started \in [last : {"idle", "busy"} \cup Answers, prev : {"idle", "busy"} \cup Answers,
                     rx : {"none", "last", "prev"}]
    BY DEF NoControl, Started
<1>1. CASE ControlAnswers
    <2>1. PICK who \in {"last", "prev"}, answer \in Answers :
            control' = [control EXCEPT ![who] = answer]
        BY <1>1, Zenon DEF ControlAnswers
    <2> QED BY <2>1 DEF ControlTypes
<1>2. CASE ControlPolled
    <2>1. control' = [control EXCEPT !.rx = "none"]
        BY <1>2, Zenon DEF ControlPolled
    <2> QED BY <2>1 DEF ControlTypes
<1>3. CASE control' \in {control, NoControl, Started}
    BY <1>0, <1>3 DEF ControlTypes
<1>4. CASE Crash \/ CrashInStrike \/ CrashInBoundary
    <2>1. \E found : Restarted(found)
        BY <1>4, Zenon DEF Crash, CrashInStrike, CrashInBoundary
    <2> QED BY <1>3, <2>1 DEF Restarted
<1>5. CASE Write \/ OtherWriter \/ ReplyCleanup \/ ContactBegins \/ Background
    <2>1. control' = control
        BY <1>5, Zenon DEF Write, OtherWriter, ReplyCleanup, ContactBegins, Background
    <2> QED BY <1>3, <2>1
<1>6. CASE AppendTurn \/ AddRow
    <2>1. control' = control \/ control' = NoControl
        BY <1>6, Zenon DEF AppendTurn, AddRow, Restarted
    <2> QED BY <1>3, <2>1
<1>7. CASE OpenList \/ OpenSettings \/ OpenFontList \/ AskForBook \/ OpenHelp
    <2>1. control' = control
        BY <1>7, Zenon DEF OpenList, OpenSettings, OpenFontList, AskForBook, OpenHelp, Opened
    <2> QED BY <1>3, <2>1
<1>8. CASE ListGesture
    <2>1. PICK action, page : ListAct(action, page)
        BY <1>8, Zenon DEF ListGesture
    <2>2. control' = control \/ \E o : Struck(o, page)
        BY <2>1, Zenon DEF ListAct, ListDismissed, ListRedrawn, NothingNumbered
    <2>3. control' \in {control, Started}
        BY <2>2 DEF Struck
    <2> QED BY <1>3, <2>3
<1>9. CASE ReaderGesture \/ HelpGesture \/ HelpTimesOut \/ FontGesture
    <2>1. control' = control
        BY <1>9, Zenon DEF ReaderGesture, HelpGesture, HelpTimesOut, FontGesture
    <2> QED BY <1>3, <2>1
<1>10. CASE SettingsGesture
    <2>1. control' = control \/ control' = Started
        BY <1>10, Zenon DEF SettingsGesture
    <2> QED BY <1>3, <2>1
<1>11. CASE PiGesture
    <2>1. control' = control \/ control' = Started
          \/ \E o : control' = IF o.said = "ok" THEN Started ELSE control
        BY <1>11, Zenon DEF PiGesture
    <2> QED BY <1>3, <2>1
<1>12. CASE UNCHANGED vars
    BY <1>3, <1>12 DEF vars
<1> QED BY <1>1, <1>2, <1>4, <1>5, <1>6, <1>7, <1>8, <1>9, <1>10, <1>11, <1>12, Zenon DEF Next

\* The page under the panels, the book asked for, and the files that could not
\* be written.
BookTypes == sheet \in {"blank", "ink"} /\ reader \in 0..MaxBooks /\ unsaved \subseteq Files

\* A book that is requested is one of those offered (open_reader_target).
LEMMA BookTypesStay == BookTypes /\ Drawn(panel) /\ [Next]_vars => BookTypes'
<1> SUFFICES ASSUME BookTypes, Drawn(panel), [Next]_vars PROVE BookTypes'
    OBVIOUS
<1> DEFINE Same == sheet' = sheet /\ reader' = reader /\ unsaved' = unsaved
<1>0. ASSUME Same PROVE BookTypes'
    BY <1>0 DEF BookTypes
<1>1. ASSUME NEW found, Restarted(found) PROVE BookTypes'
    BY <1>1 DEF Restarted, BookTypes
<1> HIDE DEF Same
<1>2. CASE Crash \/ CrashInStrike \/ CrashInBoundary
    <2>1. \E found : Restarted(found)
        BY <1>2, Zenon DEF Crash, CrashInStrike, CrashInBoundary
    <2> QED BY <1>1, <2>1
<1>3. CASE Write
    BY <1>3 DEF Write, BookTypes, choiceVars
<1>4. CASE AppendTurn \/ AddRow
    <2>1. (\E found : Restarted(found)) \/ Same
        BY <1>4, Zenon DEF AppendTurn, AddRow, choiceVars, screenVars, Same
    <2> QED BY <1>0, <1>1, <2>1
<1>5. CASE OtherWriter \/ ReplyCleanup \/ OpenList \/ OpenSettings \/ OpenFontList
    <2>1. Same
        BY <1>5, Zenon DEF OtherWriter, ReplyCleanup, OpenList, OpenSettings, OpenFontList, Opened,
                           choiceVars, screenVars, Same
    <2> QED BY <1>0, <2>1
<1>6. CASE AskForBook
    <2>1. sheet' = sheet /\ unsaved' = unsaved
        BY <1>6, Zenon DEF AskForBook, Opened, choiceVars
    <2>2. reader' = reader \/ \E match \in [1..MaxBooks -> Ranks] :
                                Len(Offered(match)) = 1 /\ reader' = Offered(match)[1]
        BY <1>6, Zenon DEF AskForBook
    <2>3. reader' \in 0..MaxBooks
        <3>1. CASE \E match \in [1..MaxBooks -> Ranks] :
                     Len(Offered(match)) = 1 /\ reader' = Offered(match)[1]
            <4>1. PICK match \in [1..MaxBooks -> Ranks] :
                     Len(Offered(match)) = 1 /\ reader' = Offered(match)[1]
                BY <3>1
            <4>2. Offered(match) \in Seq(1..MaxBooks)
                BY OfferedAreBooks
            <4> QED BY <4>1, <4>2
        <3> QED BY <2>2, <3>1 DEF BookTypes
    <2> QED BY <2>1, <2>3 DEF BookTypes
<1>7. CASE OpenHelp
    BY <1>7 DEF OpenHelp, BookTypes, choiceVars
<1>8. CASE ContactBegins \/ Background \/ ControlAnswers \/ ControlPolled
    <2>1. Same
        BY <1>8, Zenon DEF ContactBegins, Background, ControlAnswers, ControlPolled, choiceVars,
                           screenVars, Same
    <2> QED BY <1>0, <2>1
<1>9. CASE ListGesture \/ HelpGesture \/ HelpTimesOut
    <2>1. Same
        BY <1>9, Zenon DEF ListGesture, HelpGesture, HelpTimesOut, choiceVars, Same
    <2> QED BY <1>0, <2>1
<1>10. CASE ReaderGesture
    <2>1. /\ sheet' = sheet /\ unsaved' = unsaved /\ panel.kind = "Reader"
          /\ reader' = reader
             \/ \E number \in DOMAIN panel.lines : reader' = panel.lines[number]
        BY <1>10, Zenon DEF ReaderGesture, choiceVars
    <2>2. panel.lines \in Seq(1..MaxBooks)
        BY <2>1 DEF Drawn
    <2> QED BY <2>1, <2>2 DEF BookTypes
<1>11. CASE SettingsGesture \/ FontGesture \/ PiGesture
    <2>1. sheet' = sheet /\ reader' = reader
        BY <1>11, Zenon DEF SettingsGesture, FontGesture, PiGesture
    <2>2. \/ unsaved' = unsaved
          \/ \E file \in Files : Wrote(file) \/ FailedToWrite(file)
        <3>1. CASE SettingsGesture
            <4>1. unsaved' = unsaved \/ Wrote("settings") \/ FailedToWrite("settings")
                BY <3>1, Zenon DEF SettingsGesture, UpdateValues, Nested, Dismissed, choiceVars
            <4> QED BY <4>1 DEF Files
        <3>2. CASE FontGesture
            <4>1. unsaved' = unsaved \/ \E file \in {"font", "scales"} :
                                          Wrote(file) \/ FailedToWrite(file)
                BY <3>2, Zenon DEF FontGesture, SelectFace, SetScale, Dismissed, choiceVars
            <4> QED BY <4>1 DEF Files
        <3>3. CASE PiGesture
            <4>1. unsaved' = unsaved \/ Wrote("pi") \/ FailedToWrite("pi")
                BY <3>3, Zenon DEF PiGesture, UpdatePi, choiceVars
            <4> QED BY <4>1 DEF Files
        <3> QED BY <1>11, <3>1, <3>2, <3>3
    <2>3. unsaved' \subseteq Files
        BY <2>2 DEF Wrote, FailedToWrite, BookTypes
    <2> QED BY <2>1, <2>3 DEF BookTypes
<1>12. CASE UNCHANGED vars
    <2>1. Same
        BY <1>12, Zenon DEF vars, choiceVars, screenVars, Same
    <2> QED BY <1>0, <2>1
<1> QED BY <1>2, <1>3, <1>4, <1>5, <1>6, <1>7, <1>8, <1>9, <1>10, <1>11, <1>12, Zenon DEF Next

\* Types: the parts together.
TypeInv ==
    /\ Promised /\ Layered /\ ChoiceInv /\ StoreTypes /\ Drawn(panel) /\ ContactFits
    /\ ControlTypes /\ BookTypes /\ topic \in Topics

\* All of it at first.
LEMMA InitTypes == Init => TypeInv
<1> SUFFICES ASSUME Init PROVE TypeInv
    OBVIOUS
<1>1. /\ topic \in Topics
      /\ disk \in [index : IF topic = "Tasks" THEN {{1, 2}} ELSE {{}},
                   strokes : {{}}, floor : {0}, paused : {{}}]
      /\ copy = disk.index /\ control = NoControl /\ panel = NoPanel /\ contact = NoContact
      /\ sheet = "blank" /\ reader = 0 /\ unsaved = {}
    BY Zenon DEF Init
<1>2. Promised /\ Layered /\ ChoiceInv
    BY InitPromised, InitLayered, InitChoices
<1>3. disk.index \subseteq Ids
    BY <1>2 DEF Promised, Kept
<1>4. disk \in Disk
    BY <1>1, <1>3 DEF Disk
<1>5. StoreTypes
    BY <1>1, <1>3, <1>4 DEF StoreTypes
<1>6. Drawn(panel) /\ ContactFits
    BY <1>1, NoPanelIsDrawn DEF ContactFits
<1>7. ControlTypes
    BY <1>1 DEF ControlTypes, NoControl
<1>8. BookTypes
    BY <1>1 DEF BookTypes
<1> QED BY <1>1, <1>2, <1>5, <1>6, <1>7, <1>8 DEF TypeInv

\* All of it is kept by every step.
LEMMA TypeInvIsKept == TypeInv /\ [Next]_vars => TypeInv'
<1> SUFFICES ASSUME TypeInv, [Next]_vars PROVE TypeInv'
    OBVIOUS
<1>1. Promised' /\ Layered' /\ ChoiceInv' /\ StoreTypes'
    BY PromisedIsKept, LayeredIsKept, ChoiceInvIsKept, StoreTypesStay DEF TypeInv
<1>2. Drawn(panel')
    BY <1>1, PanelsAreDrawn DEF TypeInv
<1>3. ContactFits'
    BY <1>1, ContactsFit DEF TypeInv
<1>4. ControlTypes' /\ BookTypes'
    BY ControlTypesStay, BookTypesStay DEF TypeInv
<1>5. topic' \in Topics
    BY TopicStays DEF TypeInv
<1>6. Drawn(panel)'
    BY <1>2 DEF Drawn
<1> QED BY <1>1, <1>3, <1>4, <1>5, <1>6 DEF TypeInv

\* Every variable keeps its type: the stores hold ids, a panel shows a page of
\* its list, a contact lies on what is drawn, the agent's profile has a level
\* its provider knows.
THEOREM TypesAreKept == Spec => []TypeOK
<1>1. TypeInv => TypeOK
    <2> SUFFICES ASSUME TypeInv PROVE TypeOK
        OBVIOUS
    <2>1. topic \in Topics /\ disk \in Disk /\ copy \subseteq Ids
        BY DEF TypeInv, StoreTypes
    <2>2. /\ prefs.use \in Values /\ prefs.saved \in Values /\ prefs.debt \in 0..MaxEvery
          /\ fonts.use \in FontValues /\ fonts.saved \in FontValues
          /\ pi.saved \in PiStored /\ pi.profile \in PiValues
        BY DEF TypeInv, ChoiceInv, PrefsInv, FontsInv, PiInv
    <2>3. /\ panel.kind = "Pi" => panel.shown \in PiStored
          /\ panel.kind = "Font" => panel.shown \in FontValues
          /\ panel.kind = "Settings" => panel.shown \in Values
        BY <2>2 DEF TypeInv, ChoiceInv, Reflects
    <2>4. panel.kind \in Kinds \cup {"none"} /\ panel.page \in Nat /\ panel.back \in BOOLEAN
        BY DEF TypeInv, Drawn
    <2>5. contact # NoContact => contact.tool \in Tools /\ contact.from \in Spots
        BY DEF TypeInv, ContactFits
    <2>6. layers.ui = panel.kind
        BY DEF TypeInv, Layered
    <2>7. sheet \in {"blank", "ink"} /\ reader \in 0..MaxBooks /\ unsaved \subseteq Files
        BY DEF TypeInv, BookTypes
    <2>8. kept \subseteq Ids /\ old \subseteq Ids
        BY <2>1 DEF TypeInv, Promised, PagesSurvive, Disk
    <2> QED BY <2>1, <2>2, <2>3, <2>4, <2>5, <2>6, <2>7, <2>8 DEF TypeOK, TypeInv, ControlTypes
<1> QED BY <1>1, InitTypes, TypeInvIsKept, PTL DEF Spec

=============================================================================
