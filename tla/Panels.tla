------------------------------- MODULE Panels -------------------------------
(***************************************************************************)
(* The panels that lie over the page and what they change (src/app/lists,  *)
(* settings_controller, pi_settings_controller, layers, refresh_controller *)
(* and the stores behind them): lists of pages, todos, tasks and books,    *)
(* the guide, the settings with the fonts and the Pi agent beneath them.   *)
(*                                                                         *)
(* A panel is drawn when it opens and after most gestures, from what the   *)
(* process holds in memory; a gesture acts on a store, which another       *)
(* process may have changed meanwhile; the process may end at any time.    *)
(* The reactor is one thread: a handler is one action.  "topic" is what    *)
(* the writer is busy with in one behaviour, which keeps stores that do    *)
(* not touch each other apart.                                             *)
(***************************************************************************)
EXTENDS Notebook, PanelWidgets

CONSTANTS Topics,     \* bound: what a writer may be busy with
          MaxEvery,   \* MAX_FULL_REFRESH_INTERVAL, or a bound on it
          Faces,      \* the handwriting fonts, numbered
          Scales,     \* bound: sizes of a font
          MaxBooks    \* bound: books in the catalog

ASSUME PanelsAssumption ==
    /\ MaxEvery \in Nat /\ MaxBooks \in Nat /\ Faces \subseteq Nat /\ Scales \subseteq Nat
    /\ "Tasks" \in Topics => MaxId >= 2    \* there are two tasks at first

VARIABLES topic,
          disk, copy,             \* the directory of the topic's store, and the
                                  \* entries this process holds
          prefs, fonts, pi,       \* UserPreferences with the refresh debt, FontBook,
                                  \* PiPreferences with the agent's profile
          control,                \* control_rx and the workers that serve it
          panel, contact, layers, \* State's panel, modal_contact, ModalLayers
          sheet,                  \* what the page under the panels holds
          reader,                 \* the book requested from the manager, 0 for none
          kept, old, unsaved      \* ghosts: pages that must not be lost; pages put
                                  \* behind the boundary; files whose last write failed

storeVars  == <<disk, copy, kept, old>>
choiceVars == <<prefs, fonts, pi, unsaved>>
screenVars == <<panel, contact, layers, sheet>>
vars == <<topic, storeVars, choiceVars, control, screenVars, reader>>

\* The topics that share the store of pages: one strikes them, the other begins
\* new sessions.
PageTopics == {"Pages", "Session"}

Lists == {"History", "Todo", "Task", "Reader"}
Kinds == Lists \cup {"Help", "Settings", "Font", "Pi"}
Answers == {"Online", "NetworkError"}

Values     == [strong : BOOLEAN, every : 0..MaxEvery]
FontValues == [face : Faces, scale : [Faces -> Scales]]

\* PiThinking::next for each provider: what the packaged catalog accepts.
Levels(provider) == IF provider = "DeepSeek" THEN <<"off", "high", "max">>
                                             ELSE <<"off", "xhigh", "max">>
PiStored == [provider : {"DeepSeek", "OpenAi"}, tools : BOOLEAN,
             thinking : {"off", "high", "xhigh", "max"}]
PiValues == {v \in PiStored : v.thinking \in Range(Levels(v.provider))}

\* What a panel last drew: the page of a list and all its lines, or the values
\* of a panel of settings; "back": it returns to Settings; the agent's status.
Show(kind, page, lines, shown) ==
    [kind |-> kind, page |-> page, lines |-> lines, shown |-> shown, back |-> FALSE,
     status |-> "Waiting"]
DefaultValues == [strong |-> TRUE, every |-> 0]
NoPanel == Show("none", 0, <<>>, DefaultValues)
ShowList(kind, page, lines) == Show(kind, DrawnPage(page, Len(lines)), lines, DefaultValues)

NoContact == [tool |-> "none", from |-> Blank, preview |-> "none"]

NoControl == [last |-> "idle", prev |-> "idle", rx |-> "none"]

FreshLayers == [paper |-> "blank", ui |-> "none", front |-> "blank", mark |-> FALSE]

Init ==
    /\ topic \in Topics
    /\ disk \in [index : IF topic = "Tasks" THEN {{1, 2}} ELSE {{}},
                 strokes : {{}}, floor : {0}, paused : {{}}]
    /\ copy = disk.index
    /\ prefs = [use |-> DefaultValues, saved |-> DefaultValues, debt |-> 0]
    /\ fonts \in {[use |-> v, saved |-> v] :
                    v \in {w \in FontValues : w.face = Min(Faces)
                                              /\ \A f \in Faces : w.scale[f] = Min(Scales)}}
    /\ pi \in {[saved |-> v, profile |-> v] :
                 v \in {[provider |-> "OpenAi", tools |-> TRUE, thinking |-> "off"]}}
    /\ control = NoControl /\ panel = NoPanel /\ contact = NoContact
    /\ layers = FreshLayers /\ sheet = "blank" /\ reader = 0
    /\ kept = {} /\ old = {} /\ unsaved = {}

-----------------------------------------------------------------------------
(* ModalLayers.                                                            *)

\* Mutation: every panel saves what lies on the screen as the page.
ReplaceSavesAlways(kind) ==
    [paper |-> layers.front, ui |-> kind, front |-> kind, mark |-> FALSE]

\* replace_ui and compose_all: the page is saved beneath the first panel only.
ReplaceUi(kind) ==
    [paper |-> IF layers.ui = "none" THEN layers.front ELSE layers.paper,
     ui |-> kind, front |-> kind, mark |-> FALSE]

\* with_ui and compose_all; an absent layer is not drawn on.
RedrawUi(kind) ==
    IF layers.ui = "none" THEN [layers EXCEPT !.front = layers.paper, !.mark = FALSE]
    ELSE [layers EXCEPT !.ui = kind, !.front = kind, !.mark = FALSE]

DismissUi == [layers EXCEPT !.ui = "none", !.front = layers.paper, !.mark = FALSE]

\* clear_preview
ClearPreview ==
    [layers EXCEPT !.front = IF layers.ui = "none" THEN layers.paper ELSE layers.ui,
                   !.mark = FALSE]

-----------------------------------------------------------------------------
(* Restarts.                                                               *)

\* Mutation: a level only the other provider knows is kept.
ThinkingIsKept(thinking, provider) == thinking

\* PiThinking::normalized
Normalized(thinking, provider) ==
    IF thinking \in Range(Levels(provider)) THEN thinking ELSE "off"

\* PiPreferences::open: the file as it is read.
Loaded(stored) == [stored EXCEPT !.thinking = Normalized(stored.thinking, stored.provider)]

\* UserPreferences::open and FontBook::open: what was saved is in effect.
PrefsOpened == [use |-> prefs.saved, saved |-> prefs.saved, debt |-> 0]
FontsOpened == [use |-> fonts.saved, saved |-> fonts.saved]

\* The process starts again over what it finds: no panel, no debt, the choices
\* that were saved.
Restarted(found) ==
    /\ disk' = found /\ copy' = found.index
    /\ prefs' = PrefsOpened /\ fonts' = FontsOpened
    /\ pi' = [saved |-> pi.saved, profile |-> Loaded(pi.saved)]
    /\ unsaved' = {} /\ control' = NoControl
    /\ panel' = NoPanel /\ contact' = NoContact
    /\ layers' = FreshLayers /\ sheet' = "blank" /\ reader' = 0

Crash == Restarted(disk) /\ UNCHANGED <<topic, kept, old>>

\* An outcome of a store operation, unless it is the end of the process.
Stored(o) == disk' = o.disk /\ copy' = o.copy

-----------------------------------------------------------------------------
(* What happens on the page, without a panel.                              *)

NoneOpen == panel.kind = "none"
Quiet == UNCHANGED <<panel, contact>>

\* The writer's ink on the page; bound: not with pages, which have stores enough.
Write ==
    /\ topic \notin PageTopics /\ NoneOpen /\ sheet' \in {"blank", "ink"} \ {sheet}
    /\ layers' = [layers EXCEPT !.front = sheet']
    /\ Quiet /\ UNCHANGED <<topic, storeVars, choiceVars, control, reader>>

\* What the ghosts make of a page appended with this id: the oldest may fall
\* out, and only a page whose keeping was confirmed must be found again.
Remembers(o, id) ==
    LET stays == Newest(disk.index \cup {id}, MaxPages)
    IN  /\ kept' = (IF o.said = "ok" THEN kept \cup {id} ELSE kept) \cap stays
        /\ old' = old \cap o.disk.index

\* persist_user_turn.  The id was asked of the clock and of the entries held.
AppendTurn ==
    /\ topic \in PageTopics /\ NoneOpen
    /\ \E requested \in Ids :
         /\ requested > LastId(copy) /\ PageId(disk.index, requested) \in Ids
         /\ \E o \in AppendPage(disk, copy, requested) :
              /\ Remembers(o, PageId(disk.index, requested))
              /\ \/ o.said = "crash" /\ Restarted(o.disk)
                 \/ o.said # "crash" /\ Stored(o)
                    /\ UNCHANGED <<choiceVars, control, screenVars, reader>>
    /\ UNCHANGED topic

\* accept_transcript or apply_local_command: a todo (or a task) is added.
AddRow ==
    /\ topic \in {"Todos", "Tasks"} /\ NoneOpen
    /\ \E now \in Ids : \E o \in AddTodo(disk, now) :
         /\ o.disk.index \subseteq Ids
         /\ \/ o.said = "crash" /\ Restarted(o.disk)
            \/ o.said # "crash" /\ Stored(o)
               /\ UNCHANGED <<choiceVars, control, screenVars, reader>>
    /\ UNCHANGED <<topic, kept, old>>

\* Another process over the same store: the tests keep two, and the locks and
\* reloads are there for it.  It may end in the middle as well.
OtherWriter ==
    /\ topic \in PageTopics \cup {"Todos", "Tasks"}
    /\ \/ /\ topic \in PageTopics
          /\ \E requested \in Ids :
               /\ PageId(disk.index, requested) \in Ids
               /\ \E o \in AppendPage(disk, disk.index, requested) :
                    disk' = o.disk /\ Remembers(o, PageId(disk.index, requested))
       \/ /\ topic \in PageTopics
          /\ \E id \in disk.index : \E o \in ForgetPage(disk, id) :
               disk' = o.disk /\ kept' = kept \ {id} /\ old' = old \cap o.disk.index
       \/ /\ topic \notin PageTopics
          /\ \/ \E now \in Ids : \E o \in AddTodo(disk, now) :
                  o.disk.index \subseteq Ids /\ disk' = o.disk
             \/ \E id \in disk.index : \E o \in DropRow(disk, id) : disk' = o.disk
          /\ UNCHANGED <<kept, old>>
    /\ UNCHANGED <<topic, copy, choiceVars, control, screenVars, reader>>

\* next_reply_cleanup_intent: the debt after one more reply, 0 after a full
\* refresh.
NextDebt(debt, every) ==
    IF every = 0 THEN debt ELSE IF debt + 1 >= every THEN 0 ELSE debt + 1

\* present_reply_cleanup, or a refreshing directive
ReplyCleanup ==
    /\ topic = "Settings" /\ NoneOpen
    /\ \E debt \in {NextDebt(prefs.debt, prefs.use.every), 0} :
         prefs' = [prefs EXCEPT !.debt = debt]
    /\ UNCHANGED <<topic, storeVars, fonts, pi, unsaved, control, screenVars, reader>>

-----------------------------------------------------------------------------
(* Opening a panel: consume_first_event, open_gesture_help.                *)

\* The lines a list of the store shows.
Rows(kind, entries) ==
    IF kind = "History"
    THEN InOrder(Newest(entries, HistoryVisible), LAMBDA a, b : a > b)
    ELSE InOrder(entries, LAMBDA a, b : a < b)

Opened(shown) ==
    /\ NoneOpen /\ panel' = shown /\ layers' = ReplaceUi(shown.kind)
    /\ UNCHANGED <<topic, storeVars, choiceVars, control, contact>>

OpenList ==
    /\ \E kind \in {"History", "Todo", "Task"} :
         /\ topic = CASE kind = "History" -> "Pages" [] kind = "Todo" -> "Todos"
                      [] OTHER -> "Tasks"
         /\ Opened(ShowList(kind, 0, Rows(kind, copy)))
    /\ UNCHANGED <<sheet, reader>>

OpenSettings ==
    /\ topic \in {"Session", "Settings", "Fonts", "Pi"}
    /\ Opened(Show("Settings", 0, <<>>, prefs.use))
    /\ UNCHANGED <<sheet, reader>>

OpenFontList ==
    /\ topic = "Fonts" /\ Opened(Show("Font", 0, <<>>, fonts.use))
    /\ UNCHANGED <<sheet, reader>>

\* request_reader_query: one book is requested, several are offered, and
\* otherwise an excuse is written.
AskForBook ==
    /\ topic = "Books" /\ NoneOpen
    /\ \E match \in [1..MaxBooks -> Ranks] :
         LET found == Offered(match)
         IN  \/ Len(found) > 1 /\ Opened(ShowList("Reader", 0, found)) /\ UNCHANGED reader
             \/ Len(found) = 1 /\ reader' = found[1]
                /\ UNCHANGED <<topic, storeVars, choiceVars, control, panel, contact, layers>>
    /\ UNCHANGED sheet

\* The guide, by a directive or by a lone question mark, which is rubbed out.
OpenHelp ==
    /\ topic = "Guide" /\ NoneOpen
    /\ sheet' \in {sheet, "blank"}
    /\ panel' = Show("Help", 0, <<>>, DefaultValues)
    /\ layers' = [ReplaceUi("Help") EXCEPT !.paper = sheet']
    /\ UNCHANGED <<topic, storeVars, choiceVars, control, contact, reader>>

-----------------------------------------------------------------------------
(* A contact on a panel.                                                   *)

\* The cards a writer with this topic goes to.
Cards ==
    LET of(places) == {Spot(place, 1) : place \in places}
    IN  CASE panel.kind = "Settings" ->
                 {Blank} \cup of(CASE topic = "Settings" -> {"strong", "every", "refresh",
                                                             "fonts", "pi"}
                                   [] topic = "Fonts"    -> {"fonts"}
                                   [] OTHER              -> {"pi"})
          [] panel.kind = "Font" ->
                 {Blank} \cup (IF topic # "Fonts" THEN {}
                               ELSE {Spot(place, f) : place \in {"face", "scale"}, f \in Faces})
          [] panel.kind = "Pi" ->
                 {Blank, Spot("inert", 1)} \cup
                 of(CASE topic = "Pi"    -> {"provider", "thinking", "tools", "test", "restart"}
                      [] topic = "Session" -> {"session"}
                      [] OTHER           -> {})
          [] OTHER -> {Blank, Spot("close", 1), Spot("inert", 1)}   \* the guide

Spots == IF panel.kind \in Lists THEN ListSpots(panel.page, panel.lines, panel.kind) ELSE Cards

\* begin_modal_contact; a second contact is ignored.  Cards do not tell a finger
\* from a pen.
ContactBegins ==
    /\ ~NoneOpen /\ contact = NoContact
    /\ \E tool \in (IF panel.kind \in Lists THEN Tools ELSE {"finger"}), from \in Spots :
         LET preview == IF panel.kind \in Lists
                        THEN ListPreview(tool, from, panel.lines, panel.kind)
                        ELSE CardPreview(from)
         IN  /\ contact' = [tool |-> tool, from |-> from, preview |-> preview]
             /\ layers' = [layers EXCEPT !.mark = preview # "none"]
    /\ UNCHANGED <<topic, storeVars, choiceVars, control, panel, sheet, reader>>

\* finish_modal_contact takes the contact and clears its preview first; what the
\* handler draws comes on top of that.
ContactEnds == contact # NoContact /\ contact' = NoContact

\* cancel_modal_contact, when the application is sent to the background.  The
\* panel stays.
Background ==
    /\ ContactEnds /\ layers' = ClearPreview
    /\ UNCHANGED <<topic, storeVars, choiceVars, control, panel, sheet, reader>>

\* start_agent_control with a configured agent (without one, or with the
\* deterministic oracle, nothing is started); an earlier command's answer is no
\* longer received.
\* Mutation: the receiver of a command that was not answered yet is kept.
StartedBehindEarlier ==
    [last |-> "busy", prev |-> control.last,
     rx |-> IF control.rx = "none" THEN "last" ELSE "prev"]

Started == [last |-> "busy", prev |-> "idle", rx |-> "last"]

\* A worker (run_control) has its answer, at the latest after its timeout; bound:
\* too late for a writer who begins sessions.
ControlAnswers ==
    /\ topic # "Session"
    /\ \E who \in {"last", "prev"} : \E answer \in Answers :
         control[who] = "busy" /\ control' = [control EXCEPT ![who] = answer]
    /\ UNCHANGED <<topic, storeVars, choiceVars, screenVars, reader>>

\* poll_agent_control and set_status: only the panel of the agent shows it.
ControlPolled ==
    /\ control.rx # "none" /\ control[control.rx] # "busy"
    /\ control' = [control EXCEPT !.rx = "none"]
    /\ IF panel.kind = "Pi"
       THEN /\ panel' = [panel EXCEPT !.status = control[control.rx]]
            /\ layers' = RedrawUi("Pi")
       ELSE UNCHANGED <<panel, layers>>
    /\ UNCHANGED <<topic, storeVars, choiceVars, contact, sheet, reader>>

-----------------------------------------------------------------------------
(* The end of a contact on a list: finish_stored_list_stroke.              *)

\* The row the store knows by this number: delete_number, toggle_number.
Numbered(number, entries) ==
    LET rows == Rows(panel.kind, entries)
    IN  {id \in entries : number \in DOMAIN rows /\ rows[number] = id}

Redrawn(entries, page) == ShowList(panel.kind, page, Rows(panel.kind, entries))

ListDismissed ==
    /\ panel' = NoPanel /\ layers' = DismissUi
    /\ UNCHANGED <<storeVars, control>>

ListRedrawn(page) ==
    /\ panel' = Redrawn(copy, page) /\ layers' = RedrawUi(panel.kind)
    /\ UNCHANGED <<storeVars, control>>

\* A number no row has: the store is reloaded, and nothing is struck.
NothingNumbered(page) ==
    /\ copy' = disk.index
    /\ panel' = Redrawn(disk.index, page) /\ layers' = RedrawUi(panel.kind)
    /\ UNCHANGED <<disk, kept, old, control>>

\* delete_stored_row: a struck page also resets the agent's conversation.
Struck(o, page) ==
    /\ Stored(o) /\ panel' = Redrawn(o.copy, page) /\ layers' = RedrawUi(panel.kind)
    /\ control' = IF panel.kind = "History" /\ o.said = "ok" THEN Started ELSE control

ListAct(action, page) ==
    \/ action.do = "nothing"
       /\ layers' = ClearPreview /\ UNCHANGED <<storeVars, control, panel>>
    \/ action.do = "dismiss" /\ ListDismissed
    \/ action.do = "redraw" /\ ListRedrawn(page)
    \* the store could not be locked or read: its error is logged
    \/ action.do \in {"delete", "toggle"} /\ ListRedrawn(page)
    \/ /\ action.do \in {"delete", "toggle"} /\ Numbered(action.number, disk.index) = {}
       /\ NothingNumbered(page)
    \/ /\ action.do = "delete"
       /\ \E id \in Numbered(action.number, disk.index) :
          \E o \in (IF panel.kind = "History" THEN ForgetPage(disk, id) ELSE DropRow(disk, id)) :
            /\ o.said # "crash" /\ Struck(o, page)
            /\ kept' = kept \ {id} /\ old' = old \cap o.disk.index
    \/ /\ action.do = "toggle"
       /\ \E id \in Numbered(action.number, disk.index) :
          \E o \in ToggleTask(disk, id) :
            o.said # "crash" /\ Struck(o, page) /\ UNCHANGED <<kept, old>>

\* The contact's gesture on a list of the stores.
ListGesture ==
    /\ panel.kind \in Lists \ {"Reader"} /\ ContactEnds
    /\ \E g \in Released(contact.preview, contact.tool, contact.from) :
         ListAct(ListAction(g, panel.page, panel.kind), TurnedPage(g, panel.page, panel.lines))
    /\ UNCHANGED <<topic, choiceVars, sheet, reader>>

\* ... in whose middle the process ends, as it may while it writes a boundary.
CrashInBoundary ==
    /\ panel.kind = "Pi" /\ contact.from.place = "session"
    /\ \E o \in BeginSession(disk, copy) : o.said = "crash" /\ Restarted(o.disk)
    /\ UNCHANGED <<topic, kept, old>>

CrashInStrike ==
    /\ panel.kind \in Lists \ {"Reader"} /\ contact # NoContact
    /\ \E g \in Released(contact.preview, contact.tool, contact.from) :
       LET action == ListAction(g, panel.page, panel.kind)
       IN  \E id \in Numbered(action.number, disk.index) :
             \/ /\ action.do = "delete"
                /\ \E o \in (IF panel.kind = "History" THEN ForgetPage(disk, id)
                                                       ELSE DropRow(disk, id)) :
                     /\ o.said = "crash" /\ Restarted(o.disk)
                     /\ kept' = kept \ {id} /\ old' = old \cap o.disk.index
             \/ /\ action.do = "toggle"
                /\ \E o \in ToggleTask(disk, id) : o.said = "crash" /\ Restarted(o.disk)
                /\ UNCHANGED <<kept, old>>
    /\ UNCHANGED topic

\* finish_reader_stroke, with open_reader_target for a chosen book.
ReaderGesture ==
    /\ panel.kind = "Reader" /\ ContactEnds
    /\ \E g \in Released(contact.preview, contact.tool, contact.from) :
       LET action == ListAction(g, panel.page, "Reader")
           page   == TurnedPage(g, panel.page, panel.lines)
       IN  \/ /\ action.do = "select" /\ action.number \in DOMAIN panel.lines
              /\ reader' = panel.lines[action.number]
              /\ panel' = NoPanel /\ layers' = DismissUi
           \/ /\ action.do = "dismiss" /\ panel' = NoPanel /\ layers' = DismissUi
              /\ UNCHANGED reader
           \/ /\ action.do = "redraw" \/ (action.do = "select"
                                          /\ action.number \notin DOMAIN panel.lines)
              /\ panel' = ShowList("Reader", page, panel.lines) /\ layers' = RedrawUi("Reader")
              /\ UNCHANGED reader
           \/ action.do = "nothing" /\ layers' = ClearPreview /\ UNCHANGED <<panel, reader>>
    /\ UNCHANGED <<topic, storeVars, choiceVars, control, sheet>>

-----------------------------------------------------------------------------
(* The guide.                                                              *)

\* finish_help_gesture: its button, or a tap beside it.
HelpGesture ==
    /\ panel.kind = "Help" /\ ContactEnds
    /\ \/ contact.from.place # "inert" /\ panel' = NoPanel /\ layers' = DismissUi
       \/ layers' = ClearPreview /\ UNCHANGED panel
    /\ UNCHANGED <<topic, storeVars, choiceVars, control, sheet, reader>>

\* tick_help waits for the contact.
HelpTimesOut ==
    /\ panel.kind = "Help" /\ contact = NoContact
    /\ panel' = NoPanel /\ layers' = DismissUi
    /\ UNCHANGED <<topic, storeVars, choiceVars, control, contact, sheet, reader>>

-----------------------------------------------------------------------------
(* The settings.                                                           *)

\* A file of choices is replaced by a rename: it holds the old or the new.  The
\* rename is the last step, except for the agent's file.
Wrote(file) == unsaved' = unsaved \ {file}
FailedToWrite(file) == unsaved' = unsaved \cup {file}

\* Mutation: the interval changes under a debt that was counted for another.
ReplaceKeepsDebt(values) == prefs.debt

\* replace_values: the debt of another interval is dropped.
ReplacedDebt(values) == IF values.every # prefs.use.every THEN 0 ELSE prefs.debt

\* update_values: in effect at once, on disk if it can be written.
UpdateValues(values) ==
    /\ \/ Wrote("settings")
          /\ prefs' = [use |-> values, saved |-> values, debt |-> ReplacedDebt(values)]
       \/ FailedToWrite("settings")
          /\ prefs' = [prefs EXCEPT !.use = values, !.debt = ReplacedDebt(values)]
    /\ panel' = [panel EXCEPT !.shown = values] /\ layers' = RedrawUi("Settings")
    /\ UNCHANGED <<fonts, pi>>

Nested(shown) ==
    /\ panel' = [shown EXCEPT !.back = TRUE] /\ layers' = ReplaceUi(shown.kind)
    /\ UNCHANGED choiceVars

Dismissed == panel' = NoPanel /\ layers' = DismissUi /\ UNCHANGED choiceVars

\* finish_settings_stroke
SettingsGesture ==
    /\ panel.kind = "Settings" /\ ContactEnds
    /\ \E do \in CardActions(contact.from) :
         \/ do = "strong" /\ UpdateValues([prefs.use EXCEPT !.strong = ~panel.shown.strong])
            /\ UNCHANGED control
         \/ do = "every" /\ UNCHANGED control
            /\ \E n \in 0..MaxEvery : UpdateValues([prefs.use EXCEPT !.every = n])
         \/ do = "refresh" /\ prefs' = [prefs EXCEPT !.debt = 0] /\ layers' = ClearPreview
            /\ UNCHANGED <<panel, fonts, pi, unsaved, control>>
         \/ do = "fonts" /\ Nested(Show("Font", 0, <<>>, fonts.use)) /\ UNCHANGED control
         \/ do = "pi" /\ pi' = [pi EXCEPT !.profile = Loaded(pi.saved)]     \* a first TestConnection
            /\ panel' = [Show("Pi", 0, <<>>, Loaded(pi.saved)) EXCEPT !.back = TRUE,
                                                              !.status = "Starting"]
            /\ layers' = ReplaceUi("Pi") /\ control' = Started
            /\ UNCHANGED <<prefs, fonts, unsaved>>
         \/ do = "dismiss" /\ Dismissed /\ UNCHANGED control
         \/ do = "redraw" /\ panel' = [panel EXCEPT !.shown = prefs.use]
            /\ layers' = RedrawUi("Settings") /\ UNCHANGED <<choiceVars, control>>
         \/ do = "nothing" /\ layers' = ClearPreview
            /\ UNCHANGED <<panel, choiceVars, control>>
    /\ UNCHANGED <<topic, storeVars, sheet, reader>>

\* Mutation: only the size that was changed is written.
SavesOneScale(face) ==
    [fonts.saved EXCEPT !.scale = [f \in Faces |-> IF f = face THEN fonts.use.scale[f]
                                                   ELSE Min(Scales)]]

\* set_scale_percent writes the sizes of all fonts into one file.
SavedScales(face) == [fonts.saved EXCEPT !.scale = fonts.use.scale]

FontShown == panel' = [panel EXCEPT !.shown = fonts'.use] /\ layers' = RedrawUi("Font")

\* select and set_scale_percent: what cannot be saved stays for this session.
SelectFace(face) ==
    LET use   == [fonts.use EXCEPT !.face = face]
        saved == [fonts.saved EXCEPT !.face = face]
    IN  \/ Wrote("font") /\ fonts' = [use |-> use, saved |-> saved]
        \/ FailedToWrite("font") /\ fonts' = [fonts EXCEPT !.use = use]

SetScale(face, percent) ==
    LET use   == [fonts.use EXCEPT !.scale[face] = percent]
        saved == [SavedScales(face) EXCEPT !.scale[face] = percent]
    IN  \/ Wrote("scales") /\ fonts' = [use |-> use, saved |-> saved]
        \/ FailedToWrite("scales") /\ fonts' = [fonts EXCEPT !.use = use]

\* finish_font_stroke
FontGesture ==
    /\ panel.kind = "Font" /\ ContactEnds
    /\ \E do \in CardActions(contact.from) :
         \/ do = "face" /\ SelectFace(contact.from.row) /\ FontShown /\ UNCHANGED <<prefs, pi>>
         \/ do = "scale" /\ UNCHANGED <<prefs, pi>>
            /\ (\E percent \in Scales : SetScale(contact.from.row, percent)) /\ FontShown
         \/ do = "redraw" /\ UNCHANGED choiceVars /\ FontShown
         \/ do = "dismiss" /\ panel.back
            /\ panel' = Show("Settings", 0, <<>>, prefs.use) /\ layers' = RedrawUi("Settings")
            /\ UNCHANGED choiceVars
         \/ do = "dismiss" /\ ~panel.back /\ Dismissed
         \/ do = "nothing" /\ layers' = ClearPreview /\ UNCHANGED <<panel, choiceVars>>
    /\ UNCHANGED <<topic, storeVars, control, sheet, reader>>

-----------------------------------------------------------------------------
(* The Pi agent.                                                           *)

Other(provider) == IF provider = "DeepSeek" THEN "OpenAi" ELSE "DeepSeek"

\* PiThinking::next
NextLevel(thinking, provider) ==
    LET levels == Levels(provider)
        at == CHOOSE i \in DOMAIN levels : levels[i] = thinking
    IN  IF thinking \notin Range(levels) THEN "off" ELSE levels[(at % Len(levels)) + 1]

\* The values after a tap on a card: one field of the file as it is now.
Chosen(do) ==
    LET now      == Loaded(pi.saved)
        provider == Other(panel.shown.provider)
    IN  CASE do = "provider" -> [now EXCEPT
                 !.provider = provider, !.thinking = Normalized(now.thinking, provider)]
          [] do = "thinking" -> [now EXCEPT
                 !.thinking = NextLevel(panel.shown.thinking, panel.shown.provider)]
          [] do = "tools"    -> [now EXCEPT !.tools = ~panel.shown.tools]

\* update, and the profile loaded after it: a write that fails shows the old
\* values, though it is published when only the directory could not be synced.
UpdatePi(values) ==
    LET shows(v) == panel' = [panel EXCEPT !.shown = v, !.status = "Starting"]
    IN  \/ Wrote("pi") /\ shows(values)
           /\ pi' = [saved |-> values, profile |-> Loaded(values)]
        \/ FailedToWrite("pi") /\ shows(Loaded(pi.saved))
           /\ \E found \in {pi.saved, values} :
                pi' = [saved |-> found, profile |-> Loaded(found)]

\* finish_stroke and finish_list_gesture: a changed card, or a test, makes the
\* agent load the profile on disk; a new session needs its boundary first.
PiGesture ==
    /\ panel.kind = "Pi" /\ ContactEnds
    /\ \E do \in CardActions(contact.from) :
         \/ /\ do \in {"provider", "thinking", "tools"}
            /\ UpdatePi(Chosen(do)) /\ layers' = RedrawUi("Pi") /\ control' = Started
            /\ UNCHANGED <<storeVars, prefs, fonts>>
         \/ /\ do \in {"test", "restart"}
            /\ pi' = IF do = "test" THEN [pi EXCEPT !.profile = Loaded(pi.saved)] ELSE pi
            /\ panel' = [panel EXCEPT !.status = "Starting"]
            /\ layers' = RedrawUi("Pi") /\ control' = Started
            /\ UNCHANGED <<storeVars, prefs, fonts, unsaved>>
         \/ /\ do = "session" /\ layers' = RedrawUi("Pi")
            /\ \E o \in BeginSession(disk, copy) :
                 /\ o.said # "crash" /\ Stored(o)
                 /\ panel' = [panel EXCEPT !.status = IF o.said = "ok" THEN "Starting"
                                                      ELSE "StorageError"]
                 /\ control' = IF o.said = "ok" THEN Started ELSE control
                 /\ old' = IF o.said = "ok" THEN disk.index ELSE old
            /\ UNCHANGED <<kept, choiceVars>>
         \/ /\ do = "dismiss" /\ panel' = Show("Settings", 0, <<>>, prefs.saved)
            /\ layers' = RedrawUi("Settings") /\ UNCHANGED <<storeVars, choiceVars, control>>
         \/ /\ do = "redraw"
            /\ panel' = [panel EXCEPT !.shown = Loaded(pi.saved), !.status = "Waiting"]
            /\ layers' = RedrawUi("Pi") /\ UNCHANGED <<storeVars, choiceVars, control>>
         \/ /\ do = "nothing" /\ layers' = ClearPreview
            /\ UNCHANGED <<panel, storeVars, choiceVars, control>>
    /\ UNCHANGED <<topic, sheet, reader>>

-----------------------------------------------------------------------------
Next == \/ Crash \/ Write \/ AppendTurn \/ AddRow \/ OtherWriter \/ ReplyCleanup
        \/ OpenList \/ OpenSettings \/ OpenFontList \/ AskForBook \/ OpenHelp
        \/ ContactBegins \/ Background \/ ControlAnswers \/ ControlPolled
        \/ ListGesture \/ CrashInStrike \/ CrashInBoundary \/ ReaderGesture
        \/ HelpGesture \/ HelpTimesOut
        \/ SettingsGesture \/ FontGesture \/ PiGesture

Spec == Init /\ [][Next]_vars

-----------------------------------------------------------------------------
(* Properties.                                                             *)

Files == {"settings", "font", "scales", "pi"}

\* Every variable keeps its type.  The agent's profile has a level of thinking
\* its provider knows, whatever the file holds after a failed write.
TypeOK ==
    /\ topic \in Topics /\ disk \in Disk /\ copy \subseteq Ids
    /\ prefs.use \in Values /\ prefs.saved \in Values /\ prefs.debt \in 0..MaxEvery
    /\ fonts.use \in FontValues /\ fonts.saved \in FontValues
    /\ pi.saved \in PiStored /\ pi.profile \in PiValues
    /\ control \in [last : {"idle", "busy"} \cup Answers, prev : {"idle", "busy"} \cup Answers,
                     rx : {"none", "last", "prev"}]
    /\ panel.kind \in Kinds \cup {"none"} /\ panel.page \in Nat /\ panel.back \in BOOLEAN
    /\ panel.kind = "Pi" => panel.shown \in PiStored
    /\ panel.kind = "Font" => panel.shown \in FontValues
    /\ panel.kind = "Settings" => panel.shown \in Values
    /\ contact # NoContact => contact.tool \in Tools /\ contact.from \in Spots
    /\ layers.ui = panel.kind /\ sheet \in {"blank", "ink"}
    /\ reader \in 0..MaxBooks /\ kept \subseteq Ids /\ old \subseteq Ids /\ unsaved \subseteq Files

\* Every page the index names has its strokes, wherever an append or a deletion
\* ends and whichever one of its file operations fails: a page that is listed
\* can be shown (try_append, delete_number).  Two failures in one append, of the
\* index after its rename and of the reload, are outside (memory.rs:239-245).
IndexHasStrokes == topic \in PageTopics => disk.index \subseteq disk.strokes

\* A page whose keeping was reported stays until the writer strikes it or enough
\* newer pages push it out, whoever appended in between (try_append reloads
\* under the lock).
PagesSurvive == kept \subseteq disk.index

\* After a new session was confirmed, no page from before it is given to the
\* agent again, whichever process appended it (begin_dialogue_session).
BoundaryHolds == old \cap RecentDialogue(disk, copy) = {}

\* What a contact did to a row: the ids that left the store or changed their
\* pause, or the book that was requested.
Hit == (disk.index \ disk'.index)
       \cup ((disk.paused \ disk'.paused) \cup (disk'.paused \ disk.paused))
       \cup (IF reader' # reader /\ reader' # 0 THEN {reader'} ELSE {})

\* A stroke or a tap acts on the row it was made on, on every page of a list, if
\* nobody changed the store since the list was drawn (RowNumber, delete_number).
StrikeHitsTheRow ==
    [][\A kind \in Lists :
         /\ panel.kind = kind /\ contact # NoContact /\ contact'= NoContact
         /\ kind = "Reader" \/ panel.lines = Rows(kind, disk.index)
         => Hit \subseteq (IF contact.from.row = 0 THEN {}
                          ELSE {LineAt(panel.page, panel.lines, contact.from.row)})]_vars

\* What is seen is the top panel, and the page as it was when the last panel
\* goes, through nested panels, gestures and recalls; a preview lies on the
\* screen only while its contact lasts (ModalLayers).
PaperIsRestored ==
    /\ layers.front = IF NoneOpen THEN sheet ELSE panel.kind
    /\ ~NoneOpen => layers.paper = sheet
    /\ layers.mark => contact # NoContact

\* What a panel of settings shows is what is in effect, and what is in effect
\* is what a restart finds, for every file whose last write was confirmed.
ChoicesStick ==
    /\ panel.kind = "Settings" /\ "settings" \notin unsaved => panel.shown = prefs.use
    /\ panel.kind = "Font" => panel.shown = fonts.use
    /\ panel.kind = "Pi" /\ "pi" \notin unsaved => Loaded(panel.shown) = pi.profile
    /\ "settings" \notin unsaved => prefs.use = prefs.saved
    /\ "font" \notin unsaved => fonts.use.face = fonts.saved.face
    /\ "scales" \notin unsaved => fonts.use.scale = fonts.saved.scale
    /\ pi.profile = Loaded(pi.saved)

\* An answer of the agent shown on its panel is that of the last command that was
\* started, never of one that was superseded, and "Starting" is shown only while
\* that answer is awaited (start_agent_control, poll_agent_control), for an agent
\* that is configured.  A new session whose boundary failed starts no command:
\* its error gives way to the answer of the command before it.
StatusIsOfLastCommand ==
    /\ panel.kind = "Pi" /\ panel.status \in Answers => panel.status = control.last
    /\ panel.kind = "Pi" /\ panel.status = "Starting" => control.rx = "last"

\* The replies counted since the last full refresh stay below the interval, also
\* when the interval changes: the next full refresh is never overdue.
DebtBelowInterval == prefs.use.every > 0 => prefs.debt < prefs.use.every

=============================================================================
