------------------------------ MODULE Notebook ------------------------------
(***************************************************************************)
(* The stores MagicPaper keeps on the tablet: the remembered pages         *)
(* (src/storage/memory.rs) with their dialogue boundary, the todos and the *)
(* tasks as the paper lists see them.  Each is a directory with an index,  *)
(* a lock and, for pages, one file of strokes per page.                    *)
(*                                                                         *)
(* An operation holds the lock from its reload to its end, so no other     *)
(* process comes between its steps; what can come between is the end of    *)
(* this process.  An operation is therefore the set of its outcomes: what  *)
(* the directory holds, which entries the process holds afterwards, and    *)
(* "ok", "failed" (one of its file operations failed) or "crash" (the      *)
(* process ended after some of its steps).  Every id is larger than those  *)
(* before it, so the order of the file is the order of the ids.            *)
(*                                                                         *)
(* One file operation fails at a time: what a store does after a failure   *)
(* (take strokes back, reload its index) succeeds.  A store that cannot be *)
(* locked or read at all fails with nothing changed.                       *)
(***************************************************************************)
EXTENDS Naturals, FiniteSets

CONSTANTS MaxId,           \* bound: ids and clock values
          MaxPages,        \* MAX_MEMORIES
          HistoryVisible,  \* HISTORY_VISIBLE, and rows of the history
          MaxTodos         \* MAX_TODOS

ASSUME NotebookAssumption ==
    MaxId \in Nat /\ MaxPages \in Nat \ {0} /\ HistoryVisible \in Nat /\ MaxTodos \in Nat

Ids == 1..MaxId

\* One directory.  "paused": the tasks that are disabled.
Disk == [index : SUBSET Ids, strokes : SUBSET Ids, floor : 0..MaxId, paused : SUBSET Ids]

Outcome(disk, said) == [disk |-> disk, copy |-> disk.index, said |-> said]

\* lock_exclusive or load_unlocked fails: the entries held stay what they were.
Unread(disk, entries) == [disk |-> disk, copy |-> entries, said |-> "failed"]

Newer(entries, id) == {other \in entries : other > id}
Newest(entries, n) == {id \in entries : Cardinality(Newer(entries, id)) < n}
LastId(entries)    == IF entries = {} THEN 0
                      ELSE CHOOSE id \in entries : Newer(entries, id) = {}

\* atomic_write of the new contents "after": it may fail before the rename or,
\* as the directory is synced last, after it.
Replaced(before, after) ==
    {Outcome(after, "ok"), Outcome(before, "failed"), Outcome(after, "failed"),
     Outcome(before, "crash"), Outcome(after, "crash")}

\* persist of a list of todos or tasks
SaveIndex(disk, entries) ==
    Replaced(disk, [disk EXCEPT !.index = entries, !.paused = @ \cap entries])

-----------------------------------------------------------------------------
(* Pages.                                                                  *)

\* The id try_append takes for a page that asks for one.
PageId(entries, requested) ==
    IF entries # {} /\ requested <= LastId(entries) THEN LastId(entries) + 1 ELSE requested

WithStrokes(disk, id)     == [disk EXCEPT !.strokes = @ \cup {id}]
WithoutStrokes(disk, ids) == [disk EXCEPT !.strokes = @ \ ids]
Indexed(disk, entries)    == [disk EXCEPT !.index = entries]

\* Mutation: the index names the page before its strokes are written.
AppendIndexFirst(disk, entries, requested) ==
    LET id        == PageId(disk.index, requested)
        kept      == Newest(disk.index \cup {id}, MaxPages)
        published == Indexed(disk, kept)
        written   == WithStrokes(published, id)
    IN  {Outcome(WithoutStrokes(written, disk.index \ kept), "ok"),
         Outcome(disk, "failed"), Outcome(disk, "crash"),
         Outcome(published, "crash"), Outcome(written, "crash")}

\* Mutation: the page is added to the entries this process loaded earlier.
AppendWithoutReload(disk, entries, requested) ==
    LET id        == PageId(entries, requested)
        kept      == Newest(entries \cup {id}, MaxPages)
        written   == WithStrokes(disk, id)
        published == Indexed(written, kept)
    IN  {Outcome(WithoutStrokes(published, entries \ kept), "ok"),
         Outcome(WithoutStrokes(written, {id}), "failed"),
         Outcome(disk, "crash"), Outcome(written, "crash"), Outcome(published, "crash")}

\* try_append: strokes, then the index, then the strokes of the pages that fell
\* out of it (one of which may refuse to go).  Strokes no index refers to are
\* taken back unless the failed index write turns out to be published.  Outside:
\* a second fault, the reload that is to find that out failing too, which takes
\* back the strokes of a published page.
AppendPage(disk, entries, requested) ==
    LET id        == PageId(disk.index, requested)
        kept      == Newest(disk.index \cup {id}, MaxPages)
        written   == WithStrokes(disk, id)
        published == Indexed(written, kept)
        pruned    == WithoutStrokes(published, disk.index \ kept)
    IN  {Outcome(pruned, "ok"), Outcome(published, "ok"),
         Outcome(WithoutStrokes(written, {id}), "failed"), Outcome(published, "failed"),
         Outcome(disk, "crash"), Outcome(written, "crash"),
         Outcome(published, "crash"), Outcome(pruned, "crash")}

\* delete_number of a page: the index, then its strokes, which may stay behind.
ForgetPage(disk, id) ==
    LET cut  == Indexed(disk, disk.index \ {id})
        gone == WithoutStrokes(cut, {id})
    IN  {Outcome(gone, "ok"), Outcome(cut, "ok"), Outcome(disk, "failed"),
         Outcome(cut, "failed"), Outcome(disk, "crash"), Outcome(cut, "crash"),
         Outcome(gone, "crash")}

\* Mutation: the boundary is taken from the entries loaded earlier.
BeginSessionFromCopy(disk, entries) ==
    Replaced(disk, [disk EXCEPT !.floor = LastId(entries)])

\* begin_dialogue_session
BeginSession(disk, entries) ==
    Replaced(disk, [disk EXCEPT !.floor = LastId(disk.index)]) \cup {Unread(disk, entries)}

\* recent_dialogue, before it is cut to so many turns and bytes.  A boundary
\* that cannot be read withholds everything.
RecentDialogue(disk, entries) == {id \in entries : id > disk.floor}

-----------------------------------------------------------------------------
(* Todos and tasks.                                                        *)

\* add_from_transcript at time "now"; a full list refuses.
AddTodo(disk, now) ==
    LET id == IF LastId(disk.index) + 1 > now THEN LastId(disk.index) + 1 ELSE now
    IN  IF Cardinality(disk.index) >= MaxTodos THEN {Outcome(disk, "failed")}
        ELSE SaveIndex(disk, disk.index \cup {id})

\* delete_number of a todo or a task
DropRow(disk, id) == SaveIndex(disk, disk.index \ {id})

\* toggle_number
ToggleTask(disk, id) ==
    Replaced(disk, [disk EXCEPT !.paused = IF id \in @ THEN @ \ {id} ELSE @ \cup {id}])

=============================================================================
