----------------------------- MODULE SharedFile -----------------------------
(***************************************************************************)
(* One project file that agents write through the author tools, a user     *)
(* edits in a tab that saves itself, and programs outside change: the      *)
(* write path of the backend (api/runtime/_file_writes.py), the state      *)
(* versions (api/runtime/__init__.py), the file watcher's thread           *)
(* (routes/workflow_watcher.py) and the tab of the browser (the file-tab   *)
(* actions of the store and the handler of file.changed).                  *)
(*                                                                         *)
(* A content is a number no other content has; a modification time is the  *)
(* value of a clock that every write to the disk advances.  A move is, for *)
(* one file, a delete or a create.  Directories, links, lint and the       *)
(* reload of drop-in blocks are left out; a reload only takes time before  *)
(* the event, which any step of another actor can fill.                    *)
(***************************************************************************)
EXTENDS Integers, Sequences, FiniteSets

CONSTANTS
    Agents,         \* callers of the author tools, one call at a time each
    MaxCalls,       \* bound: calls that write, create or delete the file
    MaxOutside,     \* bound: edits and deletions by programs outside, and lapsed marks, together
    MaxTyped,       \* bound: changes the user types
    MaxSaves,       \* bound: saves of the tab
    EventsPerChange \* bound: events one change of the file makes, or those of several that merge

ASSUME AgentsAssumption == "tab" \notin Agents
ASSUME BoundsAssumption == {MaxCalls, MaxOutside, MaxTyped, MaxSaves, EventsPerChange} \subseteq Nat

VARIABLES
    disk,       \* content and modification time of the file, 0 and 0 when there is none
    clock,      \* the last modification time given
    made,       \* the last content made
    ver,        \* _entity_versions
    seen,       \* _entity_disk_versions
    mark,       \* _first_party_entity_writes: NoMark, Pending, or the time of the file (0: deleted)
    selfw,      \* the file on disk is in the watcher's _self_writes (its cap of 32 is never reached)
    fs,         \* how many events of each kind the watcher's thread has not handled yet
    watch,      \* what that thread is doing: nothing, an event past the filters, a payload to send
    debounce,   \* a recent event of the file went through
    phase,      \* where each write request is
    req,        \* each write request: operation, expected version or NoCheck, content
    temp,       \* the time of the temporary file of the writer that holds the lock
    know,       \* what each agent read last: version and content
    tab,        \* the FileTab: content, versions, pending source id (or 0), dirty, conflict
    gets,       \* requests for the file by the tab
    put,        \* the answer to its save: the content sent and the version, or Failed
    ws,         \* the file.changed events on their way to the browser
    typed,      \* how much the user typed
    saves,      \* how many saves the tab sent: the source id of the last one
    calls,      \* how many calls the agents made
    foreign,    \* the contents programs outside made
    outside,    \* how often a program outside edited the file, or deleted it
    uncounted,  \* what was on disk went before its version, that readers anticipate, was counted
    told,       \* how often the watcher announced a change of the file it looked at
    lapsed,     \* how many writes under way lost their first mark to time
    held        \* the remote contents the tab holds as conflicts with what the user typed

diskVars   == <<disk, clock, made>>
stateVars  == <<ver, seen>>
watchVars  == <<fs, watch, debounce>>
writeVars  == <<phase, req, temp, calls>>
tabVars    == <<tab, gets, put, typed, saves>>
ghostVars  == <<foreign, outside, uncounted, told, lapsed, held>>
vars == <<diskVars, stateVars, mark, selfw, watchVars, writeVars, know, tabVars, ws, ghostVars>>

Writers == Agents \cup {"tab"}
None    == -1
Failed  == -2
NoCheck == -1
NoMark  == -2
Pending == -1
Unread  == -1
NoAnswer == [c |-> 0, v |-> None]

Exists  == disk.c # 0
Holding == {w \in Writers : phase[w] \in {"checked", "staged", "renamed", "replaced"}}

-----------------------------------------------------------------------------
(* The versions.                                                           *)

\* bump_entity_version
Bump == ver' = ver + 1 /\ seen' = disk.t

\* observed_entity_version: an edit the watcher has not delivered counts as one version.
Unobserved == Exists /\ disk.t > seen
Observed   == IF Unobserved THEN ver + 1 ELSE ver

\* check_write_preconditions, and the existence checks of delete_project_path.
Passes(r) ==
    /\ r.op = "create" => ~Exists
    /\ r.op = "delete" => Exists
    /\ r.expect # NoCheck => (Exists \/ r.expect = 0) /\ Observed = r.expect

\* absorb_unobserved_disk_edit
Absorb    == IF Unobserved THEN Bump ELSE UNCHANGED stateVars

-----------------------------------------------------------------------------
\* The file has been opened in the tab: the first look at it gave it version 1.
OpenTab == [c |-> 1, base |-> 1, pend |-> 1, src |-> 0, dirty |-> FALSE, conflict |-> FALSE]

Init ==
    /\ disk = [c |-> 1, t |-> 1] /\ clock = 1 /\ made = 1
    /\ ver = 1 /\ seen = 1 /\ mark = NoMark /\ selfw = FALSE
    /\ fs = [changed |-> 0, deleted |-> 0] /\ watch = [s |-> "idle"] /\ debounce = FALSE
    /\ phase = [w \in Writers |-> "idle"]
    /\ req = [w \in Writers |-> [op |-> "none"]] /\ temp = 0 /\ calls = 0
    /\ know = [a \in Agents |-> [v |-> None, c |-> 0]]
    /\ tab = OpenTab /\ gets = {} /\ put = NoAnswer /\ typed = 0 /\ saves = 0
    /\ ws = <<>>
    /\ foreign = {} /\ outside = 0 /\ uncounted = FALSE /\ told = 0 /\ lapsed = 0 /\ held = {}

NewContent == made' = made + 1

-----------------------------------------------------------------------------
(* Programs outside, and time.                                             *)

EditOutside ==
    /\ outside + lapsed < MaxOutside /\ NewContent
    /\ clock' = clock + 1 /\ disk' = [c |-> made', t |-> clock']
    /\ fs' = [fs EXCEPT !.changed = EventsPerChange] /\ selfw' = FALSE
    /\ foreign' = foreign \cup {made'} /\ outside' = outside + 1
    /\ UNCHANGED <<stateVars, mark, watch, debounce, writeVars, know, tabVars, ws, uncounted, told, lapsed, held>>

DeleteOutside ==
    /\ outside + lapsed < MaxOutside /\ Exists
    /\ disk' = [c |-> 0, t |-> 0] /\ fs' = [fs EXCEPT !.deleted = 1] /\ outside' = outside + 1
    /\ selfw' = FALSE /\ uncounted' = (uncounted \/ Unobserved)
    /\ UNCHANGED <<clock, made, stateVars, mark, watch, debounce, writeVars, know, tabVars, ws,
                   foreign, told, lapsed, held>>

\* A first-party mark is too old to count, even that of a write not done yet.
Writing == \E w \in Writers : phase[w] \in {"staged", "renamed"}
Expire ==
    /\ mark # NoMark /\ mark' = NoMark
    /\ IF mark = Pending /\ Writing THEN outside + lapsed < MaxOutside /\ lapsed' = lapsed + 1
       ELSE UNCHANGED lapsed
    /\ UNCHANGED <<diskVars, stateVars, selfw, watchVars, writeVars, know, tabVars, ws,
                   foreign, outside, uncounted, told, held>>

-----------------------------------------------------------------------------
(* An agent: read_file takes the version, then the content, in a thread;   *)
(* patch_file does the same before it writes.                              *)

ReadVersion(a) ==
    /\ phase[a] = "idle" /\ Exists /\ know[a].c # Unread
    /\ know' = [know EXCEPT ![a] = [v |-> Observed, c |-> Unread]]
    /\ UNCHANGED <<diskVars, stateVars, mark, selfw, watchVars, writeVars, tabVars, ws, ghostVars>>

ReadContent(a) ==
    /\ know[a].c = Unread
    /\ know' = [know EXCEPT ![a] = IF Exists THEN [@ EXCEPT !.c = disk.c] ELSE [v |-> None, c |-> 0]]
    /\ UNCHANGED <<diskVars, stateVars, mark, selfw, watchVars, writeVars, tabVars, ws, ghostVars>>

\* write_file, patch_file and delete_path, based on what was read, or a file created;
\* write_text checks once before it waits for the lock.
Call(a, op) ==
    /\ phase[a] = "idle" /\ know[a].c # Unread
    /\ calls < MaxCalls /\ calls' = calls + 1
    /\ LET r == [op |-> op, expect |-> IF op = "create" THEN NoCheck ELSE know[a].v,
                 c |-> IF op = "delete" THEN 0 ELSE made + 1]
       IN  /\ op \in {"write", "delete"} => know[a].c # 0
           /\ Passes(r)
           /\ req' = [req EXCEPT ![a] = r]
    /\ phase' = [phase EXCEPT ![a] = "waiting"]
    /\ IF op = "delete" THEN UNCHANGED made ELSE NewContent
    /\ UNCHANGED <<disk, clock, stateVars, mark, selfw, watchVars, temp, know, tabVars, ws, ghostVars>>

-----------------------------------------------------------------------------
(* The write path.  The event loop does nothing else while it answers a    *)
(* read; project_mutation_lock is held from the check to the event, across *)
(* the worker threads that write and lint.                                 *)

LoopFree == \A g \in gets : g.s # "read"

Forget(w) == know' = IF w = "tab" THEN know ELSE [know EXCEPT ![w] = [v |-> None, c |-> 0]]

Answered(w, v) ==
    /\ phase' = [phase EXCEPT ![w] = "idle"] /\ req' = [req EXCEPT ![w] = [op |-> "none"]]
    /\ put' = IF w = "tab" THEN [c |-> req[w].c, v |-> v] ELSE put

EnterAt(w, free) ==
    /\ phase[w] = "waiting" /\ free /\ LoopFree
    /\ IF Passes(req[w])
       THEN Absorb /\ phase' = [phase EXCEPT ![w] = "checked"] /\ UNCHANGED <<req, put, know>>
       ELSE Answered(w, Failed) /\ Forget(w) /\ UNCHANGED stateVars
    /\ UNCHANGED <<diskVars, mark, selfw, watchVars, temp, calls, tab, gets, typed, saves, ws, ghostVars>>
EnterAnytime(w) == EnterAt(w, TRUE)         \* faulty: no lock
Enter(w) == EnterAt(w, Holding = {})

\* The thread writes the temporary file and marks the file.
Stage(w) ==
    /\ phase[w] = "checked" /\ req[w].op # "delete"
    /\ clock' = clock + 1 /\ temp' = clock'
    /\ mark' = Pending /\ selfw' = Exists
    /\ phase' = [phase EXCEPT ![w] = "staged"]
    /\ UNCHANGED <<disk, made, stateVars, watchVars, req, calls, know, tabVars, ws, ghostVars>>

\* os.replace.  From here to the second mark only the first one shields the file.
Rename(w) ==
    /\ phase[w] = "staged"
    /\ disk' = [c |-> req[w].c, t |-> temp] /\ temp' = 0
    /\ fs' = [fs EXCEPT !.changed = EventsPerChange] /\ selfw' = FALSE
    /\ phase' = [phase EXCEPT ![w] = "renamed"] /\ uncounted' = (uncounted \/ Unobserved)
    /\ UNCHANGED <<clock, made, stateVars, mark, watch, debounce, req, calls, know, tabVars, ws,
                   foreign, outside, told, lapsed, held>>

\* The second mark is of the file that is there now, whoever wrote it.
RemarkAs(w, marked) ==
    /\ phase[w] = "renamed" /\ selfw' = marked
    /\ phase' = [phase EXCEPT ![w] = "replaced"]
    /\ UNCHANGED <<diskVars, stateVars, mark, watchVars, req, temp, calls, know, tabVars, ws, ghostVars>>
RemarkNot(w) == RemarkAs(w, selfw)      \* faulty: marks the file before the rename only
Remark(w) == RemarkAs(w, Exists)

\* _delete_on_disk, which marks nothing; a file that has gone fails the call.
Remove(w) ==
    /\ phase[w] = "checked" /\ req[w].op = "delete"
    /\ IF Exists
       THEN /\ disk' = [c |-> 0, t |-> 0] /\ fs' = [fs EXCEPT !.deleted = 1]
            /\ phase' = [phase EXCEPT ![w] = "replaced"] /\ selfw' = FALSE /\ UNCHANGED <<req, put, know>>
       ELSE Answered(w, Failed) /\ Forget(w) /\ UNCHANGED <<disk, fs, selfw>>
    /\ UNCHANGED <<clock, made, stateVars, mark, watch, debounce, temp, calls, tab, gets, typed, saves, ws, ghostVars>>

\* Back on the loop: the stat, emit_file_changed and the answer.  A write that finds
\* its file gone fails without an event.
Finish(w) ==
    /\ phase[w] = "replaced" /\ LoopFree
    /\ IF req[w].op # "delete" /\ ~Exists
       THEN Answered(w, Failed) /\ Forget(w) /\ UNCHANGED <<stateVars, mark, ws>>
       ELSE /\ Bump /\ mark' = disk.t
            /\ ws' = Append(ws, [v |-> ver', src |-> IF w = "tab" THEN saves ELSE 0,
                                 gone |-> req[w].op = "delete"])
            /\ Answered(w, ver')
            /\ know' = IF w = "tab" THEN know
                       ELSE [know EXCEPT ![w] = IF req[w].op = "delete" THEN [v |-> None, c |-> 0]
                                                ELSE [v |-> ver', c |-> req[w].c]]
    /\ UNCHANGED <<diskVars, selfw, watchVars, temp, calls, tab, gets, typed, saves, ghostVars>>

-----------------------------------------------------------------------------
(* The watcher's thread.                                                   *)

\* is_recent_first_party_entity_write, then the transient delete and the deque.
FirstParty(k) ==
    \/ mark = Pending
    \/ Exists /\ mark = disk.t
    \/ ~Exists /\ mark = 0 /\ k = "deleted"
Suppressed(k) == FirstParty(k) \/ (k = "deleted" /\ Exists) \/ (k = "changed" /\ Exists /\ selfw)

\* Events soon after one that went through are dropped.  The filters are one step: a write
\* that lands between two of them leads to what it leads to when it lands after the last.
Notice(k) ==
    /\ watch.s = "idle" /\ fs[k] > 0 /\ fs' = [fs EXCEPT ![k] = @ - 1]
    /\ \/ /\ Suppressed(k) \/ debounce
          /\ UNCHANGED <<watch, debounce>>
       \/ /\ ~Suppressed(k)
          /\ watch' = [s |-> "passed", k |-> k, t |-> disk.t] /\ debounce' = TRUE
    /\ UNCHANGED <<diskVars, stateVars, mark, selfw, writeVars, know, tabVars, ws, ghostVars>>

\* A file no newer than the version accounts for is the echo of an older change.
Compare ==
    /\ watch.s = "passed"
    /\ IF Exists /\ disk.t <= seen
       THEN watch' = [s |-> "idle"] /\ UNCHANGED <<stateVars, told>>
       ELSE /\ Bump /\ watch' = [s |-> "sending", v |-> ver', gone |-> watch.k = "deleted"]
            /\ told' = IF watch.k = "changed" /\ Exists /\ watch.t = disk.t THEN told + 1 ELSE told
    /\ UNCHANGED <<diskVars, mark, selfw, fs, debounce, writeVars, know, tabVars, ws,
                   foreign, outside, uncounted, lapsed, held>>

\* The loop sends the payload the thread gave it.
Broadcast ==
    /\ watch.s = "sending" /\ LoopFree
    /\ watch' = [s |-> "idle"]
    /\ ws' = Append(ws, [v |-> watch.v, src |-> 0, gone |-> watch.gone])
    /\ UNCHANGED <<diskVars, stateVars, mark, selfw, fs, debounce, writeVars, know, tabVars, ghostVars>>

-----------------------------------------------------------------------------
(* The tab.                                                                *)

Larger(x, y) == IF x < y THEN y ELSE x
NextPending(base, pend) == Larger(base, pend) + 1

FileIsDirty == tab.dirty \/ tab.pend > tab.base

\* updateFileTabContent
Type ==
    /\ typed < MaxTyped /\ typed' = typed + 1 /\ NewContent
    /\ tab' = [tab EXCEPT !.c = made', !.dirty = TRUE, !.pend = NextPending(tab.base, tab.pend), !.conflict = FALSE]
    /\ UNCHANGED <<disk, clock, stateVars, mark, selfw, watchVars, writeVars, know, gets, put, saves, ws, ghostVars>>

\* The autosave timer of a dirty tab: performSaveFileTab.  Bound: one save at a time.
Autosave ==
    /\ tab.dirty /\ phase["tab"] = "idle" /\ put = NoAnswer /\ saves < MaxSaves /\ saves' = saves + 1
    /\ tab' = [tab EXCEPT !.pend = NextPending(tab.base, tab.pend), !.src = saves', !.conflict = FALSE]
    /\ req' = [req EXCEPT !["tab"] = [op |-> "write", expect |-> NoCheck, c |-> tab.c]]
    /\ phase' = [phase EXCEPT !["tab"] = "waiting"]
    /\ UNCHANGED <<diskVars, stateVars, mark, selfw, watchVars, temp, calls, know, gets, put, typed, ws, ghostVars>>

\* Its answer, which clears whatever conflict came up meanwhile.
SaveAnsweredWith(ok) ==
    /\ put # NoAnswer /\ put' = NoAnswer
    /\ tab' = IF ~ok THEN tab
              ELSE [tab EXCEPT !.dirty = (tab.c # put.c), !.base = put.v, !.src = 0, !.conflict = FALSE,
                               !.pend = IF tab.c # put.c THEN NextPending(put.v, @) ELSE put.v]
    /\ UNCHANGED <<diskVars, stateVars, mark, selfw, watchVars, writeVars, know, gets, typed, saves, ws, ghostVars>>
SaveAnsweredAnyhow == SaveAnsweredWith(TRUE)    \* faulty: takes a failure for an answer
SaveAnswered == SaveAnsweredWith(put.v # Failed)

\* handleFileChanged: an event that is old is dropped, that of the own save confirms
\* it, and any other is fetched, into a clean tab or as the other side of a conflict.
Ask(why) == gets' = gets \cup {[why |-> why, s |-> "asked"]}
Confirmed(v) ==
    LET newer == tab.pend > v
    IN  [tab EXCEPT !.base = v, !.pend = IF newer THEN @ ELSE v, !.src = 0,
                    !.dirty = newer /\ @, !.conflict = FALSE]
Conflicting == [tab EXCEPT !.dirty = FileIsDirty, !.conflict = TRUE]
Hear ==
    /\ ws # <<>> /\ ws' = Tail(ws)
    /\ LET e == Head(ws)
       IN  IF e.v <= tab.base THEN UNCHANGED <<tab, gets>>
           ELSE IF e.src # 0 /\ e.src = tab.src /\ e.v <= tab.pend
                THEN tab' = Confirmed(e.v) /\ UNCHANGED gets
           ELSE IF e.gone THEN tab' = Conflicting /\ UNCHANGED gets
           ELSE Ask(IF FileIsDirty THEN "conflict" ELSE "refresh") /\ UNCHANGED tab
    /\ UNCHANGED <<diskVars, stateVars, mark, selfw, watchVars, writeVars, know, put, typed, saves, ghostVars>>

\* read_project_file: the content first, then the version.
Serve(g) ==
    /\ g.s = "asked" /\ LoopFree
    /\ gets' = (gets \ {g}) \cup {IF Exists THEN [why |-> g.why, s |-> "read", c |-> disk.c]
                                 ELSE [why |-> g.why, s |-> "missing"]}
    /\ UNCHANGED <<diskVars, stateVars, mark, selfw, watchVars, writeVars, know, tab, put, typed, saves, ws, ghostVars>>
AnswerWith(g, v) ==
    /\ g.s = "read"
    /\ gets' = (gets \ {g}) \cup {[why |-> g.why, s |-> "answered", c |-> g.c, v |-> v]}
    /\ UNCHANGED <<diskVars, stateVars, mark, selfw, watchVars, writeVars, know, tab, put, typed, saves, ws, ghostVars>>
AnswerObserved(g) == AnswerWith(g, Observed)    \* faulty: counts a change under way
Answer(g) == AnswerWith(g, ver)

\* The answer arrives; answers may overtake each other.
Receive(g) ==
    /\ g.s \in {"answered", "missing"} /\ gets' = gets \ {g}
    /\ IF g.why = "conflict"
       THEN /\ tab' = Conflicting
            /\ held' = held \cup IF g.s = "answered" /\ FileIsDirty THEN {g.c} ELSE {}
       ELSE /\ tab' = IF g.s = "missing" THEN tab
                      ELSE [tab EXCEPT !.c = g.c, !.base = g.v, !.pend = g.v, !.src = 0,
                                       !.dirty = FALSE, !.conflict = FALSE]
            /\ UNCHANGED held
    /\ UNCHANGED <<diskVars, stateVars, mark, selfw, watchVars, writeVars, know, put, typed, saves, ws,
                   foreign, outside, uncounted, told, lapsed>>

-----------------------------------------------------------------------------
Next ==
    \/ EditOutside \/ DeleteOutside \/ Expire
    \/ \E a \in Agents : ReadVersion(a) \/ ReadContent(a) \/ \E op \in {"write", "create", "delete"} : Call(a, op)
    \/ \E w \in Writers : Enter(w) \/ Stage(w) \/ Rename(w) \/ Remark(w) \/ Remove(w) \/ Finish(w)
    \/ \E k \in {"changed", "deleted"} : Notice(k)
    \/ Compare \/ Broadcast
    \/ Type \/ Autosave \/ SaveAnswered \/ Hear
    \/ \E g \in gets : Serve(g) \/ Answer(g) \/ Receive(g)

Spec == Init /\ [][Next]_vars

-----------------------------------------------------------------------------
TypeOK ==
    /\ disk.c \in 0..made /\ disk.t \in 0..clock /\ made \in Nat /\ clock \in Nat
    /\ ver \in Nat /\ seen \in 0..clock /\ mark \in 0..clock \cup {NoMark, Pending}
    /\ fs.changed \in 0..EventsPerChange /\ fs.deleted \in 0..1 /\ watch.s \in {"idle", "passed", "sending"}
    /\ phase \in [Writers -> {"idle", "waiting", "checked", "staged", "renamed", "replaced"}]
    /\ \A a \in Agents : know[a].v \in Nat \cup {None} /\ know[a].c \in 0..made \cup {Unread}
    /\ tab.c \in 1..made /\ tab.base \in Nat /\ tab.pend \in Nat /\ tab.src \in 0..saves
    /\ tab.dirty \in BOOLEAN /\ tab.conflict \in BOOLEAN

\* What a has read, or outside programs put there, is all its write or deletion destroys.
DestroysOnlyRead(a) ==
    phase[a] \in {"checked", "staged"} /\ phase'[a] \in {"renamed", "replaced"} => disk.c \in foreign \cup {0, know[a].c}

\* "Two writes based on the same version" cannot both succeed: an agent's write, creation
\* or deletion never destroys what the tab or another agent wrote, unless the agent had
\* read it; whatever the order of reads, saves, outside edits and the watcher.  Not once
\* a content has gone that was never counted: a reader took for it the version that is
\* then given to what comes next, although observed_entity_version says that a write
\* based on the projected version lines up with it.
NoFirstPartyWriteLost == [][\A a \in Agents : uncounted \/ DestroysOnlyRead(a)]_vars

\* A clean tab that is at the file's version shows the file, as long as it was written
\* through the write path: the tab never misses such a write without being behind.
UpToDateTabShowsFile ==
    /\ tab.base = ver /\ ~FileIsDirty /\ ~tab.conflict /\ put = NoAnswer /\ Holding = {}
    /\ Exists /\ disk.c \notin foreign
    => tab.c = disk.c

\* The watcher does not announce the backend's own write as a change from outside, nor
\* an edit from outside twice, however late it is: the file that passed its filters is
\* announced at most once per edit from outside, and once per write whose first mark ran
\* out before the second was set, since nothing else shields it.  (A write that lands
\* between the filters and the comparison is announced: the two are not atomic, and the
\* event is then of the earlier content.)
OwnWritesNotEchoed == told <= outside + lapsed

\* "The client MUST NOT silently overwrite remote changes when local edits are
\* pending": the tab sends no save by itself over a remote content it recorded as the
\* other side of a conflict and has not resolved.
ConflictsNotOverwritten ==
    [][saves' # saves => ~(tab.conflict /\ disk.c \in held)]_vars
=============================================================================
