-------------------------- MODULE SharedFileProofs --------------------------
(***************************************************************************)
(* Proofs about SharedFile, for any number of agents, calls, outside       *)
(* edits, typed changes, saves and merged events.                          *)
(***************************************************************************)
EXTENDS SharedFile, TLAPS

Files    == [c : Nat, t : Nat]
Ops      == {"write", "create", "delete"}
Whys     == {"refresh", "conflict"}
Kinds    == {"changed", "deleted"}
Calls    == [op : Ops, expect : Int, c : Nat]
Requests == {[op |-> "none"]} \cup Calls
Gets     == [why : Whys, s : {"asked", "missing"}] \cup [why : Whys, s : {"read"}, c : Nat]
            \cup [why : Whys, s : {"answered"}, c : Nat, v : Nat]
Tabs     == [c : Nat, base : Nat, pend : Nat, src : Nat, dirty : BOOLEAN, conflict : BOOLEAN]
Events   == [v : Nat, src : Nat, gone : BOOLEAN]
Watching == [s : {"idle"}] \cup [s : {"passed"}, k : Kinds, t : Nat] \cup [s : {"sending"}, v : Nat, gone : BOOLEAN]
Phases   == {"idle", "waiting", "checked", "staged", "renamed", "replaced"}

\* The types of everything, the bounds of TypeOK left aside.
DiskTypes ==
    /\ disk \in Files /\ clock \in Nat /\ made \in Nat \ {0}
    /\ ver \in Nat \ {0} /\ seen \in Nat /\ mark \in Nat \cup {NoMark, Pending}
    /\ fs \in [changed : 0..EventsPerChange, deleted : 0..1] /\ watch \in Watching
    /\ told \in Nat /\ outside \in Nat /\ lapsed \in Nat
WriterTypes ==
    /\ phase \in [Writers -> Phases] /\ req \in [Writers -> Requests] /\ temp \in Nat /\ calls \in Nat
    /\ \A w \in Writers : phase[w] # "idle" => req[w] \in Calls
    /\ know \in [Agents -> [v : Nat \cup {None}, c : Nat \cup {Unread}]]
TabTypes ==
    /\ tab \in Tabs /\ gets \subseteq Gets
    /\ put \in {NoAnswer} \cup [c : Nat, v : Nat \cup {Failed}]
    /\ ws \in Seq(Events) /\ typed \in Nat /\ saves \in Nat
Types == DiskTypes /\ WriterTypes /\ TabTypes

-----------------------------------------------------------------------------
LEMMA InitTypes == Init => Types
<1> SUFFICES ASSUME Init PROVE Types
  OBVIOUS
<1>1. DiskTypes
  <2>1. [changed |-> 0, deleted |-> 0] \in [changed : 0..EventsPerChange, deleted : 0..1]
    BY BoundsAssumption
  <2>2. [s |-> "idle"] \in Watching
    BY DEF Watching
  <2> QED BY <2>1, <2>2 DEF Init, DiskTypes, Files, NoMark
<1>2. [op |-> "none"] \in Requests
  BY DEF Requests
<1>3. WriterTypes
  BY <1>2 DEF Init, WriterTypes, Phases, None
<1>4. TabTypes
  BY DEF Init, TabTypes, OpenTab, Tabs
<1> QED BY <1>1, <1>3, <1>4 DEF Types

LEMMA NextPendingType ==
  ASSUME NEW base \in Nat, NEW pend \in Nat
  PROVE  NextPending(base, pend) \in Nat /\ NextPending(base, pend) > base /\ NextPending(base, pend) > pend
  BY DEF NextPending, Larger

LEMMA ObservedType ==
  ASSUME Types
  PROVE  Observed \in Nat
  BY DEF Types, DiskTypes, Observed

LEMMA BumpTypes ==
  ASSUME Types, Absorb \/ Bump \/ UNCHANGED stateVars
  PROVE  ver' \in Nat \ {0} /\ seen' \in Nat
  BY DEF Types, DiskTypes, Files, Absorb, Bump, stateVars

\* An answered request leaves its writer idle.
LEMMA AnsweredTypes ==
  ASSUME Types, NEW w \in Writers, NEW v \in Nat \cup {Failed}, phase[w] # "idle", Answered(w, v), temp' = temp, calls' = calls,
         Forget(w) \/ know' = know \/ \E c \in Nat, u \in Nat : know' = [know EXCEPT ![w] = [v |-> u, c |-> c]]
  PROVE  WriterTypes' /\ put' \in {NoAnswer} \cup [c : Nat, v : Nat \cup {Failed}]
<1> USE DEF Types
<1>1. req[w].c \in Nat
  BY DEF WriterTypes, Calls
<1>2. put' \in {NoAnswer} \cup [c : Nat, v : Nat \cup {Failed}]
  BY <1>1 DEF Answered, TabTypes
<1>3. know' \in [Agents -> [v : Nat \cup {None}, c : Nat \cup {Unread}]]
  BY DEF Forget, WriterTypes
<1>4. /\ phase' \in [Writers -> Phases] /\ req' \in [Writers -> Requests]
      /\ \A x \in Writers : phase'[x] # "idle" => req'[x] \in Calls
  BY DEF Answered, WriterTypes, Phases, Requests
<1> QED BY <1>2, <1>3, <1>4 DEF WriterTypes

LEMMA EnterTypes ==
  ASSUME Types, NEW w \in Writers, Enter(w)
  PROVE  Types'
<1> USE DEF Types, diskVars, watchVars, tabVars, ghostVars
<1>1. UNCHANGED <<made, clock, disk, mark, fs, watch, told, outside, lapsed, tab, gets, ws, typed, saves, temp, calls>>
  BY DEF Enter, EnterAt
<1>2. ver' \in Nat \ {0} /\ seen' \in Nat
  BY BumpTypes DEF Enter, EnterAt
<1>3. DiskTypes'
  BY <1>1, <1>2 DEF DiskTypes
<1>4. CASE Passes(req[w])
  <2>1. WriterTypes' /\ put' = put
    BY <1>1, <1>4 DEF Enter, EnterAt, WriterTypes, Phases
  <2> QED BY <1>1, <1>3, <2>1 DEF TabTypes
<1>5. CASE ~Passes(req[w])
  <2>1. WriterTypes' /\ put' \in {NoAnswer} \cup [c : Nat, v : Nat \cup {Failed}]
    BY <1>1, <1>5, AnsweredTypes DEF Enter, EnterAt
  <2> QED BY <1>1, <1>3, <2>1 DEF TabTypes
<1> QED BY <1>4, <1>5

LEMMA RemoveTypes ==
  ASSUME Types, NEW w \in Writers, Remove(w)
  PROVE  Types'
<1> USE DEF Types, diskVars, stateVars, watchVars, tabVars, ghostVars
<1>1. UNCHANGED <<made, clock, ver, seen, mark, watch, told, outside, lapsed, tab, gets, ws, typed, saves, temp, calls>>
  BY DEF Remove
<1>2. disk' \in Files /\ fs' \in [changed : 0..EventsPerChange, deleted : 0..1]
  BY DEF Remove, DiskTypes, Files
<1>3. DiskTypes'
  BY <1>1, <1>2 DEF DiskTypes
<1>4. CASE Exists
  <2>1. WriterTypes' /\ put' = put
    BY <1>1, <1>4 DEF Remove, WriterTypes, Phases
  <2> QED BY <1>1, <1>3, <2>1 DEF TabTypes
<1>5. CASE ~Exists
  <2>1. WriterTypes' /\ put' \in {NoAnswer} \cup [c : Nat, v : Nat \cup {Failed}]
    BY <1>1, <1>5, AnsweredTypes DEF Remove
  <2> QED BY <1>1, <1>3, <2>1 DEF TabTypes
<1> QED BY <1>4, <1>5

LEMMA FinishTypes ==
  ASSUME Types, NEW w \in Writers, Finish(w)
  PROVE  Types'
<1> USE DEF Types, diskVars, stateVars, watchVars, tabVars, ghostVars
<1>1. UNCHANGED <<made, clock, disk, fs, watch, told, outside, lapsed, tab, gets, typed, saves, temp, calls>>
  BY DEF Finish
<1>2. ver' \in Nat \ {0} /\ seen' \in Nat
  BY BumpTypes DEF Finish
<1>3. mark' \in Nat \cup {NoMark, Pending}
  BY DEF Finish, DiskTypes, Files
<1>4. DiskTypes'
  BY <1>1, <1>2, <1>3 DEF DiskTypes
<1>5. CASE req[w].op # "delete" /\ ~Exists
  <2>1. WriterTypes' /\ put' \in {NoAnswer} \cup [c : Nat, v : Nat \cup {Failed}] /\ ws' = ws
    BY <1>1, <1>5, AnsweredTypes DEF Finish
  <2> QED BY <1>1, <1>4, <2>1 DEF TabTypes
<1>6. CASE ~(req[w].op # "delete" /\ ~Exists)
  <2>1. req[w].c \in Nat
    BY DEF Finish, WriterTypes, Calls
  <2>2. know' = know \/ (\E c \in Nat, u \in Nat : know' = [know EXCEPT ![w] = [v |-> u, c |-> c]]) \/ Forget(w)
    BY <1>2, <1>6, <2>1 DEF Finish, Forget
  <2>3. WriterTypes' /\ put' \in {NoAnswer} \cup [c : Nat, v : Nat \cup {Failed}]
    BY <1>1, <1>2, <1>6, <2>2, AnsweredTypes DEF Finish
  <2>4. [v |-> ver', src |-> IF w = "tab" THEN saves ELSE 0, gone |-> req[w].op = "delete"] \in Events
    BY <1>2 DEF Events, TabTypes
  <2>5. ws' \in Seq(Events)
    BY <1>6, <2>4 DEF Finish, TabTypes
  <2> QED BY <1>1, <1>4, <2>3, <2>5 DEF TabTypes
<1> QED BY <1>5, <1>6

LEMMA HearTypes ==
  ASSUME Types, Hear
  PROVE  Types'
<1> USE DEF Types, diskVars, stateVars, watchVars, writeVars, ghostVars
<1>1. DiskTypes' /\ WriterTypes' /\ UNCHANGED <<put, typed, saves>>
  BY DEF Hear, DiskTypes, WriterTypes
<1>2. Head(ws) \in Events /\ ws' \in Seq(Events)
  BY DEF Hear, TabTypes
<1>3. \A v \in Nat : Confirmed(v) \in Tabs
  BY DEF Confirmed, TabTypes, Tabs
<1>4. Conflicting \in Tabs
  BY DEF Conflicting, FileIsDirty, TabTypes, Tabs
<1>5. \A why \in Whys : gets \cup {[why |-> why, s |-> "asked"]} \subseteq Gets
  BY DEF TabTypes, Gets
<1>6. tab' \in Tabs
  BY <1>2, <1>3, <1>4 DEF Hear, TabTypes, Events, Ask
<1>7. gets' \subseteq Gets
  BY <1>5 DEF Hear, TabTypes, Ask, Whys
<1> QED BY <1>1, <1>2, <1>6, <1>7 DEF TabTypes

LEMMA GetTypes ==
  ASSUME Types, NEW g \in gets, Serve(g) \/ Answer(g) \/ Receive(g)
  PROVE  Types'
<1> USE DEF Types, diskVars, stateVars, watchVars, writeVars, ghostVars
<1>1. DiskTypes' /\ WriterTypes' /\ UNCHANGED <<put, typed, saves, ws>>
  BY DEF Serve, Answer, AnswerWith, Receive, DiskTypes, WriterTypes
<1>2. g \in Gets /\ g.why \in Whys
  BY DEF TabTypes, Gets
<1>3. CASE Serve(g)
  <2>1. /\ [why |-> g.why, s |-> "read", c |-> disk.c] \in Gets
        /\ [why |-> g.why, s |-> "missing"] \in Gets
    BY <1>2 DEF Gets, DiskTypes, Files
  <2> QED BY <1>1, <1>3, <2>1 DEF Serve, TabTypes
<1>4. CASE Answer(g)
  <2>1. g.c \in Nat
    BY <1>2, <1>4 DEF Answer, AnswerWith, Gets
  <2>2. [why |-> g.why, s |-> "answered", c |-> g.c, v |-> ver] \in Gets
    BY <1>2, <2>1 DEF Gets, DiskTypes
  <2> QED BY <1>1, <1>4, <2>2 DEF Answer, AnswerWith, TabTypes
<1>5. CASE Receive(g)
  <2>1. g.s = "answered" => g.c \in Nat /\ g.v \in Nat
    BY <1>2 DEF Gets
  <2>2. Conflicting \in Tabs
    BY DEF Conflicting, FileIsDirty, TabTypes, Tabs
  <2>3. g.s = "answered" => [tab EXCEPT !.c = g.c, !.base = g.v, !.pend = g.v, !.src = 0,
                                        !.dirty = FALSE, !.conflict = FALSE] \in Tabs
    BY <2>1 DEF TabTypes, Tabs
  <2>4. tab' \in Tabs
    BY <1>5, <2>2, <2>3 DEF Receive, TabTypes
  <2> QED BY <1>1, <1>5, <2>4 DEF Receive, TabTypes
<1> QED BY <1>3, <1>4, <1>5

LEMMA StepTypes ==
  ASSUME Types, [Next]_vars
  PROVE  Types'
<1> USE DEF Types, diskVars, stateVars, watchVars, writeVars, tabVars, ghostVars
<1>1. CASE UNCHANGED vars
  BY <1>1 DEF vars, DiskTypes, WriterTypes, TabTypes
<1>2. CASE EditOutside \/ DeleteOutside \/ Expire
  <2>1. WriterTypes' /\ TabTypes'
    BY <1>2 DEF EditOutside, DeleteOutside, Expire, WriterTypes, TabTypes
  <2>2. CASE EditOutside
    BY <2>1, <2>2, BoundsAssumption DEF EditOutside, NewContent, DiskTypes, Files
  <2>3. CASE DeleteOutside
    BY <2>1, <2>3 DEF DeleteOutside, DiskTypes, Files
  <2>4. CASE Expire
    BY <2>1, <2>4 DEF Expire, DiskTypes
  <2> QED BY <1>2, <2>2, <2>3, <2>4
<1>3. ASSUME NEW a \in Agents, ReadVersion(a) \/ ReadContent(a)
      PROVE  Types'
  <2>1. TabTypes' /\ DiskTypes'
    BY <1>3 DEF ReadVersion, ReadContent, TabTypes, DiskTypes
  <2>3. CASE ReadVersion(a)
    BY <2>1, <2>3 DEF ReadVersion, WriterTypes, DiskTypes, Observed
  <2>4. CASE ReadContent(a)
    BY <2>1, <2>4 DEF ReadContent, WriterTypes, DiskTypes, Files
  <2> QED BY <1>3, <2>3, <2>4
<1>4. ASSUME NEW a \in Agents, NEW op \in Ops, Call(a, op)
      PROVE  Types'
  <2>1. TabTypes'
    BY <1>4 DEF Call, TabTypes
  <2>2. DiskTypes'
    <3>1. made' \in Nat \ {0}
      BY <1>4 DEF Call, NewContent, DiskTypes
    <3> QED BY <1>4, <3>1 DEF Call, DiskTypes
  <2>3. know[a].v \in Int /\ a \in Writers
    BY DEF WriterTypes, None, Writers
  <2>4. [op |-> op, expect |-> IF op = "create" THEN NoCheck ELSE know[a].v,
         c |-> IF op = "delete" THEN 0 ELSE made + 1] \in Calls
    BY <2>3 DEF Calls, NoCheck, DiskTypes
  <2>5. WriterTypes'
    BY <1>4, <2>3, <2>4 DEF Call, WriterTypes, Phases, Requests
  <2> QED BY <2>1, <2>2, <2>5
<1>5. ASSUME NEW w \in Writers, Enter(w)
      PROVE  Types'
  BY <1>5, EnterTypes
<1>6. ASSUME NEW w \in Writers, Stage(w) \/ Rename(w) \/ Remark(w)
      PROVE  Types'
  <2>1. TabTypes'
    BY <1>6 DEF Stage, Rename, Remark, RemarkAs, TabTypes
  <2>2. CASE Stage(w)
    BY <2>1, <2>2 DEF Stage, DiskTypes, WriterTypes, Phases
  <2>3. CASE Rename(w)
    <3>1. req[w].c \in Nat
      BY <2>3 DEF Rename, WriterTypes, Calls
    <3>2. DiskTypes'
      BY <2>3, <3>1, BoundsAssumption DEF Rename, DiskTypes, WriterTypes, Files
    <3>3. WriterTypes'
      BY <2>3 DEF Rename, WriterTypes, Phases
    <3> QED BY <2>1, <3>2, <3>3
  <2>4. CASE Remark(w)
    BY <2>1, <2>4 DEF Remark, RemarkAs, DiskTypes, WriterTypes, Phases
  <2> QED BY <1>6, <2>2, <2>3, <2>4
<1>7. ASSUME NEW w \in Writers, Remove(w)
      PROVE  Types'
  BY <1>7, RemoveTypes
<1>8. ASSUME NEW w \in Writers, Finish(w)
      PROVE  Types'
  BY <1>8, FinishTypes
<1>9. ASSUME NEW k \in Kinds, Notice(k)
      PROVE  Types'
  <2>1. TabTypes' /\ WriterTypes'
    BY <1>9 DEF Notice, TabTypes, WriterTypes
  <2>2. fs' \in [changed : 0..EventsPerChange, deleted : 0..1]
    BY <1>9, BoundsAssumption DEF Notice, Kinds, DiskTypes
  <2>3. [s |-> "passed", k |-> k, t |-> disk.t] \in Watching
    BY DEF Watching, DiskTypes, Files
  <2>4. DiskTypes'
    BY <1>9, <2>2, <2>3 DEF Notice, DiskTypes
  <2> QED BY <2>1, <2>4
<1>10. CASE Compare
  <2>1. TabTypes' /\ WriterTypes'
    BY <1>10 DEF Compare, TabTypes, WriterTypes
  <2>2. [s |-> "idle"] \in Watching
    BY DEF Watching
  <2>3. [s |-> "sending", v |-> ver + 1, gone |-> watch.k = "deleted"] \in Watching
    BY DEF Watching, DiskTypes
  <2>4. DiskTypes'
    BY <1>10, <2>2, <2>3 DEF Compare, Bump, DiskTypes, Files
  <2> QED BY <2>1, <2>4
<1>11. CASE Broadcast
  <2>1. [v |-> watch.v, src |-> 0, gone |-> watch.gone] \in Events
    BY <1>11 DEF Broadcast, DiskTypes, Watching, Events
  <2>2. [s |-> "idle"] \in Watching
    BY DEF Watching
  <2>3. DiskTypes' /\ WriterTypes'
    BY <1>11, <2>2 DEF Broadcast, DiskTypes, WriterTypes
  <2>4. TabTypes'
    BY <1>11, <2>1 DEF Broadcast, TabTypes
  <2> QED BY <2>3, <2>4
<1>12. CASE Type
  <2>1. DiskTypes' /\ WriterTypes'
    BY <1>12 DEF Type, NewContent, DiskTypes, WriterTypes
  <2>2. NextPending(tab.base, tab.pend) \in Nat /\ made' \in Nat
    <3>1. tab.base \in Nat /\ tab.pend \in Nat
      BY DEF TabTypes, Tabs
    <3>2. made' \in Nat
      BY <1>12 DEF Type, NewContent, DiskTypes
    <3> QED BY <3>1, <3>2, NextPendingType
  <2>3. tab' \in Tabs
    BY <1>12, <2>2 DEF Type, TabTypes, Tabs
  <2>4. TabTypes'
    BY <1>12, <2>3 DEF Type, TabTypes
  <2> QED BY <2>1, <2>4
<1>13. CASE Autosave
  <2>1. "tab" \in Writers /\ [op |-> "write", expect |-> NoCheck, c |-> tab.c] \in Calls
    BY DEF Writers, TabTypes, Tabs, Calls, Ops, NoCheck
  <2>2. DiskTypes' /\ WriterTypes'
    BY <1>13, <2>1 DEF Autosave, DiskTypes, WriterTypes, Phases, Requests
  <2>3. NextPending(tab.base, tab.pend) \in Nat /\ saves' \in Nat
    BY <1>13, NextPendingType DEF Autosave, TabTypes, Tabs
  <2>4. tab' \in Tabs
    BY <1>13, <2>3 DEF Autosave, TabTypes, Tabs
  <2>5. TabTypes'
    BY <1>13, <2>3, <2>4 DEF Autosave, TabTypes
  <2> QED BY <2>2, <2>5
<1>14. CASE SaveAnswered
  <2>1. DiskTypes' /\ WriterTypes'
    BY <1>14 DEF SaveAnswered, SaveAnsweredWith, DiskTypes, WriterTypes
  <2>2. put.v # Failed => put.v \in Nat /\ put.c \in Nat
    BY <1>14 DEF SaveAnswered, SaveAnsweredWith, TabTypes
  <2>3. tab' \in Tabs
    <3>1. put.v # Failed => NextPending(put.v, tab.pend) \in Nat
      BY <2>2, NextPendingType DEF TabTypes, Tabs
    <3>2. (tab.c # put.c) \in BOOLEAN
      OBVIOUS
    <3>3. CASE put.v = Failed
      BY <1>14, <3>3 DEF SaveAnswered, SaveAnsweredWith, TabTypes
    <3>4. CASE put.v # Failed
      <4>1. PICK dirty \in BOOLEAN, pend \in Nat :
               tab' = [tab EXCEPT !.dirty = dirty, !.base = put.v, !.src = 0, !.conflict = FALSE, !.pend = pend]
        BY <1>14, <2>2, <3>1, <3>2, <3>4 DEF SaveAnswered, SaveAnsweredWith
      <4> QED BY <2>2, <3>4, <4>1 DEF TabTypes, Tabs
    <3> QED BY <3>3, <3>4
  <2>4. TabTypes'
    BY <1>14, <2>3 DEF SaveAnswered, SaveAnsweredWith, TabTypes
  <2> QED BY <2>1, <2>4
<1>15. CASE Hear
  BY <1>15, HearTypes
<1>16. ASSUME NEW g \in gets, Serve(g) \/ Answer(g) \/ Receive(g)
       PROVE  Types'
  BY <1>16, GetTypes
<1> QED
  BY <1>1, <1>2, <1>3, <1>4, <1>5, <1>6, <1>7, <1>8, <1>9, <1>10, <1>11, <1>12, <1>13, <1>14, <1>15, <1>16
  DEF Next, Ops, Kinds

-----------------------------------------------------------------------------
(* The invariants.                                                         *)

\* Every content and every time is one that was given.
Given(c) == c \in 1..made
Bounds ==
    /\ disk.c <= made /\ disk.t <= clock /\ seen <= clock /\ mark <= clock /\ temp <= clock
    /\ \A a \in Agents : know[a].c <= made
    /\ \A w \in Writers : phase[w] # "idle" => req[w].c <= made
    /\ Given(tab.c) /\ tab.src <= saves
    /\ \A g \in gets : g.s \in {"read", "answered"} => Given(g.c)

\* One writer at a time is past the check, and what each writer asks for.
Holds(w)  == phase[w] \in {"checked", "staged", "renamed", "replaced"}
Landed(w) == phase[w] \in {"renamed", "replaced"}
Locked ==
    /\ \A w, x \in Writers : Holds(w) /\ Holds(x) => w = x
    /\ \A w \in Writers : phase[w] = "staged" => req[w].op # "delete"
    /\ phase["tab"] # "idle" => put = NoAnswer /\ req["tab"].op = "write"
    /\ \A a \in Agents : phase[a] # "idle" =>
           /\ know[a].c # Unread
           /\ req[a].op # "create" => know[a].c # 0 /\ req[a].expect = know[a].v

\* The time of the temporary file is no other file's.
Times ==
    /\ disk.t <= clock /\ (watch.s = "passed" => watch.t <= clock)
    /\ \A w \in Writers : phase[w] = "staged" =>
           temp \in 1..clock /\ temp # disk.t /\ (watch.s = "passed" => temp # watch.t)

\* The file may still be announced: it is newer than its version accounts for, and the
\* watcher does not take it for the backend's own or has let it through already.
Shielded == mark = Pending /\ \E w \in Writers : phase[w] = "renamed"
Pendent ==
    /\ Exists /\ disk.t > seen
    /\ (~selfw /\ ~Shielded) \/ (watch.s = "passed" /\ watch.k = "changed" /\ watch.t = disk.t)

\* An outside edit, or a mark that ran out under a write, is a credit for one
\* announcement; a file that may be announced owes one, and so does a write that is about
\* to land with its first mark gone.
Bare == mark # Pending /\ \E w \in Writers : phase[w] = "staged"
Owed == (IF Pendent THEN 1 ELSE 0) + (IF Bare THEN 1 ELSE 0)
Announced == told + Owed <= outside + lapsed

\* A content shows the file: it is the file's, unless the file is gone, another program's,
\* or the work of a writer that has not counted it yet.
Counted  == \A w \in Writers : ~Landed(w)
Shows(c) == Exists /\ Counted /\ disk.c \notin foreign => c = disk.c
Good(c, v) == v <= ver /\ (v = ver => Shows(c))
Within(c) == disk.c \in foreign \cup {0, c}

Replaced == \A w \in Writers : Landed(w) => Within(req[w].c)

\* Whatever the tab shows, is sent or has been told is at a version no later than the
\* file's, and shows the file when it is at that version.
GetsShow == \A g \in gets : (g.s = "read" => Shows(g.c)) /\ (g.s = "answered" => Good(g.c, g.v))
PutShows == put.v \in Nat => Good(put.c, put.v)
TabShows == tab.base <= ver /\ (put.v \notin Nat /\ ~FileIsDirty => Good(tab.c, tab.base))
EventsShow ==
    /\ watch.s = "sending" => watch.v <= ver
    /\ tab.src <= saves
    /\ \A i \in 1..Len(ws) : /\ ws[i].v <= ver /\ ws[i].src <= saves
                             /\ ws[i].src # 0 /\ ws[i].src = tab.src => put.v = ws[i].v
BrowserShows == GetsShow /\ PutShows /\ TabShows /\ EventsShow

\* What an agent has read at the version the file has, or is about to have, is in the
\* file, or the file is another program's; unless a content went uncounted.
Removing == \E w \in Writers : Landed(w) /\ req[w].op = "delete"
Coming   == Unobserved \/ Removing
Knows(a) ==
    LET v == know[a].v
        c == know[a].c
    IN  c # 0 => /\ v \in Nat /\ v <= ver + 1
                 /\ v = ver + 1 => Coming /\ (c # Unread => Within(c))
                 /\ v = ver /\ c # Unread => Shows(c)
Ready(a) == phase[a] \in {"checked", "staged"} => Within(know[a].c)
Informed == uncounted \/ \A a \in Agents : Knows(a) /\ Ready(a)

-----------------------------------------------------------------------------
(* Contents and times.                                                     *)

\* What an answered request leaves behind.
LEMMA AnsweredPhases ==
  ASSUME Types, NEW w \in Writers, NEW v, Answered(w, v)
  PROVE  /\ phase'[w] = "idle"
         /\ \A x \in Writers : x # w => phase'[x] = phase[x] /\ req'[x] = req[x]
  BY DEF Answered, Types, WriterTypes

LEMMA ForgetKnow ==
  ASSUME Types, NEW w \in Writers, Forget(w)
  PROVE  \A a \in Agents : know'[a] = know[a] \/ (a = w /\ know'[a] = [v |-> None, c |-> 0])
  BY DEF Forget, Types, WriterTypes

LEMMA StepBounds ==
  ASSUME Types, Types', Bounds, [Next]_vars
  PROVE  Bounds'
<1> USE DEF diskVars, stateVars, watchVars, writeVars, tabVars, ghostVars, Given
<1>0. /\ disk.c \in Nat /\ disk.t \in Nat /\ disk'.c \in Nat /\ disk'.t \in Nat /\ made \in Nat \ {0} /\ clock \in Nat
      /\ temp \in Nat /\ seen \in Nat /\ saves \in Nat /\ tab.c \in Nat /\ tab.src \in Nat /\ mark \in Int
      /\ \A a \in Agents : know[a].c \in Int
      /\ \A w \in Writers : phase[w] # "idle" => req[w].c \in Nat
      /\ phase \in [Writers -> Phases] /\ know \in [Agents -> [v : Nat \cup {None}, c : Nat \cup {Unread}]]
  <2>1. disk \in Files /\ disk' \in Files /\ made \in Nat \ {0} /\ clock \in Nat /\ seen \in Nat /\ mark \in Int
    BY DEF Types, DiskTypes, NoMark, Pending
  <2>2. tab \in Tabs /\ saves \in Nat
    BY DEF Types, TabTypes
  <2>3. /\ phase \in [Writers -> Phases] /\ know \in [Agents -> [v : Nat \cup {None}, c : Nat \cup {Unread}]]
        /\ temp \in Nat /\ \A w \in Writers : phase[w] # "idle" => req[w].c \in Nat
    BY DEF Types, WriterTypes, Calls
  <2>4. \A a \in Agents : know[a].c \in Int
    BY <2>3 DEF Unread
  <2>5. tab.c \in Nat /\ tab.src \in Nat
    BY <2>2 DEF Tabs
  <2> QED BY <2>1, <2>2, <2>3, <2>4, <2>5 DEF Files
<1>1. CASE UNCHANGED vars
  BY <1>1 DEF vars, Bounds
<1>2. CASE EditOutside
  BY <1>0, <1>2 DEF EditOutside, NewContent, Bounds
<1>3. CASE DeleteOutside \/ Expire
  BY <1>0, <1>3 DEF DeleteOutside, Expire, NoMark, Bounds
<1>4. ASSUME NEW a \in Agents, ReadVersion(a) \/ ReadContent(a)
      PROVE  Bounds'
  <2>1. \A b \in Agents : know'[b].c <= made
    BY <1>0, <1>4 DEF ReadVersion, ReadContent, Unread, Bounds
  <2> QED BY <1>4, <2>1 DEF ReadVersion, ReadContent, Bounds
<1>5. ASSUME NEW a \in Agents, NEW op \in Ops, Call(a, op)
      PROVE  Bounds'
  <2>1. a \in Writers /\ made' \in Nat /\ made' >= made
    BY <1>0, <1>5 DEF Call, NewContent, Writers
  <2>2. req'[a].c = 0 \/ (made' = made + 1 /\ req'[a].c = made')
    BY <1>5, <2>1 DEF Call, NewContent, Types, WriterTypes
  <2>4. \A w \in Writers : phase'[w] # "idle" => req'[w].c <= made'
    <3>1. \A w \in Writers : w # a => phase'[w] = phase[w] /\ req'[w] = req[w]
      BY <1>5, <2>1 DEF Call, Types, WriterTypes
    <3> QED BY <1>0, <2>1, <2>2, <3>1 DEF Bounds
  <2> QED BY <1>0, <1>5, <2>1, <2>4 DEF Call, Bounds
<1>6. ASSUME NEW w \in Writers, Enter(w)
      PROVE  Bounds'
  <2>1. seen' <= clock
    BY <1>0, <1>6 DEF Enter, EnterAt, Absorb, Bump, Bounds
  <2>2. CASE Passes(req[w])
    BY <1>0, <1>6, <2>1, <2>2 DEF Enter, EnterAt, Bounds
  <2>3. CASE ~Passes(req[w])
    BY <1>0, <1>6, <2>1, <2>3, AnsweredPhases, ForgetKnow DEF Enter, EnterAt, Bounds
  <2> QED BY <2>2, <2>3
<1>7. ASSUME NEW w \in Writers, Stage(w)
      PROVE  Bounds'
  BY <1>0, <1>7 DEF Stage, Pending, Bounds
<1>8. ASSUME NEW w \in Writers, Rename(w) \/ Remark(w)
      PROVE  Bounds'
  <2>1. phase[w] # "idle" /\ req[w].c <= made
    BY <1>0, <1>8 DEF Rename, Remark, RemarkAs, Bounds
  <2>2. CASE Rename(w)
    BY <1>0, <2>1, <2>2 DEF Rename, Bounds
  <2>3. CASE Remark(w)
    BY <1>0, <2>1, <2>3 DEF Remark, RemarkAs, Bounds
  <2> QED BY <1>8, <2>2, <2>3
<1>9. ASSUME NEW w \in Writers, Remove(w)
      PROVE  Bounds'
  <2>1. CASE Exists
    BY <1>0, <1>9, <2>1 DEF Remove, Bounds
  <2>2. CASE ~Exists
    BY <1>0, <1>9, <2>2, AnsweredPhases, ForgetKnow DEF Remove, Bounds
  <2> QED BY <2>1, <2>2
<1>10. ASSUME NEW w \in Writers, Finish(w)
       PROVE  Bounds'
  <2>1. \E v : Answered(w, v)
    BY <1>10 DEF Finish
  <2>2. \A x \in Writers : phase'[x] # "idle" => req'[x].c <= made
    BY <2>1, AnsweredPhases DEF Bounds
  <2>3. seen' <= clock /\ mark' <= clock
    BY <1>0, <1>10 DEF Finish, Bump, Bounds
  <2>4. \A a \in Agents : know'[a].c <= made
    <3>1. CASE Forget(w)
      BY <1>0, <3>1, ForgetKnow DEF Bounds
    <3>2. CASE ~Forget(w)
      <4>1. w # "tab" /\ req[w].op # "delete" /\ know' = [know EXCEPT ![w] = [v |-> ver', c |-> req[w].c]]
        BY <1>10, <3>2 DEF Finish, Forget
      <4>2. req[w].c <= made
        BY <1>0, <1>10, <4>1 DEF Finish, Bounds
      <4> QED BY <1>0, <4>1, <4>2 DEF Bounds
    <3> QED BY <3>1, <3>2
  <2> QED BY <1>10, <2>2, <2>3, <2>4 DEF Finish, Bounds
<1>11. ASSUME NEW k \in Kinds, Notice(k)
       PROVE  Bounds'
  BY <1>11 DEF Notice, Bounds
<1>12. CASE Compare
  BY <1>0, <1>12 DEF Compare, Bump, Bounds
<1>13. CASE Broadcast
  BY <1>13 DEF Broadcast, Bounds
<1>14. CASE Type
  <2>1. tab'.c = made' /\ tab'.src = tab.src /\ made' = made + 1
    BY <1>14 DEF Type, NewContent, Types, TabTypes, Tabs
  <2> QED BY <1>0, <1>14, <2>1 DEF Type, Bounds
<1>15. CASE Autosave
  <2>1. tab'.c = tab.c /\ tab'.src = saves'
    BY <1>15 DEF Autosave, Types, TabTypes, Tabs
  <2>2. \A w \in Writers : w # "tab" => phase'[w] = phase[w] /\ req'[w] = req[w]
    BY <1>15 DEF Autosave, Types, WriterTypes
  <2>3. req'["tab"].c = tab.c
    BY <1>15 DEF Autosave, Types, WriterTypes, Writers
  <2>4. \A w \in Writers : phase'[w] # "idle" => req'[w].c <= made
    BY <1>0, <2>2, <2>3 DEF Bounds
  <2> QED BY <1>0, <1>15, <2>1, <2>4 DEF Autosave, Bounds
<1>16. CASE SaveAnswered
  <2>1. tab'.c = tab.c /\ tab'.src \in {0, tab.src}
    BY <1>16 DEF SaveAnswered, SaveAnsweredWith, Types, TabTypes, Tabs
  <2> QED BY <1>0, <1>16, <2>1 DEF SaveAnswered, SaveAnsweredWith, Bounds
<1>17. CASE Hear
  <2>1. tab'.c = tab.c /\ tab'.src \in {0, tab.src}
    BY <1>17 DEF Hear, Confirmed, Conflicting, Types, TabTypes, Tabs
  <2>2. \A g \in gets' : g.s \in {"read", "answered"} => g \in gets
    BY <1>17 DEF Hear, Ask
  <2> QED BY <1>0, <1>17, <2>1, <2>2 DEF Hear, Bounds
<1>18. ASSUME NEW g \in gets, Serve(g)
       PROVE  Bounds'
  <2>1. \A h \in gets' : h.s \in {"read", "answered"} => h \in gets \/ (Exists /\ h.c = disk.c)
    BY <1>18 DEF Serve
  <2> QED BY <1>0, <1>18, <2>1 DEF Serve, Exists, Bounds
<1>19. ASSUME NEW g \in gets, Answer(g)
       PROVE  Bounds'
  <2>1. \A h \in gets' : h \in gets \/ h.c = g.c
    BY <1>19 DEF Answer, AnswerWith
  <2> QED BY <1>0, <1>19, <2>1 DEF Answer, AnswerWith, Bounds
<1>20. ASSUME NEW g \in gets, Receive(g)
       PROVE  Bounds'
  <2>1. g.s = "answered" => g.c \in 1..made
    BY DEF Bounds
  <2>2. tab \in Tabs /\ tab.c \in 1..made
    BY DEF Types, TabTypes, Bounds
  <2>3. Conflicting.c = tab.c /\ Conflicting.src = tab.src
    BY <2>2 DEF Conflicting, Tabs
  <2>4. tab'.c \in 1..made /\ tab'.src \in {0, tab.src}
    BY <1>20, <2>1, <2>2, <2>3 DEF Receive, Tabs
  <2> QED BY <1>0, <1>20, <2>4 DEF Receive, Bounds
<1> QED
  BY <1>1, <1>2, <1>3, <1>4, <1>5, <1>6, <1>7, <1>8, <1>9, <1>10, <1>11, <1>12, <1>13, <1>14, <1>15, <1>16,
     <1>17, <1>18, <1>19, <1>20
  DEF Next, Ops, Kinds

\* Every content the disk, an agent or the tab has is one that was made, every time one
\* the clock gave, and the versions, the phases and the filters have their types.
THEOREM FileTypeCorrect == Spec => []TypeOK
<1>1. Init => Types /\ Bounds
  <2>1. Init => Bounds
    BY DEF Init, Bounds, Given, OpenTab, NoMark
  <2> QED BY <2>1, InitTypes
<1>2. Types /\ Bounds /\ [Next]_vars => (Types /\ Bounds)'
  BY StepTypes, StepBounds
<1>3. Types /\ Bounds => TypeOK
  <2> SUFFICES ASSUME Types, Bounds PROVE TypeOK
    OBVIOUS
  <2>1. /\ disk.c \in 0..made /\ disk.t \in 0..clock /\ made \in Nat /\ clock \in Nat
        /\ ver \in Nat /\ seen \in 0..clock /\ mark \in 0..clock \cup {NoMark, Pending}
    BY DEF Types, DiskTypes, Files, Bounds, NoMark, Pending
  <2>2. fs.changed \in 0..EventsPerChange /\ fs.deleted \in 0..1 /\ watch.s \in {"idle", "passed", "sending"}
    BY DEF Types, DiskTypes, Watching
  <2>3. \A a \in Agents : know[a].v \in Nat \cup {None} /\ know[a].c \in 0..made \cup {Unread}
    BY DEF Types, DiskTypes, WriterTypes, Bounds, Unread
  <2>4. tab.c \in 1..made /\ tab.base \in Nat /\ tab.pend \in Nat /\ tab.src \in 0..saves
    BY DEF Types, TabTypes, Tabs, Bounds, Given
  <2>5. tab.dirty \in BOOLEAN /\ tab.conflict \in BOOLEAN
    BY DEF Types, TabTypes, Tabs
  <2> QED BY <2>1, <2>2, <2>3, <2>4, <2>5 DEF TypeOK, Types, WriterTypes, Phases
<1> QED BY <1>1, <1>2, <1>3, PTL DEF Spec

-----------------------------------------------------------------------------
(* The lock and the requests.                                              *)

\* The steps that leave the writers and the agents alone.
Aside ==
    \/ UNCHANGED vars \/ EditOutside \/ DeleteOutside \/ Expire \/ Compare \/ Broadcast \/ Type \/ Hear
    \/ \E k \in Kinds : Notice(k)
    \/ \E g \in gets : Serve(g) \/ Answer(g) \/ Receive(g)

LEMMA AsideKeeps ==
  ASSUME Aside
  PROVE  UNCHANGED <<phase, req, know, put>>
<1> USE DEF writeVars, tabVars
<1>1. CASE UNCHANGED vars
  BY <1>1 DEF vars
<1>2. CASE EditOutside \/ DeleteOutside \/ Expire \/ Compare \/ Broadcast \/ \E k \in Kinds : Notice(k)
  BY <1>2 DEF EditOutside, DeleteOutside, Expire, Compare, Broadcast, Notice
<1>3. CASE Type \/ Hear \/ \E g \in gets : Serve(g) \/ Answer(g) \/ Receive(g)
  BY <1>3 DEF Type, Hear, Serve, Answer, AnswerWith, Receive
<1> QED BY <1>1, <1>2, <1>3 DEF Aside

LEMMA Steps ==
  ASSUME [Next]_vars
  PROVE  \/ Aside \/ Autosave \/ SaveAnswered
         \/ \E a \in Agents : ReadVersion(a) \/ ReadContent(a) \/ \E op \in Ops : Call(a, op)
         \/ \E w \in Writers : Enter(w) \/ Stage(w) \/ Rename(w) \/ Remark(w) \/ Remove(w) \/ Finish(w)
  BY DEF Next, Aside, Kinds, Ops

\* A writer that is answered, or moves on, disturbs no other.
LEMMA AnsweredLocked ==
  ASSUME Types, Locked, NEW w \in Writers, NEW v, phase[w] # "idle", Answered(w, v),
         \A a \in Agents : a # w => know'[a] = know[a]
  PROVE  Locked'
<1>1. /\ phase'[w] = "idle"
      /\ \A x \in Writers : x # w => phase'[x] = phase[x] /\ req'[x] = req[x]
  BY AnsweredPhases
<1>2. "tab" \in Writers /\ Agents \subseteq Writers /\ "tab" \notin Agents
  BY AgentsAssumption DEF Writers
<1>3. w # "tab" => put' = put
  BY DEF Answered
<1>4. \A x, y \in Writers : Holds(x)' /\ Holds(y)' => x = y
  BY <1>1 DEF Locked, Holds
<1>5. phase'["tab"] # "idle" => put' = NoAnswer /\ req'["tab"].op = "write"
  BY <1>1, <1>2, <1>3 DEF Locked
<1> QED BY <1>1, <1>2, <1>4, <1>5 DEF Locked

LEMMA MovedLocked ==
  ASSUME Types, Locked, NEW w \in Writers, NEW q \in {"checked", "staged", "renamed", "replaced"}, phase[w] # "idle",
         phase' = [phase EXCEPT ![w] = q], UNCHANGED <<req, put, know>>,
         Holds(w) \/ Holding = {}, q = "staged" => req[w].op # "delete"
  PROVE  Locked'
<1>1. /\ phase'[w] = q
      /\ \A x \in Writers : x # w => phase'[x] = phase[x]
  BY DEF Types, WriterTypes
<1>2. "tab" \in Writers /\ Agents \subseteq Writers
  BY DEF Writers
<1>3. \A x \in Writers : Holds(x)' => x = w
  BY <1>1 DEF Holds, Holding, Locked
<1> QED BY <1>1, <1>2, <1>3 DEF Locked

LEMMA StepLocked ==
  ASSUME Types, Locked, [Next]_vars
  PROVE  Locked'
<1> USE DEF writeVars, tabVars
<1>0. "tab" \in Writers /\ Agents \subseteq Writers /\ "tab" \notin Agents
  BY AgentsAssumption DEF Writers
<1>1. CASE Aside
  BY <1>1, AsideKeeps DEF Locked, Holds
<1>2. CASE Autosave
  <2>1. /\ phase'["tab"] = "waiting" /\ req'["tab"].op = "write" /\ put' = NoAnswer
        /\ \A x \in Agents : phase'[x] = phase[x] /\ req'[x] = req[x]
        /\ know' = know
    BY <1>0, <1>2 DEF Autosave, Types, WriterTypes
  <2>2. \A x \in Writers : x # "tab" => x \in Agents
    BY DEF Writers
  <2>3. \A x \in Writers : Holds(x)' => Holds(x)
    BY <2>1, <2>2 DEF Holds
  <2> QED BY <2>1, <2>2, <2>3, <1>0 DEF Locked
<1>3. CASE SaveAnswered
  BY <1>3, <1>0 DEF SaveAnswered, SaveAnsweredWith, Locked, Holds
<1>4. ASSUME NEW a \in Agents, ReadVersion(a) \/ ReadContent(a)
      PROVE  Locked'
  <2>1. UNCHANGED <<phase, req, put>> /\ \A b \in Agents : b # a => know'[b] = know[b]
    BY <1>4 DEF ReadVersion, ReadContent, Types, WriterTypes
  <2>2. phase[a] = "idle"
    BY <1>4 DEF ReadVersion, ReadContent, Locked
  <2> QED BY <2>1, <2>2 DEF Locked, Holds
<1>5. ASSUME NEW a \in Agents, NEW op \in Ops, Call(a, op)
      PROVE  Locked'
  <2>1. /\ phase[a] = "idle" /\ know[a].c # Unread /\ (op \in {"write", "delete"} => know[a].c # 0)
        /\ phase'[a] = "waiting" /\ req'[a].op = op /\ (op # "create" => req'[a].expect = know[a].v)
        /\ \A x \in Writers : x # a => phase'[x] = phase[x] /\ req'[x] = req[x]
        /\ UNCHANGED <<put, know>>
    BY <1>5, <1>0 DEF Call, Types, WriterTypes
  <2>2. op \in {"write", "delete"} \/ op = "create"
    BY DEF Ops
  <2>3. \A x \in Writers : Holds(x)' => Holds(x) /\ x # a
    BY <2>1 DEF Holds
  <2> QED BY <2>1, <2>2, <2>3, <1>0 DEF Locked
<1>6. ASSUME NEW w \in Writers, Enter(w)
      PROVE  Locked'
  <2>1. CASE Passes(req[w])
    BY <1>6, <2>1, MovedLocked DEF Enter, EnterAt
  <2>2. CASE ~Passes(req[w])
    BY <1>6, <2>2, AnsweredLocked, ForgetKnow DEF Enter, EnterAt
  <2> QED BY <2>1, <2>2
<1>7. ASSUME NEW w \in Writers, Stage(w)
      PROVE  Locked'
  BY <1>7, MovedLocked DEF Stage, Holds
<1>8. ASSUME NEW w \in Writers, Rename(w) \/ Remark(w)
      PROVE  Locked'
  BY <1>8, MovedLocked DEF Rename, Remark, RemarkAs, Holds
<1>9. ASSUME NEW w \in Writers, Remove(w)
      PROVE  Locked'
  <2>1. CASE Exists
    BY <1>9, <2>1, MovedLocked DEF Remove, Holds
  <2>2. CASE ~Exists
    BY <1>9, <2>2, AnsweredLocked, ForgetKnow DEF Remove
  <2> QED BY <2>1, <2>2
<1>10. ASSUME NEW w \in Writers, Finish(w)
       PROVE  Locked'
  <2>1. \A a \in Agents : a # w => know'[a] = know[a]
    BY <1>10, ForgetKnow DEF Finish, Types, WriterTypes
  <2> QED BY <1>10, <2>1, AnsweredLocked DEF Finish
<1> QED BY <1>1, <1>2, <1>3, <1>4, <1>5, <1>6, <1>7, <1>8, <1>9, <1>10, Steps

-----------------------------------------------------------------------------
(* What the watcher announces.                                             *)

\* No writer comes to, or leaves, the steps between the staged file and its second mark.
Midway(w) == \A q \in {"staged", "renamed"} : phase'[w] = q <=> phase[w] = q

\* The steps that touch neither the file, nor its version and marks, nor the watcher's
\* thread, nor a write on its way to the file.
Quiet == UNCHANGED <<disk, clock, seen, mark, selfw, watch, temp, outside, told, lapsed>> /\ \A w \in Writers : Midway(w)

LEMMA QuietSteps ==
  ASSUME Types, [Next]_vars
  PROVE  \/ Quiet \/ EditOutside \/ DeleteOutside \/ Expire \/ Compare \/ Broadcast
         \/ \E k \in Kinds : Notice(k)
         \/ \E w \in Writers : Enter(w) \/ Stage(w) \/ Rename(w) \/ Remark(w) \/ Remove(w) \/ Finish(w)
<1> USE DEF diskVars, stateVars, watchVars, writeVars, tabVars, ghostVars
<1>1. CASE UNCHANGED vars
  BY <1>1 DEF vars, Quiet, Midway
<1>2. CASE Type \/ Autosave \/ SaveAnswered \/ Hear
  BY <1>2 DEF Type, Autosave, SaveAnswered, SaveAnsweredWith, Hear, Types, WriterTypes, Quiet, Midway
<1>3. CASE \E g \in gets : Serve(g) \/ Answer(g) \/ Receive(g)
  BY <1>3 DEF Serve, Answer, AnswerWith, Receive, Quiet, Midway
<1>4. ASSUME NEW a \in Agents, ReadVersion(a) \/ ReadContent(a)
      PROVE  Quiet
  BY <1>4 DEF ReadVersion, ReadContent, Quiet, Midway
<1>5. ASSUME NEW a \in Agents, NEW op \in Ops, Call(a, op)
      PROVE  Quiet
  BY <1>5 DEF Call, Types, WriterTypes, Quiet, Midway
<1> QED BY <1>1, <1>2, <1>3, <1>4, <1>5, Steps DEF Aside

LEMMA StepTimes ==
  ASSUME Types, Locked, Times, [Next]_vars
  PROVE  Times'
<1> USE DEF diskVars, stateVars, watchVars, writeVars, tabVars, ghostVars
<1>0. disk.t \in Nat /\ clock \in Nat /\ temp \in Nat /\ (watch.s = "passed" => watch.t \in Nat)
      /\ phase \in [Writers -> Phases]
  BY DEF Types, DiskTypes, WriterTypes, Files, Watching
<1>1. CASE Quiet
  BY <1>1 DEF Quiet, Midway, Times
<1>2. CASE EditOutside \/ DeleteOutside \/ Expire
  BY <1>0, <1>2 DEF EditOutside, DeleteOutside, Expire, Times
<1>3. CASE Compare \/ Broadcast
  BY <1>3 DEF Compare, Broadcast, Times
<1>4. ASSUME NEW k \in Kinds, Notice(k)
      PROVE  Times'
  BY <1>4 DEF Notice, Times
<1>5. ASSUME NEW w \in Writers, Enter(w) \/ Finish(w)
      PROVE  Times'
  <2>1. \A x \in Writers : phase'[x] = "staged" => phase[x] = "staged"
    BY <1>0, <1>5, AnsweredPhases DEF Enter, EnterAt, Finish
  <2> QED BY <1>5, <2>1 DEF Enter, EnterAt, Finish, Times
<1>6. ASSUME NEW w \in Writers, Stage(w)
      PROVE  Times'
  BY <1>0, <1>6 DEF Stage, Times
<1>7. ASSUME NEW w \in Writers, Rename(w) \/ Remark(w)
      PROVE  Times'
  <2>1. \A x \in Writers : phase'[x] # "staged"
    BY <1>0, <1>7 DEF Rename, Remark, RemarkAs, Locked, Holds
  <2> QED BY <1>0, <1>7, <2>1 DEF Rename, Remark, RemarkAs, Times
<1>8. ASSUME NEW w \in Writers, Remove(w)
      PROVE  Times'
  <2>1. \A x \in Writers : phase'[x] = "staged" => phase[x] = "staged"
    BY <1>0, <1>8, AnsweredPhases DEF Remove
  <2> QED BY <1>0, <1>8, <2>1 DEF Remove, Times
<1> QED BY <1>1, <1>2, <1>3, <1>4, <1>5, <1>6, <1>7, <1>8, QuietSteps

LEMMA StepAnnounced ==
  ASSUME Types, Locked, Times, Announced, [Next]_vars
  PROVE  Announced'
<1> USE DEF diskVars, stateVars, watchVars, writeVars, tabVars, ghostVars
<1>0. /\ disk.t \in Nat /\ clock \in Nat /\ seen \in Nat /\ told \in Nat /\ outside \in Nat /\ lapsed \in Nat
      /\ phase \in [Writers -> Phases]
  BY DEF Types, DiskTypes, WriterTypes, Files
\* Most steps make nothing owed.
<1>1. ASSUME UNCHANGED <<told, outside, lapsed>>, Pendent' => Pendent, Bare' => Bare
      PROVE  Announced'
  BY <1>0, <1>1 DEF Announced, Owed
<1>2. CASE Quiet
  BY <1>1, <1>2 DEF Quiet, Midway, Pendent, Shielded, Bare, Exists
<1>3. CASE EditOutside \/ DeleteOutside
  <2>1. outside' = outside + 1 /\ UNCHANGED <<told, lapsed, mark, phase>>
    BY <1>3 DEF EditOutside, DeleteOutside
  <2>2. Bare' <=> Bare
    BY <2>1 DEF Bare
  <2> QED BY <1>0, <2>1, <2>2 DEF Announced, Owed
<1>4. CASE Expire
  <2>1. UNCHANGED <<disk, seen, selfw, watch, phase, told, outside>> /\ mark' = NoMark
    BY <1>4 DEF Expire
  <2>2. CASE mark = Pending /\ Writing
    \* A write is either on its way to the file or there.
    <3>1. lapsed' = lapsed + 1
      BY <1>4, <2>2 DEF Expire
    <3>2. (\E w \in Writers : phase[w] = "staged") => ~\E w \in Writers : phase[w] = "renamed"
      BY DEF Locked, Holds
    <3>3. ~Bare
      BY <2>2 DEF Bare
    <3>4. (Pendent' => Pendent) \/ ~Bare'
      <4>1. CASE \E w \in Writers : phase[w] = "staged"
        BY <2>1, <3>2, <4>1 DEF Pendent, Shielded, Exists
      <4>2. CASE ~\E w \in Writers : phase[w] = "staged"
        BY <2>1, <4>2 DEF Bare
      <4> QED BY <4>1, <4>2
    <3> QED BY <1>0, <2>1, <3>1, <3>3, <3>4 DEF Announced, Owed
  <2>3. CASE ~(mark = Pending /\ Writing)
    <3>1. lapsed' = lapsed
      BY <1>4, <2>3 DEF Expire
    <3>2. ~Shielded /\ ~Shielded' /\ (Bare' => Bare)
      BY <2>1, <2>3 DEF Shielded, Bare, Writing, NoMark, Pending
    <3> QED BY <1>1, <2>1, <3>1, <3>2 DEF Pendent, Exists
  <2> QED BY <2>2, <2>3
<1>5. CASE Compare
  <2>1. UNCHANGED <<mark, phase, selfw, disk, outside, lapsed>> /\ watch'.s # "passed"
    BY <1>5 DEF Compare
  <2>2. Bare' <=> Bare
    BY <2>1 DEF Bare
  <2>3. CASE Exists /\ disk.t <= seen
    <3>1. seen' = seen /\ told' = told
      BY <1>5, <2>3 DEF Compare
    <3>2. ~Pendent'
      BY <1>0, <2>1, <2>3, <3>1 DEF Pendent, Exists
    <3> QED BY <1>1, <2>1, <2>2, <3>1, <3>2
  <2>4. CASE ~(Exists /\ disk.t <= seen)
    <3>1. /\ seen' = disk.t /\ watch.s = "passed"
          /\ told' = IF watch.k = "changed" /\ Exists /\ watch.t = disk.t THEN told + 1 ELSE told
      BY <1>5, <2>4 DEF Compare, Bump
    <3>2. ~Pendent'
      BY <1>0, <2>1, <3>1 DEF Pendent
    <3>3. CASE watch.k = "changed" /\ Exists /\ watch.t = disk.t
      <4>1. Pendent
        BY <1>0, <2>4, <3>1, <3>3 DEF Pendent
      <4> QED BY <1>0, <2>1, <2>2, <3>1, <3>2, <3>3, <4>1 DEF Announced, Owed
    <3>4. CASE ~(watch.k = "changed" /\ Exists /\ watch.t = disk.t)
      BY <1>1, <2>1, <2>2, <3>1, <3>2, <3>4
    <3> QED BY <3>3, <3>4
  <2> QED BY <2>3, <2>4
<1>6. CASE Broadcast
  <2>1. UNCHANGED <<disk, seen, mark, selfw, phase, told, outside, lapsed>> /\ watch'.s # "passed"
    BY <1>6 DEF Broadcast
  <2> QED BY <1>1, <2>1 DEF Pendent, Shielded, Bare, Exists
<1>7. ASSUME NEW k \in Kinds, Notice(k)
      PROVE  Announced'
  <2>1. UNCHANGED <<disk, seen, mark, selfw, phase, told, outside, lapsed>>
    BY <1>7 DEF Notice
  <2>2. Pendent' => Pendent
    <3>1. CASE watch' = watch
      BY <2>1, <3>1 DEF Pendent, Shielded, Exists
    <3>2. CASE ~Suppressed(k) /\ watch' = [s |-> "passed", k |-> k, t |-> disk.t]
      BY <2>1, <3>2 DEF Pendent, Shielded, Exists, Suppressed, FirstParty
    <3> QED BY <1>7, <3>1, <3>2 DEF Notice
  <2> QED BY <1>1, <2>1, <2>2 DEF Bare
<1>8. ASSUME NEW w \in Writers, Enter(w) \/ Remove(w) \/ Finish(w)
      PROVE  Announced'
  <2>1. \A x \in Writers : Midway(x)
    BY <1>0, <1>8, AnsweredPhases DEF Enter, EnterAt, Remove, Finish, Midway
  <2>2. UNCHANGED <<watch, told, outside, lapsed>>
    BY <1>8 DEF Enter, EnterAt, Remove, Finish
  <2>3. CASE Enter(w)
    <3>1. UNCHANGED <<disk, mark, selfw>> /\ (seen' = seen \/ seen' = disk.t)
      BY <2>3 DEF Enter, EnterAt, Absorb, Bump
    <3> QED BY <1>0, <1>1, <2>1, <2>2, <3>1 DEF Midway, Pendent, Shielded, Bare, Exists
  <2>4. CASE Remove(w)
    <3>1. UNCHANGED <<mark, seen>> /\ ((disk' = disk /\ selfw' = selfw) \/ disk'.c = 0)
      BY <2>4 DEF Remove
    <3> QED BY <1>1, <2>1, <2>2, <3>1 DEF Midway, Pendent, Shielded, Bare, Exists
  <2>5. CASE Finish(w)
    <3>1. disk' = disk /\ selfw' = selfw /\ (seen' = seen \/ seen' = disk.t)
      BY <2>5 DEF Finish, Bump
    <3>2. ~\E x \in Writers : phase[x] \in {"staged", "renamed"}
      BY <2>5 DEF Finish, Locked, Holds
    <3>3. ~Bare' /\ ~Shielded
      BY <2>1, <3>2 DEF Midway, Bare, Shielded
    <3> QED BY <1>0, <1>1, <2>2, <3>1, <3>3 DEF Pendent, Exists
  <2> QED BY <1>8, <2>3, <2>4, <2>5
<1>9. ASSUME NEW w \in Writers, Stage(w)
      PROVE  Announced'
  <2>1. UNCHANGED <<disk, seen, watch, told, outside, lapsed>> /\ selfw' = Exists /\ mark' = Pending
    BY <1>9 DEF Stage
  <2> QED BY <1>1, <2>1 DEF Pendent, Bare, Exists
\* A write that lands under its first mark owes nothing yet; one that lands without it
\* owes what it owed before.
<1>10. ASSUME NEW w \in Writers, Rename(w)
       PROVE  Announced'
  <2>1. /\ UNCHANGED <<mark, watch, told, outside, lapsed>> /\ disk'.t = temp
        /\ phase[w] = "staged" /\ phase' = [phase EXCEPT ![w] = "renamed"]
    BY <1>10 DEF Rename
  <2>2. phase'[w] = "renamed" /\ \A x \in Writers : phase'[x] # "staged"
    BY <1>0, <2>1 DEF Locked, Holds
  <2>3. ~Bare'
    BY <2>2 DEF Bare
  <2>4. CASE mark = Pending
    <3>1. ~Pendent'
      BY <2>1, <2>2, <2>4 DEF Times, Pendent, Shielded
    <3> QED BY <1>1, <2>1, <2>3, <3>1
  <2>5. CASE mark # Pending
    <3>1. Bare
      BY <2>1, <2>5 DEF Bare
    <3> QED BY <1>0, <2>1, <2>3, <3>1 DEF Announced, Owed
  <2> QED BY <2>4, <2>5
<1>11. ASSUME NEW w \in Writers, Remark(w)
       PROVE  Announced'
  <2>1. /\ UNCHANGED <<disk, seen, mark, watch, told, outside, lapsed>> /\ selfw' = Exists
        /\ phase' = [phase EXCEPT ![w] = "replaced"]
    BY <1>11 DEF Remark, RemarkAs
  <2>2. Bare' => Bare
    BY <1>0, <2>1 DEF Bare
  <2> QED BY <1>1, <2>1, <2>2 DEF Pendent, Exists
<1> QED BY <1>2, <1>3, <1>4, <1>5, <1>6, <1>7, <1>8, <1>9, <1>10, <1>11, QuietSteps

\* Whatever the order of outside edits, writes, expiring marks and the watcher's steps,
\* the watcher announces a file that passed its filters at most once per edit from
\* outside and once per write that was under way when its first mark ran out: no edit
\* twice, and the backend's own write never while one of its two marks stands
\* (_looks_like_recent_self_write, is_recent_first_party_entity_write and the comparison
\* of _apply_disk_change).
THEOREM OwnWritesAreNotEchoed == Spec => []OwnWritesNotEchoed
<1> DEFINE Inv == Types /\ Locked /\ Times /\ Announced
<1>1. Init => Inv
  <2>1. Init => Locked
    BY DEF Init, Locked, Holds, Writers
  <2>2. Init => Times /\ Announced
    BY DEF Init, Times, Announced, Owed, Pendent, Bare
  <2> QED BY <2>1, <2>2, InitTypes
<1>2. Inv /\ [Next]_vars => Inv'
  BY StepTypes, StepLocked, StepTimes, StepAnnounced
<1>3. Inv => OwnWritesNotEchoed
  BY DEF Announced, Owed, OwnWritesNotEchoed, Types, DiskTypes
<1> QED BY <1>1, <1>2, <1>3, PTL DEF Spec

-----------------------------------------------------------------------------
(* The course of the file and its version.                                 *)

\* The file and what is made of it stay as they are.
Same ==
    /\ UNCHANGED <<disk, foreign, uncounted>>
    /\ \A w \in Writers : (Landed(w)' => Landed(w) /\ req'[w] = req[w]) /\ (Landed(w) => Landed(w)')

LEMMA AsideCourse ==
  ASSUME Types, Aside \/ Autosave \/ SaveAnswered
  PROVE  EditOutside \/ DeleteOutside \/ (Same /\ (UNCHANGED stateVars \/ Bump))
<1> USE DEF diskVars, stateVars, watchVars, writeVars, tabVars, ghostVars
<1>0. phase \in [Writers -> Phases] /\ req \in [Writers -> Requests]
  BY DEF Types, WriterTypes
<1>1. CASE Aside
  <2>1. UNCHANGED <<phase, req>>
    BY <1>1, AsideKeeps
  <2>2. CASE UNCHANGED vars
    BY <2>2 DEF vars, Same, Landed
  <2>3. CASE Expire \/ Compare \/ Broadcast \/ Type \/ Hear \/ \E k \in Kinds : Notice(k)
    BY <2>1, <2>3 DEF Expire, Compare, Broadcast, Type, Hear, Notice, Same, Landed
  <2>4. CASE \E g \in gets : Serve(g) \/ Answer(g) \/ Receive(g)
    BY <2>1, <2>4 DEF Serve, Answer, AnswerWith, Receive, Same, Landed
  <2> QED BY <1>1, <2>2, <2>3, <2>4 DEF Aside
<1>2. CASE Autosave
  <2>1. phase["tab"] = "idle" /\ phase'["tab"] = "waiting" /\ \A w \in Writers : w # "tab" => phase'[w] = phase[w] /\ req'[w] = req[w]
    BY <1>0, <1>2 DEF Autosave, Writers
  <2> QED BY <1>2, <2>1 DEF Autosave, Same, Landed
<1>3. CASE SaveAnswered
  BY <1>3 DEF SaveAnswered, SaveAnsweredWith, Same, Landed
<1> QED BY <1>1, <1>2, <1>3

LEMMA Course ==
  ASSUME Types, [Next]_vars
  PROVE  \/ Same /\ UNCHANGED stateVars
         \/ Same /\ Bump
         \/ EditOutside \/ DeleteOutside
         \/ \E w \in Writers : Rename(w) \/ (Remove(w) /\ Exists) \/ Finish(w)
<1> USE DEF diskVars, stateVars, watchVars, writeVars, tabVars, ghostVars
<1>0. phase \in [Writers -> Phases] /\ req \in [Writers -> Requests]
  BY DEF Types, WriterTypes
<1>1. CASE Aside \/ Autosave \/ SaveAnswered
  BY <1>1, AsideCourse
<1>2. ASSUME NEW a \in Agents, ReadVersion(a) \/ ReadContent(a)
      PROVE  Same /\ UNCHANGED stateVars
  BY <1>2 DEF ReadVersion, ReadContent, Same, Landed
<1>3. ASSUME NEW a \in Agents, NEW op \in Ops, Call(a, op)
      PROVE  Same /\ UNCHANGED stateVars
  <2>1. phase[a] = "idle" /\ phase'[a] = "waiting" /\ \A w \in Writers : w # a => phase'[w] = phase[w] /\ req'[w] = req[w]
    BY <1>0, <1>3 DEF Call, Writers
  <2> QED BY <1>3, <2>1 DEF Call, Same, Landed
<1>4. ASSUME NEW w \in Writers, Enter(w)
      PROVE  Same /\ (UNCHANGED stateVars \/ Bump)
  <2>1. CASE Passes(req[w])
    BY <1>0, <1>4, <2>1 DEF Enter, EnterAt, Absorb, Same, Landed
  <2>2. CASE ~Passes(req[w])
    BY <1>4, <2>2, AnsweredPhases DEF Enter, EnterAt, Same, Landed
  <2> QED BY <2>1, <2>2
<1>5. ASSUME NEW w \in Writers, Stage(w) \/ Remark(w)
      PROVE  Same /\ UNCHANGED stateVars
  BY <1>0, <1>5 DEF Stage, Remark, RemarkAs, Same, Landed
<1>6. ASSUME NEW w \in Writers, Remove(w), ~Exists
      PROVE  Same /\ UNCHANGED stateVars
  BY <1>6, AnsweredPhases DEF Remove, Same, Landed
<1> QED BY <1>1, <1>2, <1>3, <1>4, <1>5, <1>6, Steps

\* The version never goes back, and only the count of a file already there raises it.
LEMMA VersionRises ==
  ASSUME Types, [Next]_vars
  PROVE  ver' = ver \/ ver' = ver + 1
<1> USE DEF stateVars
<1>1. CASE EditOutside \/ DeleteOutside
  BY <1>1 DEF EditOutside, DeleteOutside
<1>2. CASE \E w \in Writers : Rename(w) \/ (Remove(w) /\ Exists) \/ Finish(w)
  BY <1>2 DEF Rename, Remove, Finish, Bump
<1> QED BY <1>1, <1>2, Course DEF Bump

LEMMA StepReplaced ==
  ASSUME Types, Locked, Replaced, [Next]_vars
  PROVE  Replaced'
<1> USE DEF diskVars, stateVars, watchVars, writeVars, tabVars, ghostVars
<1>0. phase \in [Writers -> Phases]
  BY DEF Types, WriterTypes
<1>1. CASE Same
  <2>1. disk' = disk /\ foreign' = foreign
    BY <1>1 DEF Same
  <2>2. \A w \in Writers : Landed(w)' => Landed(w) /\ req'[w] = req[w]
    BY <1>1 DEF Same
  <2> QED BY <2>1, <2>2 DEF Replaced, Within
<1>2. CASE EditOutside
  BY <1>2 DEF EditOutside, Replaced, Landed, Within
<1>3. CASE DeleteOutside
  BY <1>3 DEF DeleteOutside, Replaced, Landed, Within
<1>4. ASSUME NEW w \in Writers, Rename(w)
      PROVE  Replaced'
  <2>1. \A x \in Writers : Landed(x)' => x = w
    BY <1>0, <1>4 DEF Rename, Locked, Landed, Holds
  <2> QED BY <1>4, <2>1 DEF Rename, Replaced, Within
<1>5. ASSUME NEW w \in Writers, Remove(w), Exists
      PROVE  Replaced'
  BY <1>5 DEF Remove, Replaced, Landed, Within
<1>6. ASSUME NEW w \in Writers, Finish(w)
      PROVE  Replaced'
  <2>1. UNCHANGED <<disk, foreign>> /\ \E v : Answered(w, v)
    BY <1>6 DEF Finish
  <2> QED BY <2>1, AnsweredPhases DEF Replaced, Landed, Within
<1> QED BY <1>1, <1>2, <1>3, <1>4, <1>5, <1>6, Course

\* What shows the file keeps showing it until a write of the file is counted.
LEMMA ShowsKept ==
  ASSUME Types, Locked, [Next]_vars
  PROVE  (\A c : Shows(c) => Shows(c)') \/ (ver' = ver + 1 /\ LoopFree)
<1> USE DEF diskVars, stateVars, watchVars, writeVars, tabVars, ghostVars
<1>0. phase \in [Writers -> Phases]
  BY DEF Types, WriterTypes
<1>1. CASE Same
  <2>1. disk' = disk /\ foreign' = foreign
    BY <1>1 DEF Same
  <2>2. \A w \in Writers : Landed(w) => Landed(w)'
    BY <1>1 DEF Same
  <2> QED BY <2>1, <2>2 DEF Shows, Counted, Exists
<1>2. CASE EditOutside
  BY <1>2 DEF EditOutside, Shows
<1>3. CASE DeleteOutside
  BY <1>3 DEF DeleteOutside, Shows, Exists
<1>4. ASSUME NEW w \in Writers, Rename(w)
      PROVE  ~Counted'
  BY <1>0, <1>4 DEF Rename, Counted, Landed
<1>5. ASSUME NEW w \in Writers, Remove(w), Exists
      PROVE  ~Counted'
  BY <1>0, <1>5 DEF Remove, Counted, Landed
<1>6. ASSUME NEW w \in Writers, Finish(w)
      PROVE  ~Exists' \/ (ver' = ver + 1 /\ LoopFree)
  BY <1>6 DEF Finish, Bump, Exists
<1> QED BY <1>1, <1>2, <1>3, <1>4, <1>5, <1>6, Course DEF Shows

LEMMA GoodKept ==
  ASSUME Types, Locked, [Next]_vars, NEW c, NEW v \in Nat, Good(c, v)
  PROVE  Good(c, v)'
<1>1. ver \in Nat
  BY DEF Types, DiskTypes
<1>2. CASE ver' = ver
  <2>1. Shows(c) => Shows(c)'
    BY <1>1, <1>2, ShowsKept
  <2> QED BY <1>2, <2>1 DEF Good
<1>3. CASE ver' = ver + 1
  BY <1>1, <1>3 DEF Good
<1> QED BY <1>2, <1>3, VersionRises

-----------------------------------------------------------------------------
(* What the browser shows.                                                 *)

LEMMA StepGetsShow ==
  ASSUME Types, Locked, GetsShow, [Next]_vars
  PROVE  GetsShow'
<1> USE DEF diskVars, stateVars, watchVars, writeVars, tabVars, ghostVars
<1>1. ver \in Nat /\ gets \subseteq Gets
  BY DEF Types, DiskTypes, TabTypes
<1>2. \A g \in gets : g.s = "read" => Shows(g.c)'
  <2>1. \A g \in gets : g.s = "read" => ~LoopFree
    BY DEF LoopFree
  <2> QED BY <2>1, ShowsKept DEF GetsShow
<1>3. \A g \in gets : g.s = "answered" => Good(g.c, g.v)'
  <2> SUFFICES ASSUME NEW g \in gets, g.s = "answered" PROVE Good(g.c, g.v)'
    OBVIOUS
  <2>1. g.v \in Nat
    BY <1>1 DEF Gets
  <2>2. Good(g.c, g.v)
    BY DEF GetsShow
  <2> QED BY <2>1, <2>2, GoodKept
<1>4. CASE \A h \in gets' : h \in gets \/ h.s \in {"asked", "missing"}
  BY <1>2, <1>3, <1>4 DEF GetsShow
<1>5. ASSUME NEW g \in gets, Serve(g)
      PROVE  GetsShow'
  <2>1. UNCHANGED <<disk, foreign, phase>>
    BY <1>5 DEF Serve
  <2>2. \A h \in gets' : h \in gets \/ h.s = "missing" \/ (h.s = "read" /\ h.c = disk.c)
    BY <1>5 DEF Serve
  <2>3. Shows(disk.c)'
    BY <2>1 DEF Shows
  <2> QED BY <1>2, <1>3, <2>1, <2>2, <2>3 DEF GetsShow
<1>6. ASSUME NEW g \in gets, Answer(g)
      PROVE  GetsShow'
  <2>1. \A h \in gets' : h \in gets \/ (h.s = "answered" /\ h.c = g.c /\ h.v = ver')
    BY <1>6 DEF Answer, AnswerWith
  <2>2. Shows(g.c)'
    BY <1>2, <1>6 DEF Answer, AnswerWith
  <2>3. \A h \in gets' : h \notin gets => Good(h.c, h.v)'
    BY <1>1, <1>6, <2>1, <2>2 DEF Answer, AnswerWith, Good
  <2>4. \A h \in gets' : h \notin gets => h.s = "answered"
    BY <2>1
  <2> QED BY <1>2, <1>3, <2>3, <2>4 DEF GetsShow
<1>7. CASE Aside
  <2>1. CASE Hear
    BY <1>4, <2>1 DEF Hear, Ask
  <2>2. ASSUME NEW g \in gets, Receive(g)
        PROVE  GetsShow'
    BY <1>4, <2>2 DEF Receive
  <2>3. CASE UNCHANGED vars \/ EditOutside \/ DeleteOutside \/ Expire \/ Compare \/ Broadcast \/ Type
    BY <1>4, <2>3 DEF vars, EditOutside, DeleteOutside, Expire, Compare, Broadcast, Type
  <2>4. CASE \E k \in Kinds : Notice(k)
    BY <1>4, <2>4 DEF Notice
  <2> QED BY <1>5, <1>6, <1>7, <2>1, <2>2, <2>3, <2>4 DEF Aside
<1>8. CASE Autosave \/ SaveAnswered
  BY <1>4, <1>8 DEF Autosave, SaveAnswered, SaveAnsweredWith
<1>9. CASE \E a \in Agents : ReadVersion(a) \/ ReadContent(a) \/ \E op \in Ops : Call(a, op)
  BY <1>4, <1>9 DEF ReadVersion, ReadContent, Call
<1>10. CASE \E w \in Writers : Enter(w) \/ Stage(w) \/ Rename(w) \/ Remark(w) \/ Remove(w) \/ Finish(w)
  BY <1>4, <1>10 DEF Enter, EnterAt, Stage, Rename, Remark, RemarkAs, Remove, Finish
<1> QED BY <1>7, <1>8, <1>9, <1>10, Steps

\* The answer to the save, and the base of the tab, except in the steps of the tab itself.
LEMMA PutSteps ==
  ASSUME Types, Locked, [Next]_vars
  PROVE  \/ put' = put
         \/ SaveAnswered
         \/ /\ put = NoAnswer /\ tab' = tab /\ saves' = saves
            /\ put'.v = Failed /\ ws' = ws /\ watch' = watch
         \/ Finish("tab") /\ put = NoAnswer /\ tab' = tab /\ put' = [c |-> req["tab"].c, v |-> ver']
<1> USE DEF diskVars, stateVars, watchVars, writeVars, tabVars, ghostVars
<1>1. CASE Aside
  BY <1>1, AsideKeeps
<1>2. CASE Autosave
  BY <1>2 DEF Autosave
<1>3. CASE \E a \in Agents : ReadVersion(a) \/ ReadContent(a) \/ \E op \in Ops : Call(a, op)
  BY <1>3 DEF ReadVersion, ReadContent, Call
<1>4. CASE \E w \in Writers : Stage(w) \/ Rename(w) \/ Remark(w)
  BY <1>4 DEF Stage, Rename, Remark, RemarkAs
<1>5. ASSUME NEW w \in Writers, w # "tab", Enter(w) \/ Remove(w) \/ Finish(w)
      PROVE  put' = put
  BY <1>5 DEF Enter, EnterAt, Remove, Finish, Answered
<1>6. CASE Enter("tab") \/ Remove("tab")
  BY <1>6 DEF Enter, EnterAt, Remove, Answered, Locked
<1>7. CASE Finish("tab")
  <2>1. put = NoAnswer
    BY <1>7 DEF Finish, Locked
  <2> QED BY <1>7, <2>1 DEF Finish, Answered
<1> QED BY <1>1, <1>2, <1>3, <1>4, <1>5, <1>6, <1>7, Steps

LEMMA StepPutShows ==
  ASSUME Types, Locked, Replaced, PutShows, [Next]_vars
  PROVE  PutShows'
<1> USE DEF diskVars, stateVars, watchVars, writeVars, tabVars, ghostVars
<1>0. ver \in Nat
  BY DEF Types, DiskTypes
<1>1. CASE put' = put
  BY <1>1, GoodKept DEF PutShows
<1>2. CASE SaveAnswered
  BY <1>2 DEF SaveAnswered, SaveAnsweredWith, PutShows, NoAnswer, None
<1>3. CASE put'.v = Failed
  BY <1>3 DEF PutShows, Failed
<1>4. CASE Finish("tab") /\ put' = [c |-> req["tab"].c, v |-> ver']
  <2>1. phase["tab"] = "replaced" /\ UNCHANGED <<disk, foreign>>
    BY <1>4 DEF Finish
  <2>2. Within(req["tab"].c)
    BY <2>1 DEF Replaced, Landed, Writers
  <2>3. Exists' /\ disk'.c \notin foreign' => put'.c = disk'.c
    BY <1>4, <2>1, <2>2 DEF Within, Exists
  <2>4. put'.v = ver' /\ ver' \in Nat
    BY <1>0, <1>4, VersionRises
  <2> QED BY <2>3, <2>4 DEF PutShows, Good, Shows
<1> QED BY <1>1, <1>2, <1>3, <1>4, PutSteps

LEMMA TabSteps ==
  ASSUME [Next]_vars
  PROVE  tab' = tab \/ Type \/ Autosave \/ SaveAnswered \/ Hear \/ \E g \in gets : Receive(g)
<1> USE DEF diskVars, stateVars, watchVars, writeVars, tabVars, ghostVars
<1>1. CASE Aside
  <2>1. CASE UNCHANGED vars \/ EditOutside \/ DeleteOutside \/ Expire \/ Compare \/ Broadcast
    BY <2>1 DEF vars, EditOutside, DeleteOutside, Expire, Compare, Broadcast
  <2>2. CASE \E k \in Kinds : Notice(k)
    BY <2>2 DEF Notice
  <2>3. CASE \E g \in gets : Serve(g) \/ Answer(g)
    BY <2>3 DEF Serve, Answer, AnswerWith
  <2> QED BY <1>1, <2>1, <2>2, <2>3 DEF Aside
<1>2. CASE \E a \in Agents : ReadVersion(a) \/ ReadContent(a) \/ \E op \in Ops : Call(a, op)
  BY <1>2 DEF ReadVersion, ReadContent, Call
<1>3. CASE \E w \in Writers : Enter(w) \/ Stage(w) \/ Rename(w) \/ Remark(w) \/ Remove(w) \/ Finish(w)
  BY <1>3 DEF Enter, EnterAt, Stage, Rename, Remark, RemarkAs, Remove, Finish
<1> QED BY <1>1, <1>2, <1>3, Steps

\* The other side of a conflict leaves what the tab shows as it is.
LEMMA ConflictingTab ==
  ASSUME Types
  PROVE  /\ Conflicting.c = tab.c /\ Conflicting.base = tab.base /\ Conflicting.src = tab.src
         /\ Conflicting.pend = tab.pend /\ (Conflicting.dirty <=> FileIsDirty)
<1>1. tab \in Tabs
  BY DEF Types, TabTypes
<1> QED BY <1>1 DEF Conflicting, Tabs, FileIsDirty

LEMMA StepTabShows ==
  ASSUME Types, Types', Locked, BrowserShows, [Next]_vars
  PROVE  TabShows'
<1> USE DEF diskVars, stateVars, watchVars, writeVars, tabVars, ghostVars
<1>0. tab \in Tabs /\ ver \in Nat /\ ver' \in Nat /\ put' \in {NoAnswer} \cup [c : Nat, v : Nat \cup {Failed}]
  BY DEF Types, DiskTypes, TabTypes
<1>1. tab.c \in Nat /\ tab.base \in Nat /\ tab.pend \in Nat /\ tab.src \in Nat
  BY <1>0 DEF Tabs
<1>2. ver' >= ver
  BY <1>0, VersionRises
<1>3. CASE tab' = tab /\ ~SaveAnswered
  <2>1. put'.v \notin Nat => put.v \notin Nat
    <3>1. put'.v \notin Nat => put' = put \/ put = NoAnswer
      BY <1>0, <1>3, PutSteps
    <3> QED BY <3>1 DEF NoAnswer, None
  <2>2. FileIsDirty' <=> FileIsDirty
    BY <1>3 DEF FileIsDirty
  <2>3. Good(tab.c, tab.base) => Good(tab.c, tab.base)'
    <3>1. \A c : \A v \in Nat : Good(c, v) => Good(c, v)'
      BY GoodKept
    <3> QED BY <1>1, <1>3, <3>1 DEF Good
  <2> QED BY <1>0, <1>1, <1>2, <1>3, <2>1, <2>2, <2>3 DEF TabShows, BrowserShows
<1>4. CASE Type
  <2>1. tab'.dirty /\ tab'.base = tab.base
    BY <1>0, <1>4 DEF Type, Tabs
  <2> QED BY <1>0, <1>1, <1>2, <2>1 DEF TabShows, BrowserShows, FileIsDirty
<1>5. CASE Autosave
  <2>1. tab'.pend = NextPending(tab.base, tab.pend) /\ tab'.base = tab.base
    BY <1>0, <1>5 DEF Autosave, Tabs
  <2>2. tab'.pend > tab'.base
    BY <1>1, <2>1, NextPendingType
  <2> QED BY <1>0, <1>1, <1>2, <2>1, <2>2 DEF TabShows, BrowserShows, FileIsDirty
<1>6. CASE SaveAnswered
  <2>1. ver' = ver /\ UNCHANGED <<disk, foreign, phase>> /\ put # NoAnswer
    BY <1>6 DEF SaveAnswered, SaveAnsweredWith
  <2>2. CASE put.v = Failed
    <3>1. tab' = tab /\ put.v \notin Nat
      BY <1>6, <2>2 DEF SaveAnswered, SaveAnsweredWith, Failed
    <3>2. FileIsDirty' <=> FileIsDirty
      BY <3>1 DEF FileIsDirty
    <3> QED BY <2>1, <3>1, <3>2 DEF TabShows, BrowserShows, Good, Shows, Exists, Counted, Landed
  <2>3. CASE put.v # Failed
    <3>1. put.v \in Nat
      BY <2>1, <2>3 DEF Types, TabTypes
    <3>2. tab'.base = put.v /\ tab'.c = tab.c /\ (tab'.dirty <=> tab.c # put.c)
      BY <1>0, <1>6, <2>3 DEF SaveAnswered, SaveAnsweredWith, Tabs
    <3>3. Good(put.c, put.v)
      BY <3>1 DEF BrowserShows, PutShows
    <3>4. ~FileIsDirty' => tab'.c = put.c
      BY <3>2 DEF FileIsDirty
    <3> QED BY <2>1, <3>2, <3>3, <3>4 DEF TabShows, Good, Shows, Exists, Counted, Landed
  <2> QED BY <2>2, <2>3
<1>7. CASE Hear
  <2>1. UNCHANGED <<ver, disk, foreign, phase, put>>
    BY <1>7 DEF Hear
  <2>2. CASE tab' = tab
    BY <2>1, <2>2 DEF TabShows, BrowserShows, Good, Shows, Exists, Counted, Landed, FileIsDirty
  <2>3. CASE tab' = Conflicting
    <3>1. tab'.c = tab.c /\ tab'.base = tab.base /\ (FileIsDirty' => FileIsDirty) /\ (FileIsDirty => FileIsDirty')
      BY <2>3, ConflictingTab DEF FileIsDirty
    <3> QED BY <2>1, <3>1 DEF TabShows, BrowserShows, Good, Shows, Exists, Counted, Landed
  <2>4. CASE tab' # tab /\ tab' # Conflicting
    <3>1. /\ ws # <<>> /\ Head(ws).src # 0 /\ Head(ws).src = tab.src
          /\ tab' = Confirmed(Head(ws).v)
      BY <1>7, <2>4 DEF Hear
    <3>2. ws \in Seq(Events) /\ 1 \in 1..Len(ws) /\ Head(ws) = ws[1] /\ ws[1] \in Events
      BY <3>1 DEF Types, TabTypes
    <3>3. put.v = Head(ws).v /\ Head(ws).v \in Nat /\ Head(ws).v <= ver
      BY <3>1, <3>2 DEF BrowserShows, EventsShow, Events
    <3>4. tab'.base = Head(ws).v
      BY <1>0, <3>1 DEF Confirmed, Tabs
    <3> QED BY <2>1, <3>3, <3>4 DEF TabShows
  <2> QED BY <2>2, <2>3, <2>4
<1>8. ASSUME NEW g \in gets, Receive(g)
      PROVE  TabShows'
  <2>1. UNCHANGED <<ver, disk, foreign, phase, put>>
    BY <1>8 DEF Receive
  <2>2. CASE tab' = tab
    BY <2>1, <2>2 DEF TabShows, BrowserShows, Good, Shows, Exists, Counted, Landed, FileIsDirty
  <2>3. CASE tab' = Conflicting
    <3>1. tab'.c = tab.c /\ tab'.base = tab.base /\ (FileIsDirty' => FileIsDirty) /\ (FileIsDirty => FileIsDirty')
      BY <2>3, ConflictingTab DEF FileIsDirty
    <3> QED BY <2>1, <3>1 DEF TabShows, BrowserShows, Good, Shows, Exists, Counted, Landed
  <2>4. CASE tab' # tab /\ tab' # Conflicting
    <3>1. /\ g.s = "answered"
          /\ tab' = [tab EXCEPT !.c = g.c, !.base = g.v, !.pend = g.v, !.src = 0, !.dirty = FALSE, !.conflict = FALSE]
      BY <1>8, <2>4 DEF Receive
    <3>2. tab'.c = g.c /\ tab'.base = g.v
      BY <1>0, <3>1 DEF Tabs
    <3>3. Good(g.c, g.v)
      BY <3>1 DEF BrowserShows, GetsShow
    <3> QED BY <2>1, <3>2, <3>3 DEF TabShows, Good, Shows, Exists, Counted, Landed
  <2> QED BY <2>2, <2>3, <2>4
<1> QED BY <1>3, <1>4, <1>5, <1>6, <1>7, <1>8, TabSteps

LEMMA EventSteps ==
  ASSUME [Next]_vars
  PROVE  \/ UNCHANGED <<ws, saves>> /\ (watch' = watch \/ watch'.s # "sending" \/ watch'.v = ver')
         \/ Broadcast \/ Hear \/ Autosave \/ \E w \in Writers : Finish(w)
<1> USE DEF diskVars, stateVars, watchVars, writeVars, tabVars, ghostVars
<1>1. CASE Aside
  <2>1. CASE UNCHANGED vars \/ EditOutside \/ DeleteOutside \/ Expire \/ Type
    BY <2>1 DEF vars, EditOutside, DeleteOutside, Expire, Type
  <2>2. CASE Compare \/ \E k \in Kinds : Notice(k)
    BY <2>2 DEF Compare, Notice
  <2>3. CASE \E g \in gets : Serve(g) \/ Answer(g) \/ Receive(g)
    BY <2>3 DEF Serve, Answer, AnswerWith, Receive
  <2> QED BY <1>1, <2>1, <2>2, <2>3 DEF Aside
<1>2. CASE SaveAnswered \/ \E a \in Agents : ReadVersion(a) \/ ReadContent(a) \/ \E op \in Ops : Call(a, op)
  BY <1>2 DEF SaveAnswered, SaveAnsweredWith, ReadVersion, ReadContent, Call
<1>3. CASE \E w \in Writers : Enter(w) \/ Stage(w) \/ Rename(w) \/ Remark(w) \/ Remove(w)
  <2>1. CASE \E w \in Writers : Enter(w) \/ Stage(w)
    BY <2>1 DEF Enter, EnterAt, Stage
  <2>2. CASE \E w \in Writers : Rename(w) \/ Remark(w) \/ Remove(w)
    BY <2>2 DEF Rename, Remark, RemarkAs, Remove
  <2> QED BY <1>3, <2>1, <2>2
<1> QED BY <1>1, <1>2, <1>3, Steps

\* An event of the tab's own save is on its way only while the answer to it is.
LEMMA OwnEvent ==
  ASSUME Types, EventsShow, put.v \notin Nat
  PROVE  \A i \in 1..Len(ws) : ws[i].src = 0 \/ ws[i].src # tab.src
<1>1. \A i \in 1..Len(ws) : ws[i] \in Events
  BY DEF Types, TabTypes
<1> QED BY <1>1 DEF EventsShow, Events

LEMMA StepEventsShow ==
  ASSUME Types, Types', Locked, EventsShow, [Next]_vars
  PROVE  EventsShow'
<1> USE DEF diskVars, stateVars, watchVars, writeVars, tabVars, ghostVars
<1>0. /\ tab \in Tabs /\ ver \in Nat /\ ver' \in Nat /\ saves \in Nat /\ ws \in Seq(Events) /\ watch \in Watching
      /\ tab.src \in Nat /\ \A i \in 1..Len(ws) : ws[i] \in Events
  <2>1. /\ tab \in Tabs /\ ver \in Nat /\ ver' \in Nat /\ saves \in Nat /\ ws \in Seq(Events) /\ watch \in Watching
    BY DEF Types, DiskTypes, TabTypes
  <2> QED BY <2>1 DEF Tabs
<1>1. \A i \in 1..Len(ws) : ws[i].v \in Nat /\ ws[i].src \in Nat
  BY <1>0 DEF Events
<1>2. ver' >= ver
  BY <1>0, VersionRises
<1>3. \A i \in 1..Len(ws) : ws[i].v <= ver' /\ ws[i].src <= saves
  BY <1>0, <1>1, <1>2 DEF EventsShow
<1>4. watch.s = "sending" => watch.v <= ver'
  BY <1>0, <1>2 DEF EventsShow, Watching
<1>5. CASE UNCHANGED <<ws, saves>> /\ (watch' = watch \/ watch'.s # "sending" \/ watch'.v = ver')
           /\ ~Hear /\ ~Autosave /\ ~Finish("tab")
  <2>1. tab'.src \in {0, tab.src}
    <3>1. CASE Type \/ SaveAnswered
      BY <1>0, <3>1 DEF Type, SaveAnswered, SaveAnsweredWith, Tabs
    <3>2. ASSUME NEW g \in gets, Receive(g)
          PROVE  tab'.src \in {0, tab.src}
      <4>1. tab' = tab \/ tab' = Conflicting \/ tab' = [tab EXCEPT !.c = g.c, !.base = g.v, !.pend = g.v, !.src = 0,
                                                                   !.dirty = FALSE, !.conflict = FALSE]
        BY <3>2 DEF Receive
      <4> QED BY <1>0, <4>1, ConflictingTab DEF Tabs
    <3> QED BY <1>5, <3>1, <3>2, TabSteps
  <2>2. CASE put' = put
    BY <1>0, <1>3, <1>4, <1>5, <2>1, <2>2 DEF EventsShow
  <2>3. CASE SaveAnswered /\ put.v = Failed
    <3>1. put.v \notin Nat
      BY <2>3 DEF Failed
    <3> QED BY <1>0, <1>3, <1>4, <1>5, <2>1, <3>1, OwnEvent DEF EventsShow
  <2>4. CASE SaveAnswered /\ put.v # Failed
    <3>1. tab'.src = 0
      BY <1>0, <2>4 DEF SaveAnswered, SaveAnsweredWith, Tabs
    <3> QED BY <1>0, <1>3, <1>4, <1>5, <3>1 DEF EventsShow
  <2>5. CASE put = NoAnswer
    <3>1. put.v \notin Nat
      BY <2>5 DEF NoAnswer, None
    <3> QED BY <1>0, <1>3, <1>4, <1>5, <2>1, <3>1, OwnEvent DEF EventsShow
  <2> QED BY <1>5, <2>2, <2>3, <2>4, <2>5, PutSteps
<1>6. CASE Broadcast
  <2>1. UNCHANGED <<tab, put, saves>> /\ watch'.s = "idle" /\ watch.s = "sending"
    BY <1>6 DEF Broadcast
  <2>2. ws' = Append(ws, [v |-> watch.v, src |-> 0, gone |-> watch.gone])
    BY <1>6 DEF Broadcast
  <2>3. \A i \in 1..Len(ws') : (i \in 1..Len(ws) /\ ws'[i] = ws[i]) \/ ws'[i] = [v |-> watch.v, src |-> 0, gone |-> watch.gone]
    <3> DEFINE e == [v |-> watch.v, src |-> 0, gone |-> watch.gone]
    <3>1. ws' = Append(ws, e)
      BY <2>2
    <3> HIDE DEF e
    <3>2. \A i \in 1..Len(ws') : (i \in 1..Len(ws) /\ ws'[i] = ws[i]) \/ ws'[i] = e
      BY <1>0, <3>1
    <3> QED BY <3>2 DEF e
  <2> QED BY <1>0, <1>3, <1>4, <2>1, <2>3 DEF EventsShow
<1>7. CASE Hear
  <2>1. UNCHANGED <<put, saves, watch>> /\ ws # <<>> /\ ws' = Tail(ws)
    BY <1>7 DEF Hear
  <2>2. \A i \in 1..Len(ws') : i + 1 \in 1..Len(ws) /\ ws'[i] = ws[i + 1]
    BY <1>0, <2>1
  <2>3. tab'.src \in {0, tab.src}
    <3>1. tab' = tab \/ tab' = Conflicting \/ tab' = Confirmed(Head(ws).v)
      BY <1>7 DEF Hear
    <3> QED BY <1>0, <3>1, ConflictingTab DEF Confirmed, Tabs
  <2> QED BY <1>0, <1>3, <1>4, <2>1, <2>2, <2>3 DEF EventsShow
<1>8. CASE Autosave
  <2>1. UNCHANGED <<put, ws, watch>> /\ saves' = saves + 1 /\ tab'.src = saves'
    BY <1>0, <1>8 DEF Autosave, Tabs
  <2> QED BY <1>0, <1>1, <1>3, <1>4, <2>1 DEF EventsShow
<1>9. ASSUME NEW w \in Writers, Finish(w)
      PROVE  EventsShow'
  <2>1. UNCHANGED <<tab, saves, watch>>
    BY <1>9 DEF Finish
  <2>2. CASE ws' = ws
    <3>1. put' = put \/ put = NoAnswer
      BY <1>9 DEF Finish, Answered, Locked
    <3>2. put = NoAnswer => put.v \notin Nat
      BY DEF NoAnswer, None
    <3> QED BY <1>0, <1>3, <1>4, <2>1, <2>2, <3>1, <3>2, OwnEvent DEF EventsShow
  <2>3. CASE ws' # ws
    <3> DEFINE e == [v |-> ver', src |-> IF w = "tab" THEN saves ELSE 0, gone |-> req[w].op = "delete"]
    <3>1. ws' = Append(ws, e) /\ Answered(w, ver')
      BY <1>9, <2>3 DEF Finish
    <3>2. \A i \in 1..Len(ws') : (i \in 1..Len(ws) /\ ws'[i] = ws[i]) \/ ws'[i] = e
      BY <1>0, <3>1
    <3>3. e.v = ver' /\ e.src \in {0, saves} /\ (e.src # 0 => w = "tab")
      OBVIOUS
    <3>4. CASE w # "tab"
      <4>1. put' = put
        BY <3>1, <3>4 DEF Answered
      <4> HIDE DEF e
      <4> QED BY <1>0, <1>3, <1>4, <2>1, <3>2, <3>3, <3>4, <4>1 DEF EventsShow
    <3>5. CASE w = "tab"
      <4>1. put.v \notin Nat /\ put'.v = ver'
        BY <1>9, <3>1, <3>5 DEF Answered, Locked, NoAnswer, None, Finish
      <4>2. \A i \in 1..Len(ws) : ws[i].src = 0 \/ ws[i].src # tab.src
        BY <4>1, OwnEvent
      <4> HIDE DEF e
      <4> QED BY <1>0, <1>3, <1>4, <2>1, <3>2, <3>3, <4>1, <4>2 DEF EventsShow
    <3> QED BY <3>4, <3>5
  <2> QED BY <2>2, <2>3
<1> QED BY <1>5, <1>6, <1>7, <1>8, <1>9, EventSteps DEF Writers

\* A clean tab at the file's version shows the file, unless another program wrote it:
\* whatever the order of saves, agents' writes, outside edits, the watcher's events and the
\* answers to the tab's requests, the tab never misses a write of the backend without being
\* behind it (read_project_file, handleFileChanged and the file-tab actions).
THEOREM UpToDateTabIsRight == Spec => []UpToDateTabShowsFile
<1> DEFINE Inv == Types /\ Locked /\ Replaced /\ BrowserShows
<1>1. Init => Inv
  <2>1. Init => Locked
    BY DEF Init, Locked, Holds, Writers
  <2>2. Init => Replaced
    BY DEF Init, Replaced, Landed
  <2>3. Init => BrowserShows
    BY DEF Init, BrowserShows, GetsShow, PutShows, TabShows, EventsShow, NoAnswer, None, OpenTab, Good, Shows
  <2> QED BY <2>1, <2>2, <2>3, InitTypes
<1>2. Inv /\ [Next]_vars => Inv'
  <2> SUFFICES ASSUME Inv, [Next]_vars PROVE Inv'
    OBVIOUS
  <2>1. Types' /\ Locked' /\ Replaced'
    BY StepTypes, StepLocked, StepReplaced
  <2>2. GetsShow' /\ PutShows'
    BY StepGetsShow, StepPutShows DEF BrowserShows
  <2>3. TabShows' /\ EventsShow'
    BY <2>1, StepTabShows, StepEventsShow DEF BrowserShows
  <2> QED BY <2>1, <2>2, <2>3 DEF BrowserShows
<1>3. Inv => UpToDateTabShowsFile
  <2> SUFFICES ASSUME Inv, put = NoAnswer, ~FileIsDirty, Holding = {}
               PROVE  tab.base = ver /\ Exists /\ disk.c \notin foreign => tab.c = disk.c
    BY DEF UpToDateTabShowsFile
  <2>1. Good(tab.c, tab.base)
    BY DEF BrowserShows, TabShows, NoAnswer, None
  <2>2. Counted
    BY DEF Counted, Landed, Holding
  <2> QED BY <2>1, <2>2 DEF Good, Shows
<1> QED BY <1>1, <1>2, <1>3, PTL DEF Spec

-----------------------------------------------------------------------------
(* What the agents know.                                                   *)

\* A change that waits to be counted keeps waiting, or is counted, or outside programs
\* overwrote it, or it went uncounted.
LEMMA ComingKept ==
  ASSUME Types, Locked, Times, [Next]_vars, ~uncounted', ver' = ver
  PROVE  /\ Coming => Coming'
         /\ \A c : Coming /\ Within(c) => Within(c)'
<1> USE DEF diskVars, stateVars, watchVars, writeVars, tabVars, ghostVars
<1>0. /\ phase \in [Writers -> Phases] /\ disk.t \in Nat /\ seen \in Nat /\ ver \in Nat /\ clock \in Nat
      /\ \A w \in Writers : phase[w] # "idle" => req[w].op \in Ops
  BY DEF Types, DiskTypes, WriterTypes, Files, Calls
<1>1. CASE Same /\ UNCHANGED stateVars
  <2>1. disk' = disk /\ foreign' = foreign
    BY <1>1 DEF Same
  <2>2. \A w \in Writers : Landed(w) => Landed(w)'
    BY <1>1 DEF Same
  <2>3. \A w \in Writers : Landed(w)' => req'[w] = req[w]
    BY <1>1 DEF Same
  <2>4. Coming => Coming'
    BY <1>1, <2>1, <2>2, <2>3 DEF Coming, Removing, Unobserved, Exists
  <2> QED BY <2>1, <2>4 DEF Within
<1>2. CASE Bump
  BY <1>0, <1>2 DEF Bump
<1>3. CASE EditOutside
  <2>1. /\ disk'.c \in foreign' /\ foreign \subseteq foreign' /\ UNCHANGED <<phase, req, seen>>
    BY <1>3 DEF EditOutside
  <2>2. Coming => Coming'
    <3>1. Removing => Removing'
      BY <2>1 DEF Removing, Landed
    <3>2. disk'.c = made' /\ made' = made + 1 /\ disk'.t = clock + 1
      BY <1>3 DEF EditOutside, NewContent
    <3>3. made \in Nat
      BY DEF Types, DiskTypes
    <3>4. Unobserved => Unobserved'
      BY <1>0, <2>1, <3>2, <3>3 DEF Unobserved, Exists, Times
    <3> QED BY <3>1, <3>4 DEF Coming
  <2> QED BY <2>1, <2>2 DEF Within
<1>4. CASE DeleteOutside
  <2>1. ~Unobserved /\ disk'.c = 0 /\ UNCHANGED <<phase, req>>
    BY <1>4 DEF DeleteOutside
  <2>2. Removing => Removing'
    BY <2>1 DEF Removing, Landed
  <2> QED BY <2>1, <2>2 DEF Within, Coming
<1>5. ASSUME NEW w \in Writers, Rename(w)
      PROVE  ~Coming
  <2>1. ~Unobserved /\ phase[w] = "staged"
    BY <1>5 DEF Rename
  <2>2. ~Removing
    BY <2>1 DEF Removing, Landed, Locked, Holds
  <2> QED BY <2>1, <2>2 DEF Coming
<1>6. ASSUME NEW w \in Writers, Remove(w), Exists
      PROVE  Removing' /\ disk'.c = 0
  BY <1>0, <1>6 DEF Remove, Removing, Landed
<1>7. ASSUME NEW w \in Writers, Finish(w)
      PROVE  ~Coming
  <2>1. ~Bump
    BY <1>0 DEF Bump
  <2>2. phase[w] = "replaced" /\ req[w].op # "delete" /\ ~Exists
    BY <1>7, <2>1 DEF Finish
  <2>3. ~Removing
    BY <2>2 DEF Removing, Landed, Locked, Holds
  <2> QED BY <2>2, <2>3 DEF Coming, Unobserved
<1> QED BY <1>1, <1>2, <1>3, <1>4, <1>5, <1>6, <1>7, Course DEF Within, Coming

\* Nothing is raised but the count of the content that is there.
LEMMA RaisesCount ==
  ASSUME Types, [Next]_vars, ver' # ver
  PROVE  disk' = disk /\ foreign' = foreign /\ ver' = ver + 1
<1> USE DEF diskVars, stateVars, watchVars, writeVars, tabVars, ghostVars
<1>1. CASE EditOutside \/ DeleteOutside
  BY <1>1 DEF EditOutside, DeleteOutside
<1>2. CASE \E w \in Writers : Rename(w) \/ (Remove(w) /\ Exists)
  BY <1>2 DEF Rename, Remove
<1>3. CASE \E w \in Writers : Finish(w)
  BY <1>3 DEF Finish, Bump
<1> QED BY <1>1, <1>2, <1>3, Course DEF Same, Bump

\* What an agent read stays true of the file through a step in which it reads and is
\* answered nothing.
LEMMA KnowsKept ==
  ASSUME Types, Locked, Times, [Next]_vars, ~uncounted', NEW a \in Agents, know'[a] = know[a], Knows(a)
  PROVE  Knows(a)'
<1> DEFINE v == know[a].v
           c == know[a].c
<1>1. ver \in Nat
  BY DEF Types, DiskTypes
<1> SUFFICES ASSUME c # 0 PROVE Knows(a)'
  BY DEF Knows
<1>2. v \in Nat /\ v <= ver + 1 /\ (v = ver + 1 => Coming /\ (c # Unread => Within(c))) /\ (v = ver /\ c # Unread => Shows(c))
  BY DEF Knows
<1>3. CASE ver' = ver
  <2>1. \A x : Shows(x) => Shows(x)'
    BY <1>1, <1>3, ShowsKept
  <2>2. v = ver /\ c # Unread => Shows(know[a].c)'
    BY <1>2, <2>1 DEF Shows
  <2>3. v = ver + 1 => Coming' /\ (c # Unread => Within(know[a].c)')
    BY <1>2, <1>3, ComingKept DEF Within
  <2> QED BY <1>1, <1>2, <1>3, <2>2, <2>3 DEF Knows
<1>4. CASE ver' # ver
  <2>1. disk' = disk /\ foreign' = foreign /\ ver' = ver + 1
    BY <1>4, RaisesCount
  <2>2. v = ver' /\ c # Unread => Shows(know[a].c)'
    BY <1>2, <2>1 DEF Within, Shows, Exists
  <2> QED BY <1>1, <1>2, <2>1, <2>2 DEF Knows
<1> QED BY <1>3, <1>4

LEMMA StepInformed ==
  ASSUME Types, Types', Locked, Times, Replaced, Informed, [Next]_vars
  PROVE  Informed'
<1> USE DEF diskVars, stateVars, watchVars, writeVars, tabVars, ghostVars
<1> SUFFICES ASSUME ~uncounted', NEW a \in Agents PROVE Knows(a)' /\ Ready(a)'
  BY DEF Informed
<1>0. /\ phase \in [Writers -> Phases] /\ ver \in Nat /\ disk.c \in Nat /\ a \in Writers /\ a # "tab"
      /\ know \in [Agents -> [v : Nat \cup {None}, c : Nat \cup {Unread}]]
      /\ \A w \in Writers : phase[w] # "idle" => req[w] \in Calls
  BY AgentsAssumption DEF Types, DiskTypes, WriterTypes, Files, Writers
<1>1. ~uncounted
  <2>1. CASE Same
    BY <2>1 DEF Same
  <2>2. CASE EditOutside \/ DeleteOutside
    BY <2>2 DEF EditOutside, DeleteOutside
  <2>3. CASE \E w \in Writers : Rename(w) \/ (Remove(w) /\ Exists) \/ Finish(w)
    BY <2>3 DEF Rename, Remove, Finish
  <2> QED BY <2>1, <2>2, <2>3, Course
<1>2. Knows(a) /\ Ready(a)
  BY <1>1 DEF Informed
<1>3. know'[a] = know[a] => Knows(a)'
  BY <1>2, KnowsKept
<1>4. know'[a] = [v |-> None, c |-> 0] => Knows(a)'
  BY DEF Knows
\* An agent that is not past the check has nothing to be ready for.
<1>5. phase'[a] \notin {"checked", "staged"} => Ready(a)'
  BY DEF Ready
\* One that is past it keeps the file to itself, but for programs outside.
<1>6. ASSUME phase'[a] = phase[a], know'[a] = know[a], phase[a] \in {"checked", "staged"},
             Same \/ EditOutside \/ DeleteOutside
      PROVE  Ready(a)'
  BY <1>2, <1>6 DEF Ready, Same, EditOutside, DeleteOutside, Within
<1>7. CASE Aside \/ Autosave \/ SaveAnswered
  <2>1. know' = know /\ phase'[a] = phase[a]
    BY <1>0, <1>7, AsideKeeps DEF Autosave, SaveAnswered, SaveAnsweredWith
  <2>2. Same \/ EditOutside \/ DeleteOutside
    BY <1>7, AsideCourse
  <2> QED BY <1>3, <1>5, <1>6, <2>1, <2>2
<1>8. ASSUME NEW b \in Agents, ReadVersion(b) \/ ReadContent(b)
      PROVE  Knows(a)' /\ Ready(a)'
  <2>1. UNCHANGED <<disk, ver, seen, foreign, phase, req>>
    BY <1>8 DEF ReadVersion, ReadContent
  <2>2. phase[b] = "idle"
    BY <1>8 DEF ReadVersion, ReadContent, Locked
  <2>3. CASE a # b
    <3>1. know'[a] = know[a]
      BY <1>0, <1>8, <2>3 DEF ReadVersion, ReadContent
    <3> QED BY <1>2, <1>3, <2>1, <3>1 DEF Ready, Within
  <2>4. CASE a = b /\ ReadVersion(b)
    <3>1. know'[a] = [v |-> Observed, c |-> Unread]
      BY <1>0, <2>4 DEF ReadVersion
    <3>2. Unobserved => Coming'
      <4>1. Unobserved => Unobserved'
        BY <2>1 DEF Unobserved, Exists
      <4> QED BY <4>1 DEF Coming
    <3>3. know'[a].v = Observed /\ know'[a].c = Unread
      BY <3>1
    <3>4. know'[a].v \in {ver', ver' + 1} /\ (know'[a].v = ver' + 1 => Coming')
      BY <1>0, <2>1, <3>2, <3>3 DEF Observed
    <3>5. ver' \in Nat
      BY DEF Types, DiskTypes
    <3>6. Knows(a)'
      BY <3>3, <3>4, <3>5 DEF Knows
    <3>7. phase'[a] = "idle"
      BY <2>1, <2>2, <2>4
    <3> QED BY <1>5, <3>6, <3>7
  <2>5. CASE a = b /\ ReadContent(b)
    <3>1. CASE Exists
      <4>1. know'[a].v = know[a].v /\ know'[a].c = disk.c /\ know[a].c = Unread
        BY <1>0, <2>5, <3>1 DEF ReadContent
      <4>2. Coming => Coming'
        BY <2>1 DEF Coming, Unobserved, Removing, Landed, Exists
      <4>3. know[a].c # 0
        BY <4>1 DEF Unread
      <4>4. /\ know'[a].v \in Nat /\ know'[a].v <= ver' + 1
            /\ know'[a].v = ver' + 1 => Coming'
        BY <1>2, <2>1, <4>1, <4>2, <4>3 DEF Knows
      <4>5. Within(know[a].c)' /\ Shows(know[a].c)'
        BY <2>1, <4>1 DEF Within, Shows
      <4> QED BY <1>5, <2>1, <2>2, <2>5, <4>4, <4>5 DEF Knows
    <3>2. CASE ~Exists
      <4>1. know'[a] = [v |-> None, c |-> 0]
        BY <1>0, <2>5, <3>2 DEF ReadContent
      <4> QED BY <1>4, <1>5, <2>1, <2>2, <2>5, <4>1
    <3> QED BY <3>1, <3>2
  <2> QED BY <1>8, <2>3, <2>4, <2>5
<1>9. ASSUME NEW b \in Agents, NEW op \in Ops, Call(b, op)
      PROVE  Knows(a)' /\ Ready(a)'
  <2>1. UNCHANGED <<disk, foreign, know>>
    BY <1>9 DEF Call
  <2>2. phase'[a] = phase[a] \/ phase'[a] = "waiting"
    BY <1>0, <1>9 DEF Call
  <2>3. Ready(a)'
    BY <1>2, <1>5, <2>1, <2>2 DEF Ready, Within
  <2> QED BY <1>3, <2>1, <2>3
<1>10. ASSUME NEW w \in Writers, Enter(w)
       PROVE  Knows(a)' /\ Ready(a)'
  <2>1. UNCHANGED <<disk, foreign>> /\ Holding = {} /\ phase[w] = "waiting"
    BY <1>10 DEF Enter, EnterAt
  <2>2. know'[a] = know[a] \/ know'[a] = [v |-> None, c |-> 0]
    BY <1>10, ForgetKnow DEF Enter, EnterAt
  <2>3. CASE w # a \/ ~Passes(req[w])
    <3>1. phase'[a] = phase[a] \/ phase'[a] = "idle"
      BY <1>0, <1>10, <2>3, AnsweredPhases DEF Enter, EnterAt
    <3>2. phase[a] \notin {"checked", "staged"}
      BY <1>0, <2>1 DEF Holding
    <3> QED BY <1>3, <1>4, <1>5, <2>2, <3>1, <3>2
  <2>4. CASE w = a /\ Passes(req[w])
    <3>1. know' = know
      BY <1>10, <2>4 DEF Enter, EnterAt
    <3>2. Within(know[a].c)
      <4>1. CASE req[a].op = "create"
        BY <2>4, <4>1 DEF Passes, Exists, Within
      <4>2. CASE req[a].op # "create"
        <5>1. know[a].c # 0 /\ know[a].c # Unread /\ req[a].expect = know[a].v
          BY <2>1, <2>4, <4>2 DEF Locked
        <5>2. know[a].v \in Nat
          BY <1>2, <5>1 DEF Knows
        <5>3. Observed = know[a].v
          BY <2>4, <5>1, <5>2 DEF Passes, NoCheck
        <5>4. CASE Unobserved
          BY <1>0, <1>2, <5>1, <5>3, <5>4 DEF Observed, Knows
        <5>5. CASE ~Unobserved
          <6>1. Shows(know[a].c)
            BY <1>0, <1>2, <5>1, <5>3, <5>5 DEF Observed, Knows
          <6>2. Counted
            BY <2>1 DEF Counted, Landed, Holding
          <6> QED BY <6>1, <6>2 DEF Shows, Within, Exists
        <5> QED BY <5>4, <5>5
      <4> QED BY <4>1, <4>2
    <3>3. Ready(a)'
      BY <2>1, <3>1, <3>2 DEF Ready, Within
    <3> QED BY <1>3, <3>1, <3>3
  <2> QED BY <2>3, <2>4
<1>11. ASSUME NEW w \in Writers, Stage(w)
       PROVE  Knows(a)' /\ Ready(a)'
  <2>1. UNCHANGED <<disk, foreign, know>>
    BY <1>11 DEF Stage
  <2>2. phase'[a] \in {"checked", "staged"} => phase[a] \in {"checked", "staged"}
    BY <1>0, <1>11 DEF Stage
  <2> QED BY <1>2, <1>3, <2>1, <2>2 DEF Ready, Within
\* While another holds the lock an agent is not past the check.
<1>12. ASSUME NEW w \in Writers, Rename(w) \/ Remark(w) \/ Remove(w) \/ Finish(w)
       PROVE  Ready(a)'
  <2>1. Holds(w)
    BY <1>12 DEF Rename, Remark, RemarkAs, Remove, Finish, Holds
  <2>2. phase[a] \in {"checked", "staged"} => a = w
    BY <1>0, <2>1 DEF Locked, Holds
  <2>3. phase'[w] \in {"renamed", "replaced", "idle"} /\ \A x \in Writers : x # w => phase'[x] = phase[x]
    BY <1>0, <1>12, AnsweredPhases DEF Rename, Remark, RemarkAs, Remove, Finish
  <2> QED BY <1>0, <1>5, <2>2, <2>3
<1>13. ASSUME NEW w \in Writers, Rename(w) \/ Remark(w) \/ Remove(w)
       PROVE  Knows(a)' /\ Ready(a)'
  <2>1. know'[a] = know[a] \/ know'[a] = [v |-> None, c |-> 0]
    BY <1>13, ForgetKnow DEF Rename, Remark, RemarkAs, Remove
  <2> QED BY <1>3, <1>4, <1>12, <1>13, <2>1
<1>14. ASSUME NEW w \in Writers, Finish(w)
       PROVE  Knows(a)' /\ Ready(a)'
  <2>1. CASE know'[a] = know[a] \/ know'[a].c = 0
    BY <1>3, <1>12, <1>14, <2>1 DEF Knows
  <2>2. CASE know'[a] # know[a] /\ know'[a].c # 0
    <3>1. ~Forget(w)
      BY <2>2, ForgetKnow
    <3>2. a = w /\ know'[a] = [v |-> ver', c |-> req[a].c] /\ ver' = ver + 1
      BY <1>0, <1>14, <2>2, <3>1 DEF Finish, Bump
    <3>3. Within(req[a].c) /\ UNCHANGED <<disk, foreign>>
      BY <1>0, <1>14, <3>2 DEF Replaced, Landed, Finish
    <3>4. Shows(know[a].c)'
      BY <3>2, <3>3 DEF Shows, Within, Exists
    <3>5. Knows(a)'
      BY <1>0, <3>2, <3>4 DEF Knows
    <3> QED BY <1>12, <1>14, <3>5
  <2> QED BY <2>1, <2>2
<1> QED BY <1>7, <1>8, <1>9, <1>10, <1>11, <1>13, <1>14, Steps

\* No write, creation or deletion of an agent destroys what the tab or another agent wrote
\* unless the agent had read it, as long as no content went before its version was counted;
\* for any number of agents and any order of reads, saves, outside edits and the watcher
\* (check_write_preconditions and absorb_unobserved_disk_edit under project_mutation_lock).
THEOREM FirstPartyWritesKept == Spec => NoFirstPartyWriteLost
<1> DEFINE Inv == Types /\ Locked /\ Times /\ Replaced /\ Informed
<1>1. Init => Inv
  <2>1. Init => Locked
    BY DEF Init, Locked, Holds, Writers
  <2>2. Init => Times /\ Replaced
    BY DEF Init, Times, Replaced, Landed
  <2>3. Init => Informed
    <3> SUFFICES ASSUME Init, NEW a \in Agents PROVE Knows(a) /\ Ready(a)
      BY DEF Informed
    <3>1. know[a].c = 0 /\ phase[a] = "idle"
      BY DEF Init, Writers
    <3> QED BY <3>1 DEF Knows, Ready
  <2> QED BY <2>1, <2>2, <2>3, InitTypes
<1>2. Inv /\ [Next]_vars => Inv'
  BY StepTypes, StepLocked, StepTimes, StepReplaced, StepInformed
<1>3. Inv /\ [Next]_vars => [\A a \in Agents : uncounted \/ DestroysOnlyRead(a)]_vars
  BY DEF Informed, Ready, Within, DestroysOnlyRead
<1> QED BY <1>1, <1>2, <1>3, PTL DEF Spec, NoFirstPartyWriteLost

=============================================================================
