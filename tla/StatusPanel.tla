---------------------------- MODULE StatusPanel ----------------------------
(***************************************************************************)
(* The status dock, the status panel and the configuration panel of one pi *)
(* process, with the preferences file they share (adapters/pi/ui/manager,  *)
(* adapters/pi/commands/status and config, local/status-dock-prefs).       *)
(*                                                                         *)
(* Every handler is asynchronous: events of the host, commands, tool calls *)
(* and requests started by keys run interleaved at each await.  What a     *)
(* handler does between two awaits is one step here.  The file is written  *)
(* by truncating and filling it, and nobody locks it.                      *)
(***************************************************************************)
EXTENDS Naturals, Sequences, FiniteSets

CONSTANTS
    Repos,      \* the repositories with a wiki
    NoRepo,     \* no repository
    Torn,       \* a preferences file that does not parse
    Cwd,        \* the repository of the working directory, or NoRepo
    Sections,   \* the tabs, in the order Tab visits them
    Calls,      \* handlers that may be under way at once
    Mixes       \* bound: the histories explored, each with its operations, the
                \* preferences files it may start with and how many status
                \* panels it may open

ASSUME PanelAssumption ==
    /\ NoRepo \notin Repos /\ Cwd \in Repos \cup {NoRepo}
    /\ Sections \in Seq(STRING) /\ Sections # << >>

VARIABLES
    mix,        \* what this history consists of
    prefs,      \* the preferences file
    panels,     \* every status panel opened so far; 0 stands for none
    active,     \* activeStatusPanelGlobal
    keys,       \* the panel whose handler receives the terminal's input
    local,      \* the panel Alt+W remembers (activeStatusPanel of index.ts)
    painted,    \* the panel whose widget is on the screen
    config,     \* the configuration panel: "closed", "open", or "stray"
    line,       \* the repository of the footer's status line, or NoRepo
    calls,      \* the handlers under way
    chosen,     \* history: the mode the last completed choice asked for
    mixed       \* history: since then, two calls' read-to-write spans overlapped

file == <<prefs, chosen, mixed>>
screen == <<panels, active, keys, local, painted, config>>
vars == <<mix, file, screen, line, calls>>

Modes == {"auto", "pin", "off"}
Defaults == [mode |-> "auto", pinned |-> NoRepo, last |-> NoRepo]
Prefs == [mode : Modes, pinned : Repos \cup {NoRepo}, last : Repos \cup {NoRepo}]

\* A history starts with preferences, or with a file that does not parse.
ASSUME PrefsAssumption == Torn \notin Prefs /\ \A m \in Mixes : m.saved \subseteq Prefs \cup {Torn}

\* A missing or unreadable file reads as the defaults.
ReadPrefs == IF prefs = Torn THEN Defaults ELSE prefs

(***************************************************************************)
(* A call's `todo` is what its handler still has to do, await by await.    *)
(***************************************************************************)
Script ==
    [turn   |-> <<"resolve", "dock">>,
     altw   |-> <<"resolve", "remember", "dock", "open">>,
     status |-> <<"resolve", "source", "remember", "dock", "open">>,
     statusOf |-> <<"remember", "remember", "dock", "open">>,
     show   |-> <<"resolve", "remember", "dock", "configure">>,
     off    |-> <<"read", "choose", "clear">>,
     auto   |-> <<"read", "choose", "resolve", "dock">>,
     pin    |-> <<"read", "remember", "choose", "dock">>,
     cycle  |-> <<"read", "choose", "resolve", "dock", "reread">>,
     repin  |-> <<"read", "ask", "choose", "resolve", "dock", "reread">>,
     unpin  |-> <<"read", "choose", "resolve", "dock", "reread">>,
     tool   |-> <<"remember", "dock">>,
     switch |-> <<"ask", "load", "remember", "render">>,
     block  |-> <<"ask", "update", "detail", "dock", "render">>]

Idle == [op |-> "idle", todo |-> << >>, repo |-> NoRepo, seen |-> Defaults,
         want |-> Defaults, mode |-> "auto", panel |-> 0, shown |-> NoRepo]

Pending(p) == \E c \in Calls : calls[c].panel = p

At(c, stage) == calls[c].todo # << >> /\ Head(calls[c].todo) = stage

\* Call c goes on with `rest`; a call with nothing left to do is idle.
Continue(c, call, rest) ==
    calls' = [calls EXCEPT ![c] = IF rest = << >> THEN Idle ELSE [call EXCEPT !.todo = rest]]

Stages(c) == {calls[c].todo[i] : i \in DOMAIN calls[c].todo}

\* The host shows one dialog at a time, and mix.panels bounds the panels.
Admitted(op) ==
    /\ op \in {"switch", "block", "repin"} => \A c \in Calls : "ask" \notin Stages(c)
    /\ op \in {"altw", "status", "statusOf"} =>
           Len(panels) + Cardinality({c \in Calls : "open" \in Stages(c)}) < mix.panels

Start(op, call) ==
    /\ op \in mix.ops /\ Admitted(op)
    /\ \E c \in Calls :
          /\ calls[c].todo = << >>
          /\ calls' = [calls EXCEPT ![c] = [call EXCEPT !.op = op, !.todo = Script[op]]]

(***************************************************************************)
(* The preferences file                                                    *)
(***************************************************************************)
\* Call d has read the file and is going to write what it read.
Holding(d) == Stages(d) \cap {"choose", "fill"} # {} /\ ~At(d, "read")

\* The next, had it written the defaults with the repository.
RememberingOnly(call, p, r, rest) ==
    IF p.last = r THEN [call EXCEPT !.todo = rest]
    ELSE [call EXCEPT !.want = [Defaults EXCEPT !.last = r], !.todo = <<"truncate", "fill">> \o rest]

\* rememberStatusDockProject: nothing is written when the repository is the
\* last one already; otherwise the preferences as they were read, with it.
Remembering(call, p, r, rest) ==
    IF p.last = r THEN [call EXCEPT !.todo = rest]
    ELSE [call EXCEPT !.want = [p EXCEPT !.last = r], !.todo = <<"truncate", "fill">> \o rest]

\* resolveStatusDockProject: the working directory's repository, else the
\* pinned one, else the last one.
Resolved(p) ==
    CASE Cwd # NoRepo -> Cwd
      [] Cwd = NoRepo /\ p.mode = "pin" /\ p.pinned # NoRepo -> p.pinned
      [] OTHER -> p.last

AllowedWhenOff == {"altw", "status", "show"}

\* turn_start, had it left the dock alone when nothing is resolved.
UnresolvedQuietly(op) ==
    CASE op = "auto" -> <<"clear">>
      [] op \in {"cycle", "repin", "unpin"} -> <<"clear", "reread">>
      [] op = "status" -> <<"source">>
      [] op = "show" -> <<"configure">>
      [] OTHER -> << >>

\* What a handler still does when no repository is resolved.
Unresolved(op) ==
    CASE op \in {"turn", "auto"} -> <<"clear">>
      [] op \in {"cycle", "repin", "unpin"} -> <<"clear", "reread">>
      [] op = "status" -> <<"source">>
      [] op = "show" -> <<"configure">>
      [] OTHER -> << >>

Resolve(c) ==
    /\ At(c, "resolve")
    /\ LET p == ReadPrefs
           call == calls[c]
           found == Resolved(p)
           next == Remembering([call EXCEPT !.repo = found], p, found, Tail(call.todo))
       IN IF found = NoRepo \/ (p.mode = "off" /\ call.op \notin AllowedWhenOff)
          THEN Continue(c, [call EXCEPT !.repo = NoRepo], Unresolved(call.op))
          ELSE Continue(c, next, next.todo)
    /\ UNCHANGED <<mix, file, screen, line>>

\* /wiki-status resolves a second time for the source's name, and keeps the
\* repository of the first; without one it ends here.
Source(c) ==
    /\ At(c, "source")
    /\ LET p == ReadPrefs
           call == calls[c]
           rest == IF call.repo = NoRepo THEN << >> ELSE Tail(call.todo)
           next == Remembering(call, p, Resolved(p), rest)
       IN IF Resolved(p) = NoRepo THEN Continue(c, call, rest) ELSE Continue(c, next, next.todo)
    /\ UNCHANGED <<mix, file, screen, line>>

Remember(c) ==
    /\ At(c, "remember")
    /\ LET next == Remembering(calls[c], ReadPrefs, calls[c].repo, Tail(calls[c].todo))
       IN Continue(c, next, next.todo)
    /\ UNCHANGED <<mix, file, screen, line>>

Read(c) ==
    /\ At(c, "read")
    /\ Continue(c, [calls[c] EXCEPT !.seen = ReadPrefs], Tail(calls[c].todo))
    /\ UNCHANGED <<mix, file, screen, line>>

\* The preferences read at the start, with the mode chosen: pinning also sets
\* the repository, and the panel's "clear" (unpin) forgets it.
Choose(c) ==
    /\ At(c, "choose")
    /\ LET call == calls[c]
           pinned == CASE call.op \in {"pin", "repin"} -> call.repo
                       [] call.op = "unpin" -> NoRepo
                       [] OTHER -> call.seen.pinned
       IN Continue(c, [call EXCEPT !.want = [call.seen EXCEPT !.mode = call.mode, !.pinned = pinned],
                                  !.seen = Defaults],
                   <<"truncate", "fill">> \o Tail(call.todo))
    /\ UNCHANGED <<mix, file, screen, line>>

Truncate(c) ==
    /\ At(c, "truncate")
    /\ prefs' = Torn
    /\ Continue(c, calls[c], Tail(calls[c].todo))
    /\ UNCHANGED <<mix, chosen, mixed, screen, line>>

Choosers == {"off", "auto", "pin", "cycle", "repin", "unpin"}

\* pin remembers before it chooses: its last write is the choice.
Choosing(c) == calls[c].op \in Choosers /\ Stages(c) \cap {"choose", "read"} = {}
                 /\ calls[c].want.mode = calls[c].mode

\* A text written over another one that was filled in between may leave the
\* other's tail behind.
Fill(c) ==
    /\ At(c, "fill")
    /\ prefs' \in {calls[c].want} \cup (IF prefs = Torn THEN {} ELSE {Torn})
    /\ LET alone == \A d \in Calls \ {c} : ~Holding(d)
       IN /\ chosen' = IF Choosing(c) THEN calls[c].mode ELSE chosen
          /\ mixed' = (~alone \/ prefs' = Torn \/ (mixed /\ ~Choosing(c)))
    /\ Continue(c, [calls[c] EXCEPT !.want = Defaults], Tail(calls[c].todo))
    /\ UNCHANGED <<mix, screen, line>>

(***************************************************************************)
(* The dock                                                                *)
(***************************************************************************)
\* refreshStatusDock reads the preferences again and hides the line when off.
Dock(c) ==
    /\ At(c, "dock")
    /\ IF ReadPrefs.mode = "off"
       THEN line' = NoRepo /\ Continue(c, calls[c], Tail(calls[c].todo))
       ELSE line' = line /\ Continue(c, calls[c], <<"paint">> \o Tail(calls[c].todo))
    /\ UNCHANGED <<mix, file, screen>>

\* Its second half, once the state files are read: without a status state the
\* line is hidden and no panel is rendered.
Paint(c) ==
    /\ At(c, "paint")
    /\ \/ line' = NoRepo /\ painted' = painted
       \/ /\ line' = calls[c].repo
          /\ painted' = IF active # 0 /\ panels[active].repo = calls[c].repo THEN active ELSE painted
    /\ Continue(c, calls[c], Tail(calls[c].todo))
    /\ UNCHANGED <<mix, file, panels, active, keys, local, config>>

\* A panel that loses the screen while its requests are pending is marked.
Leave == [p \in DOMAIN panels |->
             IF p = active /\ Pending(p) THEN [panels[p] EXCEPT !.late = TRUE] ELSE panels[p]]

\* clearStatusDock: handler, line, widget and panel; the timer goes on.
Clear(c) ==
    /\ At(c, "clear")
    /\ keys' = 0 /\ active' = 0 /\ painted' = 0 /\ line' = NoRepo
    /\ panels' = Leave
    /\ Continue(c, calls[c], Tail(calls[c].todo))
    /\ UNCHANGED <<mix, file, local, config>>

(***************************************************************************)
(* The status panel                                                        *)
(***************************************************************************)
\* openStatusPanel once the preferences are read: in one step the configuration
\* panel closes, the panel takes the widget and the keys, and a timer starts if
\* its task is animated.  The timer of the panel it replaces is not stopped.
Open(c) ==
    /\ At(c, "open")
    /\ \E animated \in BOOLEAN :
          panels' = Append(Leave, [repo |-> calls[c].repo, tab |-> 1, detail |-> NoRepo,
                                   timer |-> animated, byKey |-> calls[c].op = "altw",
                                   late |-> FALSE, crossed |-> FALSE])
    /\ active' = Len(panels') /\ keys' = Len(panels') /\ painted' = Len(panels')
    /\ local' = IF calls[c].op = "altw" THEN Len(panels') ELSE local
    /\ config' = IF config = "open" THEN "closed" ELSE config
    /\ Continue(c, calls[c], Tail(calls[c].todo))
    /\ UNCHANGED <<mix, file, line>>

\* close() of panel p, had it left its widget to the next panel.
CloseUnpainted(p) ==
    /\ keys' = 0 /\ active' = 0 /\ painted' = painted
    /\ panels' = [Leave EXCEPT ![p].timer = FALSE]
    /\ local' = IF panels[p].byKey THEN 0 ELSE local

\* close() of panel p takes away whichever handler and widget are there.
Close(p) ==
    /\ keys' = 0 /\ active' = 0 /\ painted' = 0
    /\ panels' = [Leave EXCEPT ![p].timer = FALSE]
    /\ local' = IF panels[p].byKey THEN 0 ELSE local

Tick(p) ==
    /\ panels[p].timer /\ active # 0
    /\ painted' = p
    /\ UNCHANGED <<mix, file, panels, active, keys, local, config, line, calls>>

\* Alt+W: the panel this shortcut opened, if it remembers one, is closed
\* whether or not it is still the active one.
ToggleClosed ==
    /\ "altw" \in mix.ops /\ local # 0
    /\ Close(local)
    /\ UNCHANGED <<mix, file, config, line, calls>>

ToggleOpen ==
    /\ local = 0
    /\ Start("altw", Idle)
    /\ UNCHANGED <<mix, file, screen, line>>

(***************************************************************************)
(* Keys of the status panel; its handler ignores them without a panel      *)
(***************************************************************************)
Listening == keys # 0 /\ active # 0

Escape ==
    /\ Listening
    /\ IF panels[keys].detail # NoRepo
       THEN /\ panels' = [panels EXCEPT ![keys].detail = NoRepo]
            /\ painted' = keys
            /\ UNCHANGED <<active, keys, local>>
       ELSE Close(keys)
    /\ UNCHANGED <<mix, file, config, line, calls>>

Tab ==
    /\ Listening /\ "browse" \in mix.ops
    /\ panels' = [panels EXCEPT ![keys].detail = NoRepo,
                                ![keys].tab = (@ % Len(Sections)) + 1]
    /\ painted' = keys
    /\ UNCHANGED <<mix, file, active, keys, local, config, line, calls>>

\* Enter on a row of the board opens that task's detail.
EnterTask ==
    /\ Listening /\ "browse" \in mix.ops /\ Sections[panels[keys].tab] = "roadmap"
    /\ panels[keys].detail = NoRepo
    /\ panels' = [panels EXCEPT ![keys].detail = panels[keys].repo]
    /\ painted' = keys
    /\ UNCHANGED <<mix, file, active, keys, local, config, line, calls>>

\* Enter on a task's Block action asks for the reason.
EnterBlock ==
    /\ Listening /\ panels[keys].detail # NoRepo
    /\ Start("block", [Idle EXCEPT !.panel = keys, !.shown = panels[keys].detail])
    /\ UNCHANGED <<mix, file, screen, line>>

KeySwitch ==
    /\ Listening
    /\ Start("switch", [Idle EXCEPT !.panel = keys])
    /\ UNCHANGED <<mix, file, screen, line>>

(***************************************************************************)
(* What follows an answer, or its absence                                  *)
(***************************************************************************)
\* A dismissed dialog ends a switch, skips a pin, and blocks all the same.
Answer(c) ==
    /\ At(c, "ask")
    /\ LET call == calls[c]
           rest == Tail(call.todo)
       IN \/ call.op = "block" /\ Continue(c, [call EXCEPT !.repo = panels[call.panel].repo], rest)
          \/ call.op # "block" /\ \E r \in Repos : Continue(c, [call EXCEPT !.repo = r], rest)
          \/ call.op = "switch" /\ Continue(c, call, << >>)
          \/ call.op = "repin" /\ Continue(c, call, Tail(rest))
    /\ UNCHANGED <<mix, file, screen, line>>

\* A block of the same panel is under way: marked, for the property.
Crossing(p) == \E c \in Calls : calls[c].op = "block" /\ calls[c].panel = p

\* The loaded repository, had the panel kept its detail.
LoadedUnder(p, r) == [panels EXCEPT ![p].repo = r, ![p].crossed = @ \/ Crossing(p)]

\* The panel turns to the loaded repository and drops the detail.
Loaded(p, r) == [panels EXCEPT ![p].repo = r, ![p].detail = NoRepo, ![p].crossed = @ \/ Crossing(p)]

Load(c) ==
    /\ At(c, "load")
    /\ panels' = Loaded(calls[c].panel, calls[c].repo)
    /\ Continue(c, calls[c], Tail(calls[c].todo))
    /\ UNCHANGED <<mix, file, active, keys, local, painted, config, line>>

\* The task has been blocked in the call's repository (updateTaskLoop); the
\* detail is read again from the repository the panel shows now.
Update(c) ==
    /\ At(c, "update")
    /\ Continue(c, [calls[c] EXCEPT !.repo = panels[calls[c].panel].repo], Tail(calls[c].todo))
    /\ UNCHANGED <<mix, file, screen, line>>

Detail(c) ==
    /\ At(c, "detail")
    /\ LET p == calls[c].panel IN
       /\ panels' = [panels EXCEPT ![p].detail = calls[c].repo]
       /\ Continue(c, [calls[c] EXCEPT !.repo = panels[p].repo], Tail(calls[c].todo))
    /\ UNCHANGED <<mix, file, active, keys, local, painted, config, line>>

\* The last step of a request renders its panel, closed or not.
Render(c) ==
    /\ At(c, "render")
    /\ painted' = calls[c].panel
    /\ Continue(c, calls[c], Tail(calls[c].todo))
    /\ UNCHANGED <<mix, file, panels, active, keys, local, config, line>>

(***************************************************************************)
(* The configuration panel                                                 *)
(***************************************************************************)
Configure(c) ==
    /\ At(c, "configure")
    /\ config' = "open"
    /\ Continue(c, calls[c], Tail(calls[c].todo))
    /\ UNCHANGED <<mix, file, panels, active, keys, local, painted, line>>

CloseConfig ==
    /\ config = "open"
    /\ config' = "closed"
    /\ UNCHANGED <<mix, file, panels, active, keys, local, painted, line, calls>>

\* A value was applied: the panel is rendered again even if it was closed.
Reread(c) ==
    /\ At(c, "reread")
    /\ config' = IF config = "open" THEN "open" ELSE "stray"
    /\ Continue(c, calls[c], Tail(calls[c].todo))
    /\ UNCHANGED <<mix, file, panels, active, keys, local, painted, line>>

ConfigKey ==
    /\ config = "open"
    /\ \/ \E m \in Modes : Start("cycle", [Idle EXCEPT !.mode = m])
       \/ Start("repin", [Idle EXCEPT !.mode = "pin"])
       \/ Start("unpin", Idle)
    /\ UNCHANGED <<mix, file, screen, line>>

(***************************************************************************)
(* Commands, tools and events of the host                                  *)
(***************************************************************************)
Command ==
    /\ \/ \E op \in {"status", "show", "off", "auto"} :
             Start(op, [Idle EXCEPT !.mode = IF op = "off" THEN "off" ELSE "auto"])
       \/ \E op \in {"statusOf", "pin"}, r \in Repos : Start(op, [Idle EXCEPT !.repo = r, !.mode = "pin"])
    /\ UNCHANGED <<mix, file, screen, line>>

ToolCall ==
    /\ \E r \in Repos : Start("tool", [Idle EXCEPT !.repo = r])
    /\ UNCHANGED <<mix, file, screen, line>>

\* turn_start, which session_start follows as well.
Turn ==
    /\ Start("turn", Idle)
    /\ UNCHANGED <<mix, file, screen, line>>

Init ==
    /\ mix \in Mixes
    /\ prefs \in mix.saved /\ chosen = ReadPrefs.mode /\ mixed = FALSE
    /\ panels = << >> /\ active = 0 /\ keys = 0 /\ local = 0 /\ painted = 0
    /\ config = "closed" /\ line = NoRepo
    /\ calls = [c \in Calls |-> Idle]

\* A step of a handler that does not wait for the user.
Proceed(c) ==
    \/ Resolve(c) \/ Source(c) \/ Remember(c) \/ Read(c) \/ Choose(c)
    \/ Truncate(c) \/ Fill(c) \/ Dock(c) \/ Paint(c) \/ Clear(c) \/ Open(c)
    \/ Load(c) \/ Update(c) \/ Detail(c) \/ Render(c) \/ Configure(c) \/ Reread(c)

Next ==
    \/ \E c \in Calls : Proceed(c) \/ Answer(c)
    \/ \E p \in DOMAIN panels : Tick(p)
    \/ ToggleClosed \/ ToggleOpen \/ Escape \/ Tab \/ EnterTask \/ EnterBlock \/ KeySwitch
    \/ CloseConfig \/ ConfigKey \/ Command \/ ToolCall \/ Turn

\* Handlers finish, dialogs may stay unanswered, and the agent keeps working:
\* its turns come however often the other handlers take all of Calls.
Fairness == (\A c \in Calls : WF_vars(Proceed(c))) /\ SF_vars(Turn)

Spec == Init /\ [][Next]_vars /\ Fairness

(***************************************************************************)
(* Properties                                                              *)
(***************************************************************************)
TypeOK ==
    /\ mix \in Mixes /\ prefs \in Prefs \cup {Torn}
    /\ panels \in Seq([repo : Repos, tab : DOMAIN Sections, detail : Repos \cup {NoRepo},
                       timer : BOOLEAN, byKey : BOOLEAN, late : BOOLEAN, crossed : BOOLEAN])
    /\ {active, keys, local, painted} \subseteq 0 .. Len(panels)
    /\ config \in {"closed", "open", "stray"} /\ line \in Repos \cup {NoRepo}
    /\ chosen \in Modes /\ mixed \in BOOLEAN

\* The keys go to the active panel, and the screen shows a panel that is not
\* the active one only if that panel left a timer running or a request
\* unanswered when it lost the screen (openStatusPanel, close, clearStatusDock).
PanelCoherent ==
    /\ keys = active
    /\ active # 0 => painted # 0
    /\ painted \notin {0, active} => panels[painted].timer \/ panels[painted].late

\* A task is blocked in the repository whose task the panel showed, unless the
\* panel was switched to another one while a block was under way: ids repeat
\* from one repository to the next, so a miss blocks somebody else's task.
BlockLandsWhereShown ==
    \A c \in Calls : At(c, "update") =>
        calls[c].repo = calls[c].shown \/ panels[calls[c].panel].crossed

\* The mode last chosen stays in the file although every tool call and event
\* rewrites it, unless two handlers' read-to-write spans overlapped.
ChoiceKept == (prefs # Torn /\ ~mixed) => prefs.mode = chosen

\* Once the mode stays off, the status line goes away and stays away, whatever
\* refresh was under way when it was chosen.
OffIsHonoured == <>[](prefs # Torn /\ prefs.mode = "off") => <>[](line = NoRepo)
=============================================================================
