------------------------- MODULE StatusPanelProofs -------------------------
(***************************************************************************)
(* For any repositories, tabs, handlers under way and histories: the       *)
(* terminal's input and the screen agree on the panel, a task is blocked   *)
(* where it was shown, and the mode that was chosen stays in the file,     *)
(* each but for the crossings its property names.                          *)
(*                                                                         *)
(* None of the three is inductive.  What a handler will still do decides   *)
(* whether it may paint, block or write, so the invariant says which       *)
(* stages a call of each kind can have left (CallFits), what its panel is  *)
(* by then (Seated), and what the call that writes alone has read (Alone). *)
(***************************************************************************)
EXTENDS StatusPanel, SequenceTheorems, TLAPS

MaybeRepo == Repos \cup {NoRepo}

PanelRecord ==
    [repo : Repos, tab : DOMAIN Sections, detail : MaybeRepo, timer : BOOLEAN,
     byKey : BOOLEAN, late : BOOLEAN, crossed : BOOLEAN]

Stage ==
    {"resolve", "dock", "remember", "open", "source", "configure", "read", "choose", "clear", "reread",
     "ask", "load", "render", "update", "detail", "truncate", "fill", "paint"}

Op ==
    {"idle", "turn", "altw", "status", "statusOf", "show", "off", "auto", "pin", "cycle", "repin",
     "unpin", "tool", "switch", "block"}

CallRecord ==
    [op : Op, todo : Seq(Stage), repo : MaybeRepo, seen : Prefs, want : Prefs,
     mode : Modes, panel : Nat, shown : MaybeRepo]

\* What a block may have left to do.
BlockTodo ==
    {<<"ask", "update", "detail", "dock", "render">>, <<"update", "detail", "dock", "render">>,
     <<"detail", "dock", "render">>, <<"dock", "render">>, <<"paint", "render">>, <<"render">>}

Openers == {"altw", "status", "statusOf"}

\* What call k may have left to do, t, when it is not writing.
Plain(t, k) ==
    /\ t \in Seq(Stage)
    /\ \A i \in DOMAIN t :
        /\ t[i] \notin {"truncate", "fill"}
        /\ t[i] = "render" => k.op \in {"switch", "block"}
        /\ t[i] \in {"update", "detail"} => k.op = "block"
        /\ t[i] = "ask" => i # Len(t)
        /\ t[i] = "open" => k.op \in Openers
        /\ t[i] = "load" => k.op = "switch"
        /\ t[i] \in {"open", "load"} => k.repo \in Repos \/ t[1] \in {"resolve", "ask"}
        /\ t[i] = "choose" =>
            k.op \in Choosers /\ \A j \in DOMAIN t : i < j => t[j] \notin {"choose", "read"}
    /\ k.op = "block" => t \in BlockTodo \cup {<< >>}

\* A call that is writing has truncated the file or is about to, and fills it next.
Shaped(k) ==
    \/ Plain(k.todo, k)
    \/ /\ k.op # "block" /\ Len(k.todo) >= 1
       /\ k.todo = <<"fill">> \o Tail(k.todo)
       /\ Plain(Tail(k.todo), k)
    \/ /\ k.op # "block" /\ Len(k.todo) >= 2
       /\ k.todo = <<"truncate", "fill">> \o Tail(Tail(k.todo))
       /\ Plain(Tail(Tail(k.todo)), k)

CallFits(k) == k \in CallRecord /\ Shaped(k)

\* The panel of call k, among the panels ps of which a is the active one.
Seated(k, ps, a) ==
    /\ k.panel \in 0 .. Len(ps)
    /\ k.op \in {"switch", "block"} => k.panel # 0
    /\ k.panel \notin {0, a} => ps[k.panel].late = TRUE
    /\ k.op = "block" /\ ps[k.panel].crossed = FALSE =>
        /\ Head(k.todo) = "ask" => k.shown = ps[k.panel].repo
        /\ Head(k.todo) = "update" => k.repo = k.shown
        /\ Head(k.todo) = "detail" => k.repo = ps[k.panel].repo

\* A panel shows a task of its own repository.
ShowsOwn(ps) ==
    \A p \in DOMAIN ps : ps[p].crossed = FALSE => ps[p].detail \in {NoRepo, ps[p].repo}

Writing(k) == k.todo # << >> /\ Head(k.todo) \in {"truncate", "fill"}

ChoosingCall(k) ==
    /\ k.op \in Choosers
    /\ \A i \in DOMAIN k.todo : k.todo[i] \notin {"choose", "read"}
    /\ k.want.mode = k.mode

Calling == calls \in [Calls -> CallRecord] /\ \A c \in Calls : CallFits(calls[c])

ScreenInv ==
    /\ \A c \in Calls : Seated(calls[c], panels, active)
    /\ ShowsOwn(panels)
    /\ PanelCoherent

\* While nothing was mixed: the one call that is writing keeps the mode or is the
\* choice itself, and a file torn by nobody stood for the mode it started with.
Alone ==
    mixed = FALSE =>
        /\ \A c \in Calls :
              Writing(calls[c]) /\ (\A d \in Calls \ {c} : ~Writing(calls[d]))
                => calls[c].want.mode = chosen \/ ChoosingCall(calls[c])
        /\ prefs = Torn /\ (\A c \in Calls : ~Writing(calls[c])) => chosen = Defaults.mode

IInv == TypeOK /\ Calling /\ ScreenInv /\ Alone /\ ChoiceKept

-----------------------------------------------------------------------------
(* What a call has left to do                                               *)

LEMMA DefaultsType == Defaults \in Prefs /\ Defaults.mode = "auto"
  BY DEF Defaults, Prefs, Modes, MaybeRepo

LEMMA IdleFits == CallFits(Idle) /\ Idle.todo = << >> /\ Idle.panel = 0 /\ Idle.op = "idle"
<1>3. << >> \in Seq(Stage)
  BY EmptySeq
<1>1. Idle \in CallRecord
  BY <1>3, DefaultsType DEF Idle, CallRecord, MaybeRepo, Modes, Op
<1>2. Plain(<< >>, Idle)
  BY <1>3 DEF Plain, Idle
<1> QED
  BY <1>1, <1>2 DEF CallFits, Shaped, Idle

LEMMA TailLonger ==
    ASSUME NEW t \in Seq(Stage), t # << >>
    PROVE  /\ \A i \in Nat : i + 1 # Len(t) => i # Len(Tail(t))
           /\ Len(t) # 1 => Tail(t) # << >>
<1>1. PICK n : n = Len(Tail(t))
  OBVIOUS
<1>2. n = Len(t) - 1 /\ Len(t) \in Nat
  BY <1>1, HeadTailProperties, LenProperties
<1>3. Len(t) # 1 => n # 0
  BY <1>2
<1>4. \A i \in Nat : i + 1 # Len(t) => i # n
  BY <1>2
<1> QED
  BY <1>1, <1>3, <1>4, EmptySeq

\* What is left of a plain list: its open and load still have a repository.
LEMMA PlainTail ==
    ASSUME NEW t, NEW k, NEW q, Plain(t, k), t # << >>, q.op = k.op,
           \/ q.repo \in Repos
           \/ q.repo = k.repo /\ Head(t) \notin {"resolve", "ask"}
           \/ q.op \notin Openers \cup {"switch"}
    PROVE  Plain(Tail(t), q)
<1>1. /\ Tail(t) \in Seq(Stage) /\ Len(Tail(t)) = Len(t) - 1 /\ Len(t) \in Nat
      /\ \A i \in DOMAIN Tail(t) : i + 1 \in DOMAIN t /\ Tail(t)[i] = t[i + 1]
      /\ Head(t) = t[1] /\ \A i \in DOMAIN Tail(t) : i \in Nat
  BY DEF Plain
<1>2. ASSUME k.op = "block" PROVE Tail(t) \in BlockTodo \cup {<< >>}
  <2>1. t \in BlockTodo
    BY <1>2 DEF Plain
  <2>2. t = <<"render">> => Tail(t) = << >>
    OBVIOUS
  <2>6. t = <<"dock", "render">> => Tail(t) \in BlockTodo
    BY DEF BlockTodo
  <2>7. t = <<"paint", "render">> => Tail(t) \in BlockTodo
    BY DEF BlockTodo
  <2>3. t = <<"detail", "dock", "render">> => Tail(t) \in BlockTodo
    BY DEF BlockTodo
  <2>4. t = <<"update", "detail", "dock", "render">> => Tail(t) \in BlockTodo
    BY DEF BlockTodo
  <2>5. t = <<"ask", "update", "detail", "dock", "render">> => Tail(t) \in BlockTodo
    BY DEF BlockTodo
  <2> QED
    BY <2>1, <2>2, <2>3, <2>4, <2>5, <2>6, <2>7 DEF BlockTodo
<1>3. ASSUME NEW i \in DOMAIN Tail(t)
      PROVE  /\ Tail(t)[i] \notin {"truncate", "fill"}
             /\ Tail(t)[i] = "render" => q.op \in {"switch", "block"}
             /\ Tail(t)[i] \in {"update", "detail"} => q.op = "block"
             /\ Tail(t)[i] = "ask" => i # Len(Tail(t))
             /\ Tail(t)[i] = "open" => q.op \in Openers
             /\ Tail(t)[i] = "load" => q.op = "switch"
             /\ Tail(t)[i] \in {"open", "load"} => q.repo \in Repos
             /\ Tail(t)[i] = "choose" =>
                    q.op \in Choosers /\ \A j \in DOMAIN Tail(t) : i < j => Tail(t)[j] \notin {"choose", "read"}
  <2>1. i + 1 \in DOMAIN t /\ Tail(t)[i] = t[i + 1] /\ i \in Nat
    BY <1>1
  <2>2. Tail(t)[i] \in {"open", "load"} => q.repo \in Repos
    BY <1>1, <2>1 DEF Plain
  <2>3. Tail(t)[i] = "choose" =>
          q.op \in Choosers /\ \A j \in DOMAIN Tail(t) : i < j => Tail(t)[j] \notin {"choose", "read"}
    <3> SUFFICES ASSUME t[i + 1] = "choose"
                 PROVE  q.op \in Choosers /\ \A j \in DOMAIN Tail(t) : i < j => Tail(t)[j] \notin {"choose", "read"}
      BY <2>1
    <3>1. q.op \in Choosers /\ \A j \in DOMAIN t : i + 1 < j => t[j] \notin {"choose", "read"}
      BY <2>1 DEF Plain
    <3> QED
      BY <1>1, <2>1, <3>1
  <2>4. Tail(t)[i] = "ask" => i # Len(Tail(t))
    <3>1. t[i + 1] = "ask" => i + 1 # Len(t)
      BY <2>1 DEF Plain
    <3>2. t \in Seq(Stage)
      BY DEF Plain
    <3>3. i + 1 # Len(t) => i # Len(Tail(t))
      BY <2>1, <3>2, TailLonger
    <3> QED
      BY <2>1, <3>1, <3>3
  <2> QED
    BY <2>1, <2>2, <2>3, <2>4 DEF Plain
<1> QED
  BY <1>1, <1>2, <1>3 DEF Plain

LEMMA PlainSame ==
    ASSUME NEW t, NEW k, NEW q, Plain(t, k), q.op = k.op, q.repo = k.repo
    PROVE  Plain(t, q)
  BY DEF Plain

\* The two lists a write puts in front, and how they come off again.
LEMMA Fronted ==
    ASSUME NEW r \in Seq(Stage)
    PROVE  LET one == <<"fill">> \o r
               two == <<"truncate", "fill">> \o r
           IN  /\ one \in Seq(Stage) /\ Len(one) = Len(r) + 1 /\ Head(one) = "fill" /\ Tail(one) = r
               /\ two \in Seq(Stage) /\ Len(two) = Len(r) + 2 /\ Head(two) = "truncate" /\ Tail(two) = one
               /\ one # << >> /\ two # << >> /\ Len(r) \in Nat
               /\ \A i \in DOMAIN one : one[i] = "fill" \/ \E j \in DOMAIN r : one[i] = r[j]
               /\ \A i \in DOMAIN two : two[i] \in {"truncate", "fill"} \/ \E j \in DOMAIN r : two[i] = r[j]
<1> DEFINE one == <<"fill">> \o r
           two == <<"truncate", "fill">> \o r
<1>7. Len(r) \in Nat
  BY LenProperties
<1>1. /\ one \in Seq(Stage) /\ Len(one) = Len(r) + 1 /\ Len(r) \in Nat
      /\ one[1] = "fill" /\ \A i \in 1 .. Len(r) : one[i + 1] = r[i]
  <2> DEFINE a == <<"fill">>
  <2>1. a \in Seq(Stage) /\ Len(a) = 1 /\ a[1] = "fill"
    BY DEF Stage
  <2> HIDE DEF a
  <2>2. /\ a \o r \in Seq(Stage)
        /\ Len(a \o r) = Len(a) + Len(r)
        /\ \A i \in 1 .. Len(a) + Len(r) : (a \o r)[i] = IF i <= Len(a) THEN a[i] ELSE r[i - Len(a)]
    BY <2>1, ConcatProperties
  <2>3. one = a \o r
    BY DEF a
  <2> HIDE DEF one
  <2>4. one[1] = "fill"
    BY <1>7, <2>1, <2>2, <2>3
  <2>5. \A i \in 1 .. Len(r) : one[i + 1] = r[i]
    BY <1>7, <2>1, <2>2, <2>3
  <2> QED
    BY <1>7, <2>1, <2>2, <2>3, <2>4, <2>5
<1>2. /\ two \in Seq(Stage) /\ Len(two) = Len(r) + 2
      /\ two[1] = "truncate" /\ two[2] = "fill" /\ \A i \in 1 .. Len(r) : two[i + 2] = r[i]
  <2> DEFINE a == <<"truncate", "fill">>
  <2>1. a \in Seq(Stage) /\ Len(a) = 2 /\ a[1] = "truncate" /\ a[2] = "fill"
    BY DEF Stage
  <2> HIDE DEF a
  <2>2. /\ a \o r \in Seq(Stage)
        /\ Len(a \o r) = Len(a) + Len(r)
        /\ \A i \in 1 .. Len(a) + Len(r) : (a \o r)[i] = IF i <= Len(a) THEN a[i] ELSE r[i - Len(a)]
    BY <2>1, ConcatProperties
  <2>3. two = a \o r
    BY DEF a
  <2> HIDE DEF two
  <2>4. two[1] = "truncate" /\ two[2] = "fill"
    BY <1>7, <2>1, <2>2, <2>3
  <2>5. \A i \in 1 .. Len(r) : two[i + 2] = r[i]
    BY <1>7, <2>1, <2>2, <2>3
  <2> QED
    BY <1>7, <2>1, <2>2, <2>3, <2>4, <2>5
<1> HIDE DEF one, two
<1>3. Head(one) = "fill" /\ Tail(one) = r /\ one # << >>
  BY <1>1
<1>4. Head(two) = "truncate" /\ Tail(two) = one /\ two # << >>
  <2>1. two # << >> /\ Head(two) = "truncate"
    BY <1>2
  <2>2. /\ Tail(two) \in Seq(Stage) /\ Len(Tail(two)) = Len(one)
        /\ \A i \in 1 .. Len(one) : Tail(two)[i] = two[i + 1]
    BY <1>1, <1>2, <2>1
  <2>3. \A i \in 1 .. Len(one) : Tail(two)[i] = one[i]
    <3> SUFFICES ASSUME NEW i \in 1 .. Len(one) PROVE two[i + 1] = one[i]
      BY <2>2
    <3>1. CASE i = 1
      BY <1>1, <1>2, <3>1
    <3>2. CASE i # 1
      <4>1. PICK j \in 1 .. Len(r) : i = j + 1
        <5>1. i - 1 \in 1 .. Len(r) /\ i = i - 1 + 1
          BY <1>1, <3>2
        <5> QED
          BY <5>1
      <4> QED
        BY <1>1, <1>2, <4>1
    <3> QED
      BY <3>1, <3>2
  <2> QED
    BY <1>1, <2>1, <2>2, <2>3
<1>5. \A i \in DOMAIN one : one[i] = "fill" \/ \E j \in DOMAIN r : one[i] = r[j]
  <2> SUFFICES ASSUME NEW i \in DOMAIN one, i # 1 PROVE \E j \in DOMAIN r : one[i] = r[j]
    BY <1>1
  <2>1. i - 1 \in 1 .. Len(r) /\ i = i - 1 + 1
    BY <1>1
  <2> QED
    BY <1>1, <2>1
<1>6. \A i \in DOMAIN two : two[i] \in {"truncate", "fill"} \/ \E j \in DOMAIN r : two[i] = r[j]
  <2> SUFFICES ASSUME NEW i \in DOMAIN two, i # 1, i # 2 PROVE \E j \in DOMAIN r : two[i] = r[j]
    BY <1>2
  <2>1. i - 2 \in 1 .. Len(r) /\ i = i - 2 + 2
    BY <1>1, <1>2
  <2> QED
    BY <1>1, <1>2, <2>1
<1> QED
  BY <1>1, <1>2, <1>3, <1>4, <1>5, <1>6 DEF one, two

\* Each kind of call starts with a plain list.
LEMMA ScriptPlain ==
    ASSUME NEW k, k.op \in Op \ {"idle"}, k.op = "statusOf" => k.repo \in Repos
    PROVE  Plain(Script[k.op], k) /\ Script[k.op] # << >>
<1>1. CASE k.op = "turn"
  <2>1. Script[k.op] = <<"resolve", "dock">>
    BY <1>1 DEF Script
  <2> QED
    BY <1>1, <2>1 DEF Plain, Stage, Openers, Choosers
<1>2. CASE k.op = "altw"
  <2>1. Script[k.op] = <<"resolve", "remember", "dock", "open">>
    BY <1>2 DEF Script
  <2> QED
    BY <1>2, <2>1 DEF Plain, Stage, Openers, Choosers
<1>3. CASE k.op = "status"
  <2>1. Script[k.op] = <<"resolve", "source", "remember", "dock", "open">>
    BY <1>3 DEF Script
  <2> QED
    BY <1>3, <2>1 DEF Plain, Stage, Openers, Choosers
<1>4. CASE k.op = "statusOf"
  <2>1. Script[k.op] = <<"remember", "remember", "dock", "open">>
    BY <1>4 DEF Script
  <2> QED
    BY <1>4, <2>1 DEF Plain, Stage, Openers, Choosers
<1>5. CASE k.op = "show"
  <2>1. Script[k.op] = <<"resolve", "remember", "dock", "configure">>
    BY <1>5 DEF Script
  <2> QED
    BY <1>5, <2>1 DEF Plain, Stage, Openers, Choosers
<1>6. CASE k.op = "off"
  <2>1. Script[k.op] = <<"read", "choose", "clear">>
    BY <1>6 DEF Script
  <2> QED
    BY <1>6, <2>1 DEF Plain, Stage, Openers, Choosers
<1>7. CASE k.op = "auto"
  <2>1. Script[k.op] = <<"read", "choose", "resolve", "dock">>
    BY <1>7 DEF Script
  <2> QED
    BY <1>7, <2>1 DEF Plain, Stage, Openers, Choosers
<1>8. CASE k.op = "pin"
  <2>1. Script[k.op] = <<"read", "remember", "choose", "dock">>
    BY <1>8 DEF Script
  <2> QED
    BY <1>8, <2>1 DEF Plain, Stage, Openers, Choosers
<1>9. CASE k.op = "cycle"
  <2>1. Script[k.op] = <<"read", "choose", "resolve", "dock", "reread">>
    BY <1>9 DEF Script
  <2> QED
    BY <1>9, <2>1 DEF Plain, Stage, Openers, Choosers
<1>10. CASE k.op = "repin"
  <2>1. Script[k.op] = <<"read", "ask", "choose", "resolve", "dock", "reread">>
    BY <1>10 DEF Script
  <2> QED
    BY <1>10, <2>1 DEF Plain, Stage, Openers, Choosers
<1>11. CASE k.op = "unpin"
  <2>1. Script[k.op] = <<"read", "choose", "resolve", "dock", "reread">>
    BY <1>11 DEF Script
  <2> QED
    BY <1>11, <2>1 DEF Plain, Stage, Openers, Choosers
<1>12. CASE k.op = "tool"
  <2>1. Script[k.op] = <<"remember", "dock">>
    BY <1>12 DEF Script
  <2> QED
    BY <1>12, <2>1 DEF Plain, Stage, Openers, Choosers
<1>13. CASE k.op = "switch"
  <2>1. Script[k.op] = <<"ask", "load", "remember", "render">>
    BY <1>13 DEF Script
  <2> QED
    BY <1>13, <2>1 DEF Plain, Stage, Openers, Choosers
<1>14. CASE k.op = "block"
  <2>1. Script[k.op] = <<"ask", "update", "detail", "dock", "render">>
    BY <1>14 DEF Script
  <2> QED
    BY <1>14, <2>1 DEF Plain, Stage, Openers, Choosers, BlockTodo
<1> QED
  BY <1>1, <1>2, <1>3, <1>4, <1>5, <1>6, <1>7, <1>8, <1>9, <1>10, <1>11, <1>12, <1>13, <1>14 DEF Op

LEMMA UnresolvedPlain ==
    ASSUME NEW k, k.op \in Op, k.op # "block"
    PROVE  Plain(Unresolved(k.op), k)
<1>1. Unresolved(k.op) \in {<<"clear">>, <<"clear", "reread">>, <<"source">>, <<"configure">>, << >>}
  BY DEF Unresolved
<1>2. Plain(<<"clear">>, k)
  BY DEF Plain, Stage
<1>3. Plain(<<"clear", "reread">>, k)
  BY DEF Plain, Stage
<1>4. Plain(<<"source">>, k) /\ Plain(<<"configure">>, k)
  BY DEF Plain, Stage
<1>5. Plain(<< >>, k)
  BY EmptySeq DEF Plain
<1> QED
  BY <1>1, <1>2, <1>3, <1>4, <1>5

\* What Continue puts in the place of the call.
Continued(k, rest) == IF rest = << >> THEN Idle ELSE [k EXCEPT !.todo = rest]

\* A plain list begins with no write.
LEMMA PlainHead ==
    ASSUME NEW t, NEW k, Plain(t, k), t # << >>
    PROVE  Head(t) = t[1] /\ 1 \in DOMAIN t /\ Head(t) \notin {"truncate", "fill"}
<1>1. t \in Seq(Stage) /\ Len(t) \in Nat \ {0} /\ DOMAIN t = 1 .. Len(t)
  BY EmptySeq, LenProperties DEF Plain
<1> QED
  BY <1>1 DEF Plain

LEMMA PlainFits ==
    ASSUME NEW k \in CallRecord, NEW rest, Plain(rest, k)
    PROVE  /\ CallFits(Continued(k, rest)) /\ ~Writing(Continued(k, rest))
           /\ rest # << >> => Continued(k, rest) = [k EXCEPT !.todo = rest]
<1>1. CASE rest = << >>
  BY <1>1, IdleFits DEF Continued, Writing
<1>2. CASE rest # << >>
  <2> DEFINE q == [k EXCEPT !.todo = rest]
  <2>1. q \in CallRecord /\ q.todo = rest /\ q.op = k.op /\ q.repo = k.repo
    BY DEF CallRecord, Plain
  <2>2. Continued(k, rest) = q
    BY <1>2 DEF Continued
  <2> HIDE DEF q
  <2>3. Plain(rest, q)
    BY <2>1, PlainSame
  <2>4. ~Writing(q)
    BY <1>2, <2>1, <2>3, PlainHead DEF Writing
  <2>5. CallFits(q)
    BY <2>1, <2>3 DEF CallFits, Shaped
  <2> QED
    BY <2>2, <2>4, <2>5 DEF q
<1> QED
  BY <1>1, <1>2

\* A call with a write put in front of what it still has to do.
LEMMA WriteFits ==
    ASSUME NEW k \in CallRecord, k.op # "block", NEW rest, Plain(rest, k)
    PROVE  LET t == <<"truncate", "fill">> \o rest
           IN  /\ t # << >> /\ CallFits([k EXCEPT !.todo = t])
               /\ \A i \in DOMAIN t : t[i] \in {"truncate", "fill"} \/ \E j \in DOMAIN rest : t[i] = rest[j]
<1> DEFINE t == <<"truncate", "fill">> \o rest
           q == [k EXCEPT !.todo = t]
<1>1. rest \in Seq(Stage)
  BY DEF Plain
<1>2. /\ t \in Seq(Stage) /\ Len(t) = Len(rest) + 2 /\ t # << >> /\ Len(rest) \in Nat
      /\ Tail(t) = <<"fill">> \o rest
      /\ \A i \in DOMAIN t : t[i] \in {"truncate", "fill"} \/ \E j \in DOMAIN rest : t[i] = rest[j]
  BY <1>1, Fronted
<1>3. Tail(Tail(t)) = rest
  BY <1>1, <1>2, Fronted
<1>4. t = <<"truncate", "fill">> \o Tail(Tail(t))
  BY <1>3
<1>5. q \in CallRecord /\ q.todo = t /\ q.op = k.op /\ q.repo = k.repo
  BY <1>2 DEF CallRecord
<1> HIDE DEF t, q
<1>6. Plain(rest, q)
  BY <1>5, PlainSame
<1>7. CallFits(q)
  <2>1. Len(q.todo) >= 2 /\ q.op # "block"
    BY <1>2, <1>5
  <2>2. q.todo = <<"truncate", "fill">> \o Tail(Tail(q.todo))
    BY <1>4, <1>5
  <2>3. Plain(Tail(Tail(q.todo)), q)
    BY <1>3, <1>5, <1>6
  <2> QED
    BY <1>5, <2>1, <2>2, <2>3 DEF CallFits, Shaped
<1> QED
  BY <1>2, <1>7 DEF t, q

LEMMA RememberingFits ==
    ASSUME NEW k \in CallRecord, k.op # "block", NEW p \in Prefs, NEW r \in MaybeRepo,
           NEW rest, Plain(rest, k)
    PROVE  LET next == Remembering(k, p, r, rest)
               q == Continued(next, next.todo)
           IN  /\ CallFits(q)
               /\ Writing(q) => q.want.mode = p.mode
               /\ q = Idle \/ (q.op = k.op /\ q.panel = k.panel /\ q.shown = k.shown)
<1> DEFINE next == Remembering(k, p, r, rest)
           q == Continued(next, next.todo)
<1>1. CASE p.last = r
  <2>1. next = [k EXCEPT !.todo = rest]
    BY <1>1 DEF Remembering
  <2>2. next.todo = rest /\ [next EXCEPT !.todo = rest] = next
    BY <2>1 DEF CallRecord
  <2>3. Continued(next, rest) = Continued(k, rest)
    BY <2>1, <2>2 DEF Continued
  <2>4. CallFits(q) /\ ~Writing(q)
    BY <2>2, <2>3, PlainFits
  <2>5. q = Idle \/ (q.op = k.op /\ q.panel = k.panel /\ q.shown = k.shown)
    BY <2>2, <2>3 DEF Continued, CallRecord
  <2> QED
    BY <2>4, <2>5
<1>2. CASE p.last # r
  <2> DEFINE w == [p EXCEPT !.last = r]
             t == <<"truncate", "fill">> \o rest
             kk == [k EXCEPT !.want = w]
  <2>1. next = [k EXCEPT !.want = w, !.todo = t]
    BY <1>2 DEF Remembering
  <2>2. w \in Prefs /\ w.mode = p.mode
    BY DEF Prefs, MaybeRepo
  <2> HIDE DEF w
  <2>3. /\ kk \in CallRecord /\ kk.op = k.op /\ kk.repo = k.repo /\ kk.want = w
        /\ kk.panel = k.panel /\ kk.shown = k.shown
    BY <2>2 DEF CallRecord
  <2>4. Plain(rest, kk)
    BY <2>3, PlainSame
  <2> HIDE DEF t
  <2>5. next = [kk EXCEPT !.todo = t]
    BY <2>1 DEF CallRecord
  <2> HIDE DEF kk, next
  <2>6. t # << >> /\ CallFits(next)
    BY <2>3, <2>4, <2>5, WriteFits DEF t
  <2>7. next.todo = t /\ [next EXCEPT !.todo = t] = next
    BY <2>3, <2>5 DEF CallRecord
  <2>8. q = next
    BY <2>6, <2>7 DEF Continued
  <2>9. next.want = w /\ next.op = k.op /\ next.panel = k.panel /\ next.shown = k.shown
    BY <2>3, <2>5 DEF CallRecord
  <2> QED
    BY <2>2, <2>6, <2>8, <2>9 DEF next
<1> QED
  BY <1>1, <1>2

\* What a call at a stage of its own has left is plain.
LEMMA StagePlain ==
    ASSUME NEW k, CallFits(k), k.todo # << >>, Head(k.todo) \notin {"truncate", "fill"}
    PROVE  Plain(k.todo, k) /\ k \in CallRecord /\ k.todo[1] = Head(k.todo) /\ 1 \in DOMAIN k.todo
<1>1. k \in CallRecord /\ k.todo \in Seq(Stage)
  BY DEF CallFits, CallRecord
<1>2. ASSUME Plain(Tail(k.todo), k), k.todo = <<"fill">> \o Tail(k.todo) PROVE FALSE
  <2>1. Tail(k.todo) \in Seq(Stage)
    BY <1>2 DEF Plain
  <2>2. Head(<<"fill">> \o Tail(k.todo)) = "fill"
    BY <2>1, Fronted
  <2> QED
    BY <1>2, <2>2
<1>3. ASSUME Plain(Tail(Tail(k.todo)), k), k.todo = <<"truncate", "fill">> \o Tail(Tail(k.todo)) PROVE FALSE
  <2>1. Tail(Tail(k.todo)) \in Seq(Stage)
    BY <1>3 DEF Plain
  <2>2. Head(<<"truncate", "fill">> \o Tail(Tail(k.todo))) = "truncate"
    BY <2>1, Fronted
  <2> QED
    BY <1>3, <2>2
<1>4. Plain(k.todo, k)
  BY <1>2, <1>3 DEF CallFits, Shaped
<1> QED
  BY <1>1, <1>4, PlainHead

\* A call that is writing: filling, or about to truncate and then fill.
LEMMA WritingTodo ==
    ASSUME NEW k, CallFits(k), Writing(k)
    PROVE  /\ k \in CallRecord /\ k.op # "block"
           /\ \/ Head(k.todo) = "fill" /\ Plain(Tail(k.todo), k)
              \/ /\ Head(k.todo) = "truncate"
                 /\ Tail(k.todo) = <<"fill">> \o Tail(Tail(k.todo)) /\ Plain(Tail(Tail(k.todo)), k)
<1>1. k \in CallRecord /\ k.todo \in Seq(Stage) /\ k.todo # << >> /\ Head(k.todo) \in {"truncate", "fill"}
  BY DEF CallFits, CallRecord, Writing
<1>2. ~Plain(k.todo, k)
  BY <1>1, PlainHead
<1>3. ASSUME k.op # "block", Plain(Tail(k.todo), k), k.todo = <<"fill">> \o Tail(k.todo)
      PROVE  Head(k.todo) = "fill"
  <2>1. Tail(k.todo) \in Seq(Stage)
    BY <1>3 DEF Plain
  <2>2. Head(<<"fill">> \o Tail(k.todo)) = "fill"
    BY <2>1, Fronted
  <2> QED
    BY <1>3, <2>2
<1>4. ASSUME Plain(Tail(Tail(k.todo)), k), k.todo = <<"truncate", "fill">> \o Tail(Tail(k.todo))
      PROVE  Head(k.todo) = "truncate" /\ Tail(k.todo) = <<"fill">> \o Tail(Tail(k.todo))
  <2> DEFINE r == Tail(Tail(k.todo))
  <2>1. r \in Seq(Stage)
    BY <1>4 DEF Plain
  <2>3. k.todo = <<"truncate", "fill">> \o r
    BY <1>4
  <2> HIDE DEF r
  <2>2. Head(<<"truncate", "fill">> \o r) = "truncate" /\ Tail(<<"truncate", "fill">> \o r) = <<"fill">> \o r
    BY <2>1, Fronted
  <2>4. Head(k.todo) = "truncate" /\ Tail(k.todo) = <<"fill">> \o r
    BY <2>2, <2>3
  <2> QED
    BY <2>4 DEF r
<1> QED
  BY <1>1, <1>2, <1>3, <1>4 DEF CallFits, Shaped

\* After the truncation: the same call, still writing, still the choice if it was.
LEMMA TruncatedFits ==
    ASSUME NEW k, CallFits(k), k.todo # << >>, Head(k.todo) = "truncate"
    PROVE  LET q == Continued(k, Tail(k.todo))
           IN  /\ CallFits(q) /\ Writing(q) /\ q.want = k.want
               /\ q.op = k.op /\ q.panel = k.panel /\ q.shown = k.shown /\ q.op # "block"
               /\ ChoosingCall(k) => ChoosingCall(q)
<1> DEFINE r == Tail(Tail(k.todo))
           t == Tail(k.todo)
           q == [k EXCEPT !.todo = t]
<1>1. /\ k \in CallRecord /\ k.op # "block" /\ t = <<"fill">> \o r /\ Plain(r, k)
  BY WritingTodo DEF Writing
<1>2. k.todo \in Seq(Stage) /\ \A i \in DOMAIN t : i + 1 \in DOMAIN k.todo /\ t[i] = k.todo[i + 1]
  BY <1>1 DEF CallRecord
<1>3. r \in Seq(Stage)
  BY <1>1 DEF Plain
<1> HIDE DEF r, t
<1>4. t \in Seq(Stage) /\ t # << >> /\ Head(t) = "fill" /\ Tail(t) = r /\ Len(t) = Len(r) + 1 /\ Len(r) \in Nat
  BY <1>1, <1>3, Fronted
<1>5. /\ q \in CallRecord /\ q.todo = t /\ q.op = k.op /\ q.repo = k.repo /\ q.want = k.want
      /\ q.panel = k.panel /\ q.shown = k.shown /\ q.mode = k.mode
  BY <1>1, <1>4 DEF CallRecord
<1>6. Continued(k, t) = q
  BY <1>4 DEF Continued
<1> HIDE DEF q
<1>7. Plain(r, q)
  BY <1>1, <1>5, PlainSame
<1>8. CallFits(q)
  <2>1. Tail(q.todo) = r
    BY <1>4, <1>5
  <2>2. Len(q.todo) >= 1 /\ q.op # "block"
    BY <1>1, <1>4, <1>5
  <2>3. q.todo = <<"fill">> \o Tail(q.todo)
    BY <1>1, <1>5, <2>1
  <2>4. Plain(Tail(q.todo), q)
    BY <1>7, <2>1
  <2> QED
    BY <1>5, <2>2, <2>3, <2>4 DEF CallFits, Shaped
<1>9. Writing(q)
  BY <1>4, <1>5 DEF Writing
<1>10. ChoosingCall(k) => ChoosingCall(q)
  BY <1>2, <1>5 DEF ChoosingCall
<1> QED
  BY <1>1, <1>5, <1>6, <1>8, <1>9, <1>10 DEF t

\* After the fill: the rest of the handler.
LEMMA FilledFits ==
    ASSUME NEW k, CallFits(k), k.todo # << >>, Head(k.todo) = "fill"
    PROVE  LET q == Continued([k EXCEPT !.want = Defaults], Tail(k.todo))
           IN  /\ CallFits(q) /\ ~Writing(q) /\ k.op # "block"
               /\ q = Idle \/ (q.op = k.op /\ q.panel = k.panel /\ q.shown = k.shown)
<1> DEFINE kk == [k EXCEPT !.want = Defaults]
           t == Tail(k.todo)
<1>1. k \in CallRecord /\ k.op # "block" /\ Plain(t, k)
  BY WritingTodo DEF Writing
<1>2. /\ kk \in CallRecord /\ kk.op = k.op /\ kk.repo = k.repo /\ kk.panel = k.panel /\ kk.shown = k.shown
      /\ [kk EXCEPT !.todo = t].op = k.op /\ [kk EXCEPT !.todo = t].panel = k.panel
      /\ [kk EXCEPT !.todo = t].shown = k.shown
  BY <1>1, DefaultsType DEF CallRecord
<1> HIDE DEF kk, t
<1>3. Plain(t, kk)
  BY <1>1, <1>2, PlainSame
<1>4. CallFits(Continued(kk, t)) /\ ~Writing(Continued(kk, t))
  BY <1>2, <1>3, PlainFits
<1> QED
  BY <1>1, <1>2, <1>4 DEF kk, t, Continued

\* Only a call that is writing has a fill to come, and it has.
LEMMA FillMeansWriting ==
    ASSUME NEW k, CallFits(k)
    PROVE  /\ (\E i \in DOMAIN k.todo : k.todo[i] = "fill") <=> Writing(k)
           /\ Writing(k) => Head(k.todo) # "read"
<1>1. CASE Writing(k)
  <2>1. k \in CallRecord /\ k.todo \in Seq(Stage) /\ k.todo # << >>
    BY <1>1 DEF CallFits, CallRecord, Writing
  <2>2. CASE Head(k.todo) = "fill"
    <3>1. 1 \in DOMAIN k.todo /\ k.todo[1] = "fill"
      BY <2>1, <2>2
    <3> QED
      BY <1>1, <2>2, <3>1
  <2>3. CASE Head(k.todo) = "truncate"
    <3> DEFINE t == Tail(k.todo)
               r == Tail(Tail(k.todo))
    <3>1. t = <<"fill">> \o r /\ r \in Seq(Stage)
      BY <1>1, <2>3, WritingTodo DEF Plain
    <3>2. \A i \in DOMAIN t : i + 1 \in DOMAIN k.todo /\ t[i] = k.todo[i + 1]
      BY <2>1
    <3>3. t \in Seq(Stage) /\ t # << >>
      <4> HIDE DEF t, r
      <4> QED
        BY <3>1, Fronted
    <3>4. Head(t) = "fill"
      <4> HIDE DEF t, r
      <4> QED
        BY <3>1, Fronted
    <3> HIDE DEF t, r
    <3>5. 1 \in DOMAIN t /\ t[1] = "fill"
      BY <3>3, <3>4
    <3> QED
      BY <1>1, <2>3, <3>2, <3>5
  <2> QED
    BY <1>1, <2>2, <2>3 DEF Writing
<1>2. CASE ~Writing(k)
  <2>1. CASE k.todo = << >>
    BY <1>2, <2>1
  <2>2. CASE k.todo # << >>
    <3>1. Plain(k.todo, k)
      BY <1>2, <2>2, StagePlain DEF Writing
    <3> QED
      BY <1>2, <3>1 DEF Plain
  <2> QED
    BY <2>1, <2>2
<1> QED
  BY <1>1, <1>2

-----------------------------------------------------------------------------
(* What a call sees of the panels                                           *)

\* qs has the panels of ps, and perhaps more: of the same repositories, marks kept.
Grows(ps, qs) ==
    /\ ps \in Seq(PanelRecord) /\ qs \in Seq(PanelRecord)
    /\ Len(ps) <= Len(qs)
    /\ \A p \in 1 .. Len(ps) :
        /\ qs[p].repo = ps[p].repo
        /\ ps[p].late = TRUE => qs[p].late = TRUE
        /\ qs[p].crossed = FALSE => ps[p].crossed = FALSE

LEMMA GrowsReflexive ==
    ASSUME NEW ps \in Seq(PanelRecord)
    PROVE  Grows(ps, ps)
<1>1. Len(ps) \in Nat
  BY LenProperties
<1> QED
  BY <1>1 DEF Grows

LEMMA SeatedGrows ==
    ASSUME NEW k, NEW ps, NEW qs, NEW a, NEW b, Seated(k, ps, a), Grows(ps, qs),
           a = b \/ (k.panel = a /\ a # 0 => qs[a].late = TRUE)
    PROVE  Seated(k, qs, b)
<1>1. Len(ps) \in Nat /\ Len(qs) \in Nat /\ Len(ps) <= Len(qs) /\ k.panel \in 0 .. Len(ps)
  BY LenProperties DEF Grows, Seated
<1>2. k.panel \in 0 .. Len(qs)
  BY <1>1
<1>3. k.panel # 0 => k.panel \in 1 .. Len(ps)
  BY <1>1
<1>4. k.panel \notin {0, b} => qs[k.panel].late = TRUE
  BY <1>3 DEF Grows, Seated
<1>5. k.op = "block" => k.panel \in 1 .. Len(ps)
  BY <1>3 DEF Seated
<1>6. k.op = "block" /\ qs[k.panel].crossed = FALSE =>
        ps[k.panel].crossed = FALSE /\ qs[k.panel].repo = ps[k.panel].repo
  BY <1>5 DEF Grows
<1> QED
  BY <1>2, <1>4, <1>6 DEF Seated

LEMMA SeatedIdle ==
    ASSUME NEW ps \in Seq(PanelRecord), NEW a
    PROVE  Seated(Idle, ps, a)
<1>1. Len(ps) \in Nat
  BY LenProperties
<1> QED
  BY <1>1, IdleFits DEF Seated

\* A call that is not a block and keeps its kind and panel stays seated.
LEMMA SeatedSame ==
    ASSUME NEW k, NEW q, NEW ps, NEW a, Seated(k, ps, a), q.op = k.op, q.panel = k.panel, k.op # "block"
    PROVE  Seated(q, ps, a)
  BY DEF Seated

\* A panel that loses the screen is marked if a call still wants it.
LEMMA LeaveGrows ==
    ASSUME panels \in Seq(PanelRecord)
    PROVE  /\ Grows(panels, Leave) /\ Len(Leave) = Len(panels) /\ Leave \in Seq(PanelRecord)
           /\ \A p \in DOMAIN panels : /\ Leave[p].detail = panels[p].detail
                                       /\ Leave[p].crossed = panels[p].crossed
                                       /\ Leave[p].repo = panels[p].repo
           /\ \A c \in Calls : calls[c].panel = active /\ active \in DOMAIN panels => Leave[active].late = TRUE
<1>1. Len(panels) \in Nat /\ DOMAIN panels = 1 .. Len(panels) /\ \A p \in DOMAIN panels : panels[p] \in PanelRecord
  BY LenProperties
<1> DEFINE marked(p) == IF p = active /\ Pending(p) THEN [panels[p] EXCEPT !.late = TRUE] ELSE panels[p]
<1>2. Leave = [p \in 1 .. Len(panels) |-> marked(p)]
  BY <1>1 DEF Leave
<1>3. \A p \in DOMAIN panels : /\ marked(p) \in PanelRecord
                               /\ marked(p).detail = panels[p].detail
                               /\ marked(p).crossed = panels[p].crossed
                               /\ marked(p).repo = panels[p].repo
                               /\ panels[p].late = TRUE => marked(p).late = TRUE
                               /\ p = active /\ Pending(p) => marked(p).late = TRUE
  <2> SUFFICES ASSUME NEW p \in DOMAIN panels
               PROVE  /\ marked(p) \in PanelRecord
                      /\ marked(p).detail = panels[p].detail
                      /\ marked(p).crossed = panels[p].crossed
                      /\ marked(p).repo = panels[p].repo
                      /\ panels[p].late = TRUE => marked(p).late = TRUE
                      /\ p = active /\ Pending(p) => marked(p).late = TRUE
    OBVIOUS
  <2>1. panels[p] \in PanelRecord
    BY <1>1
  <2>2. CASE p = active /\ Pending(p)
    BY <2>1, <2>2 DEF PanelRecord
  <2>3. CASE ~(p = active /\ Pending(p))
    BY <2>1, <2>3
  <2> QED
    BY <2>2, <2>3
<1> HIDE DEF marked
<1>4. Leave \in Seq(PanelRecord) /\ Len(Leave) = Len(panels)
  BY <1>1, <1>2, <1>3
<1>5. Grows(panels, Leave)
  BY <1>1, <1>2, <1>3, <1>4 DEF Grows
<1>6. \A c \in Calls : calls[c].panel = active => Pending(active)
  BY DEF Pending
<1> QED
  BY <1>1, <1>2, <1>3, <1>4, <1>5, <1>6

\* close() of p: what Leave does, and p's timer stops.
LEMMA CloseGrows ==
    ASSUME panels \in Seq(PanelRecord), NEW p \in DOMAIN panels
    PROVE  LET closed == [Leave EXCEPT ![p].timer = FALSE]
           IN  /\ Grows(panels, closed) /\ Len(closed) = Len(panels) /\ closed \in Seq(PanelRecord)
               /\ \A x \in DOMAIN panels : /\ closed[x].detail = panels[x].detail
                                           /\ closed[x].crossed = panels[x].crossed
                                           /\ closed[x].repo = panels[x].repo
               /\ \A c \in Calls : calls[c].panel = active /\ active \in DOMAIN panels => closed[active].late = TRUE
<1> DEFINE closed == [Leave EXCEPT ![p].timer = FALSE]
<1>1. /\ Grows(panels, Leave) /\ Len(Leave) = Len(panels) /\ Leave \in Seq(PanelRecord)
      /\ \A x \in DOMAIN panels : /\ Leave[x].detail = panels[x].detail
                                  /\ Leave[x].crossed = panels[x].crossed
                                  /\ Leave[x].repo = panels[x].repo
      /\ \A c \in Calls : calls[c].panel = active /\ active \in DOMAIN panels => Leave[active].late = TRUE
  BY LeaveGrows
<1>2. Len(panels) \in Nat /\ DOMAIN panels = 1 .. Len(panels) /\ DOMAIN Leave = 1 .. Len(panels)
      /\ \A x \in DOMAIN panels : Leave[x] \in PanelRecord
  BY <1>1, LenProperties
<1> HIDE DEF Leave
<1>3. /\ closed \in Seq(PanelRecord) /\ Len(closed) = Len(panels)
      /\ \A x \in DOMAIN panels : closed[x] = IF x = p THEN [Leave[x] EXCEPT !.timer = FALSE] ELSE Leave[x]
  <2>1. [Leave[p] EXCEPT !.timer = FALSE] \in PanelRecord
    BY <1>2 DEF PanelRecord
  <2> DEFINE e == [Leave[p] EXCEPT !.timer = FALSE]
  <2>2. closed = [Leave EXCEPT ![p] = e]
    OBVIOUS
  <2> HIDE DEF e, closed
  <2>3. p \in 1 .. Len(Leave) /\ e \in PanelRecord
    BY <1>1, <1>2, <2>1 DEF e
  <2>4. /\ [Leave EXCEPT ![p] = e] \in Seq(PanelRecord)
        /\ Len([Leave EXCEPT ![p] = e]) = Len(Leave)
        /\ \A j \in 1 .. Len(Leave) : [Leave EXCEPT ![p] = e][j] = IF j = p THEN e ELSE Leave[j]
    BY <1>1, <2>3, ExceptSeq
  <2>5. \A x \in DOMAIN panels : closed[x] = IF x = p THEN e ELSE Leave[x]
    BY <1>1, <1>2, <2>2, <2>4
  <2>6. closed \in Seq(PanelRecord) /\ Len(closed) = Len(panels)
    BY <1>1, <2>2, <2>4
  <2> QED
    BY <2>5, <2>6 DEF e
<1> HIDE DEF closed
<1>4. \A x \in DOMAIN panels : /\ closed[x].detail = Leave[x].detail /\ closed[x].crossed = Leave[x].crossed
                               /\ closed[x].repo = Leave[x].repo /\ closed[x].late = Leave[x].late
  BY <1>2, <1>3 DEF PanelRecord
<1>5. Grows(panels, closed)
  BY <1>1, <1>2, <1>3, <1>4 DEF Grows
<1> QED
  BY <1>1, <1>3, <1>4, <1>5 DEF closed

-----------------------------------------------------------------------------
(* What every step has to show                                              *)

LEMMA Known ==
    ASSUME IInv
    PROVE  /\ panels \in Seq(PanelRecord) /\ Len(panels) \in Nat /\ DOMAIN panels = 1 .. Len(panels)
           /\ active \in 0 .. Len(panels) /\ keys = active
           /\ local \in 0 .. Len(panels) /\ painted \in 0 .. Len(panels)
           /\ \A p \in DOMAIN panels : panels[p] \in PanelRecord
           /\ ReadPrefs \in Prefs /\ line \in MaybeRepo
           /\ \A c \in Calls : CallFits(calls[c]) /\ calls[c] \in CallRecord /\ Seated(calls[c], panels, active)
           /\ calls \in [Calls -> CallRecord]
<1>1. panels \in Seq(PanelRecord)
  BY DEF IInv, TypeOK, PanelRecord, MaybeRepo
<1>2. Len(panels) \in Nat /\ DOMAIN panels = 1 .. Len(panels) /\ \A p \in DOMAIN panels : panels[p] \in PanelRecord
  BY <1>1, LenProperties
<1>3. ReadPrefs \in Prefs
  BY DefaultsType DEF ReadPrefs, IInv, TypeOK
<1>4. keys = active
  BY DEF IInv, ScreenInv, PanelCoherent
<1>5. \A c \in Calls : CallFits(calls[c]) /\ calls[c] \in CallRecord /\ Seated(calls[c], panels, active)
  BY DEF IInv, Calling, ScreenInv
<1>6. /\ active \in 0 .. Len(panels) /\ local \in 0 .. Len(panels) /\ painted \in 0 .. Len(panels)
      /\ line \in MaybeRepo
  BY DEF IInv, TypeOK, MaybeRepo
<1> QED
  BY <1>1, <1>2, <1>3, <1>4, <1>5, <1>6 DEF IInv, Calling

LEMMA Assemble ==
    ASSUME IInv, mix' = mix, UNCHANGED file, Calling', Alone',
           line' \in MaybeRepo, config' \in {"closed", "open", "stray"}, panels' \in Seq(PanelRecord),
           active' \in 0 .. Len(panels'), local' \in 0 .. Len(panels'), painted' \in 0 .. Len(panels'),
           \A d \in Calls : Seated(calls'[d], panels', active'),
           ShowsOwn(panels'), PanelCoherent'
    PROVE  IInv'
<1>1. prefs' = prefs /\ chosen' = chosen /\ mixed' = mixed
  BY DEF file
<1>2. ChoiceKept'
  <2>1. ChoiceKept
    BY DEF IInv
  <2> QED
    BY <1>1, <2>1 DEF ChoiceKept
<1>3. ScreenInv'
  BY DEF ScreenInv
<1>4. keys' = active'
  BY DEF PanelCoherent
<1>5. mixed' \in BOOLEAN
  BY <1>1 DEF IInv, TypeOK
<1>6. TypeOK'
  BY <1>1, <1>4, <1>5 DEF IInv, TypeOK, PanelRecord, MaybeRepo
<1> QED
  BY <1>2, <1>3, <1>6 DEF IInv

\* A call goes on, and the file stays: it begins to write at most, with the mode that
\* stands in the file or as the choice.
LEMMA Replaced ==
    ASSUME IInv, NEW c \in Calls, NEW q, calls' = [calls EXCEPT ![c] = q], CallFits(q), UNCHANGED file,
           ~Writing(calls[c]), Writing(q) => q.want.mode = ReadPrefs.mode \/ ChoosingCall(q)
    PROVE  Calling' /\ Alone' /\ calls'[c] = q /\ \A d \in Calls \ {c} : calls'[d] = calls[d]
<1>1. calls'[c] = q /\ \A d \in Calls \ {c} : calls'[d] = calls[d]
  BY Known
<1>2. Calling'
  BY <1>1, Known DEF Calling, CallFits
<1>3. prefs' = prefs /\ chosen' = chosen /\ mixed' = mixed
  BY DEF file
<1>4. Alone'
  <2> SUFFICES ASSUME mixed' = FALSE
               PROVE  /\ \A d \in Calls :
                            Writing(calls'[d]) /\ (\A e \in Calls \ {d} : ~Writing(calls'[e]))
                              => calls'[d].want.mode = chosen \/ ChoosingCall(calls'[d])
                      /\ prefs = Torn /\ (\A d \in Calls : ~Writing(calls'[d])) => chosen = Defaults.mode
    BY <1>3 DEF Alone
  <2>1. /\ \A d \in Calls :
              Writing(calls[d]) /\ (\A e \in Calls \ {d} : ~Writing(calls[e]))
                => calls[d].want.mode = chosen \/ ChoosingCall(calls[d])
        /\ prefs = Torn /\ (\A d \in Calls : ~Writing(calls[d])) => chosen = Defaults.mode
    BY <1>3 DEF IInv, Alone
  <2>2. prefs # Torn => prefs.mode = chosen
    BY <1>3 DEF IInv, ChoiceKept
  <2>3. (\A d \in Calls : ~Writing(calls[d])) => ReadPrefs.mode = chosen
    BY <2>1, <2>2 DEF ReadPrefs
  <2>4. ASSUME NEW d \in Calls, Writing(calls'[d]), \A e \in Calls \ {d} : ~Writing(calls'[e])
        PROVE  calls'[d].want.mode = chosen \/ ChoosingCall(calls'[d])
    <3>1. CASE d = c
      <4>1. \A e \in Calls : ~Writing(calls[e])
        BY <1>1, <2>4, <3>1
      <4> QED
        BY <1>1, <2>3, <2>4, <3>1, <4>1
    <3>2. CASE d # c
      <4>1. \A e \in Calls \ {d} : ~Writing(calls[e])
        BY <1>1, <2>4
      <4> QED
        BY <1>1, <2>1, <2>4, <3>2, <4>1
    <3> QED
      BY <3>1, <3>2
  <2>5. (\A d \in Calls : ~Writing(calls'[d])) => \A d \in Calls : ~Writing(calls[d])
    BY <1>1
  <2> QED
    BY <2>1, <2>4, <2>5
<1> QED
  BY <1>1, <1>2, <1>4

\* The same with the screen as it was.
LEMMA ReplacedQuietly ==
    ASSUME IInv, NEW c \in Calls, NEW q, calls' = [calls EXCEPT ![c] = q], CallFits(q),
           UNCHANGED <<mix, file, screen>>, line' \in MaybeRepo,
           ~Writing(calls[c]), Writing(q) => q.want.mode = ReadPrefs.mode \/ ChoosingCall(q),
           Seated(q, panels, active)
    PROVE  IInv'
<1>1. UNCHANGED file /\ mix' = mix
  OBVIOUS
<1>2. /\ panels' = panels /\ active' = active /\ keys' = keys /\ local' = local
      /\ painted' = painted /\ config' = config
  BY DEF screen
<1>3. Calling' /\ Alone' /\ calls'[c] = q /\ \A d \in Calls \ {c} : calls'[d] = calls[d]
  BY <1>1, Replaced
<1>4. \A d \in Calls : Seated(calls'[d], panels', active')
  BY <1>2, <1>3, Known
<1>5. ShowsOwn(panels') /\ PanelCoherent'
  BY <1>2 DEF IInv, ScreenInv, PanelCoherent
<1>6. config' \in {"closed", "open", "stray"}
  BY <1>2 DEF IInv, TypeOK
<1> QED
  BY <1>1, <1>2, <1>3, <1>4, <1>5, <1>6, Known, Assemble

\* The calls stay, and the file.
LEMMA CallsKept ==
    ASSUME IInv, UNCHANGED <<mix, file, line, calls>>
    PROVE  Calling' /\ Alone' /\ line' \in MaybeRepo /\ UNCHANGED file /\ mix' = mix /\ calls' = calls
<1>1. prefs' = prefs /\ chosen' = chosen /\ mixed' = mixed /\ calls' = calls /\ line' = line
  BY DEF file
<1>2. Calling'
  BY <1>1 DEF IInv, Calling
<1>3. Alone'
  BY <1>1 DEF IInv, Alone
<1> QED
  BY <1>1, <1>2, <1>3, Known

-----------------------------------------------------------------------------
(* Steps of one call that leave the screen and the file alone               *)

LEMMA AtStage ==
    ASSUME IInv, NEW c \in Calls, NEW stage, At(c, stage), stage \notin {"truncate", "fill"}
    PROVE  /\ calls[c] \in CallRecord /\ Plain(calls[c].todo, calls[c]) /\ ~Writing(calls[c])
           /\ calls[c].todo # << >> /\ Head(calls[c].todo) = stage
           /\ calls[c].todo[1] = stage /\ 1 \in DOMAIN calls[c].todo
           /\ Seated(calls[c], panels, active) /\ CallFits(calls[c])
  BY Known, StagePlain DEF At, Writing

LEMMA NotBlock ==
    ASSUME NEW t, NEW k, Plain(t, k), t # << >>,
           Head(t) \notin {"ask", "update", "detail", "dock", "paint", "render"}
    PROVE  k.op # "block"
<1> SUFFICES ASSUME t \in BlockTodo PROVE FALSE
  BY DEF Plain
<1>1. Head(t) \in {"ask", "update", "detail", "dock", "paint", "render"}
  BY DEF BlockTodo
<1> QED
  BY <1>1

LEMMA ResolvedType ==
    ASSUME NEW p \in Prefs
    PROVE  Resolved(p) \in MaybeRepo
  BY PanelAssumption DEF Resolved, Prefs, MaybeRepo

LEMMA ContinuedIs ==
    ASSUME NEW c, NEW k, NEW rest, Continue(c, k, rest)
    PROVE  calls' = [calls EXCEPT ![c] = Continued(k, rest)]
  BY DEF Continue, Continued

LEMMA ResolveIInv ==
    ASSUME IInv, NEW c \in Calls, Resolve(c)
    PROVE  IInv'
<1> DEFINE k == calls[c]
           p == ReadPrefs
           found == Resolved(p)
           kf == [k EXCEPT !.repo = found]
           kn == [k EXCEPT !.repo = NoRepo]
           next == Remembering(kf, p, found, Tail(k.todo))
<1>1. /\ k \in CallRecord /\ Plain(k.todo, k) /\ ~Writing(k) /\ k.todo # << >> /\ Head(k.todo) = "resolve"
      /\ Seated(k, panels, active)
  BY AtStage DEF Resolve
<1>2. k.op # "block" /\ p \in Prefs /\ found \in MaybeRepo
  BY <1>1, NotBlock, Known, ResolvedType
<1>3. UNCHANGED <<mix, file, screen>> /\ line' \in MaybeRepo
  BY Known DEF Resolve
<1>4. \/ Continue(c, kn, Unresolved(k.op))
      \/ found # NoRepo /\ Continue(c, next, next.todo)
  BY DEF Resolve
<1> HIDE DEF k, p, found
<1>5. CASE Continue(c, kn, Unresolved(k.op))
  <2> DEFINE q == Continued(kn, Unresolved(k.op))
  <2>1. kn \in CallRecord /\ kn.op = k.op /\ kn.panel = k.panel
    BY <1>1 DEF CallRecord, MaybeRepo
  <2>2. Plain(Unresolved(k.op), kn)
    BY <1>2, <2>1, UnresolvedPlain DEF CallRecord
  <2>3. q = Idle \/ (q.op = k.op /\ q.panel = k.panel)
    BY <2>1 DEF Continued, CallRecord
  <2> HIDE DEF kn
  <2>4. CallFits(q) /\ ~Writing(q)
    BY <2>1, <2>2, PlainFits
  <2>5. calls' = [calls EXCEPT ![c] = q]
    BY <1>5, ContinuedIs
  <2> HIDE DEF q
  <2>6. Seated(q, panels, active)
    BY <1>1, <1>2, <2>3, SeatedSame, SeatedIdle, Known
  <2> QED
    BY <1>1, <1>3, <2>4, <2>5, <2>6, ReplacedQuietly DEF k
<1>6. CASE found # NoRepo /\ Continue(c, next, next.todo)
  <2> DEFINE q == Continued(next, next.todo)
  <2>1. kf \in CallRecord /\ kf.op = k.op /\ kf.panel = k.panel /\ kf.repo \in Repos
    BY <1>1, <1>2, <1>6 DEF CallRecord, MaybeRepo
  <2> HIDE DEF kf
  <2>2. Plain(Tail(k.todo), kf)
    BY <1>1, <2>1, PlainTail
  <2>3. /\ CallFits(q)
        /\ Writing(q) => q.want.mode = p.mode
        /\ q = Idle \/ (q.op = kf.op /\ q.panel = kf.panel /\ q.shown = kf.shown)
    BY <1>2, <2>1, <2>2, RememberingFits
  <2>4. calls' = [calls EXCEPT ![c] = q]
    BY <1>6, ContinuedIs
  <2> HIDE DEF q
  <2>5. Seated(q, panels, active)
    BY <1>1, <1>2, <2>1, <2>3, SeatedSame, SeatedIdle, Known
  <2> QED
    BY <1>1, <1>3, <2>3, <2>4, <2>5, ReplacedQuietly DEF k, p
<1> QED
  BY <1>4, <1>5, <1>6

\* A call that remembers r, having read the preferences, and goes on with `rest`.
LEMMA RememberStep ==
    ASSUME IInv, NEW c \in Calls, ~Writing(calls[c]), calls[c].op # "block",
           NEW r \in MaybeRepo, NEW rest, Plain(rest, calls[c]),
           LET next == Remembering(calls[c], ReadPrefs, r, rest) IN Continue(c, next, next.todo),
           UNCHANGED <<mix, file, screen>>, line' \in MaybeRepo
    PROVE  IInv'
<1> DEFINE k == calls[c]
           next == Remembering(k, ReadPrefs, r, rest)
           q == Continued(next, next.todo)
<1>1. k \in CallRecord /\ ReadPrefs \in Prefs /\ Seated(k, panels, active)
  BY Known
<1>2. /\ CallFits(q)
      /\ Writing(q) => q.want.mode = ReadPrefs.mode
      /\ q = Idle \/ (q.op = k.op /\ q.panel = k.panel /\ q.shown = k.shown)
  BY <1>1, RememberingFits
<1>3. calls' = [calls EXCEPT ![c] = q]
  BY ContinuedIs
<1> HIDE DEF q
<1>4. Seated(q, panels, active)
  BY <1>1, <1>2, SeatedSame, SeatedIdle, Known
<1> QED
  BY <1>2, <1>3, <1>4, ReplacedQuietly

\* A call that goes on with `rest`, which is plain, whatever it has learnt.
LEMMA PlainStep ==
    ASSUME IInv, NEW c \in Calls, ~Writing(calls[c]), NEW k \in CallRecord, NEW rest, Plain(rest, k),
           Continue(c, k, rest), UNCHANGED <<mix, file, screen>>, line' \in MaybeRepo,
           rest # << >> => Seated([k EXCEPT !.todo = rest], panels, active)
    PROVE  IInv'
<1> DEFINE q == Continued(k, rest)
<1>1. CallFits(q) /\ ~Writing(q)
  BY PlainFits
<1>2. calls' = [calls EXCEPT ![c] = q]
  BY ContinuedIs
<1>3. Seated(q, panels, active)
  BY SeatedIdle, Known DEF Continued
<1> HIDE DEF q
<1> QED
  BY <1>1, <1>2, <1>3, ReplacedQuietly

LEMMA SeatedTodo ==
    ASSUME NEW k \in CallRecord, k.op # "block", NEW rest, NEW ps, NEW a, Seated(k, ps, a)
    PROVE  Seated([k EXCEPT !.todo = rest], ps, a)
  BY SeatedSame DEF CallRecord

LEMMA SourceIInv ==
    ASSUME IInv, NEW c \in Calls, Source(c)
    PROVE  IInv'
<1> DEFINE k == calls[c]
           rest == IF k.repo = NoRepo THEN << >> ELSE Tail(k.todo)
<1>1. /\ k \in CallRecord /\ Plain(k.todo, k) /\ ~Writing(k) /\ k.todo # << >> /\ Head(k.todo) = "source"
      /\ Seated(k, panels, active)
  BY AtStage DEF Source
<1>2. k.op # "block" /\ Resolved(ReadPrefs) \in MaybeRepo
  BY <1>1, NotBlock, Known, ResolvedType
<1>3. Plain(rest, k)
  <2>1. Plain(<< >>, k)
    BY EmptySeq DEF Plain
  <2>2. Plain(Tail(k.todo), k)
    BY <1>1, PlainTail
  <2> QED
    BY <2>1, <2>2
<1>4. UNCHANGED <<mix, file, screen>> /\ line' \in MaybeRepo
  BY Known DEF Source
<1>5. \/ Continue(c, k, rest)
      \/ LET next == Remembering(k, ReadPrefs, Resolved(ReadPrefs), rest) IN Continue(c, next, next.todo)
  BY DEF Source
<1>6. Seated([k EXCEPT !.todo = rest], panels, active)
  BY <1>1, <1>2, SeatedTodo
<1> HIDE DEF rest
<1> QED
  BY <1>1, <1>2, <1>3, <1>4, <1>5, <1>6, PlainStep, RememberStep

LEMMA RememberIInv ==
    ASSUME IInv, NEW c \in Calls, Remember(c)
    PROVE  IInv'
<1> DEFINE k == calls[c]
<1>1. /\ k \in CallRecord /\ Plain(k.todo, k) /\ ~Writing(k) /\ k.todo # << >> /\ Head(k.todo) = "remember"
  BY AtStage DEF Remember
<1>2. k.op # "block" /\ k.repo \in MaybeRepo
  BY <1>1, NotBlock DEF CallRecord
<1>3. Plain(Tail(k.todo), k)
  BY <1>1, PlainTail
<1>4. UNCHANGED <<mix, file, screen>> /\ line' \in MaybeRepo
  BY Known DEF Remember
<1>5. LET next == Remembering(k, ReadPrefs, k.repo, Tail(k.todo)) IN Continue(c, next, next.todo)
  BY DEF Remember
<1> QED
  BY <1>1, <1>2, <1>3, <1>4, <1>5, RememberStep

LEMMA ReadIInv ==
    ASSUME IInv, NEW c \in Calls, Read(c)
    PROVE  IInv'
<1> DEFINE k == calls[c]
           kk == [k EXCEPT !.seen = ReadPrefs]
<1>1. /\ k \in CallRecord /\ Plain(k.todo, k) /\ ~Writing(k) /\ k.todo # << >> /\ Head(k.todo) = "read"
      /\ Seated(k, panels, active)
  BY AtStage DEF Read
<1>2. k.op # "block"
  BY <1>1, NotBlock
<1>3. kk \in CallRecord /\ kk.op = k.op /\ kk.repo = k.repo /\ kk.panel = k.panel
  BY <1>1, Known DEF CallRecord
<1>5. Continue(c, kk, Tail(k.todo)) /\ UNCHANGED <<mix, file, screen>> /\ line' \in MaybeRepo
  BY Known DEF Read
<1> HIDE DEF kk
<1>4. Plain(Tail(k.todo), kk)
  BY <1>1, <1>3, PlainTail
<1>6. Seated([kk EXCEPT !.todo = Tail(k.todo)], panels, active)
  BY <1>1, <1>2, <1>3, SeatedSame, SeatedTodo
<1> QED
  BY <1>1, <1>3, <1>4, <1>5, <1>6, PlainStep

\* The choice is written as soon as it is made: nothing of it is still to be read.
LEMMA ChooseIInv ==
    ASSUME IInv, NEW c \in Calls, Choose(c)
    PROVE  IInv'
<1> DEFINE k == calls[c]
           pinned == CASE k.op \in {"pin", "repin"} -> k.repo
                       [] k.op = "unpin" -> NoRepo
                       [] OTHER -> k.seen.pinned
           w == [k.seen EXCEPT !.mode = k.mode, !.pinned = pinned]
           kk == [k EXCEPT !.want = w, !.seen = Defaults]
           rest == Tail(k.todo)
           t == <<"truncate", "fill">> \o rest
           q == [kk EXCEPT !.todo = t]
<1>1. /\ k \in CallRecord /\ Plain(k.todo, k) /\ ~Writing(k) /\ k.todo # << >> /\ Head(k.todo) = "choose"
      /\ k.todo[1] = "choose" /\ 1 \in DOMAIN k.todo
      /\ Seated(k, panels, active)
  BY AtStage DEF Choose
<1>2. k.op # "block"
  BY <1>1, NotBlock
<1>3. k.op \in Choosers /\ \A j \in DOMAIN k.todo : 1 < j => k.todo[j] \notin {"choose", "read"}
  BY <1>1 DEF Plain
<1>4. \A j \in DOMAIN rest : rest[j] \notin {"choose", "read"}
  <2>1. k.todo \in Seq(Stage)
    BY <1>1 DEF CallRecord
  <2>2. \A j \in DOMAIN rest : j + 1 \in DOMAIN k.todo /\ rest[j] = k.todo[j + 1] /\ j \in Nat \ {0}
    BY <1>1, <2>1
  <2>3. \A j \in DOMAIN rest : 1 < j + 1
    BY <2>2
  <2> QED
    BY <1>3, <2>2, <2>3
<1>5. pinned \in MaybeRepo
  <2>1. k.repo \in MaybeRepo /\ k.seen.pinned \in MaybeRepo
    BY <1>1 DEF CallRecord, Prefs, MaybeRepo
  <2> QED
    BY <2>1 DEF MaybeRepo
<1>6. UNCHANGED <<mix, file, screen>> /\ line' \in MaybeRepo /\ Continue(c, kk, t)
  BY Known DEF Choose
<1> HIDE DEF pinned
<1>7. w \in Prefs /\ w.mode = k.mode
  BY <1>1, <1>5 DEF CallRecord, Prefs, MaybeRepo
<1> HIDE DEF w
<1>8. /\ kk \in CallRecord /\ kk.op = k.op /\ kk.repo = k.repo /\ kk.panel = k.panel
      /\ kk.want = w /\ kk.mode = k.mode
  BY <1>1, <1>7, DefaultsType DEF CallRecord
<1> HIDE DEF kk
<1>9. Plain(rest, kk)
  BY <1>1, <1>8, PlainTail
<1> HIDE DEF k, rest
<1>10. /\ t # << >> /\ CallFits(q)
       /\ \A i \in DOMAIN t : t[i] \in {"truncate", "fill"} \/ \E j \in DOMAIN rest : t[i] = rest[j]
  BY <1>2, <1>8, <1>9, WriteFits
<1> HIDE DEF t
<1>11. /\ q.todo = t /\ q.op = k.op /\ q.want.mode = q.mode /\ q.panel = k.panel
  BY <1>7, <1>8, <1>10 DEF CallFits, CallRecord
<1>12. calls' = [calls EXCEPT ![c] = q]
  BY <1>6, <1>10, ContinuedIs DEF Continued
<1> HIDE DEF q
<1>13. ChoosingCall(q)
  BY <1>3, <1>4, <1>10, <1>11 DEF ChoosingCall
<1>14. Seated(q, panels, active)
  BY <1>1, <1>2, <1>11, SeatedSame
<1> QED
  BY <1>1, <1>6, <1>10, <1>12, <1>13, <1>14, ReplacedQuietly DEF k

-----------------------------------------------------------------------------
(* A call starts                                                            *)

LEMMA StartIInv ==
    ASSUME IInv, NEW op \in Op \ {"idle"}, NEW k \in CallRecord, Start(op, k),
           op = "statusOf" => k.repo \in Repos,
           UNCHANGED <<mix, file, screen, line>>,
           k.panel \in {0, active}, op \in {"switch", "block"} => k.panel # 0,
           op = "block" /\ panels[k.panel].crossed = FALSE => k.shown = panels[k.panel].repo
    PROVE  IInv'
<1> DEFINE kk == [k EXCEPT !.op = op]
           q == [k EXCEPT !.op = op, !.todo = Script[op]]
<1>1. PICK c \in Calls : calls[c].todo = << >> /\ calls' = [calls EXCEPT ![c] = q]
  BY DEF Start
<1>2. kk \in CallRecord /\ kk.op = op /\ kk.repo = k.repo /\ kk.panel = k.panel /\ kk.shown = k.shown
  BY DEF CallRecord
<1>3. Plain(Script[op], kk) /\ Script[op] # << >>
  BY <1>2, ScriptPlain
<1>4. q = [kk EXCEPT !.todo = Script[op]]
  BY DEF CallRecord
<1> HIDE DEF kk
<1>5. CallFits(q) /\ ~Writing(q)
  BY <1>2, <1>3, <1>4, PlainFits
<1>6. q.op = op /\ q.repo = k.repo /\ q.panel = k.panel /\ q.shown = k.shown /\ q.todo = Script[op]
  BY <1>2, <1>3, <1>4 DEF CallRecord, Plain
<1> HIDE DEF q
<1>7. Script["block"] = <<"ask", "update", "detail", "dock", "render">>
  BY DEF Script
<1>8. op = "block" => Head(q.todo) = "ask"
  BY <1>6, <1>7
<1>9. Seated(q, panels, active)
  BY <1>6, <1>8, Known DEF Seated
<1>10. ~Writing(calls[c])
  BY <1>1 DEF Writing
<1> QED
  BY <1>1, <1>5, <1>9, <1>10, Known, ReplacedQuietly

LEMMA IdleRecord == Idle \in CallRecord /\ Idle.repo = NoRepo /\ Idle.panel = 0
  BY IdleFits DEF CallFits, Idle

LEMMA ToggleOpenIInv ==
    ASSUME IInv, ToggleOpen
    PROVE  IInv'
  BY IdleRecord, StartIInv DEF ToggleOpen, Op

LEMMA TurnIInv ==
    ASSUME IInv, Turn
    PROVE  IInv'
  BY IdleRecord, StartIInv DEF Turn, Op

LEMMA ToolCallIInv ==
    ASSUME IInv, ToolCall
    PROVE  IInv'
<1>1. PICK r \in Repos : Start("tool", [Idle EXCEPT !.repo = r]) /\ UNCHANGED <<mix, file, screen, line>>
  BY DEF ToolCall
<1>2. [Idle EXCEPT !.repo = r] \in CallRecord /\ [Idle EXCEPT !.repo = r].panel = 0
  BY IdleRecord DEF CallRecord, MaybeRepo
<1> QED
  BY <1>1, <1>2, StartIInv DEF Op

LEMMA ConfigKeyIInv ==
    ASSUME IInv, ConfigKey
    PROVE  IInv'
<1>1. UNCHANGED <<mix, file, screen, line>>
  BY DEF ConfigKey
<1>2. ASSUME NEW m \in Modes, Start("cycle", [Idle EXCEPT !.mode = m]) PROVE IInv'
  <2>1. [Idle EXCEPT !.mode = m] \in CallRecord /\ [Idle EXCEPT !.mode = m].panel = 0
    BY IdleRecord DEF CallRecord
  <2> QED
    BY <1>1, <1>2, <2>1, StartIInv DEF Op
<1>3. ASSUME Start("repin", [Idle EXCEPT !.mode = "pin"]) PROVE IInv'
  <2>1. [Idle EXCEPT !.mode = "pin"] \in CallRecord /\ [Idle EXCEPT !.mode = "pin"].panel = 0
    BY IdleRecord DEF CallRecord, Modes
  <2> QED
    BY <1>1, <1>3, <2>1, StartIInv DEF Op
<1>4. ASSUME Start("unpin", Idle) PROVE IInv'
  BY <1>1, <1>4, IdleRecord, StartIInv DEF Op
<1> QED
  BY <1>2, <1>3, <1>4 DEF ConfigKey

LEMMA CommandIInv ==
    ASSUME IInv, Command
    PROVE  IInv'
<1>1. UNCHANGED <<mix, file, screen, line>>
  BY DEF Command
<1>2. ASSUME NEW op \in {"status", "show", "off", "auto"},
             Start(op, [Idle EXCEPT !.mode = IF op = "off" THEN "off" ELSE "auto"])
      PROVE  IInv'
  <2> DEFINE k == [Idle EXCEPT !.mode = IF op = "off" THEN "off" ELSE "auto"]
  <2>1. k \in CallRecord /\ k.panel = 0
    BY IdleRecord DEF CallRecord, Modes
  <2> HIDE DEF k
  <2>2. Start(op, k)
    BY <1>2 DEF k
  <2> QED
    BY <1>1, <2>1, <2>2, StartIInv DEF Op
<1>3. ASSUME NEW op \in {"statusOf", "pin"}, NEW r \in Repos,
             Start(op, [Idle EXCEPT !.repo = r, !.mode = "pin"])
      PROVE  IInv'
  <2> DEFINE k == [Idle EXCEPT !.repo = r, !.mode = "pin"]
  <2>1. k \in CallRecord /\ k.panel = 0 /\ k.repo = r
    BY IdleRecord DEF CallRecord, Modes, MaybeRepo
  <2> HIDE DEF k
  <2>2. Start(op, k)
    BY <1>3 DEF k
  <2> QED
    BY <1>1, <2>1, <2>2, StartIInv DEF Op
<1> QED
  BY <1>2, <1>3 DEF Command

LEMMA KeySwitchIInv ==
    ASSUME IInv, KeySwitch
    PROVE  IInv'
<1> DEFINE k == [Idle EXCEPT !.panel = keys]
<1>1. keys # 0 /\ keys = active /\ keys \in Nat /\ UNCHANGED <<mix, file, screen, line>> /\ Start("switch", k)
  BY Known DEF KeySwitch, Listening
<1>2. k \in CallRecord /\ k.panel = keys
  BY <1>1, IdleRecord DEF CallRecord
<1> HIDE DEF k
<1> QED
  BY <1>1, <1>2, StartIInv DEF Op

\* The task the panel shows is one of its own, so a block starts from the truth.
LEMMA EnterBlockIInv ==
    ASSUME IInv, EnterBlock
    PROVE  IInv'
<1> DEFINE k == [Idle EXCEPT !.panel = keys, !.shown = panels[keys].detail]
<1>1. /\ keys # 0 /\ keys = active /\ keys \in Nat /\ keys \in DOMAIN panels
      /\ UNCHANGED <<mix, file, screen, line>> /\ Start("block", k)
      /\ panels[keys].detail # NoRepo
  BY Known DEF EnterBlock, Listening
<1>2. panels[keys].detail \in MaybeRepo
  BY <1>1, Known DEF PanelRecord
<1>3. k \in CallRecord /\ k.panel = keys /\ k.shown = panels[keys].detail
  BY <1>1, <1>2, IdleRecord DEF CallRecord
<1>4. panels[keys].crossed = FALSE => panels[keys].detail = panels[keys].repo
  BY <1>1 DEF IInv, ScreenInv, ShowsOwn
<1> HIDE DEF k
<1> QED
  BY <1>1, <1>3, <1>4, StartIInv DEF Op

-----------------------------------------------------------------------------
(* Answers, and the steps of a block                                        *)

\* A block at a later stage than these says nothing of its panel any more.
LEMMA SeatedLate ==
    ASSUME NEW k \in CallRecord, NEW rest, NEW ps, NEW a, Seated(k, ps, a),
           Head(rest) \notin {"ask", "update", "detail"}
    PROVE  Seated([k EXCEPT !.todo = rest], ps, a)
<1> DEFINE q == [k EXCEPT !.todo = rest]
<1>1. q.op = k.op /\ q.panel = k.panel /\ q.todo = rest
  BY DEF CallRecord
<1> HIDE DEF q
<1>2. Seated(q, ps, a)
  BY <1>1 DEF Seated
<1> QED
  BY <1>2 DEF q

LEMMA BlockStages ==
    ASSUME NEW k, Plain(k.todo, k), k.op = "block", k.todo # << >>
    PROVE  /\ Head(k.todo) = "ask" => Tail(k.todo) # << >> /\ Head(Tail(k.todo)) = "update"
           /\ Head(k.todo) = "update" => Tail(k.todo) # << >> /\ Head(Tail(k.todo)) = "detail"
           /\ Head(k.todo) = "detail" => Tail(k.todo) # << >> /\ Head(Tail(k.todo)) = "dock"
           /\ Head(k.todo) = "dock" => k.todo = <<"dock", "render">>
           /\ Head(k.todo) = "paint" => k.todo = <<"paint", "render">>
           /\ Head(k.todo) = "render" => k.todo = <<"render">>
<1> DEFINE t == k.todo
<1>1. t \in BlockTodo
  BY DEF Plain
<1> HIDE DEF t
<1>2. CASE t = <<"ask", "update", "detail", "dock", "render">>
  BY <1>2 DEF t
<1>3. CASE t = <<"update", "detail", "dock", "render">>
  BY <1>3 DEF t
<1>4. CASE t = <<"detail", "dock", "render">>
  BY <1>4 DEF t
<1>5. CASE t = <<"dock", "render">>
  BY <1>5 DEF t
<1>6. CASE t = <<"paint", "render">>
  BY <1>6 DEF t
<1>7. CASE t = <<"render">>
  BY <1>7 DEF t
<1> QED
  BY <1>1, <1>2, <1>3, <1>4, <1>5, <1>6, <1>7 DEF BlockTodo

LEMMA AnswerIInv ==
    ASSUME IInv, NEW c \in Calls, Answer(c)
    PROVE  IInv'
<1> DEFINE k == calls[c]
           rest == Tail(k.todo)
<1>1. /\ k \in CallRecord /\ Plain(k.todo, k) /\ ~Writing(k) /\ k.todo # << >> /\ Head(k.todo) = "ask"
      /\ k.todo[1] = "ask" /\ 1 \in DOMAIN k.todo /\ Seated(k, panels, active)
  BY AtStage DEF Answer
<1>2. UNCHANGED <<mix, file, screen>> /\ line' \in MaybeRepo
  BY Known DEF Answer
<1>3. ASSUME k.op = "block", Continue(c, [k EXCEPT !.repo = panels[k.panel].repo], rest)
      PROVE  IInv'
  <2> DEFINE r == panels[k.panel].repo
             kk == [k EXCEPT !.repo = r]
  <2>1. k.panel \in DOMAIN panels /\ r \in MaybeRepo
    BY <1>1, <1>3, Known DEF Seated, PanelRecord, MaybeRepo
  <2>2. panels[k.panel].crossed = FALSE => k.shown = r
    BY <1>1, <1>3 DEF Seated
  <2> HIDE DEF r
  <2>3. /\ kk \in CallRecord /\ kk.op = k.op /\ kk.repo = r
    BY <1>1, <2>1 DEF CallRecord
  <2>4. Plain(rest, kk)
    BY <1>1, <1>3, <2>3, PlainTail DEF Openers
  <2>5. Head(rest) = "update"
    BY <1>1, <1>3, BlockStages
  <2> DEFINE q == [kk EXCEPT !.todo = rest]
  <2>6. q.op = k.op /\ q.panel = k.panel /\ q.shown = k.shown /\ q.repo = r /\ q.todo = rest
    BY <1>1, <2>1 DEF CallRecord
  <2> HIDE DEF q, rest, kk
  <2>7. Seated(q, panels, active)
    BY <1>1, <1>3, <2>2, <2>5, <2>6 DEF Seated
  <2> QED
    BY <1>1, <1>2, <1>3, <2>3, <2>4, <2>7, PlainStep DEF q, kk, r
<1>4. ASSUME k.op # "block", NEW r \in Repos, Continue(c, [k EXCEPT !.repo = r], rest)
      PROVE  IInv'
  <2> DEFINE kk == [k EXCEPT !.repo = r]
  <2>1. kk \in CallRecord /\ kk.op = k.op /\ kk.repo = r /\ kk.panel = k.panel
    BY <1>1 DEF CallRecord, MaybeRepo
  <2> HIDE DEF kk
  <2>2. Plain(rest, kk)
    BY <1>1, <2>1, PlainTail
  <2>3. Seated([kk EXCEPT !.todo = rest], panels, active)
    BY <1>1, <1>4, <2>1, SeatedSame, SeatedTodo
  <2> QED
    BY <1>1, <1>2, <1>4, <2>1, <2>2, <2>3, PlainStep DEF kk
<1>5. ASSUME Continue(c, k, << >>) PROVE IInv'
  <2>1. Plain(<< >>, k)
    BY EmptySeq DEF Plain
  <2> QED
    BY <1>1, <1>2, <1>5, <2>1, PlainStep
<1>6. ASSUME k.op = "repin", Continue(c, k, Tail(rest)) PROVE IInv'
  <2>1. Plain(rest, k)
    BY <1>1, <1>6, PlainTail DEF Openers
  <2>2. Plain(Tail(rest), k)
    <3>1. 1 # Len(k.todo) /\ k.todo \in Seq(Stage)
      BY <1>1 DEF Plain
    <3>2. rest # << >>
      BY <1>1, <3>1, TailLonger
    <3> QED
      BY <2>1, <1>6, <3>2, PlainTail DEF Openers
  <2>3. Seated([k EXCEPT !.todo = Tail(rest)], panels, active)
    BY <1>1, <1>6, SeatedTodo
  <2> QED
    BY <1>1, <1>2, <1>6, <2>2, <2>3, PlainStep
<1> QED
  BY <1>3, <1>4, <1>5, <1>6 DEF Answer

LEMMA UpdateIInv ==
    ASSUME IInv, NEW c \in Calls, Update(c)
    PROVE  IInv'
<1> DEFINE k == calls[c]
           rest == Tail(k.todo)
           r == panels[k.panel].repo
           kk == [k EXCEPT !.repo = r]
           q == [kk EXCEPT !.todo = rest]
<1>1. /\ k \in CallRecord /\ Plain(k.todo, k) /\ ~Writing(k) /\ k.todo # << >> /\ Head(k.todo) = "update"
      /\ k.todo[1] = "update" /\ 1 \in DOMAIN k.todo /\ Seated(k, panels, active)
  BY AtStage DEF Update
<1>2. UNCHANGED <<mix, file, screen>> /\ line' \in MaybeRepo /\ Continue(c, kk, rest)
  BY Known DEF Update
<1>3. k.op = "block"
  BY <1>1 DEF Plain
<1>4. k.panel \in DOMAIN panels /\ r \in MaybeRepo
  BY <1>1, <1>3, Known DEF Seated, PanelRecord, MaybeRepo
<1>5. kk \in CallRecord /\ kk.op = k.op
  BY <1>1, <1>4 DEF CallRecord
<1>6. Plain(rest, kk)
  BY <1>1, <1>3, <1>5, PlainTail DEF Openers
<1>7. Head(rest) = "detail"
  BY <1>1, <1>3, BlockStages
<1>8. q.op = k.op /\ q.panel = k.panel /\ q.repo = panels[k.panel].repo /\ q.todo = rest
  BY <1>1, <1>4 DEF CallRecord
<1> HIDE DEF q, rest, kk
<1>9. Seated(q, panels, active)
  BY <1>1, <1>3, <1>7, <1>8 DEF Seated
<1> QED
  BY <1>1, <1>2, <1>5, <1>6, <1>9, PlainStep DEF q

-----------------------------------------------------------------------------
(* The dock                                                                 *)

\* A refresh has its second half before the rest.
LEMMA PaintPlain ==
    ASSUME NEW k, Plain(k.todo, k), k.todo # << >>, Head(k.todo) = "dock"
    PROVE  /\ Plain(<<"paint">> \o Tail(k.todo), k)
           /\ <<"paint">> \o Tail(k.todo) # << >> /\ Head(<<"paint">> \o Tail(k.todo)) = "paint"
<1> DEFINE r == Tail(k.todo)
           a == <<"paint">>
           t == a \o r
<1>1. Plain(r, k) /\ r \in Seq(Stage)
  BY PlainTail DEF Plain
<1>2. \A i \in DOMAIN r : r[i] \in {"open", "load"} => k.repo \in Repos
  <2>1. k.todo \in Seq(Stage) /\ k.todo[1] = "dock"
    BY PlainHead DEF Plain
  <2>2. \A i \in DOMAIN r : i + 1 \in DOMAIN k.todo /\ r[i] = k.todo[i + 1]
    BY <2>1
  <2> QED
    BY <2>1, <2>2 DEF Plain
<1>3. ASSUME k.op = "block" PROVE r = <<"render">>
  <2>1. k.todo = <<"dock", "render">>
    BY <1>3, BlockStages
  <2> QED
    BY <2>1
<1> HIDE DEF r
<1>5. a \in Seq(Stage) /\ Len(a) = 1 /\ a[1] = "paint"
  BY DEF Stage
<1>6. Len(r) \in Nat
  BY <1>1, LenProperties
<1> HIDE DEF a
<1>7. /\ t \in Seq(Stage) /\ Len(t) = 1 + Len(r)
      /\ \A i \in 1 .. 1 + Len(r) : t[i] = IF i <= 1 THEN a[i] ELSE r[i - 1]
  <2>1. /\ t \in Seq(Stage) /\ Len(t) = Len(a) + Len(r)
        /\ \A i \in 1 .. Len(a) + Len(r) : t[i] = IF i <= Len(a) THEN a[i] ELSE r[i - Len(a)]
    BY <1>1, <1>5, ConcatProperties
  <2> QED
    BY <1>5, <2>1
<1> HIDE DEF t
<1>8. t[1] = "paint" /\ \A i \in DOMAIN t \ {1} : i - 1 \in DOMAIN r /\ t[i] = r[i - 1] /\ i \in Nat \ {0}
  BY <1>1, <1>5, <1>6, <1>7
<1>4. ASSUME k.op = "block" PROVE t \in BlockTodo
  <2> DEFINE u == <<"paint", "render">>
  <2>1. Len(r) = 1 /\ r[1] = "render"
    BY <1>3, <1>4
  <2>2. Len(t) = 2 /\ t[1] = "paint" /\ t[2] = "render"
    BY <1>7, <1>8, <2>1
  <2>3. u \in Seq(Stage) /\ Len(u) = 2 /\ u[1] = "paint" /\ u[2] = "render"
    BY DEF Stage
  <2>4. \A i \in 1 .. 2 : i = 1 \/ i = 2
    OBVIOUS
  <2> HIDE DEF u
  <2>5. t = u
    BY <1>7, <2>2, <2>3, <2>4, SeqEqual
  <2> QED
    BY <2>5 DEF u, BlockTodo
<1>9. t # << >> /\ Head(t) = "paint"
  BY <1>6, <1>7, <1>8
<1>10. ASSUME NEW i \in DOMAIN t
       PROVE  /\ t[i] \notin {"truncate", "fill"}
              /\ t[i] = "render" => k.op \in {"switch", "block"}
              /\ t[i] \in {"update", "detail"} => k.op = "block"
              /\ t[i] = "ask" => i # Len(t)
              /\ t[i] = "open" => k.op \in Openers
              /\ t[i] = "load" => k.op = "switch"
              /\ t[i] \in {"open", "load"} => k.repo \in Repos
              /\ t[i] = "choose" =>
                    k.op \in Choosers /\ \A j \in DOMAIN t : i < j => t[j] \notin {"choose", "read"}
  <2>1. CASE i = 1
    BY <1>8, <2>1
  <2>2. CASE i # 1
    <3>1. i - 1 \in DOMAIN r /\ t[i] = r[i - 1] /\ i \in Nat \ {0}
      BY <1>8, <2>2
    <3>2. /\ r[i - 1] \notin {"truncate", "fill"}
          /\ r[i - 1] = "render" => k.op \in {"switch", "block"}
          /\ r[i - 1] \in {"update", "detail"} => k.op = "block"
          /\ r[i - 1] = "ask" => i - 1 # Len(r)
          /\ r[i - 1] = "open" => k.op \in Openers
          /\ r[i - 1] = "load" => k.op = "switch"
          /\ r[i - 1] = "choose" =>
                k.op \in Choosers /\ \A j \in DOMAIN r : i - 1 < j => r[j] \notin {"choose", "read"}
      BY <1>1, <3>1 DEF Plain
    <3>3. i - 1 # Len(r) => i # Len(t)
      BY <1>6, <1>7, <3>1
    <3>4. ASSUME r[i - 1] = "choose"
          PROVE  \A j \in DOMAIN t : i < j => t[j] \notin {"choose", "read"}
      <4> SUFFICES ASSUME NEW j \in DOMAIN t, i < j PROVE t[j] \notin {"choose", "read"}
        OBVIOUS
      <4>1. j # 1 /\ j - 1 \in DOMAIN r /\ t[j] = r[j - 1] /\ i - 1 < j - 1
        BY <1>6, <1>7, <1>8, <3>1
      <4> QED
        BY <3>2, <3>4, <4>1
    <3> QED
      BY <1>2, <3>1, <3>2, <3>3, <3>4
  <2> QED
    BY <2>1, <2>2
<1>11. Plain(t, k)
  BY <1>4, <1>7, <1>10 DEF Plain
<1> QED
  BY <1>9, <1>11 DEF t, a, r

LEMMA DockIInv ==
    ASSUME IInv, NEW c \in Calls, Dock(c)
    PROVE  IInv'
<1> DEFINE k == calls[c]
           rest == Tail(k.todo)
<1>1. /\ k \in CallRecord /\ Plain(k.todo, k) /\ ~Writing(k) /\ k.todo # << >> /\ Head(k.todo) = "dock"
      /\ Seated(k, panels, active)
  BY AtStage DEF Dock
<1>2. UNCHANGED <<mix, file, screen>> /\ line' \in MaybeRepo
  BY Known DEF Dock, MaybeRepo
<1>3. Continue(c, k, rest) \/ Continue(c, k, <<"paint">> \o rest)
  BY DEF Dock
<1>4. Plain(rest, k)
  BY <1>1, PlainTail
<1>5. rest # << >> => Seated([k EXCEPT !.todo = rest], panels, active)
  <2>1. CASE k.op = "block"
    <3>1. k.todo = <<"dock", "render">>
      BY <1>1, <2>1, BlockStages
    <3>2. Head(rest) = "render"
      BY <3>1
    <3> QED
      BY <1>1, <3>2, SeatedLate
  <2>2. CASE k.op # "block"
    BY <1>1, <2>2, SeatedTodo
  <2> QED
    BY <2>1, <2>2
<1>6. Plain(<<"paint">> \o rest, k) /\ Seated([k EXCEPT !.todo = <<"paint">> \o rest], panels, active)
  BY <1>1, PaintPlain, SeatedLate
<1> QED
  BY <1>1, <1>2, <1>3, <1>4, <1>5, <1>6, PlainStep

\* A call goes on, alone or after it changed the screen: what it sees, and the others.
LEMMA ScreenStep ==
    ASSUME IInv, NEW c \in Calls, NEW k \in CallRecord, NEW rest, Plain(rest, k), ~Writing(calls[c]),
           Continue(c, k, rest), mix' = mix, UNCHANGED file,
           line' \in MaybeRepo, config' \in {"closed", "open", "stray"}, panels' \in Seq(PanelRecord),
           active' \in 0 .. Len(panels'), local' \in 0 .. Len(panels'), painted' \in 0 .. Len(panels'),
           \A d \in Calls \ {c} : Seated(calls[d], panels', active'),
           rest # << >> => Seated([k EXCEPT !.todo = rest], panels', active'),
           ShowsOwn(panels'), PanelCoherent'
    PROVE  IInv'
<1> DEFINE q == Continued(k, rest)
<1>1. CallFits(q) /\ ~Writing(q)
  BY PlainFits
<1>2. calls' = [calls EXCEPT ![c] = q]
  BY ContinuedIs
<1>3. Seated(q, panels', active')
  BY SeatedIdle DEF Continued
<1> HIDE DEF q
<1>4. Calling' /\ Alone' /\ calls'[c] = q /\ \A d \in Calls \ {c} : calls'[d] = calls[d]
  BY <1>1, <1>2, Replaced
<1>5. \A d \in Calls : Seated(calls'[d], panels', active')
  BY <1>3, <1>4
<1> QED
  BY <1>4, <1>5, Assemble

LEMMA PaintIInv ==
    ASSUME IInv, NEW c \in Calls, Paint(c)
    PROVE  IInv'
<1> DEFINE k == calls[c]
           rest == Tail(k.todo)
<1>1. /\ k \in CallRecord /\ Plain(k.todo, k) /\ ~Writing(k) /\ k.todo # << >> /\ Head(k.todo) = "paint"
      /\ Seated(k, panels, active)
  BY AtStage DEF Paint
<1>2. /\ mix' = mix /\ UNCHANGED file /\ panels' = panels /\ active' = active /\ keys' = keys
      /\ local' = local /\ config' = config /\ line' \in {NoRepo, k.repo} /\ Continue(c, k, rest)
      /\ painted' \in {active, painted}
  BY DEF Paint
<1>3. Plain(rest, k)
  BY <1>1, PlainTail
<1>4. rest # << >> => Seated([k EXCEPT !.todo = rest], panels, active)
  <2>1. CASE k.op = "block"
    <3>1. k.todo = <<"paint", "render">>
      BY <1>1, <2>1, BlockStages
    <3>2. Head(rest) = "render"
      BY <3>1
    <3> QED
      BY <1>1, <3>2, SeatedLate
  <2>2. CASE k.op # "block"
    BY <1>1, <2>2, SeatedTodo
  <2> QED
    BY <2>1, <2>2
<1>5. line' \in MaybeRepo /\ config' \in {"closed", "open", "stray"}
  BY <1>1, <1>2 DEF IInv, TypeOK, CallRecord, MaybeRepo
<1>6. painted' \in 0 .. Len(panels) /\ painted' \in {active, painted}
  BY <1>2, Known
<1>7. ShowsOwn(panels') /\ PanelCoherent'
  BY <1>2, <1>6 DEF IInv, ScreenInv, PanelCoherent
<1> HIDE DEF k, rest
<1> QED
  BY <1>1, <1>2, <1>3, <1>4, <1>5, <1>6, <1>7, Known, ScreenStep DEF k

-----------------------------------------------------------------------------
(* Panels that come and go                                                  *)

\* When the active panel loses the screen, to whichever panel, every call stays
\* seated: the panel is marked for the calls that still want it.
LEMMA LeaveSeated ==
    ASSUME IInv
    PROVE  /\ \A d \in Calls : \A b : Seated(calls[d], Leave, b)
           /\ ShowsOwn(Leave) /\ Leave \in Seq(PanelRecord) /\ Len(Leave) = Len(panels)
<1>1. panels \in Seq(PanelRecord) /\ DOMAIN panels = 1 .. Len(panels) /\ active \in 0 .. Len(panels)
      /\ Len(panels) \in Nat
  BY Known
<1>2. /\ Grows(panels, Leave) /\ Len(Leave) = Len(panels) /\ Leave \in Seq(PanelRecord)
      /\ \A p \in DOMAIN panels : /\ Leave[p].detail = panels[p].detail
                                  /\ Leave[p].crossed = panels[p].crossed
                                  /\ Leave[p].repo = panels[p].repo
      /\ \A c \in Calls : calls[c].panel = active /\ active \in DOMAIN panels => Leave[active].late = TRUE
  BY <1>1, LeaveGrows
<1> HIDE DEF Leave
<1>3. ASSUME NEW d \in Calls, NEW b PROVE Seated(calls[d], Leave, b)
  <2>1. Seated(calls[d], panels, active)
    BY Known
  <2>2. calls[d].panel = active /\ active # 0 => Leave[active].late = TRUE
    BY <1>1, <1>2
  <2> QED
    BY <1>2, <2>1, <2>2, SeatedGrows
<1>4. ShowsOwn(Leave)
  <2>1. DOMAIN Leave = DOMAIN panels
    BY <1>1, <1>2
  <2> QED
    BY <1>2, <2>1 DEF IInv, ScreenInv, ShowsOwn
<1> QED
  BY <1>2, <1>3, <1>4

LEMMA ClearIInv ==
    ASSUME IInv, NEW c \in Calls, Clear(c)
    PROVE  IInv'
<1> DEFINE k == calls[c]
           rest == Tail(k.todo)
<1>1. /\ k \in CallRecord /\ Plain(k.todo, k) /\ ~Writing(k) /\ k.todo # << >> /\ Head(k.todo) = "clear"
  BY AtStage DEF Clear
<1>2. /\ mix' = mix /\ UNCHANGED file /\ panels' = Leave /\ active' = 0 /\ keys' = 0 /\ painted' = 0
      /\ local' = local /\ config' = config /\ line' = NoRepo /\ Continue(c, k, rest)
  BY DEF Clear
<1>3. Plain(rest, k) /\ k.op # "block"
  BY <1>1, PlainTail, NotBlock
<1>4. /\ \A d \in Calls : Seated(calls[d], Leave, 0)
      /\ ShowsOwn(Leave) /\ Leave \in Seq(PanelRecord) /\ Len(Leave) = Len(panels)
  BY LeaveSeated
<1> HIDE DEF Leave
<1>5. Seated([k EXCEPT !.todo = rest], Leave, 0)
  BY <1>1, <1>3, <1>4, SeatedTodo
<1>6. line' \in MaybeRepo /\ config' \in {"closed", "open", "stray"}
  BY <1>2 DEF IInv, TypeOK, MaybeRepo
<1>7. PanelCoherent'
  BY <1>2 DEF PanelCoherent
<1>8. 0 \in 0 .. Len(panels) /\ local \in 0 .. Len(panels)
  BY Known
<1> HIDE DEF k, rest
<1> QED
  BY <1>1, <1>2, <1>3, <1>4, <1>5, <1>6, <1>7, <1>8, ScreenStep DEF k

LEMMA OpenIInv ==
    ASSUME IInv, NEW c \in Calls, Open(c)
    PROVE  IInv'
<1> DEFINE k == calls[c]
           rest == Tail(k.todo)
<1>1. /\ k \in CallRecord /\ Plain(k.todo, k) /\ ~Writing(k) /\ k.todo # << >> /\ Head(k.todo) = "open"
      /\ k.todo[1] = "open" /\ 1 \in DOMAIN k.todo
  BY AtStage DEF Open
<1>2. k.repo \in Repos
  BY <1>1 DEF Plain
<1>3. Plain(rest, k) /\ k.op # "block"
  BY <1>1, PlainTail, NotBlock
<1>4. PICK animated \in BOOLEAN :
        panels' = Append(Leave, [repo |-> k.repo, tab |-> 1, detail |-> NoRepo,
                                 timer |-> animated, byKey |-> k.op = "altw",
                                 late |-> FALSE, crossed |-> FALSE])
  BY DEF Open
<1>5. PICK byKey \in BOOLEAN : byKey = (k.op = "altw")
  OBVIOUS
<1> DEFINE e == [repo |-> k.repo, tab |-> 1, detail |-> NoRepo, timer |-> animated, byKey |-> byKey,
                 late |-> FALSE, crossed |-> FALSE]
<1>6. panels' = Append(Leave, e)
  BY <1>4, <1>5
<1>7. e \in PanelRecord /\ e.detail = NoRepo
  <2>1. 1 \in DOMAIN Sections
    BY PanelAssumption
  <2> QED
    BY <1>2, <2>1 DEF PanelRecord, MaybeRepo
<1> HIDE DEF e
<1>8. /\ \A d \in Calls : \A b : Seated(calls[d], Leave, b)
      /\ ShowsOwn(Leave) /\ Leave \in Seq(PanelRecord) /\ Len(Leave) = Len(panels) /\ Len(panels) \in Nat
  BY LeaveSeated, Known
<1> HIDE DEF Leave
<1>9. /\ panels' \in Seq(PanelRecord) /\ Len(panels') = Len(panels) + 1
      /\ \A i \in 1 .. Len(panels) : panels'[i] = Leave[i]
      /\ panels'[Len(panels) + 1] = e
  BY <1>6, <1>7, <1>8, AppendProperties
<1>10. Grows(Leave, panels')
  BY <1>8, <1>9 DEF Grows
<1>11. \A d \in Calls : Seated(calls[d], panels', active')
  BY <1>8, <1>10, SeatedGrows
<1>12. Seated([k EXCEPT !.todo = rest], panels', active')
  BY <1>1, <1>3, <1>11, SeatedTodo
<1>13. /\ mix' = mix /\ UNCHANGED file /\ line' = line /\ Continue(c, k, rest)
       /\ active' = Len(panels') /\ keys' = Len(panels') /\ painted' = Len(panels')
       /\ local' \in {Len(panels'), local} /\ config' \in {config, "closed"}
  BY DEF Open
<1>14. ShowsOwn(panels')
  <2>1. \A p \in DOMAIN panels' : p = Len(panels) + 1 \/ (p \in DOMAIN Leave /\ panels'[p] = Leave[p])
    BY <1>8, <1>9
  <2> QED
    BY <1>7, <1>8, <1>9, <2>1 DEF ShowsOwn
<1>15. PanelCoherent'
  BY <1>13 DEF PanelCoherent
<1>16. line' \in MaybeRepo /\ config' \in {"closed", "open", "stray"}
  BY <1>13 DEF IInv, TypeOK, MaybeRepo
<1>17. Len(panels') \in 0 .. Len(panels') /\ local \in 0 .. Len(panels')
  BY <1>8, <1>9, Known
<1> HIDE DEF k, rest
<1> QED
  BY <1>1, <1>3, <1>9, <1>11, <1>12, <1>13, <1>14, <1>15, <1>16, <1>17, ScreenStep DEF k

LEMMA CloseStep ==
    ASSUME IInv, NEW p \in DOMAIN panels, Close(p), UNCHANGED <<mix, file, config, line, calls>>
    PROVE  IInv'
<1> DEFINE closed == [Leave EXCEPT ![p].timer = FALSE]
<1>1. panels \in Seq(PanelRecord) /\ DOMAIN panels = 1 .. Len(panels) /\ active \in 0 .. Len(panels)
      /\ Len(panels) \in Nat /\ local \in 0 .. Len(panels)
  BY Known
<1>2. /\ Grows(panels, closed) /\ Len(closed) = Len(panels) /\ closed \in Seq(PanelRecord)
      /\ \A x \in DOMAIN panels : /\ closed[x].detail = panels[x].detail
                                  /\ closed[x].crossed = panels[x].crossed
                                  /\ closed[x].repo = panels[x].repo
      /\ \A c \in Calls : calls[c].panel = active /\ active \in DOMAIN panels => closed[active].late = TRUE
  BY <1>1, CloseGrows
<1>3. /\ panels' = closed /\ keys' = 0 /\ active' = 0 /\ painted' = 0 /\ local' \in {0, local}
  BY DEF Close
<1> HIDE DEF closed
<1>4. Calling' /\ Alone' /\ line' \in MaybeRepo /\ UNCHANGED file /\ mix' = mix /\ calls' = calls
  BY CallsKept
<1>5. \A d \in Calls : Seated(calls'[d], panels', active')
  <2> SUFFICES ASSUME NEW d \in Calls PROVE Seated(calls[d], closed, 0)
    BY <1>3, <1>4
  <2>1. Seated(calls[d], panels, active)
    BY Known
  <2>2. calls[d].panel = active /\ active # 0 => closed[active].late = TRUE
    BY <1>1, <1>2
  <2> QED
    BY <1>2, <2>1, <2>2, SeatedGrows
<1>6. ShowsOwn(panels')
  <2>1. DOMAIN closed = DOMAIN panels
    BY <1>1, <1>2
  <2> QED
    BY <1>2, <1>3, <2>1 DEF IInv, ScreenInv, ShowsOwn
<1>7. PanelCoherent'
  BY <1>3 DEF PanelCoherent
<1>8. config' \in {"closed", "open", "stray"}
  BY DEF IInv, TypeOK
<1>9. active' \in 0 .. Len(panels') /\ local' \in 0 .. Len(panels') /\ painted' \in 0 .. Len(panels')
      /\ panels' \in Seq(PanelRecord)
  BY <1>1, <1>2, <1>3
<1> QED
  BY <1>4, <1>5, <1>6, <1>7, <1>8, <1>9, Assemble

-----------------------------------------------------------------------------
(* Panels that change                                                       *)

\* One panel changes its tab or the task it shows; the screen stays or turns to it.
LEMMA Edited ==
    ASSUME IInv, NEW p \in DOMAIN panels, NEW e \in PanelRecord, panels' = [panels EXCEPT ![p] = e],
           e.repo = panels[p].repo, e.late = panels[p].late, e.crossed = panels[p].crossed,
           e.timer = panels[p].timer, e.crossed = FALSE => e.detail \in {NoRepo, e.repo},
           active' = active, keys' = keys, painted' \in {painted, keys}
    PROVE  /\ panels' \in Seq(PanelRecord) /\ Len(panels') = Len(panels)
           /\ \A d \in Calls : Seated(calls[d], panels', active')
           /\ ShowsOwn(panels') /\ PanelCoherent'
<1>1. /\ panels \in Seq(PanelRecord) /\ DOMAIN panels = 1 .. Len(panels) /\ Len(panels) \in Nat
      /\ active \in 0 .. Len(panels) /\ painted \in 0 .. Len(panels) /\ keys = active
  BY Known
<1>2. /\ panels' \in Seq(PanelRecord) /\ Len(panels') = Len(panels)
      /\ \A j \in 1 .. Len(panels) : panels'[j] = IF j = p THEN e ELSE panels[j]
  BY <1>1, ExceptSeq
<1>3. Grows(panels, panels')
  BY <1>1, <1>2 DEF Grows
<1>4. \A d \in Calls : Seated(calls[d], panels', active')
  BY <1>3, Known, SeatedGrows
<1>5. DOMAIN panels' = DOMAIN panels
  BY <1>1, <1>2
<1>6. ShowsOwn(panels')
  BY <1>1, <1>2, <1>5 DEF IInv, ScreenInv, ShowsOwn
<1>7. PanelCoherent'
  <2>1. PanelCoherent
    BY DEF IInv, ScreenInv
  <2>2. keys' = active' /\ (active' # 0 => painted' # 0)
    BY <1>1, <2>1 DEF PanelCoherent
  <2>3. ASSUME painted' \notin {0, active'} PROVE panels'[painted'].timer \/ panels'[painted'].late
    <3>1. painted' = painted /\ painted \in 1 .. Len(panels) /\ painted \notin {0, active}
      BY <1>1, <2>3
    <3>2. panels[painted].timer \/ panels[painted].late
      BY <2>1, <3>1 DEF PanelCoherent
    <3>3. panels'[painted].timer = panels[painted].timer /\ panels'[painted].late = panels[painted].late
      BY <1>2, <3>1
    <3> QED
      BY <3>1, <3>2, <3>3
  <2> QED
    BY <2>2, <2>3 DEF PanelCoherent
<1> QED
  BY <1>2, <1>4, <1>6, <1>7

\* A key that edits the listening panel.
LEMMA EditStep ==
    ASSUME IInv, NEW e \in PanelRecord, keys # 0, panels' = [panels EXCEPT ![keys] = e],
           e.repo = panels[keys].repo, e.late = panels[keys].late, e.crossed = panels[keys].crossed,
           e.timer = panels[keys].timer, e.detail \in {NoRepo, e.repo},
           UNCHANGED <<mix, file, active, keys, local, config, line, calls>>, painted' = keys
    PROVE  IInv'
<1>1. keys \in DOMAIN panels /\ keys \in 0 .. Len(panels)
  BY Known
<1>2. /\ panels' \in Seq(PanelRecord) /\ Len(panels') = Len(panels)
      /\ \A d \in Calls : Seated(calls[d], panels', active')
      /\ ShowsOwn(panels') /\ PanelCoherent'
  BY <1>1, Edited
<1>3. Calling' /\ Alone' /\ line' \in MaybeRepo /\ UNCHANGED file /\ mix' = mix /\ calls' = calls
  BY CallsKept
<1>4. /\ active' \in 0 .. Len(panels') /\ local' \in 0 .. Len(panels') /\ painted' \in 0 .. Len(panels')
  BY <1>1, <1>2, Known
<1>5. config' \in {"closed", "open", "stray"}
  BY DEF IInv, TypeOK
<1> QED
  BY <1>2, <1>3, <1>4, <1>5, Assemble

LEMMA EscapeIInv ==
    ASSUME IInv, Escape
    PROVE  IInv'
<1>1. keys # 0 /\ keys \in DOMAIN panels /\ UNCHANGED <<mix, file, config, line, calls>>
  BY Known DEF Escape, Listening
<1>2. CASE Close(keys)
  BY <1>1, <1>2, CloseStep
<1>3. ASSUME panels' = [panels EXCEPT ![keys].detail = NoRepo], painted' = keys,
             UNCHANGED <<active, keys, local>>
      PROVE  IInv'
  <2> DEFINE e == [panels[keys] EXCEPT !.detail = NoRepo]
  <2>1. panels' = [panels EXCEPT ![keys] = e]
    BY <1>3
  <2>2. /\ e \in PanelRecord /\ e.repo = panels[keys].repo /\ e.late = panels[keys].late
        /\ e.crossed = panels[keys].crossed /\ e.timer = panels[keys].timer /\ e.detail = NoRepo
    BY <1>1, Known DEF PanelRecord, MaybeRepo
  <2> HIDE DEF e
  <2> QED
    BY <1>1, <1>3, <2>1, <2>2, EditStep
<1> QED
  BY <1>2, <1>3 DEF Escape

LEMMA TabIInv ==
    ASSUME IInv, Tab
    PROVE  IInv'
<1>1. keys # 0 /\ keys \in DOMAIN panels /\ panels[keys] \in PanelRecord
  BY Known DEF Tab, Listening
<1> DEFINE tab == (panels[keys].tab % Len(Sections)) + 1
           e == [panels[keys] EXCEPT !.detail = NoRepo, !.tab = tab]
<1>2. panels' = [panels EXCEPT ![keys] = e]
  BY DEF Tab
<1>3. tab \in DOMAIN Sections
  <2>1. PICK n \in Nat : n = Len(Sections) /\ n # 0 /\ DOMAIN Sections = 1 .. n
    BY PanelAssumption, LenProperties, EmptySeq
  <2>2. panels[keys].tab \in 1 .. n
    BY <1>1, <2>1 DEF PanelRecord
  <2>3. panels[keys].tab % n \in 0 .. n - 1
    BY <2>1, <2>2
  <2> QED
    BY <2>1, <2>3
<1> HIDE DEF tab
<1>4. /\ e \in PanelRecord /\ e.repo = panels[keys].repo /\ e.late = panels[keys].late
      /\ e.crossed = panels[keys].crossed /\ e.timer = panels[keys].timer /\ e.detail = NoRepo
  BY <1>1, <1>3 DEF PanelRecord, MaybeRepo
<1> HIDE DEF e
<1>5. UNCHANGED <<mix, file, active, keys, local, config, line, calls>> /\ painted' = keys
  BY DEF Tab
<1> QED
  BY <1>1, <1>2, <1>4, <1>5, EditStep

LEMMA EnterTaskIInv ==
    ASSUME IInv, EnterTask
    PROVE  IInv'
<1>1. keys # 0 /\ keys \in DOMAIN panels /\ panels[keys] \in PanelRecord
  BY Known DEF EnterTask, Listening
<1> DEFINE e == [panels[keys] EXCEPT !.detail = panels[keys].repo]
<1>2. panels' = [panels EXCEPT ![keys] = e]
  BY DEF EnterTask
<1>3. /\ e \in PanelRecord /\ e.repo = panels[keys].repo /\ e.late = panels[keys].late
      /\ e.crossed = panels[keys].crossed /\ e.timer = panels[keys].timer /\ e.detail = panels[keys].repo
  BY <1>1 DEF PanelRecord, MaybeRepo
<1> HIDE DEF e
<1>4. UNCHANGED <<mix, file, active, keys, local, config, line, calls>> /\ painted' = keys
  BY DEF EnterTask
<1> QED
  BY <1>1, <1>2, <1>3, <1>4, EditStep

LEMMA ToggleClosedIInv ==
    ASSUME IInv, ToggleClosed
    PROVE  IInv'
<1>1. local \in DOMAIN panels
  BY Known DEF ToggleClosed
<1> QED
  BY <1>1, CloseStep DEF ToggleClosed

LEMMA TickIInv ==
    ASSUME IInv, NEW p \in DOMAIN panels, Tick(p)
    PROVE  IInv'
<1>1. /\ panels' = panels /\ active' = active /\ keys' = keys /\ local' = local /\ config' = config
      /\ painted' = p /\ UNCHANGED <<mix, file, line, calls>> /\ panels[p].timer
  BY DEF Tick
<1>2. Calling' /\ Alone' /\ line' \in MaybeRepo /\ UNCHANGED file /\ mix' = mix /\ calls' = calls
  BY <1>1, CallsKept
<1>3. p \in 0 .. Len(panels) /\ p # 0
  BY Known
<1>4. PanelCoherent'
  BY <1>1, <1>3, Known DEF PanelCoherent
<1>5. ShowsOwn(panels') /\ config' \in {"closed", "open", "stray"}
  BY <1>1 DEF IInv, ScreenInv, TypeOK
<1> QED
  BY <1>1, <1>2, <1>3, <1>4, <1>5, Known, Assemble

-----------------------------------------------------------------------------
(* Requests that end                                                        *)

\* A switch turns its panel to another repository: a block under way there is marked.
LEMMA LoadIInv ==
    ASSUME IInv, NEW c \in Calls, Load(c)
    PROVE  IInv'
<1> DEFINE k == calls[c]
           rest == Tail(k.todo)
           p == calls[c].panel
<1>1. /\ k \in CallRecord /\ Plain(k.todo, k) /\ ~Writing(k) /\ k.todo # << >> /\ Head(k.todo) = "load"
      /\ k.todo[1] = "load" /\ 1 \in DOMAIN k.todo /\ Seated(k, panels, active)
  BY AtStage DEF Load
<1>2. k.op = "switch" /\ k.repo \in Repos
  BY <1>1 DEF Plain
<1>3. p \in DOMAIN panels /\ panels[p] \in PanelRecord
  BY <1>1, <1>2, Known DEF Seated
<1>4. Plain(rest, k)
  BY <1>1, PlainTail
<1>5. /\ mix' = mix /\ UNCHANGED file /\ active' = active /\ keys' = keys /\ local' = local
      /\ painted' = painted /\ config' = config /\ line' = line /\ Continue(c, k, rest)
      /\ panels' = [panels EXCEPT ![p].repo = k.repo, ![p].detail = NoRepo, ![p].crossed = @ \/ Crossing(p)]
  BY DEF Load, Loaded
<1>6. PICK b \in BOOLEAN : b = (panels[p].crossed \/ Crossing(p))
  OBVIOUS
<1> DEFINE e == [panels[p] EXCEPT !.repo = k.repo, !.detail = NoRepo, !.crossed = b]
<1>7. panels' = [panels EXCEPT ![p] = e]
  BY <1>5, <1>6
<1>8. /\ e \in PanelRecord /\ e.repo = k.repo /\ e.detail = NoRepo /\ e.crossed = b
      /\ e.late = panels[p].late /\ e.timer = panels[p].timer
  BY <1>2, <1>3 DEF PanelRecord, MaybeRepo
<1> HIDE DEF e
<1>9. /\ panels \in Seq(PanelRecord) /\ DOMAIN panels = 1 .. Len(panels) /\ Len(panels) \in Nat
      /\ active \in 0 .. Len(panels) /\ painted \in 0 .. Len(panels) /\ keys = active
      /\ local \in 0 .. Len(panels)
  BY Known
<1>10. /\ panels' \in Seq(PanelRecord) /\ Len(panels') = Len(panels)
       /\ \A j \in 1 .. Len(panels) : panels'[j] = IF j = p THEN e ELSE panels[j]
  BY <1>3, <1>7, <1>8, <1>9, ExceptSeq
<1>11. \A d \in Calls : calls[d].op = "block" /\ calls[d].panel = p => b = TRUE
  BY <1>6 DEF Crossing
<1> HIDE DEF p
<1>12. ASSUME NEW d \in Calls PROVE Seated(calls[d], panels', active')
  <2>1. Seated(calls[d], panels, active) /\ calls[d].panel \in 0 .. Len(panels)
    BY Known DEF Seated
  <2>2. calls[d].panel # 0 => calls[d].panel \in 1 .. Len(panels)
    BY <1>9, <2>1
  <2>3. CASE calls[d].panel # p
    <3>1. calls[d].panel # 0 => panels'[calls[d].panel] = panels[calls[d].panel]
      BY <1>10, <2>2, <2>3
    <3>2. calls[d].op = "block" => calls[d].panel # 0
      BY <2>1 DEF Seated
    <3> QED
      BY <1>5, <1>10, <2>1, <3>1, <3>2 DEF Seated
  <2>4. CASE calls[d].panel = p
    <3>1. p \in 1 .. Len(panels) /\ panels'[p] = e
      BY <1>3, <1>9, <1>10
    <3>2. p \notin {0, active'} => panels'[p].late = TRUE
      BY <1>5, <1>8, <2>1, <2>4, <3>1 DEF Seated
    <3>3. ~(calls[d].op = "block" /\ panels'[p].crossed = FALSE)
      BY <1>8, <1>11, <2>4, <3>1
    <3> QED
      BY <1>10, <2>1, <2>4, <3>1, <3>2, <3>3 DEF Seated
  <2> QED
    BY <2>3, <2>4
<1>13. Seated([k EXCEPT !.todo = rest], panels', active')
  BY <1>1, <1>2, <1>12, SeatedTodo
<1>14. ShowsOwn(panels')
  <2>1. DOMAIN panels' = DOMAIN panels
    BY <1>9, <1>10
  <2> QED
    BY <1>8, <1>9, <1>10, <2>1 DEF IInv, ScreenInv, ShowsOwn
<1>15. PanelCoherent'
  <2>1. PanelCoherent
    BY DEF IInv, ScreenInv
  <2>2. ASSUME painted \in 1 .. Len(panels)
        PROVE  panels'[painted].timer = panels[painted].timer /\ panels'[painted].late = panels[painted].late
    BY <1>8, <1>10, <2>2
  <2>3. painted \notin {0, active} => panels'[painted].timer \/ panels'[painted].late
    BY <1>9, <2>1, <2>2 DEF PanelCoherent
  <2> QED
    BY <1>5, <2>1, <2>3 DEF PanelCoherent
<1>16. line' \in MaybeRepo /\ config' \in {"closed", "open", "stray"}
  BY <1>5, Known DEF IInv, TypeOK
<1> HIDE DEF k, rest
<1> QED
  BY <1>1, <1>4, <1>5, <1>9, <1>10, <1>12, <1>13, <1>14, <1>15, <1>16, ScreenStep DEF k

\* The detail is read again in the repository the panel shows by then.
LEMMA DetailIInv ==
    ASSUME IInv, NEW c \in Calls, Detail(c)
    PROVE  IInv'
<1> DEFINE k == calls[c]
           rest == Tail(k.todo)
           p == calls[c].panel
           e == [panels[p] EXCEPT !.detail = k.repo]
           kk == [k EXCEPT !.repo = panels[p].repo]
           q == [kk EXCEPT !.todo = rest]
<1>1. /\ k \in CallRecord /\ Plain(k.todo, k) /\ ~Writing(k) /\ k.todo # << >> /\ Head(k.todo) = "detail"
      /\ k.todo[1] = "detail" /\ 1 \in DOMAIN k.todo /\ Seated(k, panels, active)
  BY AtStage DEF Detail
<1>2. k.op = "block"
  BY <1>1 DEF Plain
<1>3. p \in DOMAIN panels /\ panels[p] \in PanelRecord
  BY <1>1, <1>2, Known DEF Seated
<1>4. /\ mix' = mix /\ UNCHANGED file /\ active' = active /\ keys' = keys /\ local' = local
      /\ painted' = painted /\ config' = config /\ line' = line /\ Continue(c, kk, rest)
      /\ panels' = [panels EXCEPT ![p] = e]
  BY DEF Detail
<1>5. /\ e \in PanelRecord /\ e.repo = panels[p].repo /\ e.late = panels[p].late
      /\ e.crossed = panels[p].crossed /\ e.timer = panels[p].timer /\ e.detail = k.repo
  BY <1>1, <1>3 DEF PanelRecord, CallRecord
<1>6. e.crossed = FALSE => e.detail \in {NoRepo, e.repo}
  BY <1>1, <1>2, <1>5 DEF Seated
<1>7. kk \in CallRecord /\ kk.op = k.op /\ q.op = k.op /\ q.panel = k.panel /\ q.todo = rest
  BY <1>1, <1>3 DEF CallRecord, PanelRecord, MaybeRepo
<1>8. Plain(rest, kk)
  BY <1>1, <1>2, <1>7, PlainTail DEF Openers
<1>9. Head(rest) = "dock"
  BY <1>1, <1>2, BlockStages
<1> HIDE DEF e, kk, q, rest, p
<1>10. /\ panels' \in Seq(PanelRecord) /\ Len(panels') = Len(panels)
       /\ \A d \in Calls : Seated(calls[d], panels', active')
       /\ ShowsOwn(panels') /\ PanelCoherent'
  BY <1>3, <1>4, <1>5, <1>6, Edited
<1>11. Seated(q, panels', active')
  <2>1. Seated(k, panels', active')
    BY <1>10
  <2> QED
    BY <1>7, <1>9, <2>1 DEF Seated
<1>12. line' \in MaybeRepo /\ config' \in {"closed", "open", "stray"}
  BY <1>4, Known DEF IInv, TypeOK
<1> HIDE DEF k
<1> QED
  BY <1>1, <1>4, <1>7, <1>8, <1>10, <1>11, <1>12, Known, ScreenStep DEF k, q

\* A late answer renders a panel that is marked, unless it is the active one.
LEMMA RenderIInv ==
    ASSUME IInv, NEW c \in Calls, Render(c)
    PROVE  IInv'
<1> DEFINE k == calls[c]
           rest == Tail(k.todo)
<1>1. /\ k \in CallRecord /\ Plain(k.todo, k) /\ ~Writing(k) /\ k.todo # << >> /\ Head(k.todo) = "render"
      /\ k.todo[1] = "render" /\ 1 \in DOMAIN k.todo /\ Seated(k, panels, active)
  BY AtStage DEF Render
<1>2. k.op \in {"switch", "block"}
  BY <1>1 DEF Plain
<1>3. k.panel \in 0 .. Len(panels) /\ k.panel # 0 /\ (k.panel # active => panels[k.panel].late = TRUE)
  BY <1>1, <1>2 DEF Seated
<1>4. /\ mix' = mix /\ UNCHANGED file /\ panels' = panels /\ active' = active /\ keys' = keys
      /\ local' = local /\ config' = config /\ line' = line /\ painted' = k.panel /\ Continue(c, k, rest)
  BY DEF Render
<1>5. Plain(rest, k)
  BY <1>1, PlainTail
<1>6. rest # << >> => Seated([k EXCEPT !.todo = rest], panels, active)
  <2>1. CASE k.op = "block"
    <3>1. k.todo = <<"render">>
      BY <1>1, <2>1, BlockStages
    <3>2. rest = << >>
      BY <3>1
    <3> QED
      BY <3>2
  <2>2. CASE k.op # "block"
    BY <1>1, <2>2, SeatedTodo
  <2> QED
    BY <2>1, <2>2
<1>7. PanelCoherent'
  BY <1>3, <1>4, Known DEF PanelCoherent
<1>8. ShowsOwn(panels') /\ line' \in MaybeRepo /\ config' \in {"closed", "open", "stray"}
  BY <1>4, Known DEF IInv, ScreenInv, TypeOK
<1> HIDE DEF k, rest
<1> QED
  BY <1>1, <1>3, <1>4, <1>5, <1>6, <1>7, <1>8, Known, ScreenStep DEF k

\* The two steps that touch the configuration panel only.
LEMMA ConfigStep ==
    ASSUME IInv, NEW c \in Calls, NEW stage \in {"configure", "reread"}, At(c, stage),
           Continue(c, calls[c], Tail(calls[c].todo)), config' \in {"closed", "open", "stray"},
           UNCHANGED <<mix, file, panels, active, keys, local, painted, line>>
    PROVE  IInv'
<1> DEFINE k == calls[c]
           rest == Tail(k.todo)
<1>1. /\ k \in CallRecord /\ Plain(k.todo, k) /\ ~Writing(k) /\ k.todo # << >> /\ Head(k.todo) = stage
      /\ Seated(k, panels, active)
  BY AtStage
<1>2. Plain(rest, k) /\ k.op # "block"
  BY <1>1, PlainTail, NotBlock
<1>3. Seated([k EXCEPT !.todo = rest], panels, active)
  BY <1>1, <1>2, SeatedTodo
<1>4. /\ mix' = mix /\ UNCHANGED file /\ panels' = panels /\ active' = active /\ keys' = keys
      /\ local' = local /\ line' = line /\ painted' = painted /\ Continue(c, k, rest)
  OBVIOUS
<1>5. PanelCoherent' /\ ShowsOwn(panels')
  BY <1>4 DEF IInv, ScreenInv, PanelCoherent
<1> HIDE DEF k, rest
<1> QED
  BY <1>1, <1>2, <1>3, <1>4, <1>5, Known, ScreenStep DEF k

LEMMA ConfigureIInv ==
    ASSUME IInv, NEW c \in Calls, Configure(c) \/ Reread(c)
    PROVE  IInv'
<1>1. ASSUME Configure(c) PROVE IInv'
  <2>1. /\ At(c, "configure") /\ config' = "open" /\ Continue(c, calls[c], Tail(calls[c].todo))
        /\ UNCHANGED <<mix, file, panels, active, keys, local, painted, line>>
    BY <1>1 DEF Configure
  <2> QED
    BY <2>1, ConfigStep
<1>2. ASSUME Reread(c) PROVE IInv'
  <2>1. /\ At(c, "reread") /\ config' \in {"open", "stray"} /\ Continue(c, calls[c], Tail(calls[c].todo))
        /\ UNCHANGED <<mix, file, panels, active, keys, local, painted, line>>
    BY <1>2 DEF Reread
  <2> QED
    BY <2>1, ConfigStep
<1> QED
  BY <1>1, <1>2

LEMMA CloseConfigIInv ==
    ASSUME IInv, CloseConfig
    PROVE  IInv'
<1>1. /\ panels' = panels /\ active' = active /\ keys' = keys /\ local' = local /\ config' = "closed"
      /\ painted' = painted /\ UNCHANGED <<mix, file, line, calls>>
  BY DEF CloseConfig
<1>2. Calling' /\ Alone' /\ line' \in MaybeRepo /\ UNCHANGED file /\ mix' = mix /\ calls' = calls
  BY <1>1, CallsKept
<1>3. PanelCoherent' /\ ShowsOwn(panels')
  BY <1>1 DEF IInv, ScreenInv, PanelCoherent
<1> QED
  BY <1>1, <1>2, <1>3, Known, Assemble

-----------------------------------------------------------------------------
(* The preferences file                                                     *)

LEMMA AssembleFile ==
    ASSUME IInv, mix' = mix, UNCHANGED <<screen, line>>, prefs' \in Prefs \cup {Torn}, chosen' \in Modes,
           mixed' \in BOOLEAN, Calling', Alone', ChoiceKept',
           \A d \in Calls : Seated(calls'[d], panels, active)
    PROVE  IInv'
<1>1. /\ panels' = panels /\ active' = active /\ keys' = keys /\ local' = local /\ painted' = painted
      /\ config' = config /\ line' = line
  BY DEF screen
<1>2. TypeOK'
  BY <1>1 DEF IInv, TypeOK
<1>3. ScreenInv'
  BY <1>1 DEF IInv, ScreenInv, PanelCoherent
<1> QED
  BY <1>2, <1>3 DEF IInv

\* The call that truncates goes on writing, for the same reason.
LEMMA TruncateIInv ==
    ASSUME IInv, NEW c \in Calls, Truncate(c)
    PROVE  IInv'
<1> DEFINE k == calls[c]
           q == Continued(k, Tail(k.todo))
<1>1. CallFits(k) /\ k.todo # << >> /\ Head(k.todo) = "truncate" /\ Writing(k) /\ Seated(k, panels, active)
  BY Known DEF Truncate, At, Writing
<1>2. /\ prefs' = Torn /\ chosen' = chosen /\ mixed' = mixed /\ mix' = mix /\ UNCHANGED <<screen, line>>
      /\ calls' = [calls EXCEPT ![c] = q]
  BY ContinuedIs DEF Truncate
<1>3. /\ CallFits(q) /\ Writing(q) /\ q.want = k.want
      /\ q.op = k.op /\ q.panel = k.panel /\ q.op # "block"
      /\ ChoosingCall(k) => ChoosingCall(q)
  BY <1>1, TruncatedFits
<1> HIDE DEF q
<1>4. calls'[c] = q /\ \A d \in Calls \ {c} : calls'[d] = calls[d]
  BY <1>2, Known
<1>5. Calling'
  BY <1>2, <1>3, <1>4, Known DEF Calling, CallFits
<1>6. \A d \in Calls : Seated(calls'[d], panels, active)
  BY <1>1, <1>3, <1>4, Known, SeatedSame
<1>7. \A d \in Calls : /\ Writing(calls'[d]) <=> Writing(calls[d])
                       /\ calls'[d].want = calls[d].want
                       /\ ChoosingCall(calls[d]) => ChoosingCall(calls'[d])
  BY <1>1, <1>3, <1>4
<1>8. Alone'
  <2> SUFFICES ASSUME mixed = FALSE
               PROVE  /\ \A d \in Calls :
                            Writing(calls'[d]) /\ (\A e \in Calls \ {d} : ~Writing(calls'[e]))
                              => calls'[d].want.mode = chosen \/ ChoosingCall(calls'[d])
                      /\ Torn = Torn /\ (\A d \in Calls : ~Writing(calls'[d])) => chosen = Defaults.mode
    BY <1>2 DEF Alone
  <2>1. \A d \in Calls : Writing(calls[d]) /\ (\A e \in Calls \ {d} : ~Writing(calls[e]))
                           => calls[d].want.mode = chosen \/ ChoosingCall(calls[d])
    BY DEF IInv, Alone
  <2>2. Writing(calls'[c])
    BY <1>1, <1>7
  <2> QED
    BY <1>7, <2>1, <2>2
<1>9. ChoiceKept'
  BY <1>2 DEF ChoiceKept
<1>10. chosen' \in Modes /\ mixed' \in BOOLEAN
  BY <1>2 DEF IInv, TypeOK
<1> QED
  BY <1>2, <1>5, <1>6, <1>8, <1>9, <1>10, AssembleFile

\* The call that fills the file alone has kept the chosen mode, or is the choice.
LEMMA FillIInv ==
    ASSUME IInv, NEW c \in Calls, Fill(c)
    PROVE  IInv'
<1> DEFINE k == calls[c]
           kk == [k EXCEPT !.want = Defaults]
           q == Continued(kk, Tail(k.todo))
<1>1. /\ CallFits(k) /\ k \in CallRecord /\ k.todo # << >> /\ Head(k.todo) = "fill" /\ Writing(k)
      /\ Seated(k, panels, active)
  BY Known DEF Fill, At, Writing
<1>2. /\ prefs' \in {k.want} \cup (IF prefs = Torn THEN {} ELSE {Torn})
      /\ chosen' = IF Choosing(c) THEN k.mode ELSE chosen
      /\ mix' = mix /\ UNCHANGED <<screen, line>>
      /\ calls' = [calls EXCEPT ![c] = q]
  BY ContinuedIs DEF Fill
<1>3. PICK alone \in BOOLEAN : alone = (\A d \in Calls \ {c} : ~Holding(d))
  OBVIOUS
<1>4. mixed' = (~(\A d \in Calls \ {c} : ~Holding(d)) \/ prefs' = Torn \/ (mixed /\ ~Choosing(c)))
  BY DEF Fill
<1>5. /\ CallFits(q) /\ ~Writing(q) /\ k.op # "block"
      /\ q = Idle \/ (q.op = k.op /\ q.panel = k.panel /\ q.shown = k.shown)
  BY <1>1, FilledFits
<1> HIDE DEF q
<1>6. calls'[c] = q /\ \A d \in Calls \ {c} : calls'[d] = calls[d]
  BY <1>2, Known
<1>7. Calling'
  BY <1>2, <1>5, <1>6, Known DEF Calling, CallFits
<1>8. \A d \in Calls : Seated(calls'[d], panels, active)
  <2>1. Seated(q, panels, active)
    BY <1>1, <1>5, SeatedSame, SeatedIdle, Known
  <2> QED
    BY <1>6, <2>1, Known
<1>9. \A d \in Calls : Writing(calls[d]) => Holding(d)
  <2> SUFFICES ASSUME NEW d \in Calls, Writing(calls[d]) PROVE Holding(d)
    OBVIOUS
  <2>1. (\E i \in DOMAIN calls[d].todo : calls[d].todo[i] = "fill") /\ Head(calls[d].todo) # "read"
    BY Known, FillMeansWriting
  <2>2. "fill" \in Stages(d)
    BY <2>1 DEF Stages
  <2> QED
    BY <2>1, <2>2 DEF Holding, At
<1>10. ASSUME mixed' = FALSE
       PROVE  /\ \A d \in Calls \ {c} : ~Writing(calls[d])
              /\ prefs' = k.want /\ prefs' # Torn /\ (mixed = FALSE \/ Choosing(c))
  <2>1. (\A d \in Calls \ {c} : ~Holding(d)) /\ prefs' # Torn /\ ~(mixed /\ ~Choosing(c))
    BY <1>4, <1>10
  <2>2. mixed \in BOOLEAN
    BY DEF IInv, TypeOK
  <2>3. prefs' = k.want
    BY <1>2, <2>1
  <2> QED
    BY <1>9, <2>1, <2>2, <2>3
<1>11. Alone'
  <2> SUFFICES ASSUME mixed' = FALSE
               PROVE  prefs' # Torn /\ \A d \in Calls : ~Writing(calls'[d])
    BY DEF Alone
  <2> QED
    BY <1>5, <1>6, <1>10
<1>12. Choosing(c) <=> ChoosingCall(k)
  BY DEF Choosing, ChoosingCall, Stages
<1>13. mixed' \in BOOLEAN
  BY <1>4
<1>14. ChoiceKept'
  <2> SUFFICES ASSUME mixed' = FALSE PROVE k.want.mode = chosen'
    BY <1>10, <1>13 DEF ChoiceKept
  <2>1. CASE Choosing(c)
    BY <1>2, <2>1 DEF Choosing
  <2>2. CASE ~Choosing(c)
    <3>1. k.want.mode = chosen \/ ChoosingCall(k)
      BY <1>1, <1>10, <2>2 DEF IInv, Alone
    <3> QED
      BY <1>2, <1>12, <2>2, <3>1
  <2> QED
    BY <2>1, <2>2
<1>15. prefs' \in Prefs \cup {Torn} /\ chosen' \in Modes
  BY <1>1, <1>2 DEF CallRecord, IInv, TypeOK
<1> QED
  BY <1>2, <1>7, <1>8, <1>11, <1>13, <1>14, <1>15, AssembleFile

-----------------------------------------------------------------------------
(* The invariant                                                            *)

LEMMA InitIInv ==
    ASSUME Init
    PROVE  IInv
<1>1. /\ mix \in Mixes /\ prefs \in mix.saved /\ chosen = ReadPrefs.mode /\ mixed = FALSE
      /\ panels = << >> /\ active = 0 /\ keys = 0 /\ local = 0 /\ painted = 0
      /\ config = "closed" /\ line = NoRepo
      /\ calls = [c \in Calls |-> Idle]
  BY DEF Init
<1>2. prefs \in Prefs \cup {Torn}
  BY <1>1, PrefsAssumption
<1>3. ReadPrefs \in Prefs /\ chosen \in Modes
  BY <1>1, <1>2, DefaultsType DEF ReadPrefs, Prefs
<1>4. panels \in Seq(PanelRecord) /\ Len(panels) = 0
  BY <1>1, EmptySeq
<1>5. TypeOK
  <2>1. panels \in Seq([repo : Repos, tab : DOMAIN Sections, detail : Repos \cup {NoRepo},
                       timer : BOOLEAN, byKey : BOOLEAN, late : BOOLEAN, crossed : BOOLEAN])
    BY <1>4 DEF PanelRecord, MaybeRepo
  <2>2. {active, keys, local, painted} \subseteq 0 .. Len(panels)
    BY <1>1, <1>4
  <2>3. config \in {"closed", "open", "stray"} /\ line \in Repos \cup {NoRepo} /\ mixed \in BOOLEAN
    BY <1>1
  <2> QED
    BY <1>1, <1>2, <1>3, <2>1, <2>2, <2>3 DEF TypeOK
<1>6. \A c \in Calls : calls[c] = Idle
  BY <1>1
<1>7. Calling
  BY <1>1, <1>6, IdleFits DEF Calling, CallFits
<1>8. \A c \in Calls : Seated(calls[c], panels, active)
  BY <1>4, <1>6, SeatedIdle
<1>9. ScreenInv
  BY <1>1, <1>8 DEF ScreenInv, ShowsOwn, PanelCoherent
<1>10. Alone
  <2>1. \A c \in Calls : ~Writing(calls[c])
    BY <1>6, IdleFits DEF Writing
  <2>2. prefs = Torn => chosen = Defaults.mode
    BY <1>1 DEF ReadPrefs
  <2> QED
    BY <2>1, <2>2 DEF Alone
<1>11. ChoiceKept
  BY <1>1 DEF ChoiceKept, ReadPrefs
<1> QED
  BY <1>5, <1>7, <1>9, <1>10, <1>11 DEF IInv

LEMMA StutterIInv ==
    ASSUME IInv, UNCHANGED vars
    PROVE  IInv'
<1>1. /\ UNCHANGED <<mix, file, line, calls>> /\ panels' = panels /\ active' = active /\ keys' = keys
      /\ local' = local /\ config' = config /\ painted' = painted
  BY DEF vars, screen
<1>2. Calling' /\ Alone' /\ line' \in MaybeRepo /\ UNCHANGED file /\ mix' = mix /\ calls' = calls
  BY <1>1, CallsKept
<1>3. PanelCoherent' /\ ShowsOwn(panels') /\ config' \in {"closed", "open", "stray"}
  BY <1>1 DEF IInv, ScreenInv, PanelCoherent, TypeOK
<1> QED
  BY <1>1, <1>2, <1>3, Known, Assemble

LEMMA NextIInv ==
    ASSUME IInv, [Next]_vars
    PROVE  IInv'
<1>1. ASSUME NEW c \in Calls, Proceed(c) PROVE IInv'
  BY <1>1, ResolveIInv, SourceIInv, RememberIInv, ReadIInv, ChooseIInv, TruncateIInv, FillIInv, DockIInv,
     PaintIInv, ClearIInv, OpenIInv, LoadIInv, UpdateIInv, DetailIInv, RenderIInv, ConfigureIInv DEF Proceed
<1>2. ASSUME NEW c \in Calls, Answer(c) PROVE IInv'
  BY <1>2, AnswerIInv
<1>3. ASSUME NEW p \in DOMAIN panels, Tick(p) PROVE IInv'
  BY <1>3, TickIInv
<1>4. ASSUME ToggleClosed \/ ToggleOpen \/ Escape \/ Tab \/ EnterTask \/ EnterBlock \/ KeySwitch PROVE IInv'
  BY <1>4, ToggleClosedIInv, ToggleOpenIInv, EscapeIInv, TabIInv, EnterTaskIInv, EnterBlockIInv, KeySwitchIInv
<1>5. ASSUME CloseConfig \/ ConfigKey \/ Command \/ ToolCall \/ Turn PROVE IInv'
  BY <1>5, CloseConfigIInv, ConfigKeyIInv, CommandIInv, ToolCallIInv, TurnIInv
<1>6. ASSUME UNCHANGED vars PROVE IInv'
  BY <1>6, StutterIInv
<1> QED
  BY <1>1, <1>2, <1>3, <1>4, <1>5, <1>6 DEF Next

LEMMA IInvHolds == Spec => []IInv
<1>1. Init => IInv
  BY InitIInv
<1>2. IInv /\ [Next]_vars => IInv'
  BY NextIInv
<1> QED
  BY <1>1, <1>2, PTL DEF Spec

-----------------------------------------------------------------------------
(* What is claimed                                                          *)

\* Every variable keeps its type: the active panel, the painted one and the
\* one whose handler has the keys are panels that were opened.
THEOREM TypeCorrect == Spec => []TypeOK
<1>1. IInv => TypeOK
  BY DEF IInv
<1> QED
  BY <1>1, IInvHolds, PTL

\* However handlers, timers, keys and late answers interleave (manager.ts),
\* the keys go to the active panel, and another panel's widget is on the screen
\* only when that panel's timer or one of its requests outlived it.
THEOREM ScreenAgrees == Spec => []PanelCoherent
<1>1. IInv => PanelCoherent
  BY DEF IInv, ScreenInv
<1> QED
  BY <1>1, IInvHolds, PTL

\* A task is blocked in the repository whose task the panel showed when Enter
\* was pressed, whatever happened while the reason was asked for, unless the
\* same panel was turned to another repository during a block.
THEOREM BlocksLand == Spec => []BlockLandsWhereShown
<1>1. ASSUME IInv PROVE BlockLandsWhereShown
  <2> SUFFICES ASSUME NEW c \in Calls, At(c, "update"), ~panels[calls[c].panel].crossed
               PROVE  calls[c].repo = calls[c].shown
    BY DEF BlockLandsWhereShown
  <2>1. /\ Plain(calls[c].todo, calls[c]) /\ calls[c].todo[1] = "update" /\ 1 \in DOMAIN calls[c].todo
        /\ Head(calls[c].todo) = "update" /\ Seated(calls[c], panels, active)
    BY <1>1, AtStage
  <2>2. calls[c].op = "block"
    BY <2>1 DEF Plain
  <2>3. calls[c].panel \in DOMAIN panels
    BY <1>1, <2>1, <2>2, Known DEF Seated
  <2>4. panels[calls[c].panel].crossed \in BOOLEAN
    BY <1>1, <2>3, Known DEF PanelRecord
  <2>5. panels[calls[c].panel].crossed = FALSE
    BY <2>4
  <2> QED
    BY <2>1, <2>2, <2>5 DEF Seated
<1> QED
  BY <1>1, IInvHolds, PTL

\* Although every event and tool call rewrites the whole preferences file, the
\* mode last chosen is the one in it, unless two of the handlers' spans from
\* reading to writing overlapped or a shorter text left a longer one's tail.
THEOREM ChoiceStays == Spec => []ChoiceKept
<1>1. IInv => ChoiceKept
  BY DEF IInv
<1> QED
  BY <1>1, IInvHolds, PTL
=============================================================================
