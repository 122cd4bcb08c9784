----------------------------- MODULE HeaderProofs -----------------------------
(* The header, the window for rules and the requests made for them, for all   *)
(* profiles, rules, devices and numbers of clicks, switches and failures.     *)
EXTENDS Header, SequenceTheorems, TLAPS

(* Profiles of the daemon, and the messages.                                   *)
Info == [list : Seq(Profile), cur : Name, auto : BOOLEAN]
GpuChosen == [do |-> "gpu"]
ToHeader == [do : {"profiles"}, info : Info] \cup {Selection, GpuChosen}
            \cup [do : {"auto"}, auto : BOOLEAN] \cup [do : {"editor"}, row : Nat]
ToApp == [do : {"select"}, name : Name, auto : BOOLEAN] \cup {ReloadProfiles}
         \cup [do : {"reload"}, full : BOOLEAN] \cup [do : {"move"}, name : Name, to : Int]
         \cup [do : {"delete"}, name : Name] \cup [do : {"create"}, name : Name, base : Name]
         \cup [do : {"rule"}, name : Name \cup {Empty}, rule : ProfileRules]
Window == [visible : BOOLEAN, profile : Name \cup {Empty}, page : {"process", "game"},
           name : Texts, args : Args \cup {Empty}, byArgs : BOOLEAN, gameByName : BOOLEAN,
           gameByArgs : BOOLEAN, rule : ProfileRules, touched : BOOLEAN]

-----------------------------------------------------------------------------
(* Messages that are sent and taken.                                           *)
LEMMA SentIsLast ==
  ASSUME NEW S, NEW q \in Seq(S), NEW m \in S
  PROVE  /\ Append(q, m) \in Seq(S)
         /\ DOMAIN q = 1..Len(q) /\ Len(q) \in Nat /\ Len(Append(q, m)) = Len(q) + 1
         /\ DOMAIN Append(q, m) = 1..(Len(q) + 1)
         /\ \A i \in 1..Len(q) : Append(q, m)[i] = q[i]
         /\ Append(q, m)[Len(q) + 1] = m
  BY AppendProperties, LenProperties

LEMMA SentIsThere ==
  ASSUME NEW S, NEW q \in Seq(S), NEW m \in S
  PROVE  \A n : Contains(Append(q, m), n) <=> Contains(q, n) \/ n = m
<1>1. /\ Len(q) \in Nat /\ Len(Append(q, m)) = Len(q) + 1
      /\ \A i \in 1..Len(q) : Append(q, m)[i] = q[i]
      /\ Append(q, m)[Len(q) + 1] = m
  BY SentIsLast
<1>2. ASSUME NEW k \in Nat, k = Len(q), NEW r, NEW n,
             \A i \in 1..k : r[i] = q[i], r[k + 1] = m
      PROVE  (\E i \in 1..(k + 1) : r[i] = n) <=> (\E i \in 1..k : q[i] = n) \/ n = m
  <2>1. \A i \in 1..(k + 1) : i \in 1..k \/ i = k + 1
    OBVIOUS
  <2>2. \A i \in 1..k : i \in 1..(k + 1)
    OBVIOUS
  <2>3. k + 1 \in 1..(k + 1)
    OBVIOUS
  <2> QED
    BY <1>2, <2>1, <2>2, <2>3
<1> QED
  BY <1>1, <1>2 DEF Contains

LEMMA RestIsShifted ==
  ASSUME NEW S, NEW q \in Seq(S), q # <<>>
  PROVE  /\ Tail(q) \in Seq(S) /\ Head(q) \in S /\ Head(q) = q[1]
         /\ Len(q) \in Nat \ {0} /\ DOMAIN q = 1..Len(q)
         /\ Len(Tail(q)) = Len(q) - 1 /\ DOMAIN Tail(q) = 1..(Len(q) - 1)
         /\ \A i \in 1..(Len(q) - 1) : Tail(q)[i] = q[i + 1]
         /\ \A i \in DOMAIN Tail(q) : i + 1 \in DOMAIN q /\ Tail(q)[i] = q[i + 1]
         /\ \A i \in DOMAIN q : i = 1 \/ (i - 1 \in DOMAIN Tail(q) /\ Tail(q)[i - 1] = q[i])
<1>1. /\ Tail(q) \in Seq(S) /\ Head(q) \in S /\ Len(Tail(q)) = Len(q) - 1
      /\ \A i \in 1..Len(Tail(q)) : Tail(q)[i] = q[i + 1]
  BY HeadTailProperties
<1>2. Len(q) \in Nat \ {0} /\ DOMAIN q = 1..Len(q) /\ Head(q) = q[1]
      /\ DOMAIN Tail(q) = 1..Len(Tail(q))
  BY <1>1, LenProperties, EmptySeq
<1>3. ASSUME NEW k \in Nat \ {0}, NEW r, \A i \in 1..(k - 1) : r[i] = q[i + 1]
      PROVE  /\ \A i \in 1..(k - 1) : i + 1 \in 1..k
             /\ \A i \in 1..k : i = 1 \/ (i - 1 \in 1..(k - 1) /\ r[i - 1] = q[i])
  <2>1. \A i \in 1..(k - 1) : i + 1 \in 1..k
    OBVIOUS
  <2>2. ASSUME NEW i \in 1..k, i # 1
        PROVE  i - 1 \in 1..(k - 1) /\ r[i - 1] = q[i]
    <3>1. i - 1 \in 1..(k - 1) /\ (i - 1) + 1 = i
      BY <2>2
    <3> QED
      BY <1>3, <3>1
  <2> QED
    BY <2>1, <2>2
<1>4. Len(Tail(q)) = Len(q) - 1 /\ DOMAIN Tail(q) = 1..(Len(q) - 1)
  BY <1>1, <1>2
<1> QED
  BY <1>1, <1>2, <1>3, <1>4

LEMMA TakenIsGone ==
  ASSUME NEW S, NEW q \in Seq(S), q # <<>>
  PROVE  \A n : Contains(q, n) <=> n = Head(q) \/ Contains(Tail(q), n)
<1>1. /\ Tail(q) \in Seq(S) /\ Head(q) = q[1] /\ Len(q) \in Nat \ {0}
      /\ DOMAIN q = 1..Len(q) /\ DOMAIN Tail(q) = 1..Len(Tail(q))
      /\ \A i \in DOMAIN Tail(q) : i + 1 \in DOMAIN q /\ Tail(q)[i] = q[i + 1]
      /\ \A i \in DOMAIN q : i = 1 \/ (i - 1 \in DOMAIN Tail(q) /\ Tail(q)[i - 1] = q[i])
  BY RestIsShifted, LenProperties
<1>2. \A n : Contains(q, n) <=> \E i \in DOMAIN q : q[i] = n
  BY <1>1 DEF Contains
<1>3. \A n : Contains(Tail(q), n) <=> \E i \in DOMAIN Tail(q) : Tail(q)[i] = n
  BY <1>1 DEF Contains
<1>4. 1 \in DOMAIN q
  BY <1>1
<1> QED
  BY <1>1, <1>2, <1>3, <1>4

LEMMA NothingInEmpty == \A n : ~Contains(<<>>, n)
  BY DEF Contains

LEMMA RemovedIsRest ==
  ASSUME NEW S, NEW q \in Seq(S), NEW i \in DOMAIN q
  PROVE  /\ RemoveAt(q, i) \in Seq(S)
         /\ \A j \in DOMAIN q : j # i => \E l \in DOMAIN RemoveAt(q, i) : RemoveAt(q, i)[l] = q[j]
<1> DEFINE a == SubSeq(q, 1, i - 1)
           b == SubSeq(q, i + 1, Len(q))
<1>1. a \in Seq(S) /\ Len(a) = i - 1 /\ \A j \in 1..(i - 1) : a[j] = q[j]
  OBVIOUS
<1>2. /\ b \in Seq(S) /\ Len(b) = Len(q) - i
      /\ \A j \in 1..(Len(q) - i) : b[j] = q[i + j]
  OBVIOUS
<1>3. RemoveAt(q, i) = a \o b
  BY DEF RemoveAt
<1> HIDE DEF a, b
<1>4. i \in 1..Len(q) /\ Len(q) \in Nat
  OBVIOUS
<1>5. a \o b \in Seq(S)
  BY <1>1, <1>2
<1>6. Len(a \o b) = Len(q) - 1
  BY <1>1, <1>2, <1>4
<1>7. \A j \in 1..(Len(q) - 1) : (a \o b)[j] = IF j < i THEN q[j] ELSE q[j + 1]
  BY <1>1, <1>2, <1>4
<1>8. ASSUME NEW j \in 1..Len(q), j # i
      PROVE  \E l \in 1..(Len(q) - 1) : (a \o b)[l] = q[j]
  <2>1. CASE j < i
    <3>1. j \in 1..(Len(q) - 1)
      BY <1>4, <2>1
    <3> QED
      BY <1>7, <2>1, <3>1
  <2>2. CASE j > i
    <3>1. j - 1 \in 1..(Len(q) - 1) /\ ~(j - 1 < i) /\ (j - 1) + 1 = j
      BY <1>4, <2>2
    <3> QED
      BY <1>7, <3>1
  <2>3. j < i \/ j > i
    BY <1>4, <1>8
  <2> QED
    BY <2>1, <2>2, <2>3
<1>9. DOMAIN (a \o b) = 1..(Len(q) - 1) /\ DOMAIN q = 1..Len(q)
  BY <1>5, <1>6, LenProperties
<1> QED
  BY <1>3, <1>5, <1>8, <1>9

-----------------------------------------------------------------------------
(* The window for rules: the widgets of a rule that is shown and left alone.   *)
Fresh(w) ==
  /\ w.page = w.rule.type
  /\ w.name = TextOf(w.rule.name) /\ w.args = TextOf(w.rule.args)
  /\ w.byArgs = (w.args # Empty) /\ w.gameByArgs = (w.args # Empty)
  /\ w.gameByName = (w.name # Empty)

LEMMA RuleParts ==
  ASSUME NEW r \in ProfileRules
  PROVE  /\ r.type \in {"process", "game"} /\ TextOf(r.name) \in Texts
         /\ TextOf(r.args) \in Args \cup {Empty}
         /\ r = [type |-> r.type, name |-> r.name, args |-> r.args]
         /\ r.name = Whatever => r.type = "game" /\ r.args = Whatever
  BY NamesAreTexts DEF ProfileRules, Texts, TextOf, Empty, Whatever

LEMMA RulesToShow ==
  ASSUME NEW r \in ProfileRules \cup {NoRule}
  PROVE  UnwrapOrDefault(r) \in ProfileRules
  BY DEF UnwrapOrDefault, DefaultRule, ProfileRules, Texts

LEMMA ShownIsFresh ==
  ASSUME NEW w \in Window, NEW p \in Name, NEW r \in ProfileRules
  PROVE  Show(w, p, r) \in Window /\ Fresh(Show(w, p, r))
<1> DEFINE t == SetTexts(w, r)
<1>1. /\ r.type \in {"process", "game"} /\ TextOf(r.name) \in Texts
      /\ TextOf(r.args) \in Args \cup {Empty}
  BY RuleParts
<1>2. t \in Window /\ t.name = TextOf(r.name) /\ t.args = TextOf(r.args)
  BY <1>1 DEF SetTexts, Window
<1>3. Show(w, p, r) = [t EXCEPT !.visible = TRUE, !.profile = p, !.page = r.type,
                                !.byArgs = t.args # Empty, !.gameByName = t.name # Empty,
                                !.gameByArgs = t.args # Empty, !.rule = r, !.touched = FALSE]
  BY DEF Show
<1> HIDE DEF t
<1>4. /\ (t.args # Empty) \in BOOLEAN /\ (t.name # Empty) \in BOOLEAN
      /\ p \in Name \cup {Empty}
  OBVIOUS
<1>5. Show(w, p, r) \in Window
  BY <1>1, <1>2, <1>3, <1>4 DEF Window
<1>6. /\ Show(w, p, r).page = r.type /\ Show(w, p, r).rule = r
      /\ Show(w, p, r).name = t.name /\ Show(w, p, r).args = t.args
      /\ Show(w, p, r).byArgs = (t.args # Empty) /\ Show(w, p, r).gameByArgs = (t.args # Empty)
      /\ Show(w, p, r).gameByName = (t.name # Empty)
  BY <1>2, <1>3 DEF Window
<1> QED
  BY <1>2, <1>5, <1>6 DEF Fresh

LEMMA RuleOfWindow ==
  ASSUME NEW w \in Window
  PROVE  GetRule(w) \in ProfileRules
<1>1. w.name \in Texts /\ w.args \in Args \cup {Empty}
  BY DEF Window
<1> QED
  BY <1>1 DEF GetRule, ProfileRules

LEMMA FreshIsKept ==
  ASSUME NEW w \in Window, Fresh(w), ~(w.rule.type = "game" /\ w.rule.name = Empty)
  PROVE  Meaning(GetRule(w)) = Meaning(w.rule)
<1> DEFINE r == w.rule
<1>1. /\ r \in ProfileRules /\ r.type \in {"process", "game"}
      /\ r = [type |-> r.type, name |-> r.name, args |-> r.args]
      /\ r.name = Whatever => r.type = "game" /\ r.args = Whatever
  BY RuleParts DEF Window
<1>2. \A x, y, z : Meaning([type |-> x, name |-> y, args |-> z])
        = [type |-> x, name |-> y, args |-> IF z = Empty THEN Whatever ELSE z]
  BY DEF Meaning
<1>3. CASE r.type = "process"
  <2>1. GetRule(w) = [type |-> "process", name |-> r.name,
                      args |-> IF w.args # Empty THEN w.args ELSE Whatever]
    BY <1>1, <1>3 DEF GetRule, Fresh, TextOf
  <2>2. (IF w.args # Empty THEN w.args ELSE Whatever)
          = (IF r.args = Empty THEN Whatever ELSE r.args)
    BY DEF Fresh, TextOf, Empty, Whatever
  <2>3. (IF w.args # Empty THEN w.args ELSE Whatever) # Empty
    BY DEF Empty, Whatever
  <2> QED
    BY <1>1, <1>2, <1>3, <2>1, <2>2, <2>3
<1>4. CASE r.type = "game" /\ r.name = Whatever
  <2>1. GetRule(w) = [type |-> "game", name |-> Whatever, args |-> Whatever]
    BY <1>1, <1>4 DEF GetRule, Fresh, TextOf, Empty, Whatever
  <2> QED
    BY <1>1, <1>4, <2>1
<1>5. CASE r.type = "game" /\ r.name # Whatever
  <2>1. w.gameByName = TRUE /\ w.name = r.name
    BY <1>5 DEF Fresh, TextOf
  <2>2. GetRule(w) = [type |-> "game", name |-> r.name,
                      args |-> IF w.args # Empty THEN w.args ELSE Whatever]
    BY <1>5, <2>1 DEF GetRule, Fresh
  <2>3. (IF w.args # Empty THEN w.args ELSE Whatever)
          = (IF r.args = Empty THEN Whatever ELSE r.args)
    BY DEF Fresh, TextOf, Empty, Whatever
  <2>4. (IF w.args # Empty THEN w.args ELSE Whatever) # Empty
    BY DEF Empty, Whatever
  <2> QED
    BY <1>1, <1>2, <1>5, <2>2, <2>3, <2>4
<1> QED
  BY <1>1, <1>3, <1>4, <1>5

LEMMA EditedIsTouched ==
  ASSUME NEW w \in Window, NEW e \in Edits(w)
  PROVE  e \in Window /\ e.touched = TRUE
<1>1. \A n \in Texts : [w EXCEPT !.name = n] \in Window
  BY DEF Window
<1>2. \A a \in Args \cup {Empty} : [w EXCEPT !.args = a] \in Window
  BY DEF Window
<1>3. \A p \in ProcessNames \X Args : [w EXCEPT !.name = p[1], !.args = p[2]] \in Window
  BY DEF Window, Texts
<1>4. /\ [w EXCEPT !.byArgs = ~@] \in Window /\ [w EXCEPT !.gameByName = ~@] \in Window
      /\ [w EXCEPT !.gameByArgs = ~@] \in Window
  BY DEF Window
<1>5. [w EXCEPT !.page = IF w.page = "process" THEN "game" ELSE "process"] \in Window
  BY DEF Window
<1>6. ASSUME NEW v \in Changes(w)
      PROVE  v \in Window
  <2> DEFINE toggled == {[w EXCEPT !.byArgs = ~@], [w EXCEPT !.gameByName = ~@],
                         [w EXCEPT !.gameByArgs = ~@]}
             turned == {[w EXCEPT !.page = IF w.page = "process" THEN "game" ELSE "process"]}
             named == {[w EXCEPT !.name = n] : n \in Texts}
             given == {[w EXCEPT !.args = a] : a \in Args \cup {Empty}}
             from == {[w EXCEPT !.name = p[1], !.args = p[2]] : p \in ProcessNames \X Args}
  <2>1. v \in toggled \/ v \in turned \/ v \in named \/ v \in given \/ v \in from
    <3>1. CASE w.page = "process"
      BY <1>6, <3>1 DEF Changes
    <3>2. CASE w.page # "process"
      BY <1>6, <3>2 DEF Changes
    <3> QED
      BY <3>1, <3>2
  <2>2. CASE v \in toggled
    BY <1>4, <2>2
  <2>3. CASE v \in turned
    BY <1>5, <2>3
  <2>4. CASE v \in named
    BY <1>1, <2>4
  <2>5. CASE v \in given
    BY <1>2, <2>5
  <2>6. CASE v \in from
    BY <1>3, <2>6
  <2> QED
    BY <2>1, <2>2, <2>3, <2>4, <2>5, <2>6
<1>7. PICK v \in Changes(w) : e = [v EXCEPT !.touched = TRUE]
  BY DEF Edits
<1> QED
  BY <1>6, <1>7 DEF Window
-----------------------------------------------------------------------------
(* The inductive invariant.                                                    *)
HeaderTypes ==
  /\ daemon \in Info /\ told \in Info /\ info \in Info /\ Listed(info)
  /\ inbox \in Seq(ToHeader) /\ queue \in Seq(ToApp)
  /\ app \in [do : {"idle", "select", "tell", "reload"}, name : Name \cup {None}]
  /\ app.do = "select" => app.name \in Name
  /\ rule \in Window /\ missed \in BOOLEAN
  /\ shown = [gpu |-> shown.gpu, stats |-> shown.stats, states |-> shown.states]

(* What switches the daemon, and what its hardware has.                        *)
Stage == [at : {"rest", "store", "apply", "finish"}, name : Name \cup {None},
          gone : Name \cup {None}]
SwitchInv ==
  /\ switch \in [Actors -> Stage] /\ applied \in {daemon.cur, None}
  /\ \A a \in Actors : switch[a].at = "store" => switch[a].name \in Name
  /\ app.do = "select" => switch["window"] = Resting

(* A rule that is shown and left alone.                                        *)
WindowInv == rule.visible /\ ~rule.touched => Fresh(rule)

RowInv ==
  /\ rows = Rows(info) /\ selected \in DOMAIN rows
  /\ NameAt(selected) \in {info.cur, clicked}

(* What the header is about to learn: the message that told it of the profiles *)
(* last is the last of its kind, or is handled; and it is about to learn       *)
(* something else than what it knows.                                          *)
Telling(q) == {i \in DOMAIN q : q[i].do = "profiles"}
ToldIn(q, i, t) ==
  \/ t = i /\ Telling(q) = {}
  \/ \E k \in Telling(q) : q[k].info = t /\ \A j \in Telling(q) : j <= k
NewsIn(q, i) == \E k \in Telling(q) : q[k].info # i

ToldInv == ToldIn(inbox, info, told)
News == daemon # told \/ NewsIn(inbox, info)

Selecting(name) == switch["window"].at = "store" /\ switch["window"].name = name
SelectedInv ==
  \/ NameAt(selected) = info.cur \/ Selecting(NameAt(selected))
  \/ Contains(inbox, Selection) \/ Contains(queue, Ask(NameAt(selected), FALSE))
  \/ "select" \in lost \/ missed \/ News

Reading == \E full \in BOOLEAN : Contains(queue, ReloadData(full))
NotRead == Reading \/ ("reload" \in lost /\ app.do # "reload")
PagesInv ==
  /\ shown.gpu = gpu \/ Contains(inbox, GpuChosen) \/ NotRead
  /\ shown.stats \in {info.cur, None} \/ NotRead \/ missed \/ News
  /\ shown.states \in {info.cur, None} \/ app.do = "reload" \/ NotRead \/ missed \/ News
HeaderInv ==
  HeaderTypes /\ SwitchInv /\ WindowInv /\ RowInv /\ ToldInv /\ SelectedInv /\ PagesInv

(* The steps. When the window panics nothing else changes.                     *)
Handles == Handle /\ ~Panic
Moves == Handles \/ Take \/ SelectCreated \/ TellRule \/ ReloadRest \/ Poll \/ UserActs \/ Others
         \/ Switches
Stands == UNCHANGED <<daemon, hardware, info, rows, selected, gpu, inbox, told, queue, app, shown,
                      rule, clicked, missed, lost>>

LEMMA MovesOrStands ==
  ASSUME [Next]_vars
  PROVE  Moves \/ Stands
<1>1. Handle /\ Panic => Stands
  BY DEF Handle, Panic, Stands, user
<1>2. UNCHANGED vars => Stands
  BY DEF Stands, vars, header, mailbox, user, history
<1> QED
  BY <1>1, <1>2 DEF Moves, Handles, Next, WindowActs

-----------------------------------------------------------------------------
(* The profiles of the daemon.                                                 *)
LEMMA InfoParts ==
  ASSUME NEW d \in Info
  PROVE  /\ d.list \in Seq(Profile) /\ d.cur \in Name /\ d.auto \in BOOLEAN
         /\ Len(d.list) \in Nat /\ DOMAIN d.list = 1..Len(d.list)
         /\ \A i \in DOMAIN d.list : d.list[i] \in Profile /\ d.list[i].name \in Name
<1>1. d.list \in Seq(Profile) /\ d.cur \in Name /\ d.auto \in BOOLEAN
  BY DEF Info
<1>3. Len(d.list) \in Nat /\ DOMAIN d.list = 1..Len(d.list)
  BY <1>1, LenProperties
<1>4. \A i \in DOMAIN d.list : d.list[i] \in Profile
  BY <1>1, <1>3, ElementOfSeq
<1>5. \A i \in DOMAIN d.list : d.list[i].name \in Name
  BY <1>4 DEF Profile
<1> QED
  BY <1>1, <1>3, <1>4, <1>5

LEMMA ListedHasPlace ==
  ASSUME NEW list, NEW name \in Names(list)
  PROVE  Position(list, name) \in DOMAIN list /\ list[Position(list, name)].name = name
<1>1. \E i \in DOMAIN list : list[i].name = name
  BY DEF Names
<1> QED
  BY <1>1 DEF Position

LEMMA RowsOfProfiles ==
  ASSUME NEW i \in Info, Listed(i)
  PROVE  /\ DOMAIN Rows(i) = 1..(Len(i.list) + 1) /\ Rows(i) # <<>>
         /\ \A r \in DOMAIN Rows(i) : Rows(i)[r] \in Name /\ r # 0
         /\ CurrentRow(i) \in DOMAIN Rows(i) /\ Rows(i)[CurrentRow(i)] = i.cur
         /\ \A r \in DOMAIN i.list : r \in DOMAIN Rows(i) /\ Rows(i)[r] = i.list[r].name
<1>1. /\ Len(i.list) \in Nat /\ DOMAIN i.list = 1..Len(i.list) /\ i.cur \in Name
      /\ \A r \in DOMAIN i.list : i.list[r].name \in Name
      /\ i.cur = Default \/ i.cur \in Names(i.list)
  BY InfoParts DEF Listed
<1>2. /\ DOMAIN Rows(i) = 1..(Len(i.list) + 1)
      /\ \A r \in 1..(Len(i.list) + 1) :
            Rows(i)[r] = IF r > Len(i.list) THEN Default ELSE i.list[r].name
  BY DEF Rows
<1>3. Default \in Name
  BY DEF Name
<1>4. \A r \in DOMAIN Rows(i) : Rows(i)[r] \in Name /\ r # 0
  BY <1>1, <1>2, <1>3
<1>5. \A r \in DOMAIN i.list : r \in DOMAIN Rows(i) /\ Rows(i)[r] = i.list[r].name
  BY <1>1, <1>2
<1>6. 1 \in DOMAIN Rows(i)
  BY <1>1, <1>2
<1>7. Rows(i) # <<>>
  BY <1>6
<1>8. CurrentRow(i) \in DOMAIN Rows(i) /\ Rows(i)[CurrentRow(i)] = i.cur
  <2>1. CASE i.cur = Default
    BY <1>1, <1>2, <2>1 DEF CurrentRow
  <2>2. CASE i.cur # Default
    <3>1. /\ Position(i.list, i.cur) \in DOMAIN i.list
          /\ i.list[Position(i.list, i.cur)].name = i.cur
      BY <1>1, <2>2, ListedHasPlace
    <3> QED
      BY <1>5, <2>2, <3>1 DEF CurrentRow
  <2> QED
    BY <2>1, <2>2
<1> QED
  BY <1>2, <1>4, <1>5, <1>7, <1>8

(* What the daemon makes of its profiles.                                      *)
LEMMA ListedIsInfo ==
  ASSUME daemon \in Info, NEW list \in Seq(Profile)
  PROVE  With(list) \in Info /\ With(list).cur = daemon.cur
  BY DEF Info, With

LEMMA SwitchedIsInfo ==
  ASSUME daemon \in Info, NEW n \in Name
  PROVE  [daemon EXCEPT !.cur = n] \in Info /\ [daemon EXCEPT !.cur = n].cur = n
  BY DEF Info

LEMMA FlaggedIsInfo ==
  ASSUME daemon \in Info, NEW a \in BOOLEAN
  PROVE  [daemon EXCEPT !.auto = a] \in Info /\ [daemon EXCEPT !.auto = a].cur = daemon.cur
  BY DEF Info

LEMMA KnownIsName ==
  ASSUME daemon \in Info, NEW n, Known(n)
  PROVE  n \in Name
<1>1. \A i \in DOMAIN daemon.list : daemon.list[i].name \in Name
  BY InfoParts
<1> QED
  BY <1>1 DEF Known, Exists, Names, Name

LEMMA DeletedIsInfo ==
  ASSUME daemon \in Info, NEW name
  PROVE  Without(name) \in Info /\ Without(name).cur = daemon.cur
<1>1. CASE Exists(name)
  <2> DEFINE p == Position(daemon.list, name)
  <2>1. p \in DOMAIN daemon.list
    BY <1>1, ListedHasPlace DEF Exists
  <2>2. RemoveAt(daemon.list, p) \in Seq(Profile)
    BY <2>1, InfoParts, RemovedIsRest
  <2> QED
    BY <1>1, <2>2, ListedIsInfo DEF Without
<1>2. CASE ~Exists(name)
  BY <1>2 DEF Without
<1> QED
  BY <1>1, <1>2

LEMMA CreatedIsInfo ==
  ASSUME daemon \in Info, NEW m, m.name \in Name, m.base = Default \/ Exists(m.base)
  PROVE  /\ With(Append(daemon.list, Based(m))) \in Info
         /\ With(Append(daemon.list, Based(m))).cur = daemon.cur
<1>1. /\ daemon.list \in Seq(Profile) /\ DOMAIN daemon.list = 1..Len(daemon.list)
      /\ \A i \in DOMAIN daemon.list : daemon.list[i] \in Profile
  BY InfoParts
<1>2. Based(m) \in Profile
  <2>1. CASE m.base = Default
    BY <2>1 DEF Based, Profile
  <2>2. CASE m.base # Default
    <3>1. Position(daemon.list, m.base) \in DOMAIN daemon.list
      BY <2>2, ListedHasPlace DEF Exists
    <3>2. daemon.list[Position(daemon.list, m.base)].rule \in ProfileRules \cup {NoRule}
      BY <1>1, <3>1 DEF Profile
    <3> QED
      BY <2>2, <3>2 DEF Based, Profile
  <2> QED
    BY <2>1, <2>2
<1>3. Append(daemon.list, Based(m)) \in Seq(Profile)
  BY <1>1, <1>2, SentIsLast
<1> QED
  BY <1>3, ListedIsInfo

LEMMA MovedIsInfo ==
  ASSUME daemon \in Info, NEW f \in DOMAIN daemon.list, NEW t \in DOMAIN daemon.list
  PROVE  /\ With([daemon.list EXCEPT ![f] = daemon.list[t], ![t] = daemon.list[f]]) \in Info
         /\ With([daemon.list EXCEPT ![f] = daemon.list[t], ![t] = daemon.list[f]]).cur
              = daemon.cur
<1> DEFINE old == daemon.list
           list == [old EXCEPT ![f] = old[t], ![t] = old[f]]
<1>1. /\ old \in Seq(Profile) /\ DOMAIN old = 1..Len(old) /\ Len(old) \in Nat
      /\ \A i \in DOMAIN old : old[i] \in Profile
  BY InfoParts
<1>2. /\ DOMAIN list = DOMAIN old
      /\ \A i \in DOMAIN old : list[i] = IF i = t THEN old[f] ELSE IF i = f THEN old[t] ELSE old[i]
  OBVIOUS
<1>3. list = [i \in 1..Len(old) |-> list[i]]
  BY <1>1, <1>2
<1> HIDE DEF list
<1>4. \A i \in 1..Len(old) : list[i] \in Profile
  BY <1>1, <1>2
<1>5. list \in Seq(Profile)
  <2>1. [i \in 1..Len(old) |-> list[i]] \in [1..Len(old) -> Profile]
    BY <1>4
  <2>2. list \in [1..Len(old) -> Profile]
    BY <1>3, <2>1
  <2> QED
    BY <1>1, <2>2, SeqDef
<1> QED
  BY <1>5, ListedIsInfo DEF list

LEMMA RuledIsInfo ==
  ASSUME daemon \in Info, NEW name, NEW r \in ProfileRules
  PROVE  LET d == With([i \in DOMAIN daemon.list |->
                          IF daemon.list[i].name = name
                          THEN [daemon.list[i] EXCEPT !.rule = r] ELSE daemon.list[i]])
         IN d \in Info /\ d.cur = daemon.cur
<1> DEFINE old == daemon.list
           list == [i \in DOMAIN old |->
                      IF old[i].name = name THEN [old[i] EXCEPT !.rule = r] ELSE old[i]]
<1>1. /\ old \in Seq(Profile) /\ DOMAIN old = 1..Len(old) /\ Len(old) \in Nat
      /\ \A i \in DOMAIN old : old[i] \in Profile
  BY InfoParts
<1>2. \A i \in DOMAIN old : list[i] \in Profile /\ list[i].name = old[i].name
  BY <1>1 DEF Profile
<1>3. DOMAIN list = DOMAIN old /\ list = [i \in 1..Len(old) |-> list[i]]
  BY <1>1
<1> HIDE DEF list
<1>4. list \in Seq(Profile)
  <2>1. \A i \in 1..Len(old) : list[i] \in Profile
    BY <1>1, <1>2
  <2>2. [i \in 1..Len(old) |-> list[i]] \in [1..Len(old) -> Profile]
    BY <2>1
  <2>3. list \in [1..Len(old) -> Profile]
    BY <1>3, <2>2
  <2> QED
    BY <1>1, <2>3, SeqDef
<1> QED
  BY <1>4, ListedIsInfo DEF list

-----------------------------------------------------------------------------
(* What the header is told.                                                    *)
LEMMA OtherIsNoNews ==
  ASSUME NEW q \in Seq(ToHeader), NEW m \in ToHeader, m.do # "profiles", NEW i, NEW t
  PROVE  /\ ToldIn(q, i, t) => ToldIn(Append(q, m), i, t)
         /\ NewsIn(q, i) => NewsIn(Append(q, m), i)
<1>1. /\ DOMAIN q = 1..Len(q) /\ Len(q) \in Nat /\ DOMAIN Append(q, m) = 1..(Len(q) + 1)
      /\ \A k \in 1..Len(q) : Append(q, m)[k] = q[k]
      /\ Append(q, m)[Len(q) + 1] = m
  BY SentIsLast
<1>2. \A k \in 1..(Len(q) + 1) : k \in 1..Len(q) \/ k = Len(q) + 1
  BY <1>1
<1>3. \A k \in 1..Len(q) : k \in 1..(Len(q) + 1)
  BY <1>1
<1>4. /\ Telling(Append(q, m)) = Telling(q)
      /\ \A k \in Telling(q) : Append(q, m)[k] = q[k]
  BY <1>1, <1>2, <1>3 DEF Telling
<1> QED
  BY <1>4 DEF ToldIn, NewsIn

LEMMA ToldIsNews ==
  ASSUME NEW q \in Seq(ToHeader), NEW d \in Info, NEW i
  PROVE  /\ ToldIn(Append(q, [do |-> "profiles", info |-> d]), i, d)
         /\ NewsIn(q, i) => NewsIn(Append(q, [do |-> "profiles", info |-> d]), i)
         /\ d # i => NewsIn(Append(q, [do |-> "profiles", info |-> d]), i)
<1> DEFINE m == [do |-> "profiles", info |-> d]
           n == Len(q) + 1
           r == Append(q, m)
<1>1. m \in ToHeader /\ m.do = "profiles" /\ m.info = d
  BY DEF ToHeader
<1> HIDE DEF m
<1>2. /\ DOMAIN q = 1..Len(q) /\ Len(q) \in Nat /\ DOMAIN r = 1..n
      /\ \A k \in 1..Len(q) : r[k] = q[k]
      /\ r[n] = m
  BY <1>1, SentIsLast
<1>3. n \in DOMAIN r /\ \A k \in DOMAIN r : k <= n
  BY <1>2
<1>4. \A k \in DOMAIN q : k \in DOMAIN r /\ r[k] = q[k]
  BY <1>2
<1> HIDE DEF r, n
<1>5. n \in Telling(r) /\ r[n].info = d /\ \A k \in Telling(r) : k <= n
  BY <1>1, <1>2, <1>3 DEF Telling
<1>6. ToldIn(r, i, d) /\ (d # i => NewsIn(r, i))
  BY <1>5 DEF ToldIn, NewsIn
<1>7. NewsIn(q, i) => NewsIn(r, i)
  BY <1>4 DEF NewsIn, Telling
<1> QED
  BY <1>6, <1>7 DEF m, r

LEMMA TakenIsKnown ==
  ASSUME NEW q \in Seq(ToHeader), q # <<>>, NEW i, NEW t
  PROVE  /\ Head(q).do # "profiles" /\ ToldIn(q, i, t) => ToldIn(Tail(q), i, t)
         /\ Head(q).do = "profiles" /\ ToldIn(q, i, t) => ToldIn(Tail(q), Head(q).info, t)
         /\ (Head(q).do = "profiles" => Head(q).info = i) /\ NewsIn(q, i) => NewsIn(Tail(q), i)
<1> DEFINE r == Tail(q)
<1>1. /\ Head(q) = q[1] /\ Len(q) \in Nat \ {0} /\ DOMAIN q = 1..Len(q)
      /\ DOMAIN r = 1..(Len(q) - 1)
      /\ \A k \in DOMAIN r : k + 1 \in DOMAIN q /\ r[k] = q[k + 1]
      /\ \A k \in DOMAIN q : k = 1 \/ (k - 1 \in DOMAIN r /\ r[k - 1] = q[k])
  BY RestIsShifted
<1> HIDE DEF r
<1>2. /\ \A k \in Telling(r) : k + 1 \in Telling(q) /\ r[k] = q[k + 1]
      /\ \A k \in Telling(q) : k = 1 \/ (k - 1 \in Telling(r) /\ r[k - 1] = q[k])
      /\ 1 \in Telling(q) <=> Head(q).do = "profiles"
  BY <1>1 DEF Telling
<1>3. Telling(q) \subseteq Nat /\ Telling(r) \subseteq Nat
  BY <1>1 DEF Telling
<1>4. (Head(q).do = "profiles" => Head(q).info = i) /\ NewsIn(q, i) => NewsIn(r, i)
  BY <1>1, <1>2 DEF NewsIn
<1>5. ASSUME NEW k \in Telling(q), q[k].info = t, \A j \in Telling(q) : j <= k, k # 1
      PROVE  ToldIn(r, i, t) /\ ToldIn(r, Head(q).info, t)
  <2>1. k - 1 \in Telling(r) /\ r[k - 1].info = t
    BY <1>2, <1>5
  <2>2. \A j \in Telling(r) : j <= k - 1
    BY <1>2, <1>3, <1>5
  <2> QED
    BY <2>1, <2>2 DEF ToldIn
<1>6. ASSUME NEW k \in Telling(q), q[k].info = t, \A j \in Telling(q) : j <= k, k = 1
      PROVE  Head(q).do = "profiles" /\ ToldIn(r, Head(q).info, t)
  <2>1. Head(q).do = "profiles" /\ Head(q).info = t
    BY <1>1, <1>2, <1>6
  <2>2. Telling(r) = {}
    <3>1. \A j \in Telling(r) : j + 1 <= 1 /\ j \in 1..(Len(q) - 1)
      BY <1>1, <1>2, <1>6 DEF Telling
    <3> QED
      BY <1>1, <3>1
  <2> QED
    BY <2>1, <2>2 DEF ToldIn
<1>7. ASSUME Telling(q) = {}
      PROVE  Head(q).do # "profiles" /\ Telling(r) = {}
  BY <1>2, <1>7
<1> QED
  BY <1>4, <1>5, <1>6, <1>7 DEF ToldIn, r

LEMMA UnknownIsNews ==
  ASSUME ToldInv, daemon # info
  PROVE  News
  BY DEF ToldInv, News, ToldIn, NewsIn

LEMMA NothingIsNews ==
  ASSUME inbox = <<>>, ToldInv
  PROVE  told = info /\ (News => daemon # info)
<1>1. Telling(inbox) = {}
  BY DEF Telling
<1> QED
  BY <1>1 DEF ToldInv, News, ToldIn, NewsIn

-----------------------------------------------------------------------------
(* The kinds of messages.                                                      *)
LEMMA HeaderMessages ==
  /\ Selection \in ToHeader /\ GpuChosen \in ToHeader
  /\ \A i \in Info : [do |-> "profiles", info |-> i] \in ToHeader
  /\ \A b \in BOOLEAN : [do |-> "auto", auto |-> b] \in ToHeader
  /\ \A r \in Nat : [do |-> "editor", row |-> r] \in ToHeader
  /\ \A m \in ToHeader :
       /\ m.do \in {"profiles", "select", "auto", "editor", "gpu"}
       /\ m.do = "profiles" => m.info \in Info
       /\ m.do = "select" => m = Selection
       /\ m.do = "auto" => m.auto \in BOOLEAN
       /\ m.do = "editor" => m.row \in Nat
       /\ m.do = "gpu" => m = GpuChosen
  BY DEF ToHeader, Selection, GpuChosen

LEMMA AppMessages ==
  /\ ReloadProfiles \in ToApp
  /\ \A b \in BOOLEAN : ReloadData(b) \in ToApp
  /\ \A n \in Name, b \in BOOLEAN : Ask(n, b) \in ToApp
  /\ \A n \in Name, t \in Int : [do |-> "move", name |-> n, to |-> t] \in ToApp
  /\ \A n \in Name : [do |-> "delete", name |-> n] \in ToApp
  /\ \A n \in Name, b \in Name : [do |-> "create", name |-> n, base |-> b] \in ToApp
  /\ \A n \in Name \cup {Empty}, r \in ProfileRules :
        [do |-> "rule", name |-> n, rule |-> r] \in ToApp
  /\ \A m \in ToApp :
       /\ m.do \in {"select", "list", "reload", "move", "delete", "create", "rule"}
       /\ m.do = "select" => m.name \in Name /\ m.auto \in BOOLEAN /\ m = Ask(m.name, m.auto)
       /\ m.do = "list" => m = ReloadProfiles
       /\ m.do = "reload" => m.full \in BOOLEAN /\ m = ReloadData(m.full)
       /\ m.do \in {"move", "delete"} => m.name \in Name
       /\ m.do = "create" => m.name \in Name /\ m.base \in Name
       /\ m.do = "rule" => m.name \in Name \cup {Empty} /\ m.rule \in ProfileRules
  BY DEF ToApp, ReloadProfiles, ReloadData, Ask

LEMMA MessagesAreApart ==
  /\ Selection.do = "select" /\ GpuChosen.do = "gpu" /\ ReloadProfiles.do = "list"
  /\ \A b \in BOOLEAN : ReloadData(b).do = "reload"
  /\ \A n, b : Ask(n, b).do = "select" /\ Ask(n, b).name = n /\ Ask(n, b).auto = b
  BY DEF Selection, GpuChosen, ReloadProfiles, ReloadData, Ask

-----------------------------------------------------------------------------
(* Steps: what the header does with a message.                                 *)
LEMMA Handled ==
  ASSUME HeaderTypes, RowInv, Handles
  PROVE  /\ inbox # <<>> /\ Head(inbox) \in ToHeader
         /\ UNCHANGED <<daemon, hardware, told, app, shown, polling, user, bounds, missed>>
         /\ \/ /\ Head(inbox).do = "profiles" /\ Head(inbox).info = info
               /\ inbox' = Tail(inbox)
               /\ UNCHANGED <<info, rows, selected, gpu, rule, queue, lost>>
            \/ /\ Head(inbox).do = "profiles" /\ Head(inbox).info # info
               /\ Listed(Head(inbox).info)
               /\ inbox' = Append(Tail(inbox), Selection)
               /\ info' = Head(inbox).info /\ rows' = Rows(info') /\ selected' = CurrentRow(info')
               /\ queue' = Append(queue, ReloadData(FALSE)) /\ lost' = lost \ {"select"}
               /\ UNCHANGED <<gpu, rule>>
            \/ /\ Head(inbox) = Selection /\ NameAt(selected) = info.cur
               /\ inbox' = Tail(inbox)
               /\ UNCHANGED <<info, rows, selected, gpu, rule, queue, lost>>
            \/ /\ Head(inbox) = Selection
               /\ inbox' = Append(Tail(inbox), Selection) /\ selected' = CurrentRow(info)
               /\ UNCHANGED <<info, rows, gpu, rule, queue, lost>>
            \/ /\ Head(inbox) = Selection /\ NameAt(selected) # info.cur
               /\ inbox' = Tail(inbox) /\ queue' = Append(queue, Ask(NameAt(selected), FALSE))
               /\ UNCHANGED <<info, rows, selected, gpu, rule, lost>>
            \/ /\ Head(inbox).do = "auto" /\ inbox' = Tail(inbox)
               /\ \E n \in {Default, NameAt(selected)}, a \in BOOLEAN :
                    queue' = Append(queue, Ask(n, a))
               /\ UNCHANGED <<info, rows, selected, gpu, rule, lost>>
            \/ /\ Head(inbox).do = "editor" /\ inbox' = Tail(inbox)
               /\ \/ rule' = rule
                  \/ \E p \in Name, r \in ProfileRules : rule' = Show(rule, p, r)
               /\ UNCHANGED <<info, rows, selected, gpu, queue, lost>>
            \/ /\ Head(inbox) = GpuChosen /\ inbox' = Tail(inbox)
               /\ queue' = Append(queue, ReloadData(TRUE))
               /\ UNCHANGED <<info, rows, selected, gpu, rule, lost>>
<1> DEFINE m == Head(inbox)
           rest == Tail(inbox)
<1>1. /\ inbox # <<>>
      /\ UNCHANGED <<daemon, hardware, told, gpu, app, shown, polling, user, bounds, missed>>
  BY DEF Handles, Handle
<1>2. m \in ToHeader
  BY <1>1, RestIsShifted DEF HeaderTypes
<1>3. /\ m.do \in {"profiles", "select", "auto", "editor", "gpu"}
      /\ m.do = "select" => m = Selection
      /\ m.do = "auto" => m.auto \in BOOLEAN
      /\ m.do = "gpu" => m = GpuChosen
  BY <1>2, HeaderMessages
<1>4. CASE m.do = "profiles"
  <2>1. SetProfilesInfo(m.info, rest) /\ ~Panic
    BY <1>4 DEF Handles, Handle
  <2>2. rows # <<>>
    BY RowsOfProfiles DEF RowInv, HeaderTypes
  <2>3. CASE m.info = info
    BY <1>1, <1>2, <1>4, <2>1, <2>2, <2>3 DEF SetProfilesInfo
  <2>4. CASE m.info # info
    BY <1>1, <1>2, <1>4, <2>1, <2>4 DEF SetProfilesInfo, PagesToo, Reselected
  <2> QED
    BY <2>3, <2>4
<1>5. CASE m.do = "select"
  <2>1. RowSelected(rest) /\ UNCHANGED <<info, rows, rule, lost>>
    BY <1>5 DEF Handles, Handle
  <2>2. info.auto \in BOOLEAN
    BY InfoParts DEF HeaderTypes
  <2>3. CASE NameAt(selected) = info.cur
    BY <1>1, <1>2, <1>3, <1>5, <2>1, <2>3 DEF RowSelected
  <2>4. CASE NameAt(selected) # info.cur /\ info.auto
    BY <1>1, <1>2, <1>3, <1>5, <2>1, <2>4 DEF RowSelected
  <2>5. CASE NameAt(selected) # info.cur /\ ~info.auto
    BY <1>1, <1>2, <1>3, <1>5, <2>1, <2>5 DEF RowSelected
  <2> QED
    BY <2>3, <2>4, <2>5
<1>6. CASE m.do = "auto"
  <2>1. AutoProfileSwitch(m.auto, rest) /\ UNCHANGED <<info, rows, selected, rule, lost>>
    BY <1>6 DEF Handles, Handle
  <2>2. \E n \in {Default, NameAt(selected)}, a \in BOOLEAN : queue' = Append(queue, Ask(n, a))
    BY <1>3, <1>6, <2>1 DEF AutoProfileSwitch
  <2> QED
    BY <1>1, <1>2, <1>6, <2>1, <2>2 DEF AutoProfileSwitch
<1>7. CASE m.do = "editor"
  <2>1. ShowProfileEditor(m.row, rest) /\ ~Panic
    BY <1>7 DEF Handles, Handle
  <2>2. ASSUME m.row \in DOMAIN info.list
        PROVE  \E p \in Name, r \in ProfileRules : rule' = Show(rule, p, r)
    <3>1. /\ info.list[m.row] \in Profile /\ info.list[m.row].name \in Name
      BY <2>2, InfoParts DEF HeaderTypes
    <3>2. info.list[m.row].rule \in ProfileRules \cup {NoRule}
      BY <3>1 DEF Profile
    <3>3. UnwrapOrDefault(info.list[m.row].rule) \in ProfileRules
      BY <3>2, RulesToShow
    <3> QED
      BY <2>1, <2>2, <3>1, <3>3 DEF ShowProfileEditor
  <2>3. m.row \notin DOMAIN info.list => rule' = rule
    BY <2>1 DEF ShowProfileEditor
  <2> QED
    BY <1>1, <1>2, <1>7, <2>1, <2>2, <2>3 DEF ShowProfileEditor
<1>8. CASE m.do = "gpu"
  <2>1. SelectGpu(rest) /\ UNCHANGED <<info, rows, selected, rule, lost>>
    BY <1>8 DEF Handles, Handle
  <2> QED
    BY <1>1, <1>2, <1>3, <1>8, <2>1 DEF SelectGpu
<1> QED
  BY <1>3, <1>4, <1>5, <1>6, <1>7, <1>8

(* Steps: a profile is selected, or the daemon begins to select it.            *)
Keeps(d) == d \in Info /\ d.cur = daemon.cur /\ Change(d)

LEMMA SelectionMade ==
  ASSUME HeaderTypes, NEW n \in Name, NEW a \in BOOLEAN, NEW rest, SelectProfile(Ask(n, a), rest)
  PROVE  /\ queue' \in {rest, Append(rest, ReloadProfiles)}
         /\ \/ a /\ (\E d \in Info : Keeps(d)) /\ UNCHANGED <<hardware, lost>>
            \/ CleanUp("window", n, None) /\ UNCHANGED <<daemon, missed, lost>>
            \/ ~a /\ ~Known(n) /\ UNCHANGED <<daemon, hardware, missed, lost>>
            \/ lost' = lost \cup {"select"} /\ UNCHANGED <<daemon, hardware, missed>>
<1>1. Ask(n, a).name = n /\ Ask(n, a).auto = a
  BY MessagesAreApart
<1>2. /\ [daemon EXCEPT !.auto = TRUE] \in Info
      /\ [daemon EXCEPT !.auto = TRUE].cur = daemon.cur
  BY FlaggedIsInfo DEF HeaderTypes
<1> QED
  BY <1>1, <1>2 DEF SelectProfile, Answered, Keeps

(* Steps: what the application does with a request.                            *)
LEMMA Taken ==
  ASSUME HeaderTypes, Take
  PROVE  /\ queue # <<>> /\ Head(queue) \in ToApp /\ app = Idle /\ switch["window"] = Resting
         /\ UNCHANGED <<info, rows, selected, gpu, rule, user, switches>>
         /\ \/ /\ Head(queue).do = "select" /\ SelectProfile(Head(queue), Tail(queue))
               /\ UNCHANGED <<mailbox, app, shown, polling>>
            \/ /\ Head(queue).do \in {"create", "delete", "move", "rule"}
               /\ queue' \in {Tail(queue), Append(Tail(queue), ReloadProfiles)}
               /\ \/ UNCHANGED <<daemon, missed>>
                  \/ \E d \in Info : Keeps(d)
               /\ \/ UNCHANGED hardware
                  \/ /\ \E n \in Name : CleanUp("window", Default, n)
                     /\ UNCHANGED <<daemon, missed, app>>
               /\ app' \in [do : {"select"}, name : Name] \cup {Idle, [do |-> "tell", name |-> None]}
               /\ UNCHANGED <<mailbox, shown, polling, lost>>
            \/ /\ Head(queue).do = "list" /\ Tell
               /\ queue' = Append(Tail(queue), ReloadData(FALSE))
               /\ UNCHANGED <<daemon, hardware, app, shown, polling, missed, lost>>
            \/ /\ Head(queue).do = "list" /\ queue' = Tail(queue)
               /\ UNCHANGED <<mailbox, daemon, hardware, app, shown, polling, missed, lost>>
            \/ /\ Head(queue).do = "reload" /\ queue' = Tail(queue)
               /\ shown' = [shown EXCEPT !.gpu = gpu, !.stats = applied]
               /\ app' = [do |-> "reload", name |-> None]
               /\ UNCHANGED <<mailbox, daemon, hardware, missed, lost>>
            \/ /\ Head(queue).do = "reload" /\ queue' = Tail(queue)
               /\ lost' = lost \cup {"reload"}
               /\ UNCHANGED <<mailbox, daemon, hardware, app, shown, missed>>
<1> DEFINE m == Head(queue)
           rest == Tail(queue)
<1>1. /\ queue # <<>> /\ app = Idle /\ switch["window"] = Resting
      /\ UNCHANGED <<info, rows, selected, gpu, rule, user, switches>>
  BY DEF Take
<1>2. m \in ToApp
  BY <1>1, RestIsShifted DEF HeaderTypes
<1>3. /\ m.do \in {"select", "list", "reload", "move", "delete", "create", "rule"}
      /\ m.do \in {"move", "delete"} => m.name \in Name
      /\ m.do = "create" => m.name \in Name /\ m.base \in Name
      /\ m.do = "rule" => m.rule \in ProfileRules
  BY <1>2, AppMessages
<1>4. daemon \in Info
  BY DEF HeaderTypes
<1> HIDE DEF m, rest
<1>5. CASE m.do = "select"
  BY <1>1, <1>2, <1>5 DEF Take, m, rest
<1>6. CASE m.do = "create"
  <2>1. CreateProfile(m, rest) /\ UNCHANGED <<hardware, mailbox, shown, polling, lost>>
    BY <1>6 DEF Take, m, rest
  <2>2. ~(Exists(m.name) \/ (m.base # Default /\ ~Exists(m.base))) =>
          /\ With(Append(daemon.list, Based(m))) \in Info
          /\ With(Append(daemon.list, Based(m))).cur = daemon.cur
    BY <1>3, <1>4, <1>6, CreatedIsInfo
  <2>3. queue' = rest
    BY <2>1 DEF CreateProfile
  <2>4. /\ UNCHANGED <<daemon, missed>> \/ \E d \in Info : Keeps(d)
        /\ app' = app \/ app' \in [do : {"select"}, name : Name]
    BY <1>3, <1>6, <2>1, <2>2 DEF CreateProfile, Keeps
  <2> QED
    BY <1>1, <1>2, <1>6, <2>1, <2>3, <2>4 DEF m, rest
<1>7. CASE m.do = "delete"
  <2>1. DeleteProfile(m, rest) /\ UNCHANGED <<mailbox, app, shown, polling, lost>>
    BY <1>7 DEF Take, m, rest
  <2>2. Without(m.name) \in Info /\ Without(m.name).cur = daemon.cur
    BY <1>4, DeletedIsInfo
  <2>3. /\ queue' \in {rest, Append(rest, ReloadProfiles)}
        /\ \/ UNCHANGED hardware /\ \E d \in Info : Keeps(d)
           \/ CleanUp("window", Default, m.name) /\ UNCHANGED <<daemon, missed>>
    BY <2>1, <2>2 DEF DeleteProfile, Answered, Keeps
  <2> QED
    BY <1>1, <1>2, <1>3, <1>7, <2>1, <2>3 DEF m, rest
<1>8. CASE m.do = "move"
  <2>1. MoveProfile(m, rest) /\ UNCHANGED <<hardware, mailbox, app, shown, polling, lost>>
    BY <1>8 DEF Take, m, rest
  <2>2. /\ queue' \in {rest, Append(rest, ReloadProfiles)}
        /\ UNCHANGED <<daemon, missed>> \/ \E d \in Info : Keeps(d)
    <3>1. CASE Exists(m.name) /\ m.to \in DOMAIN daemon.list
      <4> DEFINE from == Position(daemon.list, m.name)
                 list == daemon.list
      <4>1. from \in DOMAIN daemon.list
        BY <3>1, ListedHasPlace DEF Exists
      <4>2. /\ With([list EXCEPT ![from] = list[m.to], ![m.to] = list[from]]) \in Info
            /\ With([list EXCEPT ![from] = list[m.to], ![m.to] = list[from]]).cur = daemon.cur
        BY <1>4, <3>1, <4>1, MovedIsInfo
      <4>3. Change(With([list EXCEPT ![from] = list[m.to], ![m.to] = list[from]]))
        BY <2>1, <3>1 DEF MoveProfile
      <4>4. queue' \in {rest, Append(rest, ReloadProfiles)}
        BY <2>1, <3>1 DEF MoveProfile, Answered
      <4> HIDE DEF from, list
      <4> QED
        BY <4>2, <4>3, <4>4 DEF Keeps
    <3>2. CASE ~(Exists(m.name) /\ m.to \in DOMAIN daemon.list)
      BY <2>1, <3>2 DEF MoveProfile
    <3> QED
      BY <3>1, <3>2
  <2> QED
    BY <1>1, <1>2, <1>8, <2>1, <2>2 DEF m, rest
<1>9. CASE m.do = "rule"
  <2>1. SetProfileRule(m, rest) /\ UNCHANGED <<hardware, mailbox, shown, polling, lost>>
    BY <1>9 DEF Take, m, rest
  <2>2. queue' = rest
    BY <2>1 DEF SetProfileRule
  <2>3. /\ UNCHANGED <<daemon, missed>> \/ \E d \in Info : Keeps(d)
        /\ app' = app \/ app' = [do |-> "tell", name |-> None]
    <3> DEFINE d == With([i \in DOMAIN daemon.list |->
                            IF daemon.list[i].name = m.name
                            THEN [daemon.list[i] EXCEPT !.rule = m.rule] ELSE daemon.list[i]])
    <3>1. d \in Info /\ d.cur = daemon.cur
      BY <1>3, <1>4, <1>9, RuledIsInfo
    <3>2. Exists(m.name) => Change(d) /\ (app' = app \/ app' = [do |-> "tell", name |-> None])
      BY <2>1 DEF SetProfileRule
    <3> HIDE DEF d
    <3>3. ~Exists(m.name) => UNCHANGED <<daemon, missed, app>>
      BY <2>1 DEF SetProfileRule
    <3> QED
      BY <3>1, <3>2, <3>3 DEF Keeps
  <2> QED
    BY <1>1, <1>2, <1>9, <2>1, <2>2, <2>3 DEF m, rest
<1>10. CASE m.do = "list"
  <2>1. ListProfiles(rest) /\ UNCHANGED <<daemon, hardware, app, shown, polling, missed, lost>>
    BY <1>10 DEF Take, m, rest
  <2> QED
    BY <1>1, <1>2, <1>10, <2>1 DEF ListProfiles, m, rest
<1>11. CASE m.do = "reload"
  <2>1. ReloadPages(m, rest) /\ UNCHANGED <<daemon, hardware, mailbox, missed>>
    BY <1>11 DEF Take, m, rest
  <2> QED
    BY <1>1, <1>2, <1>11, <2>1 DEF ReloadPages, m, rest
<1> QED
  BY <1>3, <1>5, <1>6, <1>7, <1>8, <1>9, <1>10, <1>11

(* Steps: the daemon switches.                                                 *)
LEMMA SwitchesMade ==
  ASSUME HeaderTypes, SwitchInv, Switches
  PROVE  /\ UNCHANGED <<header, app, shown, polling, user, switches, lost>>
         /\ queue' \in {queue, Append(queue, ReloadProfiles)}
         /\ \E a \in Actors :
              \/ /\ Store(a) /\ \E d \in Info : Change(d) /\ d.cur = switch[a].name
                 /\ applied' = None
              \/ ApplyCurrent(a) /\ UNCHANGED <<daemon, missed>> /\ applied' \in {applied, daemon.cur, None}
              \/ Finish(a) /\ (\E d \in Info : Keeps(d)) /\ applied' = applied
<1>1. PICK a \in Actors : Store(a) \/ ApplyCurrent(a) \/ Finish(a)
  BY DEF Switches
<1>2. daemon \in Info
  BY DEF HeaderTypes
<1>3. CASE Store(a)
  <2>1. switch[a].name \in Name
    BY <1>3 DEF Store, SwitchInv
  <2>2. /\ [daemon EXCEPT !.cur = switch[a].name] \in Info
        /\ [daemon EXCEPT !.cur = switch[a].name].cur = switch[a].name
    BY <1>2, <2>1, SwitchedIsInfo
  <2> QED
    BY <1>3, <2>2 DEF Store, bounds
<1>4. CASE ApplyCurrent(a)
  BY <1>4 DEF ApplyCurrent, history
<1>5. CASE Finish(a)
  <2>1. /\ [daemon EXCEPT !.auto = FALSE] \in Info
        /\ [daemon EXCEPT !.auto = FALSE].cur = daemon.cur
    BY <1>2, FlaggedIsInfo
  <2>2. Without(switch[a].gone) \in Info /\ Without(switch[a].gone).cur = daemon.cur
    BY <1>2, DeletedIsInfo
  <2>3. \E d \in Info : Keeps(d)
    BY <1>5, <2>1, <2>2 DEF Finish, Keeps
  <2> QED
    BY <1>5, <2>3 DEF Finish, Answered
<1> QED
  BY <1>1, <1>3, <1>4, <1>5

(* Steps: another client, or the rules.                                        *)
LEMMA OthersMade ==
  ASSUME HeaderTypes, Others
  PROVE  /\ UNCHANGED <<header, queue, app, shown, user, lost>>
         /\ \/ (\E d \in Info : Keeps(d)) /\ UNCHANGED hardware
            \/ /\ \E a \in {"client", "watcher"}, n, gone \in Name \cup {None} : CleanUp(a, n, gone)
               /\ UNCHANGED <<daemon, missed>>
<1>1. daemon \in Info /\ Default \in Name
  BY DEF HeaderTypes, Name
<1>2. \A n \in Names(daemon.list) : n \in Name
  BY <1>1, KnownIsName DEF Known, Exists
<1>3. CASE BeginSwitch
  <2>1. PICK n \in Names(daemon.list) \cup {Default}, a \in {"client", "watcher"} :
          CleanUp(a, n, None) /\ UNCHANGED <<daemon, missed>>
    BY <1>3 DEF BeginSwitch
  <2> QED
    BY <1>1, <1>2, <2>1 DEF Others
<1>4. CASE OtherDeletes
  <2>1. PICK n \in Names(daemon.list) :
          \/ CleanUp("client", Default, n) /\ UNCHANGED <<daemon, missed>>
          \/ Change(Without(n)) /\ UNCHANGED hardware
    BY <1>4 DEF OtherDeletes
  <2>2. Without(n) \in Info /\ Without(n).cur = daemon.cur
    BY <1>1, DeletedIsInfo
  <2>3. n \in Name \cup {None} /\ Default \in Name \cup {None}
    BY <1>1, <1>2
  <2> QED
    BY <2>1, <2>2, <2>3 DEF Others, Keeps
<1> QED
  BY <1>3, <1>4 DEF Others

-----------------------------------------------------------------------------
(* The types are kept, and the row that is selected is the current profile's   *)
(* or the one that was clicked.                                                *)
LEMMA RowsKnown ==
  ASSUME HeaderTypes, RowInv
  PROVE  /\ \A r \in DOMAIN rows : r # 0 /\ rows[r] \in Name
         /\ NameAt(selected) = rows[selected] /\ NameAt(selected) \in Name
         /\ \A r \in DOMAIN info.list : r \in DOMAIN rows
  BY RowsOfProfiles DEF HeaderTypes, RowInv, NameAt

(* Steps: what the user sends.                                                 *)
LEMMA UserSends ==
  ASSUME HeaderTypes, RowInv, UserActs
  PROVE  /\ \/ inbox' = inbox
            \/ \E m \in ToHeader : m.do # "profiles" /\ inbox' = Append(inbox, m)
         /\ \/ queue' = queue
            \/ \E m \in ToApp : m.do # "select" /\ queue' = Append(queue, m)
         /\ selected' = selected \/ inbox' = Append(inbox, Selection)
         /\ gpu' = gpu \/ inbox' = Append(inbox, GpuChosen)
         /\ UNCHANGED <<daemon, hardware, told, info, rows, app, shown, missed, lost>>
<1> USE DEF header, mailbox, user, bounds, history
<1>1. info \in Info /\ rule \in Window
  BY DEF HeaderTypes
<1>2. CASE ClickRow
  BY <1>2, HeaderMessages, MessagesAreApart DEF ClickRow, Sent
<1>3. CASE ToggleAuto
  <2>1. [do |-> "auto", auto |-> ~info.auto] \in ToHeader
    BY <1>1, InfoParts, HeaderMessages
  <2> QED
    BY <1>3, <2>1 DEF ToggleAuto, Sent
<1>4. CASE ClickEditor
  <2>1. PICK r \in DOMAIN info.list : Sent([do |-> "editor", row |-> r])
    BY <1>4 DEF ClickEditor
  <2>2. DOMAIN info.list = 1..Len(info.list) /\ Len(info.list) \in Nat
    BY <1>1, InfoParts
  <2>3. r \in Nat
    BY <2>2
  <2>4. [do |-> "editor", row |-> r] \in ToHeader
    BY <2>3, HeaderMessages
  <2> QED
    BY <1>4, <2>1, <2>4 DEF ClickEditor, Sent
<1>5. CASE ClickGpu
  BY <1>5, HeaderMessages DEF ClickGpu, Sent, GpuChosen
<1>6. CASE ClickProfile
  <2>1. \E m \in ToApp : m.do # "select" /\ queue' = Append(queue, m)
    <3>1. \A r \in DOMAIN info.list : rows[r] \in Name /\ r \in 1..Len(info.list)
      BY <1>1, RowsKnown, InfoParts
    <3>2. ASSUME NEW r \in DOMAIN info.list, NEW up \in {-1, 1},
                 Requested([do |-> "move", name |-> rows[r], to |-> r + up])
          PROVE  \E m \in ToApp : m.do # "select" /\ queue' = Append(queue, m)
      <4>1. r + up \in Int
        BY <3>1
      <4>2. [do |-> "move", name |-> rows[r], to |-> r + up] \in ToApp
        BY <3>1, <4>1, AppMessages
      <4> QED
        BY <3>2, <4>2 DEF Requested
    <3>3. ASSUME NEW r \in DOMAIN info.list, Requested([do |-> "delete", name |-> rows[r]])
          PROVE  \E m \in ToApp : m.do # "select" /\ queue' = Append(queue, m)
      BY <3>1, <3>3, AppMessages DEF Requested
    <3>4. ASSUME NEW n \in NewNames, NEW b \in Bases \cap Range(rows),
                 Requested([do |-> "create", name |-> n, base |-> b])
          PROVE  \E m \in ToApp : m.do # "select" /\ queue' = Append(queue, m)
      <4>1. n \in Name /\ b \in Name
        BY RowsKnown DEF Range, Name
      <4> QED
        BY <3>4, <4>1, AppMessages DEF Requested
    <3> QED
      BY <1>6, <3>2, <3>3, <3>4 DEF ClickProfile
  <2> QED
    BY <1>6, <2>1 DEF ClickProfile
<1>7. CASE EditRule
  BY <1>7 DEF EditRule
<1>8. CASE CloseRule
  <2>1. GetRule(rule) \in ProfileRules /\ rule.profile \in Name \cup {Empty}
    BY <1>1, RuleOfWindow DEF Window
  <2>2. [do |-> "rule", name |-> rule.profile, rule |-> GetRule(rule)] \in ToApp
    BY <2>1, AppMessages
  <2> QED
    BY <1>8, <2>2 DEF CloseRule, Requested
<1> QED
  BY <1>2, <1>3, <1>4, <1>5, <1>6, <1>7, <1>8 DEF UserActs

LEMMA ChangedTypes ==
  ASSUME HeaderTypes, NEW d \in Info, Change(d)
  PROVE  daemon' \in Info /\ missed' \in BOOLEAN
  BY DEF HeaderTypes, Change

(* Every step is one the daemon has no part in, or a change of its profiles, or *)
(* of what switches them.                                                      *)
LEMMA DaemonMoves ==
  ASSUME HeaderTypes, RowInv, SwitchInv, Moves
  PROVE  /\ UNCHANGED <<daemon, missed>> \/ (UNCHANGED mailbox /\ \E d \in Info : Change(d))
         /\ \/ UNCHANGED <<hardware, app>> \/ Take \/ SelectCreated \/ TellRule \/ ReloadRest
            \/ Others \/ Switches
         /\ \/ daemon'.cur = daemon.cur /\ applied' \in {applied, None, daemon.cur}
            \/ applied' = None
<1> USE DEF header, mailbox, user, bounds, history, hardware
<1>1. \A d : Keeps(d) => d \in Info /\ Change(d) /\ daemon'.cur = daemon.cur
  BY DEF Keeps, Change
<1>2. \A a, n, gone : CleanUp(a, n, gone) => applied' = None
  BY DEF CleanUp
<1>3. CASE Handles
  BY <1>3, Handled
<1>4. CASE Take
  <2>1. CASE Head(queue).do = "select"
    <3>1. SelectProfile(Head(queue), Tail(queue)) /\ UNCHANGED mailbox
      BY <1>4, <2>1, Taken
    <3>2. /\ Head(queue).name \in Name /\ Head(queue).auto \in BOOLEAN
          /\ Head(queue) = Ask(Head(queue).name, Head(queue).auto)
      BY <1>4, <2>1, Taken, AppMessages
    <3>3. \/ (\E d \in Info : Keeps(d)) /\ UNCHANGED hardware
          \/ CleanUp("window", Head(queue).name, None) /\ UNCHANGED <<daemon, missed>>
          \/ UNCHANGED <<daemon, hardware, missed>>
      BY <3>1, <3>2, SelectionMade
    <3> QED
      BY <1>1, <1>2, <1>4, <3>1, <3>3
  <2>2. CASE Head(queue).do # "select"
    <3>1. /\ UNCHANGED <<daemon, missed>> \/ (UNCHANGED mailbox /\ \E d \in Info : Keeps(d))
          /\ \/ UNCHANGED hardware
             \/ UNCHANGED <<daemon, missed>> /\ \E n \in Name : CleanUp("window", Default, n)
      BY <1>4, <2>2, Taken
    <3> QED
      BY <1>1, <1>2, <1>4, <3>1
  <2> QED
    BY <2>1, <2>2
<1>5. CASE SelectCreated
  <2>1. app.name \in Name /\ info.auto \in BOOLEAN
    BY <1>5, InfoParts DEF SelectCreated, HeaderTypes
  <2>2. \/ (\E d \in Info : Keeps(d)) /\ UNCHANGED hardware
        \/ CleanUp("window", app.name, None) /\ UNCHANGED <<daemon, missed>>
        \/ UNCHANGED <<daemon, hardware, missed>>
    BY <1>5, <2>1, SelectionMade DEF SelectCreated
  <2>3. UNCHANGED mailbox
    BY <1>5 DEF SelectCreated
  <2> QED
    BY <1>1, <1>2, <1>5, <2>2, <2>3
<1>6. CASE TellRule \/ ReloadRest
  BY <1>6 DEF TellRule, ReloadRest
<1>7. CASE Poll
  BY <1>7 DEF Poll
<1>8. CASE UserActs
  BY <1>8, UserSends
<1>9. CASE Others
  <2>1. UNCHANGED mailbox
    BY <1>9, OthersMade
  <2>2. \/ (\E d \in Info : Keeps(d)) /\ UNCHANGED hardware
        \/ applied' = None /\ UNCHANGED <<daemon, missed>>
    BY <1>2, <1>9, OthersMade
  <2> QED
    BY <1>1, <1>9, <2>1, <2>2
<1>10. CASE Switches
  <2>1. UNCHANGED mailbox
    BY <1>10, SwitchesMade
  <2>2. \/ (\E d \in Info : Change(d)) /\ applied' = None
        \/ UNCHANGED <<daemon, missed>> /\ applied' \in {applied, None, daemon.cur}
        \/ (\E d \in Info : Keeps(d)) /\ applied' = applied
    BY <1>10, SwitchesMade
  <2> QED
    BY <1>1, <1>10, <2>1, <2>2
<1> QED
  BY <1>3, <1>4, <1>5, <1>6, <1>7, <1>8, <1>9, <1>10 DEF Moves

LEMMA TellTypes ==
  ASSUME HeaderTypes, Tell
  PROVE  told' \in Info /\ inbox' \in Seq(ToHeader)
<1>1. [do |-> "profiles", info |-> daemon] \in ToHeader
  BY HeaderMessages DEF HeaderTypes
<1> QED
  BY <1>1, SentIsLast DEF HeaderTypes, Tell, Sent

LEMMA TypesAreKept ==
  ASSUME HeaderTypes, RowInv, SwitchInv, Moves
  PROVE  HeaderTypes'
<1> USE DEF header, mailbox, user, bounds, history
<1>1. /\ daemon \in Info /\ told \in Info /\ info \in Info /\ Listed(info)
      /\ inbox \in Seq(ToHeader) /\ queue \in Seq(ToApp)
      /\ app \in [do : {"idle", "select", "tell", "reload"}, name : Name \cup {None}]
      /\ app.do = "select" => app.name \in Name
      /\ rule \in Window /\ missed \in BOOLEAN
      /\ shown = [gpu |-> shown.gpu, stats |-> shown.stats, states |-> shown.states]
  BY DEF HeaderTypes
<1>2. /\ Selection \in ToHeader /\ GpuChosen \in ToHeader /\ ReloadProfiles \in ToApp
      /\ \A b \in BOOLEAN : ReloadData(b) \in ToApp
      /\ \A n \in Name, b \in BOOLEAN : Ask(n, b) \in ToApp
      /\ Default \in Name
  BY HeaderMessages, AppMessages DEF Name
<1>3. NameAt(selected) \in Name
  BY RowsKnown
<1>4. inbox # <<>> => Tail(inbox) \in Seq(ToHeader)
  BY <1>1, RestIsShifted
<1>5. queue # <<>> => Tail(queue) \in Seq(ToApp)
  BY <1>1, RestIsShifted
<1>6. Idle \in [do : {"idle", "select", "tell", "reload"}, name : Name \cup {None}]
      /\ Idle.do # "select"
  BY DEF Idle
<1>20. daemon' \in Info /\ missed' \in BOOLEAN
  BY <1>1, DaemonMoves, ChangedTypes
<1>21. info' = info => Listed(info)'
  BY <1>1 DEF Listed
<1>7. CASE Handles
  <2>1. /\ daemon' \in Info /\ told' \in Info /\ missed' \in BOOLEAN /\ app' = app /\ shown' = shown
        /\ inbox # <<>> /\ Head(inbox) \in ToHeader
    BY <1>1, <1>7, Handled
  <2>2. info' \in Info /\ Listed(info)'
    <3>1. Head(inbox).do = "profiles" => Head(inbox).info \in Info
      BY <2>1, HeaderMessages
    <3>2. info' = info \/ (Head(inbox).do = "profiles" /\ info' = Head(inbox).info /\ Listed(info'))
      BY <1>7, Handled
    <3> QED
      BY <1>1, <1>21, <3>1, <3>2 DEF Listed
  <2>3. inbox' \in Seq(ToHeader)
    <3>1. Append(Tail(inbox), Selection) \in Seq(ToHeader)
      BY <1>2, <1>4, <2>1, SentIsLast
    <3> QED
      BY <1>4, <1>7, <2>1, <3>1, Handled
  <2>4. queue' \in Seq(ToApp)
    <3>1. \A m \in ToApp : Append(queue, m) \in Seq(ToApp)
      BY <1>1, SentIsLast
    <3> QED
      BY <1>1, <1>2, <1>3, <1>7, <3>1, Handled
  <2>5. rule' \in Window
    <3>1. \A p \in Name, r \in ProfileRules : Show(rule, p, r) \in Window
      BY <1>1, ShownIsFresh
    <3> QED
      BY <1>1, <1>7, <3>1, Handled
  <2> QED
    BY <1>1, <2>1, <2>2, <2>3, <2>4, <2>5 DEF HeaderTypes
<1>8. CASE Take
  <2>1. /\ queue # <<>> /\ Head(queue) \in ToApp /\ app = Idle
        /\ info' = info /\ rule' = rule
    BY <1>8, Taken
  <2>2. Append(Tail(queue), ReloadProfiles) \in Seq(ToApp)
        /\ Append(Tail(queue), ReloadData(FALSE)) \in Seq(ToApp)
    BY <1>2, <1>5, <2>1, SentIsLast
  <2>3. CASE /\ Head(queue).do = "select" /\ SelectProfile(Head(queue), Tail(queue))
             /\ UNCHANGED <<mailbox, app, shown, polling>>
    <3>1. /\ Head(queue).name \in Name /\ Head(queue).auto \in BOOLEAN
          /\ Head(queue) = Ask(Head(queue).name, Head(queue).auto)
      BY <2>1, <2>3, AppMessages
    <3>2. queue' \in {Tail(queue), Append(Tail(queue), ReloadProfiles)}
      BY <2>3, <3>1, SelectionMade
    <3>4. queue' \in Seq(ToApp)
      BY <1>5, <2>1, <2>2, <3>2
    <3> QED
      BY <1>1, <1>20, <1>21, <2>1, <2>3, <3>4 DEF HeaderTypes
  <2>4. CASE /\ Head(queue).do \in {"create", "delete", "move", "rule"}
             /\ queue' \in {Tail(queue), Append(Tail(queue), ReloadProfiles)}
             /\ app' \in [do : {"select"}, name : Name] \cup {Idle, [do |-> "tell", name |-> None]}
             /\ UNCHANGED <<mailbox, shown, polling, lost>>
    <3>2. queue' \in Seq(ToApp)
      BY <1>5, <2>1, <2>2, <2>4
    <3>3. /\ app' \in [do : {"idle", "select", "tell", "reload"}, name : Name \cup {None}]
          /\ app'.do = "select" => app'.name \in Name
      BY <1>6, <2>4
    <3> QED
      BY <1>1, <1>20, <1>21, <2>1, <2>4, <3>2, <3>3 DEF HeaderTypes
  <2>5. CASE /\ Head(queue).do = "list" /\ Tell
             /\ queue' = Append(Tail(queue), ReloadData(FALSE))
             /\ UNCHANGED <<daemon, app, shown, polling, missed, lost>>
    <3>1. told' \in Info /\ inbox' \in Seq(ToHeader)
      BY <2>5, TellTypes
    <3> QED
      BY <1>1, <1>21, <2>1, <2>2, <2>5, <3>1 DEF HeaderTypes
  <2>6. CASE /\ Head(queue).do = "list" /\ queue' = Tail(queue)
             /\ UNCHANGED <<mailbox, daemon, app, shown, polling, missed, lost>>
    BY <1>1, <1>5, <1>21, <2>1, <2>6 DEF HeaderTypes
  <2>7. CASE /\ Head(queue).do = "reload" /\ queue' = Tail(queue)
             /\ shown' = [shown EXCEPT !.gpu = gpu, !.stats = applied]
             /\ app' = [do |-> "reload", name |-> None]
             /\ UNCHANGED <<mailbox, daemon, missed, lost>>
    <3>1. shown' = [gpu |-> shown'.gpu, stats |-> shown'.stats, states |-> shown'.states]
      BY <1>1, <2>7
    <3>2. /\ app' \in [do : {"idle", "select", "tell", "reload"}, name : Name \cup {None}]
          /\ app'.do # "select"
      BY <2>7
    <3> QED
      BY <1>1, <1>5, <1>21, <2>1, <2>7, <3>1, <3>2 DEF HeaderTypes
  <2>8. CASE /\ Head(queue).do = "reload" /\ queue' = Tail(queue)
             /\ lost' = lost \cup {"reload"}
             /\ UNCHANGED <<mailbox, daemon, app, shown, missed>>
    BY <1>1, <1>5, <1>21, <2>1, <2>8 DEF HeaderTypes
  <2> QED
    BY <1>8, <2>3, <2>4, <2>5, <2>6, <2>7, <2>8, Taken
<1>9. CASE SelectCreated
  <2>1. /\ app.do = "select" /\ SelectProfile(Ask(app.name, info.auto), queue)
        /\ app' = Idle /\ UNCHANGED <<header, shown, polling, user, switches>>
    BY <1>9 DEF SelectCreated
  <2>2. app.name \in Name /\ info.auto \in BOOLEAN
    BY <1>1, <2>1, InfoParts
  <2>3. queue' \in {queue, Append(queue, ReloadProfiles)}
    BY <2>1, <2>2, SelectionMade
  <2>5. queue' \in Seq(ToApp)
    BY <1>1, <1>2, <2>3, SentIsLast
  <2> QED
    BY <1>1, <1>6, <1>20, <1>21, <2>1, <2>5 DEF HeaderTypes
<1>10. CASE TellRule
  <2>1. told' \in Info /\ inbox' \in Seq(ToHeader)
    BY <1>10, TellTypes DEF TellRule
  <2> QED
    BY <1>1, <1>6, <1>10, <1>21, <2>1 DEF TellRule, HeaderTypes
<1>11. CASE ReloadRest
  <2>1. shown' = [gpu |-> shown'.gpu, stats |-> shown'.stats, states |-> shown'.states]
    BY <1>1, <1>11 DEF ReloadRest
  <2> QED
    BY <1>1, <1>6, <1>11, <1>21, <2>1 DEF ReloadRest, HeaderTypes
<1>12. CASE Poll
  <2>1. told' \in Info /\ inbox' \in Seq(ToHeader)
    BY <1>12, TellTypes DEF Poll
  <2> QED
    BY <1>1, <1>12, <1>21, <2>1 DEF Poll, HeaderTypes
<1>13. CASE UserActs
  <2>1. UNCHANGED <<daemon, told, info, app, shown, missed>>
    BY <1>13, UserSends
  <2>2. inbox' \in Seq(ToHeader)
    <3>1. \A m \in ToHeader : Append(inbox, m) \in Seq(ToHeader)
      BY <1>1, SentIsLast
    <3> QED
      BY <1>1, <1>13, <3>1, UserSends
  <2>3. queue' \in Seq(ToApp)
    <3>1. \A m \in ToApp : Append(queue, m) \in Seq(ToApp)
      BY <1>1, SentIsLast
    <3> QED
      BY <1>1, <1>13, <3>1, UserSends
  <2>4. rule' \in Window
    <3>1. EditRule => rule' \in Window
      BY <1>1, EditedIsTouched DEF EditRule
    <3>2. CloseRule => rule' \in Window
      BY <1>1 DEF CloseRule, Window
    <3>3. ClickRow \/ ToggleAuto \/ ClickEditor \/ ClickGpu \/ ClickProfile => rule' = rule
      BY DEF ClickRow, ToggleAuto, ClickEditor, ClickGpu, ClickProfile
    <3> QED
      BY <1>1, <1>13, <3>1, <3>2, <3>3 DEF UserActs
  <2> QED
    BY <1>1, <1>21, <2>1, <2>2, <2>3, <2>4 DEF HeaderTypes
<1>14. CASE Others
  BY <1>1, <1>14, <1>20, <1>21, OthersMade DEF HeaderTypes
<1>15. CASE Switches
  <2>1. /\ queue' \in {queue, Append(queue, ReloadProfiles)}
        /\ UNCHANGED <<header, app, shown>>
    BY <1>15, SwitchesMade
  <2>2. queue' \in Seq(ToApp)
    BY <1>1, <1>2, <2>1, SentIsLast
  <2> QED
    BY <1>1, <1>20, <1>21, <2>1, <2>2 DEF HeaderTypes
<1> QED
  BY <1>7, <1>8, <1>9, <1>10, <1>11, <1>12, <1>13, <1>14, <1>15 DEF Moves

(* A switch goes on with the name of a profile; the hardware has the settings  *)
(* of the current one, or is being changed.                                    *)
LEMMA SwitchIsKept ==
  ASSUME HeaderTypes, RowInv, SwitchInv, Moves
  PROVE  SwitchInv'
<1> USE DEF header, mailbox, user, bounds, history, hardware
<1>1. /\ switch \in [Actors -> Stage] /\ applied \in {daemon.cur, None}
      /\ \A a \in Actors : switch[a].at = "store" => switch[a].name \in Name
      /\ app.do = "select" => switch["window"] = Resting
      /\ "window" \in Actors /\ Resting \in Stage /\ Resting.at = "rest"
  BY DEF SwitchInv, Actors, Resting, Stage
<1>2. applied' \in {daemon'.cur, None}
  BY <1>1, DaemonMoves
<1>3. ASSUME NEW a \in Actors, NEW st \in Stage, switch' = [switch EXCEPT ![a] = st],
             st.at = "store" => st.name \in Name,
             app'.do = "select" => switch'["window"] = Resting
      PROVE  SwitchInv'
  BY <1>1, <1>2, <1>3 DEF SwitchInv
<1>4. ASSUME NEW a \in Actors, NEW n, NEW gone \in Name \cup {None}, CleanUp(a, n, gone),
             app'.do = "select" => switch'["window"] = Resting
      PROVE  SwitchInv'
  <2>1. n \in Name
    BY <1>4, KnownIsName DEF CleanUp, HeaderTypes
  <2>2. [at |-> "store", name |-> n, gone |-> gone] \in Stage
    BY <1>4, <2>1 DEF Stage
  <2> QED
    BY <1>3, <1>4, <2>1, <2>2 DEF CleanUp
<1>5. ASSUME switch' = switch, app'.do = "select" => app.do = "select" \/ switch["window"] = Resting
      PROVE  SwitchInv'
  BY <1>1, <1>2, <1>5 DEF SwitchInv
<1>6. Idle.do # "select"
  BY DEF Idle
<1>7. CASE Take
  <2>1. switch["window"] = Resting /\ app = Idle
    BY <1>7, Taken
  <2>2. CASE Head(queue).do = "select"
    <3>1. SelectProfile(Head(queue), Tail(queue)) /\ app' = app
      BY <1>7, <2>2, Taken
    <3>2. /\ Head(queue).name \in Name /\ Head(queue).auto \in BOOLEAN
          /\ Head(queue) = Ask(Head(queue).name, Head(queue).auto)
      BY <1>7, <2>2, Taken, AppMessages
    <3>3. CleanUp("window", Head(queue).name, None) \/ UNCHANGED hardware
      BY <3>1, <3>2, SelectionMade
    <3> QED
      BY <1>1, <1>4, <1>5, <1>6, <2>1, <3>1, <3>3
  <2>3. CASE Head(queue).do # "select"
    <3>1. \/ UNCHANGED hardware
          \/ app' = app /\ \E n \in Name : CleanUp("window", Default, n)
      BY <1>7, <2>3, Taken
    <3> QED
      BY <1>1, <1>4, <1>5, <1>6, <2>1, <3>1
  <2> QED
    BY <2>2, <2>3
<1>8. CASE SelectCreated
  <2>1. app.name \in Name /\ info.auto \in BOOLEAN /\ app' = Idle
    BY <1>8, InfoParts DEF SelectCreated, HeaderTypes
  <2>2. CleanUp("window", app.name, None) \/ UNCHANGED hardware
    BY <1>8, <2>1, SelectionMade DEF SelectCreated
  <2> QED
    BY <1>1, <1>4, <1>5, <1>6, <2>1, <2>2
<1>9. CASE TellRule \/ ReloadRest
  BY <1>5, <1>6, <1>9 DEF TellRule, ReloadRest
<1>10. CASE Others
  <2>1. app' = app
    BY <1>10, OthersMade
  <2>2. CASE UNCHANGED hardware
    BY <1>5, <2>1, <2>2
  <2>3. CASE \E a \in {"client", "watcher"}, n, gone \in Name \cup {None} : CleanUp(a, n, gone)
    <3>1. PICK a \in {"client", "watcher"}, n, gone \in Name \cup {None} : CleanUp(a, n, gone)
      BY <2>3
    <3>2. a \in Actors /\ a # "window"
      BY DEF Actors
    <3>3. switch'["window"] = switch["window"]
      BY <1>1, <3>1, <3>2 DEF CleanUp
    <3> QED
      BY <1>1, <1>4, <2>1, <3>1, <3>2, <3>3
  <2> QED
    BY <1>10, <2>2, <2>3, OthersMade
<1>11. CASE Switches
  <2>1. PICK a \in Actors : Store(a) \/ ApplyCurrent(a) \/ Finish(a)
    BY <1>11 DEF Switches
  <2>2. app' = app /\ switch[a].at \in {"store", "apply", "finish"}
    BY <2>1 DEF Store, ApplyCurrent, Finish
  <2>3. app'.do = "select" => a # "window"
    BY <1>1, <2>2
  <2>4. /\ [switch[a] EXCEPT !.at = "apply", !.name = None] \in Stage
        /\ [switch[a] EXCEPT !.at = "apply", !.name = None].at = "apply"
        /\ [switch[a] EXCEPT !.at = "finish"] \in Stage
        /\ [switch[a] EXCEPT !.at = "finish"].at = "finish"
    <3>1. switch[a] \in Stage
      BY <1>1
    <3> QED
      BY <3>1 DEF Stage
  <2>5. PICK st \in Stage : switch' = [switch EXCEPT ![a] = st] /\ st.at # "store"
    BY <1>1, <2>1, <2>4 DEF Store, ApplyCurrent, Finish
  <2>6. app'.do = "select" => switch'["window"] = Resting
    BY <1>1, <2>2, <2>3, <2>5
  <2> QED
    BY <1>3, <2>5, <2>6
<1>12. CASE UNCHANGED <<hardware, app>>
  BY <1>5, <1>12
<1> QED
  BY <1>7, <1>8, <1>9, <1>10, <1>11, <1>12, DaemonMoves

LEMMA RowsAreKept ==
  ASSUME HeaderTypes, RowInv, SwitchInv, Moves
  PROVE  RowInv'
<1> USE DEF header, mailbox, user, bounds, history
<1>1. /\ rows = Rows(info) /\ selected \in DOMAIN rows
      /\ NameAt(selected) \in {info.cur, clicked}
      /\ info \in Info /\ Listed(info)
  BY DEF RowInv, HeaderTypes
<1>2. \A r \in DOMAIN rows : r # 0 /\ rows[r] \in Name
  BY RowsKnown
<1>3. ASSUME NEW i \in Info, Listed(i)
      PROVE  /\ CurrentRow(i) \in DOMAIN Rows(i) /\ CurrentRow(i) # 0
             /\ Rows(i)[CurrentRow(i)] = i.cur
  BY <1>3, RowsOfProfiles
<1>4. CASE Handles
  <2>1. CASE UNCHANGED <<info, rows, selected>>
    <3>1. clicked' = clicked
      BY <1>4, Handled
    <3> QED
      BY <1>1, <2>1, <3>1 DEF RowInv, NameAt
  <2>2. CASE /\ Head(inbox).do = "profiles" /\ Listed(Head(inbox).info)
             /\ info' = Head(inbox).info /\ rows' = Rows(info') /\ selected' = CurrentRow(info')
    <3>1. Head(inbox).info \in Info
      BY <1>4, <2>2, Handled, HeaderMessages
    <3> QED
      BY <1>3, <2>2, <3>1 DEF RowInv, NameAt
  <2>3. CASE UNCHANGED <<info, rows>> /\ selected' = CurrentRow(info)
    BY <1>1, <1>3, <2>3 DEF RowInv, NameAt
  <2> QED
    BY <1>4, <2>1, <2>2, <2>3, Handled
<1>5. CASE ClickRow
  <2>1. /\ selected' \in DOMAIN rows /\ clicked' = rows[selected']
        /\ rows' = rows /\ info' = info
    BY <1>5 DEF ClickRow
  <2> QED
    BY <1>1, <1>2, <2>1 DEF RowInv, NameAt
<1>6. CASE UNCHANGED <<info, rows, selected, clicked>>
  BY <1>1, <1>6 DEF RowInv, NameAt
<1>7. Take \/ SelectCreated \/ TellRule \/ ReloadRest \/ Poll \/ Others
        => UNCHANGED <<info, rows, selected, clicked>>
  BY DEF Take, SelectCreated, TellRule, ReloadRest, Poll, Others
<1>9. Switches => UNCHANGED <<info, rows, selected, clicked>>
  BY SwitchesMade
<1>8. UserActs => ClickRow \/ UNCHANGED <<info, rows, selected, clicked>>
  BY DEF UserActs, ToggleAuto, ClickEditor, ClickGpu, ClickProfile, EditRule, CloseRule
<1> QED
  BY <1>4, <1>5, <1>6, <1>7, <1>8, <1>9 DEF Moves

(* The window shows the rule it was given until the user changes it.           *)
LEMMA WindowIsKept ==
  ASSUME HeaderTypes, RowInv, SwitchInv, WindowInv, Moves
  PROVE  WindowInv'
<1> USE DEF header, mailbox, user, bounds, history
<1>1. rule \in Window
  BY DEF HeaderTypes
<1>2. CASE rule' = rule
  BY <1>2 DEF WindowInv
<1>3. CASE \E p \in Name, r \in ProfileRules : rule' = Show(rule, p, r)
  BY <1>1, <1>3, ShownIsFresh DEF WindowInv
<1>4. CASE EditRule
  BY <1>1, <1>4, EditedIsTouched DEF EditRule, WindowInv
<1>5. CASE CloseRule
  <2>1. rule' = [rule EXCEPT !.visible = FALSE]
    BY <1>5 DEF CloseRule
  <2>2. ~rule'.visible
    BY <1>1, <2>1 DEF Window
  <2> QED
    BY <2>2 DEF WindowInv
<1>6. Handles => rule' = rule \/ \E p \in Name, r \in ProfileRules : rule' = Show(rule, p, r)
  BY Handled
<1>7. Take \/ SelectCreated \/ TellRule \/ ReloadRest \/ Poll \/ Others => rule' = rule
  BY DEF Take, SelectCreated, TellRule, ReloadRest, Poll, Others
<1>9. Switches => rule' = rule
  BY SwitchesMade
<1>8. UserActs => rule' = rule \/ EditRule \/ CloseRule
  BY DEF UserActs, ClickRow, ToggleAuto, ClickEditor, ClickGpu, ClickProfile
<1> QED
  BY <1>2, <1>3, <1>4, <1>5, <1>6, <1>7, <1>8, <1>9 DEF Moves

-----------------------------------------------------------------------------
(* What the header was told last is on its way or handled.                     *)
LEMMA TellIsNews ==
  ASSUME HeaderTypes, Tell
  PROVE  /\ \A i : ToldIn(inbox', i, told')
         /\ \A i : NewsIn(inbox, i) \/ daemon # i => NewsIn(inbox', i)
         /\ told' = daemon
<1>1. inbox' = Append(inbox, [do |-> "profiles", info |-> daemon]) /\ told' = daemon
  BY DEF Tell, Sent
<1>2. inbox \in Seq(ToHeader) /\ daemon \in Info
  BY DEF HeaderTypes
<1> QED
  BY <1>1, <1>2, ToldIsNews

LEMMA UserIsNoNews ==
  ASSUME HeaderTypes, RowInv, UserActs
  PROVE  /\ ToldIn(inbox, info, told) => ToldIn(inbox', info, told)
         /\ NewsIn(inbox, info) => NewsIn(inbox', info)
         /\ \A n : Contains(inbox, n) => Contains(inbox', n)
         /\ \A n : Contains(queue, n) => Contains(queue', n)
<1>1. inbox \in Seq(ToHeader) /\ queue \in Seq(ToApp)
  BY DEF HeaderTypes
<1>2. \A m \in ToHeader : m.do # "profiles" =>
        /\ ToldIn(inbox, info, told) => ToldIn(Append(inbox, m), info, told)
        /\ NewsIn(inbox, info) => NewsIn(Append(inbox, m), info)
  BY <1>1, OtherIsNoNews
<1>3. \A m \in ToHeader : \A n : Contains(inbox, n) => Contains(Append(inbox, m), n)
  BY <1>1, SentIsThere
<1>4. \A m \in ToApp : \A n : Contains(queue, n) => Contains(Append(queue, m), n)
  BY <1>1, SentIsThere
<1> QED
  BY <1>2, <1>3, <1>4, UserSends

(* A change by the daemon: the header knows, or will be told, or it is missed. *)
LEMMA ChangeIsNews ==
  ASSUME NEW d, Change(d), News \/ missed, UNCHANGED <<mailbox, info>>
  PROVE  News' \/ missed'
  BY DEF Change, News, mailbox

LEMMA ToldIsKept ==
  ASSUME HeaderTypes, RowInv, SwitchInv, ToldInv, Moves
  PROVE  ToldInv'
<1> USE DEF header, mailbox, user, bounds, history
<1>1. ToldIn(inbox, info, told) /\ inbox \in Seq(ToHeader) /\ Selection \in ToHeader
  BY HeaderMessages DEF ToldInv, HeaderTypes
<1>2. CASE Handles
  <2>1. inbox # <<>> /\ told' = told /\ Tail(inbox) \in Seq(ToHeader)
    BY <1>1, <1>2, Handled, RestIsShifted
  <2>2. ToldIn(Tail(inbox), info', told)
    <3>1. CASE Head(inbox).do # "profiles"
      <4>1. info' = info
        BY <1>2, <3>1, Handled
      <4> QED
        BY <1>1, <2>1, <3>1, <4>1, TakenIsKnown
    <3>2. CASE Head(inbox).do = "profiles"
      <4>1. info' = Head(inbox).info
        BY <1>2, <3>2, Handled, MessagesAreApart
      <4> QED
        BY <1>1, <2>1, <3>2, <4>1, TakenIsKnown
    <3> QED
      BY <3>1, <3>2
  <2>3. ToldIn(Append(Tail(inbox), Selection), info', told)
    BY <1>1, <2>1, <2>2, OtherIsNoNews, MessagesAreApart
  <2>4. inbox' = Tail(inbox) \/ inbox' = Append(Tail(inbox), Selection)
    BY <1>2, Handled
  <2> QED
    BY <2>1, <2>2, <2>3, <2>4 DEF ToldInv
<1>3. CASE Tell
  BY <1>3, TellIsNews DEF ToldInv
<1>4. CASE UserActs
  <2>1. told' = told /\ info' = info
    BY <1>4, UserSends
  <2> QED
    BY <1>1, <1>4, <2>1, UserIsNoNews DEF ToldInv
<1>5. CASE UNCHANGED <<inbox, info, told>>
  BY <1>1, <1>5 DEF ToldInv
<1>6. Take => Tell \/ UNCHANGED <<inbox, info, told>>
  BY Taken
<1>7. SelectCreated \/ TellRule \/ ReloadRest \/ Poll \/ Others
        => Tell \/ UNCHANGED <<inbox, info, told>>
  BY DEF SelectCreated, TellRule, ReloadRest, Poll, Others
<1>8. Switches => UNCHANGED <<inbox, info, told>>
  BY SwitchesMade
<1> QED
  BY <1>2, <1>3, <1>4, <1>5, <1>6, <1>7, <1>8 DEF Moves

-----------------------------------------------------------------------------
(* News stay news until the header learns them.                                *)
LEMMA NewsStay ==
  ASSUME HeaderTypes, RowInv, SwitchInv, ToldInv, Moves, News \/ missed, info' = info
  PROVE  News' \/ missed'
<1> USE DEF header, mailbox, user, bounds, history
<1>1. inbox \in Seq(ToHeader) /\ Selection \in ToHeader
  BY HeaderMessages DEF HeaderTypes
<1>2. CASE Handles
  <2>1. /\ inbox # <<>> /\ Tail(inbox) \in Seq(ToHeader)
        /\ UNCHANGED <<daemon, told, missed>>
    BY <1>1, <1>2, Handled, RestIsShifted
  <2>2. Head(inbox).do = "profiles" => Head(inbox).info = info
    BY <1>2, Handled, MessagesAreApart
  <2>3. NewsIn(inbox, info) => NewsIn(Tail(inbox), info)
    BY <1>1, <2>1, <2>2, TakenIsKnown
  <2>4. NewsIn(Tail(inbox), info) => NewsIn(Append(Tail(inbox), Selection), info)
    BY <1>1, <2>1, OtherIsNoNews, MessagesAreApart
  <2>5. inbox' = Tail(inbox) \/ inbox' = Append(Tail(inbox), Selection)
    BY <1>2, Handled
  <2> QED
    BY <2>1, <2>3, <2>4, <2>5 DEF News
<1>3. CASE Tell /\ UNCHANGED <<daemon, missed>>
  <2>1. daemon # told => daemon # info \/ NewsIn(inbox, info)
    BY DEF ToldInv, ToldIn, NewsIn
  <2> QED
    BY <1>3, <2>1, TellIsNews DEF News
<1>4. CASE (\E d \in Info : Change(d)) /\ UNCHANGED mailbox
  BY <1>4, ChangeIsNews
<1>5. CASE UserActs
  BY <1>5, UserSends, UserIsNoNews DEF News
<1>6. CASE UNCHANGED <<mailbox, daemon, missed>>
  BY <1>6 DEF News
<1>7. CASE Take
  <2>1. (Tell /\ UNCHANGED <<daemon, missed>>) \/ UNCHANGED mailbox
    BY <1>7, Taken
  <2> QED
    BY <1>3, <1>4, <1>6, <2>1, DaemonMoves
<1>8. SelectCreated \/ ReloadRest \/ Others => UNCHANGED mailbox
  BY DEF SelectCreated, ReloadRest, Others
<1>9. Switches => UNCHANGED mailbox
  BY SwitchesMade
<1>10. TellRule \/ Poll => Tell /\ UNCHANGED <<daemon, missed>>
  BY DEF TellRule, Poll
<1> QED
  BY <1>2, <1>3, <1>4, <1>5, <1>6, <1>7, <1>8, <1>9, <1>10, DaemonMoves DEF Moves

(* A profile that is about to be selected in the daemon: it is stored, which   *)
(* is news, or has gone, which was.                                            *)
LEMMA StoredIsNews ==
  ASSUME ToldInv, NEW d, Change(d), d.cur # info.cur, UNCHANGED <<mailbox, info>>
  PROVE  News'
<1>1. daemon'.cur # info.cur /\ told' = told /\ inbox' = inbox
  BY DEF Change, mailbox
<1>2. told # info => NewsIn(inbox, info)
  BY DEF ToldInv, ToldIn, NewsIn
<1> QED
  BY <1>1, <1>2 DEF News

LEMMA GoneIsNews ==
  ASSUME HeaderTypes, RowInv, ToldInv, ~Known(NameAt(selected))
  PROVE  News
<1>1. /\ rows = Rows(info) /\ selected \in DOMAIN rows /\ info \in Info
  BY DEF RowInv, HeaderTypes
<1>2. /\ DOMAIN rows = 1..(Len(info.list) + 1) /\ Len(info.list) \in Nat
      /\ DOMAIN info.list = 1..Len(info.list)
      /\ \A r \in 1..(Len(info.list) + 1) :
            rows[r] = IF r > Len(info.list) THEN Default ELSE info.list[r].name
  BY <1>1, InfoParts DEF Rows
<1>3. selected \in 1..(Len(info.list) + 1) /\ NameAt(selected) = rows[selected]
  BY <1>1, <1>2, RowsKnown
<1>4. NameAt(selected) = Default \/ NameAt(selected) \in Names(info.list)
  BY <1>2, <1>3 DEF Names
<1>5. daemon # info
  BY <1>4 DEF Known, Exists
<1> QED
  BY <1>5, UnknownIsNews

LEMMA RequestsStay ==
  ASSUME HeaderTypes, NEW n, NEW m \in ToApp
  PROVE  /\ Contains(queue, n) => Contains(Append(queue, m), n)
         /\ Contains(Append(queue, m), m)
         /\ queue # <<>> /\ Contains(queue, n) /\ Head(queue) # n =>
              Contains(Tail(queue), n) /\ Contains(Append(Tail(queue), m), n)
         /\ queue # <<>> => Contains(Append(Tail(queue), m), m)
<1>1. queue \in Seq(ToApp)
  BY DEF HeaderTypes
<1>2. queue # <<>> => Tail(queue) \in Seq(ToApp)
  BY <1>1, RestIsShifted
<1>3. \A k : Contains(Append(queue, m), k) <=> Contains(queue, k) \/ k = m
  BY <1>1, SentIsThere
<1>4. queue # <<>> => \A k : Contains(Append(Tail(queue), m), k) <=> Contains(Tail(queue), k) \/ k = m
  BY <1>2, SentIsThere
<1>5. queue # <<>> => \A k : Contains(queue, k) <=> k = Head(queue) \/ Contains(Tail(queue), k)
  BY <1>1, TakenIsGone
<1> QED
  BY <1>3, <1>4, <1>5

LEMMA NoticesStay ==
  ASSUME HeaderTypes, NEW n, NEW m \in ToHeader
  PROVE  /\ Contains(inbox, n) => Contains(Append(inbox, m), n)
         /\ Contains(Append(inbox, m), m)
         /\ inbox # <<>> /\ Contains(inbox, n) /\ Head(inbox) # n =>
              Contains(Tail(inbox), n) /\ Contains(Append(Tail(inbox), m), n)
         /\ inbox # <<>> => Contains(Append(Tail(inbox), m), m)
<1>1. inbox \in Seq(ToHeader)
  BY DEF HeaderTypes
<1>2. inbox # <<>> => Tail(inbox) \in Seq(ToHeader)
  BY <1>1, RestIsShifted
<1>3. \A k : Contains(Append(inbox, m), k) <=> Contains(inbox, k) \/ k = m
  BY <1>1, SentIsThere
<1>4. inbox # <<>> => \A k : Contains(Append(Tail(inbox), m), k) <=> Contains(Tail(inbox), k) \/ k = m
  BY <1>2, SentIsThere
<1>5. inbox # <<>> => \A k : Contains(inbox, k) <=> k = Head(inbox) \/ Contains(Tail(inbox), k)
  BY <1>1, TakenIsGone
<1> QED
  BY <1>3, <1>4, <1>5

-----------------------------------------------------------------------------
(* The row of the current profile is selected, or what will select it, or the  *)
(* profile of the row, is on its way.                                          *)
LEMMA SelectedIsKept ==
  ASSUME HeaderTypes, RowInv, SwitchInv, ToldInv, SelectedInv, Moves
  PROVE  SelectedInv'
<1> USE DEF header, mailbox, user, bounds, history, hardware
<1> DEFINE row == NameAt(selected)
           ask == Ask(row, FALSE)
<1>1. /\ row = info.cur \/ Selecting(row) \/ Contains(inbox, Selection) \/ Contains(queue, ask)
           \/ "select" \in lost \/ missed \/ News
      /\ rows = Rows(info) /\ selected \in DOMAIN rows /\ info \in Info /\ Listed(info)
  BY DEF SelectedInv, RowInv, HeaderTypes
<1>2. /\ row \in Name /\ ask \in ToApp /\ Selection \in ToHeader
      /\ ReloadProfiles \in ToApp /\ \A b \in BOOLEAN : ReloadData(b) \in ToApp
  BY RowsKnown, AppMessages, HeaderMessages
<1>3. UNCHANGED <<rows, selected>> => row' = row /\ ask' = ask
  BY DEF NameAt, Ask
<1>4. ASSUME NEW i \in Info, Listed(i), rows' = Rows(i), selected' = CurrentRow(i), info' = i
      PROVE  SelectedInv'
  <2>1. NameAt(selected)' = info'.cur
    BY <1>4, RowsOfProfiles DEF NameAt
  <2> QED
    BY <2>1 DEF SelectedInv
<1>5. info' = info /\ (missed \/ News) => missed' \/ News'
  BY NewsStay
(* Nothing that counts is taken away.                                          *)
<1>6. ASSUME UNCHANGED <<rows, selected, info>>,
             Contains(inbox, Selection) => Contains(inbox', Selection) \/ row = info.cur
                                           \/ Contains(queue', ask),
             Contains(queue, ask) => Contains(queue', ask) \/ row = info.cur \/ Selecting(row)'
                                     \/ "select" \in lost' \/ News' \/ missed',
             Selecting(row) => Selecting(row)' \/ row = info.cur \/ News',
             "select" \in lost => "select" \in lost'
      PROVE  SelectedInv'
  BY <1>1, <1>3, <1>5, <1>6 DEF SelectedInv, Selecting
<1>13. UNCHANGED switch /\ row' = row => (Selecting(row) => Selecting(row)')
  BY DEF Selecting
<1>7. CASE Handles
  <2>1. CASE info' # info
    <3>1. /\ Head(inbox).do = "profiles" /\ info' = Head(inbox).info /\ rows' = Rows(info')
          /\ Listed(info') /\ selected' = CurrentRow(info') /\ Head(inbox) \in ToHeader
      BY <1>7, <2>1, Handled
    <3>2. info' \in Info
      BY <3>1, HeaderMessages
    <3> QED
      BY <1>4, <3>1, <3>2
  <2>2. CASE rows' = rows /\ selected' = CurrentRow(info) /\ info' = info
    BY <1>1, <1>4, <2>2
  <2>3. CASE UNCHANGED <<rows, selected, info>>
    <3>1. inbox # <<>> /\ (lost' = lost \/ info' # info) /\ switch' = switch
      BY <1>7, Handled
    <3>2. Contains(queue, ask) => Contains(queue', ask)
      <4>1. \A m \in ToApp : Contains(queue, ask) => Contains(Append(queue, m), ask)
        BY RequestsStay
      <4>2. queue' = queue \/ \E m \in ToApp : queue' = Append(queue, m)
        <5>1. \A n \in {Default, row}, a \in BOOLEAN : Ask(n, a) \in ToApp
          BY <1>2, AppMessages DEF Name
        <5> QED
          BY <1>2, <1>7, <5>1, Handled
      <4> QED
        BY <4>1, <4>2
    <3>3. CASE Head(inbox) # Selection
      <4>1. inbox' = Tail(inbox) \/ info' # info
        BY <1>7, <3>3, Handled
      <4>2. Contains(inbox, Selection) => Contains(inbox', Selection)
        BY <1>2, <2>3, <3>1, <3>3, <4>1, NoticesStay
      <4> QED
        BY <1>3, <1>6, <1>13, <2>3, <3>1, <3>2, <4>2
    <3>4. CASE Head(inbox) = Selection
      <4>1. \/ row = info.cur
            \/ inbox' = Append(Tail(inbox), Selection)
            \/ queue' = Append(queue, ask)
        BY <1>7, <3>4, Handled, MessagesAreApart
      <4>2. Contains(Append(queue, ask), ask)
        BY <1>2, RequestsStay
      <4>3. inbox' = Append(Tail(inbox), Selection) => Contains(inbox', Selection)
        BY <1>2, <2>3, <3>1, NoticesStay
      <4> QED
        BY <1>3, <1>6, <1>13, <2>3, <3>1, <3>2, <4>1, <4>2, <4>3
    <3> QED
      BY <3>3, <3>4
  <2> QED
    BY <1>7, <2>1, <2>2, <2>3, Handled
<1>8. CASE Take
  <2>1. /\ queue # <<>> /\ Head(queue) \in ToApp /\ UNCHANGED <<info, rows, selected>>
        /\ ~Selecting(row)
    BY <1>8, Taken DEF Selecting, Resting
  <2>2. Contains(inbox, Selection) => Contains(inbox', Selection)
    <3>1. inbox' = inbox \/ \E m \in ToHeader : inbox' = Append(inbox, m)
      <4>1. [do |-> "profiles", info |-> daemon] \in ToHeader
        BY HeaderMessages DEF HeaderTypes
      <4> QED
        BY <1>8, <4>1, Taken DEF Tell, Sent
    <3> QED
      BY <3>1, NoticesStay
  <2>3. "select" \in lost => "select" \in lost'
    <3>1. CASE Head(queue).do = "select"
      <4>1. /\ Head(queue).name \in Name /\ Head(queue).auto \in BOOLEAN
            /\ Head(queue) = Ask(Head(queue).name, Head(queue).auto)
        BY <2>1, <3>1, AppMessages
      <4>2. SelectProfile(Head(queue), Tail(queue))
        BY <1>8, <3>1, Taken
      <4> QED
        BY <4>1, <4>2, SelectionMade
    <3>2. CASE Head(queue).do # "select"
      BY <1>8, <3>2, Taken
    <3> QED
      BY <3>1, <3>2
  <2>4. CASE Head(queue) = ask
    <3>1. SelectProfile(ask, Tail(queue)) /\ UNCHANGED mailbox
      <4>1. Head(queue).do = "select"
        BY <2>4 DEF Ask
      <4>2. SelectProfile(Head(queue), Tail(queue)) /\ UNCHANGED mailbox
        BY <1>8, <4>1, Taken
      <4> QED
        BY <2>4, <4>2
    <3>2. \/ CleanUp("window", row, None) \/ "select" \in lost'
          \/ ~Known(row) /\ daemon' = daemon
      BY <1>2, <3>1, SelectionMade
    <3>3. CleanUp("window", row, None) => Selecting(row)'
      <4>1. switch \in [Actors -> Stage] /\ "window" \in Actors
        BY DEF SwitchInv, Actors
      <4> QED
        BY <1>3, <2>1, <4>1 DEF CleanUp, Selecting
    <3>4. ~Known(row) /\ daemon' = daemon => News' \/ missed'
      BY <1>5, <2>1, GoneIsNews
    <3> QED
      BY <1>6, <2>1, <2>2, <2>3, <3>2, <3>3, <3>4
  <2>5. CASE Head(queue) # ask
    <3>1. \E m \in ToApp : queue' = Tail(queue) \/ queue' = Append(Tail(queue), m)
      <4>1. CASE Head(queue).do = "select"
        <5>1. /\ Head(queue).name \in Name /\ Head(queue).auto \in BOOLEAN
              /\ Head(queue) = Ask(Head(queue).name, Head(queue).auto)
          BY <2>1, <4>1, AppMessages
        <5>2. SelectProfile(Head(queue), Tail(queue))
          BY <1>8, <4>1, Taken
        <5>3. queue' \in {Tail(queue), Append(Tail(queue), ReloadProfiles)}
          BY <5>1, <5>2, SelectionMade
        <5> QED
          BY <1>2, <5>3
      <4>2. CASE Head(queue).do # "select"
        BY <1>2, <1>8, <4>2, Taken
      <4> QED
        BY <4>1, <4>2
    <3>2. Contains(queue, ask) => Contains(queue', ask)
      BY <2>1, <2>5, <3>1, RequestsStay
    <3> QED
      BY <1>6, <2>1, <2>2, <2>3, <3>2
  <2> QED
    BY <2>4, <2>5
<1>9. CASE SelectCreated
  <2>1. /\ SelectProfile(Ask(app.name, info.auto), queue)
        /\ UNCHANGED <<info, rows, selected, inbox>>
        /\ ~Selecting(row)
    BY <1>9 DEF SelectCreated, SwitchInv, Selecting, Resting
  <2>2. app.name \in Name /\ info.auto \in BOOLEAN
    BY <1>9, InfoParts DEF SelectCreated, HeaderTypes
  <2>3. /\ queue' \in {queue, Append(queue, ReloadProfiles)}
        /\ "select" \in lost => "select" \in lost'
    BY <2>1, <2>2, SelectionMade
  <2>4. Contains(queue, ask) => Contains(queue', ask)
    BY <1>2, <2>3, RequestsStay
  <2> QED
    BY <1>6, <2>1, <2>3, <2>4
<1>10. CASE TellRule \/ Poll
  <2>1. /\ inbox' = Append(inbox, [do |-> "profiles", info |-> daemon])
        /\ UNCHANGED <<info, rows, selected, queue, lost, switch>>
    BY <1>10 DEF TellRule, Poll, Tell, Sent
  <2>2. [do |-> "profiles", info |-> daemon] \in ToHeader
    BY HeaderMessages DEF HeaderTypes
  <2>3. Contains(inbox, Selection) => Contains(inbox', Selection)
    BY <2>1, <2>2, NoticesStay
  <2> QED
    BY <1>3, <1>6, <1>13, <2>1, <2>3
<1>11. CASE ReloadRest
  <2>1. UNCHANGED <<info, rows, selected, queue, inbox, switch>>
        /\ ("select" \in lost => "select" \in lost')
    BY <1>11 DEF ReloadRest
  <2> QED
    BY <1>3, <1>6, <1>13, <2>1
<1>14. CASE Others
  <2>1. UNCHANGED <<info, rows, selected, queue, inbox, lost>>
    BY <1>14, OthersMade
  <2>2. switch'["window"] = switch["window"]
    <3>1. switch \in [Actors -> Stage] /\ "window" \in Actors
      BY DEF SwitchInv, Actors
    <3>2. \/ switch' = switch
          \/ \E a \in {"client", "watcher"}, n, gone \in Name \cup {None} : CleanUp(a, n, gone)
      BY <1>14, OthersMade
    <3> QED
      BY <3>1, <3>2 DEF CleanUp
  <2>3. Selecting(row) => Selecting(row)'
    BY <1>3, <2>1, <2>2 DEF Selecting
  <2> QED
    BY <1>6, <2>1, <2>3
<1>15. CASE Switches
  <2>1. UNCHANGED <<info, rows, selected, inbox, told, lost>>
    BY <1>15, SwitchesMade
  <2>2. Contains(queue, ask) => Contains(queue', ask)
    BY <1>2, <1>15, SwitchesMade, RequestsStay
  <2>3. PICK a \in Actors :
          \/ Store(a) /\ \E d \in Info : Change(d) /\ d.cur = switch[a].name
          \/ ApplyCurrent(a) \/ Finish(a)
    BY <1>15, SwitchesMade
  <2>4. switch \in [Actors -> Stage] /\ "window" \in Actors
    BY DEF SwitchInv, Actors
  <2>5. CASE a # "window"
    <3>1. switch'["window"] = switch["window"]
      BY <2>3, <2>4, <2>5 DEF Store, ApplyCurrent, Finish
    <3> QED
      BY <1>3, <1>6, <2>1, <2>2, <3>1 DEF Selecting
  <2>6. CASE a = "window" /\ Selecting(row) /\ row # info.cur
    <3>1. \E d \in Info : Change(d) /\ d.cur = row
      BY <2>3, <2>6 DEF ApplyCurrent, Finish, Selecting
    <3>2. News'
      BY <2>1, <2>6, <3>1, StoredIsNews
    <3> QED
      BY <1>6, <2>1, <2>2, <3>2
  <2>7. CASE ~Selecting(row) \/ row = info.cur
    BY <1>6, <2>1, <2>2, <2>7
  <2> QED
    BY <2>5, <2>6, <2>7
<1>12. CASE UserActs
  <2>1. /\ Contains(inbox, Selection) => Contains(inbox', Selection)
        /\ Contains(queue, ask) => Contains(queue', ask)
        /\ UNCHANGED <<info, rows, lost, switch>>
        /\ selected' = selected \/ inbox' = Append(inbox, Selection)
    BY <1>12, UserSends, UserIsNoNews
  <2>2. Contains(Append(inbox, Selection), Selection)
    BY <1>2, NoticesStay
  <2> QED
    BY <1>3, <1>6, <1>13, <2>1, <2>2 DEF SelectedInv
<1> QED
  BY <1>7, <1>8, <1>9, <1>10, <1>11, <1>12, <1>14, <1>15 DEF Moves

(* The pages show the current profile of the device that is selected, or are   *)
(* about to be loaded.                                                         *)
LEMMA PagesAreKept ==
  ASSUME HeaderTypes, RowInv, SwitchInv, ToldInv, PagesInv, Moves
  PROVE  PagesInv'
<1> USE DEF header, mailbox, user, bounds, history, hardware
<1>1. /\ shown.gpu = gpu \/ Contains(inbox, GpuChosen) \/ NotRead
      /\ shown.stats \in {info.cur, None} \/ NotRead \/ missed \/ News
      /\ shown.states \in {info.cur, None} \/ app.do = "reload" \/ NotRead \/ missed \/ News
      /\ applied \in {daemon.cur, None}
  BY DEF PagesInv, SwitchInv
<1>2. /\ GpuChosen \in ToHeader /\ Selection \in ToHeader /\ ReloadProfiles \in ToApp
      /\ \A b \in BOOLEAN : ReloadData(b) \in ToApp
  BY AppMessages, HeaderMessages
<1>3. info' = info /\ (missed \/ News) => missed' \/ News'
  BY NewsStay
<1>4. Reading' => PagesInv'
  BY DEF PagesInv, NotRead
<1>5. ASSUME NEW b \in BOOLEAN, queue' = Append(queue, ReloadData(b))
      PROVE  PagesInv'
  <2>1. Contains(queue', ReloadData(b))
    BY <1>2, <1>5, RequestsStay
  <2> QED
    BY <1>4, <2>1 DEF Reading
(* Nothing that counts is taken away.                                          *)
<1>6. ASSUME UNCHANGED <<info, shown>>,
             Contains(inbox, GpuChosen) /\ gpu' = gpu => Contains(inbox', GpuChosen),
             gpu' = gpu \/ Contains(inbox', GpuChosen),
             Reading => Reading',
             "reload" \in lost => "reload" \in lost',
             app'.do = app.do \/ (app.do # "reload" /\ app'.do # "reload")
      PROVE  PagesInv'
  <2>1. NotRead => NotRead'
    BY <1>6 DEF NotRead
  <2> QED
    BY <1>1, <1>3, <1>6, <2>1 DEF PagesInv
<1>7. ASSUME NEW m \in ToApp, queue' = Append(queue, m)
      PROVE  Reading => Reading'
  BY <1>7, RequestsStay DEF Reading
<1>8. CASE Handles
  <2>1. inbox # <<>> /\ shown' = shown /\ app' = app /\ gpu' = gpu
    BY <1>8, Handled
  <2>2. CASE info' # info \/ Head(inbox) = GpuChosen
    <3>1. queue' = Append(queue, ReloadData(FALSE)) \/ queue' = Append(queue, ReloadData(TRUE))
      BY <1>8, <2>2, Handled, MessagesAreApart
    <3> QED
      BY <1>5, <3>1
  <2>3. CASE info' = info /\ Head(inbox) # GpuChosen
    <3>1. "reload" \in lost => "reload" \in lost'
      BY <1>8, Handled
    <3>2. Contains(inbox, GpuChosen) => Contains(inbox', GpuChosen)
      <4>1. inbox' = Tail(inbox) \/ inbox' = Append(Tail(inbox), Selection)
        BY <1>8, Handled
      <4> QED
        BY <1>2, <2>1, <2>3, <4>1, NoticesStay
    <3>3. Reading => Reading'
      <4>1. \A n \in {Default, NameAt(selected)}, a \in BOOLEAN : Ask(n, a) \in ToApp
        BY RowsKnown, AppMessages DEF Name
      <4>2. queue' = queue \/ \E m \in ToApp : queue' = Append(queue, m)
        BY <1>2, <1>8, <4>1, Handled
      <4> QED
        BY <1>7, <4>2 DEF Reading
    <3> QED
      BY <1>6, <2>1, <2>3, <3>1, <3>2, <3>3
  <2> QED
    BY <2>2, <2>3
<1>9. CASE Take
  <2>1. /\ queue # <<>> /\ Head(queue) \in ToApp /\ app = Idle /\ UNCHANGED <<info, gpu>>
    BY <1>9, Taken
  <2>2. Idle.do # "reload"
    BY DEF Idle
  <2>3. Contains(inbox, GpuChosen) => Contains(inbox', GpuChosen)
    <3>1. inbox' = inbox \/ \E m \in ToHeader : inbox' = Append(inbox, m)
      <4>1. [do |-> "profiles", info |-> daemon] \in ToHeader
        BY HeaderMessages DEF HeaderTypes
      <4> QED
        BY <1>9, <4>1, Taken DEF Tell, Sent
    <3> QED
      BY <3>1, NoticesStay
  <2>4. CASE Head(queue).do # "reload"
    <3>1. /\ \E m \in ToApp : queue' = Tail(queue) \/ queue' = Append(Tail(queue), m)
          /\ "reload" \in lost => "reload" \in lost'
          /\ app'.do # "reload" /\ shown' = shown
      <4>1. CASE Head(queue).do = "select"
        <5>1. /\ Head(queue).name \in Name /\ Head(queue).auto \in BOOLEAN
              /\ Head(queue) = Ask(Head(queue).name, Head(queue).auto)
          BY <2>1, <4>1, AppMessages
        <5>2. /\ SelectProfile(Head(queue), Tail(queue))
              /\ app' = app /\ shown' = shown
          BY <1>9, <4>1, Taken
        <5>3. /\ queue' \in {Tail(queue), Append(Tail(queue), ReloadProfiles)}
              /\ "reload" \in lost => "reload" \in lost'
          BY <5>1, <5>2, SelectionMade
        <5> QED
          BY <1>2, <2>1, <2>2, <5>2, <5>3
      <4>2. CASE Head(queue).do # "select"
        <5>1. \A x \in [do : {"select"}, name : Name] \cup {Idle, [do |-> "tell", name |-> None]} :
                x.do # "reload"
          BY <2>2
        <5> QED
          BY <1>2, <1>9, <2>1, <2>2, <2>4, <4>2, <5>1, Taken
      <4> QED
        BY <4>1, <4>2
    <3>2. Reading => Reading'
      <4>1. \A b \in BOOLEAN : Head(queue) # ReloadData(b)
        BY <2>4, MessagesAreApart
      <4> QED
        BY <2>1, <3>1, <4>1, RequestsStay DEF Reading
    <3> QED
      BY <1>6, <2>1, <2>2, <2>3, <3>1, <3>2
  <2>5. CASE /\ shown' = [shown EXCEPT !.gpu = gpu, !.stats = applied]
             /\ app' = [do |-> "reload", name |-> None]
             /\ UNCHANGED <<mailbox, daemon, missed, lost>>
    <3>1. shown'.gpu = gpu' /\ shown'.stats = applied /\ app'.do = "reload"
      BY <2>1, <2>5 DEF HeaderTypes
    <3>2. daemon # info => News'
      BY <2>1, <2>5, UnknownIsNews DEF News
    <3> QED
      BY <1>1, <2>1, <3>1, <3>2 DEF PagesInv
  <2>6. CASE /\ lost' = lost \cup {"reload"}
             /\ UNCHANGED <<mailbox, daemon, app, shown, missed>>
    <3>1. NotRead'
      BY <2>1, <2>2, <2>6 DEF NotRead
    <3> QED
      BY <3>1 DEF PagesInv
  <2> QED
    BY <1>9, <2>4, <2>5, <2>6, Taken
<1>10. CASE SelectCreated
  <2>1. /\ SelectProfile(Ask(app.name, info.auto), queue)
        /\ app.do = "select" /\ app' = Idle
        /\ UNCHANGED <<info, gpu, inbox, shown>>
    BY <1>10 DEF SelectCreated
  <2>2. app.name \in Name /\ info.auto \in BOOLEAN
    BY <1>10, InfoParts DEF SelectCreated, HeaderTypes
  <2>3. /\ queue' \in {queue, Append(queue, ReloadProfiles)}
        /\ "reload" \in lost => "reload" \in lost'
    BY <2>1, <2>2, SelectionMade
  <2>4. Reading => Reading'
    BY <1>2, <1>7, <2>3 DEF Reading
  <2> QED
    BY <1>6, <2>1, <2>3, <2>4 DEF Idle
<1>11. CASE TellRule \/ Poll
  <2>1. /\ inbox' = Append(inbox, [do |-> "profiles", info |-> daemon])
        /\ UNCHANGED <<info, gpu, shown, queue, lost>>
        /\ app' = app \/ (app.do = "tell" /\ app' = Idle)
    BY <1>11 DEF TellRule, Poll, Tell, Sent
  <2>2. [do |-> "profiles", info |-> daemon] \in ToHeader
    BY HeaderMessages DEF HeaderTypes
  <2>3. Contains(inbox, GpuChosen) => Contains(inbox', GpuChosen)
    BY <2>1, <2>2, NoticesStay
  <2>4. Reading => Reading'
    BY <2>1 DEF Reading
  <2> QED
    BY <1>6, <2>1, <2>3, <2>4 DEF Idle
<1>12. CASE ReloadRest
  <2>1. /\ app.do = "reload" /\ app' = Idle /\ shown' = [shown EXCEPT !.states = applied]
        /\ UNCHANGED <<daemon, told, info, gpu, inbox, queue, missed>>
    BY <1>12 DEF ReloadRest
  <2>2. shown'.states = applied /\ shown'.gpu = shown.gpu /\ shown'.stats = shown.stats
    BY <2>1 DEF HeaderTypes
  <2>3. daemon # info => News'
    BY <2>1, UnknownIsNews DEF News
  <2>4. NotRead => NotRead'
    BY <2>1 DEF NotRead, Reading
  <2>5. missed \/ News => missed' \/ News'
    BY <1>3, <2>1
  <2> QED
    BY <1>1, <2>1, <2>2, <2>3, <2>4, <2>5 DEF PagesInv
<1>13. CASE Others
  <2>1. UNCHANGED <<info, gpu, shown, inbox, queue, lost, app>>
    BY <1>13, OthersMade
  <2> QED
    BY <1>6, <2>1 DEF Reading
<1>15. CASE Switches
  <2>1. UNCHANGED <<info, gpu, shown, inbox, lost, app>>
    BY <1>15, SwitchesMade
  <2>2. Reading => Reading'
    BY <1>2, <1>7, <1>15, SwitchesMade DEF Reading
  <2> QED
    BY <1>6, <2>1, <2>2
<1>14. CASE UserActs
  <2>1. /\ Contains(inbox, GpuChosen) => Contains(inbox', GpuChosen)
        /\ Reading => Reading'
        /\ UNCHANGED <<info, shown, lost, app>>
        /\ gpu' = gpu \/ inbox' = Append(inbox, GpuChosen)
    BY <1>14, UserSends, UserIsNoNews DEF Reading
  <2>2. Contains(Append(inbox, GpuChosen), GpuChosen)
    BY <1>2, NoticesStay
  <2> QED
    BY <1>6, <2>1, <2>2
<1> QED
  BY <1>8, <1>9, <1>10, <1>11, <1>12, <1>13, <1>14, <1>15 DEF Moves

-----------------------------------------------------------------------------
(* The invariant.                                                              *)
LEMMA HeaderStarts ==
  ASSUME Init
  PROVE  HeaderInv
<1>1. /\ daemon.list = Initial /\ daemon.cur \in Current /\ daemon.auto \in BOOLEAN
      /\ daemon \in [list : {Initial}, cur : Current, auto : BOOLEAN]
      /\ info = daemon /\ told = info /\ rows = Rows(info) /\ selected = CurrentRow(info)
      /\ inbox = <<>> /\ queue = <<>> /\ app = Idle
      /\ switch = [a \in Actors |-> Resting] /\ applied = daemon.cur
      /\ shown = [gpu |-> gpu, stats |-> applied, states |-> applied]
      /\ rule = Closed /\ missed = FALSE /\ lost = {}
  BY DEF Init
<1>2. daemon \in Info /\ Listed(daemon)
  <2>1. /\ Initial \in Seq(Profile)
        /\ daemon.cur = Default \/ \E i \in DOMAIN Initial : Initial[i].name = daemon.cur
    BY <1>1, FirstProfiles
  <2>2. daemon.cur \in Names(daemon.list) \cup {Default} /\ daemon.cur \in Name
    BY <1>1, <2>1 DEF Names, Name
  <2> QED
    BY <1>1, <2>1, <2>2 DEF Info, Listed
<1>3. DefaultRule \in ProfileRules
  BY DEF DefaultRule, ProfileRules, Texts
<1>4. HeaderTypes
  <2>1. Closed \in Window
    BY <1>3 DEF Closed, Window, Texts
  <2>2. inbox \in Seq(ToHeader) /\ queue \in Seq(ToApp)
    BY <1>1
  <2>3. /\ app \in [do : {"idle", "select", "tell", "reload"}, name : Name \cup {None}]
        /\ app.do # "select"
    BY <1>1 DEF Idle
  <2> QED
    BY <1>1, <1>2, <2>1, <2>2, <2>3 DEF HeaderTypes
<1>5. RowInv /\ SelectedInv
  <2>1. selected \in DOMAIN rows /\ selected # 0 /\ rows[selected] = info.cur
    BY <1>1, <1>2, RowsOfProfiles
  <2> QED
    BY <1>1, <2>1 DEF RowInv, SelectedInv, NameAt
<1>6. WindowInv
  BY <1>1 DEF WindowInv, Closed
<1>7. ToldInv
  BY <1>1 DEF ToldInv, ToldIn, Telling
<1>8. PagesInv
  BY <1>1 DEF PagesInv
<1>9. SwitchInv
  BY <1>1 DEF SwitchInv, Actors, Resting, Stage, Idle
<1> QED
  BY <1>4, <1>5, <1>6, <1>7, <1>8, <1>9 DEF HeaderInv

LEMMA HeaderSteps ==
  ASSUME HeaderInv, [Next]_vars
  PROVE  HeaderInv'
<1>1. CASE Moves
  BY <1>1, TypesAreKept, SwitchIsKept, RowsAreKept, WindowIsKept, ToldIsKept, SelectedIsKept,
     PagesAreKept DEF HeaderInv
<1>2. CASE Stands
  <2>1. UNCHANGED <<daemon, switch, applied, info, rows, selected, gpu, inbox, told, queue, app,
                    shown, rule, clicked, missed, lost>>
    BY <1>2 DEF Stands, hardware
  <2>2. HeaderTypes' /\ SwitchInv' /\ RowInv' /\ WindowInv' /\ ToldInv'
    BY <2>1 DEF HeaderInv, HeaderTypes, Listed, SwitchInv, RowInv, WindowInv, ToldInv, NameAt
  <2>3. SelectedInv' /\ PagesInv'
    BY <2>1 DEF HeaderInv, SelectedInv, Selecting, PagesInv, NotRead, Reading, News, NameAt
  <2> QED
    BY <2>2, <2>3 DEF HeaderInv
<1> QED
  BY <1>1, <1>2, MovesOrStands

LEMMA HeaderIsKept == Spec => []HeaderInv
<1>1. Init => HeaderInv
  BY HeaderStarts
<1>2. HeaderInv /\ [Next]_vars => HeaderInv'
  BY HeaderSteps
<1> QED
  BY <1>1, <1>2, PTL DEF Spec

(* When everything is handled, nobody switches, and the header knows the       *)
(* daemon's profiles, the row of the current profile is selected and the pages *)
(* show the selected device, and settings of no other profile (header.rs,      *)
(* set_profiles_info; app.rs, update_gpu_data), however the steps of the user, *)
(* the window, other clients and the rules come between each other. Not        *)
(* claimed: after a request to select or to reload has failed, after the       *)
(* daemon changed and changed back unnoticed, or after the window panicked;    *)
(* and pages that were read while a profile was switched keep what they read.  *)
THEOREM PagesFollowTheProfile == Spec => []RestShowsCurrent
<1>1. ASSUME HeaderInv
      PROVE  RestShowsCurrent
  <2> SUFFICES ASSUME Quiet, info = daemon, ~missed
               PROVE  /\ "select" \notin lost => NameAt(selected) = daemon.cur
                      /\ "reload" \notin lost => /\ shown.gpu = gpu
                                                 /\ shown.stats \in {daemon.cur, None}
                                                 /\ shown.states \in {daemon.cur, None}
    BY DEF RestShowsCurrent
  <2>1. inbox = <<>> /\ queue = <<>> /\ app.do = "idle"
    BY DEF Quiet, Idle
  <2>2. ~News
    BY <1>1, <2>1, NothingIsNews DEF HeaderInv
  <2>3. \A n : ~Contains(inbox, n) /\ ~Contains(queue, n) /\ ~Selecting(n)
    BY <2>1, NothingInEmpty DEF Quiet, Actors, Resting, Selecting
  <2>4. "select" \notin lost => NameAt(selected) = daemon.cur
    BY <1>1, <2>2, <2>3 DEF HeaderInv, SelectedInv
  <2>5. ASSUME "reload" \notin lost
        PROVE  shown.gpu = gpu /\ shown.stats \in {daemon.cur, None}
               /\ shown.states \in {daemon.cur, None}
    <3>1. ~NotRead
      BY <2>3, <2>5 DEF NotRead, Reading
    <3> QED
      BY <1>1, <2>1, <2>2, <2>3, <3>1 DEF HeaderInv, PagesInv
  <2> QED
    BY <2>4, <2>5
<1> QED
  BY <1>1, HeaderIsKept, PTL

(* A rule that is shown and left alone would be saved as it was, whatever the  *)
(* window showed before (profile_rule_window.rs).                              *)
THEOREM RulesAreKept == Spec => []RuleIsKept
<1>1. ASSUME HeaderInv
      PROVE  RuleIsKept
  BY <1>1, FreshIsKept DEF HeaderInv, HeaderTypes, WindowInv, RuleIsKept
<1> QED
  BY <1>1, HeaderIsKept, PTL

(* A profile is asked for only if its row was the last that was clicked: no    *)
(* request comes of rows that are replaced, selected or unselected by the      *)
(* program (header.rs, SelectProfile).                                         *)
THEOREM OnlyClicksSwitch == Spec => SwitchesOnlyOnClick
<1> USE DEF header, mailbox, user, bounds, history
<1>1. ASSUME HeaderInv, [Next]_vars, Asks, Head(inbox) = Selection
      PROVE  queue'[Len(queue')].name = clicked
  <2>1. /\ queue \in Seq(ToApp) /\ Len(queue) \in Nat /\ HeaderTypes /\ RowInv
        /\ NameAt(selected) \in {info.cur, clicked} /\ ReloadProfiles \in ToApp
        /\ \A b \in BOOLEAN : ReloadData(b) \in ToApp
    BY <1>1, LenProperties, AppMessages DEF HeaderInv, HeaderTypes, RowInv
  <2>2. \A m \in ToApp : /\ Len(Append(queue, m)) = Len(queue) + 1
                         /\ Append(queue, m)[Len(queue) + 1] = m
    BY <2>1, SentIsLast
  <2>3. ASSUME NEW m \in ToApp, m.do # "select", queue' = Append(queue, m)
        PROVE  FALSE
    BY <1>1, <2>2, <2>3 DEF Asks
  <2>4. queue' # queue
    BY <1>1, <2>1 DEF Asks
  <2>5. CASE Handles
    <3>1. \/ /\ NameAt(selected) # info.cur
             /\ queue' = Append(queue, Ask(NameAt(selected), FALSE))
          \/ queue' = Append(queue, ReloadData(FALSE)) \/ queue' = Append(queue, ReloadData(TRUE))
      BY <1>1, <2>1, <2>4, <2>5, Handled, MessagesAreApart
    <3>2. queue' = Append(queue, Ask(NameAt(selected), FALSE)) /\ NameAt(selected) = clicked
      BY <2>1, <2>3, <3>1, MessagesAreApart
    <3>3. Ask(NameAt(selected), FALSE) \in ToApp
      BY <2>1, RowsKnown, AppMessages
    <3>4. queue'[Len(queue')] = Ask(NameAt(selected), FALSE)
      BY <2>2, <3>2, <3>3
    <3> QED
      BY <3>2, <3>4 DEF Ask
  <2>6. CASE Take
    <3>1. queue # <<>> /\ Head(queue) \in ToApp
      BY <2>1, <2>6, Taken
    <3>2. Tail(queue) \in Seq(ToApp) /\ Len(Tail(queue)) = Len(queue) - 1
      BY <2>1, <3>1, RestIsShifted
    <3>3. \A m \in ToApp : Len(Append(Tail(queue), m)) = Len(queue)
      BY <2>1, <3>2, SentIsLast
    <3>4. \E m \in ToApp : queue' = Tail(queue) \/ queue' = Append(Tail(queue), m)
      <4>1. CASE Head(queue).do = "select"
        <5>1. /\ Head(queue).name \in Name /\ Head(queue).auto \in BOOLEAN
              /\ Head(queue) = Ask(Head(queue).name, Head(queue).auto)
          BY <3>1, <4>1, AppMessages
        <5>2. SelectProfile(Head(queue), Tail(queue))
          BY <2>1, <2>6, <4>1, Taken
        <5>3. queue' \in {Tail(queue), Append(Tail(queue), ReloadProfiles)}
          BY <2>1, <5>1, <5>2, SelectionMade
        <5> QED
          BY <2>1, <5>3
      <4>2. CASE Head(queue).do # "select"
        BY <2>1, <2>6, <4>2, Taken
      <4> QED
        BY <4>1, <4>2
    <3> QED
      BY <1>1, <2>1, <3>2, <3>3, <3>4 DEF Asks
  <2>7. CASE SelectCreated
    <3>1. app.name \in Name /\ info.auto \in BOOLEAN
      BY <2>1, <2>7, InfoParts DEF SelectCreated, HeaderTypes
    <3>2. queue' \in {queue, Append(queue, ReloadProfiles)}
      BY <2>1, <2>7, <3>1, SelectionMade DEF SelectCreated
    <3> QED
      BY <2>1, <2>3, <2>4, <3>2, MessagesAreApart
  <2>8. UserActs => FALSE
    BY <2>1, <2>3, <2>4, UserSends
  <2>9. TellRule \/ ReloadRest \/ Poll \/ Others \/ Stands => queue' = queue
    BY DEF TellRule, ReloadRest, Poll, Others, Stands
  <2>10. CASE Switches
    <3>1. queue' \in {queue, Append(queue, ReloadProfiles)}
      BY <1>1, <2>10, SwitchesMade DEF HeaderInv
    <3> QED
      BY <2>1, <2>3, <2>4, <3>1, MessagesAreApart
  <2> QED
    BY <1>1, <2>4, <2>5, <2>6, <2>7, <2>8, <2>9, <2>10, MovesOrStands DEF Moves
<1>2. HeaderInv /\ [Next]_vars
        => [(Asks /\ Head(inbox) = Selection) => queue'[Len(queue')].name = clicked]_vars
  BY <1>1
<1> QED
  BY <1>2, HeaderIsKept, PTL DEF Spec, SwitchesOnlyOnClick
=============================================================================
