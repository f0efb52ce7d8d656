----------------------------- MODULE BuildProofs -----------------------------
(***************************************************************************)
(* What is proved of Build for every project, with any directories,        *)
(* sections and configurations: its types, that stubs come before links,   *)
(* and that installed imports find their libraries.                        *)
(***************************************************************************)
EXTENDS Build, SequenceTheorems, TLAPS

PhasesOf(op) ==
  CASE op = "build" -> {"read", "imports", "stubs", "libs", "bins", "end"}
    [] op = "install" -> {"read", "copy", "end"}
    [] op = "distclean" -> {"read", "clean", "remove", "end"}

\* A call is in a phase of its function, works with the dsss.conf of its
\* directory once it has read it, and only the user asks for less than all.
Fits(g) ==
  /\ g.phase \in PhasesOf(g.op) /\ g.at \in Nat \ {0}
  /\ g.phase # "read" => g.conf = conf[g.dir]
  /\ g.req # <<>> => g.dir = Root /\ g.req \in Requests

\* The files of section s with target t.
FilesOf(s, t) == {f \in Files : IF f[1] = "di" THEN f[2] = s ELSE f[2] = t}

\* What a call may have to do in phase p for a section, in debug mode b: only
\* distclean leaves the imports alone, and install copies all but short names.
StepsOf(b, p, s, t) ==
  {x \in Steps :
     /\ x.file \in FilesOf(s, t)
     /\ p = "copy" => \/ x.where = "prefix" /\ x.file[1] = "ln" /\ x.val # Absent
                      \/ x.where = "copy"
     /\ p # "copy" => x.where = "tree"
     /\ p = "remove" => x.file[1] # "di"
     /\ p \notin {"copy", "remove"} /\ x.file[1] = "di" =>
          x.val \in Content /\ x.val.of = t /\ x.val.dbg = b}

\* The section that call g has entered last.
Entered(g) == Secs(g)[g.at - 1]

\* Of command c, the innermost call g has q to do for the section it is at.
Doing(c, g, q) ==
  /\ g.phase \in Loops /\ g.at \in 2..(Len(Secs(g)) + 1)
  /\ q \in Seq(StepsOf(c.dbg, g.phase, Entered(g), Target[g.conf][Entered(g)]))

\* Where a command is, as far as types depend on it.
Shape ==
  /\ src \in [Sections -> Nat]
  /\ conf \in [Dirs -> AllConfs] /\ last \in [Dirs -> AllConfs \union {NoConf}]
  /\ cmd \in [op : {"none", "build", "install", "binstall", "distclean", "clean"},
              req : Requests \union {<<>>}, dbg : BOOLEAN,
              state : {"idle", "running", "ok", "error", "died"}]
  /\ \A k \in 1..Len(stack) : Fits(stack[k])
  /\ todo # <<>> => Running /\ Doing(cmd, Top, todo)

TypeInv == TypeOK /\ Shape

-----------------------------------------------------------------------------
(* The stack. *)

\* The innermost call of a command that runs.
LEMMA TopCall ==
  ASSUME TypeInv, Running
  PROVE  /\ stack \in Seq(Calls) /\ stack # <<>> /\ Len(stack) \in Nat \ {0}
         /\ Top = stack[Len(stack)] /\ Top \in Calls /\ Fits(Top)
         /\ \A k \in 1..Len(stack) : stack[k] \in Calls /\ Fits(stack[k])
<1>1. stack \in Seq(Calls) /\ stack # <<>>
  BY DEF TypeInv, TypeOK, Running
<1>2. Len(stack) \in Nat \ {0} /\ \A k \in 1..Len(stack) : stack[k] \in Calls
  BY <1>1
<1> QED
  BY <1>1, <1>2 DEF Top, TypeInv, Shape

LEMMA NoCalls ==
  ASSUME TypeInv, ~Running
  PROVE  stack = <<>> /\ todo = <<>> /\ Len(stack) = 0
BY DEF TypeInv, TypeOK, Shape, Running

\* Stack t is s with its innermost call replaced by g.
TopIs(s, t, g) ==
  /\ t \in Seq(Calls) /\ Len(t) = Len(s) /\ t[Len(s)] = g
  /\ \A k \in 1..(Len(s) - 1) : t[k] = s[k]

LEMMA AtTop ==
  ASSUME TypeInv, Running, NEW p, NEW i \in Nat,
         p \in {"read", "imports", "stubs", "libs", "bins", "copy", "clean", "remove", "end"}
  PROVE  /\ [Top EXCEPT !.phase = p, !.at = i] \in Calls
         /\ TopIs(stack, At(p, i), [Top EXCEPT !.phase = p, !.at = i])
<1> DEFINE n == Len(stack)
           g == [Top EXCEPT !.phase = p, !.at = i]
<1>1. stack \in Seq(Calls) /\ n \in Nat \ {0} /\ Top = stack[n] /\ Top \in Calls
  BY TopCall
<1>2. g \in Calls
  BY <1>1 DEF Calls
<1>3. At(p, i) = [stack EXCEPT ![n] = g]
  BY <1>1 DEF At, Top
<1> HIDE DEF g
<1>4. TopIs(stack, [stack EXCEPT ![n] = g], g)
  BY <1>1, <1>2 DEF TopIs
<1> QED
  BY <1>2, <1>3, <1>4 DEF g

\* Stack t is s with one more call g.
Pushed(s, t, g) ==
  /\ t \in Seq(Calls) /\ Len(t) = Len(s) + 1 /\ t[Len(s) + 1] = g
  /\ \A k \in 1..Len(s) : t[k] = s[k]

LEMMA PushCall ==
  ASSUME NEW s \in Seq(Calls), NEW g \in Calls
  PROVE  Pushed(s, Append(s, g), g)
BY DEF Pushed

\* Stack t is s without its innermost call.
Popped(s, t) ==
  /\ t \in Seq(Calls) /\ Len(t) = Len(s) - 1
  /\ \A k \in 1..(Len(s) - 1) : t[k] = s[k]

LEMMA PopCall ==
  ASSUME NEW s \in Seq(Calls), s # <<>>
  PROVE  Popped(s, Front(s))
<1> DEFINE up == Len(s) - 1
<1>1. Len(s) \in Nat \ {0} /\ up \in Nat /\ up \in Int /\ 1 \in Int /\ up - 1 + 1 = up
  OBVIOUS
<1>2. \A i \in 1..up : s[i] \in Calls
  BY <1>1
<1>3. Front(s) = SubSeq(s, 1, up)
  BY DEF Front
<1> HIDE DEF up
<1>4. /\ Front(s) \in Seq(Calls) /\ Len(Front(s)) = IF 1 <= up THEN up - 1 + 1 ELSE 0
      /\ \A i \in 1..(up - 1 + 1) : Front(s)[i] = s[1 + i - 1]
  BY <1>1, <1>2, <1>3, SubSeqProperties
<1>5. Len(Front(s)) = up /\ \A i \in 1..up : Front(s)[i] = s[i]
  BY <1>1, <1>4
<1> QED
  BY <1>4, <1>5 DEF Popped, up

-----------------------------------------------------------------------------
(* Plans. *)

LEMMA Vals ==
  /\ Absent \in Content \union {Absent, Stub} /\ Stub \in Content \union {Absent, Stub}
  /\ Absent \notin Content /\ Stub \notin Content /\ Absent # Stub
BY ProjectAssumption

LEMMA MadeOf ==
  ASSUME NEW e \in Nat, NEW b \in BOOLEAN, NEW t \in Targets
  PROVE  /\ [ed |-> e, dbg |-> b, of |-> t] \in Content
         /\ [ed |-> e, dbg |-> b, of |-> t] # Absent /\ [ed |-> e, dbg |-> b, of |-> t] # Stub
BY Vals DEF Content

LEMMA FileNames ==
  /\ \A k \in {"lib", "dbg", "so", "ln", "bin"}, t \in Targets : <<k, t>> \in Files
  /\ \A s \in Sections : <<"di", s>> \in Files
BY DEF Files, Kinds

LEMMA PutStep ==
  ASSUME NEW w \in {"tree", "prefix", "copy"}, NEW f \in Files,
         NEW v \in Content \union {Absent, Stub}
  PROVE  Put(w, f, v) \in Steps
BY DEF Put, Steps

LEMMA CopySteps ==
  ASSUME NEW q \in Seq(Files)
  PROVE  /\ Copies(q) \in Seq(Steps) /\ Len(Copies(q)) = Len(q)
         /\ \A i \in 1..Len(q) : Copies(q)[i] = Put("copy", q[i], Absent)
<1>1. \A i \in 1..Len(q) : Put("copy", q[i], Absent) \in Steps
  BY PutStep, Vals
<1>2. Len(q) \in Nat /\ DOMAIN q = 1..Len(q)
  OBVIOUS
<1>3. Copies(q) = [i \in 1..Len(q) |-> Put("copy", q[i], Absent)]
  BY <1>2 DEF Copies
<1> QED
  BY <1>1, <1>2, <1>3, IsASeq

\* One copy.
LEMMA CopyOf ==
  ASSUME NEW f \in Files
  PROVE  Copies(<<f>>) = <<Put("copy", f, Absent)>> /\ Put("copy", f, Absent) \in Steps
<1>1. <<f>> \in Seq(Files) /\ Len(<<f>>) = 1 /\ DOMAIN <<f>> = 1..1 /\ <<f>>[1] = f
  OBVIOUS
<1>2. \A i \in DOMAIN <<f>> : <<f>>[i] = f
  BY <1>1
<1>3. Copies(<<f>>) = [i \in 1..1 |-> Put("copy", f, Absent)]
  BY <1>1, <1>2 DEF Copies
<1>4. [i \in 1..1 |-> Put("copy", f, Absent)] = <<Put("copy", f, Absent)>>
  OBVIOUS
<1> QED
  BY <1>3, <1>4, PutStep, Vals

LEMMA MadeSteps ==
  ASSUME NEW f \in Files, NEW v \in Content
  PROVE  /\ Make(f, v) \in Seq(Steps) /\ Len(Make(f, v)) = 2
         /\ Make(f, v)[1] = Put("tree", f, Absent) /\ Make(f, v)[2] = Put("tree", f, v)
<1>1. Put("tree", f, Absent) \in Steps /\ Put("tree", f, v) \in Steps
  BY PutStep, Vals
<1> QED
  BY <1>1 DEF Make

LEMMA TreeStep ==
  ASSUME NEW p \in Loops \ {"copy"}, NEW s \in Sections, NEW t \in Targets,
         NEW k \in Kinds, NEW v \in Content \union {Absent, Stub}
  PROVE  Put("tree", <<k, t>>, v) \in StepsOf(cmd.dbg, p, s, t)
<1>1. <<k, t>> \in Files /\ k # "di"
  BY DEF Files, Kinds
<1>2. <<k, t>> \in FilesOf(s, t)
  BY <1>1 DEF FilesOf
<1> DEFINE x == Put("tree", <<k, t>>, v)
<1>3. x \in Steps /\ x.file = <<k, t>> /\ x.where = "tree" /\ x.file[1] # "di"
  BY <1>1, PutStep DEF Put
<1> HIDE DEF x
<1> QED
  BY <1>2, <1>3 DEF StepsOf, x

LEMMA ImportPlanSteps ==
  ASSUME TypeInv, NEW s \in Sections, NEW t \in Targets
  PROVE  ImportPlan(s, t) \in Seq(StepsOf(cmd.dbg, "imports", s, t))
<1> DEFINE v == [ed |-> src[s], dbg |-> cmd.dbg, of |-> t]
           x == Put("tree", <<"di", s>>, v)
<1>1. cmd.dbg \in BOOLEAN /\ src[s] \in Nat
  BY DEF TypeInv, Shape
<1>2. v \in Content /\ v.of = t /\ v.dbg = cmd.dbg
  BY <1>1, MadeOf
<1> HIDE DEF v
<1>3. x \in Steps /\ x.file = <<"di", s>> /\ x.where = "tree" /\ x.val = v
  BY <1>2, FileNames, PutStep DEF Put
<1>4. <<"di", s>> \in FilesOf(s, t)
  BY FileNames DEF FilesOf
<1> HIDE DEF x
<1>5. x \in StepsOf(cmd.dbg, "imports", s, t)
  BY <1>2, <1>3, <1>4 DEF StepsOf
<1>6. ImportPlan(s, t) \in {<<x>>, <<>>}
  BY DEF ImportPlan, x, v
<1> DEFINE S == StepsOf(cmd.dbg, "imports", s, t)
<1> HIDE DEF S
<1>7. <<x>> \in Seq(S) /\ <<>> \in Seq(S)
  BY <1>5 DEF S
<1>8. ImportPlan(s, t) \in Seq(S)
  BY <1>6, <1>7
<1> QED
  BY <1>8 DEF S

LEMMA StubPlanSteps ==
  ASSUME NEW s \in Sections, NEW t \in Targets
  PROVE  StubPlan(s, t) \in Seq(StepsOf(cmd.dbg, "stubs", s, t))
<1> DEFINE x == Put("tree", <<"so", t>>, Stub)
           y == Put("tree", <<"ln", t>>, Link(t))
<1>1. Link(t) \in Content
  BY MadeOf DEF Link
<1>2. x \in StepsOf(cmd.dbg, "stubs", s, t) /\ y \in StepsOf(cmd.dbg, "stubs", s, t)
  BY <1>1, Vals, TreeStep DEF Loops, Kinds
<1>3. StubPlan(s, t) \in {<<x, y>>, <<>>}
  BY DEF StubPlan
<1> DEFINE S == StepsOf(cmd.dbg, "stubs", s, t)
<1> HIDE DEF x, y, S
<1>4. <<x, y>> \in Seq(S) /\ <<>> \in Seq(S)
  BY <1>2 DEF S
<1>5. StubPlan(s, t) \in Seq(S)
  BY <1>3, <1>4
<1> QED
  BY <1>5 DEF S

LEMMA BuildLibrarySteps ==
  ASSUME NEW s \in Sections, NEW t \in Targets, NEW k \in {"lib", "dbg"}, NEW v \in Content
  PROVE  BuildLibrary(s, t, k, v) \in Seq(StepsOf(cmd.dbg, "libs", s, t))
<1> DEFINE S == StepsOf(cmd.dbg, "libs", s, t)
<1>1. \A h \in {"lib", "dbg", "so"} : Put("tree", <<h, t>>, Absent) \in S /\ Put("tree", <<h, t>>, v) \in S
  BY Vals, TreeStep DEF Loops, Kinds
<1> HIDE DEF S
<1>2. Make(<<k, t>>, v) \in Seq(S) /\ Make(<<"so", t>>, v) \in Seq(S)
  BY <1>1 DEF Make
<1>3. BuildLibrary(s, t, k, v) \in Seq(S)
  <2>1. CASE s \in Shared
    BY <2>1, <1>2 DEF BuildLibrary
  <2>2. CASE s \notin Shared
    BY <2>2, <1>2 DEF BuildLibrary
  <2> QED
    BY <2>1, <2>2
<1> QED
  BY <1>3 DEF S

LEMMA LibraryPlanSteps ==
  ASSUME TypeInv, NEW s \in Sections, NEW t \in Targets
  PROVE  LibraryPlan(s, t) \in Seq(StepsOf(cmd.dbg, "libs", s, t))
<1> DEFINE S == StepsOf(cmd.dbg, "libs", s, t)
           d == BuildLibrary(s, t, "dbg", [ed |-> src[s], dbg |-> TRUE, of |-> t])
           l == BuildLibrary(s, t, "lib", [ed |-> src[s], dbg |-> FALSE, of |-> t])
<1>1. src[s] \in Nat
  BY DEF TypeInv, Shape
<1>2. d \in Seq(S) /\ l \in Seq(S)
  BY <1>1, MadeOf, BuildLibrarySteps
<1>3. LibraryPlan(s, t) \in {d \o l, <<>> \o l, <<>>}
  BY DEF LibraryPlan
<1> HIDE DEF S, d, l
<1>4. d \o l \in Seq(S) /\ <<>> \o l \in Seq(S) /\ <<>> \in Seq(S)
  BY <1>2
<1>5. LibraryPlan(s, t) \in Seq(S)
  BY <1>3, <1>4
<1> QED
  BY <1>5 DEF S

LEMMA BinaryPlanSteps ==
  ASSUME TypeInv, NEW s \in Sections, NEW t \in Targets
  PROVE  BinaryPlan(s, t) \in Seq(StepsOf(cmd.dbg, "bins", s, t))
<1> DEFINE S == StepsOf(cmd.dbg, "bins", s, t)
           x == Put("tree", <<"bin", t>>, [ed |-> src[s], dbg |-> cmd.dbg, of |-> t])
<1>1. cmd.dbg \in BOOLEAN /\ src[s] \in Nat
  BY DEF TypeInv, Shape
<1>2. x \in S
  BY <1>1, MadeOf, TreeStep DEF Loops, Kinds
<1>3. BinaryPlan(s, t) \in {<<x>>, <<>>}
  BY DEF BinaryPlan
<1> HIDE DEF S, x
<1>4. <<x>> \in Seq(S) /\ <<>> \in Seq(S)
  BY <1>2
<1>5. BinaryPlan(s, t) \in Seq(S)
  BY <1>3, <1>4
<1> QED
  BY <1>5 DEF S

LEMMA DistcleanPlanSteps ==
  ASSUME NEW s \in Sections, NEW t \in Targets
  PROVE  DistcleanPlan(s, t) \in Seq(StepsOf(cmd.dbg, "remove", s, t))
<1> DEFINE S == StepsOf(cmd.dbg, "remove", s, t)
           x(k) == Put("tree", <<k, t>>, Absent)
<1>1. x("lib") \in S /\ x("so") \in S /\ x("ln") \in S /\ x("bin") \in S
  BY Vals, TreeStep DEF Loops, Kinds
<1>2. DistcleanPlan(s, t) \in {<<x("lib"), x("so"), x("ln")>>, <<x("bin")>>, <<>>}
  BY DEF DistcleanPlan
<1> HIDE DEF S, x
<1>3. <<x("lib"), x("so"), x("ln")>> \in Seq(S) /\ <<x("bin")>> \in Seq(S) /\ <<>> \in Seq(S)
  BY <1>1
<1>4. DistcleanPlan(s, t) \in Seq(S)
  BY <1>2, <1>3
<1> QED
  BY <1>4 DEF S

LEMMA CopyStep ==
  ASSUME NEW s \in Sections, NEW t \in Targets, NEW f \in FilesOf(s, t)
  PROVE  Copies(<<f>>) \in Seq(StepsOf(cmd.dbg, "copy", s, t))
<1> DEFINE x == Put("copy", f, Absent)
           S == StepsOf(cmd.dbg, "copy", s, t)
<1>1. f \in Files
  BY DEF FilesOf
<1>2. Copies(<<f>>) = <<x>> /\ x \in Steps /\ x.file = f /\ x.where = "copy"
  BY <1>1, CopyOf DEF Put
<1> HIDE DEF x
<1>3. x \in S
  BY <1>2 DEF StepsOf
<1> HIDE DEF S
<1>4. <<x>> \in Seq(S)
  BY <1>3
<1> QED
  BY <1>2, <1>4 DEF S

LEMMA FilesOfSection ==
  ASSUME NEW s \in Sections, NEW t \in Targets
  PROVE  <<"di", s>> \in FilesOf(s, t) /\ \A k \in Kinds : <<k, t>> \in FilesOf(s, t)
<1>1. \A k \in Kinds : k # "di"
  BY DEF Kinds
<1>2. <<"di", s>> \in Files /\ \A k \in Kinds : <<k, t>> \in Files
  BY DEF Files
<1> QED
  BY <1>1, <1>2 DEF FilesOf

LEMMA InstallPlanSteps ==
  ASSUME NEW s \in Sections, NEW t \in Targets
  PROVE  InstallPlan(s, t) \in Seq(StepsOf(cmd.dbg, "copy", s, t))
<1> DEFINE S == StepsOf(cmd.dbg, "copy", s, t)
           x == Put("prefix", <<"ln", t>>, Link(t))
           l == Copies(<<<<"lib", t>>>>)
           d == Copies(<<<<"dbg", t>>>>)
           so == Copies(<<<<"so", t>>>>)
           di == Copies(<<<<"di", s>>>>)
           b == Copies(<<<<"bin", t>>>>)
<1>1. l \in Seq(S) /\ d \in Seq(S) /\ so \in Seq(S) /\ di \in Seq(S) /\ b \in Seq(S)
  BY FilesOfSection, CopyStep DEF Kinds
<1>2. x \in S
  <2>1. Link(t) \in Content /\ Link(t) # Absent
    BY MadeOf DEF Link
  <2>2. x \in Steps /\ x.file = <<"ln", t>> /\ x.where = "prefix" /\ x.val # Absent /\ x.file[1] = "ln"
    BY <2>1, FileNames, PutStep DEF Put
  <2>3. x.file \in FilesOf(s, t)
    BY <2>2, FilesOfSection DEF Kinds
  <2> HIDE DEF x
  <2> QED
    BY <2>2, <2>3 DEF StepsOf
<1> DEFINE dd == IF cmd.dbg THEN d ELSE <<>>
           sh == IF s \in Shared THEN so \o <<x>> ELSE <<>>
<1>3. InstallPlan(s, t) \in {((l \o dd) \o sh) \o di, b, <<>>}
  BY DEF InstallPlan
<1> HIDE DEF S, x, l, d, so, di, b
<1>4. <<x>> \in Seq(S) /\ <<>> \in Seq(S)
  BY <1>2
<1>5. dd \in Seq(S) /\ sh \in Seq(S)
  BY <1>1, <1>4
<1> HIDE DEF dd, sh
<1>6. ((l \o dd) \o sh) \o di \in Seq(S)
  BY <1>1, <1>5
<1>7. InstallPlan(s, t) \in Seq(S)
  BY <1>1, <1>3, <1>4, <1>6
<1> QED
  BY <1>7 DEF S

LEMMA PlanSteps ==
  ASSUME TypeInv, NEW s \in Sections, NEW t \in Targets, NEW p \in Loops
  PROVE  Plan(p, s, t) \in Seq(StepsOf(cmd.dbg, p, s, t))
<1>1. CASE p = "imports"
  BY <1>1, ImportPlanSteps DEF Plan
<1>2. CASE p = "stubs"
  BY <1>2, StubPlanSteps DEF Plan
<1>3. CASE p = "libs"
  BY <1>3, LibraryPlanSteps DEF Plan
<1>4. CASE p = "bins"
  BY <1>4, BinaryPlanSteps DEF Plan
<1>5. CASE p = "copy"
  BY <1>5, InstallPlanSteps DEF Plan
<1>6. CASE p = "remove"
  BY <1>6, DistcleanPlanSteps DEF Plan
<1> QED
  BY <1>1, <1>2, <1>3, <1>4, <1>5, <1>6 DEF Loops

-----------------------------------------------------------------------------
(* Types. *)

LEMMA ConfOf ==
  ASSUME NEW c \in AllConfs
  PROVE  /\ Default[c] \in Seq(Sections) /\ Target[c] \in [Sections -> Targets]
         /\ c # NoConf
BY ProjectAssumption

\* What a call that has read its configuration works with.
LEMMA CallReads ==
  ASSUME TypeInv, NEW g \in Calls, Fits(g), g.phase # "read"
  PROVE  /\ g.dir \in Dirs /\ g.conf = conf[g.dir] /\ g.conf \in AllConfs
         /\ g.conf \in Confs[g.dir]
         /\ Secs(g) \in Seq(Sections) /\ Len(Secs(g)) \in Nat
         /\ \A i \in 1..Len(Secs(g)) : Secs(g)[i] \in Sections
         /\ Target[g.conf] \in [Sections -> Targets]
<1>1. g.dir \in Dirs /\ g.conf = conf[g.dir] /\ conf \in [Dirs -> AllConfs] /\ conf[g.dir] \in Confs[g.dir]
  BY DEF Calls, Fits, TypeInv, TypeOK, Shape
<1>2. g.conf \in AllConfs
  BY <1>1
<1>3. Secs(g) \in Seq(Sections)
  BY <1>2, ConfOf DEF Secs, Calls
<1> QED
  BY <1>1, <1>2, <1>3, ConfOf

LEMMA InitTypes ==
  ASSUME Init
  PROVE  TypeInv
<1>1. conf \in [Dirs -> AllConfs] /\ \A d \in Dirs : conf[d] \in Confs[d]
  BY DEF Init
<1>2. /\ src \in [Sections -> Nat] /\ \A s \in Sections : src[s] \in 1..MaxEdition[s]
      /\ last \in [Dirs -> AllConfs \union {NoConf}]
      /\ \A d \in Dirs : last[d] \in Confs[d] \union {NoConf}
      /\ newer \in [Dirs -> BOOLEAN] /\ cut \subseteq Sections
  BY ProjectAssumption DEF Init
<1>3. /\ tree \in [Files -> Content \union {Absent, Stub}]
      /\ prefix \in [Files -> Content \union {Absent, Stub}]
  BY Vals DEF Init
<1>4. /\ stack \in Seq(Calls) /\ stack = <<>> /\ Len(stack) = 0
      /\ todo \in Seq(Steps) /\ todo = <<>>
  BY DEF Init
<1>5. /\ cmd \in [op : {"none", "build", "install", "binstall", "distclean", "clean"},
                  req : Requests \union {<<>>}, dbg : BOOLEAN,
                  state : {"idle", "running", "ok", "error", "died"}]
      /\ cmd.op = "none" /\ cmd.state = "idle"
  BY DEF Init, NoCommand
<1> QED
  BY <1>1, <1>2, <1>3, <1>4, <1>5 DEF TypeInv, TypeOK, Shape

\* The sorts of commands, as a record set.
Commands == [op : {"none", "build", "install", "binstall", "distclean", "clean"},
             req : Requests \union {<<>>}, dbg : BOOLEAN,
             state : {"idle", "running", "ok", "error", "died"}]

\* With no call, all that types say is what they say of the other variables.
LEMMA NoCallTypes ==
  ASSUME TypeInv, stack' = <<>>, todo' = <<>>, cmd' \in Commands, cmd'.state # "running",
         src' \in [Sections -> Nat], \A s \in Sections : src'[s] \in 1..MaxEdition[s],
         conf' \in [Dirs -> AllConfs], \A d \in Dirs : conf'[d] \in Confs[d],
         last' \in [Dirs -> AllConfs \union {NoConf}],
         \A d \in Dirs : last'[d] \in Confs[d] \union {NoConf},
         newer' \in [Dirs -> BOOLEAN],
         tree' \in [Files -> Content \union {Absent, Stub}], cut' \subseteq Sections,
         prefix' \in [Files -> Content \union {Absent, Stub}]
  PROVE  TypeInv'
<1>1. stack' \in Seq(Calls) /\ todo' \in Seq(Steps) /\ Len(stack') = 0
  OBVIOUS
<1>2. cmd'.op \in {"none", "build", "install", "binstall", "distclean", "clean"}
      /\ cmd'.state \in {"idle", "running", "ok", "error", "died"}
  BY DEF Commands
<1>3. TypeOK'
  BY <1>1, <1>2 DEF TypeOK
<1>4. Shape'
  BY <1>1 DEF Shape, Commands
<1> QED
  BY <1>3, <1>4 DEF TypeInv

\* What types say of each variable but the calls.
LEMMA VarTypes ==
  ASSUME TypeInv
  PROVE  /\ src \in [Sections -> Nat] /\ \A s \in Sections : src[s] \in 1..MaxEdition[s]
         /\ conf \in [Dirs -> AllConfs] /\ \A d \in Dirs : conf[d] \in Confs[d]
         /\ last \in [Dirs -> AllConfs \union {NoConf}]
         /\ \A d \in Dirs : last[d] \in Confs[d] \union {NoConf}
         /\ newer \in [Dirs -> BOOLEAN]
         /\ tree \in [Files -> Content \union {Absent, Stub}] /\ cut \subseteq Sections
         /\ prefix \in [Files -> Content \union {Absent, Stub}]
         /\ cmd \in Commands
BY DEF TypeInv, TypeOK, Shape, Commands

LEMMA NoCommandType == NoCommand \in Commands /\ NoCommand.state # "running"
BY DEF NoCommand, Commands

LEMMA EditSourceTypes ==
  ASSUME TypeInv, NEW s \in Sections, EditSource(s)
  PROVE  TypeInv'
<1>1. src' \in [Sections -> Nat] /\ \A x \in Sections : src'[x] \in 1..MaxEdition[x]
  <2>1. src[s] + 1 \in Nat /\ src[s] + 1 \in 1..MaxEdition[s]
    BY VarTypes, ProjectAssumption DEF EditSource
  <2> QED
    BY <2>1, VarTypes DEF EditSource
<1> QED
  BY <1>1, NoCalls, VarTypes, NoCommandType, NoCallTypes DEF EditSource

LEMMA EditConfTypes ==
  ASSUME TypeInv, NEW d \in Dirs, NEW c \in Confs[d], EditConf(d, c)
  PROVE  TypeInv'
<1>1. c \in AllConfs
  BY DEF AllConfs
<1>2. /\ conf' \in [Dirs -> AllConfs] /\ \A x \in Dirs : conf'[x] \in Confs[x]
      /\ newer' \in [Dirs -> BOOLEAN]
  BY <1>1, VarTypes DEF EditConf
<1> QED
  BY <1>2, NoCalls, VarTypes, NoCommandType, NoCallTypes DEF EditConf

LEMMA ImportsGone ==
  ASSUME TypeInv, NEW d \in Dirs
  PROVE  WithoutImports(d) \in [Files -> Content \union {Absent, Stub}]
<1>1. \A f \in Files : (IF f[1] = "di" /\ Home[f[2]] = d THEN Absent ELSE tree[f])
                         \in Content \union {Absent, Stub}
  BY VarTypes
<1> QED
  BY <1>1 DEF WithoutImports

LEMMA CleanCommand ==
  ASSUME Clean
  PROVE  cmd' \in Commands /\ cmd'.state # "running"
BY DEF Clean, NoCommand, Commands

LEMMA CleanTypes ==
  ASSUME TypeInv, Clean
  PROVE  TypeInv'
<1>1. tree' \in [Files -> Content \union {Absent, Stub}]
  BY ImportsGone, ProjectAssumption DEF Clean
<1>2. cmd' \in Commands /\ cmd'.state # "running"
  BY CleanCommand
<1> QED
  BY <1>1, <1>2, NoCalls, VarTypes, NoCallTypes DEF Clean, userVars

\* With a call, the other variables are as before or the user's.
LEMMA CallTypes ==
  ASSUME TypeInv, UNCHANGED userVars,
         stack' \in Seq(Calls), stack' # <<>>, \A k \in 1..Len(stack') : Fits(stack'[k]),
         cmd' \in Commands, cmd'.state = "running",
         todo' # <<>> => Doing(cmd', Top', todo'),
         last' \in [Dirs -> AllConfs \union {NoConf}],
         \A d \in Dirs : last'[d] \in Confs[d] \union {NoConf},
         newer' \in [Dirs -> BOOLEAN],
         tree' \in [Files -> Content \union {Absent, Stub}], cut' \subseteq Sections,
         prefix' \in [Files -> Content \union {Absent, Stub}]
  PROVE  TypeInv'
<1>1. src' = src /\ conf' = conf
  BY DEF userVars
<1>2. todo' \in Seq(Steps)
  <2>1. CASE todo' = <<>>
    BY <2>1
  <2>2. CASE todo' # <<>>
    <3> DEFINE S == StepsOf(cmd'.dbg, Top'.phase, Entered(Top'), Target[Top'.conf][Entered(Top')])
    <3>1. todo' \in Seq(S)
      BY <2>2 DEF Doing
    <3>2. S \subseteq Steps
      BY DEF StepsOf
    <3> HIDE DEF S
    <3> QED
      BY <3>1, <3>2, SeqMonotonic
  <2> QED
    BY <2>1, <2>2
<1>3. cmd'.op \in {"none", "build", "install", "binstall", "distclean", "clean"}
  BY DEF Commands
<1>4. TypeOK'
  BY <1>1, <1>2, <1>3, VarTypes DEF TypeOK
<1>5. \A k \in 1..Len(stack') : Fits(stack[k])'
  BY <1>1 DEF Fits
<1>6. todo' # <<>> => Running' /\ Doing(cmd, Top, todo)'
  BY DEF Running, Doing, Secs, Entered
<1> QED
  BY <1>1, <1>4, <1>5, <1>6, VarTypes DEF TypeInv, Shape, Commands

\* What a step that changes the innermost call leaves of the calls.
LEMMA TopFits ==
  ASSUME TypeInv, Running, NEW g \in Calls, Fits(g), TopIs(stack, stack', g)
  PROVE  /\ stack' \in Seq(Calls) /\ stack' # <<>> /\ Len(stack') = Len(stack) /\ Top' = g
         /\ \A k \in 1..Len(stack') : Fits(stack'[k])
<1>1. Len(stack) \in Nat \ {0} /\ \A k \in 1..Len(stack) : Fits(stack[k])
  BY TopCall
<1>2. stack' \in Seq(Calls) /\ Len(stack') = Len(stack) /\ stack'[Len(stack)] = g
      /\ \A k \in 1..(Len(stack) - 1) : stack'[k] = stack[k]
  BY DEF TopIs
<1>3. \A k \in 1..Len(stack') : k \in 1..(Len(stack) - 1) \/ k = Len(stack)
  BY <1>1, <1>2
<1>4. \A k \in 1..Len(stack') : Fits(stack'[k])
  BY <1>1, <1>2, <1>3
<1>5. stack' # <<>>
  BY <1>1, <1>2
<1> QED
  BY <1>2, <1>4, <1>5 DEF Top

LEMMA PushFits ==
  ASSUME NEW s \in Seq(Calls), \A k \in 1..Len(s) : Fits(s[k]),
         NEW g \in Calls, Fits(g), stack' = Append(s, g)
  PROVE  /\ stack' \in Seq(Calls) /\ stack' # <<>> /\ Top' = g
         /\ \A k \in 1..Len(stack') : Fits(stack'[k])
<1>1. Pushed(s, stack', g)
  BY PushCall
<1>2. Len(s) \in Nat
  OBVIOUS
<1>3. stack' \in Seq(Calls) /\ Len(stack') = Len(s) + 1 /\ stack'[Len(s) + 1] = g
      /\ \A k \in 1..Len(s) : stack'[k] = s[k]
  BY <1>1 DEF Pushed
<1>4. \A k \in 1..Len(stack') : k \in 1..Len(s) \/ k = Len(s) + 1
  BY <1>2, <1>3
<1>5. \A k \in 1..Len(stack') : Fits(stack'[k])
  BY <1>3, <1>4
<1>6. stack' # <<>>
  BY <1>2, <1>3
<1> QED
  BY <1>3, <1>5, <1>6 DEF Top

LEMMA CallFits ==
  ASSUME TypeInv, NEW op \in {"build", "install", "distclean"}, NEW d \in Dirs,
         NEW r \in Requests \union {<<>>}, r # <<>> => d = Root
  PROVE  Call(op, d, r) \in Calls /\ Fits(Call(op, d, r))
<1>1. r \in Seq(Sections)
  <2>1. <<>> \in Seq(Sections) /\ \A q \in Requests : q \in Seq(Sections)
    BY ProjectAssumption
  <2> QED
    BY <2>1
<1>2. Call(op, d, r) \in Calls
  BY <1>1 DEF Call, Calls
<1>3. "read" \in PhasesOf(op)
  BY DEF PhasesOf
<1> QED
  BY <1>2, <1>3 DEF Fits, Call

LEMMA GiveTypes ==
  ASSUME TypeInv, NEW op \in {"build", "install", "binstall", "distclean"},
         NEW r \in Requests \union {<<>>}, NEW b \in BOOLEAN, Give(op, r, b)
  PROVE  TypeInv'
<1> DEFINE g == Call(IF op = "binstall" THEN "build" ELSE op, Root, r)
<1>1. g \in Calls /\ Fits(g)
  BY CallFits, ProjectAssumption
<1>2. stack' = <<g>>
  BY DEF Give
<1> HIDE DEF g
<1>3. stack' \in Seq(Calls) /\ stack' # <<>> /\ Len(stack') = 1 /\ stack'[1] = g
  BY <1>1, <1>2
<1>4. \A k \in 1..Len(stack') : Fits(stack'[k])
  BY <1>1, <1>3
<1>5. cmd' \in Commands /\ cmd'.state = "running"
  BY DEF Give, Commands
<1>6. todo' = <<>>
  BY NoCalls DEF Give
<1> QED
  BY <1>3, <1>4, <1>5, <1>6, VarTypes, CallTypes DEF Give

LEMMA ConfigChangedTypes ==
  ASSUME TypeInv, ConfigChanged
  PROVE  TypeInv'
<1> DEFINE r == Call("distclean", Top.dir, <<>>)
           g == [r EXCEPT !.conf = conf[Top.dir], !.phase = "clean"]
<1>1. Running /\ Top \in Calls /\ Top.phase = "read"
  BY TopCall DEF ConfigChanged
<1>2. Top.dir \in Dirs /\ conf[Top.dir] \in AllConfs
  BY <1>1, VarTypes DEF Calls
<1>3. r \in Calls /\ r.op = "distclean" /\ r.dir = Top.dir /\ r.req = <<>> /\ r.at = 1
  BY <1>2, CallFits DEF Call
<1>4. stack' = Append(stack, g)
  BY DEF ConfigChanged
<1> HIDE DEF r
<1>5. /\ g \in Calls /\ g.op = "distclean" /\ g.dir = Top.dir /\ g.req = <<>> /\ g.at = 1
      /\ g.conf = conf[Top.dir] /\ g.phase = "clean"
  BY <1>2, <1>3 DEF Calls
<1> HIDE DEF g
<1>6. Fits(g)
  BY <1>5 DEF Fits, PhasesOf
<1>7. /\ stack' \in Seq(Calls) /\ stack' # <<>> /\ \A k \in 1..Len(stack') : Fits(stack'[k])
  BY <1>1, <1>4, <1>5, <1>6, TopCall, PushFits
<1>8. todo' = <<>>
  BY <1>1 DEF ConfigChanged, TypeInv, Shape, Doing, Loops
<1> QED
  BY <1>1, <1>7, <1>8, VarTypes, CallTypes DEF ConfigChanged, Running

\* Stack t is s but for its innermost call, which is at section i of phase p and
\* works with configuration c.
Moved(s, t, p, i, c) ==
  LET g == s[Len(s)]
      h == t[Len(s)] IN
  /\ TopIs(s, t, h) /\ h \in Calls
  /\ h.op = g.op /\ h.dir = g.dir /\ h.req = g.req
  /\ h.phase = p /\ h.at = i /\ h.conf = c

LEMMA AtMoves ==
  ASSUME TypeInv, Running, NEW p, NEW i \in Nat,
         p \in {"read", "imports", "stubs", "libs", "bins", "copy", "clean", "remove", "end"}
  PROVE  Moved(stack, At(p, i), p, i, Top.conf)
<1> DEFINE h == [Top EXCEPT !.phase = p, !.at = i]
<1>1. h \in Calls /\ TopIs(stack, At(p, i), h)
  BY AtTop
<1>2. Top \in Calls /\ Top = stack[Len(stack)]
  BY TopCall
<1>3. h.op = Top.op /\ h.dir = Top.dir /\ h.req = Top.req /\ h.phase = p /\ h.at = i
      /\ h.conf = Top.conf
  BY <1>2 DEF Calls
<1> HIDE DEF h
<1>4. At(p, i)[Len(stack)] = h
  BY <1>1 DEF TopIs
<1> QED
  BY <1>1, <1>2, <1>3, <1>4 DEF Moved

\* The innermost call after a move.
LEMMA MovedTop ==
  ASSUME TypeInv, Running, NEW p, NEW i \in Nat \ {0}, NEW c,
         Moved(stack, stack', p, i, c),
         p \in PhasesOf(Top.op), p # "read" => c = conf[Top.dir]
  PROVE  /\ stack' \in Seq(Calls) /\ stack' # <<>> /\ Len(stack') = Len(stack)
         /\ \A k \in 1..Len(stack') : Fits(stack'[k])
         /\ Top' = stack'[Len(stack)] /\ Top' \in Calls /\ Fits(Top')
         /\ Top'.op = Top.op /\ Top'.dir = Top.dir /\ Top'.req = Top.req
         /\ Top'.phase = p /\ Top'.at = i /\ Top'.conf = c
         /\ \A k \in 1..(Len(stack) - 1) : stack'[k] = stack[k]
<1> DEFINE h == stack'[Len(stack)]
<1>1. /\ TopIs(stack, stack', h) /\ h \in Calls
      /\ h.op = Top.op /\ h.dir = Top.dir /\ h.req = Top.req
      /\ h.phase = p /\ h.at = i /\ h.conf = c
  BY DEF Moved, Top
<1> HIDE DEF h
<1>2. Fits(h)
  BY <1>1, TopCall DEF Fits
<1>3. /\ stack' \in Seq(Calls) /\ stack' # <<>> /\ Len(stack') = Len(stack) /\ Top' = h
      /\ \A k \in 1..Len(stack') : Fits(stack'[k])
  BY <1>1, <1>2, TopFits
<1> QED
  BY <1>1, <1>2, <1>3 DEF TopIs, h

LEMMA ReadConfigMoves ==
  ASSUME TypeInv, ReadConfig
  PROVE  /\ Running /\ Top.phase = "read" /\ Top.dir \in Dirs /\ todo = <<>>
         /\ FirstPhase(Top.op) \in PhasesOf(Top.op) \ {"read"}
         /\ Moved(stack, stack', FirstPhase(Top.op), 1, conf[Top.dir])
<1> DEFINE n == Len(stack)
           p == FirstPhase(Top.op)
           s == At(p, 1)
<1>1. Running /\ Top.phase = "read" /\ stack' = [s EXCEPT ![n].conf = conf[Top.dir]]
  BY DEF ReadConfig
<1>2. Top \in Calls /\ n \in Nat \ {0} /\ Top.op \in {"build", "install", "distclean"}
      /\ Top.dir \in Dirs /\ conf[Top.dir] \in AllConfs /\ Top = stack[n]
  BY <1>1, TopCall, VarTypes DEF Calls
<1>3. p \in PhasesOf(Top.op) \ {"read"} /\ p \in {"imports", "copy", "clean"}
  BY <1>2 DEF FirstPhase, PhasesOf
<1>4. todo = <<>>
  BY <1>1 DEF TypeInv, Shape, Doing, Loops
<1>5. Moved(stack, s, p, 1, Top.conf)
  BY <1>1, <1>3, AtMoves
<1> HIDE DEF p, s
<1>6. s \in Seq(Calls) /\ Len(s) = n /\ s[n] \in Calls /\ s[n].op = Top.op /\ s[n].dir = Top.dir
      /\ s[n].req = Top.req /\ s[n].phase = p /\ s[n].at = 1
      /\ \A k \in 1..(n - 1) : s[k] = stack[k]
  BY <1>2, <1>5 DEF Moved, TopIs
<1> DEFINE h == [s[n] EXCEPT !.conf = conf[Top.dir]]
<1>7. /\ h \in Calls /\ h.op = Top.op /\ h.dir = Top.dir /\ h.req = Top.req /\ h.phase = p
      /\ h.at = 1 /\ h.conf = conf[Top.dir]
  BY <1>2, <1>6 DEF Calls
<1>8. stack' = [s EXCEPT ![n] = h]
  BY <1>1
<1> HIDE DEF h
<1>9. stack' \in Seq(Calls) /\ Len(stack') = n /\ stack'[n] = h
      /\ \A k \in 1..(n - 1) : stack'[k] = stack[k]
  BY <1>2, <1>6, <1>7, <1>8
<1>10. Moved(stack, stack', p, 1, conf[Top.dir])
  BY <1>2, <1>7, <1>9 DEF Moved, TopIs
<1> QED
  BY <1>1, <1>2, <1>3, <1>4, <1>10 DEF p

LEMMA ReadConfigTypes ==
  ASSUME TypeInv, ReadConfig
  PROVE  TypeInv'
<1>1. /\ Running /\ Top.phase = "read" /\ Top.dir \in Dirs /\ todo = <<>>
      /\ FirstPhase(Top.op) \in PhasesOf(Top.op) \ {"read"}
      /\ Moved(stack, stack', FirstPhase(Top.op), 1, conf[Top.dir])
  BY ReadConfigMoves
<1>2. stack' \in Seq(Calls) /\ stack' # <<>> /\ \A k \in 1..Len(stack') : Fits(stack'[k])
  BY <1>1, MovedTop
<1>3. /\ last' \in [Dirs -> AllConfs \union {NoConf}] /\ newer' \in [Dirs -> BOOLEAN]
      /\ \A d \in Dirs : last'[d] \in Confs[d] \union {NoConf}
  BY <1>1, VarTypes DEF ReadConfig
<1> QED
  BY <1>1, <1>2, <1>3, VarTypes, CallTypes DEF ReadConfig, Running

\* The innermost call when it comes to the next section.
LEMMA LoopCall ==
  ASSUME TypeInv, InLoop
  PROVE  /\ Running /\ todo = <<>> /\ Top \in Calls /\ Fits(Top)
         /\ Top.phase \in Loops /\ Top.phase # "read" /\ Top.phase \in PhasesOf(Top.op)
         /\ Top.dir \in Dirs /\ Top.conf = conf[Top.dir] /\ Top.conf \in AllConfs
         /\ Top.at \in 1..Len(Secs(Top)) /\ Top.at \in Nat \ {0} /\ Top.at + 1 \in Nat \ {0}
         /\ Current = Secs(Top)[Top.at] /\ Current \in Sections
         /\ Target[Top.conf] \in [Sections -> Targets] /\ Target[Top.conf][Current] \in Targets
<1>1. Running /\ todo = <<>> /\ Top.phase \in Loops /\ Top.at <= Len(Secs(Top))
  BY DEF InLoop, Looping
<1>2. Top \in Calls /\ Fits(Top) /\ Top.phase # "read"
  BY <1>1, TopCall DEF Loops
<1>3. Top.phase \in PhasesOf(Top.op) /\ Top.at \in Nat \ {0}
  BY <1>2 DEF Fits
<1>4. /\ Top.dir \in Dirs /\ Top.conf = conf[Top.dir] /\ Top.conf \in AllConfs
      /\ Len(Secs(Top)) \in Nat /\ \A i \in 1..Len(Secs(Top)) : Secs(Top)[i] \in Sections
      /\ Target[Top.conf] \in [Sections -> Targets]
  BY <1>2, CallReads
<1>5. Top.at \in 1..Len(Secs(Top)) /\ Top.at + 1 \in Nat \ {0}
  BY <1>1, <1>3, <1>4
<1>6. Current \in Sections
  BY <1>4, <1>5 DEF Current
<1> QED
  BY <1>1, <1>2, <1>3, <1>4, <1>5, <1>6 DEF Current

LEMMA LoopPhases ==
  \A op \in {"build", "install", "distclean"} : \A p \in PhasesOf(op) :
    /\ p \in {"read", "imports", "stubs", "libs", "bins", "copy", "clean", "remove", "end"}
    /\ p \in Loops => NextPhase(p) \in PhasesOf(op) \ {"read"}
BY DEF PhasesOf, Loops, NextPhase

LEMMA EnterSectionMoves ==
  ASSUME TypeInv, EnterSection
  PROVE  /\ InLoop /\ ~Recurses /\ ~Refused
         /\ Moved(stack, stack', Top.phase, Top.at + 1, Top.conf)
         /\ todo' = Plan(Top.phase, Current, Target[Top.conf][Current])
         /\ todo' \in Seq(StepsOf(cmd.dbg, Top.phase, Current, Target[Top.conf][Current]))
<1>1. /\ InLoop /\ todo' = Plan(Top.phase, Current, Target[Top.conf][Current])
      /\ stack' = At(Top.phase, Top.at + 1) /\ ~Recurses /\ ~Refused
  BY DEF EnterSection
<1>2. /\ Running /\ Top \in Calls /\ Top.phase \in Loops /\ Top.at + 1 \in Nat \ {0}
      /\ Top.phase \in PhasesOf(Top.op)
      /\ Current \in Sections /\ Target[Top.conf][Current] \in Targets
  BY <1>1, LoopCall
<1>3. Top.phase \in {"read", "imports", "stubs", "libs", "bins", "copy", "clean", "remove", "end"}
  BY <1>2 DEF Loops
<1> QED
  BY <1>1, <1>2, <1>3, AtMoves, PlanSteps

LEMMA EnterSectionTypes ==
  ASSUME TypeInv, EnterSection
  PROVE  TypeInv'
<1> DEFINE s == Current
<1>1. /\ Running /\ Top \in Calls /\ Fits(Top) /\ Top.phase \in Loops
      /\ Top.phase # "read" /\ Top.phase \in PhasesOf(Top.op) /\ Top.conf = conf[Top.dir]
      /\ Top.at \in 1..Len(Secs(Top)) /\ Top.at \in Nat \ {0} /\ Top.at + 1 \in Nat \ {0}
      /\ s = Secs(Top)[Top.at] /\ Len(Secs(Top)) \in Nat
  BY LoopCall, CallReads DEF EnterSection
<1>2. /\ Moved(stack, stack', Top.phase, Top.at + 1, Top.conf)
      /\ todo' \in Seq(StepsOf(cmd.dbg, Top.phase, s, Target[Top.conf][s]))
  BY EnterSectionMoves
<1>3. /\ stack' \in Seq(Calls) /\ stack' # <<>> /\ \A k \in 1..Len(stack') : Fits(stack'[k])
      /\ Top'.phase = Top.phase /\ Top'.at = Top.at + 1 /\ Top'.conf = Top.conf
      /\ Top'.req = Top.req
  BY <1>1, <1>2, MovedTop
<1>4. Secs(Top') = Secs(Top)
  BY <1>3 DEF Secs
<1>5. Top.at + 1 - 1 = Top.at /\ Top.at + 1 \in 2..(Len(Secs(Top)) + 1)
  BY <1>1
<1>6. Entered(Top') = s
  BY <1>1, <1>3, <1>4, <1>5 DEF Entered
<1>7. cmd' = cmd
  BY DEF EnterSection
<1> HIDE DEF s
<1>8. Doing(cmd', Top', todo')
  BY <1>1, <1>2, <1>3, <1>4, <1>5, <1>6, <1>7 DEF Doing
<1> QED
  BY <1>1, <1>3, <1>7, <1>8, VarTypes, CallTypes DEF EnterSection, Running

LEMMA EnterSubdirMoves ==
  ASSUME TypeInv, EnterSubdir
  PROVE  LET s == At(Top.phase, Top.at + 1)
             g == Call(Top.op, SubDir[Current], <<>>) IN
         /\ InLoop /\ Recurses /\ Type[Current] = "subdir" /\ SubDir[Current] \in Dirs
         /\ Moved(stack, s, Top.phase, Top.at + 1, Top.conf)
         /\ g \in Calls /\ Fits(g) /\ stack' = Append(s, g)
         /\ s \in Seq(Calls) /\ \A k \in 1..Len(s) : Fits(s[k])
<1> DEFINE s == At(Top.phase, Top.at + 1)
           g == Call(Top.op, SubDir[Current], <<>>)
<1>1. InLoop /\ Recurses /\ Type[Current] = "subdir" /\ stack' = Append(s, g)
  BY DEF EnterSubdir, Recurses
<1>2. /\ Running /\ Top \in Calls /\ Fits(Top) /\ Top.phase \in Loops
      /\ Top.at + 1 \in Nat \ {0} /\ Current \in Sections /\ Top.conf = conf[Top.dir]
  BY <1>1, LoopCall
<1>3. SubDir[Current] \in Dirs /\ Top.op \in {"build", "install", "distclean"}
  BY <1>1, <1>2, ProjectAssumption DEF Calls
<1>4. g \in Calls /\ Fits(g)
  BY <1>3, CallFits
<1>5. Moved(stack, s, Top.phase, Top.at + 1, Top.conf)
  BY <1>2, AtMoves DEF Loops
<1> HIDE DEF s, g
<1>6. /\ s \in Seq(Calls) /\ Len(s) = Len(stack) /\ Len(stack) \in Nat \ {0}
      /\ \A k \in 1..(Len(stack) - 1) : s[k] = stack[k] /\ Fits(stack[k])
  BY <1>2, <1>5, TopCall DEF Moved, TopIs
<1>7. Fits(s[Len(stack)])
  <2>1. Top = stack[Len(stack)]
    BY <1>2, TopCall
  <2> QED
    BY <1>2, <1>5, <2>1 DEF Moved, Fits
<1>8. \A k \in 1..Len(s) : Fits(s[k])
  <2>1. \A k \in 1..Len(s) : k \in 1..(Len(stack) - 1) \/ k = Len(stack)
    BY <1>6
  <2> QED
    BY <1>6, <1>7, <2>1
<1> QED
  BY <1>1, <1>3, <1>4, <1>5, <1>6, <1>8 DEF s, g

LEMMA EnterSubdirTypes ==
  ASSUME TypeInv, EnterSubdir
  PROVE  TypeInv'
<1>1. /\ stack' \in Seq(Calls) /\ stack' # <<>> /\ \A k \in 1..Len(stack') : Fits(stack'[k])
  BY EnterSubdirMoves, PushFits
<1>2. Running /\ todo' = <<>>
  BY LoopCall DEF EnterSubdir
<1> QED
  BY <1>1, <1>2, VarTypes, CallTypes DEF EnterSubdir, Running

LEMMA EndLoopMoves ==
  ASSUME TypeInv, EndLoop
  PROVE  /\ Running /\ todo = <<>> /\ Top.phase \in Loops /\ Top.at > Len(Secs(Top))
         /\ Top \in Calls /\ Fits(Top) /\ Top.conf = conf[Top.dir]
         /\ NextPhase(Top.phase) \in PhasesOf(Top.op) \ {"read"}
         /\ Moved(stack, stack', NextPhase(Top.phase), 1, Top.conf)
<1>1. /\ Running /\ todo = <<>> /\ Top.phase \in Loops /\ Top.at > Len(Secs(Top))
      /\ stack' = At(NextPhase(Top.phase), 1)
  BY DEF EndLoop, Looping
<1>2. Top \in Calls /\ Fits(Top) /\ Top.phase \in PhasesOf(Top.op) /\ Top.conf = conf[Top.dir]
      /\ Top.op \in {"build", "install", "distclean"}
  BY <1>1, TopCall DEF Fits, Loops, Calls
<1>3. NextPhase(Top.phase) \in PhasesOf(Top.op) \ {"read"}
  BY <1>1, <1>2, LoopPhases
<1>4. NextPhase(Top.phase) \in {"read", "imports", "stubs", "libs", "bins", "copy", "clean", "remove", "end"}
  BY <1>2, <1>3, LoopPhases
<1> QED
  BY <1>1, <1>2, <1>3, <1>4, AtMoves

LEMMA EndLoopTypes ==
  ASSUME TypeInv, EndLoop
  PROVE  TypeInv'
<1> DEFINE p == NextPhase(Top.phase)
<1>1. /\ Running /\ p \in PhasesOf(Top.op) /\ Top.conf = conf[Top.dir]
      /\ Moved(stack, stack', p, 1, Top.conf)
  BY EndLoopMoves
<1> HIDE DEF p
<1>2. /\ stack' \in Seq(Calls) /\ stack' # <<>> /\ \A k \in 1..Len(stack') : Fits(stack'[k])
  BY <1>1, MovedTop
<1> QED
  BY <1>2, EndLoopMoves, VarTypes, CallTypes DEF EndLoop, Running

LEMMA CleanFirstMoves ==
  ASSUME TypeInv, CleanFirst
  PROVE  /\ Running /\ todo = <<>> /\ Top \in Calls /\ Fits(Top) /\ Top.phase = "clean"
         /\ Top.op = "distclean" /\ Top.dir \in Dirs /\ Top.conf = conf[Top.dir]
         /\ "remove" \in PhasesOf(Top.op)
         /\ Moved(stack, stack', "remove", 1, Top.conf)
<1>1. Running /\ Top.phase = "clean" /\ stack' = At("remove", 1)
  BY DEF CleanFirst
<1>2. Top \in Calls /\ Fits(Top)
  BY <1>1, TopCall
<1>3. Top.op \in {"build", "install", "distclean"} /\ Top.dir \in Dirs /\ Top.phase \in PhasesOf(Top.op)
      /\ Top.conf = conf[Top.dir]
  BY <1>1, <1>2 DEF Calls, Fits
<1>4. Top.op = "distclean" /\ "remove" \in PhasesOf(Top.op)
  BY <1>1, <1>3 DEF PhasesOf
<1>5. todo = <<>>
  BY <1>1 DEF TypeInv, Shape, Doing, Loops
<1> QED
  BY <1>1, <1>2, <1>3, <1>4, <1>5, AtMoves

LEMMA CleanFirstTypes ==
  ASSUME TypeInv, CleanFirst
  PROVE  TypeInv'
<1>1. /\ Running /\ "remove" \in PhasesOf(Top.op) /\ Top.conf = conf[Top.dir]
      /\ Moved(stack, stack', "remove", 1, Top.conf)
  BY CleanFirstMoves
<1>2. /\ stack' \in Seq(Calls) /\ stack' # <<>> /\ \A k \in 1..Len(stack') : Fits(stack'[k])
  BY <1>1, MovedTop
<1>3. tree' \in [Files -> Content \union {Absent, Stub}]
  BY CleanFirstMoves, ImportsGone DEF CleanFirst
<1> QED
  BY <1>2, <1>3, CleanFirstMoves, VarTypes, CallTypes DEF CleanFirst, Running

\* What the innermost call still does.
LEMMA TodoIs ==
  ASSUME TypeInv, todo # <<>>
  PROVE  /\ Running /\ Doing(cmd, Top, todo)
         /\ todo \in Seq(Steps) /\ Len(todo) \in Nat \ {0}
         /\ Head(todo) = todo[1] /\ Head(todo) \in Steps
         /\ Tail(todo) \in Seq(Steps) /\ Len(Tail(todo)) = Len(todo) - 1
         /\ \A i \in 1..Len(Tail(todo)) : Tail(todo)[i] = todo[i + 1]
BY DEF TypeInv, TypeOK, Shape

LEMMA PutFileTypes ==
  ASSUME TypeInv, PutFile
  PROVE  TypeInv'
<1> DEFINE step == Head(todo)
<1>1. todo # <<>> /\ Running /\ Doing(cmd, Top, todo) /\ step \in Steps /\ todo' = Tail(todo)
      /\ cmd' = cmd /\ stack' = stack
  BY TodoIs DEF PutFile
<1>2. step.file \in Files /\ step.val \in Content \union {Absent, Stub}
  BY <1>1 DEF Steps
<1>3. /\ tree' \in [Files -> Content \union {Absent, Stub}]
      /\ prefix' \in [Files -> Content \union {Absent, Stub}]
  <2> HIDE DEF step
  <2>1. CASE tree' = [tree EXCEPT ![step.file] = step.val] /\ UNCHANGED prefix
    BY <1>2, <2>1, VarTypes
  <2>2. CASE prefix' = [prefix EXCEPT ![step.file] = step.val] /\ UNCHANGED tree
    BY <1>2, <2>2, VarTypes
  <2>3. CASE prefix' = [prefix EXCEPT ![step.file] = tree[step.file]] /\ UNCHANGED tree
    <3>1. tree[step.file] \in Content \union {Absent, Stub}
      BY <1>2, VarTypes
    <3> QED
      BY <1>2, <2>3, <3>1, VarTypes
  <2> QED
    BY <2>1, <2>2, <2>3 DEF PutFile, step
<1>4. Doing(cmd', Top', todo')
  <2> DEFINE S == StepsOf(cmd.dbg, Top.phase, Entered(Top), Target[Top.conf][Entered(Top)])
  <2>1. todo \in Seq(S)
    BY <1>1 DEF Doing
  <2> HIDE DEF S
  <2>2. todo' \in Seq(S)
    BY <1>1, <2>1
  <2>3. Top' = Top
    BY <1>1 DEF Top
  <2> QED
    BY <1>1, <2>2, <2>3 DEF Doing, S
<1>5. stack \in Seq(Calls) /\ stack # <<>> /\ \A k \in 1..Len(stack) : Fits(stack[k])
  BY <1>1, TopCall
<1> QED
  BY <1>1, <1>3, <1>4, <1>5, VarTypes, CallTypes DEF PutFile, Running

\* A call returns when it has nothing to do.
LEMMA ReturnWhen ==
  ASSUME TypeInv, Running, Top.phase = "end" \/ InLoop
  PROVE  todo = <<>> /\ Top \in Calls /\ Top.dir \in Dirs /\ Len(stack) \in Nat \ {0}
         /\ Popped(stack, Front(stack))
<1>1. todo = <<>>
  BY DEF TypeInv, Shape, Doing, InLoop, Looping, Loops
<1> QED
  BY <1>1, TopCall, PopCall DEF Calls

LEMMA ReturnTypes ==
  ASSUME TypeInv, Running, NEW ret \in {0, 1}, Return(ret), Top.phase = "end" \/ InLoop
  PROVE  TypeInv'
<1> DEFINE then == Len(stack) = 1 /\ cmd.op = "binstall" /\ Top.op = "build" /\ ret = 0
<1>1. todo = <<>> /\ Top.dir \in Dirs /\ Len(stack) \in Nat \ {0} /\ todo' = <<>>
  BY ReturnWhen DEF Return
<1>2. last' \in [Dirs -> AllConfs \union {NoConf}] /\ \A d \in Dirs : last'[d] \in Confs[d] \union {NoConf}
  BY <1>1, VarTypes DEF Return
<1>3. CASE then
  <2> DEFINE g == Call("install", Root, cmd.req)
  <2>1. g \in Calls /\ Fits(g)
    BY VarTypes, CallFits, ProjectAssumption DEF Commands
  <2>2. stack' = <<g>> /\ cmd' = cmd
    BY <1>3 DEF Return
  <2> HIDE DEF g
  <2>3. /\ stack' \in Seq(Calls) /\ stack' # <<>> /\ Len(stack') = 1 /\ stack'[1] = g
    BY <2>1, <2>2
  <2>4. \A k \in 1..Len(stack') : Fits(stack'[k])
    BY <2>1, <2>3
  <2> QED
    BY <1>1, <1>2, <2>2, <2>3, <2>4, VarTypes, CallTypes DEF Return, Running
<1>4. CASE ~then /\ Len(stack) > 1
  <2>1. stack' = Front(stack) /\ cmd' = cmd
    BY <1>4 DEF Return
  <2>2. /\ stack' \in Seq(Calls) /\ Len(stack') = Len(stack) - 1
        /\ \A k \in 1..(Len(stack) - 1) : stack'[k] = stack[k]
    BY <2>1, ReturnWhen DEF Popped
  <2>3. stack' # <<>>
    BY <1>1, <1>4, <2>2
  <2>4. \A k \in 1..Len(stack') : Fits(stack'[k])
    BY <1>1, <2>2, TopCall
  <2> QED
    BY <1>1, <1>2, <2>1, <2>2, <2>3, <2>4, VarTypes, CallTypes DEF Return, Running
<1>5. CASE ~then /\ ~(Len(stack) > 1)
  <2>1. stack' = Front(stack) /\ cmd' = [cmd EXCEPT !.state = IF ret = 0 THEN "ok" ELSE "error"]
    BY <1>5 DEF Return
  <2>2. stack' = <<>>
    BY <1>1, <1>5, <2>1, ReturnWhen DEF Popped
  <2>3. cmd' \in Commands /\ cmd'.state # "running"
    BY <2>1, VarTypes DEF Commands
  <2> QED
    BY <1>1, <1>2, <2>2, <2>3, VarTypes, NoCallTypes DEF Return, userVars
<1> QED
  BY <1>3, <1>4, <1>5

LEMMA DieTypes ==
  ASSUME TypeInv, Die
  PROVE  TypeInv'
<1>1. cmd' \in Commands /\ cmd'.state # "running" /\ stack' = <<>> /\ todo' = <<>>
  BY VarTypes DEF Die, Commands
<1> QED
  BY <1>1, VarTypes, NoCallTypes DEF Die, userVars

LEMMA DieWritingTypes ==
  ASSUME TypeInv, DieWriting
  PROVE  TypeInv'
<1> DEFINE step == Head(todo)
<1>1. cmd' \in Commands /\ cmd'.state # "running" /\ stack' = <<>> /\ todo' = <<>>
  BY VarTypes DEF DieWriting, Commands
<1>2. /\ step.file \in Files /\ step.val \in Content \union {Absent, Stub}
      /\ step.file[1] = "di"
  BY TodoIs DEF DieWriting, Steps
<1>3. step.file[2] \in Sections
  BY <1>2 DEF Files, Kinds
<1>4. tree' = [tree EXCEPT ![step.file] = step.val] /\ cut' = cut \union {step.file[2]}
  BY DEF DieWriting
<1> HIDE DEF step
<1>5. tree' \in [Files -> Content \union {Absent, Stub}] /\ cut' \subseteq Sections
  BY <1>2, <1>3, <1>4, VarTypes
<1> QED
  BY <1>1, <1>5, VarTypes, NoCallTypes DEF DieWriting, userVars

LEMMA StepTypes ==
  ASSUME TypeInv, [Next]_vars
  PROVE  TypeInv'
<1>1. CASE \E s \in Sections : EditSource(s)
  BY <1>1, EditSourceTypes
<1>2. CASE \E d \in Dirs : \E c \in Confs[d] : EditConf(d, c)
  BY <1>2, EditConfTypes
<1>3. CASE \E op \in {"build", "install", "binstall"}, r \in Requests, b \in Debugs : Give(op, r, b)
  BY <1>3, GiveTypes, ProjectAssumption
<1>4. CASE Give("distclean", <<>>, FALSE)
  BY <1>4, GiveTypes
<1>5. CASE Clean
  BY <1>5, CleanTypes
<1>6. CASE Returns \/ Refuse
  BY <1>6, ReturnTypes DEF Returns, Refuse, InLoop, Looping
<1>7. CASE CopyFails \/ Die
  BY <1>7, DieTypes DEF CopyFails
<1>8. CASE UNCHANGED vars
  BY <1>8 DEF vars, TypeInv, TypeOK, Shape, Fits, Top, Running, Doing, Entered, Secs
<1> QED
  BY <1>1, <1>2, <1>3, <1>4, <1>5, <1>6, <1>7, <1>8, ConfigChangedTypes, ReadConfigTypes,
     EnterSectionTypes, EnterSubdirTypes, EndLoopTypes, CleanFirstTypes, PutFileTypes,
     DieWritingTypes DEF Next, User, Work

\* TypeInv is inductive.
THEOREM BuildShape == Spec => []TypeInv
<1>1. Init => TypeInv
  BY InitTypes
<1>2. TypeInv /\ [Next]_vars => TypeInv'
  BY StepTypes
<1> QED
  BY <1>1, <1>2, PTL DEF Spec

\* Whatever the project, the variables of a build keep their types: a command
\* that runs has a call, and plans only files and contents that there are.
THEOREM BuildTypes == Spec => []TypeOK
<1>1. TypeInv => TypeOK
  BY DEF TypeInv
<1> QED
  BY <1>1, BuildShape, PTL

-----------------------------------------------------------------------------
(* Where calls are: an active call and the calls under it are in different  *)
(* directories, but for the distclean of a call that is about to read its   *)
(* configuration.                                                           *)

Lower(rank) ==
  \A i, j \in 1..Len(stack) : i < j =>
    \/ rank[stack[j].dir] < rank[stack[i].dir]
    \/ stack[i].phase = "read" /\ stack[j].dir = stack[i].dir

\* Sections of a call are of its directory.
LEMMA HomeOf ==
  ASSUME TypeInv, InTheirPlaces, NEW g \in Calls, Fits(g), g.phase # "read"
  PROVE  /\ \A i \in 1..Len(Secs(g)) : Home[Secs(g)[i]] = g.dir
         /\ \A i \in 1..Len(Default[g.conf]) : Home[Default[g.conf][i]] = g.dir
<1>1. g.dir \in Dirs /\ g.conf \in Confs[g.dir] /\ g.conf \in AllConfs
  BY CallReads
<1>2. Default[g.conf] \in Seq(Sections) /\ DOMAIN Default[g.conf] = 1..Len(Default[g.conf])
  BY <1>1, ConfOf, LenProperties
<1>3. \A i \in 1..Len(Default[g.conf]) : Home[Default[g.conf][i]] = g.dir
  BY <1>1, <1>2 DEF InTheirPlaces, ToSet
<1>4. CASE Secs(g) = Default[g.conf]
  BY <1>3, <1>4
<1>5. CASE Secs(g) # Default[g.conf]
  <2>1. Secs(g) = g.req /\ g.req # <<>>
    BY <1>5 DEF Secs
  <2>2. g.dir = Root /\ g.req \in Requests /\ DOMAIN g.req = 1..Len(g.req)
    BY <2>1, LenProperties DEF Fits, Calls
  <2> QED
    BY <1>3, <2>1, <2>2 DEF InTheirPlaces, ToSet
<1> QED
  BY <1>4, <1>5

\* A stack of which only the innermost call has moved.
LEMMA MovedLower ==
  ASSUME TypeInv, Running, NEW rank, Lower(rank), NEW t, NEW p, NEW i, NEW c,
         Moved(stack, t, p, i, c)
  PROVE  \A a, b \in 1..Len(t) : a < b =>
           \/ rank[t[b].dir] < rank[t[a].dir]
           \/ t[a].phase = "read" /\ t[b].dir = t[a].dir
<1> DEFINE n == Len(stack)
<1>1. n \in Nat \ {0} /\ Len(t) = n /\ (\A k \in 1..(n - 1) : t[k] = stack[k]) /\ t[n].dir = stack[n].dir
  BY TopCall DEF Moved, TopIs
<1>2. \A k \in 1..n : t[k].dir = stack[k].dir
  <2>1. \A k \in 1..n : k \in 1..(n - 1) \/ k = n
    BY <1>1
  <2> QED
    BY <1>1, <2>1
<1>3. \A a, b \in 1..n : a < b => a \in 1..(n - 1)
  BY <1>1
<1> QED
  BY <1>1, <1>2, <1>3 DEF Lower

LEMMA MovedKeepsLower ==
  ASSUME TypeInv, Running, NEW rank, Lower(rank), NEW p, NEW i, NEW c,
         Moved(stack, stack', p, i, c)
  PROVE  Lower(rank)'
BY MovedLower DEF Lower

LEMMA StepLower ==
  ASSUME TypeInv, InTheirPlaces, NEW rank, Nested(rank), Lower(rank), [Next]_vars
  PROVE  Lower(rank)'
<1> DEFINE n == Len(stack)
<1>1. CASE stack' = stack
  BY <1>1 DEF Lower
<1>2. CASE Len(stack') \in {0, 1}
  BY <1>2 DEF Lower
<1>3. CASE ConfigChanged
  <2> DEFINE g == [Call("distclean", Top.dir, <<>>) EXCEPT !.conf = conf[Top.dir], !.phase = "clean"]
  <2>1. Running /\ Top.phase = "read" /\ stack' = Append(stack, g)
    BY <1>3 DEF ConfigChanged
  <2>2. stack \in Seq(Calls) /\ n \in Nat \ {0} /\ Top = stack[n]
    BY <2>1, TopCall
  <2>3. g.dir = Top.dir
    BY DEF Call
  <2> HIDE DEF g
  <2>4. /\ Len(stack') = n + 1 /\ stack'[n + 1] = g
        /\ \A k \in 1..n : stack'[k] = stack[k]
    BY <2>1, <2>2
  <2> SUFFICES ASSUME NEW i \in 1..(n + 1), NEW j \in 1..(n + 1), i < j
               PROVE  \/ rank[stack'[j].dir] < rank[stack'[i].dir]
                      \/ stack'[i].phase = "read" /\ stack'[j].dir = stack'[i].dir
    BY <2>4 DEF Lower
  <2>5. CASE j \in 1..n
    <3>1. i \in 1..n
      BY <2>2, <2>5
    <3> QED
      BY <2>4, <2>5, <3>1 DEF Lower
  <2>6. CASE j = n + 1 /\ i = n
    BY <2>1, <2>2, <2>3, <2>4, <2>6
  <2>7. CASE j = n + 1 /\ i \in 1..(n - 1)
    <3>1. i \in 1..n /\ n \in 1..n /\ i < n
      BY <2>2, <2>7
    <3>2. \/ rank[stack[n].dir] < rank[stack[i].dir]
          \/ stack[i].phase = "read" /\ stack[n].dir = stack[i].dir
      BY <3>1 DEF Lower
    <3> QED
      BY <2>2, <2>3, <2>4, <2>7, <3>1, <3>2
  <2> QED
    BY <2>2, <2>5, <2>6, <2>7
<1>4. CASE EnterSubdir
  <2> DEFINE s == At(Top.phase, Top.at + 1)
             g == Call(Top.op, SubDir[Current], <<>>)
  <2>1. /\ InLoop /\ Type[Current] = "subdir" /\ SubDir[Current] \in Dirs
        /\ Moved(stack, s, Top.phase, Top.at + 1, Top.conf)
        /\ stack' = Append(s, g) /\ s \in Seq(Calls)
    BY <1>4, EnterSubdirMoves
  <2>2. g.dir = SubDir[Current]
    BY DEF Call
  <2> HIDE DEF s, g
  <2>3. /\ Running /\ Top \in Calls /\ Fits(Top) /\ Top.phase # "read" /\ Top.dir \in Dirs
        /\ Top.at \in 1..Len(Secs(Top)) /\ Current = Secs(Top)[Top.at] /\ Current \in Sections
    BY <2>1, LoopCall
  <2>4. n \in Nat \ {0} /\ Top = stack[n]
    BY <2>3, TopCall
  <2>5. Home[Current] = Top.dir
    BY <2>3, HomeOf
  <2>6. rank \in [Dirs -> Nat] /\ rank[g.dir] < rank[Top.dir]
    BY <2>1, <2>2, <2>3, <2>5 DEF Nested
  <2>7. /\ Len(s) = n /\ s[n].dir = Top.dir
        /\ \A k \in 1..(n - 1) : s[k] = stack[k]
    BY <2>1, <2>4 DEF Moved, TopIs
  <2>8. /\ Len(stack') = n + 1 /\ stack'[n + 1] = g
        /\ \A k \in 1..n : stack'[k] = s[k]
    BY <2>1, <2>7
  <2>9. \A i, j \in 1..n : i < j => \/ rank[s[j].dir] < rank[s[i].dir]
                                    \/ s[i].phase = "read" /\ s[j].dir = s[i].dir
    BY <2>1, <2>3, <2>7, MovedLower
  <2> SUFFICES ASSUME NEW i \in 1..(n + 1), NEW j \in 1..(n + 1), i < j
               PROVE  \/ rank[stack'[j].dir] < rank[stack'[i].dir]
                      \/ stack'[i].phase = "read" /\ stack'[j].dir = stack'[i].dir
    BY <2>8 DEF Lower
  <2>10. CASE j \in 1..n
    <3>1. i \in 1..n
      BY <2>4, <2>10
    <3> QED
      BY <2>8, <2>9, <2>10, <3>1
  <2>11. CASE j = n + 1 /\ i = n
    BY <2>4, <2>6, <2>7, <2>8, <2>11
  <2>12. CASE j = n + 1 /\ i \in 1..(n - 1)
    <3>1. i \in 1..n /\ n \in 1..n /\ i < n
      BY <2>4, <2>12
    <3>2. \/ rank[Top.dir] < rank[s[i].dir] \/ s[i].dir = Top.dir
      BY <2>7, <2>9, <3>1
    <3>3. s[i] = stack[i] /\ stack[i] \in Calls /\ stack[i].dir \in Dirs
      BY <2>3, <2>7, <2>12, <3>1, TopCall DEF Calls
    <3>4. rank[g.dir] \in Nat /\ rank[Top.dir] \in Nat /\ rank[s[i].dir] \in Nat
      BY <2>1, <2>2, <2>3, <2>6, <3>3
    <3>5. rank[g.dir] < rank[s[i].dir]
      BY <2>6, <3>2, <3>4
    <3> QED
      BY <2>8, <2>12, <3>1, <3>5
  <2> QED
    BY <2>4, <2>10, <2>11, <2>12
<1>5. CASE ReadConfig
  BY <1>5, ReadConfigMoves, MovedKeepsLower
<1>6. CASE EnterSection
  BY <1>6, EnterSectionMoves, LoopCall, MovedKeepsLower
<1>7. CASE EndLoop
  BY <1>7, EndLoopMoves, MovedKeepsLower
<1>8. CASE CleanFirst
  BY <1>8, CleanFirstMoves, MovedKeepsLower
<1>9. ASSUME NEW ret \in {0, 1}, Return(ret), Running, Top.phase = "end" \/ InLoop
      PROVE  Lower(rank)'
  <2>1. n \in Nat \ {0} /\ Popped(stack, Front(stack))
    BY <1>9, ReturnWhen
  <2>2. CASE stack' = Front(stack)
    <3>1. Len(stack') = n - 1 /\ \A k \in 1..(n - 1) : stack'[k] = stack[k] /\ k \in 1..n
      BY <2>1, <2>2 DEF Popped
    <3> QED
      BY <3>1 DEF Lower
  <2>3. CASE stack' = <<Call("install", Root, cmd.req)>>
    <3>1. Len(stack') = 1
      BY <2>3
    <3> QED
      BY <3>1, <1>2
  <2> QED
    BY <1>9, <2>2, <2>3 DEF Return
<1>10. CASE Returns \/ Refuse
  BY <1>9, <1>10 DEF Returns, Refuse, InLoop, Looping
<1>11. CASE Die \/ DieWriting \/ CopyFails
  <2>1. Len(stack') = 0
    BY <1>11 DEF Die, DieWriting, CopyFails
  <2> QED
    BY <1>2, <2>1
<1>12. CASE \E op \in {"build", "install", "binstall", "distclean"} : \E r, b : Give(op, r, b)
  <2>1. Len(stack') = 1
    BY <1>12 DEF Give
  <2> QED
    BY <1>2, <2>1
<1>13. CASE \/ \E s \in Sections : EditSource(s)
            \/ \E d \in Dirs : \E c \in Confs[d] : EditConf(d, c)
            \/ Clean \/ PutFile \/ UNCHANGED vars
  BY <1>1, <1>13 DEF EditSource, EditConf, Clean, PutFile, vars
<1> QED
  BY <1>3, <1>4, <1>5, <1>6, <1>7, <1>8, <1>10, <1>11, <1>12, <1>13 DEF Next, User, Work

\* A call that has read its configuration is alone in its directory.
LEMMA Apart ==
  ASSUME TypeInv, Running, NEW rank, Nested(rank), Lower(rank),
         NEW k \in 1..(Len(stack) - 1), stack[k].phase # "read"
  PROVE  stack[k].dir # Top.dir
<1>1. Len(stack) \in Nat \ {0} /\ Top = stack[Len(stack)] /\ k \in 1..Len(stack)
      /\ Len(stack) \in 1..Len(stack) /\ k < Len(stack) /\ stack[k] \in Calls
  BY TopCall
<1>2. rank[Top.dir] < rank[stack[k].dir]
  BY <1>1 DEF Lower
<1>3. rank[stack[k].dir] \in Nat
  BY <1>1 DEF Nested, Calls
<1> QED
  BY <1>2, <1>3

-----------------------------------------------------------------------------
(* Stubs come before links. *)

\* What is removed is made again next.
Whole(q) ==
  \A i \in 1..Len(q) :
    q[i].val = Absent => i < Len(q) /\ q[i + 1].file = q[i].file /\ q[i + 1].val # Absent

LEMMA WholeJoin ==
  ASSUME NEW q \in Seq(Steps), NEW r \in Seq(Steps), Whole(q), Whole(r)
  PROVE  Whole(q \o r)
<1> DEFINE m == Len(q)
           n == Len(r)
           j == q \o r
<1>1. m \in Nat /\ n \in Nat /\ Len(j) = m + n
  OBVIOUS
<1>2. (\A i \in 1..m : j[i] = q[i]) /\ \A i \in (m + 1)..(m + n) : j[i] = r[i - m]
  OBVIOUS
<1> HIDE DEF j
<1> SUFFICES ASSUME NEW i \in 1..(m + n), j[i].val = Absent
             PROVE  i < m + n /\ j[i + 1].file = j[i].file /\ j[i + 1].val # Absent
  BY <1>1 DEF Whole, j
<1>3. CASE i \in 1..m
  <2>1. i < m /\ q[i + 1].file = q[i].file /\ q[i + 1].val # Absent
    BY <1>2, <1>3 DEF Whole
  <2>2. i + 1 \in 1..m
    BY <1>1, <1>3, <2>1
  <2> QED
    BY <1>1, <1>2, <1>3, <2>1, <2>2
<1>4. CASE i \in (m + 1)..(m + n)
  <2>1. i - m \in 1..n /\ i - m + 1 = i + 1 - m
    BY <1>1, <1>4
  <2>2. i - m < n /\ r[i - m + 1].file = r[i - m].file /\ r[i - m + 1].val # Absent
    BY <1>2, <1>4, <2>1 DEF Whole
  <2>3. i < m + n /\ i + 1 \in (m + 1)..(m + n)
    BY <1>1, <1>4, <2>2
  <2> QED
    BY <1>2, <1>4, <2>1, <2>2, <2>3
<1> QED
  BY <1>1, <1>3, <1>4

LEMMA WholeTail ==
  ASSUME NEW q \in Seq(Steps), q # <<>>, Whole(q)
  PROVE  Whole(Tail(q))
<1> DEFINE r == Tail(q)
<1>1. Len(q) \in Nat \ {0} /\ Len(r) = Len(q) - 1 /\ \A i \in 1..Len(r) : r[i] = q[i + 1]
  OBVIOUS
<1> HIDE DEF r
<1> SUFFICES ASSUME NEW i \in 1..Len(r), r[i].val = Absent
             PROVE  i < Len(r) /\ r[i + 1].file = r[i].file /\ r[i + 1].val # Absent
  BY DEF Whole, r
<1>2. i + 1 \in 1..Len(q) /\ q[i + 1].val = Absent
  BY <1>1
<1>3. i + 1 < Len(q) /\ q[i + 1 + 1].file = q[i + 1].file /\ q[i + 1 + 1].val # Absent
  BY <1>2 DEF Whole
<1>4. i + 1 \in 1..Len(r)
  BY <1>1, <1>3
<1> QED
  BY <1>1, <1>3, <1>4

LEMMA MadeWhole ==
  ASSUME NEW f \in Files, NEW v \in Content
  PROVE  Make(f, v) \in Seq(Steps) /\ Whole(Make(f, v))
<1>1. v # Absent
  BY Vals
<1>2. /\ Make(f, v) \in Seq(Steps) /\ Len(Make(f, v)) = 2
      /\ Make(f, v)[1] = Put("tree", f, Absent) /\ Make(f, v)[2] = Put("tree", f, v)
  BY MadeSteps
<1> QED
  BY <1>1, <1>2 DEF Whole, Put

LEMMA NothingWhole == <<>> \in Seq(Steps) /\ Whole(<<>>)
BY DEF Whole

LEMMA LibraryWhole ==
  ASSUME TypeInv, NEW s \in Sections, NEW t \in Targets
  PROVE  Whole(LibraryPlan(s, t))
<1>1. ASSUME NEW k \in {"lib", "dbg"}, NEW v \in Content
      PROVE  BuildLibrary(s, t, k, v) \in Seq(Steps) /\ Whole(BuildLibrary(s, t, k, v))
  <2> DEFINE a == Make(<<k, t>>, v)
             b == IF s \in Shared THEN Make(<<"so", t>>, v) ELSE <<>>
  <2>1. a \in Seq(Steps) /\ Whole(a)
    BY FileNames, MadeWhole
  <2>2. b \in Seq(Steps) /\ Whole(b)
    BY FileNames, MadeWhole, NothingWhole
  <2>3. BuildLibrary(s, t, k, v) = a \o b
    BY DEF BuildLibrary
  <2> HIDE DEF a, b
  <2> QED
    BY <2>1, <2>2, <2>3, WholeJoin
<1> DEFINE d == BuildLibrary(s, t, "dbg", [ed |-> src[s], dbg |-> TRUE, of |-> t])
           l == BuildLibrary(s, t, "lib", [ed |-> src[s], dbg |-> FALSE, of |-> t])
<1>2. src[s] \in Nat
  BY VarTypes
<1>3. d \in Seq(Steps) /\ Whole(d) /\ l \in Seq(Steps) /\ Whole(l)
  BY <1>1, <1>2, MadeOf
<1>4. LibraryPlan(s, t) \in {d \o l, <<>> \o l, <<>>}
  BY DEF LibraryPlan
<1> HIDE DEF d, l
<1>5. Whole(d \o l) /\ Whole(<<>> \o l)
  BY <1>3, NothingWhole, WholeJoin
<1> QED
  BY <1>4, <1>5, NothingWhole

LEMMA PlanWhole ==
  ASSUME TypeInv, NEW s \in Sections, NEW t \in Targets,
         NEW p \in {"imports", "stubs", "libs", "bins"}
  PROVE  Whole(Plan(p, s, t))
<1>1. src[s] \in Nat /\ cmd.dbg \in BOOLEAN
  BY VarTypes DEF Commands
<1> DEFINE v == [ed |-> src[s], dbg |-> cmd.dbg, of |-> t]
<1>2. v # Absent /\ Link(t) # Absent /\ Stub # Absent
  BY <1>1, MadeOf, Vals DEF Link
<1> HIDE DEF v
<1>3. ASSUME NEW f, NEW w, w # Absent
      PROVE  Whole(<<Put("tree", f, w)>>)
  BY <1>3 DEF Whole, Put
<1>4. ASSUME NEW f, NEW w, w # Absent, NEW g, NEW x, x # Absent
      PROVE  Whole(<<Put("tree", f, w), Put("tree", g, x)>>)
  <2> DEFINE q == <<Put("tree", f, w), Put("tree", g, x)>>
  <2>1. Len(q) = 2 /\ q[1].val = w /\ q[2].val = x
    BY DEF Put
  <2>2. \A i \in 1..2 : q[i].val # Absent
    BY <1>4, <2>1
  <2> HIDE DEF q
  <2>3. Whole(q)
    BY <2>1, <2>2 DEF Whole
  <2> QED
    BY <2>3 DEF q
<1>5. CASE p = "imports"
  <2>1. ImportPlan(s, t) \in {<<Put("tree", <<"di", s>>, v)>>, <<>>}
    BY DEF ImportPlan, v
  <2> QED
    BY <1>2, <1>3, <1>5, <2>1, NothingWhole DEF Plan
<1>6. CASE p = "stubs"
  <2>1. StubPlan(s, t) \in {<<Put("tree", <<"so", t>>, Stub), Put("tree", <<"ln", t>>, Link(t))>>, <<>>}
    BY DEF StubPlan
  <2> QED
    BY <1>2, <1>4, <1>6, <2>1, NothingWhole DEF Plan
<1>7. CASE p = "libs"
  BY <1>7, LibraryWhole DEF Plan
<1>8. CASE p = "bins"
  <2>1. BinaryPlan(s, t) \in {<<Put("tree", <<"bin", t>>, v)>>, <<>>}
    BY DEF BinaryPlan, v
  <2> QED
    BY <1>2, <1>3, <1>8, <2>1, NothingWhole DEF Plan
<1> QED
  BY <1>5, <1>6, <1>7, <1>8

\* The shared libraries that are there, real or stubs, once call g of build has
\* come to where it is.
StubFiles(g) ==
  {<<"so", Target[g.conf][Default[g.conf][i]]>> :
     i \in {j \in 1..Len(Default[g.conf]) :
             /\ g.op = "build" /\ g.phase \in {"stubs", "libs", "bins", "end"}
             /\ g.phase = "stubs" => j < g.at
             /\ Type[Default[g.conf][j]] = "library" /\ Default[g.conf][j] \in Shared}}

StubsStand ==
  /\ todo # <<>> /\ Top.op = "build" => Whole(todo)
  /\ \A k \in 1..(Len(stack) - 1) : \A f \in StubFiles(stack[k]) : tree[f] # Absent
  /\ Running => \A f \in StubFiles(Top) :
       tree[f] # Absent \/ (todo # <<>> /\ Head(todo).file = f /\ Head(todo).val # Absent)

LEMMA NoStubFiles ==
  ASSUME NEW g, g.op # "build" \/ g.phase \notin {"stubs", "libs", "bins", "end"}
  PROVE  StubFiles(g) = {}
BY DEF StubFiles

LEMMA StubFilesOf ==
  ASSUME TypeInv, InTheirPlaces, NEW g \in Calls, Fits(g), NEW f \in StubFiles(g)
  PROVE  /\ g.op = "build" /\ g.phase # "read"
         /\ f \in Files /\ f[1] = "so" /\ g.dir \in Dirs /\ g.conf \in Confs[g.dir]
         /\ \E s \in Sections : Home[s] = g.dir /\ f[2] = Target[g.conf][s]
<1>1. PICK i \in 1..Len(Default[g.conf]) :
        /\ g.op = "build" /\ g.phase \in {"stubs", "libs", "bins", "end"}
        /\ f = <<"so", Target[g.conf][Default[g.conf][i]]>>
  BY DEF StubFiles
<1>2. g.phase # "read"
  BY <1>1
<1>3. /\ g.dir \in Dirs /\ g.conf \in AllConfs /\ g.conf \in Confs[g.dir]
      /\ Target[g.conf] \in [Sections -> Targets]
  BY <1>2, CallReads
<1>4. Default[g.conf][i] \in Sections /\ Home[Default[g.conf][i]] = g.dir
  BY <1>2, <1>3, ConfOf, HomeOf
<1> QED
  BY <1>1, <1>2, <1>3, <1>4, FileNames

\* What the innermost call puts is of its own directory.
LEMMA OthersFiles ==
  ASSUME TypeInv, InTheirPlaces, TargetsApart, todo # <<>>,
         NEW g \in Calls, Fits(g), g.dir # Top.dir, NEW f \in StubFiles(g)
  PROVE  Head(todo).file # f
<1> DEFINE s == Entered(Top)
           S == StepsOf(cmd.dbg, Top.phase, s, Target[Top.conf][s])
<1>1. Running /\ Doing(cmd, Top, todo)
  BY TodoIs
<1>2. Top \in Calls /\ Fits(Top) /\ Top.phase # "read"
  BY <1>1, TopCall DEF Doing, Loops
<1>3. Top.at - 1 \in 1..Len(Secs(Top)) /\ Len(Secs(Top)) \in Nat
  BY <1>1, <1>2, CallReads DEF Doing
<1>4. s \in Sections /\ Home[s] = Top.dir /\ Top.conf \in Confs[Top.dir]
  BY <1>2, <1>3, CallReads, HomeOf DEF Entered
<1>5. Head(todo) \in S
  <2>1. todo \in Seq(S)
    BY <1>1 DEF Doing
  <2> HIDE DEF S
  <2> QED
    BY <2>1
<1>6. Head(todo).file \in FilesOf(s, Target[Top.conf][s])
  BY <1>5 DEF StepsOf
<1> HIDE DEF s, S
<1>7. PICK x \in Sections : Home[x] = g.dir /\ f[2] = Target[g.conf][x]
  BY StubFilesOf
<1>8. f[1] = "so" /\ g.conf \in Confs[g.dir]
  BY StubFilesOf
<1>9. SUFFICES ASSUME Head(todo).file = f
               PROVE  FALSE
  OBVIOUS
<1>10. f[2] = Target[Top.conf][s]
  BY <1>6, <1>8, <1>9 DEF FilesOf
<1>11. Top.conf \in Confs[Home[s]] /\ g.conf \in Confs[Home[x]] /\ Home[s] # Home[x]
  BY <1>4, <1>7, <1>8
<1>12. Target[Top.conf][s] = Target[g.conf][x]
  BY <1>7, <1>10
<1> QED
  BY <1>4, <1>7, <1>11, <1>12 DEF TargetsApart

LEMMA InitStubs ==
  ASSUME Init
  PROVE  StubsStand
BY DEF Init, StubsStand, NoCommand, Running

\* A command that has no call, or only one that has yet to read.
LEMMA NoCallStubs ==
  ASSUME \/ ~Running' /\ Len(stack') = 0
         \/ Len(stack') = 1 /\ Top'.phase = "read",
         todo' = <<>>
  PROVE  StubsStand'
<1>1. Running' => StubFiles(Top') = {}
  BY NoStubFiles
<1>2. Len(stack') = 0 \/ Len(stack') = 1
  OBVIOUS
<1>3. StubFiles(Top)' = StubFiles(Top')
  BY DEF StubFiles
<1>4. \A k \in 1..(Len(stack') - 1) : FALSE
  <2>1. \A n \in {0, 1} : \A k \in 1..(n - 1) : FALSE
    OBVIOUS
  <2> QED
    BY <1>2, <2>1
<1> QED
  BY <1>1, <1>3, <1>4 DEF StubsStand

\* The innermost call moves, and the calls that wait keep their stubs.
LEMMA MovedStubs ==
  ASSUME TypeInv, StubsStand, Running, Len(stack') = Len(stack),
         \A k \in 1..(Len(stack) - 1) : stack'[k] = stack[k],
         \A f \in Files : f[1] = "so" => tree'[f] = tree[f],
         InTheirPlaces,
         todo' # <<>> /\ Top'.op = "build" => Whole(todo'),
         \A f \in StubFiles(Top') :
           tree'[f] # Absent \/ (todo' # <<>> /\ Head(todo').file = f /\ Head(todo').val # Absent)
  PROVE  StubsStand'
<1>1. \A k \in 1..(Len(stack') - 1) : \A f \in StubFiles(stack'[k]) : tree'[f] # Absent
  <2> SUFFICES ASSUME NEW k \in 1..(Len(stack) - 1), NEW f \in StubFiles(stack[k])
               PROVE  tree'[f] # Absent
    OBVIOUS
  <2>1. stack[k] \in Calls /\ Fits(stack[k])
    BY TopCall
  <2>2. f \in Files /\ f[1] = "so"
    BY <2>1, StubFilesOf
  <2> QED
    BY <2>2 DEF StubsStand
<1>2. \A k : StubFiles(stack[k])' = StubFiles(stack'[k])
  BY DEF StubFiles
<1>3. StubFiles(Top)' = StubFiles(Top')
  BY DEF StubFiles
<1> QED
  BY <1>1, <1>2, <1>3 DEF StubsStand

LEMMA IdleStubs ==
  ASSUME TypeInv, StubsStand, InTheirPlaces, NEW p, NEW i \in Nat \ {0},
         Running, todo = <<>>, todo' = <<>>,
         Moved(stack, stack', p, i, Top'.conf), p \in PhasesOf(Top.op),
         p # "read" => Top'.conf = conf[Top.dir],
         \A f \in Files : f[1] = "so" => tree'[f] = tree[f],
         StubFiles(Top') \subseteq StubFiles(Top)
  PROVE  StubsStand'
<1>1. /\ Len(stack') = Len(stack) /\ \A k \in 1..(Len(stack) - 1) : stack'[k] = stack[k]
  BY MovedTop
<1>2. \A f \in StubFiles(Top') : tree'[f] # Absent
  <2> SUFFICES ASSUME NEW f \in StubFiles(Top)
               PROVE  tree'[f] # Absent
    OBVIOUS
  <2>1. f \in Files /\ f[1] = "so"
    BY TopCall, StubFilesOf
  <2> QED
    BY <2>1 DEF StubsStand
<1> QED
  BY <1>1, <1>2, MovedStubs

LEMMA ReadConfigStubs ==
  ASSUME TypeInv, InTheirPlaces, StubsStand, ReadConfig
  PROVE  StubsStand'
<1> DEFINE p == FirstPhase(Top.op)
<1>1. /\ Running /\ todo = <<>> /\ p \in PhasesOf(Top.op) /\ Moved(stack, stack', p, 1, conf[Top.dir])
      /\ p \in PhasesOf(Top.op) \ {"read"}
  BY ReadConfigMoves
<1>2. Top'.phase = p /\ Top'.conf = conf[Top.dir]
  BY <1>1, MovedTop
<1>3. StubFiles(Top') = {}
  <2>1. p \in {"imports", "copy", "clean"}
    BY <1>1, TopCall DEF FirstPhase, Calls
  <2> QED
    BY <1>2, <2>1, NoStubFiles
<1> QED
  BY <1>1, <1>2, <1>3, IdleStubs DEF ReadConfig

LEMMA CleanFirstStubs ==
  ASSUME TypeInv, InTheirPlaces, StubsStand, CleanFirst
  PROVE  StubsStand'
<1>1. /\ Running /\ todo = <<>> /\ "remove" \in PhasesOf(Top.op) /\ Top.conf = conf[Top.dir]
      /\ Moved(stack, stack', "remove", 1, Top.conf)
  BY CleanFirstMoves
<1>2. Top'.phase = "remove" /\ Top'.conf = Top.conf
  BY <1>1, MovedTop
<1>3. StubFiles(Top') = {}
  BY <1>2, NoStubFiles
<1>4. \A f \in Files : f[1] = "so" => tree'[f] = tree[f]
  BY DEF CleanFirst, WithoutImports
<1> QED
  BY <1>1, <1>2, <1>3, <1>4, IdleStubs DEF CleanFirst

LEMMA EndLoopStubs ==
  ASSUME TypeInv, InTheirPlaces, StubsStand, EndLoop
  PROVE  StubsStand'
<1> DEFINE p == NextPhase(Top.phase)
<1>1. /\ Running /\ todo = <<>> /\ Top.phase \in Loops /\ Top.at > Len(Secs(Top))
      /\ Top \in Calls /\ Fits(Top) /\ Top.conf = conf[Top.dir]
      /\ p \in PhasesOf(Top.op) \ {"read"}
      /\ Moved(stack, stack', p, 1, Top.conf)
  BY EndLoopMoves
<1>2. Top'.phase = p /\ Top'.conf = Top.conf /\ Top'.op = Top.op /\ Top'.at = 1
  BY <1>1, MovedTop
<1>3. StubFiles(Top') \subseteq StubFiles(Top)
  <2> SUFFICES ASSUME NEW f \in StubFiles(Top')
               PROVE  f \in StubFiles(Top)
    OBVIOUS
  <2>1. PICK i \in 1..Len(Default[Top.conf]) :
          /\ Top.op = "build" /\ p \in {"stubs", "libs", "bins", "end"}
          /\ p = "stubs" => i < 1
          /\ Type[Default[Top.conf][i]] = "library" /\ Default[Top.conf][i] \in Shared
          /\ f = <<"so", Target[Top.conf][Default[Top.conf][i]]>>
    <3> HIDE DEF p
    <3> QED
      BY <1>2 DEF StubFiles
  <2>2. p # "stubs"
    BY <2>1
  <2>3. Top.phase \in {"stubs", "libs", "bins"}
    BY <1>1, <2>1, <2>2 DEF Loops, NextPhase, Fits, PhasesOf
  <2>4. Top.phase = "stubs" => i < Top.at
    <3>1. CASE Top.phase = "stubs"
      <4>1. Secs(Top) = Default[Top.conf]
        BY <3>1 DEF Secs
      <4>2. Len(Secs(Top)) \in Nat /\ Top.at \in Nat
        BY <1>1, <3>1, CallReads DEF Calls
      <4> QED
        BY <1>1, <4>1, <4>2
    <3> QED
      BY <3>1
  <2> QED
    BY <2>1, <2>3, <2>4 DEF StubFiles
<1> HIDE DEF p
<1> QED
  BY <1>1, <1>2, <1>3, IdleStubs DEF EndLoop

LEMMA EnterSectionStubs ==
  ASSUME TypeInv, InTheirPlaces, StubsStand, EnterSection
  PROVE  StubsStand'
<1> DEFINE s == Current
           t == Target[Top.conf][s]
           D == Default[Top.conf]
<1>1. /\ InLoop /\ Moved(stack, stack', Top.phase, Top.at + 1, Top.conf)
      /\ todo' = Plan(Top.phase, s, t)
  BY EnterSectionMoves
<1>2. /\ Running /\ todo = <<>> /\ Top \in Calls /\ Fits(Top) /\ Top.phase # "read"
      /\ Top.phase \in Loops /\ Top.phase \in PhasesOf(Top.op) /\ Top.conf = conf[Top.dir]
      /\ Top.at \in Nat \ {0} /\ Top.at + 1 \in Nat \ {0} /\ s = Secs(Top)[Top.at]
      /\ s \in Sections /\ t \in Targets
  BY <1>1, LoopCall
<1>3. /\ Top'.phase = Top.phase /\ Top'.conf = Top.conf /\ Top'.op = Top.op /\ Top'.at = Top.at + 1
      /\ Len(stack') = Len(stack) /\ \A k \in 1..(Len(stack) - 1) : stack'[k] = stack[k]
  BY <1>1, <1>2, MovedTop
<1>4. Top'.op = "build" => Whole(todo')
  <2>1. Top.op = "build" => Top.phase \in {"imports", "stubs", "libs", "bins"}
    BY <1>2 DEF PhasesOf, Loops
  <2> QED
    BY <1>1, <1>2, <1>3, <2>1, PlanWhole
<1>5. tree' = tree
  BY DEF EnterSection
<1>6. \A f \in StubFiles(Top) : tree[f] # Absent
  BY <1>2 DEF StubsStand
<1> SUFFICES ASSUME NEW f \in StubFiles(Top')
             PROVE  tree'[f] # Absent \/ (todo' # <<>> /\ Head(todo').file = f /\ Head(todo').val # Absent)
  BY <1>2, <1>3, <1>4, <1>5, MovedStubs
<1>7. PICK i \in 1..Len(D) :
        /\ Top.op = "build" /\ Top.phase \in {"stubs", "libs", "bins", "end"}
        /\ Top.phase = "stubs" => i < Top.at + 1
        /\ Type[D[i]] = "library" /\ D[i] \in Shared
        /\ f = <<"so", Target[Top.conf][D[i]]>>
  BY <1>3 DEF StubFiles
<1>8. CASE Top.phase = "stubs" => i < Top.at
  <2>1. f \in StubFiles(Top)
    BY <1>7, <1>8 DEF StubFiles
  <2> QED
    BY <1>5, <1>6, <2>1
<1>9. CASE Top.phase = "stubs" /\ ~(i < Top.at)
  <2>1. i = Top.at
    BY <1>2, <1>7, <1>9
  <2>2. Secs(Top) = D
    BY <1>9 DEF Secs
  <2>3. f = <<"so", t>> /\ Type[s] = "library" /\ s \in Shared
    BY <1>2, <1>7, <2>1, <2>2
  <2>4. CASE tree[f] # Absent
    BY <1>5, <2>4
  <2>5. CASE tree[f] = Absent
    <3>1. todo' = <<Put("tree", f, Stub), Put("tree", <<"ln", t>>, Link(t))>>
      BY <1>1, <1>9, <2>3, <2>5 DEF Plan, StubPlan
    <3>2. todo' # <<>> /\ Head(todo') = Put("tree", f, Stub)
      BY <3>1
    <3> QED
      BY <3>2, Vals DEF Put
  <2> QED
    BY <2>4, <2>5
<1> QED
  BY <1>8, <1>9

LEMMA PutFileStubs ==
  ASSUME TypeInv, InTheirPlaces, TargetsApart, NEW rank, Nested(rank), Lower(rank),
         StubsStand, PutFile
  PROVE  StubsStand'
<1> DEFINE x == Head(todo)
<1>1. /\ Running /\ todo # <<>> /\ x \in Steps /\ todo' = Tail(todo) /\ stack' = stack
      /\ x = todo[1] /\ Len(todo) \in Nat \ {0} /\ todo \in Seq(Steps) /\ todo' \in Seq(Steps)
      /\ Len(todo') = Len(todo) - 1 /\ \A i \in 1..Len(todo') : todo'[i] = todo[i + 1]
      /\ Doing(cmd, Top, todo)
  BY TodoIs DEF PutFile
<1>2. Top' = Top
  BY <1>1 DEF Top
<1>3. x.file \in Files /\ tree \in [Files -> Content \union {Absent, Stub}]
  BY <1>1, VarTypes DEF Steps
<1>4. \/ tree' = tree
      \/ x.where = "tree" /\ tree' = [tree EXCEPT ![x.file] = x.val]
  BY DEF PutFile
<1> HIDE DEF x
<1>5. todo' # <<>> /\ Top'.op = "build" => Whole(todo')
  BY <1>1, <1>2, WholeTail DEF StubsStand
<1>6. \A k \in 1..(Len(stack) - 1) : \A f \in StubFiles(stack[k]) : tree'[f] # Absent
  <2> SUFFICES ASSUME NEW k \in 1..(Len(stack) - 1), NEW f \in StubFiles(stack[k])
               PROVE  tree'[f] # Absent
    OBVIOUS
  <2>1. stack[k] \in Calls /\ Fits(stack[k])
    BY <1>1, TopCall
  <2>2. f \in Files /\ stack[k].phase # "read"
    BY <2>1, StubFilesOf
  <2>3. stack[k].dir # Top.dir
    BY <1>1, <2>2, Apart
  <2>4. x.file # f
    BY <1>1, <2>1, <2>3, OthersFiles DEF x
  <2>5. tree[f] # Absent
    BY DEF StubsStand
  <2> QED
    BY <1>3, <1>4, <2>2, <2>4, <2>5
<1>7. \A f \in StubFiles(Top) :
        tree'[f] # Absent \/ (todo' # <<>> /\ Head(todo').file = f /\ Head(todo').val # Absent)
  <2> SUFFICES ASSUME NEW f \in StubFiles(Top)
               PROVE  tree'[f] # Absent \/ (todo' # <<>> /\ Head(todo').file = f /\ Head(todo').val # Absent)
    OBVIOUS
  <2>1. f \in Files /\ Top.op = "build"
    BY <1>1, TopCall, StubFilesOf
  <2>2. Whole(todo)
    BY <1>1, <2>1 DEF StubsStand
  <2>3. tree[f] # Absent \/ (x.file = f /\ x.val # Absent)
    BY <1>1 DEF StubsStand, x
  <2>4. x.where = "tree" /\ tree' = [tree EXCEPT ![x.file] = x.val]
    <3> DEFINE S == StepsOf(cmd.dbg, Top.phase, Entered(Top), Target[Top.conf][Entered(Top)])
    <3>1. todo \in Seq(S) /\ Top.phase \in Loops
      BY <1>1 DEF Doing
    <3> HIDE DEF S
    <3>2. x \in S
      BY <1>1, <3>1
    <3>3. Top.phase # "copy"
      BY <1>1, <2>1, TopCall DEF Fits, PhasesOf
    <3>4. x.where = "tree"
      BY <3>2, <3>3 DEF S, StepsOf
    <3> QED
      BY <3>4 DEF PutFile, x
  <2>5. CASE x.file # f
    BY <1>3, <2>1, <2>3, <2>4, <2>5
  <2>6. CASE x.file = f /\ x.val # Absent
    BY <1>3, <2>1, <2>4, <2>6
  <2>7. CASE x.file = f /\ x.val = Absent
    <3>1. 1 \in 1..Len(todo)
      BY <1>1
    <3>2. 1 < Len(todo) /\ todo[1 + 1].file = f /\ todo[1 + 1].val # Absent
      BY <1>1, <2>2, <2>7, <3>1 DEF Whole
    <3>3. 1 \in 1..Len(todo') /\ todo'[1] = todo[1 + 1]
      BY <1>1, <3>2
    <3>4. todo' # <<>> /\ Head(todo') = todo'[1]
      <4>1. todo' \in Seq(Steps) /\ Len(todo') >= 1
        BY <1>1, <3>2
      <4>2. \A q \in Seq(Steps) : Len(q) >= 1 => q # <<>> /\ Head(q) = q[1]
        OBVIOUS
      <4> QED
        BY <4>1, <4>2
    <3> QED
      BY <3>2, <3>3, <3>4
  <2> QED
    BY <2>5, <2>6, <2>7
<1>8. StubFiles(Top)' = StubFiles(Top') /\ \A k : StubFiles(stack[k])' = StubFiles(stack'[k])
  BY DEF StubFiles
<1> QED
  BY <1>1, <1>2, <1>5, <1>6, <1>7, <1>8 DEF StubsStand

LEMMA EnterSubdirStubs ==
  ASSUME TypeInv, InTheirPlaces, StubsStand, EnterSubdir
  PROVE  StubsStand'
<1> DEFINE n == Len(stack)
           s == At(Top.phase, Top.at + 1)
           g == Call(Top.op, SubDir[Current], <<>>)
<1>1. /\ InLoop /\ Recurses /\ Type[Current] = "subdir"
      /\ Moved(stack, s, Top.phase, Top.at + 1, Top.conf)
      /\ stack' = Append(s, g) /\ s \in Seq(Calls)
  BY EnterSubdirMoves
<1>2. g.phase = "read"
  BY DEF Call
<1> HIDE DEF s, g
<1>3. /\ Running /\ todo = <<>> /\ Top \in Calls /\ Fits(Top) /\ todo' = <<>> /\ tree' = tree
      /\ n \in Nat \ {0} /\ Top = stack[n] /\ Top.phase \in PhasesOf(Top.op)
  BY <1>1, LoopCall, TopCall DEF EnterSubdir
<1>4. /\ Len(s) = n /\ (\A k \in 1..(n - 1) : s[k] = stack[k])
      /\ s[n].op = Top.op /\ s[n].phase = Top.phase /\ s[n].conf = Top.conf /\ s[n].at = Top.at + 1
  BY <1>1, <1>3 DEF Moved, TopIs
<1>5. /\ Len(stack') = n + 1 /\ (\A k \in 1..(n - 1) : stack'[k] = stack[k])
      /\ stack'[n] = s[n] /\ Top' = g
  BY <1>1, <1>3, <1>4 DEF Top
<1>6. StubFiles(s[n]) \subseteq StubFiles(Top)
  <2>1. Top.phase # "stubs"
    BY <1>1 DEF Recurses
  <2> QED
    BY <1>4, <2>1 DEF StubFiles
<1>7. \A k \in 1..(Len(stack') - 1) : \A f \in StubFiles(stack'[k]) : tree'[f] # Absent
  <2>1. \A f \in StubFiles(Top) : tree[f] # Absent
    BY <1>3 DEF StubsStand
  <2>2. \A k \in 1..(n - 1) : \A f \in StubFiles(stack[k]) : tree[f] # Absent
    BY DEF StubsStand
  <2>3. \A k \in 1..(Len(stack') - 1) : k \in 1..(n - 1) \/ k = n
    BY <1>3, <1>5
  <2> QED
    BY <1>3, <1>5, <1>6, <2>1, <2>2, <2>3
<1>8. StubFiles(Top') = {}
  BY <1>2, <1>5, NoStubFiles
<1>9. StubFiles(Top)' = StubFiles(Top') /\ \A k : StubFiles(stack[k])' = StubFiles(stack'[k])
  BY DEF StubFiles
<1> QED
  BY <1>3, <1>7, <1>8, <1>9 DEF StubsStand

LEMMA ConfigChangedStubs ==
  ASSUME TypeInv, InTheirPlaces, StubsStand, ConfigChanged
  PROVE  StubsStand'
<1> DEFINE n == Len(stack)
           r == Call("distclean", Top.dir, <<>>)
           g == [r EXCEPT !.conf = conf[Top.dir], !.phase = "clean"]
<1>1. Running /\ Top.phase = "read" /\ stack' = Append(stack, g) /\ tree' = tree /\ todo' = todo
  BY DEF ConfigChanged
<1>2. stack \in Seq(Calls) /\ n \in Nat \ {0} /\ Top = stack[n] /\ Top.dir \in Dirs
  BY <1>1, TopCall DEF Calls
<1>3. todo = <<>>
  BY <1>1 DEF TypeInv, Shape, Doing, Loops
<1>4. r \in Calls
  BY <1>2, CallFits
<1> HIDE DEF r
<1>5. g.phase = "clean"
  BY <1>4 DEF Calls
<1> HIDE DEF g
<1>6. /\ Len(stack') = n + 1 /\ (\A k \in 1..n : stack'[k] = stack[k]) /\ Top' = g
  BY <1>1, <1>2 DEF Top
<1>7. \A k \in 1..(Len(stack') - 1) : \A f \in StubFiles(stack'[k]) : tree'[f] # Absent
  <2>1. StubFiles(Top) = {}
    BY <1>1, NoStubFiles
  <2>2. \A k \in 1..(n - 1) : \A f \in StubFiles(stack[k]) : tree[f] # Absent
    BY DEF StubsStand
  <2>3. \A k \in 1..(Len(stack') - 1) : k \in 1..(n - 1) \/ k = n
    BY <1>2, <1>6
  <2> QED
    BY <1>1, <1>2, <1>6, <2>1, <2>2, <2>3
<1>8. StubFiles(Top') = {}
  BY <1>5, <1>6, NoStubFiles
<1>9. StubFiles(Top)' = StubFiles(Top') /\ \A k : StubFiles(stack[k])' = StubFiles(stack'[k])
  BY DEF StubFiles
<1> QED
  BY <1>1, <1>3, <1>7, <1>8, <1>9 DEF StubsStand

LEMMA ReturnStubs ==
  ASSUME TypeInv, InTheirPlaces, StubsStand, NEW ret \in {0, 1}, Return(ret), Running,
         Top.phase = "end" \/ InLoop
  PROVE  StubsStand'
<1> DEFINE n == Len(stack)
<1>1. /\ n \in Nat \ {0} /\ Popped(stack, Front(stack)) /\ todo = <<>>
  BY ReturnWhen
<1>2. todo' = <<>> /\ tree' = tree
  BY <1>1 DEF Return
<1>3. CASE stack' = <<Call("install", Root, cmd.req)>>
  <2>1. Len(stack') = 1 /\ Top'.phase = "read"
    BY <1>3 DEF Top, Call
  <2> QED
    BY <1>2, <2>1, NoCallStubs
<1>4. CASE stack' = Front(stack) /\ n = 1
  <2>1. Len(stack') = 0
    BY <1>1, <1>4 DEF Popped
  <2>2. ~Running'
    <3>1. stack' # <<Call("install", Root, cmd.req)>>
      <4>1. Len(<<Call("install", Root, cmd.req)>>) = 1
        OBVIOUS
      <4> QED
        BY <2>1, <4>1
    <3>2. ~(n > 1)
      BY <1>4
    <3>3. cmd' = [cmd EXCEPT !.state = IF ret = 0 THEN "ok" ELSE "error"]
      BY <3>1, <3>2 DEF Return
    <3> QED
      BY <3>3, VarTypes DEF Running, Commands
  <2> QED
    BY <1>2, <2>1, <2>2, NoCallStubs
<1>5. CASE stack' = Front(stack) /\ n # 1
  <2>1. /\ Len(stack') = n - 1 /\ n - 1 \in 1..(n - 1)
        /\ \A k \in 1..(n - 1) : stack'[k] = stack[k]
    BY <1>1, <1>5 DEF Popped
  <2>2. Top' = stack[n - 1]
    BY <2>1 DEF Top
  <2>3. \A k \in 1..(n - 1) : \A f \in StubFiles(stack[k]) : tree[f] # Absent
    BY DEF StubsStand
  <2>4. StubFiles(Top)' = StubFiles(Top') /\ \A k : StubFiles(stack[k])' = StubFiles(stack'[k])
    BY DEF StubFiles
  <2>5. \A k \in 1..(Len(stack') - 1) : k \in 1..(n - 1)
    BY <1>1, <2>1
  <2> QED
    BY <1>2, <2>1, <2>2, <2>3, <2>4, <2>5 DEF StubsStand
<1> QED
  BY <1>3, <1>4, <1>5 DEF Return

LEMMA StepStubs ==
  ASSUME TypeInv, InTheirPlaces, TargetsApart, NEW rank, Nested(rank), Lower(rank),
         StubsStand, [Next]_vars
  PROVE  StubsStand'
<1>1. CASE \/ \E s \in Sections : EditSource(s)
           \/ \E d \in Dirs : \E c \in Confs[d] : EditConf(d, c)
           \/ Clean
  <2>1. ~Running /\ stack' = stack /\ todo' = todo
    BY <1>1 DEF EditSource, EditConf, Clean
  <2>2. cmd'.state # "running"
    BY <1>1, NoCommandType, CleanCommand DEF EditSource, EditConf
  <2> QED
    BY <2>1, <2>2, NoCalls, NoCallStubs DEF Running
<1>2. CASE \E op \in {"build", "install", "binstall", "distclean"} : \E r, b : Give(op, r, b)
  <2>1. ~Running /\ todo' = todo /\ Len(stack') = 1 /\ stack'[1].phase = "read"
    BY <1>2 DEF Give, Call
  <2> QED
    BY <2>1, NoCalls, NoCallStubs DEF Top
<1>3. CASE Die \/ DieWriting \/ CopyFails
  <2>1. stack' = <<>> /\ todo' = <<>> /\ cmd'.state = "died"
    BY <1>3, VarTypes DEF Die, DieWriting, CopyFails, Commands
  <2> QED
    BY <2>1, NoCallStubs DEF Running
<1>4. CASE Returns \/ Refuse
  BY <1>4, ReturnStubs DEF Returns, Refuse, InLoop, Looping
<1>5. CASE UNCHANGED vars
  BY <1>5 DEF vars, StubsStand, Top, Running, StubFiles
<1> QED
  BY <1>1, <1>2, <1>3, <1>4, <1>5, ConfigChangedStubs, ReadConfigStubs, EnterSectionStubs,
     EnterSubdirStubs, EndLoopStubs, CleanFirstStubs, PutFileStubs DEF Next, User, Work

\* Whatever died before, and whatever was removed: when build links anything,
\* every shared library of the directory is there, but for the one that is
\* being made.  It takes that nested calls work elsewhere, on other files.
THEOREM StubsPrecedeLinks ==
  ASSUME InTheirPlaces, TargetsApart, NEW rank, Nested(rank)
  PROVE  Spec => []StubsFirst
<1> DEFINE Inv == TypeInv /\ Lower(rank) /\ StubsStand
<1>1. Init => Inv
  <2>1. Init => Len(stack) = 0
    BY DEF Init
  <2> QED
    BY <2>1, InitTypes, InitStubs DEF Lower
<1>2. Inv /\ [Next]_vars => Inv'
  BY StepTypes, StepLower, StepStubs
<1>3. Inv => StubsFirst
  <2> SUFFICES ASSUME Inv, Running, Top.op = "build", Top.phase \in {"libs", "bins"},
                      NEW s \in ToSet(Default[Top.conf]), Type[s] = "library", s \in Shared
               PROVE  LET so == <<"so", Target[Top.conf][s]>> IN
                      tree[so] # Absent \/ (todo # <<>> /\ Head(todo).file = so)
    BY DEF StubsFirst
  <2>1. Top \in Calls /\ Fits(Top) /\ Top.phase # "read"
    BY TopCall
  <2>2. Default[Top.conf] \in Seq(Sections)
    BY <2>1, CallReads, ConfOf
  <2>3. PICK i \in 1..Len(Default[Top.conf]) : Default[Top.conf][i] = s
    BY <2>2 DEF ToSet
  <2>4. <<"so", Target[Top.conf][s]>> \in StubFiles(Top)
    BY <2>3 DEF StubFiles
  <2> QED
    BY <2>4 DEF StubsStand
<1> QED
  BY <1>1, <1>2, <1>3, PTL DEF Spec

-----------------------------------------------------------------------------
(* Installed imports find their libraries. *)

\* Of call g, when the command is c, the configurations cf, dsss.last l and the
\* tree t: build and install work with what dsss.last has, and distclean has
\* removed the imports before anything else.
Settled(c, cf, l, t, g) ==
  /\ g.op # "distclean" => c.dbg \in Debugs
  /\ g.op # "distclean" /\ g.phase # "read" => l[g.dir] = cf[g.dir]
  /\ g.op = "distclean" /\ g.phase \in {"remove", "end"} =>
       \A s \in Sections : Home[s] = g.dir => t[<<"di", s>>] = Absent

\* dsss.last is dsss.conf until that is edited; every .di file in the tree is of
\* the target that dsss.last has for its section.
Configured ==
  /\ \A d \in Dirs : last[d] # NoConf /\ ~newer[d] => last[d] = conf[d]
  /\ \A s \in Sections :
       LET di == tree[<<"di", s>>] IN
       di # Absent => /\ di \in Content /\ last[Home[s]] # NoConf
                      /\ di.of = Target[last[Home[s]]][s] /\ di.dbg \in Debugs
  /\ \A k \in 1..Len(stack) : Settled(cmd, conf, last, tree, stack[k])

LEMMA InitConfigured ==
  ASSUME Init
  PROVE  Configured
<1>1. \A s \in Sections : tree[<<"di", s>>] = Absent
  BY FileNames DEF Init
<1> QED
  BY <1>1 DEF Init, Configured

\* With no call.
LEMMA IdleConfigured ==
  ASSUME TypeInv, Configured, Len(stack') = 0, UNCHANGED last,
         \A d \in Dirs : UNCHANGED <<conf[d], newer[d]>> \/ last[d] = NoConf \/ newer'[d],
         \A s \in Sections : tree'[<<"di", s>>] \in {tree[<<"di", s>>], Absent}
  PROVE  Configured'
<1>1. \A d \in Dirs : last'[d] # NoConf /\ ~newer'[d] => last'[d] = conf'[d]
  BY DEF Configured
<1>2. \A s \in Sections : tree'[<<"di", s>>] # Absent =>
        /\ tree'[<<"di", s>>] \in Content /\ last'[Home[s]] # NoConf
        /\ tree'[<<"di", s>>].of = Target[last'[Home[s]]][s] /\ tree'[<<"di", s>>].dbg \in Debugs
  BY DEF Configured
<1> QED
  BY <1>1, <1>2 DEF Configured

\* A step of a command that leaves dsss.last and the imports alone.
LEMMA SameConfigured ==
  ASSUME TypeInv, Configured, UNCHANGED <<conf, last, newer>>,
         \A s \in Sections : tree'[<<"di", s>>] = tree[<<"di", s>>],
         \A k \in 1..Len(stack') : Settled(cmd', conf, last, tree, stack'[k])
  PROVE  Configured'
<1>1. \A k \in 1..Len(stack') : Settled(cmd', conf', last', tree', stack'[k])
  BY DEF Settled
<1>2. \A d \in Dirs : last'[d] # NoConf /\ ~newer'[d] => last'[d] = conf'[d]
  BY DEF Configured
<1>3. \A s \in Sections : tree'[<<"di", s>>] # Absent =>
        /\ tree'[<<"di", s>>] \in Content /\ last'[Home[s]] # NoConf
        /\ tree'[<<"di", s>>].of = Target[last'[Home[s]]][s] /\ tree'[<<"di", s>>].dbg \in Debugs
  BY DEF Configured
<1> QED
  BY <1>1, <1>2, <1>3 DEF Configured

\* The innermost call of a loop moves.
LEMMA MovedConfigured ==
  ASSUME TypeInv, Configured, Running, UNCHANGED <<conf, last, newer, tree, cmd>>,
         NEW t, NEW p, NEW i, Moved(stack, t, p, i, Top.conf),
         Top.phase # "read", Top.op = "distclean" => Top.phase \in {"remove", "end"}
  PROVE  \A k \in 1..Len(stack) : Settled(cmd', conf, last, tree, t[k])
<1> DEFINE n == Len(stack)
<1>1. /\ n \in Nat \ {0} /\ Top = stack[n] /\ (\A k \in 1..(n - 1) : t[k] = stack[k])
      /\ t[n].op = Top.op /\ t[n].dir = Top.dir
  BY TopCall DEF Moved, TopIs
<1>2. Settled(cmd, conf, last, tree, Top)
  BY <1>1 DEF Configured
<1>3. Settled(cmd, conf, last, tree, t[n])
  BY <1>1, <1>2 DEF Settled
<1>4. \A k \in 1..n : k \in 1..(n - 1) \/ k = n
  BY <1>1
<1> QED
  BY <1>1, <1>3, <1>4 DEF Configured

LEMMA ReadConfigTop ==
  ASSUME TypeInv, ReadConfig
  PROVE  /\ Len(stack') = Len(stack) /\ Top' = stack'[Len(stack)]
         /\ Top'.op = Top.op /\ Top'.dir = Top.dir /\ Top'.phase = FirstPhase(Top.op)
         /\ \A k \in 1..(Len(stack) - 1) : stack'[k] = stack[k]
<1> DEFINE p == FirstPhase(Top.op)
           c == conf[Top.dir]
<1>1. Running /\ p \in PhasesOf(Top.op) /\ Moved(stack, stack', p, 1, c)
  BY ReadConfigMoves
<1>2. p # "read" => c = conf[Top.dir]
  OBVIOUS
<1> HIDE DEF p, c
<1>3. /\ Len(stack') = Len(stack) /\ Top' = stack'[Len(stack)]
      /\ Top'.op = Top.op /\ Top'.dir = Top.dir /\ Top'.phase = p
      /\ \A k \in 1..(Len(stack) - 1) : stack'[k] = stack[k]
  BY <1>1, <1>2, MovedTop
<1> QED
  BY <1>3 DEF p

LEMMA ReadConfigConfigured ==
  ASSUME TypeInv, InTheirPlaces, NEW rank, Nested(rank), Lower(rank), Configured, ReadConfig
  PROVE  Configured'
<1> DEFINE n == Len(stack)
           p == FirstPhase(Top.op)
<1>1. /\ Running /\ Top.phase = "read" /\ Top.dir \in Dirs /\ p \in PhasesOf(Top.op)
      /\ p \in PhasesOf(Top.op) \ {"read"}
      /\ Moved(stack, stack', p, 1, conf[Top.dir])
  BY ReadConfigMoves
<1> HIDE DEF p
<1>2. /\ Len(stack') = n /\ Top' = stack'[n] /\ Top'.op = Top.op /\ Top'.dir = Top.dir
      /\ Top'.phase = p /\ \A k \in 1..(n - 1) : stack'[k] = stack[k]
  BY ReadConfigTop DEF p
<1>3. /\ n \in Nat \ {0} /\ Top = stack[n] /\ Top \in Calls
      /\ \A k \in 1..n : stack[k] \in Calls
  BY <1>1, TopCall
<1>4. /\ last' = [last EXCEPT ![Top.dir] = conf[Top.dir]] /\ UNCHANGED <<conf, tree, cmd>>
      /\ newer' = [newer EXCEPT ![Top.dir] = FALSE]
      /\ last[Top.dir] = NoConf \/ ~newer[Top.dir]
  BY DEF ReadConfig, userVars
<1>5. last' \in [Dirs -> AllConfs \union {NoConf}] /\ conf \in [Dirs -> AllConfs] /\ newer \in [Dirs -> BOOLEAN]
      /\ last \in [Dirs -> AllConfs \union {NoConf}]
  BY <1>1, <1>4, VarTypes
<1>6. last[Top.dir] # NoConf => last' = last
  BY <1>1, <1>4, <1>5 DEF Configured
<1>7. \A d \in Dirs : last'[d] # NoConf /\ ~newer'[d] => last'[d] = conf'[d]
  BY <1>1, <1>4, <1>5 DEF Configured
<1>8. \A s \in Sections : tree'[<<"di", s>>] # Absent =>
        /\ tree'[<<"di", s>>] \in Content /\ last'[Home[s]] # NoConf
        /\ tree'[<<"di", s>>].of = Target[last'[Home[s]]][s] /\ tree'[<<"di", s>>].dbg \in Debugs
  <2> SUFFICES ASSUME NEW s \in Sections, tree[<<"di", s>>] # Absent
               PROVE  /\ tree[<<"di", s>>] \in Content /\ last'[Home[s]] # NoConf
                      /\ tree[<<"di", s>>].of = Target[last'[Home[s]]][s]
                      /\ tree[<<"di", s>>].dbg \in Debugs
    BY <1>4
  <2>1. /\ tree[<<"di", s>>] \in Content /\ last[Home[s]] # NoConf
        /\ tree[<<"di", s>>].of = Target[last[Home[s]]][s] /\ tree[<<"di", s>>].dbg \in Debugs
    BY DEF Configured
  <2>2. last'[Home[s]] = last[Home[s]]
    <3>1. Home[s] \in Dirs
      BY ProjectAssumption
    <3> QED
      BY <1>4, <1>5, <1>6, <2>1, <3>1
  <2> QED
    BY <2>1, <2>2
<1>9. \A k \in 1..Len(stack') : Settled(cmd', conf', last', tree', stack'[k])
  <2>1. ASSUME NEW k \in 1..(n - 1)
        PROVE  Settled(cmd', conf', last', tree', stack'[k])
    <3>1. stack[k] \in Calls /\ stack[k].dir \in Dirs /\ k \in 1..n
      BY <1>3 DEF Calls
    <3>2. Settled(cmd, conf, last, tree, stack[k])
      BY <3>1 DEF Configured
    <3>3. last[stack[k].dir] = conf[stack[k].dir] => last'[stack[k].dir] = conf[stack[k].dir]
      BY <1>1, <1>4, <1>5, <3>1
    <3> QED
      BY <1>2, <1>4, <3>2, <3>3 DEF Settled
  <2>2. Settled(cmd', conf', last', tree', stack'[n])
    <3>1. Settled(cmd, conf, last, tree, Top)
      BY <1>3 DEF Configured
    <3>2. p \notin {"remove", "end"}
      BY <1>3 DEF FirstPhase, Calls, p
    <3>3. last'[Top.dir] = conf'[Top.dir]
      BY <1>1, <1>4, <1>5
    <3> QED
      BY <1>2, <1>4, <3>1, <3>2, <3>3 DEF Settled
  <2>3. \A k \in 1..Len(stack') : k \in 1..(n - 1) \/ k = n
    BY <1>2, <1>3
  <2> QED
    BY <2>1, <2>2, <2>3
<1> QED
  BY <1>7, <1>8, <1>9 DEF Configured

LEMMA CleanFirstConfigured ==
  ASSUME TypeInv, Configured, CleanFirst
  PROVE  Configured'
<1> DEFINE n == Len(stack)
<1>1. /\ Running /\ "remove" \in PhasesOf(Top.op) /\ Top.conf = conf[Top.dir]
      /\ Top.op = "distclean" /\ Top.dir \in Dirs
      /\ Moved(stack, stack', "remove", 1, Top.conf)
  BY CleanFirstMoves
<1>2. /\ Len(stack') = n /\ Top' = stack'[n] /\ Top'.op = Top.op /\ Top'.dir = Top.dir
      /\ \A k \in 1..(n - 1) : stack'[k] = stack[k]
  BY <1>1, MovedTop
<1>3. n \in Nat \ {0}
  BY <1>1, TopCall
<1>4. UNCHANGED <<conf, last, newer, cmd>>
  BY DEF CleanFirst, userVars
<1>5. \A s \in Sections : tree'[<<"di", s>>] = IF Home[s] = Top.dir THEN Absent ELSE tree[<<"di", s>>]
  BY FileNames DEF CleanFirst, WithoutImports
<1>6. \A d \in Dirs : last'[d] # NoConf /\ ~newer'[d] => last'[d] = conf'[d]
  BY <1>4 DEF Configured
<1>7. \A s \in Sections : tree'[<<"di", s>>] # Absent =>
        /\ tree'[<<"di", s>>] \in Content /\ last'[Home[s]] # NoConf
        /\ tree'[<<"di", s>>].of = Target[last'[Home[s]]][s] /\ tree'[<<"di", s>>].dbg \in Debugs
  BY <1>4, <1>5 DEF Configured
<1>8. \A k \in 1..Len(stack') : Settled(cmd', conf', last', tree', stack'[k])
  <2>1. \A k \in 1..(n - 1) : Settled(cmd', conf', last', tree', stack'[k])
    BY <1>2, <1>4, <1>5 DEF Configured, Settled
  <2>2. Settled(cmd', conf', last', tree', stack'[n])
    BY <1>1, <1>2, <1>5 DEF Settled
  <2>3. \A k \in 1..Len(stack') : k \in 1..(n - 1) \/ k = n
    BY <1>2, <1>3
  <2> QED
    BY <2>1, <2>2, <2>3
<1> QED
  BY <1>6, <1>7, <1>8 DEF Configured

LEMMA ReturnConfigured ==
  ASSUME TypeInv, InTheirPlaces, NEW rank, Nested(rank), Lower(rank), Configured,
         NEW ret \in {0, 1}, Return(ret), Running,
         Top.phase = "end" \/ (InLoop /\ Top.phase = "bins")
  PROVE  Configured'
<1> DEFINE n == Len(stack)
<1>1. /\ n \in Nat \ {0} /\ Popped(stack, Front(stack)) /\ Top.dir \in Dirs /\ Top \in Calls
  BY ReturnWhen
<1>2. /\ UNCHANGED <<conf, newer, tree>> /\ Top = stack[n] /\ Fits(Top)
      /\ last' = IF Top.op = "distclean" THEN [last EXCEPT ![Top.dir] = NoConf] ELSE last
  BY TopCall DEF Return, userVars
<1>3. Settled(cmd, conf, last, tree, Top)
  BY <1>1, <1>2 DEF Configured
<1>4. /\ last \in [Dirs -> AllConfs \union {NoConf}]
      /\ \A d \in Dirs : last'[d] = IF Top.op = "distclean" /\ d = Top.dir THEN NoConf ELSE last[d]
  BY <1>1, <1>2, VarTypes
<1>5. \A d \in Dirs : last'[d] # NoConf /\ ~newer'[d] => last'[d] = conf'[d]
  BY <1>2, <1>4 DEF Configured
<1>6. \A s \in Sections : tree'[<<"di", s>>] # Absent =>
        /\ tree'[<<"di", s>>] \in Content /\ last'[Home[s]] # NoConf
        /\ tree'[<<"di", s>>].of = Target[last'[Home[s]]][s] /\ tree'[<<"di", s>>].dbg \in Debugs
  <2>1. Top.op = "distclean" => Top.phase = "end"
    BY <1>2 DEF Fits, PhasesOf
  <2>2. \A s \in Sections : Home[s] \in Dirs
    BY ProjectAssumption
  <2>3. \A s \in Sections : Top.op = "distclean" /\ Home[s] = Top.dir => tree[<<"di", s>>] = Absent
    BY <1>3, <2>1 DEF Settled
  <2> QED
    BY <1>2, <1>4, <2>2, <2>3 DEF Configured
<1>7. \A k \in 1..Len(stack') : Settled(cmd', conf', last', tree', stack'[k])
  <2>1. CASE stack' = Front(stack)
    <3>1. /\ Len(stack') = n - 1 /\ \A k \in 1..(n - 1) : stack'[k] = stack[k]
      BY <1>1, <2>1 DEF Popped
    <3> SUFFICES ASSUME NEW k \in 1..(n - 1)
                 PROVE  Settled(cmd', conf', last', tree', stack[k])
      BY <3>1
    <3>2. k \in 1..n /\ stack[k] \in Calls /\ stack[k].dir \in Dirs
      BY <1>1, TopCall DEF Calls
    <3>3. Settled(cmd, conf, last, tree, stack[k])
      BY <3>2 DEF Configured
    <3>4. stack[k].phase # "read" => last'[stack[k].dir] = last[stack[k].dir]
      BY <1>4, <3>2, Apart
    <3>5. cmd'.dbg = cmd.dbg
      BY VarTypes DEF Return, Commands
    <3> QED
      BY <1>2, <3>3, <3>4, <3>5 DEF Settled
  <2>2. CASE stack' # Front(stack)
    <3>1. Top.op = "build" /\ cmd' = cmd /\ stack' = <<Call("install", Root, cmd.req)>>
      BY <2>2 DEF Return
    <3>2. Len(stack') = 1 /\ stack'[1].op = "install" /\ stack'[1].phase = "read"
      BY <3>1 DEF Call
    <3>3. cmd.dbg \in Debugs
      BY <1>3, <3>1 DEF Settled
    <3> QED
      BY <3>1, <3>2, <3>3 DEF Settled
  <2> QED
    BY <2>1, <2>2
<1> QED
  BY <1>5, <1>6, <1>7 DEF Configured

\* What a step of the innermost call does to an import.
LEMMA ImportPut ==
  ASSUME TypeInv, InTheirPlaces, todo # <<>>, NEW s \in Sections,
         Head(todo).file = <<"di", s>>, Head(todo).where = "tree"
  PROVE  LET v == Head(todo).val IN
         /\ Top.op = "build" /\ Top.phase # "read" /\ Home[s] = Top.dir
         /\ v \in Content /\ v.of = Target[conf[Top.dir]][s] /\ v.dbg = cmd.dbg
<1> DEFINE e == Entered(Top)
           S == StepsOf(cmd.dbg, Top.phase, e, Target[Top.conf][e])
           x == Head(todo)
<1>1. todo # <<>> /\ Running /\ Doing(cmd, Top, todo)
  BY TodoIs
<1>2. /\ Top \in Calls /\ Fits(Top) /\ Top.phase # "read" /\ Top.phase \in Loops
  BY <1>1, TopCall DEF Doing, Loops
<1>3. Top.at - 1 \in 1..Len(Secs(Top)) /\ Len(Secs(Top)) \in Nat
  BY <1>1, <1>2, CallReads DEF Doing
<1>4. e \in Sections /\ Home[e] = Top.dir /\ Top.conf = conf[Top.dir]
  BY <1>2, <1>3, CallReads, HomeOf DEF Entered
<1>5. x \in S
  <2>1. todo \in Seq(S)
    BY <1>1 DEF Doing
  <2> HIDE DEF S
  <2> QED
    BY <1>1, <2>1
<1> HIDE DEF e
<1>6. /\ x.file \in FilesOf(e, Target[Top.conf][e]) /\ x.where \in {"tree", "prefix", "copy"}
      /\ Top.phase = "copy" => x.where = "prefix" \/ x.where = "copy"
      /\ Top.phase = "remove" => x.file[1] # "di"
      /\ Top.phase \notin {"copy", "remove"} /\ x.file[1] = "di" =>
           x.val \in Content /\ x.val.of = Target[Top.conf][e] /\ x.val.dbg = cmd.dbg
  BY <1>5 DEF StepsOf, Steps
<1>7. s = e
  BY <1>6 DEF FilesOf
<1>8. Top.phase \notin {"copy", "remove"}
  BY <1>6
<1>9. Top.op = "build"
  BY <1>2, <1>8 DEF Fits, PhasesOf, Loops, Calls
<1> QED
  BY <1>2, <1>4, <1>6, <1>7, <1>8, <1>9

\* The part of Configured that does not speak of calls.
ImportsConfigured ==
  /\ \A d \in Dirs : last[d] # NoConf /\ ~newer[d] => last[d] = conf[d]
  /\ \A s \in Sections : tree[<<"di", s>>] # Absent =>
       /\ tree[<<"di", s>>] \in Content /\ last[Home[s]] # NoConf
       /\ tree[<<"di", s>>].of = Target[last[Home[s]]][s] /\ tree[<<"di", s>>].dbg \in Debugs

\* An import that is written, whole or not, is configured, and its call settled.
LEMMA ImportWritten ==
  ASSUME TypeInv, InTheirPlaces, Configured, todo # <<>>, UNCHANGED <<conf, last, newer>>,
         NEW s \in Sections, Head(todo).where = "tree", Head(todo).file = <<"di", s>>,
         tree' = [tree EXCEPT ![<<"di", s>>] = Head(todo).val]
  PROVE  /\ ImportsConfigured' /\ Top.phase # "read" /\ Home[s] = Top.dir
         /\ \A r \in Sections \ {s} : tree'[<<"di", r>>] = tree[<<"di", r>>]
         /\ Settled(cmd, conf, last, tree', Top)
<1> DEFINE x == Head(todo)
<1>1. Running /\ tree \in [Files -> Content \union {Absent, Stub}]
  BY TodoIs, VarTypes
<1>2. \A r \in Sections : <<"di", r>> \in Files
  BY FileNames
<1>3. /\ Top.op = "build" /\ Top.phase # "read" /\ Home[s] = Top.dir
      /\ x.val \in Content /\ x.val.of = Target[conf[Top.dir]][s] /\ x.val.dbg = cmd.dbg
  BY ImportPut
<1> HIDE DEF x
<1>4. \A r \in Sections : tree'[<<"di", r>>] = IF r = s THEN x.val ELSE tree[<<"di", r>>]
  BY <1>1, <1>2 DEF x
<1>5. /\ Top = stack[Len(stack)] /\ Len(stack) \in Nat \ {0} /\ Top \in Calls /\ Fits(Top)
  BY <1>1, TopCall
<1>6. /\ cmd.dbg \in Debugs /\ last[Top.dir] = conf[Top.dir]
  BY <1>3, <1>5 DEF Configured, Settled
<1>7. last[Top.dir] # NoConf
  BY <1>3, <1>5, <1>6, CallReads, ConfOf
<1>8. \A d \in Dirs : last'[d] # NoConf /\ ~newer'[d] => last'[d] = conf'[d]
  BY DEF Configured
<1>9. \A r \in Sections : tree'[<<"di", r>>] # Absent =>
        /\ tree'[<<"di", r>>] \in Content /\ last'[Home[r]] # NoConf
        /\ tree'[<<"di", r>>].of = Target[last'[Home[r]]][r] /\ tree'[<<"di", r>>].dbg \in Debugs
  BY <1>3, <1>4, <1>6, <1>7 DEF Configured
<1>10. Settled(cmd, conf, last, tree', Top)
  <2>1. Settled(cmd, conf, last, tree, Top)
    BY <1>5 DEF Configured
  <2> QED
    BY <1>3, <2>1 DEF Settled
<1>11. ImportsConfigured'
  BY <1>8, <1>9 DEF ImportsConfigured
<1> QED
  BY <1>3, <1>4, <1>10, <1>11

LEMMA PutFileConfigured ==
  ASSUME TypeInv, InTheirPlaces, NEW rank, Nested(rank), Lower(rank), Configured, PutFile
  PROVE  Configured'
<1> DEFINE x == Head(todo)
<1>1. /\ UNCHANGED <<conf, last, newer, cmd, stack>>
      /\ todo # <<>> /\ Running /\ x \in Steps /\ x.file \in Files
      /\ tree \in [Files -> Content \union {Absent, Stub}]
  BY TodoIs, VarTypes DEF PutFile, userVars, Steps
<1>2. \/ tree' = tree
      \/ x.where = "tree" /\ tree' = [tree EXCEPT ![x.file] = x.val]
  BY DEF PutFile
<1> HIDE DEF x
<1>3. CASE \A s \in Sections : tree'[<<"di", s>>] = tree[<<"di", s>>]
  BY <1>1, <1>3, SameConfigured DEF Configured
<1>4. ASSUME NEW s \in Sections, tree'[<<"di", s>>] # tree[<<"di", s>>]
      PROVE  Configured'
  <2>1. <<"di", s>> \in Files
    BY FileNames
  <2>2. x.where = "tree" /\ x.file = <<"di", s>> /\ tree' = [tree EXCEPT ![<<"di", s>>] = x.val]
    BY <1>1, <1>2, <1>4, <2>1
  <2>3. /\ ImportsConfigured' /\ Top.phase # "read" /\ Home[s] = Top.dir
        /\ \A r \in Sections \ {s} : tree'[<<"di", r>>] = tree[<<"di", r>>]
        /\ Settled(cmd, conf, last, tree', Top)
    BY <1>1, <2>2, ImportWritten DEF x
  <2>4. /\ Top = stack[Len(stack)] /\ Len(stack) \in Nat \ {0}
    BY <1>1, TopCall
  <2>5. \A k \in 1..Len(stack) : Settled(cmd', conf', last', tree', stack'[k])
    <3> SUFFICES ASSUME NEW k \in 1..Len(stack)
                 PROVE  Settled(cmd, conf, last, tree', stack[k])
      BY <1>1
    <3>1. Settled(cmd, conf, last, tree, stack[k])
      BY DEF Configured
    <3>2. CASE k = Len(stack)
      BY <2>3, <2>4, <3>2
    <3>3. CASE k \in 1..(Len(stack) - 1)
      <4>1. stack[k].phase # "read" => stack[k].dir # Home[s]
        BY <1>1, <2>3, <3>3, Apart
      <4> QED
        BY <2>3, <3>1, <4>1 DEF Settled
    <3> QED
      BY <2>4, <3>2, <3>3
  <2> QED
    BY <1>1, <2>3, <2>5 DEF Configured, ImportsConfigured
<1> QED
  BY <1>3, <1>4

LEMMA StepConfigured ==
  ASSUME TypeInv, InTheirPlaces, NEW rank, Nested(rank), Lower(rank), Configured, [Next]_vars
  PROVE  Configured'
<1> DEFINE n == Len(stack)
<1>1. CASE \/ \E s \in Sections : EditSource(s)
           \/ \E d \in Dirs : \E c \in Confs[d] : EditConf(d, c)
           \/ Clean
  <2>1. ~Running /\ stack' = stack /\ UNCHANGED last
    BY <1>1 DEF EditSource, EditConf, Clean
  <2>2. \A d \in Dirs : UNCHANGED <<conf[d], newer[d]>> \/ last[d] = NoConf \/ newer'[d]
    BY <1>1, VarTypes DEF EditSource, EditConf, Clean, userVars
  <2>3. \A s \in Sections : tree'[<<"di", s>>] \in {tree[<<"di", s>>], Absent}
    BY <1>1, FileNames DEF EditSource, EditConf, Clean, WithoutImports
  <2>4. Len(stack') = 0
    BY <2>1, NoCalls
  <2> QED
    BY <2>1, <2>2, <2>3, <2>4, IdleConfigured
<1>2. CASE Die \/ CopyFails
  <2>1. Len(stack') = 0 /\ UNCHANGED <<conf, last, newer, tree>>
    BY <1>2 DEF Die, CopyFails, userVars
  <2> QED
    BY <2>1, IdleConfigured
<1>3. CASE DieWriting
  <2>1. /\ todo # <<>> /\ Head(todo).where = "tree" /\ Head(todo).file[1] = "di"
        /\ tree' = [tree EXCEPT ![Head(todo).file] = Head(todo).val]
        /\ UNCHANGED <<conf, last, newer>> /\ Len(stack') = 0
    BY <1>3 DEF DieWriting, userVars
  <2>2. PICK s \in Sections : Head(todo).file = <<"di", s>>
    BY <2>1, TodoIs DEF Steps, Files, Kinds
  <2>3. ImportsConfigured'
    BY <2>1, <2>2, ImportWritten
  <2> QED
    BY <2>1, <2>3 DEF ImportsConfigured, Configured
<1>4. ASSUME NEW op \in {"build", "install", "binstall", "distclean"}, NEW r, NEW b, Give(op, r, b),
             op # "distclean" => b \in Debugs
      PROVE  Configured'
  <2>1. /\ Len(stack') = 1 /\ stack'[1].phase = "read" /\ UNCHANGED <<conf, last, newer, tree>>
        /\ stack'[1].op # "distclean" => cmd'.dbg \in Debugs
    BY <1>4 DEF Give, Call, userVars
  <2>2. \A k \in 1..Len(stack') : Settled(cmd', conf, last, tree, stack'[k])
    BY <2>1 DEF Settled
  <2> QED
    BY <2>1, <2>2, SameConfigured
<1>5. CASE ConfigChanged
  <2> DEFINE r == Call("distclean", Top.dir, <<>>)
             g == [r EXCEPT !.conf = conf[Top.dir], !.phase = "clean"]
  <2>1. /\ Running /\ stack' = Append(stack, g) /\ UNCHANGED <<conf, last, newer, tree, cmd>>
    BY <1>5 DEF ConfigChanged, userVars
  <2>2. stack \in Seq(Calls) /\ n \in Nat \ {0} /\ Top.dir \in Dirs
    BY <2>1, TopCall DEF Calls
  <2>3. r \in Calls /\ r.op = "distclean"
    BY <2>2, CallFits DEF Call
  <2> HIDE DEF r
  <2>4. g.op = "distclean" /\ g.phase = "clean"
    BY <2>3 DEF Calls
  <2> HIDE DEF g
  <2>5. Len(stack') = n + 1 /\ stack'[n + 1] = g /\ \A k \in 1..n : stack'[k] = stack[k]
    BY <2>1, <2>2
  <2>6. \A k \in 1..(n + 1) : k \in 1..n \/ k = n + 1
    BY <2>2
  <2>7. \A k \in 1..Len(stack') : Settled(cmd', conf, last, tree, stack'[k])
    BY <2>1, <2>4, <2>5, <2>6 DEF Settled, Configured
  <2> QED
    BY <2>1, <2>7, SameConfigured
<1>6. CASE EnterSubdir
  <2> DEFINE s == At(Top.phase, Top.at + 1)
             g == Call(Top.op, SubDir[Current], <<>>)
  <2>1. /\ InLoop /\ Moved(stack, s, Top.phase, Top.at + 1, Top.conf)
        /\ stack' = Append(s, g) /\ s \in Seq(Calls)
    BY <1>6, EnterSubdirMoves
  <2>2. g.op = Top.op /\ g.phase = "read"
    BY DEF Call
  <2>3. UNCHANGED <<conf, last, newer, tree, cmd>>
    BY <1>6 DEF EnterSubdir, userVars
  <2> HIDE DEF s, g
  <2>4. /\ Running /\ Top.phase # "read" /\ Top.phase \in PhasesOf(Top.op) /\ Top.phase \in Loops
    BY <2>1, LoopCall
  <2>5. Top.op = "distclean" => Top.phase \in {"remove", "end"}
    BY <2>4 DEF PhasesOf, Loops
  <2>6. \A k \in 1..n : Settled(cmd', conf, last, tree, s[k])
    BY <2>1, <2>3, <2>4, <2>5, MovedConfigured
  <2>7. n \in Nat \ {0} /\ Top = stack[n] /\ Len(s) = n
    BY <2>1, <2>4, TopCall DEF Moved, TopIs
  <2>8. Len(stack') = n + 1 /\ stack'[n + 1] = g /\ \A k \in 1..n : stack'[k] = s[k]
    BY <2>1, <2>7
  <2>9. Settled(cmd', conf, last, tree, g)
    BY <2>2, <2>3, <2>7 DEF Settled, Configured
  <2>10. \A k \in 1..(n + 1) : k \in 1..n \/ k = n + 1
    BY <2>7
  <2>11. \A k \in 1..Len(stack') : Settled(cmd', conf, last, tree, stack'[k])
    BY <2>6, <2>8, <2>9, <2>10
  <2> QED
    BY <2>3, <2>11, SameConfigured
<1>7. CASE EnterSection
  <2>1. InLoop /\ Moved(stack, stack', Top.phase, Top.at + 1, Top.conf)
    BY <1>7, EnterSectionMoves
  <2>2. UNCHANGED <<conf, last, newer, tree, cmd>>
    BY <1>7 DEF EnterSection, userVars
  <2>3. /\ Running /\ Top.phase # "read" /\ Top.phase \in PhasesOf(Top.op) /\ Top.phase \in Loops
    BY <2>1, LoopCall
  <2>4. Top.op = "distclean" => Top.phase \in {"remove", "end"}
    BY <2>3 DEF PhasesOf, Loops
  <2>5. Len(stack') = n
    BY <2>1 DEF Moved, TopIs
  <2> QED
    BY <2>1, <2>2, <2>3, <2>4, <2>5, MovedConfigured, SameConfigured
<1>8. CASE EndLoop
  <2> DEFINE p == NextPhase(Top.phase)
  <2>1. /\ Running /\ Top.phase \in Loops /\ Fits(Top) /\ Moved(stack, stack', p, 1, Top.conf)
    BY <1>8, EndLoopMoves
  <2> HIDE DEF p
  <2>2. UNCHANGED <<conf, last, newer, tree, cmd>>
    BY <1>8 DEF EndLoop, userVars
  <2>3. Top.phase # "read" /\ (Top.op = "distclean" => Top.phase \in {"remove", "end"})
    BY <2>1 DEF Fits, PhasesOf, Loops
  <2>4. Len(stack') = n
    BY <2>1 DEF Moved, TopIs
  <2> QED
    BY <2>1, <2>2, <2>3, <2>4, MovedConfigured, SameConfigured
<1>9. CASE Returns \/ Refuse
  <2>1. PICK ret \in {0, 1} : Return(ret) /\ Running
                              /\ (Top.phase = "end" \/ (InLoop /\ Top.phase = "bins"))
    BY <1>9 DEF Returns, Refuse, Refused, InLoop, Looping
  <2> QED
    BY <2>1, ReturnConfigured
<1>10. CASE UNCHANGED vars
  BY <1>10 DEF vars, Configured
<1> QED
  BY <1>1, <1>2, <1>3, <1>4, <1>5, <1>6, <1>7, <1>8, <1>9, <1>10, ReadConfigConfigured,
     CleanFirstConfigured, PutFileConfigured DEF Next, User, Work

\* File f is installed in pf, or q copies it before its step i.
Coming(pf, q, f, i) ==
  pf[f] # Absent \/ \E j \in 1..(i - 1) : q[j] = Put("copy", f, Absent)

\* A library comes before the imports that name it.
LibrariesFirst ==
  todo # <<>> /\ Top.op = "install" =>
    LET t == Target[Top.conf][Entered(Top)] IN
    \A i \in 1..Len(todo) : todo[i].file[1] = "di" =>
      /\ Coming(prefix, todo, <<"lib", t>>, i)
      /\ cmd.dbg => Coming(prefix, todo, <<"dbg", t>>, i)

\* What is installed of the imports is never a stub.
ImportsAreMade == \A s \in Sections : prefix[<<"di", s>>] \in Content \union {Absent}

Linked == LibrariesFirst /\ ImportsAreMade /\ InstalledImportsLink

LEMMA InstallOrder ==
  ASSUME NEW s \in Sections, NEW t \in Targets, cmd.dbg \in BOOLEAN,
         NEW i \in 1..Len(InstallPlan(s, t)), InstallPlan(s, t)[i].file[1] = "di"
  PROVE  /\ \E j \in 1..(i - 1) : InstallPlan(s, t)[j] = Put("copy", <<"lib", t>>, Absent)
         /\ cmd.dbg => \E j \in 1..(i - 1) : InstallPlan(s, t)[j] = Put("copy", <<"dbg", t>>, Absent)
<1> DEFINE x(f) == Put("copy", f, Absent)
           l == <<x(<<"lib", t>>)>>
           d == <<x(<<"dbg", t>>)>>
           b == <<x(<<"bin", t>>)>>
           so == <<x(<<"so", t>>)>>
           di == <<x(<<"di", s>>)>>
           ln == <<Put("prefix", <<"ln", t>>, Link(t))>>
           dd == IF cmd.dbg THEN d ELSE <<>>
           sh == IF s \in Shared THEN so \o ln ELSE <<>>
           q == InstallPlan(s, t)
<1>1. /\ Copies(<<<<"lib", t>>>>) = l /\ Copies(<<<<"dbg", t>>>>) = d /\ Copies(<<<<"bin", t>>>>) = b
      /\ Copies(<<<<"so", t>>>>) = so /\ Copies(<<<<"di", s>>>>) = di
  BY FileNames, CopyOf
<1>2. q \in {((l \o dd) \o sh) \o di, b, <<>>}
  BY <1>1 DEF InstallPlan
<1>3. x(<<"lib", t>>).file[1] # "di" /\ x(<<"dbg", t>>).file[1] # "di" /\ x(<<"bin", t>>).file[1] # "di"
  BY DEF Put
<1>4. /\ l \in Seq(Steps) /\ dd \in Seq(Steps) /\ sh \in Seq(Steps) /\ di \in Seq(Steps)
  <2>1. Link(t) \in Content
    BY MadeOf DEF Link
  <2>2. Put("prefix", <<"ln", t>>, Link(t)) \in Steps
    BY <2>1, FileNames, PutStep
  <2>3. x(<<"lib", t>>) \in Steps /\ x(<<"dbg", t>>) \in Steps /\ x(<<"so", t>>) \in Steps /\ x(<<"di", s>>) \in Steps
    BY FileNames, CopyOf
  <2> HIDE DEF x
  <2>4. so \o ln \in Seq(Steps) /\ d \in Seq(Steps) /\ <<>> \in Seq(Steps)
    BY <2>2, <2>3
  <2> QED
    BY <2>3, <2>4
<1>5. Len(b) = 1 /\ b[1].file[1] # "di" /\ Len(l) = 1 /\ l[1] = x(<<"lib", t>>)
  BY <1>3
<1>6. cmd.dbg => Len(dd) = 1 /\ dd[1] = x(<<"dbg", t>>)
  OBVIOUS
<1> HIDE DEF x, l, d, b, so, di, ln, dd, sh
<1>7. q = ((l \o dd) \o sh) \o di
  <2>1. q # b
    BY <1>5 DEF q
  <2>2. q # <<>>
    BY DEF q
  <2> QED
    BY <1>2, <2>1, <2>2
<1> DEFINE a == l \o dd
<1>8. /\ a \in Seq(Steps) /\ Len(a) = 1 + Len(dd) /\ Len(dd) \in Nat /\ a[1] = x(<<"lib", t>>)
      /\ cmd.dbg => Len(a) = 2 /\ a[2] = x(<<"dbg", t>>)
  <2>1. Len(dd) \in Nat
    BY <1>4
  <2>2. /\ a \in Seq(Steps) /\ Len(a) = Len(l) + Len(dd)
        /\ \A k \in 1..(Len(l) + Len(dd)) : a[k] = IF k <= Len(l) THEN l[k] ELSE dd[k - Len(l)]
    BY <1>4, ConcatProperties
  <2> HIDE DEF a
  <2>3. \A k \in 1..(1 + Len(dd)) : a[k] = IF k <= 1 THEN l[k] ELSE dd[k - 1]
    BY <1>5, <2>2
  <2>4. \A n \in Nat : 1 \in 1..(1 + n) /\ (n = 1 => 2 \in 1..(1 + n) /\ 2 - 1 = 1)
    OBVIOUS
  <2>5. a[1] = l[1]
    BY <2>1, <2>3, <2>4
  <2>6. CASE cmd.dbg
    <3>1. Len(dd) = 1 /\ dd[1] = x(<<"dbg", t>>)
      BY <1>6, <2>6
    <3>2. 2 \in 1..(1 + Len(dd)) /\ ~(2 <= 1) /\ 2 - 1 = 1
      BY <3>1
    <3>3. a[2] = IF 2 <= 1 THEN l[2] ELSE dd[2 - 1]
      BY <2>3, <3>2
    <3>4. a[2] = dd[1]
      BY <3>2, <3>3
    <3>5. Len(a) = 2
      BY <1>5, <2>2, <3>1
    <3> QED
      BY <1>5, <2>1, <2>2, <2>5, <3>1, <3>4, <3>5
  <2> QED
    BY <1>5, <2>1, <2>2, <2>5, <2>6
<1> DEFINE r == a \o sh
<1> HIDE DEF a, q
<1>9. r \in Seq(Steps) /\ Len(r) >= Len(a) /\ \A k \in 1..Len(a) : r[k] = a[k]
  BY <1>4, <1>8
<1> HIDE DEF r
<1>10. Len(r) \in Nat /\ Len(q) = Len(r) + Len(di) /\ \A k \in 1..Len(r) : q[k] = r[k]
  BY <1>4, <1>7, <1>9 DEF a, r
<1>11. 1 \in 1..Len(a) /\ 1 \in 1..Len(r) /\ q[1] = x(<<"lib", t>>)
  BY <1>8, <1>9, <1>10
<1>12. cmd.dbg => q[2] = x(<<"dbg", t>>)
  BY <1>8, <1>9, <1>10
<1>13. q[i].file[1] = "di" /\ i \in Nat \ {0}
  BY DEF q
<1>14. i > 1
  BY <1>3, <1>11, <1>13
<1>15. cmd.dbg => i > 2
  BY <1>3, <1>12, <1>13, <1>14
<1>16. 1 \in 1..(i - 1) /\ (cmd.dbg => 2 \in 1..(i - 1))
  BY <1>13, <1>14, <1>15
<1> QED
  BY <1>11, <1>12, <1>16 DEF q, x

LEMMA EnterSectionFirst ==
  ASSUME TypeInv, EnterSection
  PROVE  LibrariesFirst'
<1> DEFINE s == Current
           t == Target[Top.conf][s]
<1>1. /\ InLoop /\ Moved(stack, stack', Top.phase, Top.at + 1, Top.conf)
      /\ todo' = Plan(Top.phase, s, t) /\ cmd' = cmd
  BY EnterSectionMoves DEF EnterSection
<1>2. /\ Running /\ Top \in Calls /\ Fits(Top) /\ Top.phase \in Loops /\ Top.phase # "read"
      /\ Top.phase \in PhasesOf(Top.op) /\ Top.conf = conf[Top.dir]
      /\ Top.at \in Nat \ {0} /\ Top.at + 1 \in Nat \ {0} /\ s = Secs(Top)[Top.at]
      /\ s \in Sections /\ t \in Targets
  BY <1>1, LoopCall
<1>3. /\ Top'.phase = Top.phase /\ Top'.conf = Top.conf /\ Top'.op = Top.op /\ Top'.at = Top.at + 1
      /\ Top'.req = Top.req
  BY <1>1, <1>2, MovedTop
<1>4. Entered(Top') = s
  <2>1. Top.at + 1 - 1 = Top.at
    BY <1>2
  <2>2. Secs(Top') = Secs(Top)
    BY <1>3 DEF Secs
  <2> QED
    BY <1>2, <1>3, <2>1, <2>2 DEF Entered
<1>5. cmd.dbg \in BOOLEAN
  BY VarTypes DEF Commands
<1> HIDE DEF s, t
<1>6. CASE Top.op = "install"
  <2>1. Top.phase = "copy"
    BY <1>2, <1>6 DEF PhasesOf, Loops
  <2>2. todo' = InstallPlan(s, t)
    BY <1>1, <2>1 DEF Plan
  <2>3. Target[Top'.conf][Entered(Top')] = t
    BY <1>3, <1>4 DEF t
  <2>4. \A i \in 1..Len(todo') : todo'[i].file[1] = "di" =>
          /\ Coming(prefix', todo', <<"lib", t>>, i)
          /\ cmd.dbg => Coming(prefix', todo', <<"dbg", t>>, i)
    <3> SUFFICES ASSUME NEW i \in 1..Len(InstallPlan(s, t)), InstallPlan(s, t)[i].file[1] = "di"
                 PROVE  /\ Coming(prefix', todo', <<"lib", t>>, i)
                        /\ cmd.dbg => Coming(prefix', todo', <<"dbg", t>>, i)
      BY <2>2
    <3> QED
      BY <1>2, <1>5, <2>2, InstallOrder DEF Coming
  <2>5. Entered(Top)' = Entered(Top')
    BY DEF Entered, Secs
  <2> QED
    BY <1>1, <2>3, <2>4, <2>5 DEF LibrariesFirst
<1>7. CASE Top.op # "install"
  BY <1>3, <1>7 DEF LibrariesFirst
<1> QED
  BY <1>6, <1>7

LEMMA PutFileLinks ==
  ASSUME TypeInv, InTheirPlaces, OneMode, Configured, Linked, PutFile
  PROVE  Linked'
<1> DEFINE x == Head(todo)
           e == Entered(Top)
           t == Target[Top.conf][e]
           S == StepsOf(cmd.dbg, Top.phase, e, t)
<1>1. /\ UNCHANGED <<conf, cmd, stack>> /\ todo # <<>> /\ Running /\ Doing(cmd, Top, todo)
      /\ x = todo[1] /\ x \in Steps /\ x.file \in Files /\ todo' = Tail(todo)
      /\ Len(todo) \in Nat \ {0} /\ Len(todo') = Len(todo) - 1
      /\ \A i \in 1..Len(todo') : todo'[i] = todo[i + 1]
      /\ prefix \in [Files -> Content \union {Absent, Stub}]
  BY TodoIs, VarTypes DEF PutFile, userVars, Steps
<1>2. /\ Top \in Calls /\ Fits(Top) /\ Top.phase # "read" /\ Top.phase \in Loops
      /\ Top.phase \in PhasesOf(Top.op) /\ Top = stack[Len(stack)] /\ Len(stack) \in Nat \ {0}
  BY <1>1, TopCall DEF Doing, Loops, Fits
<1>3. Top.at - 1 \in 1..Len(Secs(Top)) /\ Len(Secs(Top)) \in Nat
  BY <1>1, <1>2, CallReads DEF Doing
<1>4. e \in Sections /\ Home[e] = Top.dir /\ Top.conf = conf[Top.dir] /\ t \in Targets
  BY <1>2, <1>3, CallReads, HomeOf DEF Entered
<1>5. x \in S
  <2>1. todo \in Seq(S)
    BY <1>1 DEF Doing
  <2> HIDE DEF S
  <2> QED
    BY <1>1, <2>1
<1>6. /\ x.file \in FilesOf(e, t)
      /\ Top.phase = "copy" =>
           (x.where = "prefix" /\ x.file[1] = "ln" /\ x.val # Absent) \/ x.where = "copy"
      /\ Top.phase # "copy" => x.where = "tree"
  BY <1>5 DEF StepsOf
<1>7. \/ x.where = "tree" /\ prefix' = prefix
      \/ x.where = "prefix" /\ prefix' = [prefix EXCEPT ![x.file] = x.val]
      \/ x.where = "copy" /\ tree[x.file] # Absent /\ prefix' = [prefix EXCEPT ![x.file] = tree[x.file]]
  BY DEF PutFile
<1>8. Top' = Top /\ Entered(Top)' = e
  BY <1>1 DEF Top, Entered, Secs
<1> HIDE DEF x, e, t, S
<1>9. Top.phase = "copy" <=> Top.op = "install"
  BY <1>2 DEF PhasesOf, Loops, Calls
<1>10. \A f \in Files : prefix[f] # Absent => prefix'[f] # Absent
  BY <1>1, <1>6, <1>7
<1>11. x.where = "copy" => prefix'[x.file] # Absent
  BY <1>1, <1>6, <1>7
<1> USE DEF Linked
<1>12. LibrariesFirst'
  <2> SUFFICES ASSUME Top.op = "install", NEW i \in 1..Len(todo'), todo'[i].file[1] = "di",
                      NEW k \in {"lib", "dbg"}, k = "dbg" => cmd.dbg
               PROVE  Coming(prefix', todo', <<k, t>>, i)
    BY <1>1, <1>8 DEF LibrariesFirst, t
  <2>1. i + 1 \in 1..Len(todo) /\ todo[i + 1] = todo'[i] /\ <<k, t>> \in Files
    BY <1>1, <1>4, FileNames
  <2>2. Coming(prefix, todo, <<k, t>>, i + 1)
    BY <1>1, <2>1 DEF LibrariesFirst, e, t
  <2>3. CASE prefix[<<k, t>>] # Absent
    BY <1>10, <2>1, <2>3 DEF Coming
  <2>4. CASE prefix[<<k, t>>] = Absent
    <3>1. PICK j \in 1..i : todo[j] = Put("copy", <<k, t>>, Absent)
      BY <2>1, <2>2, <2>4 DEF Coming
    <3>2. CASE j = 1
      <4>1. x.where = "copy" /\ x.file = <<k, t>>
        BY <1>1, <3>1, <3>2 DEF Put
      <4> QED
        BY <1>11, <4>1 DEF Coming
    <3>3. CASE j # 1
      <4>1. j - 1 \in 1..(i - 1) /\ j - 1 \in 1..Len(todo') /\ j - 1 + 1 = j
        BY <1>1, <2>1, <3>1, <3>3
      <4>2. todo'[j - 1] = Put("copy", <<k, t>>, Absent)
        BY <1>1, <3>1, <4>1
      <4> QED
        BY <4>1, <4>2 DEF Coming
    <3> QED
      BY <3>2, <3>3
  <2> QED
    BY <2>3, <2>4
<1>13. InstalledImportsLink'
  <2> SUFFICES ASSUME NEW s \in Sections, prefix'[<<"di", s>>] # Absent
               PROVE  /\ prefix'[<<"lib", prefix'[<<"di", s>>].of>>] # Absent
                      /\ prefix'[<<"di", s>>].dbg => prefix'[<<"dbg", prefix'[<<"di", s>>].of>>] # Absent
    BY DEF InstalledImportsLink
  <2>1. <<"di", s>> \in Files
    BY FileNames
  <2>2. CASE prefix'[<<"di", s>>] = prefix[<<"di", s>>]
    <3> DEFINE v == prefix[<<"di", s>>]
    <3>1. v # Absent /\ prefix[<<"lib", v.of>>] # Absent /\ (v.dbg => prefix[<<"dbg", v.of>>] # Absent)
      BY <2>2 DEF InstalledImportsLink
    <3>2. v.of \in Targets
      BY <3>1 DEF ImportsAreMade, Content
    <3>3. <<"lib", v.of>> \in Files /\ <<"dbg", v.of>> \in Files
      BY <3>2, FileNames
    <3> HIDE DEF v
    <3>4. prefix'[<<"lib", v.of>>] # Absent /\ (v.dbg => prefix'[<<"dbg", v.of>>] # Absent)
      BY <1>10, <3>1, <3>3
    <3> QED
      BY <2>2, <3>4 DEF v
  <2>3. CASE prefix'[<<"di", s>>] # prefix[<<"di", s>>]
    <3>1. x.file = <<"di", s>>
      BY <1>1, <1>7, <2>1, <2>3
    <3>2. x.where = "copy" /\ tree[x.file] # Absent /\ prefix' = [prefix EXCEPT ![x.file] = tree[x.file]]
      BY <1>6, <1>7, <2>3, <3>1
    <3>3. Top.op = "install" /\ s = e
      BY <1>6, <1>9, <3>1, <3>2 DEF FilesOf
    <3> DEFINE v == tree[<<"di", s>>]
    <3>4. prefix'[<<"di", s>>] = v
      BY <1>1, <2>1, <3>1, <3>2
    <3>5. /\ cmd.dbg \in Debugs /\ last[Top.dir] = conf[Top.dir]
      BY <1>2, <3>3 DEF Configured, Settled
    <3>6. v \in Content /\ v.of = t /\ v.dbg \in Debugs
      BY <1>4, <3>1, <3>2, <3>3, <3>5 DEF Configured, t
    <3>7. v.dbg = cmd.dbg
      BY <3>5, <3>6 DEF OneMode
    <3>8. 1 \in 1..Len(todo) /\ todo[1].file[1] = "di"
      BY <1>1, <3>1
    <3>9. Coming(prefix, todo, <<"lib", t>>, 1) /\ (cmd.dbg => Coming(prefix, todo, <<"dbg", t>>, 1))
      BY <1>1, <3>3, <3>8 DEF LibrariesFirst, e, t
    <3>10. prefix[<<"lib", t>>] # Absent /\ (cmd.dbg => prefix[<<"dbg", t>>] # Absent)
      BY <3>9 DEF Coming
    <3>11. <<"lib", t>> \in Files /\ <<"dbg", t>> \in Files
      BY <1>4, FileNames
    <3> HIDE DEF v
    <3> QED
      BY <1>10, <3>4, <3>6, <3>7, <3>10, <3>11
  <2> QED
    BY <2>2, <2>3
<1>14. ImportsAreMade'
  <2> SUFFICES ASSUME NEW s \in Sections, prefix'[<<"di", s>>] # prefix[<<"di", s>>]
               PROVE  prefix'[<<"di", s>>] \in Content
    BY DEF ImportsAreMade
  <2>1. <<"di", s>> \in Files
    BY FileNames
  <2>2. x.file = <<"di", s>>
    BY <1>1, <1>7, <2>1
  <2>3. tree[x.file] # Absent /\ prefix'[<<"di", s>>] = tree[<<"di", s>>]
    BY <1>1, <1>6, <1>7, <2>1, <2>2
  <2> QED
    BY <2>2, <2>3 DEF Configured
<1> QED
  BY <1>12, <1>13, <1>14

LEMMA StepLinks ==
  ASSUME TypeInv, InTheirPlaces, OneMode, Configured, Linked, [Next]_vars
  PROVE  Linked'
<1>1. CASE PutFile
  BY <1>1, PutFileLinks
<1>2. CASE EnterSection
  <2>1. UNCHANGED prefix
    BY <1>2 DEF EnterSection
  <2> QED
    BY <1>2, <2>1, EnterSectionFirst DEF Linked, ImportsAreMade, InstalledImportsLink
<1>3. CASE UNCHANGED prefix /\ todo' = <<>>
  BY <1>3 DEF Linked, LibrariesFirst, ImportsAreMade, InstalledImportsLink
<1>4. CASE User
  <2>1. ~Running /\ UNCHANGED <<prefix, todo>>
    BY <1>4 DEF User, EditSource, EditConf, Give, Clean
  <2> QED
    BY <1>3, <2>1, NoCalls
<1>5. CASE ConfigChanged
  BY <1>3, <1>5 DEF ConfigChanged, TypeInv, Shape, Doing, Loops
<1>6. CASE ReadConfig
  BY <1>3, <1>6, ReadConfigMoves DEF ReadConfig
<1>7. CASE EnterSubdir \/ EndLoop
  BY <1>3, <1>7 DEF EnterSubdir, EndLoop, InLoop, Looping
<1>8. CASE CleanFirst
  BY <1>3, <1>8, CleanFirstMoves DEF CleanFirst
<1>9. CASE Returns \/ Refuse
  BY <1>3, <1>9, ReturnWhen DEF Returns, Refuse, Return, InLoop, Looping
<1>10. CASE CopyFails \/ Die \/ DieWriting
  BY <1>3, <1>10 DEF CopyFails, Die, DieWriting
<1>11. CASE UNCHANGED vars
  BY <1>11 DEF vars, Linked, LibrariesFirst, ImportsAreMade, InstalledImportsLink, Top, Entered, Secs
<1> QED
  BY <1>1, <1>2, <1>4, <1>5, <1>6, <1>7, <1>8, <1>9, <1>10, <1>11 DEF Next, Work

\* In a tree that is always built for debugging, or never, an installed .di file
\* names libraries that are installed, at any moment of any command.
THEOREM ImportsFindLibraries ==
  ASSUME InTheirPlaces, OneMode, NEW rank, Nested(rank)
  PROVE  Spec => []InstalledImportsLink
<1> DEFINE Inv == TypeInv /\ Lower(rank) /\ Configured /\ Linked
<1>1. Init => Inv
  <2> SUFFICES ASSUME Init
               PROVE  Inv
    OBVIOUS
  <2>1. Lower(rank)
    BY DEF Init, Lower
  <2>2. LibrariesFirst
    BY DEF Init, LibrariesFirst
  <2>3. \A s \in Sections : prefix[<<"di", s>>] = Absent
    BY FileNames DEF Init
  <2>4. Linked
    BY <2>2, <2>3 DEF Linked, ImportsAreMade, InstalledImportsLink
  <2> QED
    BY <2>1, <2>4, InitTypes, InitConfigured
<1>2. Inv /\ [Next]_vars => Inv'
  BY StepTypes, StepLower, StepConfigured, StepLinks
<1>3. Inv => InstalledImportsLink
  BY DEF Linked
<1> QED
  BY <1>1, <1>2, <1>3, PTL DEF Spec

=============================================================================
