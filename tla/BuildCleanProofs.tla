--------------------------- MODULE BuildCleanProofs ---------------------------
(***************************************************************************)
(* What is proved of Build's distclean for every project: when it returns  *)
(* 0 nothing is left of what build made, whatever died before it.          *)
(***************************************************************************)
EXTENDS BuildSuccessProofs

\* Directory d, and those that its subdir sections lead to.
Inner(d) == {d} \union {SubDir[s] : s \in {x \in Below(d) : Type[x] = "subdir"}}

\* The files that build makes for a section.
MadeFor(s) ==
  {f \in Files :
     \/ f[1] = "di" /\ f[2] = s
     \/ f[1] \in {"lib", "so", "ln"} /\ f[2] = TargetOf(s) /\ Type[s] = "library"
     \/ f[1] = "bin" /\ f[2] = TargetOf(s) /\ Type[s] = "binary"}

\* Nothing in directory d that was made for what its dsss.conf lists.
Swept(d) ==
  /\ last[d] = NoConf
  /\ \A s \in ToSet(Default[conf[d]]) : \A f \in MadeFor(s) : tree[f] = Absent

\* The file is made for a section that a distclean comes to.
Known(f) == \E s \in Everything : f \in MadeFor(s)

\* All that is there, or will be made, is known, and so is dsss.last.
Traced ==
  /\ \A f \in Files : tree[f] # Absent => Known(f)
  /\ \A i \in 1..Len(todo) :
       todo[i].where = "tree" /\ todo[i].val # Absent => Known(todo[i].file)
  /\ \A d \in Dirs : last[d] # NoConf => d \in Inner(Root)

\* What the user asks for: no debug libraries, and to clean all or nothing.
Plain == cmd.dbg = FALSE /\ (cmd.op = "distclean" => cmd.req = <<>>)

\* Calls are for directories that the calls below them lead to.
Down ==
  \A i, j \in 1..Len(stack) : i < j => stack[j].dir \in Inner(stack[i].dir)

\* The sections that a call of distclean has passed.
Removed(g) ==
  LET q == Default[conf[g.dir]] IN IF g.phase = "remove" THEN Passed(q, g.at) ELSE ToSet(q)

Vanishes(f) == tree[f] = Absent \/ \E i \in 1..Len(todo) : Writes(todo, i, f)

\* What distclean promises in call g, which waits for a call in a directory of D
\* or, when D is empty, is the innermost.
Sweeps(g, D) ==
  /\ \A s \in ToSet(Default[conf[g.dir]]) : tree[<<"di", s>>] = Absent
  /\ \A s \in Removed(g) :
       /\ \A f \in MadeFor(s) : Vanishes(f)
       /\ Type[s] = "subdir" =>
            \A e \in Inner(SubDir[s]) : (\E d \in D : e \in Inner(d)) \/ Swept(e)

\* While the user's distclean runs files only go.
OnlyRemoves == \A i \in 1..Len(todo) : todo[i].where = "tree" /\ todo[i].val = Absent

Distcleaning == Running /\ cmd.op = "distclean"

Sweeping ==
  Distcleaning =>
    /\ OnlyRemoves
    /\ \A k \in 1..Len(stack) :
         stack[k].phase \in {"remove", "end"} => Sweeps(stack[k], WaitsFor(k))

-----------------------------------------------------------------------------
(* Directories. *)

LEMMA InnerIn ==
  ASSUME TypeInv, NEW d \in Dirs
  PROVE  d \in Inner(d) /\ Inner(d) \subseteq Dirs
<1>1. Below(d) \in SUBSET Sections
  BY BelowHas
<1> QED
  BY <1>1, SubDirIs DEF Inner

LEMMA InnerSub ==
  ASSUME TypeInv, NEW d \in Dirs, NEW e \in Inner(d)
  PROVE  Inner(e) \subseteq Inner(d)
<1>1. CASE e = d
  BY <1>1
<1>2. CASE e # d
  <2>1. PICK s \in Below(d) : Type[s] = "subdir" /\ e = SubDir[s]
    BY <1>2 DEF Inner
  <2>2. Below(d) \in SUBSET Sections /\ ClosedDown(Below(d))
    BY BelowHas
  <2>3. Below(e) \subseteq Below(d)
    BY <2>1, <2>2, ClosedBelow
  <2> QED
    BY <2>1, <2>3 DEF Inner
<1> QED
  BY <1>1, <1>2

\* What is listed in a directory leads to directories in it.
LEMMA LeadsInner ==
  ASSUME TypeInv, NEW d \in Dirs, NEW s \in ToSet(Default[conf[d]]), Type[s] = "subdir"
  PROVE  SubDir[s] \in Inner(d)
BY BelowHas DEF Inner

LEMMA InnerStep ==
  ASSUME TypeInv, NEW d \in Dirs, NEW e \in Inner(d), e # d
  PROVE  \E s \in ToSet(Default[conf[d]]) : Type[s] = "subdir" /\ e \in Inner(SubDir[s])
<1>1. PICK t \in Below(d) : Type[t] = "subdir" /\ e = SubDir[t]
  BY DEF Inner
<1>2. ToSet(Default[conf[d]]) \subseteq Sections
  BY ListOf
<1>3. \/ t \in ToSet(Default[conf[d]])
      \/ \E s \in ToSet(Default[conf[d]]) : Type[s] = "subdir" /\ t \in Below(SubDir[s])
  BY <1>1, <1>2, ReachedStep DEF Below
<1>4. CASE t \in ToSet(Default[conf[d]])
  BY <1>1, <1>4 DEF Inner
<1>5. ASSUME NEW s \in ToSet(Default[conf[d]]), Type[s] = "subdir", t \in Below(SubDir[s])
      PROVE  e \in Inner(SubDir[s])
  BY <1>1, <1>5 DEF Inner
<1> QED
  BY <1>3, <1>4, <1>5

\* What is listed in a directory below the root is part of everything.
LEMMA InnerLists ==
  ASSUME TypeInv, NEW d \in Inner(Root)
  PROVE  d \in Dirs /\ ToSet(Default[conf[d]]) \subseteq Everything
<1>1. Root \in Dirs
  BY ProjectAssumption
<1>2. Everything = Below(Root)
  BY DEF Everything, Below
<1>3. /\ ToSet(Default[conf[Root]]) \subseteq Below(Root) /\ Below(Root) \in SUBSET Sections
      /\ ClosedDown(Below(Root))
  BY <1>1, BelowHas
<1> QED
  BY <1>1, <1>2, <1>3, InnerIn DEF Inner, ClosedDown

\* The directory of a section that is reached is below the root.
LEMMA HomeInner ==
  ASSUME TypeInv, InTheirPlaces, NEW s \in Everything
  PROVE  /\ s \in Sections /\ s \in ToSet(Default[conf[Home[s]]])
         /\ Home[s] \in Dirs /\ Home[s] \in Inner(Root)
<1>1. Root \in Dirs /\ s \in Below(Root)
  BY ProjectAssumption DEF Everything, Below
<1>2. s \in Sections /\ s \in ToSet(Default[conf[Home[s]]])
  BY <1>1, BelowListed
<1>3. Home[s] \in Dirs
  BY <1>2, ProjectAssumption
<1> DEFINE S == {t \in Below(Root) : Home[t] \in Inner(Root)}
<1>4. \A d \in Inner(Root) : ToSet(Default[conf[d]]) \subseteq S
  <2> SUFFICES ASSUME NEW d \in Inner(Root), NEW t \in ToSet(Default[conf[d]])
               PROVE  t \in S
    OBVIOUS
  <2>1. d \in Dirs /\ t \in Below(Root)
    BY InnerLists DEF Everything, Below
  <2>2. Home[t] = d
    BY <2>1, VarTypes DEF InTheirPlaces
  <2> QED
    BY <2>1, <2>2
<1>5. S \in SUBSET Sections
  BY <1>1, BelowHas
<1>6. \A t \in S : Type[t] = "subdir" => SubDir[t] \in Inner(Root)
  BY DEF Inner
<1> HIDE DEF S
<1>7. ClosedDown(S)
  BY <1>4, <1>6 DEF ClosedDown
<1>8. Below(Root) \subseteq S
  <2>1. Root \in Inner(Root)
    BY <1>1, InnerIn
  <2> QED
    BY <1>4, <1>5, <1>7, <2>1, ReachedLeast DEF Below
<1> QED
  BY <1>1, <1>2, <1>3, <1>8 DEF S

-----------------------------------------------------------------------------
(* What a section's plan makes. *)

MakesFor(s) ==
  {x \in Steps : x.where = "tree" /\ x.val # Absent => x.file \in MadeFor(s)}

LEMMA MadeFiles ==
  ASSUME TypeInv, NEW s \in Sections
  PROVE  /\ <<"di", s>> \in MadeFor(s)
         /\ Type[s] = "library" =>
              \A k \in {"lib", "so", "ln"} : <<k, TargetOf(s)>> \in MadeFor(s)
         /\ Type[s] = "binary" => <<"bin", TargetOf(s)>> \in MadeFor(s)
BY TargetIs, FileNames DEF MadeFor

LEMMA MakesPut ==
  ASSUME NEW s \in Sections, NEW f \in Files, NEW v \in Content \union {Absent, Stub},
         f \in MadeFor(s) \/ v = Absent
  PROVE  Put("tree", f, v) \in MakesFor(s)
<1> DEFINE x == Put("tree", f, v)
<1>1. x \in Steps /\ x.file = f /\ x.val = v
  BY PutStep DEF Put
<1> HIDE DEF x
<1> QED
  BY <1>1 DEF MakesFor, x

LEMMA ImportMakes ==
  ASSUME TypeInv, NEW s \in Sections
  PROVE  ImportPlan(s, TargetOf(s)) \in Seq(MakesFor(s))
<1> DEFINE t == TargetOf(s)
           v == [ed |-> src[s], dbg |-> cmd.dbg, of |-> t]
           x == Put("tree", <<"di", s>>, v)
<1>1. v \in Content
  BY TargetIs, VarTypes, MadeOf DEF Commands
<1> HIDE DEF v
<1>2. x \in MakesFor(s)
  BY <1>1, MadeFiles, FileNames, MakesPut
<1>3. ImportPlan(s, t) \in {<<x>>, <<>>}
  BY DEF ImportPlan, x, v
<1> HIDE DEF x
<1> DEFINE M == MakesFor(s)
<1> HIDE DEF M
<1>4. <<x>> \in Seq(M) /\ <<>> \in Seq(M)
  BY <1>2 DEF M
<1> QED
  BY <1>3, <1>4 DEF M

LEMMA StubMakes ==
  ASSUME TypeInv, NEW s \in Sections
  PROVE  StubPlan(s, TargetOf(s)) \in Seq(MakesFor(s))
<1> DEFINE t == TargetOf(s)
           x == Put("tree", <<"so", t>>, Stub)
           y == Put("tree", <<"ln", t>>, Link(t))
           M == MakesFor(s)
<1> HIDE DEF M
<1>1. CASE Type[s] = "library"
  <2>1. Link(t) \in Content
    BY TargetIs, MadeOf DEF Link
  <2>2. x \in M /\ y \in M
    BY <1>1, <2>1, Vals, TargetIs, MadeFiles, FileNames, MakesPut DEF M
  <2>3. StubPlan(s, t) \in {<<x, y>>, <<>>}
    BY DEF StubPlan
  <2> HIDE DEF x, y
  <2>4. <<x, y>> \in Seq(M) /\ <<>> \in Seq(M)
    BY <2>2
  <2> QED
    BY <2>3, <2>4 DEF M
<1>2. CASE Type[s] # "library"
  <2>1. StubPlan(s, t) = <<>>
    BY <1>2 DEF StubPlan
  <2> QED
    BY <2>1
<1> QED
  BY <1>1, <1>2

LEMMA LibraryMakes ==
  ASSUME TypeInv, ~cmd.dbg, NEW s \in Sections
  PROVE  LibraryPlan(s, TargetOf(s)) \in Seq(MakesFor(s))
<1> DEFINE t == TargetOf(s)
           v == [ed |-> src[s], dbg |-> FALSE, of |-> t]
           M == MakesFor(s)
           l == BuildLibrary(s, t, "lib", v)
<1>1. CASE Type[s] = "library"
  <2>1. v \in Content
    BY TargetIs, VarTypes, MadeOf
  <2> HIDE DEF v
  <2>2. \A k \in {"lib", "so"} : Make(<<k, t>>, v) \in Seq(M)
    <3> SUFFICES ASSUME NEW k \in {"lib", "so"}
                 PROVE  Make(<<k, t>>, v) \in Seq(M)
      OBVIOUS
    <3>1. Put("tree", <<k, t>>, Absent) \in M /\ Put("tree", <<k, t>>, v) \in M
      BY <1>1, <2>1, Vals, TargetIs, MadeFiles, FileNames, MakesPut
    <3> HIDE DEF M
    <3> QED
      BY <3>1 DEF Make
  <2> HIDE DEF M
  <2>3. l \in {Make(<<"lib", t>>, v) \o Make(<<"so", t>>, v), Make(<<"lib", t>>, v) \o <<>>}
    BY DEF BuildLibrary
  <2>5. LibraryPlan(s, t) \in {<<>> \o l, <<>>}
    BY DEF LibraryPlan, v
  <2> HIDE DEF l
  <2>4. l \in Seq(M)
    <3> DEFINE x == Make(<<"lib", t>>, v)
               y == Make(<<"so", t>>, v)
    <3>1. x \in Seq(M) /\ y \in Seq(M) /\ l \in {x \o y, x \o <<>>}
      BY <2>2, <2>3
    <3> HIDE DEF x, y, l
    <3>2. <<>> \in Seq(M)
      OBVIOUS
    <3>3. x \o y \in Seq(M) /\ x \o <<>> \in Seq(M)
      BY <3>1, <3>2
    <3> QED
      BY <3>1, <3>3
  <2>6. <<>> \o l \in Seq(M) /\ <<>> \in Seq(M)
    BY <2>4
  <2> QED
    BY <2>5, <2>6 DEF M
<1>2. CASE Type[s] # "library"
  <2>1. LibraryPlan(s, t) = <<>>
    BY <1>2 DEF LibraryPlan
  <2> QED
    BY <2>1
<1> QED
  BY <1>1, <1>2

LEMMA BinaryMakes ==
  ASSUME TypeInv, NEW s \in Sections
  PROVE  BinaryPlan(s, TargetOf(s)) \in Seq(MakesFor(s))
<1> DEFINE t == TargetOf(s)
           x == Put("tree", <<"bin", t>>, [ed |-> src[s], dbg |-> cmd.dbg, of |-> t])
           M == MakesFor(s)
<1> HIDE DEF M
<1>1. CASE Type[s] = "binary"
  <2>1. [ed |-> src[s], dbg |-> cmd.dbg, of |-> t] \in Content
    BY TargetIs, VarTypes, MadeOf DEF Commands
  <2>2. x \in M
    BY <1>1, <2>1, TargetIs, MadeFiles, FileNames, MakesPut DEF M
  <2>3. BinaryPlan(s, t) \in {<<x>>, <<>>}
    BY DEF BinaryPlan
  <2> HIDE DEF x
  <2>4. <<x>> \in Seq(M) /\ <<>> \in Seq(M)
    BY <2>2
  <2> QED
    BY <2>3, <2>4 DEF M
<1>2. CASE Type[s] # "binary"
  <2>1. BinaryPlan(s, t) = <<>>
    BY <1>2 DEF BinaryPlan
  <2> QED
    BY <2>1
<1> QED
  BY <1>1, <1>2

\* Distclean's plan for a section removes what was made for it, but the import.
Removals == {x \in Steps : x.where = "tree" /\ x.val = Absent}

LEMMA RemovalPut ==
  ASSUME NEW f \in Files
  PROVE  Put("tree", f, Absent) \in Removals
<1> DEFINE x == Put("tree", f, Absent)
<1>1. x \in Steps /\ x.where = "tree" /\ x.val = Absent
  BY PutStep, Vals DEF Put
<1> HIDE DEF x
<1> QED
  BY <1>1 DEF Removals, x

LEMMA DistcleanRemoves ==
  ASSUME TypeInv, NEW s \in Sections
  PROVE  LET q == DistcleanPlan(s, TargetOf(s)) IN
         /\ q \in Seq(Removals)
         /\ \A f \in MadeFor(s) : f[1] = "di" \/ \E i \in 1..Len(q) : Writes(q, i, f)
<1> DEFINE t == TargetOf(s)
           x(k) == Put("tree", <<k, t>>, Absent)
           q == DistcleanPlan(s, t)
<1>1. \A k \in {"lib", "so", "ln", "bin"} :
        x(k) \in Removals /\ x(k).where = "tree" /\ x(k).file = <<k, t>>
  BY TargetIs, FileNames, RemovalPut DEF Put
<1>2. \A f \in MadeFor(s) :
        \/ f[1] = "di"
        \/ Type[s] = "library" /\ f \in {<<"lib", t>>, <<"so", t>>, <<"ln", t>>}
        \/ Type[s] = "binary" /\ f = <<"bin", t>>
  BY DEF MadeFor, Files, Kinds
<1>3. CASE q = <<x("lib"), x("so"), x("ln")>> /\ Type[s] # "binary"
  <2> HIDE DEF x, q
  <2>1. q \in Seq(Removals) /\ Len(q) = 3 /\ q[1] = x("lib") /\ q[2] = x("so") /\ q[3] = x("ln")
    BY <1>1, <1>3
  <2>2. Writes(q, 1, <<"lib", t>>) /\ Writes(q, 2, <<"so", t>>) /\ Writes(q, 3, <<"ln", t>>)
    BY <1>1, <2>1 DEF Writes
  <2>3. 1 \in 1..3 /\ 2 \in 1..3 /\ 3 \in 1..3
    OBVIOUS
  <2>4. \A f \in {<<"lib", t>>, <<"so", t>>, <<"ln", t>>} : \E i \in 1..Len(q) : Writes(q, i, f)
    BY <2>1, <2>2, <2>3
  <2> QED
    BY <1>2, <1>3, <2>1, <2>4 DEF q
<1>4. CASE q = <<x("bin")>> /\ Type[s] = "binary"
  <2> HIDE DEF x, q
  <2>1. q \in Seq(Removals) /\ Len(q) = 1 /\ q[1] = x("bin")
    BY <1>1, <1>4
  <2>2. Writes(q, 1, <<"bin", t>>)
    BY <1>1, <2>1 DEF Writes
  <2>3. 1 \in 1..Len(q)
    BY <2>1
  <2> QED
    BY <1>2, <1>4, <2>1, <2>2, <2>3 DEF q
<1>5. CASE q = <<>> /\ Type[s] \notin {"library", "binary"}
  BY <1>2, <1>5
<1> QED
  BY <1>3, <1>4, <1>5 DEF DistcleanPlan

LEMMA PlanMakes ==
  ASSUME TypeInv, ~cmd.dbg, NEW s \in Sections, NEW p \in Loops
  PROVE  Plan(p, s, TargetOf(s)) \in Seq(MakesFor(s))
<1> DEFINE t == TargetOf(s)
<1>1. CASE p = "copy"
  <2> DEFINE S == StepsOf(cmd.dbg, "copy", s, t)
  <2>1. S \subseteq MakesFor(s)
    BY DEF StepsOf, MakesFor
  <2>2. Plan(p, s, t) \in Seq(S)
    BY <1>1, TargetIs, PlanSteps
  <2> HIDE DEF S
  <2> QED
    BY <2>1, <2>2, SeqMonotonic
<1>2. CASE p = "remove"
  <2>1. Removals \subseteq MakesFor(s)
    BY DEF Removals, MakesFor
  <2> QED
    BY <1>2, <2>1, DistcleanRemoves, SeqMonotonic DEF Plan
<1>3. CASE p \in {"imports", "stubs", "libs", "bins"}
  BY <1>3, ImportMakes, StubMakes, LibraryMakes, BinaryMakes DEF Plan
<1> QED
  BY <1>1, <1>2, <1>3 DEF Loops

-----------------------------------------------------------------------------
(* Plain and Down are inductive. *)

LEMMA StepPlain ==
  ASSUME TypeInv, Debugs \subseteq {FALSE}, Plain, [Next]_vars
  PROVE  Plain'
<1>1. CASE \/ \E s \in Sections : EditSource(s)
           \/ \E d \in Dirs : \E c \in Confs[d] : EditConf(d, c)
           \/ Clean
  <2>1. NoCommand.dbg = FALSE /\ NoCommand.op = "none"
    BY DEF NoCommand
  <2>2. ASSUME Clean
        PROVE  cmd'.dbg = FALSE /\ cmd'.op = "clean"
    BY <2>2 DEF Clean, NoCommand
  <2> QED
    BY <1>1, <2>1, <2>2 DEF EditSource, EditConf, Plain
<1>2. CASE \E op \in {"build", "install", "binstall"}, r \in Requests, b \in Debugs : Give(op, r, b)
  <2>1. PICK op \in {"build", "install", "binstall"}, r \in Requests, b \in Debugs : Give(op, r, b)
    BY <1>2
  <2>2. b = FALSE /\ cmd' = [op |-> op, req |-> r, dbg |-> b, state |-> "running"]
    BY <2>1 DEF Give
  <2>3. cmd'.dbg = FALSE /\ cmd'.op # "distclean"
    BY <2>2
  <2> QED
    BY <2>3 DEF Plain
<1>3. CASE Give("distclean", <<>>, FALSE)
  BY <1>3 DEF Give, Plain
<1>4. CASE Goes
  BY <1>4, GoesOn DEF Plain
<1>5. CASE Die \/ DieWriting \/ CopyFails
  BY <1>5, VarTypes DEF Die, DieWriting, CopyFails, Plain, Commands
<1>6. CASE UNCHANGED vars
  BY <1>6 DEF vars, Plain
<1> QED
  BY <1>1, <1>2, <1>3, <1>4, <1>5, <1>6 DEF Next, User, Work, Goes

\* The section that a call comes to is listed in its directory, but for those
\* that only the command line names.
LEMMA CurrentListed ==
  ASSUME TypeInv, NamedAreListed, InLoop
  PROVE  \/ Current \in ToSet(Default[conf[Top.dir]])
         \/ /\ Top.phase \notin {"imports", "stubs"}
            /\ Type[Current] = "binary" /\ Current \in BadExtension
<1>1. /\ Top \in Calls /\ Fits(Top) /\ Top.conf = conf[Top.dir] /\ Top.dir \in Dirs
      /\ Top.at \in 1..Len(Secs(Top)) /\ Current = Secs(Top)[Top.at]
  BY LoopCall
<1>2. CASE Secs(Top) = Default[conf[Top.dir]]
  BY <1>1, <1>2, ListOf DEF ToSet
<1>3. CASE Secs(Top) # Default[conf[Top.dir]]
  <2>1. /\ Secs(Top) = Top.req /\ Top.req # <<>> /\ Top.phase \notin {"imports", "stubs"}
    BY <1>1, <1>3 DEF Secs
  <2>2. Top.req \in Requests /\ Top.dir = Root /\ Top.req \in Seq(Sections)
    BY <1>1, <2>1 DEF Fits, Calls
  <2>3. Current \in ToSet(Top.req)
    BY <1>1, <2>1, <2>2 DEF ToSet
  <2>4. conf[Root] \in Confs[Root]
    BY <1>1, <2>2, VarTypes
  <2> QED
    BY <2>1, <2>2, <2>3, <2>4 DEF NamedAreListed
<1> QED
  BY <1>2, <1>3

LEMMA SameInner ==
  ASSUME UNCHANGED conf
  PROVE  /\ \A d : Inner(d)' = Inner(d)
         /\ \A s : MadeFor(s)' = MadeFor(s)
         /\ Everything' = Everything
         /\ \A f : Known(f)' <=> Known(f)
<1>1. \A d : Below(d)' = Below(d)
  BY SameReached
<1>2. \A s : TargetOf(s)' = TargetOf(s)
  BY SameReached
<1>3. Everything' = Everything
  BY DEF Everything, ReachedFrom
<1>4. \A d : Inner(d)' = Inner(d)
  BY <1>1 DEF Inner
<1>5. \A s : MadeFor(s)' = MadeFor(s)
  BY <1>2 DEF MadeFor
<1> QED
  BY <1>3, <1>4, <1>5 DEF Known

LEMMA DownNext ==
  ASSUME UNCHANGED conf,
         \A i, j \in 1..Len(stack') : i < j => stack'[j].dir \in Inner(stack'[i].dir)
  PROVE  Down'
<1>1. \A k : Inner(stack[k].dir)' = Inner(stack'[k].dir)
  BY DEF Inner, Below, ReachedFrom
<1> QED
  BY <1>1 DEF Down

LEMMA FewDown ==
  ASSUME Len(stack') \in {0, 1}
  PROVE  Down'
<1>1. \A m \in {0, 1} : \A i, j \in 1..m : ~(i < j)
  OBVIOUS
<1> QED
  BY <1>1 DEF Down

LEMMA StayDown ==
  ASSUME TypeInv, Down, Running, UNCHANGED conf, Stays
  PROVE  Down'
<1>1. Len(stack) \in Nat \ {0} /\ Top = stack[Len(stack)]
  BY TopCall
<1>2. \A k \in 1..Len(stack) : k \in 1..(Len(stack) - 1) \/ k = Len(stack)
  BY <1>1
<1>3. \A k \in 1..Len(stack) : stack'[k].dir = stack[k].dir
  BY <1>1, <1>2 DEF Stays
<1>4. Len(stack') = Len(stack)
  BY DEF Stays
<1>5. \A i, j \in 1..Len(stack') : i < j => stack'[j].dir \in Inner(stack'[i].dir)
  BY <1>3, <1>4 DEF Down
<1> QED
  BY <1>5, DownNext

LEMMA PushDown ==
  ASSUME TypeInv, Down, Running, UNCHANGED conf,
         Len(stack') = Len(stack) + 1,
         \A k \in 1..Len(stack) : stack'[k].dir = stack[k].dir,
         stack'[Len(stack) + 1].dir \in Inner(Top.dir)
  PROVE  Down'
<1> DEFINE n == Len(stack)
<1>1. /\ n \in Nat \ {0} /\ Top = stack[n] /\ n \in 1..n
      /\ \A k \in 1..n : stack[k].dir \in Dirs
  BY TopCall DEF Calls
<1>2. \A i \in 1..n : stack'[n + 1].dir \in Inner(stack[i].dir)
  <2> SUFFICES ASSUME NEW i \in 1..n
               PROVE  Inner(Top.dir) \subseteq Inner(stack[i].dir)
    OBVIOUS
  <2>1. CASE i = n
    BY <1>1, <2>1
  <2>2. CASE i # n
    <3>1. i < n
      BY <1>1, <2>2
    <3>2. stack[n].dir \in Inner(stack[i].dir)
      BY <1>1, <3>1 DEF Down
    <3> QED
      BY <1>1, <3>2, InnerSub
  <2> QED
    BY <2>1, <2>2
<1>3. \A i, j \in 1..(n + 1) : i < j => stack'[j].dir \in Inner(stack'[i].dir)
  <2> SUFFICES ASSUME NEW i \in 1..(n + 1), NEW j \in 1..(n + 1), i < j
               PROVE  stack'[j].dir \in Inner(stack'[i].dir)
    OBVIOUS
  <2>1. i \in 1..n /\ (j \in 1..n \/ j = n + 1)
    BY <1>1
  <2>2. CASE j \in 1..n
    BY <2>1, <2>2 DEF Down
  <2>3. CASE j = n + 1
    BY <1>2, <2>1, <2>3
  <2> QED
    BY <2>1, <2>2, <2>3
<1> QED
  BY <1>1, <1>3, DownNext

LEMMA StepDown ==
  ASSUME TypeInv, NamedAreListed, Down, [Next]_vars
  PROVE  Down'
<1>1. CASE \/ \E s \in Sections : EditSource(s)
           \/ \E d \in Dirs : \E c \in Confs[d] : EditConf(d, c)
           \/ Clean
  <2>1. ~Running /\ stack' = stack
    BY <1>1 DEF EditSource, EditConf, Clean
  <2> QED
    BY <2>1, NoCalls, FewDown
<1>2. CASE \E op \in {"build", "install", "binstall", "distclean"} : \E r, b : Give(op, r, b)
  BY <1>2, FewDown DEF Give
<1>3. CASE Die \/ DieWriting \/ CopyFails
  BY <1>3, FewDown DEF Die, DieWriting, CopyFails
<1>4. CASE Returns \/ Refuse
  <2>1. Running /\ (Top.phase = "end" \/ InLoop)
    BY <1>4 DEF Returns, Refuse, InLoop, Looping
  <2>2. PICK ret \in {0, 1} : Return(ret)
    BY <1>4 DEF Returns, Refuse
  <2>3. /\ UNCHANGED conf /\ Len(stack) \in Nat \ {0}
        /\ \/ Len(stack') = 1
           \/ /\ Len(stack') = Len(stack) - 1
              /\ \A k \in 1..(Len(stack) - 1) : stack'[k] = stack[k]
    BY <2>1, <2>2, ReturnStack
  <2>4. CASE Len(stack') = 1
    BY <2>4, FewDown
  <2>5. CASE /\ Len(stack') = Len(stack) - 1
             /\ \A k \in 1..(Len(stack) - 1) : stack'[k] = stack[k]
    <3>1. \A k \in 1..Len(stack') : k \in 1..Len(stack) /\ stack'[k] = stack[k]
      BY <2>3, <2>5
    <3>2. \A i, j \in 1..Len(stack') : i < j => stack'[j].dir \in Inner(stack'[i].dir)
      BY <3>1 DEF Down
    <3> QED
      BY <2>3, <3>2, DownNext
  <2> QED
    BY <2>3, <2>4, <2>5
<1>5. CASE ReadConfig \/ EnterSection \/ EndLoop \/ CleanFirst
  <2>1. Running /\ UNCHANGED conf
    BY <1>5, GoesOn DEF Goes
  <2>2. Stays
    BY <1>5, ReadConfigStays, EnterSectionStays, EndLoopStays, CleanFirstStays
  <2> QED
    BY <2>1, <2>2, StayDown
<1>6. CASE PutFile \/ UNCHANGED vars
  BY <1>6, DownNext DEF PutFile, vars, userVars, Down
<1>7. CASE EnterSubdir
  <2>1. PICK n, s : n = Len(stack) /\ s = Current
    OBVIOUS
  <2>2. /\ Running /\ UNCHANGED conf /\ n \in Nat \ {0} /\ Top = stack[n] /\ Top \in Calls
        /\ s \in Sections /\ Type[s] = "subdir"
        /\ Len(stack') = n + 1 /\ \A k \in 1..(n - 1) : stack'[k] = stack[k]
        /\ stack'[n].dir = Top.dir /\ stack'[n + 1] = Call(Top.op, SubDir[s], <<>>)
    BY <1>7, <2>1, EnterSubdirStack
  <2>3. InLoop
    BY <1>7 DEF EnterSubdir
  <2>4. s \in ToSet(Default[conf[Top.dir]]) /\ Top.dir \in Dirs
    BY <2>1, <2>2, <2>3, CurrentListed DEF Calls
  <2>5. stack'[n + 1].dir = SubDir[s]
    BY <2>2 DEF Call
  <2>6. stack'[n + 1].dir \in Inner(Top.dir)
    BY <2>2, <2>4, <2>5, LeadsInner
  <2>7. \A k \in 1..n : k \in 1..(n - 1) \/ k = n
    BY <2>2
  <2>8. \A k \in 1..n : stack'[k].dir = stack[k].dir
    BY <2>2, <2>7
  <2> QED
    BY <2>1, <2>2, <2>6, <2>8, PushDown
<1>8. CASE ConfigChanged
  <2>1. PICK n : n = Len(stack)
    OBVIOUS
  <2>2. /\ Running /\ UNCHANGED conf /\ Top.dir \in Dirs
        /\ Len(stack') = n + 1 /\ \A k \in 1..n : stack'[k] = stack[k]
        /\ stack'[n + 1].dir = Top.dir
    BY <1>8, <2>1, ConfigChangedStack
  <2>3. Top.dir \in Inner(Top.dir)
    BY <2>2, InnerIn
  <2> QED
    BY <2>1, <2>2, <2>3, PushDown
<1> QED
  BY <1>1, <1>2, <1>3, <1>4, <1>5, <1>6, <1>7, <1>8 DEF Next, User, Work

\* The calls of a command are for directories below the root.
LEMMA CallsInner ==
  ASSUME TypeInv, Chained, Down, Running, NEW k \in 1..Len(stack)
  PROVE  stack[k].dir \in Dirs /\ stack[k].dir \in Inner(Root)
<1>1. /\ Len(stack) \in Nat \ {0} /\ 1 \in 1..Len(stack) /\ stack[k].dir \in Dirs
      /\ stack[1].dir = Root
  BY TopCall DEF Calls, Chained
<1>2. CASE k = 1
  BY <1>1, <1>2, InnerIn
<1>3. CASE k # 1
  <2>1. 1 < k
    BY <1>1, <1>3
  <2> QED
    BY <1>1, <2>1 DEF Down
<1> QED
  BY <1>2, <1>3

-----------------------------------------------------------------------------
(* Traced is inductive. *)

LEMMA TracedNext ==
  ASSUME UNCHANGED conf,
         \A f \in Files : tree'[f] # Absent => Known(f),
         \A i \in 1..Len(todo') :
           todo'[i].where = "tree" /\ todo'[i].val # Absent => Known(todo'[i].file),
         \A d \in Dirs : last'[d] # NoConf => d \in Inner(Root)
  PROVE  Traced'
<1>1. Inner(Root)' = Inner(Root) /\ \A f : Known(f)' <=> Known(f)
  BY SameInner
<1>2. \A i : Known(todo[i].file)' <=> Known(todo'[i].file)
  BY DEF Known, MadeFor, Everything, ReachedFrom, TargetOf
<1> QED
  BY <1>1, <1>2 DEF Traced

\* What is edited in dsss.conf changes neither what is listed nor where it leads.
LEMMA EditKeeps ==
  ASSUME TypeInv, InTheirPlaces, SameFiles, NEW d \in Dirs, NEW c \in Confs[d], EditConf(d, c)
  PROVE  /\ Everything' = Everything /\ Inner(Root)' = Inner(Root)
         /\ \A s \in Everything : MadeFor(s)' = MadeFor(s)
<1>1. \A e \in Dirs : conf[e] \in Confs[e] /\ conf'[e] \in Confs[e]
  BY VarTypes DEF EditConf
<1>2. \A e \in Dirs : ToSet(Default[conf'[e]]) = ToSet(Default[conf[e]])
  BY <1>1 DEF SameFiles
<1>3. Root \in Dirs
  BY ProjectAssumption
<1>4. \A S \in SUBSET Sections : ClosedDown(S)' <=> ClosedDown(S)
  BY <1>2, SubDirIs DEF ClosedDown
<1>5. Below(Root) = {s \in Sections : \A S \in SUBSET Sections :
                       ToSet(Default[conf[Root]]) \subseteq S /\ ClosedDown(S) => s \in S}
  BY DEF Below, ReachedFrom, ClosedDown
<1>6. Below(Root)' = {s \in Sections : \A S \in SUBSET Sections :
                       ToSet(Default[conf'[Root]]) \subseteq S /\ ClosedDown(S)' => s \in S}
  BY DEF Below, ReachedFrom, ClosedDown
<1>7. Below(Root)' = Below(Root)
  BY <1>2, <1>3, <1>4, <1>5, <1>6
<1>8. Everything' = Everything
  BY <1>7 DEF Everything, Below
<1>9. Inner(Root)' = Inner(Root)
  BY <1>7 DEF Inner
<1>10. ASSUME NEW s \in Everything
       PROVE  MadeFor(s)' = MadeFor(s)
  <2>1. s \in ToSet(Default[conf[Home[s]]]) /\ Home[s] \in Dirs
    BY HomeInner
  <2>2. Target[conf'[Home[s]]][s] = Target[conf[Home[s]]][s]
    BY <1>1, <2>1 DEF SameFiles
  <2>3. TargetOf(s)' = TargetOf(s)
    BY <2>2 DEF TargetOf
  <2> QED
    BY <2>3 DEF MadeFor
<1> QED
  BY <1>8, <1>9, <1>10

LEMMA GoneTraced ==
  ASSUME Traced, NEW d, NEW f \in Files, WithoutImports(d)[f] # Absent
  PROVE  Known(f)
BY DEF Traced, WithoutImports

LEMMA IdleTraced ==
  ASSUME TypeInv, InTheirPlaces, SameFiles, Traced,
         \/ \E s \in Sections : EditSource(s)
         \/ \E d \in Dirs : \E c \in Confs[d] : EditConf(d, c)
         \/ Clean
         \/ \E op \in {"build", "install", "binstall", "distclean"} : \E r, b : Give(op, r, b)
  PROVE  Traced'
<1>1. ASSUME NEW d \in Dirs, NEW c \in Confs[d], EditConf(d, c)
      PROVE  Traced'
  <2>1. /\ Everything' = Everything /\ Inner(Root)' = Inner(Root)
        /\ \A s \in Everything : MadeFor(s)' = MadeFor(s)
    BY <1>1, EditKeeps
  <2>2. tree' = tree /\ last' = last /\ todo' = todo
    BY <1>1 DEF EditConf
  <2>3. todo = <<>> /\ Len(todo) = 0
    BY <1>1, NoCalls DEF EditConf
  <2>4. \A f : Known(f) => Known(f)'
    BY <2>1 DEF Known
  <2>5. \A i : i \notin 1..Len(todo')
    BY <2>2, <2>3
  <2> QED
    BY <2>1, <2>2, <2>4, <2>5 DEF Traced
<1>2. ASSUME Clean
      PROVE  Traced'
  <2>1. tree' = WithoutImports(Root) /\ UNCHANGED <<conf, last, todo>>
    BY <1>2 DEF Clean, userVars
  <2>2. \A f \in Files : tree'[f] # Absent => Known(f)
    BY <2>1, GoneTraced
  <2> QED
    BY <2>1, <2>2, TracedNext DEF Traced
<1>3. ASSUME UNCHANGED <<conf, tree, last, todo>>
      PROVE  Traced'
  BY <1>3, TracedNext DEF Traced
<1> QED
  BY <1>1, <1>2, <1>3 DEF EditSource, Give, userVars

\* Where they are not listed, sections are not made.
LEMMA UnlistedMakes ==
  ASSUME TypeInv, NEW s \in Sections, Type[s] = "binary", NEW p \in {"libs", "copy", "remove"},
         NEW q, q = Plan(p, s, TargetOf(s))
  PROVE  \A i \in 1..Len(q) : q[i].where # "tree" \/ q[i].val = Absent
<1> DEFINE t == TargetOf(s)
<1>1. CASE p = "libs"
  <2>1. q = <<>>
    BY <1>1 DEF Plan, LibraryPlan
  <2> QED
    BY <2>1
<1>2. CASE p = "copy"
  <2> DEFINE S == StepsOf(cmd.dbg, "copy", s, t)
  <2>1. q \in Seq(S)
    BY <1>2, TargetIs, PlanSteps DEF Loops
  <2>2. \A x \in S : x.where # "tree"
    BY DEF StepsOf
  <2> HIDE DEF S
  <2> QED
    BY <2>1, <2>2
<1>3. CASE p = "remove"
  <2>1. q \in Seq(Removals)
    BY <1>3, DistcleanRemoves DEF Plan
  <2>2. \A x \in Removals : x.val = Absent
    BY DEF Removals
  <2> QED
    BY <2>1, <2>2
<1> QED
  BY <1>1, <1>2, <1>3

LEMMA EnterSectionTraced ==
  ASSUME TypeInv, InTheirPlaces, NamedAreListed, Chained, Plain, Down, Traced, EnterSection
  PROVE  Traced'
<1>1. PICK s, p, q : s = Current /\ p = Top.phase /\ q = Plan(p, s, TargetOf(s))
  OBVIOUS
<1>2. /\ InLoop /\ Running /\ s \in Sections /\ todo' = q /\ p \in Loops
      /\ UNCHANGED <<conf, last, tree>>
  BY <1>1, EnterHome
<1>3. Top.dir \in Dirs /\ Top.dir \in Inner(Root)
  <2>1. Top = stack[Len(stack)] /\ Len(stack) \in 1..Len(stack)
    BY <1>2, TopCall
  <2> QED
    BY <1>2, <2>1, CallsInner
<1>4. CASE s \in ToSet(Default[conf[Top.dir]])
  <2>1. s \in Everything
    BY <1>3, <1>4, InnerLists
  <2>2. q \in Seq(MakesFor(s))
    BY <1>1, <1>2, PlanMakes DEF Plain
  <2>3. \A i \in 1..Len(q) : q[i] \in MakesFor(s)
    BY <2>2
  <2>4. \A i \in 1..Len(todo') :
          todo'[i].where = "tree" /\ todo'[i].val # Absent => Known(todo'[i].file)
    BY <1>2, <2>1, <2>3 DEF MakesFor, Known
  <2> QED
    BY <1>2, <2>4, TracedNext DEF Traced
<1>5. CASE s \notin ToSet(Default[conf[Top.dir]])
  <2>1. p \notin {"imports", "stubs"} /\ Type[s] = "binary" /\ s \in BadExtension
    BY <1>1, <1>2, <1>5, CurrentListed
  <2>2. p # "bins"
    BY <1>1, <2>1 DEF EnterSection, Refused
  <2>3. p \in {"libs", "copy", "remove"}
    BY <1>2, <2>1, <2>2 DEF Loops
  <2>4. \A i \in 1..Len(todo') : todo'[i].where # "tree" \/ todo'[i].val = Absent
    BY <1>1, <1>2, <2>1, <2>3, UnlistedMakes
  <2> QED
    BY <1>2, <2>4, TracedNext DEF Traced
<1> QED
  BY <1>4, <1>5

LEMMA PutFileTraced ==
  ASSUME TypeInv, Traced, PutFile
  PROVE  Traced'
<1> DEFINE x == Head(todo)
           n == Len(todo)
<1>1. /\ todo # <<>> /\ n \in Nat \ {0} /\ x = todo[1] /\ x \in Steps /\ todo' = Tail(todo)
      /\ Len(todo') = n - 1 /\ \A i \in 1..(n - 1) : todo'[i] = todo[i + 1]
      /\ UNCHANGED <<conf, last>>
  BY TodoIs DEF PutFile, userVars
<1>2. 1 \in 1..n /\ \A i \in 1..(n - 1) : i + 1 \in 1..n
  BY <1>1
<1>3. x.where = "tree" /\ x.val # Absent => Known(x.file)
  BY <1>1, <1>2 DEF Traced
<1> HIDE DEF x
<1>4. \/ tree' = tree
      \/ x.where = "tree" /\ tree' = [tree EXCEPT ![x.file] = x.val]
  BY DEF PutFile, x
<1>5. \A f \in Files : tree'[f] # Absent => Known(f)
  BY <1>3, <1>4, VarTypes DEF Traced
<1>6. \A i \in 1..Len(todo') :
        todo'[i].where = "tree" /\ todo'[i].val # Absent => Known(todo'[i].file)
  BY <1>1, <1>2 DEF Traced
<1> QED
  BY <1>1, <1>5, <1>6, TracedNext DEF Traced

LEMMA StepTraced ==
  ASSUME TypeInv, InTheirPlaces, SameFiles, NamedAreListed, Chained, Plain, Down, Traced,
         [Next]_vars
  PROVE  Traced'
<1>1. CASE \/ \E s \in Sections : EditSource(s)
           \/ \E d \in Dirs : \E c \in Confs[d] : EditConf(d, c)
           \/ Clean
           \/ \E op \in {"build", "install", "binstall", "distclean"} : \E r, b : Give(op, r, b)
  BY <1>1, IdleTraced
<1>2. CASE EnterSection
  BY <1>2, EnterSectionTraced
<1>3. CASE PutFile
  BY <1>3, PutFileTraced
<1>4. CASE CleanFirst
  <2>1. tree' = WithoutImports(Top.dir) /\ UNCHANGED <<conf, last, todo>>
    BY <1>4 DEF CleanFirst, userVars
  <2>2. \A f \in Files : tree'[f] # Absent => Known(f)
    BY <2>1, GoneTraced
  <2> QED
    BY <2>1, <2>2, TracedNext DEF Traced
<1>5. CASE ReadConfig
  <2>1. Running /\ UNCHANGED <<conf, tree, todo>> /\ last' = [last EXCEPT ![Top.dir] = conf[Top.dir]]
    BY <1>5 DEF ReadConfig, userVars
  <2>2. Top = stack[Len(stack)] /\ Len(stack) \in 1..Len(stack)
    BY <2>1, TopCall
  <2>3. Top.dir \in Inner(Root)
    BY <2>1, <2>2, CallsInner
  <2>4. \A d \in Dirs : last'[d] # NoConf => d \in Inner(Root)
    BY <2>1, <2>3, VarTypes DEF Traced
  <2> QED
    BY <2>1, <2>4, TracedNext DEF Traced
<1>6. CASE Returns \/ Refuse
  <2>1. /\ UNCHANGED <<conf, tree, todo>>
        /\ last' \in {last, [last EXCEPT ![Top.dir] = NoConf]}
    BY <1>6 DEF Returns, Refuse, Return, userVars
  <2>2. \A d \in Dirs : last'[d] # NoConf => last[d] # NoConf
    BY <2>1, VarTypes
  <2> QED
    BY <2>1, <2>2, TracedNext DEF Traced
<1>7. CASE Die \/ CopyFails
  <2>1. todo' = <<>> /\ UNCHANGED <<conf, tree, last>>
    BY <1>7 DEF Die, CopyFails, userVars
  <2>2. \A i : i \notin 1..Len(todo')
    BY <2>1
  <2> QED
    BY <2>1, <2>2, TracedNext DEF Traced
<1>8. CASE DieWriting
  <2> DEFINE x == Head(todo)
  <2>1. /\ x = todo[1] /\ 1 \in 1..Len(todo) /\ x.where = "tree" /\ x.file \in Files
        /\ tree' = [tree EXCEPT ![x.file] = x.val] /\ UNCHANGED <<conf, last>> /\ Len(todo') = 0
    BY <1>8, TodoIs DEF DieWriting, userVars, Steps
  <2> HIDE DEF x
  <2>2. x.val # Absent => Known(x.file)
    BY <2>1 DEF Traced
  <2>3. \A f \in Files : tree'[f] # Absent => Known(f)
    BY <2>1, <2>2, VarTypes DEF Traced
  <2>4. \A i : i \notin 1..Len(todo')
    BY <2>1
  <2> QED
    BY <2>1, <2>3, <2>4, TracedNext DEF Traced
<1>9. CASE ConfigChanged \/ EnterSubdir \/ EndLoop \/ UNCHANGED vars
  <2>1. UNCHANGED <<conf, tree, last, todo>>
    BY <1>9 DEF ConfigChanged, EnterSubdir, EndLoop, vars, userVars
  <2> QED
    BY <2>1, TracedNext DEF Traced
<1> QED
  BY <1>1, <1>2, <1>3, <1>4, <1>5, <1>6, <1>7, <1>8, <1>9 DEF Next, User, Work

-----------------------------------------------------------------------------
(* Sweeping is inductive. *)

\* All calls of the user's distclean are of distclean, and for all of a directory.
LEMMA CleanCalls ==
  ASSUME TypeInv, Chained, Plain, Distcleaning, NEW k \in 1..Len(stack)
  PROVE  /\ stack[k] \in Calls /\ Fits(stack[k]) /\ stack[k].dir \in Dirs
         /\ stack[k].op = "distclean" /\ stack[k].req = <<>>
         /\ stack[k].phase \in {"read", "clean", "remove", "end"}
         /\ stack[k].phase # "read" => Secs(stack[k]) = Default[conf[stack[k].dir]]
<1>1. /\ Len(stack) \in Nat \ {0} /\ 1 \in 1..Len(stack)
      /\ stack[k] \in Calls /\ Fits(stack[k]) /\ stack[k].dir \in Dirs
  BY TopCall DEF Distcleaning, Calls
<1>2. stack[1].op = "distclean" /\ stack[1].req = <<>>
  BY DEF Chained, Distcleaning, Plain
<1>3. stack[k].op = "distclean" /\ stack[k].req = <<>>
  <2>1. CASE k = 1
    BY <1>2, <2>1
  <2>2. CASE k # 1
    <3>1. 1 < k /\ k - 1 \in 1..(Len(stack) - 1) /\ (k - 1) + 1 = k
      BY <1>1, <2>2
    <3>2. stack[k].op \in {stack[1].op, "distclean"}
      BY <1>1, <3>1 DEF Chained
    <3>3. CalledBy(stack[k - 1], stack[k])
      BY <3>1 DEF Chained
    <3> QED
      BY <1>2, <3>2, <3>3 DEF CalledBy
  <2> QED
    BY <2>1, <2>2
<1>4. stack[k].phase \in {"read", "clean", "remove", "end"}
  BY <1>1, <1>3 DEF Fits, PhasesOf
<1>5. stack[k].phase # "read" => Secs(stack[k]) = Default[conf[stack[k].dir]]
  BY <1>1, <1>3 DEF Secs, Fits
<1> QED
  BY <1>1, <1>3, <1>4, <1>5

\* A step of the user's distclean, but an exception.
Cleans ==
  /\ Distcleaning /\ Goes /\ OnlyRemoves'
  /\ \A f \in Files : tree[f] = Absent => tree'[f] = Absent
  /\ \A f \in Files : Vanishes(f) => Vanishes(f)'

\* What becomes of files while todo is done, and of dsss.last.
LEMMA SweptKept ==
  ASSUME TypeInv, Cleans, NEW e \in Dirs, Swept(e), last'[e] = NoConf
  PROVE  Swept(e)'
<1>1. UNCHANGED conf /\ \A s : MadeFor(s)' = MadeFor(s)
  BY GoesOn, SameInner DEF Cleans
<1>2. \A s : MadeFor(s) \subseteq Files
  BY DEF MadeFor
<1> QED
  BY <1>1, <1>2 DEF Swept, Cleans

LEMMA SweepsKept ==
  ASSUME TypeInv, Cleans, NEW g \in Calls, Fits(g), NEW D, Sweeps(g, D),
         \A e \in Dirs : last[e] = NoConf => last'[e] = NoConf \/ \E d \in D : e \in Inner(d)
  PROVE  Sweeps(g, D)'
<1>1. /\ UNCHANGED conf /\ g.dir \in Dirs /\ ToSet(Default[conf[g.dir]]) \subseteq Sections
      /\ \A s : MadeFor(s)' = MadeFor(s) /\ MadeFor(s) \subseteq Files
      /\ \A d : Inner(d)' = Inner(d)
  BY GoesOn, SameInner, ListOf DEF Cleans, Calls, MadeFor
<1>2. Removed(g)' = Removed(g) /\ Removed(g) \subseteq Sections
  BY <1>1, ListOf DEF Removed, Passed, ToSet
<1>3. \A s \in ToSet(Default[conf[g.dir]]) : tree'[<<"di", s>>] = Absent
  <2>1. \A s \in ToSet(Default[conf[g.dir]]) : <<"di", s>> \in Files
    BY <1>1, FileNames
  <2> QED
    BY <2>1 DEF Sweeps, Cleans
<1>4. ASSUME NEW s \in Removed(g)
      PROVE  \A f \in MadeFor(s) : Vanishes(f)'
  BY <1>1, <1>4 DEF Sweeps, Cleans
<1>5. ASSUME NEW s \in Removed(g), Type[s] = "subdir", NEW e \in Inner(SubDir[s]),
             ~\E d \in D : e \in Inner(d)
      PROVE  Swept(e)'
  <2>1. Swept(e)
    BY <1>5 DEF Sweeps
  <2>2. e \in Dirs
    BY <1>2, <1>5, SubDirIs, InnerIn
  <2>3. last'[e] = NoConf
    BY <1>5, <2>1, <2>2 DEF Swept
  <2> QED
    BY <2>1, <2>2, <2>3, SweptKept
<1> QED
  BY <1>1, <1>2, <1>3, <1>4, <1>5 DEF Sweeps

\* The call goes on: what it has passed more is removed as well, or will be.
LEMMA SweepsStep ==
  ASSUME UNCHANGED conf, NEW g, NEW h, NEW D, NEW E, D \subseteq E,
         Sweeps(g, D)', h.dir = g.dir,
         \A s \in Removed(h) :
           \/ s \in Removed(g)
           \/ /\ \A f \in MadeFor(s) : Vanishes(f)'
              /\ Type[s] = "subdir" => SubDir[s] \in E
  PROVE  Sweeps(h, E)'
<1>1. /\ \A x : Removed(x)' = Removed(x)
      /\ \A s : MadeFor(s)' = MadeFor(s)
      /\ \A d : Inner(d)' = Inner(d)
  BY SameInner DEF Removed
<1>2. \A s \in ToSet(Default[conf'[h.dir]]) : tree'[<<"di", s>>] = Absent
  BY DEF Sweeps
<1>3. ASSUME NEW s \in Removed(h)
      PROVE  /\ \A f \in MadeFor(s) : Vanishes(f)'
             /\ Type[s] = "subdir" =>
                  \A e \in Inner(SubDir[s]) : (\E d \in E : e \in Inner(d)) \/ Swept(e)'
  <2>1. CASE s \in Removed(g)
    BY <1>1, <2>1 DEF Sweeps
  <2>2. CASE /\ \A f \in MadeFor(s) : Vanishes(f)'
             /\ Type[s] = "subdir" => SubDir[s] \in E
    BY <2>2
  <2> QED
    BY <1>3, <2>1, <2>2
<1> QED
  BY <1>1, <1>2, <1>3 DEF Sweeps

LEMMA SweepingNext ==
  ASSUME Len(stack') \in Nat, OnlyRemoves',
         \A k \in 1..Len(stack') : \A g, D :
           /\ g = stack'[k] /\ g.phase \in {"remove", "end"}
           /\ D = IF k < Len(stack') THEN {stack'[k + 1].dir} ELSE {}
           => Sweeps(g, D)'
  PROVE  Sweeping'
<1>1. \A k \in 1..Len(stack') : WaitsFor(k)' = IF k < Len(stack') THEN {stack'[k + 1].dir} ELSE {}
  <2> SUFFICES ASSUME NEW k \in 1..Len(stack')
               PROVE  WaitsFor(k)' = IF k < Len(stack') THEN {stack'[k + 1].dir} ELSE {}
    OBVIOUS
  <2>1. CASE k < Len(stack')
    <3>1. {k + 1} \intersect 1..Len(stack') = {k + 1}
      BY <2>1
    <3> QED
      BY <2>1, <3>1 DEF WaitsFor
  <2>2. CASE ~(k < Len(stack'))
    <3>1. {k + 1} \intersect 1..Len(stack') = {}
      BY <2>2
    <3> QED
      BY <2>2, <3>1 DEF WaitsFor
  <2> QED
    BY <2>1, <2>2
<1> SUFFICES ASSUME NEW k \in 1..Len(stack'), stack'[k].phase \in {"remove", "end"}
             PROVE  Sweeps(stack[k], WaitsFor(k))'
  BY DEF Sweeping
<1>2. \A g, D : g = stack'[k] /\ D = WaitsFor(k)' => Sweeps(g, D)'
  BY <1>1
<1> QED
  BY <1>2

\* A call that waits keeps its promise.
LEMMA WaitingSweeps ==
  ASSUME TypeInv, Chained, Plain, Down, Sweeping, Cleans,
         \A e \in Dirs \ {Top.dir} : last[e] = NoConf => last'[e] = NoConf,
         NEW k \in 1..(Len(stack) - 1), stack[k].phase \in {"remove", "end"}
  PROVE  \A g, D : g = stack[k] /\ D = {stack[k + 1].dir} => Sweeps(g, D)'
<1> DEFINE n == Len(stack)
<1>1. /\ Distcleaning /\ Running
  BY DEF Cleans, Distcleaning
<1>2. /\ n \in Nat \ {0} /\ Top = stack[n] /\ n \in 1..n /\ k \in 1..n /\ k + 1 \in 1..n /\ k < n
  BY <1>1, TopCall
<1>3. stack[k] \in Calls /\ Fits(stack[k]) /\ Top.dir \in Dirs
  BY <1>1, <1>2, CleanCalls
<1>4. Sweeps(stack[k], {stack[k + 1].dir})
  BY <1>1, <1>2, WaitsIs DEF Sweeping
<1>5. Top.dir \in Inner(stack[k + 1].dir)
  <2>1. CASE k + 1 = n
    BY <1>2, <1>3, <2>1, InnerIn
  <2>2. CASE k + 1 # n
    <3> DEFINE i == k + 1
    <3>1. i \in 1..n /\ i < n
      BY <1>2, <2>2
    <3> HIDE DEF i
    <3>2. stack[n].dir \in Inner(stack[i].dir)
      BY <1>2, <3>1 DEF Down
    <3> QED
      BY <1>2, <3>2 DEF i
  <2> QED
    BY <2>1, <2>2
<1>6. \A e \in Dirs : last[e] = NoConf =>
        last'[e] = NoConf \/ \E d \in {stack[k + 1].dir} : e \in Inner(d)
  BY <1>5
<1> QED
  BY <1>3, <1>4, <1>6, SweepsKept

\* The innermost call, if dsss.last stays as it is.
LEMMA TopSweeps ==
  ASSUME TypeInv, Chained, Plain, Sweeping, Cleans,
         \A e \in Dirs : last[e] = NoConf => last'[e] = NoConf,
         Top.phase \in {"remove", "end"}
  PROVE  Sweeps(Top, {}) /\ \A g, D : g = Top /\ D = {} => Sweeps(g, D)'
<1> DEFINE n == Len(stack)
<1>1. Distcleaning /\ Running
  BY DEF Cleans, Distcleaning
<1>2. n \in Nat \ {0} /\ Top = stack[n] /\ Top \in Calls /\ Fits(Top) /\ n \in 1..n /\ ~(n < n)
  BY <1>1, TopCall
<1>3. WaitsFor(n) = {}
  BY <1>2, WaitsIs
<1>4. Sweeps(Top, {})
  BY <1>1, <1>2, <1>3 DEF Sweeping
<1> QED
  BY <1>2, <1>4, SweepsKept

LEMMA StaySweeping ==
  ASSUME TypeInv, Chained, Plain, Down, Sweeping, Cleans, Stays,
         \A e \in Dirs \ {Top.dir} : last[e] = NoConf => last'[e] = NoConf,
         \A h, D : h = Top' /\ h.phase \in {"remove", "end"} /\ D = {} => Sweeps(h, D)'
  PROVE  Sweeping'
<1> DEFINE n == Len(stack)
<1>1. n \in Nat \ {0} /\ Top = stack[n] /\ Len(stack') = n /\ OnlyRemoves'
  BY GoesOn, TopCall DEF Stays, Cleans
<1>2. \A k \in 1..n : k \in 1..(n - 1) \/ k = n
  BY <1>1
<1>3. \A k \in 1..n : stack'[k].dir = stack[k].dir
  BY <1>1, <1>2 DEF Stays
<1> SUFFICES ASSUME NEW k \in 1..n, NEW g, NEW D,
                    g = stack'[k], g.phase \in {"remove", "end"},
                    D = IF k < n THEN {stack'[k + 1].dir} ELSE {}
             PROVE  Sweeps(g, D)'
  BY <1>1, SweepingNext
<1>4. CASE k = n
  BY <1>1, <1>4 DEF Stays
<1>5. CASE k \in 1..(n - 1)
  <2>1. k + 1 \in 1..n /\ k < n /\ g = stack[k]
    BY <1>1, <1>5 DEF Stays
  <2>2. D = {stack[k + 1].dir}
    BY <1>3, <2>1
  <2> QED
    BY <1>5, <2>1, <2>2, WaitingSweeps
<1> QED
  BY <1>2, <1>4, <1>5

LEMMA PushSweeping ==
  ASSUME TypeInv, Chained, Plain, Down, Sweeping, Cleans,
         \A e \in Dirs : last[e] = NoConf => last'[e] = NoConf,
         Len(stack') = Len(stack) + 1,
         \A k \in 1..(Len(stack) - 1) : stack'[k] = stack[k],
         stack'[Len(stack)].dir = Top.dir,
         stack'[Len(stack) + 1].phase \notin {"remove", "end"},
         \A h, D : /\ h = stack'[Len(stack)] /\ h.phase \in {"remove", "end"}
                   /\ D = {stack'[Len(stack) + 1].dir}
                   => Sweeps(h, D)'
  PROVE  Sweeping'
<1> DEFINE n == Len(stack)
<1>1. n \in Nat \ {0} /\ Top = stack[n] /\ Len(stack') = n + 1 /\ n + 1 \in Nat /\ OnlyRemoves'
  BY GoesOn, TopCall DEF Cleans
<1>2. \A k \in 1..n : k \in 1..(n - 1) \/ k = n
  BY <1>1
<1>3. \A k \in 1..n : stack'[k].dir = stack[k].dir
  BY <1>1, <1>2
<1> SUFFICES ASSUME NEW k \in 1..(n + 1), NEW g, NEW D,
                    g = stack'[k], g.phase \in {"remove", "end"},
                    D = IF k < n + 1 THEN {stack'[k + 1].dir} ELSE {}
             PROVE  Sweeps(g, D)'
  BY <1>1, SweepingNext
<1>4. CASE k = n + 1
  BY <1>4
<1>5. CASE k = n
  BY <1>1, <1>5
<1>6. CASE k \in 1..(n - 1)
  <2>1. k + 1 \in 1..n /\ k < n + 1 /\ g = stack[k]
    BY <1>1, <1>6
  <2>2. D = {stack[k + 1].dir}
    BY <1>3, <2>1
  <2> QED
    BY <1>6, <2>1, <2>2, WaitingSweeps
<1> QED
  BY <1>1, <1>4, <1>5, <1>6

LEMMA SameCleans ==
  ASSUME Sweeping, Distcleaning, Goes, UNCHANGED <<tree, todo>>
  PROVE  Cleans
<1>1. OnlyRemoves /\ OnlyRemoves'
  BY DEF Sweeping, OnlyRemoves
<1>2. \A f : Vanishes(f)' <=> Vanishes(f)
  BY DEF Vanishes, Writes
<1> QED
  BY <1>1, <1>2 DEF Cleans

LEMMA NothingVanishes ==
  ASSUME todo = <<>>, NEW f
  PROVE  Vanishes(f) <=> tree[f] = Absent
<1>1. \A i : i \notin 1..Len(todo)
  OBVIOUS
<1> QED
  BY <1>1 DEF Vanishes

LEMMA NonePassed == \A q : Passed(q, 1) = {}
<1>1. \A q : \A j \in 1..Len(q) : ~(j < 1)
  OBVIOUS
<1> QED
  BY <1>1 DEF Passed

LEMMA ReadConfigSweeping ==
  ASSUME TypeInv, Chained, Plain, Down, Sweeping, Distcleaning, ReadConfig
  PROVE  Sweeping'
<1>1. Goes /\ UNCHANGED <<tree, todo>>
  BY DEF Goes, ReadConfig
<1>2. Cleans
  BY <1>1, SameCleans
<1>3. Stays /\ Top'.phase = FirstPhase(Top.op)
  BY ReadConfigStays
<1>4. Top.op = "distclean"
  <2>1. Top = stack[Len(stack)] /\ Len(stack) \in 1..Len(stack)
    BY TopCall DEF Distcleaning
  <2> QED
    BY <2>1, CleanCalls
<1>5. Top'.phase = "clean"
  BY <1>3, <1>4 DEF FirstPhase
<1>6. \A e \in Dirs \ {Top.dir} : last[e] = NoConf => last'[e] = NoConf
  BY VarTypes DEF ReadConfig
<1> QED
  BY <1>2, <1>3, <1>5, <1>6, StaySweeping

LEMMA CleanFirstSweeping ==
  ASSUME TypeInv, InTheirPlaces, Chained, Plain, Down, Sweeping, Distcleaning, CleanFirst
  PROVE  Sweeping'
<1>1. /\ Running /\ todo = <<>> /\ todo' = <<>> /\ UNCHANGED <<conf, last>>
      /\ tree' = WithoutImports(Top.dir) /\ Top.dir \in Dirs
  BY CleanFirstMoves DEF CleanFirst, userVars
<1>2. \A f \in Files : tree[f] = Absent => tree'[f] = Absent
  BY <1>1 DEF WithoutImports
<1>3. Cleans
  <2>1. Goes
    BY DEF Goes
  <2>2. \A i : i \notin 1..Len(todo')
    BY <1>1
  <2>3. OnlyRemoves'
    BY <2>2 DEF OnlyRemoves
  <2>4. \A f \in Files : Vanishes(f) => Vanishes(f)'
    BY <1>1, <1>2, NothingVanishes DEF Vanishes
  <2> QED
    BY <1>2, <2>1, <2>3, <2>4 DEF Cleans
<1>4. Stays /\ Top'.phase = "remove" /\ Top'.at = 1
  <2>1. Moved(stack, stack', "remove", 1, Top.conf) /\ Top.op = "distclean" /\ Running
        /\ "remove" \in PhasesOf(Top.op) /\ Top.conf = conf[Top.dir]
    BY CleanFirstMoves
  <2>2. Top'.at = 1
    BY <2>1, MovedTop
  <2> QED
    BY <2>2, CleanFirstStays
<1>5. ASSUME NEW h, h = Top'
      PROVE  Sweeps(h, {})'
  <2>1. h.phase = "remove" /\ h.at = 1 /\ h.dir = Top.dir
    BY <1>4, <1>5 DEF Stays
  <2>2. Removed(h)' = {}
    BY <2>1, NonePassed DEF Removed
  <2>3. \A s \in ToSet(Default[conf[Top.dir]]) : tree'[<<"di", s>>] = Absent
    <3>0. conf[Top.dir] \in Confs[Top.dir] /\ ToSet(Default[conf[Top.dir]]) \subseteq Sections
      BY <1>1, ListOf, VarTypes
    <3>1. \A s \in ToSet(Default[conf[Top.dir]]) : s \in Sections /\ Home[s] = Top.dir
      BY <1>1, <3>0 DEF InTheirPlaces
    <3> QED
      BY <1>1, <3>1, FileNames DEF WithoutImports
  <2> QED
    BY <1>1, <2>1, <2>2, <2>3 DEF Sweeps
<1> QED
  BY <1>1, <1>3, <1>4, <1>5, StaySweeping

LEMMA EnterSectionSweeping ==
  ASSUME TypeInv, InTheirPlaces, Chained, Plain, Down, Sweeping, Distcleaning, EnterSection
  PROVE  Sweeping'
<1>1. PICK s, q : s = Current /\ q = Default[conf[Top.dir]]
  OBVIOUS
<1>2. /\ InLoop /\ Running /\ todo = <<>> /\ s \in Sections /\ Home[s] = Top.dir
      /\ todo' = Plan(Top.phase, s, TargetOf(s)) /\ Top.dir \in Dirs /\ Top.phase \in Loops
      /\ UNCHANGED <<conf, last, tree>>
  BY <1>1, EnterHome
<1>3. /\ Top = stack[Len(stack)] /\ Len(stack) \in 1..Len(stack)
  BY <1>2, TopCall
<1>4. Top.phase = "remove" /\ Secs(Top) = q
  BY <1>1, <1>2, <1>3, CleanCalls DEF Loops
<1>5. /\ Top.at \in 1..Len(q) /\ Top.at \in Nat \ {0} /\ s = q[Top.at]
  BY <1>1, <1>2, <1>4, LoopCall
<1>6. /\ Len(q) \in Nat /\ DOMAIN q = 1..Len(q) /\ s \in ToSet(q)
  BY <1>1, <1>2, <1>5, ListOf DEF ToSet
<1>7. /\ todo' \in Seq(Removals)
      /\ \A f \in MadeFor(s) : f[1] = "di" \/ \E i \in 1..Len(todo') : Writes(todo', i, f)
  BY <1>2, <1>4, DistcleanRemoves DEF Plan
<1>8. Cleans
  <2>1. Goes
    BY DEF Goes
  <2>2. \A i \in 1..Len(todo') : todo'[i] \in Removals
    BY <1>7
  <2>3. OnlyRemoves'
    BY <2>2 DEF OnlyRemoves, Removals
  <2>4. \A f \in Files : Vanishes(f) => Vanishes(f)'
    BY <1>2, NothingVanishes DEF Vanishes
  <2> QED
    BY <1>2, <2>1, <2>3, <2>4 DEF Cleans
<1>9. /\ Stays /\ Top'.phase = Top.phase /\ Top'.at = Top.at + 1
  BY EnterSectionStays
<1>10. Type[s] # "subdir"
  BY <1>1, <1>4 DEF EnterSection, Recurses
<1>11. Sweeps(Top, {}) /\ \A g, D : g = Top /\ D = {} => Sweeps(g, D)'
  BY <1>2, <1>4, <1>8, TopSweeps
<1>12. \A f \in MadeFor(s) : Vanishes(f)'
  <2> SUFFICES ASSUME NEW f \in MadeFor(s)
               PROVE  Vanishes(f)'
    OBVIOUS
  <2>1. CASE f[1] = "di"
    <3>1. f = <<"di", s>>
      BY <2>1 DEF MadeFor, Files, Kinds
    <3>2. tree[f] = Absent
      BY <1>1, <1>6, <1>11, <3>1 DEF Sweeps
    <3> QED
      BY <1>2, <3>2 DEF Vanishes
  <2>2. CASE f[1] # "di"
    BY <1>7, <2>2 DEF Vanishes, Writes
  <2> QED
    BY <2>1, <2>2
<1>13. ASSUME NEW h, h = Top'
       PROVE  Sweeps(h, {})'
  <2>1. h.phase = "remove" /\ h.at = Top.at + 1 /\ h.dir = Top.dir
    BY <1>4, <1>9, <1>13 DEF Stays
  <2>2. \A r \in Removed(h) : r \in Removed(Top) \/ r = s
    BY <1>1, <1>4, <1>5, <1>6, <2>1, PassedIs DEF Removed
  <2>3. PICK g, D : g = Top /\ D = {}
    OBVIOUS
  <2>4. Sweeps(g, D)' /\ h.dir = g.dir
    BY <1>11, <2>1, <2>3
  <2>5. \A r \in Removed(h) :
          \/ r \in Removed(g)
          \/ /\ \A f \in MadeFor(r) : Vanishes(f)'
             /\ Type[r] = "subdir" => SubDir[r] \in D
    BY <1>10, <1>12, <2>2, <2>3
  <2>6. Sweeps(h, D)'
    BY <1>2, <2>4, <2>5, SweepsStep
  <2> QED
    BY <2>3, <2>6
<1> QED
  BY <1>2, <1>8, <1>9, <1>13, StaySweeping

LEMMA EndLoopSweeping ==
  ASSUME TypeInv, Chained, Plain, Down, Sweeping, Distcleaning, EndLoop
  PROVE  Sweeping'
<1>1. PICK q : q = Default[conf[Top.dir]]
  OBVIOUS
<1>2. /\ Running /\ Top.phase \in Loops /\ Top.at > Len(Secs(Top)) /\ Top \in Calls /\ Fits(Top)
      /\ UNCHANGED <<conf, last, tree, todo>>
  BY EndLoopMoves DEF EndLoop, userVars
<1>3. Top = stack[Len(stack)] /\ Len(stack) \in 1..Len(stack)
  BY <1>2, TopCall
<1>4. Top.phase = "remove" /\ Secs(Top) = q /\ Top.dir \in Dirs /\ Top.at \in Nat \ {0}
  BY <1>1, <1>2, <1>3, CleanCalls DEF Loops, Fits
<1>5. ToSet(q) = Passed(q, Top.at)
  BY <1>1, <1>2, <1>4, ListOf, PassedIs
<1>6. Cleans
  BY <1>2, SameCleans DEF Goes
<1>7. Stays /\ Top'.phase = "end"
  BY <1>4, EndLoopStays DEF NextPhase
<1>8. \A g, D : g = Top /\ D = {} => Sweeps(g, D)'
  BY <1>2, <1>4, <1>6, TopSweeps
<1>9. ASSUME NEW h, h = Top'
      PROVE  Sweeps(h, {})'
  <2>1. h.phase = "end" /\ h.dir = Top.dir
    BY <1>7, <1>9 DEF Stays
  <2>2. Removed(h) = Removed(Top)
    BY <1>1, <1>4, <1>5, <2>1 DEF Removed
  <2>3. PICK g, D : g = Top /\ D = {}
    OBVIOUS
  <2>4. Sweeps(h, D)'
    BY <1>2, <1>8, <2>1, <2>2, <2>3, SweepsStep
  <2> QED
    BY <2>3, <2>4
<1> QED
  BY <1>2, <1>6, <1>7, <1>9, StaySweeping

LEMMA PutFileSweeping ==
  ASSUME TypeInv, Chained, Plain, Down, Sweeping, Distcleaning, PutFile
  PROVE  Sweeping'
<1> DEFINE x == Head(todo)
           n == Len(todo)
<1>1. /\ todo # <<>> /\ n \in Nat \ {0} /\ x = todo[1] /\ x \in Steps /\ todo' = Tail(todo)
      /\ Len(todo') = n - 1 /\ \A i \in 1..(n - 1) : todo'[i] = todo[i + 1]
      /\ UNCHANGED <<conf, last, stack>>
  BY TodoIs DEF PutFile, userVars
<1>2. 1 \in 1..n /\ (\A i \in 1..(n - 1) : i + 1 \in 1..n)
      /\ \A i \in 1..n : i = 1 \/ (i - 1 \in 1..(n - 1) /\ (i - 1) + 1 = i)
  BY <1>1
<1>3. OnlyRemoves
  BY DEF Sweeping
<1>4. x.where = "tree" /\ x.val = Absent /\ x.file \in Files
  BY <1>1, <1>2, <1>3 DEF OnlyRemoves, Steps
<1> HIDE DEF x
<1>5. tree' = [tree EXCEPT ![x.file] = Absent]
  BY <1>4 DEF PutFile, x
<1>6. tree'[x.file] = Absent /\ \A f \in Files : tree[f] = Absent => tree'[f] = Absent
  BY <1>4, <1>5, VarTypes
<1>7. Cleans
  <2>1. Goes
    BY DEF Goes
  <2>2. OnlyRemoves'
    BY <1>1, <1>2, <1>3 DEF OnlyRemoves
  <2>3. ASSUME NEW f \in Files, Vanishes(f)
        PROVE  Vanishes(f)'
    <3>1. CASE tree[f] = Absent
      BY <1>6, <3>1 DEF Vanishes
    <3>2. ASSUME NEW i \in 1..n, Writes(todo, i, f)
          PROVE  Vanishes(f)'
      <4>1. CASE i = 1
        BY <1>1, <1>6, <3>2, <4>1 DEF Vanishes, Writes
      <4>2. CASE i # 1
        <5>1. i - 1 \in 1..Len(todo') /\ todo'[i - 1] = todo[i]
          BY <1>1, <1>2, <4>2
        <5>2. Writes(todo', i - 1, f)
          BY <3>2, <5>1 DEF Writes
        <5> QED
          BY <5>1, <5>2 DEF Vanishes, Writes
      <4> QED
        BY <4>1, <4>2
    <3> QED
      BY <2>3, <3>1, <3>2 DEF Vanishes
  <2> QED
    BY <1>6, <2>1, <2>2, <2>3 DEF Cleans
<1>8. Stays /\ Top' = Top
  BY <1>1, GoesOn, TopCall DEF Stays, Top, Distcleaning
<1>9. Top.phase \in {"remove", "end"} => \A g, D : g = Top /\ D = {} => Sweeps(g, D)'
  BY <1>1, <1>7, TopSweeps
<1> QED
  BY <1>1, <1>7, <1>8, <1>9, StaySweeping

LEMMA EnterSubdirSweeping ==
  ASSUME TypeInv, Chained, Plain, Down, Sweeping, Distcleaning, EnterSubdir
  PROVE  Sweeping'
<1>0. PICK s, n, q : s = Current /\ n = Len(stack) /\ q = Default[conf[Top.dir]]
  OBVIOUS
<1>1. /\ Goes /\ Running /\ UNCHANGED <<conf, last, tree, todo>>
      /\ n \in Nat \ {0} /\ Top = stack[n] /\ Top \in Calls /\ Fits(Top) /\ n \in 1..n
      /\ Top.phase \in {"libs", "copy", "remove"}
      /\ Top.at \in 1..Len(Secs(Top)) /\ s = Secs(Top)[Top.at]
      /\ s \in Sections /\ Type[s] = "subdir" /\ SubDir[s] \in Dirs
      /\ Len(stack') = n + 1 /\ \A k \in 1..(n - 1) : stack'[k] = stack[k]
      /\ stack'[n].dir = Top.dir /\ stack'[n].phase = Top.phase /\ stack'[n].at = Top.at + 1
      /\ stack'[n + 1] = Call(Top.op, SubDir[s], <<>>)
  BY <1>0, EnterSubdirStack DEF Goes
<1>2. stack'[n + 1].phase = "read" /\ stack'[n + 1].dir = SubDir[s]
  BY <1>1 DEF Call
<1>3. Cleans
  BY <1>1, SameCleans
<1>4. Top.phase = "remove" /\ Secs(Top) = q /\ Top.dir \in Dirs /\ Top.at \in Nat \ {0}
  BY <1>0, <1>1, CleanCalls DEF Fits
<1>5. s = q[Top.at] /\ Len(q) \in Nat /\ DOMAIN q = 1..Len(q) /\ s \in ToSet(q)
  <2>1. Top.at \in 1..Len(q) /\ s = q[Top.at]
    BY <1>1, <1>4
  <2>2. Len(q) \in Nat /\ DOMAIN q = 1..Len(q)
    BY <1>0, <1>4, ListOf
  <2> QED
    BY <2>1, <2>2 DEF ToSet
<1>6. Sweeps(Top, {}) /\ \A g, D : g = Top /\ D = {} => Sweeps(g, D)'
  BY <1>1, <1>3, <1>4, TopSweeps
<1>7. \A f \in MadeFor(s) : Vanishes(f)'
  <2>1. \A f \in MadeFor(s) : f = <<"di", s>>
    BY <1>1 DEF MadeFor, Files, Kinds
  <2>2. tree[<<"di", s>>] = Absent
    BY <1>0, <1>5, <1>6 DEF Sweeps
  <2> QED
    BY <1>1, <2>1, <2>2 DEF Vanishes
<1>8. ASSUME NEW h, h = stack'[n]
      PROVE  Sweeps(h, {SubDir[s]})'
  <2>1. h.phase = "remove" /\ h.at = Top.at + 1 /\ h.dir = Top.dir
    BY <1>1, <1>4, <1>8
  <2>2. \A r \in Removed(h) : r \in Removed(Top) \/ r = s
    BY <1>0, <1>4, <1>5, <2>1, PassedIs DEF Removed
  <2>3. PICK g, D, E : g = Top /\ D = {} /\ E = {SubDir[s]}
    OBVIOUS
  <2>4. Sweeps(g, D)' /\ h.dir = g.dir /\ D \subseteq E
    BY <1>6, <2>1, <2>3
  <2>5. \A r \in Removed(h) :
          \/ r \in Removed(g)
          \/ /\ \A f \in MadeFor(r) : Vanishes(f)'
             /\ Type[r] = "subdir" => SubDir[r] \in E
    BY <1>7, <2>2, <2>3
  <2>6. Sweeps(h, E)'
    BY <1>1, <2>4, <2>5, SweepsStep
  <2> QED
    BY <2>3, <2>6
<1> QED
  BY <1>0, <1>1, <1>2, <1>3, <1>8, PushSweeping

LEMMA ConfigChangedSweeping ==
  ASSUME TypeInv, Chained, Plain, Down, Sweeping, Distcleaning, ConfigChanged
  PROVE  Sweeping'
<1>0. PICK n : n = Len(stack)
  OBVIOUS
<1>1. /\ Goes /\ n \in Nat \ {0} /\ Top = stack[n] /\ Top.phase = "read"
      /\ UNCHANGED <<last, tree>> /\ todo = <<>> /\ todo' = <<>>
      /\ Len(stack') = n + 1 /\ \A k \in 1..n : stack'[k] = stack[k]
      /\ stack'[n + 1].phase = "clean"
  BY <1>0, ConfigChangedStack DEF Goes
<1>2. n \in 1..n /\ \A k \in 1..(n - 1) : k \in 1..n
  BY <1>1
<1>3. stack'[n] = Top /\ \A k \in 1..(n - 1) : stack'[k] = stack[k]
  BY <1>1, <1>2
<1>4. Cleans
  BY <1>1, SameCleans
<1> QED
  BY <1>0, <1>1, <1>3, <1>4, PushSweeping

\* When distclean comes to its end nothing is left in the directories below.
LEMMA EndSwept ==
  ASSUME TypeInv, Distcleaning, todo = <<>>, Top.dir \in Dirs, Top.phase = "end",
         Sweeps(Top, {}), Cleans, last'[Top.dir] = NoConf,
         \A e \in Dirs : last[e] = NoConf => last'[e] = NoConf,
         NEW e \in Inner(Top.dir)
  PROVE  Swept(e)'
<1>1. Removed(Top) = ToSet(Default[conf[Top.dir]]) /\ e \in Dirs
  BY InnerIn DEF Removed
<1>2. CASE e = Top.dir
  <2>1. \A s \in ToSet(Default[conf[e]]) : \A f \in MadeFor(s) : f \in Files /\ tree[f] = Absent
    BY <1>1, <1>2, NothingVanishes DEF Sweeps, MadeFor
  <2>2. UNCHANGED conf /\ \A s : MadeFor(s)' = MadeFor(s)
    BY GoesOn, SameInner DEF Cleans
  <2> QED
    BY <1>2, <2>1, <2>2 DEF Swept, Cleans
<1>3. CASE e # Top.dir
  <2>1. PICK s \in ToSet(Default[conf[Top.dir]]) : Type[s] = "subdir" /\ e \in Inner(SubDir[s])
    BY <1>3, InnerStep
  <2>2. Swept(e)
    BY <1>1, <2>1 DEF Sweeps
  <2>3. last'[e] = NoConf
    BY <1>1, <2>2 DEF Swept
  <2> QED
    BY <1>1, <2>2, <2>3, SweptKept
<1> QED
  BY <1>2, <1>3

\* The caller may then count on the directory it has entered.
LEMMA CallerSweeps ==
  ASSUME NEW g, NEW d, Sweeps(g, {d})', \A e \in Inner(d)' : Swept(e)'
  PROVE  Sweeps(g, {})'
BY DEF Sweeps

\* A distclean that returns.
LEMMA DistcleanReturns ==
  ASSUME TypeInv, Chained, Plain, Sweeping, Distcleaning, Returns \/ Refuse
  PROVE  LET n == Len(stack) IN
         /\ Cleans /\ Returns /\ Top.phase = "end" /\ todo = <<>> /\ Top.dir \in Dirs
         /\ n \in Nat \ {0} /\ Top = stack[n]
         /\ UNCHANGED <<conf, tree, todo>> /\ last' = [last EXCEPT ![Top.dir] = NoConf]
         /\ Len(stack') = n - 1 /\ \A k \in 1..(n - 1) : stack'[k] = stack[k]
         /\ \A e \in Inner(Top.dir) : Swept(e)'
<1> DEFINE n == Len(stack)
<1>1. n \in Nat \ {0} /\ Top = stack[n] /\ n \in 1..n /\ ~(n < n)
  BY TopCall DEF Distcleaning
<1>2. /\ Top.op = "distclean" /\ Top.dir \in Dirs /\ Top.phase \in {"read", "clean", "remove", "end"}
  BY <1>1, CleanCalls
<1>3. Returns /\ Top.phase = "end" /\ Return(0) /\ Running
  BY <1>2 DEF Returns, Refuse, Refused
<1>4. /\ UNCHANGED <<conf, tree>> /\ todo = <<>> /\ todo' = <<>>
      /\ Len(stack') = n - 1 /\ \A k \in 1..(n - 1) : stack'[k] = stack[k]
  BY <1>2, <1>3, ReturnStack
<1>5. last' = [last EXCEPT ![Top.dir] = NoConf]
  BY <1>2, <1>3 DEF Return
<1>6. Cleans
  BY <1>3, <1>4, SameCleans DEF Goes
<1>7. /\ last'[Top.dir] = NoConf /\ \A e \in Dirs : last[e] = NoConf => last'[e] = NoConf
  BY <1>2, <1>5, VarTypes
<1>8. Sweeps(Top, {})
  BY <1>1, <1>3, WaitsIs DEF Sweeping
<1>9. \A e \in Inner(Top.dir) : Swept(e)'
  BY <1>2, <1>3, <1>4, <1>6, <1>7, <1>8, EndSwept
<1> QED
  BY <1>1, <1>2, <1>3, <1>4, <1>5, <1>6, <1>9

LEMMA ReturnSweeping ==
  ASSUME TypeInv, Chained, Plain, Down, Sweeping, Distcleaning, Returns \/ Refuse
  PROVE  Sweeping'
<1>0. PICK n : n = Len(stack)
  OBVIOUS
<1>1. /\ Cleans /\ Top.dir \in Dirs /\ n \in Nat \ {0} /\ Top = stack[n]
      /\ UNCHANGED conf /\ last' = [last EXCEPT ![Top.dir] = NoConf]
      /\ Len(stack') = n - 1 /\ \A k \in 1..(n - 1) : stack'[k] = stack[k]
      /\ \A e \in Inner(Top.dir) : Swept(e)'
  BY <1>0, DistcleanReturns
<1>2. \A e \in Dirs : last[e] = NoConf => last'[e] = NoConf
  BY <1>1, VarTypes
<1>3. Len(stack') \in Nat /\ OnlyRemoves'
  BY <1>1 DEF Cleans
<1> SUFFICES ASSUME NEW k \in 1..(n - 1), NEW h, NEW D,
                    h = stack[k], h.phase \in {"remove", "end"},
                    D = IF k < n - 1 THEN {stack'[k + 1].dir} ELSE {}
             PROVE  Sweeps(h, D)'
  BY <1>1, <1>3, SweepingNext
<1>4. \A E : E = {stack[k + 1].dir} => Sweeps(h, E)'
  BY <1>0, <1>1, <1>2, WaitingSweeps
<1>5. CASE k < n - 1
  <2>1. k + 1 \in 1..(n - 1) /\ stack'[k + 1] = stack[k + 1]
    BY <1>1, <1>5
  <2> QED
    BY <1>4, <1>5, <2>1
<1>6. CASE ~(k < n - 1)
  <2>1. k + 1 = n /\ D = {}
    BY <1>1, <1>6
  <2>2. PICK d : d = Top.dir
    OBVIOUS
  <2>3. Sweeps(h, {d})'
    BY <1>1, <1>4, <2>1, <2>2
  <2>4. \A e \in Inner(d)' : Swept(e)'
    BY <1>1, <2>2, SameInner
  <2>5. Sweeps(h, {})'
    BY <2>3, <2>4, CallerSweeps
  <2> QED
    BY <2>1, <2>5
<1> QED
  BY <1>5, <1>6

LEMMA NewSweeping ==
  ASSUME todo' = <<>>, Len(stack') \in {0, 1}, Len(stack') = 1 => stack'[1].phase = "read"
  PROVE  Sweeping'
<1>1. \A m \in {0, 1} : \A k \in 1..m : k = 1 /\ m = 1
  OBVIOUS
<1>2. \A k \in 1..Len(stack') : stack'[k].phase = "read"
  BY <1>1
<1>3. \A i : i \notin 1..Len(todo')
  OBVIOUS
<1> QED
  BY <1>2, <1>3 DEF Sweeping, OnlyRemoves

LEMMA StepSweeping ==
  ASSUME TypeInv, InTheirPlaces, Chained, Plain, Down, Sweeping, [Next]_vars
  PROVE  Sweeping'
<1>1. CASE \/ \E s \in Sections : EditSource(s)
           \/ \E d \in Dirs : \E c \in Confs[d] : EditConf(d, c)
           \/ Clean
  <2>1. ~Running /\ stack' = stack /\ todo' = todo
    BY <1>1 DEF EditSource, EditConf, Clean
  <2> QED
    BY <2>1, NoCalls, NewSweeping
<1>2. CASE \E op \in {"build", "install", "binstall", "distclean"} : \E r, b : Give(op, r, b)
  <2>1. ~Running /\ todo' = todo /\ Len(stack') = 1 /\ stack'[1].phase = "read"
    BY <1>2 DEF Give, Call
  <2> QED
    BY <2>1, NoCalls, NewSweeping
<1>3. CASE Die \/ DieWriting \/ CopyFails
  BY <1>3, NewSweeping DEF Die, DieWriting, CopyFails
<1>4. CASE Goes /\ ~Distcleaning
  <2>1. ~Distcleaning'
    BY <1>4, GoesOn DEF Distcleaning
  <2> QED
    BY <2>1 DEF Sweeping
<1>5. CASE Goes /\ Distcleaning
  BY <1>5, ReadConfigSweeping, EnterSectionSweeping, EndLoopSweeping, EnterSubdirSweeping,
     ConfigChangedSweeping, CleanFirstSweeping, PutFileSweeping, ReturnSweeping DEF Goes
<1>6. CASE UNCHANGED vars
  <2>1. UNCHANGED <<conf, last, tree, cmd, stack, todo>>
    BY <1>6 DEF vars
  <2>2. Distcleaning' <=> Distcleaning
    BY <2>1 DEF Distcleaning, Running
  <2>3. /\ \A f : Vanishes(f)' <=> Vanishes(f)
        /\ \A e : Swept(e)' <=> Swept(e)
        /\ \A g : Removed(g)' = Removed(g)
        /\ \A d : Inner(d)' = Inner(d)
        /\ \A s : MadeFor(s)' = MadeFor(s)
    BY <2>1, SameInner DEF Vanishes, Writes, Swept, Removed
  <2>4. \A g, D : Sweeps(g, D)' <=> Sweeps(g, D)
    BY <2>1, <2>3 DEF Sweeps
  <2>5. \A k : WaitsFor(k)' = WaitsFor(k)
    BY <2>1 DEF WaitsFor
  <2> QED
    BY <2>1, <2>2, <2>4, <2>5 DEF Sweeping, OnlyRemoves
<1> QED
  BY <1>1, <1>2, <1>3, <1>4, <1>5, <1>6 DEF Next, User, Work, Goes

-----------------------------------------------------------------------------
(* What distclean leaves when it returns. *)

LEMMA StepClean ==
  ASSUME TypeInv, InTheirPlaces, Chained, Plain, Down, Traced, Sweeping,
         DistcleanLeavesNothing, [Next]_vars
  PROVE  DistcleanLeavesNothing'
<1> SUFFICES ASSUME cmd'.state = "ok", cmd'.op = "distclean"
             PROVE  /\ \A f \in Files : tree'[f] = Absent
                    /\ \A d \in Dirs : last'[d] = NoConf
  BY DEF DistcleanLeavesNothing
<1>1. CASE \/ \E s \in Sections : EditSource(s)
           \/ \E d \in Dirs : \E c \in Confs[d] : EditConf(d, c)
           \/ Clean
           \/ \E op \in {"build", "install", "binstall", "distclean"} : \E r, b : Give(op, r, b)
           \/ Die \/ DieWriting \/ CopyFails
  <2>1. ASSUME Clean
        PROVE  FALSE
    BY <2>1 DEF Clean, NoCommand
  <2>2. ASSUME \E op \in {"build", "install", "binstall", "distclean"} : \E r, b : Give(op, r, b)
        PROVE  FALSE
    BY <2>2 DEF Give
  <2>3. ASSUME Die \/ DieWriting \/ CopyFails
        PROVE  FALSE
    BY <2>3, VarTypes DEF Die, DieWriting, CopyFails, Commands
  <2>4. cmd' # NoCommand
    BY DEF NoCommand
  <2> QED
    BY <1>1, <2>1, <2>2, <2>3, <2>4 DEF EditSource, EditConf
<1>2. CASE UNCHANGED vars
  BY <1>2 DEF vars, DistcleanLeavesNothing
<1>3. CASE Goes
  <2>1. Running /\ cmd.op = "distclean" /\ cmd.state # "ok"
    BY <1>3, GoesOn DEF Running
  <2>2. Distcleaning /\ cmd' # cmd
    BY <2>1 DEF Distcleaning
  <2>3. Returns \/ Refuse
    BY <1>3, <2>2 DEF Goes, ConfigChanged, ReadConfig, EnterSection, EnterSubdir, EndLoop,
       CleanFirst, PutFile
  <2>4. /\ Top.phase = "end" /\ Top.dir \in Dirs /\ Returns
        /\ Len(stack) \in Nat \ {0} /\ Top = stack[Len(stack)]
        /\ UNCHANGED <<conf, tree>> /\ last' = [last EXCEPT ![Top.dir] = NoConf]
        /\ \A e \in Inner(Top.dir) : Swept(e)'
    BY <2>2, <2>3, DistcleanReturns
  <2>5. Len(stack) = 1
    <3>1. cmd' = IF Len(stack) > 1 THEN cmd ELSE [cmd EXCEPT !.state = "ok"]
      BY <2>1, <2>4 DEF Returns, Return
    <3>2. ~(Len(stack) > 1)
      BY <2>2, <3>1
    <3>3. Len(stack) \in Nat \ {0}
      BY <2>4, Zenon
    <3>4. \A n \in Nat \ {0} : ~(n > 1) => n = 1
      OBVIOUS
    <3> QED
      BY <3>2, <3>3, <3>4, Zenon
  <2>6. Top.dir = Root
    BY <2>1, <2>4, <2>5 DEF Chained
  <2>7. \A d \in Inner(Root) : last'[d] = NoConf
    BY <2>4, <2>6 DEF Swept
  <2>8. ASSUME NEW d \in Dirs, last'[d] # NoConf
        PROVE  FALSE
    <3>1. last[d] # NoConf
      BY <2>4, <2>8, VarTypes
    <3>2. d \in Inner(Root)
      BY <2>8, <3>1 DEF Traced
    <3> QED
      BY <2>7, <2>8, <3>2
  <2>9. ASSUME NEW f \in Files, tree'[f] # Absent
        PROVE  FALSE
    <3>1. PICK s \in Everything : f \in MadeFor(s)
      BY <2>4, <2>9 DEF Traced, Known
    <3>2. s \in ToSet(Default[conf[Home[s]]]) /\ Home[s] \in Inner(Root)
      BY HomeInner
    <3>3. Swept(Home[s])'
      BY <2>4, <2>6, <3>2
    <3>4. conf' = conf /\ MadeFor(s)' = MadeFor(s)
      BY <2>4, SameInner
    <3>5. tree'[f] = Absent
      BY <3>1, <3>2, <3>3, <3>4 DEF Swept
    <3> QED
      BY <2>9, <3>5
  <2> QED
    BY <2>8, <2>9
<1> QED
  BY <1>1, <1>2, <1>3 DEF Next, User, Work, Goes

CleanInv ==
  /\ TypeInv /\ Chained /\ Plain /\ Down /\ Traced /\ Sweeping /\ DistcleanLeavesNothing

LEMMA InitCleanInv ==
  ASSUME Init
  PROVE  CleanInv
<1>1. /\ Len(stack) = 0 /\ Len(todo) = 0 /\ cmd = NoCommand
      /\ \A f \in Files : tree[f] = Absent
      /\ \A d \in Dirs : last[d] = NoConf
  BY DEF Init
<1>2. cmd.dbg = FALSE /\ cmd.op = "none" /\ cmd.state = "idle"
  BY <1>1 DEF NoCommand
<1>3. \A i : i \notin 1..0
  OBVIOUS
<1>4. Chained /\ Down /\ Traced
  BY <1>1, <1>2, <1>3 DEF Chained, Down, Traced, Running
<1>5. Plain /\ Sweeping /\ DistcleanLeavesNothing
  BY <1>2 DEF Plain, Sweeping, Distcleaning, Running, DistcleanLeavesNothing
<1> QED
  BY <1>4, <1>5, InitTypes DEF CleanInv

LEMMA StepCleanInv ==
  ASSUME InTheirPlaces, SameFiles, NamedAreListed, Debugs \subseteq {FALSE},
         CleanInv, [Next]_vars
  PROVE  CleanInv'
<1>1. TypeInv /\ Chained /\ Plain /\ Down /\ Traced /\ Sweeping /\ DistcleanLeavesNothing
  BY DEF CleanInv
<1>2. TypeInv' /\ Chained' /\ Plain' /\ Down'
  BY <1>1, StepTypes, StepChained, StepPlain, StepDown
<1>3. Traced' /\ Sweeping' /\ DistcleanLeavesNothing'
  BY <1>1, StepTraced, StepSweeping, StepClean
<1> QED
  BY <1>2, <1>3 DEF CleanInv

\* In a project whose sections are its directories' own, whose dsss.conf keeps listing
\* the same sections with the same targets, whose requests are among what is built by
\* default, and that is not built with --debug, a distclean that returns leaves nothing
\* of what build() made, in subdirectories either, whatever commands died before it.
THEOREM DistcleanEndsClean ==
  ASSUME InTheirPlaces, SameFiles, NamedAreListed, Debugs \subseteq {FALSE}
  PROVE  Spec => []DistcleanLeavesNothing
<1>1. Init => CleanInv
  BY InitCleanInv
<1>2. CleanInv /\ [Next]_vars => CleanInv'
  BY StepCleanInv
<1>3. CleanInv => DistcleanLeavesNothing
  BY DEF CleanInv
<1> QED
  BY <1>1, <1>2, <1>3, PTL DEF Spec

\* In such a project no library or binary is ever in the tree for which dsss.conf has
\* no section: what a build leaves over, it leaves over because targets are renamed,
\* sections dropped, or elements named that are not built by default.
THEOREM OldTargetsAreRenamed ==
  ASSUME InTheirPlaces, SameFiles, NamedAreListed, Debugs \subseteq {FALSE}
  PROVE  Spec => []NoOldTargets
<1>1. Init => CleanInv
  BY InitCleanInv
<1>2. CleanInv /\ [Next]_vars => CleanInv'
  BY StepCleanInv
<1>3. ASSUME CleanInv
      PROVE  NoOldTargets
  <2> SUFFICES ASSUME NEW f \in Kinds \X Targets, tree[f] # Absent
               PROVE  \E s \in Everything : TargetOf(s) = f[2]
    BY DEF NoOldTargets
  <2>1. f \in Files /\ f[1] # "di"
    BY DEF Files, Kinds
  <2>2. PICK s \in Everything : f \in MadeFor(s)
    BY <1>3, <2>1 DEF CleanInv, Traced, Known
  <2> QED
    BY <2>1, <2>2 DEF MadeFor
<1> QED
  BY <1>1, <1>2, <1>3, PTL DEF Spec

=============================================================================
