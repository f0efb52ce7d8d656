-------------------------- MODULE BuildSuccessProofs --------------------------
(***************************************************************************)
(* What is proved of Build's results for every project: a build that       *)
(* returns 0 has brought all that was asked for up to date, whatever was   *)
(* edited and whatever died before it; the install of a binstall finds all *)
(* it copies, and what it has copied is up to date as well.                *)
(***************************************************************************)
EXTENDS BuildProofs

Below(d) == ReachedFrom(Default[conf[d]])

\* The sections that a call is about.
Wanted(g) == IF g.req = <<>> THEN Default[conf[g.dir]] ELSE g.req

-----------------------------------------------------------------------------
(* What the tree will be when todo is done. *)

Writes(q, i, f) == q[i].where = "tree" /\ q[i].file = f

Ends(q, f, v) ==
  \E i \in 1..Len(q) :
    /\ Writes(q, i, f) /\ q[i].val = v
    /\ \A j \in (i + 1)..Len(q) : ~Writes(q, j, f)

Leaves(q, f) == \A i \in 1..Len(q) : ~Writes(q, i, f)

Comes(f, v) == Ends(todo, f, v) \/ (Leaves(todo, f) /\ tree[f] = v)

Edition(s, b) == [ed |-> src[s], dbg |-> b, of |-> TargetOf(s)]

LibraryComes(s) ==
  LET t == TargetOf(s) IN
  Built(s) => /\ Comes(<<"lib", t>>, Edition(s, FALSE))
              /\ s \in Shared => Comes(<<"so", t>>, Edition(s, FALSE))
              /\ cmd.dbg => Comes(<<"dbg", t>>, Edition(s, TRUE))

ImportComes(s) ==
  Built(s) => \E b \in BOOLEAN : Comes(<<"di", s>>, Edition(s, b))

BinaryComes(s) ==
  Type[s] = "binary" => \E b \in BOOLEAN : Comes(<<"bin", TargetOf(s)>>, Edition(s, b))

\* No distclean is due in the directory of a subdir section.
IsRead(s) == Type[s] = "subdir" => ~newer[SubDir[s]]

Good(s) == LibraryComes(s) /\ ImportComes(s) /\ BinaryComes(s) /\ IsRead(s)

-----------------------------------------------------------------------------
(* What a call of build has done. *)

Passed(q, n) == {q[j] : j \in {i \in 1..Len(q) : i < n}}

ImportsMade(g) ==
  LET q == Default[conf[g.dir]] IN
  IF g.phase = "imports" THEN Passed(q, g.at) ELSE ToSet(q)

LibrariesMade(g) ==
  CASE g.phase = "libs" -> Passed(Wanted(g), g.at)
    [] g.phase \in {"bins", "end"} -> ToSet(Wanted(g))
    [] OTHER -> {}

BinariesMade(g) ==
  CASE g.phase = "bins" -> Passed(Wanted(g), g.at)
    [] g.phase = "end" -> ToSet(Wanted(g))
    [] OTHER -> {}

\* What build promises in call g, which waits for a call in a directory of D or,
\* when D is empty, is the innermost: of the sections it has passed all that they
\* reach is up to date, or will be when the calls it waits for and todo are done.
Claims(g, D) ==
  /\ ~newer[g.dir]
  /\ \A s \in ImportsMade(g) : ImportComes(s)
  /\ \A s \in LibrariesMade(g) :
       /\ LibraryComes(s)
       /\ Type[s] = "subdir" =>
            /\ IsRead(s) \/ SubDir[s] \in D
            /\ \A t \in Below(SubDir[s]) : (\E d \in D : t \in Below(d)) \/ Good(t)
  /\ \A s \in BinariesMade(g) : BinaryComes(s)

\* The directory of the call that call k waits for, if any.
WaitsFor(k) == {stack[i].dir : i \in {k + 1} \intersect 1..Len(stack)}

Promises ==
  \A k \in 1..Len(stack) :
    stack[k].op = "build" /\ stack[k].phase # "read" => Claims(stack[k], WaitsFor(k))

\* A call is the distclean of a call that is about to read, or is for the subdir
\* section that its caller has entered last.
CalledBy(g, h) ==
  /\ h.req = <<>>
  /\ \/ g.phase = "read" /\ h.op = "distclean" /\ h.dir = g.dir
     \/ /\ h.op = g.op /\ g.phase \in {"libs", "copy", "remove"}
        /\ g.at - 1 \in 1..Len(Secs(g)) /\ Type[Entered(g)] = "subdir"
        /\ h.dir = SubDir[Entered(g)]

\* The calls of a command: only a build waits for a build, and what is below the
\* directory of a nested call is below that of the call that waits for it.
Chained ==
  /\ Running => /\ stack[1].dir = Root /\ stack[1].req = cmd.req
                /\ IF cmd.op = "binstall" THEN stack[1].op \in {"build", "install"}
                                          ELSE stack[1].op = cmd.op
  /\ \A k \in 1..(Len(stack) - 1) : CalledBy(stack[k], stack[k + 1])
  /\ \A i, j \in 1..Len(stack) : i < j =>
       /\ stack[j].op \in {stack[i].op, "distclean"}
       /\ stack[j].op = "build" => stack[i].phase = "libs"
       /\ i > 1 => Below(stack[j].dir) \subseteq Below(stack[i].dir)

\* No import file is newer than its source.
NoneNewer ==
  \A s \in Sections :
    /\ tree[<<"di", s>>] # Absent => tree[<<"di", s>>].ed <= src[s]
    /\ \A i \in 1..Len(todo) : Writes(todo, i, <<"di", s>>) => todo[i].val.ed <= src[s]

-----------------------------------------------------------------------------
(* What is reached. *)

\* S has, with a subdir section, what is listed in its directory.
ClosedDown(S) ==
  \A t \in S : Type[t] = "subdir" => ToSet(Default[conf[SubDir[t]]]) \subseteq S

LEMMA ListOf ==
  ASSUME TypeInv, NEW d \in Dirs
  PROVE  /\ Default[conf[d]] \in Seq(Sections) /\ ToSet(Default[conf[d]]) \subseteq Sections
         /\ DOMAIN Default[conf[d]] = 1..Len(Default[conf[d]])
         /\ \A i \in 1..Len(Default[conf[d]]) : Default[conf[d]][i] \in Sections
         /\ Len(Default[conf[d]]) \in Nat
<1>1. Default[conf[d]] \in Seq(Sections)
  BY VarTypes, ConfOf
<1> QED
  BY <1>1, LenProperties, ElementOfSeq DEF ToSet

LEMMA SubDirIs ==
  ASSUME NEW s \in Sections, Type[s] = "subdir"
  PROVE  SubDir[s] \in Dirs
BY ProjectAssumption

LEMMA ReachedLeast ==
  ASSUME NEW q, NEW S \in SUBSET Sections, ToSet(q) \subseteq S, ClosedDown(S)
  PROVE  ReachedFrom(q) \subseteq S
BY DEF ReachedFrom, ClosedDown

LEMMA ReachedHas ==
  ASSUME TypeInv, NEW q, ToSet(q) \subseteq Sections
  PROVE  /\ ToSet(q) \subseteq ReachedFrom(q) /\ ReachedFrom(q) \in SUBSET Sections
         /\ ClosedDown(ReachedFrom(q))
<1>1. ToSet(q) \subseteq ReachedFrom(q) /\ ReachedFrom(q) \in SUBSET Sections
  BY DEF ReachedFrom
<1>2. ASSUME NEW t \in ReachedFrom(q), Type[t] = "subdir",
             NEW s \in ToSet(Default[conf[SubDir[t]]])
      PROVE  s \in ReachedFrom(q)
  <2>1. ASSUME NEW S \in SUBSET Sections, ToSet(q) \subseteq S, ClosedDown(S)
        PROVE  s \in S
    <3>1. t \in S
      BY <2>1, ReachedLeast, <1>2
    <3> QED
      BY <2>1, <3>1, <1>2 DEF ClosedDown
  <2>2. t \in Sections
    BY <1>1, <1>2
  <2>3. s \in Sections
    BY <1>2, <2>2, SubDirIs, ListOf
  <2> QED
    BY <2>1, <2>2, <2>3 DEF ReachedFrom, ClosedDown
<1> QED
  BY <1>1, <1>2 DEF ClosedDown

LEMMA BelowHas ==
  ASSUME TypeInv, NEW d \in Dirs
  PROVE  /\ ToSet(Default[conf[d]]) \subseteq Below(d) /\ Below(d) \in SUBSET Sections
         /\ ClosedDown(Below(d))
BY ListOf, ReachedHas DEF Below

\* A set that is closed has all that is below its subdir sections.
LEMMA ClosedBelow ==
  ASSUME NEW S \in SUBSET Sections, ClosedDown(S), NEW s \in S, Type[s] = "subdir"
  PROVE  Below(SubDir[s]) \subseteq S
BY ReachedLeast DEF Below, ClosedDown

\* What is reached is listed, or is below a subdir section that is.
LEMMA ReachedStep ==
  ASSUME TypeInv, NEW q, ToSet(q) \subseteq Sections, NEW t \in ReachedFrom(q)
  PROVE  \/ t \in ToSet(q)
         \/ \E s \in ToSet(q) : Type[s] = "subdir" /\ t \in Below(SubDir[s])
<1> DEFINE B == {r \in Sections : \E s \in ToSet(q) : Type[s] = "subdir" /\ r \in Below(SubDir[s])}
           S == ToSet(q) \union B
<1>1. ASSUME NEW r \in S, Type[r] = "subdir"
      PROVE  ToSet(Default[conf[SubDir[r]]]) \subseteq B
  <2>1. CASE r \in ToSet(q)
    <3>1. SubDir[r] \in Dirs
      BY <1>1, <2>1, SubDirIs
    <3>2. ToSet(Default[conf[SubDir[r]]]) \subseteq Below(SubDir[r])
          /\ Below(SubDir[r]) \subseteq Sections
      BY <3>1, BelowHas
    <3> QED
      BY <2>1, <1>1, <3>2
  <2>2. CASE r \in B
    <3>1. PICK s \in ToSet(q) : Type[s] = "subdir" /\ r \in Below(SubDir[s])
      BY <2>2
    <3>2. SubDir[s] \in Dirs
      BY <3>1, SubDirIs
    <3>3. ClosedDown(Below(SubDir[s])) /\ Below(SubDir[s]) \subseteq Sections
      BY <3>2, BelowHas
    <3>4. ToSet(Default[conf[SubDir[r]]]) \subseteq Below(SubDir[s])
      BY <3>1, <3>3, <1>1 DEF ClosedDown
    <3> QED
      BY <3>1, <3>3, <3>4
  <2> QED
    BY <2>1, <2>2, <1>1
<1>2. S \in SUBSET Sections /\ ToSet(q) \subseteq S
  OBVIOUS
<1>3. ClosedDown(S)
  BY <1>1 DEF ClosedDown
<1>4. t \in S
  <2> HIDE DEF S
  <2> QED
    BY <1>2, <1>3, ReachedLeast
<1> QED
  BY <1>4

\* The section is listed in its own directory.
LEMMA BelowListed ==
  ASSUME TypeInv, InTheirPlaces, NEW d \in Dirs, NEW t \in Below(d)
  PROVE  t \in Sections /\ t \in ToSet(Default[conf[Home[t]]])
<1> DEFINE S == {s \in Sections : s \in ToSet(Default[conf[Home[s]]])}
<1>1. \A e \in Dirs : ToSet(Default[conf[e]]) \subseteq S
  <2> SUFFICES ASSUME NEW e \in Dirs, NEW s \in ToSet(Default[conf[e]])
               PROVE  s \in S
    OBVIOUS
  <2>1. s \in Sections /\ conf[e] \in Confs[e]
    BY ListOf, VarTypes
  <2>2. Home[s] = e
    BY <2>1 DEF InTheirPlaces
  <2> QED
    BY <2>1, <2>2
<1>2. S \in SUBSET Sections
  OBVIOUS
<1>3. ClosedDown(S)
  <2> SUFFICES ASSUME NEW s \in S, Type[s] = "subdir"
               PROVE  ToSet(Default[conf[SubDir[s]]]) \subseteq S
    BY DEF ClosedDown
  <2>1. SubDir[s] \in Dirs
    BY SubDirIs
  <2> HIDE DEF S
  <2> QED
    BY <1>1, <2>1
<1>4. t \in S
  <2>1. ToSet(Default[conf[d]]) \subseteq S
    BY <1>1
  <2> HIDE DEF S
  <2> QED
    BY <1>2, <1>3, <2>1, ReachedLeast DEF Below
<1> QED
  BY <1>4

LEMMA SameReached ==
  ASSUME UNCHANGED conf
  PROVE  /\ \A q : ReachedFrom(q)' = ReachedFrom(q)
         /\ \A d : Below(d)' = Below(d)
         /\ \A s : TargetOf(s)' = TargetOf(s)
BY DEF ReachedFrom, Below, TargetOf

-----------------------------------------------------------------------------
(* What sequences of steps leave. *)

LEMMA ComesNow ==
  ASSUME todo = <<>>, NEW f, NEW v
  PROVE  Comes(f, v) <=> tree[f] = v
BY DEF Comes, Ends, Leaves

\* A step of the sequence brings what comes nearer.
LEMMA PutComes ==
  ASSUME TypeInv, PutFile, NEW f \in Files, NEW v, Comes(f, v)
  PROVE  Comes(f, v)'
<1> DEFINE n == Len(todo)
<1>1. /\ todo # <<>> /\ n \in Nat \ {0} /\ Head(todo) = todo[1] /\ todo' = Tail(todo)
      /\ Len(todo') = n - 1 /\ \A i \in 1..(n - 1) : todo'[i] = todo[i + 1]
  BY TodoIs DEF PutFile
<1>2. /\ Writes(todo, 1, f) => tree'[f] = todo[1].val
      /\ ~Writes(todo, 1, f) => tree'[f] = tree[f]
  BY <1>1, VarTypes DEF PutFile, Writes
<1>3. \A i \in 1..(n - 1) : Writes(todo', i, f) <=> Writes(todo, i + 1, f)
  BY <1>1 DEF Writes
<1>4. CASE Leaves(todo, f) /\ tree[f] = v
  <2>1. ~Writes(todo, 1, f) /\ \A i \in 1..(n - 1) : ~Writes(todo, i + 1, f)
    BY <1>1, <1>4 DEF Leaves
  <2>2. Leaves(todo', f) /\ tree'[f] = v
    BY <1>1, <1>2, <1>3, <1>4, <2>1 DEF Leaves
  <2> QED
    BY <2>2 DEF Comes, Leaves, Writes
<1>5. CASE Ends(todo, f, v)
  <2>1. PICK i \in 1..n : /\ Writes(todo, i, f) /\ todo[i].val = v
                          /\ \A j \in (i + 1)..n : ~Writes(todo, j, f)
    BY <1>5 DEF Ends
  <2>2. CASE i = 1
    <3>1. tree'[f] = v
      BY <1>2, <2>1, <2>2
    <3>2. \A j \in 1..(n - 1) : ~Writes(todo, j + 1, f)
      BY <1>1, <2>1, <2>2
    <3>3. Leaves(todo', f)
      BY <1>1, <1>3, <3>2 DEF Leaves
    <3> QED
      BY <3>1, <3>3 DEF Comes, Leaves, Writes
  <2>3. CASE i # 1
    <3>1. i - 1 \in 1..(n - 1) /\ i - 1 + 1 = i /\ \A j \in ((i - 1) + 1)..(n - 1) : j + 1 \in (i + 1)..n
      BY <1>1, <2>3
    <3>2. Writes(todo', i - 1, f) /\ todo'[i - 1].val = v
      BY <1>1, <1>3, <2>1, <3>1
    <3>3. \A j \in ((i - 1) + 1)..(n - 1) : ~Writes(todo', j, f)
      BY <1>1, <1>3, <2>1, <3>1
    <3>4. Ends(todo', f, v)
      BY <1>1, <3>1, <3>2, <3>3 DEF Ends
    <3> QED
      BY <3>4 DEF Comes, Ends, Writes
  <2> QED
    BY <2>2, <2>3
<1> QED
  BY <1>4, <1>5 DEF Comes

\* Sequences one after the other.
LEMMA JoinLeaves ==
  ASSUME NEW q \in Seq(Steps), NEW r \in Seq(Steps), NEW f
  PROVE  /\ Leaves(q, f) /\ Leaves(r, f) => Leaves(q \o r, f)
         /\ \A v : Ends(r, f, v) => Ends(q \o r, f, v)
         /\ \A v : Ends(q, f, v) /\ Leaves(r, f) => Ends(q \o r, f, v)
<1> DEFINE m == Len(q)
           n == Len(r)
           w == q \o r
<1>1. /\ w \in Seq(Steps) /\ Len(w) = m + n /\ m \in Nat /\ n \in Nat
      /\ \A i \in 1..m : w[i] = q[i]
      /\ \A i \in 1..n : w[m + i] = r[i]
  BY ConcatProperties, LenProperties
<1>2. \A i \in 1..(m + n) : i \in 1..m \/ (i - m \in 1..n /\ m + (i - m) = i)
  BY <1>1
<1>3. /\ \A i \in 1..m : Writes(w, i, f) <=> Writes(q, i, f)
      /\ \A i \in (m + 1)..(m + n) : Writes(w, i, f) <=> Writes(r, i - m, f)
  <2>1. \A i \in (m + 1)..(m + n) : i - m \in 1..n /\ m + (i - m) = i
    BY <1>1
  <2> HIDE DEF w, m, n
  <2> QED
    BY <1>1, <2>1 DEF Writes
<1> HIDE DEF w
<1>4. Leaves(q, f) /\ Leaves(r, f) => Leaves(w, f)
  <2> SUFFICES ASSUME Leaves(q, f), Leaves(r, f), NEW i \in 1..(m + n)
               PROVE  ~Writes(w, i, f)
    BY <1>1 DEF Leaves
  <2>1. CASE i \in 1..m
    BY <2>1, <1>3 DEF Leaves
  <2>2. CASE i \notin 1..m
    <3>1. i \in (m + 1)..(m + n) /\ i - m \in 1..n
      BY <1>1, <2>2
    <3> QED
      BY <3>1, <1>3 DEF Leaves
  <2> QED
    BY <2>1, <2>2
<1>5. ASSUME NEW v, Ends(r, f, v)
      PROVE  Ends(w, f, v)
  <2>1. PICK i \in 1..n : /\ Writes(r, i, f) /\ r[i].val = v
                          /\ \A j \in (i + 1)..n : ~Writes(r, j, f)
    BY <1>5 DEF Ends
  <2>2. /\ m + i \in 1..(m + n) /\ m + i \in (m + 1)..(m + n) /\ (m + i) - m = i
        /\ \A j \in ((m + i) + 1)..(m + n) : j \in (m + 1)..(m + n) /\ j - m \in (i + 1)..n
    BY <1>1
  <2>3. Writes(w, m + i, f) /\ w[m + i].val = v
    BY <1>1, <1>3, <2>1, <2>2
  <2>4. \A j \in ((m + i) + 1)..(m + n) : ~Writes(w, j, f)
    BY <1>3, <2>1, <2>2
  <2> QED
    BY <1>1, <2>2, <2>3, <2>4 DEF Ends
<1>6. ASSUME NEW v, Ends(q, f, v), Leaves(r, f)
      PROVE  Ends(w, f, v)
  <2>1. PICK i \in 1..m : /\ Writes(q, i, f) /\ q[i].val = v
                          /\ \A j \in (i + 1)..m : ~Writes(q, j, f)
    BY <1>6 DEF Ends
  <2>2. i \in 1..(m + n) /\ Writes(w, i, f) /\ w[i].val = v
    BY <1>1, <1>3, <2>1
  <2>3. ASSUME NEW j \in (i + 1)..(m + n)
        PROVE  ~Writes(w, j, f)
    <3>1. CASE j \in (i + 1)..m
      <4>1. j \in 1..m
        BY <3>1, <1>1
      <4> QED
        BY <3>1, <4>1, <1>3, <2>1
    <3>2. CASE j \notin (i + 1)..m
      <4>1. j \in (m + 1)..(m + n) /\ j - m \in 1..n
        BY <3>2, <1>1
      <4> QED
        BY <4>1, <1>3, <1>6 DEF Leaves
    <3> QED
      BY <3>1, <3>2
  <2> QED
    BY <1>1, <2>2, <2>3 DEF Ends
<1> QED
  BY <1>4, <1>5, <1>6 DEF w

LEMMA OneEnds ==
  ASSUME NEW f \in Files, NEW v \in Content \union {Absent, Stub}
  PROVE  /\ <<Put("tree", f, v)>> \in Seq(Steps) /\ Ends(<<Put("tree", f, v)>>, f, v)
         /\ \A g : g # f => Leaves(<<Put("tree", f, v)>>, g)
<1> DEFINE q == <<Put("tree", f, v)>>
<1>1. q \in Seq(Steps) /\ Len(q) = 1 /\ q[1] = Put("tree", f, v)
  BY PutStep
<1> HIDE DEF q
<1>2. Ends(q, f, v) /\ \A g : g # f => Leaves(q, g)
  BY <1>1 DEF Ends, Leaves, Writes, Put
<1> QED
  BY <1>1, <1>2 DEF q

LEMMA MakeEnds ==
  ASSUME NEW f \in Files, NEW v \in Content
  PROVE  /\ Make(f, v) \in Seq(Steps) /\ Ends(Make(f, v), f, v)
         /\ \A g : g # f => Leaves(Make(f, v), g)
<1> DEFINE q == Make(f, v)
<1>1. q \in Seq(Steps) /\ Len(q) = 2 /\ q[1] = Put("tree", f, Absent) /\ q[2] = Put("tree", f, v)
  BY MadeSteps
<1> HIDE DEF q
<1>2. Ends(q, f, v) /\ \A g : g # f => Leaves(q, g)
  BY <1>1 DEF Ends, Leaves, Writes, Put
<1> QED
  BY <1>1, <1>2 DEF q

LEMMA NothingLeaves == <<>> \in Seq(Steps) /\ \A f : Leaves(<<>>, f)
BY DEF Leaves

LEMMA BuildLibraryEnds ==
  ASSUME NEW s \in Sections, NEW t \in Targets, NEW k \in {"lib", "dbg"}, NEW v \in Content
  PROVE  LET q == BuildLibrary(s, t, k, v) IN
         /\ q \in Seq(Steps) /\ Ends(q, <<k, t>>, v)
         /\ s \in Shared => Ends(q, <<"so", t>>, v)
         /\ \A g : g \notin {<<k, t>>, <<"so", t>>} => Leaves(q, g)
<1> DEFINE a == Make(<<k, t>>, v)
           b == IF s \in Shared THEN Make(<<"so", t>>, v) ELSE <<>>
<1>1. /\ <<k, t>> \in Files /\ <<"so", t>> \in Files /\ <<k, t>> # <<"so", t>>
  BY FileNames
<1>2. /\ a \in Seq(Steps) /\ Ends(a, <<k, t>>, v) /\ \A g : g # <<k, t>> => Leaves(a, g)
  BY <1>1, MakeEnds
<1>3. /\ b \in Seq(Steps) /\ s \in Shared => Ends(b, <<"so", t>>, v)
  BY <1>1, MakeEnds, NothingLeaves
<1>4. \A g : g # <<"so", t>> => Leaves(b, g)
  BY <1>1, MakeEnds, NothingLeaves
<1>5. b \in Seq(Steps)
  BY <1>1, MakeEnds, NothingLeaves
<1>6. BuildLibrary(s, t, k, v) = a \o b
  BY DEF BuildLibrary
<1>7. a \o b \in Seq(Steps)
  BY <1>2, <1>5, ConcatProperties
<1> HIDE DEF a, b
<1>8. Ends(a \o b, <<k, t>>, v)
  BY <1>1, <1>2, <1>4, <1>5, JoinLeaves
<1>9. s \in Shared => Ends(a \o b, <<"so", t>>, v)
  BY <1>2, <1>3, <1>5, JoinLeaves
<1>10. ASSUME NEW g, g \notin {<<k, t>>, <<"so", t>>}
       PROVE  Leaves(a \o b, g)
  <2>1. Leaves(a, g) /\ Leaves(b, g)
    BY <1>2, <1>4, <1>10
  <2> QED
    BY <1>2, <1>5, <2>1, JoinLeaves
<1> QED
  BY <1>6, <1>7, <1>8, <1>9, <1>10

LEMMA LibraryEnds ==
  ASSUME TypeInv, NEW s \in Sections, NEW t \in Targets
  PROVE  LET q == LibraryPlan(s, t)
             made(b) == [ed |-> src[s], dbg |-> b, of |-> t] IN
         /\ Built(s) => /\ Ends(q, <<"lib", t>>, made(FALSE))
                        /\ s \in Shared => Ends(q, <<"so", t>>, made(FALSE))
                        /\ cmd.dbg => Ends(q, <<"dbg", t>>, made(TRUE))
         /\ \A g : ~Built(s) \/ g \notin {<<"lib", t>>, <<"so", t>>, <<"dbg", t>>} => Leaves(q, g)
<1> DEFINE made(b) == [ed |-> src[s], dbg |-> b, of |-> t]
           d == IF cmd.dbg THEN BuildLibrary(s, t, "dbg", made(TRUE)) ELSE <<>>
           l == BuildLibrary(s, t, "lib", made(FALSE))
<1>1. CASE ~Built(s)
  <2>1. LibraryPlan(s, t) = <<>>
    BY <1>1 DEF Built, LibraryPlan
  <2> QED
    BY <1>1, <2>1, NothingLeaves
<1>2. CASE Built(s)
  <2>1. LibraryPlan(s, t) = d \o l
    BY <1>2 DEF Built, LibraryPlan
  <2>2. made(TRUE) \in Content /\ made(FALSE) \in Content
    BY VarTypes, MadeOf
  <2>3. /\ l \in Seq(Steps) /\ Ends(l, <<"lib", t>>, made(FALSE))
        /\ s \in Shared => Ends(l, <<"so", t>>, made(FALSE))
        /\ \A g : g \notin {<<"lib", t>>, <<"so", t>>} => Leaves(l, g)
    <3> HIDE DEF made
    <3> QED
      BY <2>2, BuildLibraryEnds
  <2>4. d \in Seq(Steps) /\ (cmd.dbg => Ends(d, <<"dbg", t>>, made(TRUE)))
    <3> HIDE DEF made
    <3> QED
      BY <2>2, BuildLibraryEnds, NothingLeaves
  <2>5. \A g : g \notin {<<"dbg", t>>, <<"so", t>>} => Leaves(d, g)
    <3> HIDE DEF made
    <3> QED
      BY <2>2, BuildLibraryEnds, NothingLeaves
  <2> HIDE DEF d, l, made
  <2>6. /\ Ends(d \o l, <<"lib", t>>, made(FALSE))
        /\ s \in Shared => Ends(d \o l, <<"so", t>>, made(FALSE))
    BY <2>3, <2>4, JoinLeaves
  <2>7. cmd.dbg => Ends(d \o l, <<"dbg", t>>, made(TRUE))
    <3>1. Leaves(l, <<"dbg", t>>)
      BY <2>3
    <3> QED
      BY <2>3, <2>4, <3>1, JoinLeaves
  <2>8. \A g : g \notin {<<"lib", t>>, <<"so", t>>, <<"dbg", t>>} => Leaves(d \o l, g)
    BY <2>3, <2>4, <2>5, JoinLeaves
  <2> QED
    BY <1>2, <2>1, <2>6, <2>7, <2>8 DEF made
<1> QED
  BY <1>1, <1>2

LEMMA BinaryEnds ==
  ASSUME TypeInv, NEW s \in Sections, NEW t \in Targets
  PROVE  LET q == BinaryPlan(s, t) IN
         /\ Type[s] = "binary" =>
              Ends(q, <<"bin", t>>, [ed |-> src[s], dbg |-> cmd.dbg, of |-> t])
         /\ \A g : Type[s] # "binary" \/ g # <<"bin", t>> => Leaves(q, g)
<1>1. [ed |-> src[s], dbg |-> cmd.dbg, of |-> t] \in Content /\ <<"bin", t>> \in Files
  BY VarTypes, MadeOf, FileNames DEF Commands
<1> DEFINE v == [ed |-> src[s], dbg |-> cmd.dbg, of |-> t]
<1>2. BinaryPlan(s, t) = IF Type[s] = "binary" THEN <<Put("tree", <<"bin", t>>, v)>> ELSE <<>>
  BY DEF BinaryPlan
<1> HIDE DEF v
<1>3. /\ Ends(<<Put("tree", <<"bin", t>>, v)>>, <<"bin", t>>, v)
      /\ \A g : g # <<"bin", t>> => Leaves(<<Put("tree", <<"bin", t>>, v)>>, g)
  BY <1>1, OneEnds DEF v
<1> QED
  BY <1>2, <1>3, NothingLeaves DEF v

\* Only imports that are missing or old are written.
LEMMA ImportEnds ==
  ASSUME TypeInv, NEW s \in Sections, NEW t \in Targets
  PROVE  LET q == ImportPlan(s, t)
             f == <<"di", s>> IN
         /\ \/ ~Built(s) \/ ~(tree[f] = Absent \/ src[s] > tree[f].ed)
            \/ Ends(q, f, [ed |-> src[s], dbg |-> cmd.dbg, of |-> t])
         /\ ~(tree[f] = Absent \/ src[s] > tree[f].ed) => Leaves(q, f)
         /\ \A g : g # f => Leaves(q, g)
<1> DEFINE v == [ed |-> src[s], dbg |-> cmd.dbg, of |-> t]
           f == <<"di", s>>
           b == Built(s) /\ (tree[f] = Absent \/ src[s] > tree[f].ed)
<1>1. v \in Content /\ f \in Files
  BY VarTypes, MadeOf, FileNames DEF Commands
<1>2. ImportPlan(s, t) = IF b THEN <<Put("tree", f, v)>> ELSE <<>>
  BY DEF ImportPlan, Built
<1> HIDE DEF v, f
<1>3. Ends(<<Put("tree", f, v)>>, f, v) /\ \A g : g # f => Leaves(<<Put("tree", f, v)>>, g)
  BY <1>1, OneEnds
<1> QED
  BY <1>2, <1>3, NothingLeaves DEF v, f

LEMMA StubLeaves ==
  ASSUME NEW s \in Sections, NEW t \in Targets, NEW g, g[1] # "so", g[1] # "ln"
  PROVE  Leaves(StubPlan(s, t), g)
<1> DEFINE x == Put("tree", <<"so", t>>, Stub)
           y == Put("tree", <<"ln", t>>, Link(t))
<1>1. x.file # g /\ y.file # g
  BY DEF Put
<1>2. StubPlan(s, t) \in {<<x, y>>, <<>>}
  BY DEF StubPlan
<1> HIDE DEF x, y
<1>3. Len(<<x, y>>) = 2 /\ \A i \in 1..2 : <<x, y>>[i] \in {x, y}
  OBVIOUS
<1>4. Leaves(<<x, y>>, g)
  BY <1>1, <1>3 DEF Leaves, Writes
<1> QED
  BY <1>2, <1>4, NothingLeaves

-----------------------------------------------------------------------------
(* How calls come and go. *)

LEMMA EnterSubdirStack ==
  ASSUME TypeInv, EnterSubdir
  PROVE  LET n == Len(stack) IN
         /\ Running /\ todo = <<>> /\ todo' = <<>>
         /\ UNCHANGED <<src, conf, last, newer, tree, prefix, cmd>>
         /\ n \in Nat \ {0} /\ Top = stack[n] /\ Top \in Calls /\ Fits(Top)
         /\ Top.phase \in {"libs", "copy", "remove"} /\ Top.phase \in PhasesOf(Top.op)
         /\ Top.at \in 1..Len(Secs(Top)) /\ Current = Secs(Top)[Top.at]
         /\ Current \in Sections /\ Type[Current] = "subdir" /\ SubDir[Current] \in Dirs
         /\ Len(stack') = n + 1 /\ \A k \in 1..(n - 1) : stack'[k] = stack[k]
         /\ stack'[n].op = Top.op /\ stack'[n].dir = Top.dir /\ stack'[n].req = Top.req
         /\ stack'[n].phase = Top.phase /\ stack'[n].conf = Top.conf
         /\ stack'[n].at = Top.at + 1
         /\ stack'[n + 1] = Call(Top.op, SubDir[Current], <<>>)
<1> DEFINE n == Len(stack)
           s == At(Top.phase, Top.at + 1)
           g == Call(Top.op, SubDir[Current], <<>>)
<1>1. /\ InLoop /\ Recurses /\ Type[Current] = "subdir" /\ SubDir[Current] \in Dirs
      /\ Moved(stack, s, Top.phase, Top.at + 1, Top.conf)
      /\ stack' = Append(s, g) /\ s \in Seq(Calls)
  BY EnterSubdirMoves
<1> HIDE DEF s, g
<1>2. /\ Running /\ todo = <<>> /\ Top \in Calls /\ Fits(Top) /\ Top.phase \in PhasesOf(Top.op)
      /\ Top.at \in 1..Len(Secs(Top)) /\ Current = Secs(Top)[Top.at] /\ Current \in Sections
      /\ n \in Nat \ {0} /\ Top = stack[n]
  BY <1>1, LoopCall, TopCall
<1>3. /\ Len(s) = n /\ (\A k \in 1..(n - 1) : s[k] = stack[k])
      /\ s[n].op = Top.op /\ s[n].dir = Top.dir /\ s[n].req = Top.req
      /\ s[n].phase = Top.phase /\ s[n].conf = Top.conf /\ s[n].at = Top.at + 1
  BY <1>1, <1>2 DEF Moved, TopIs
<1>4. /\ Len(stack') = n + 1 /\ (\A k \in 1..(n - 1) : stack'[k] = stack[k])
      /\ stack'[n] = s[n] /\ stack'[n + 1] = g
  BY <1>1, <1>2, <1>3
<1>5. todo' = <<>> /\ UNCHANGED <<src, conf, last, newer, tree, prefix, cmd>>
  BY <1>2 DEF EnterSubdir, userVars
<1>6. Top.phase \in {"libs", "copy", "remove"}
  BY <1>1 DEF Recurses
<1> QED
  BY <1>1, <1>2, <1>3, <1>4, <1>5, <1>6 DEF g

LEMMA ConfigChangedStack ==
  ASSUME TypeInv, ConfigChanged
  PROVE  LET n == Len(stack) IN
         /\ Running /\ todo = <<>> /\ todo' = <<>>
         /\ UNCHANGED <<src, conf, last, newer, tree, prefix, cmd>>
         /\ n \in Nat \ {0} /\ Top = stack[n] /\ Top \in Calls /\ Top.dir \in Dirs
         /\ Top.phase = "read" /\ newer[Top.dir]
         /\ Len(stack') = n + 1 /\ \A k \in 1..n : stack'[k] = stack[k]
         /\ stack'[n + 1].op = "distclean" /\ stack'[n + 1].dir = Top.dir
         /\ stack'[n + 1].req = <<>> /\ stack'[n + 1].phase = "clean"
<1> DEFINE n == Len(stack)
           r == Call("distclean", Top.dir, <<>>)
           g == [r EXCEPT !.conf = conf[Top.dir], !.phase = "clean"]
<1>1. Running /\ Top.phase = "read" /\ stack' = Append(stack, g) /\ todo' = todo
      /\ newer[Top.dir] /\ UNCHANGED <<src, conf, last, newer, tree, prefix, cmd>>
  BY DEF ConfigChanged, userVars
<1>2. stack \in Seq(Calls) /\ n \in Nat \ {0} /\ Top = stack[n] /\ Top \in Calls /\ Top.dir \in Dirs
  BY <1>1, TopCall DEF Calls
<1>3. todo = <<>>
  BY <1>1 DEF TypeInv, Shape, Doing, Loops
<1>4. r \in Calls /\ r.op = "distclean" /\ r.dir = Top.dir /\ r.req = <<>>
  BY <1>2, CallFits DEF Call
<1> HIDE DEF r
<1>5. g.op = "distclean" /\ g.dir = Top.dir /\ g.req = <<>> /\ g.phase = "clean"
  BY <1>4 DEF Calls
<1> HIDE DEF g
<1>6. Len(stack') = n + 1 /\ stack'[n + 1] = g /\ \A k \in 1..n : stack'[k] = stack[k]
  BY <1>1, <1>2
<1> QED
  BY <1>1, <1>2, <1>3, <1>5, <1>6

\* A step that moves the innermost call and makes or ends none.
Stays ==
  /\ Len(stack') = Len(stack) /\ \A k \in 1..(Len(stack) - 1) : stack'[k] = stack[k]
  /\ Top' = stack'[Len(stack)]
  /\ Top'.op = Top.op /\ Top'.dir = Top.dir /\ Top'.req = Top.req

LEMMA ReadConfigStays ==
  ASSUME TypeInv, ReadConfig
  PROVE  Stays /\ Top'.phase = FirstPhase(Top.op) /\ Top'.at = 1
<1> DEFINE p == FirstPhase(Top.op)
           c == conf[Top.dir]
<1>1. Running /\ p \in PhasesOf(Top.op) /\ Moved(stack, stack', p, 1, c)
  BY ReadConfigMoves
<1>2. p # "read" => c = conf[Top.dir]
  OBVIOUS
<1> HIDE DEF p, c
<1>3. Stays /\ Top'.phase = p /\ Top'.at = 1
  BY <1>1, <1>2, MovedTop DEF Stays
<1> QED
  BY <1>3 DEF p

LEMMA EnterSectionStays ==
  ASSUME TypeInv, EnterSection
  PROVE  /\ Stays /\ Top'.phase = Top.phase /\ Top'.at = Top.at + 1
         /\ Top'.conf = Top.conf
<1>1. InLoop /\ Moved(stack, stack', Top.phase, Top.at + 1, Top.conf)
  BY EnterSectionMoves
<1>2. Running /\ Top.phase \in PhasesOf(Top.op) /\ Top.at + 1 \in Nat \ {0} /\ Top.conf = conf[Top.dir]
  BY <1>1, LoopCall
<1> QED
  BY <1>1, <1>2, MovedTop DEF Stays

LEMMA EndLoopStays ==
  ASSUME TypeInv, EndLoop
  PROVE  /\ Stays /\ Top'.phase = NextPhase(Top.phase) /\ Top'.at = 1
         /\ Top'.conf = Top.conf
<1> DEFINE p == NextPhase(Top.phase)
<1>1. /\ Running /\ Moved(stack, stack', p, 1, Top.conf)
      /\ p \in PhasesOf(Top.op) /\ Top.conf = conf[Top.dir]
  BY EndLoopMoves
<1> HIDE DEF p
<1>2. Stays /\ Top'.phase = p /\ Top'.at = 1 /\ Top'.conf = Top.conf
  BY <1>1, MovedTop DEF Stays
<1> QED
  BY <1>2 DEF p

LEMMA CleanFirstStays ==
  ASSUME TypeInv, CleanFirst
  PROVE  Stays /\ Top'.phase = "remove"
<1>1. /\ Running /\ Moved(stack, stack', "remove", 1, Top.conf)
      /\ "remove" \in PhasesOf(Top.op) /\ Top.conf = conf[Top.dir]
  BY CleanFirstMoves
<1> QED
  BY <1>1, MovedTop DEF Stays

LEMMA ReturnStack ==
  ASSUME TypeInv, Running, NEW ret \in {0, 1}, Return(ret), Top.phase = "end" \/ InLoop
  PROVE  LET n == Len(stack)
             then == n = 1 /\ cmd.op = "binstall" /\ Top.op = "build" /\ ret = 0 IN
         /\ todo = <<>> /\ todo' = <<>> /\ UNCHANGED <<src, conf, newer, tree, cut, prefix>>
         /\ n \in Nat \ {0} /\ Top = stack[n] /\ Top \in Calls /\ Top.dir \in Dirs
         /\ then => /\ Len(stack') = 1 /\ stack'[1] = Call("install", Root, cmd.req)
                    /\ cmd' = cmd
         /\ ~then => /\ Len(stack') = n - 1 /\ \A k \in 1..(n - 1) : stack'[k] = stack[k]
                     /\ n > 1 => cmd' = cmd
                     /\ n = 1 => cmd' = [cmd EXCEPT !.state = IF ret = 0 THEN "ok" ELSE "error"]
<1> DEFINE n == Len(stack)
           then == n = 1 /\ cmd.op = "binstall" /\ Top.op = "build" /\ ret = 0
<1>1. /\ todo = <<>> /\ Top \in Calls /\ Top.dir \in Dirs /\ n \in Nat \ {0}
      /\ Popped(stack, Front(stack)) /\ Top = stack[n]
  BY ReturnWhen, TopCall
<1>2. todo' = <<>> /\ UNCHANGED <<src, conf, newer, tree, cut, prefix>>
  BY <1>1 DEF Return, userVars
<1>3. CASE then
  <2>1. stack' = <<Call("install", Root, cmd.req)>> /\ cmd' = cmd
    BY <1>3 DEF Return
  <2> QED
    BY <1>1, <1>2, <1>3, <2>1
<1>4. CASE ~then
  <2>1. stack' = Front(stack)
        /\ cmd' = IF n > 1 THEN cmd ELSE [cmd EXCEPT !.state = IF ret = 0 THEN "ok" ELSE "error"]
    BY <1>4 DEF Return
  <2> QED
    BY <1>1, <1>2, <1>4, <2>1 DEF Popped
<1> QED
  BY <1>3, <1>4

-----------------------------------------------------------------------------
(* Chained is inductive. *)

LEMMA NoCallChained ==
  ASSUME Len(stack') \in {0, 1},
         Running' => /\ stack'[1].dir = Root /\ stack'[1].req = cmd'.req
                     /\ IF cmd'.op = "binstall" THEN stack'[1].op \in {"build", "install"}
                                                ELSE stack'[1].op = cmd'.op
  PROVE  Chained'
BY DEF Chained

LEMMA ChainedNext ==
  ASSUME UNCHANGED conf,
         Running' => /\ stack'[1].dir = Root /\ stack'[1].req = cmd'.req
                     /\ IF cmd'.op = "binstall" THEN stack'[1].op \in {"build", "install"}
                                                ELSE stack'[1].op = cmd'.op,
         \A k \in 1..(Len(stack') - 1) : CalledBy(stack'[k], stack'[k + 1]),
         \A i, j \in 1..Len(stack') : i < j =>
           /\ stack'[j].op \in {stack'[i].op, "distclean"}
           /\ stack'[j].op = "build" => stack'[i].phase = "libs"
           /\ i > 1 => Below(stack'[j].dir) \subseteq Below(stack'[i].dir)
  PROVE  Chained'
<1>1. \A k : Below(stack[k].dir)' = Below(stack'[k].dir)
  BY DEF Below, ReachedFrom
<1>2. (\A k \in 1..(Len(stack) - 1) : CalledBy(stack[k], stack[k + 1]))'
  BY DEF CalledBy, Secs, Entered
<1>3. (\A i, j \in 1..Len(stack) : i < j =>
         /\ stack[j].op \in {stack[i].op, "distclean"}
         /\ stack[j].op = "build" => stack[i].phase = "libs"
         /\ i > 1 => Below(stack[j].dir) \subseteq Below(stack[i].dir))'
  <2> SUFFICES ASSUME NEW i \in 1..Len(stack'), NEW j \in 1..Len(stack'), i < j
               PROVE  /\ stack'[j].op \in {stack'[i].op, "distclean"}
                      /\ stack'[j].op = "build" => stack'[i].phase = "libs"
                      /\ i > 1 => Below(stack[j].dir)' \subseteq Below(stack[i].dir)'
    OBVIOUS
  <2>1. /\ Below(stack[i].dir)' = Below(stack'[i].dir)
        /\ Below(stack[j].dir)' = Below(stack'[j].dir)
    BY <1>1
  <2>2. /\ stack'[j].op \in {stack'[i].op, "distclean"}
        /\ stack'[j].op = "build" => stack'[i].phase = "libs"
    OBVIOUS
  <2>3. i > 1 => Below(stack'[j].dir) \subseteq Below(stack'[i].dir)
    OBVIOUS
  <2>4. i > 1 => Below(stack[j].dir)' \subseteq Below(stack[i].dir)'
    <3> SUFFICES ASSUME i > 1
                 PROVE  Below(stack[j].dir)' \subseteq Below(stack[i].dir)'
      OBVIOUS
    <3>1. Below(stack'[j].dir) \subseteq Below(stack'[i].dir)
      BY <2>3
    <3> QED
      BY <2>1, <3>1
  <2> QED
    BY <2>2, <2>4
<1>4. (Running => /\ stack[1].dir = Root /\ stack[1].req = cmd.req
                  /\ IF cmd.op = "binstall" THEN stack[1].op \in {"build", "install"}
                                            ELSE stack[1].op = cmd.op)'
  OBVIOUS
<1> QED
  BY <1>2, <1>3, <1>4 DEF Chained

LEMMA StaysChained ==
  ASSUME TypeInv, Chained, Running, Stays, UNCHANGED <<conf, cmd>>
  PROVE  Chained'
<1> DEFINE n == Len(stack)
<1>1. n \in Nat \ {0} /\ Top = stack[n]
  BY TopCall
<1>2. \A k \in 1..n : k \in 1..(n - 1) \/ k = n
  BY <1>1
<1>3. \A k \in 1..n : /\ stack'[k].op = stack[k].op /\ stack'[k].dir = stack[k].dir
                      /\ stack'[k].req = stack[k].req
  BY <1>1, <1>2 DEF Stays
<1>4. 1 \in 1..n /\ \A i, j \in 1..n : i < j => i \in 1..(n - 1)
  BY <1>1
<1>5. Running' => /\ stack'[1].dir = Root /\ stack'[1].req = cmd'.req
                  /\ IF cmd'.op = "binstall" THEN stack'[1].op \in {"build", "install"}
                                             ELSE stack'[1].op = cmd'.op
  BY <1>3, <1>4 DEF Chained
<1>6. \A k \in 1..(n - 1) : CalledBy(stack'[k], stack'[k + 1])
  <2> SUFFICES ASSUME NEW k \in 1..(n - 1)
               PROVE  CalledBy(stack'[k], stack'[k + 1])
    OBVIOUS
  <2>1. k + 1 \in 1..n /\ stack'[k] = stack[k] /\ CalledBy(stack[k], stack[k + 1])
    BY <1>1 DEF Chained, Stays
  <2> QED
    BY <1>3, <2>1 DEF CalledBy
<1>7. \A i, j \in 1..n : i < j =>
        /\ stack'[j].op \in {stack'[i].op, "distclean"}
        /\ stack'[j].op = "build" => stack'[i].phase = "libs"
        /\ i > 1 => Below(stack'[j].dir) \subseteq Below(stack'[i].dir)
  <2> SUFFICES ASSUME NEW i \in 1..n, NEW j \in 1..n, i < j
               PROVE  /\ stack'[j].op \in {stack'[i].op, "distclean"}
                      /\ stack'[j].op = "build" => stack'[i].phase = "libs"
                      /\ i > 1 => Below(stack'[j].dir) \subseteq Below(stack'[i].dir)
    OBVIOUS
  <2>1. stack'[i] = stack[i]
    BY <1>4 DEF Stays
  <2>2. stack'[j].op = stack[j].op /\ stack'[j].dir = stack[j].dir
    BY <1>3
  <2> QED
    BY <2>1, <2>2 DEF Chained
<1>8. Len(stack') = n
  BY DEF Stays
<1> QED
  BY <1>5, <1>6, <1>7, <1>8, ChainedNext

LEMMA PushChained ==
  ASSUME TypeInv, Chained, Running, UNCHANGED <<conf, cmd>>,
         Len(stack') = Len(stack) + 1,
         \A k \in 1..(Len(stack) - 1) : stack'[k] = stack[k],
         stack'[Len(stack)].op = Top.op, stack'[Len(stack)].dir = Top.dir,
         stack'[Len(stack)].req = Top.req, stack'[Len(stack)].phase = Top.phase,
         CalledBy(stack'[Len(stack)], stack'[Len(stack) + 1]),
         stack'[Len(stack) + 1].op \in {Top.op, "distclean"},
         stack'[Len(stack) + 1].op = "build" => Top.phase = "libs",
         Len(stack) > 1 => Below(stack'[Len(stack) + 1].dir) \subseteq Below(Top.dir)
  PROVE  Chained'
<1> DEFINE n == Len(stack)
           g == stack'[n + 1]
<1>1. n \in Nat \ {0} /\ Top = stack[n] /\ n + 1 \in Nat /\ Len(stack') = n + 1
  BY TopCall
<1>2. \A k \in 1..n : k \in 1..(n - 1) \/ k = n
  BY <1>1
<1>3. \A k \in 1..n : /\ stack'[k].op = stack[k].op /\ stack'[k].dir = stack[k].dir
                      /\ stack'[k].req = stack[k].req /\ stack'[k].phase = stack[k].phase
  BY <1>1, <1>2
<1>4. 1 \in 1..n
  BY <1>1
<1>5. Running' => /\ stack'[1].dir = Root /\ stack'[1].req = cmd'.req
                  /\ IF cmd'.op = "binstall" THEN stack'[1].op \in {"build", "install"}
                                             ELSE stack'[1].op = cmd'.op
  BY <1>3, <1>4 DEF Chained
<1>6. \A k \in 1..n : CalledBy(stack'[k], stack'[k + 1])
  <2> SUFFICES ASSUME NEW k \in 1..(n - 1)
               PROVE  CalledBy(stack'[k], stack'[k + 1])
    BY <1>2
  <2>1. k + 1 \in 1..n /\ stack'[k] = stack[k] /\ CalledBy(stack[k], stack[k + 1])
    BY <1>1 DEF Chained
  <2> QED
    BY <1>3, <2>1 DEF CalledBy
<1> DEFINE Under(a, b, i) ==
             /\ b.op \in {a.op, "distclean"}
             /\ b.op = "build" => a.phase = "libs"
             /\ i > 1 => Below(b.dir) \subseteq Below(a.dir)
<1>7. \A i, j \in 1..(n + 1) : i < j => Under(stack'[i], stack'[j], i)
  <2> SUFFICES ASSUME NEW i \in 1..(n + 1), NEW j \in 1..(n + 1), i < j
               PROVE  Under(stack'[i], stack'[j], i)
    BY Zenon
  <2>1. i \in 1..n /\ (j \in 1..n \/ j = n + 1)
    BY <1>1
  <2>2. CASE j \in 1..n
    <3>1. Under(stack[i], stack[j], i)
      BY <2>1, <2>2 DEF Chained
    <3> QED
      BY <1>3, <2>1, <2>2, <3>1
  <2>3. CASE j = n + 1 /\ i = n
    BY <1>3, <1>1, <2>1, <2>3
  <2>4. CASE j = n + 1 /\ i # n
    <3>1. i < n /\ n \in 1..n /\ (i > 1 => n > 1)
      BY <1>1, <2>1, <2>4
    <3>2. Under(stack[i], Top, i)
      BY <1>1, <2>1, <3>1 DEF Chained
    <3>3. Under(stack[i], g, i)
      BY <3>1, <3>2
    <3> QED
      BY <1>3, <2>1, <2>4, <3>3
  <2> QED
    BY <2>1, <2>2, <2>3, <2>4
<1>8. \A k \in 1..(Len(stack') - 1) : CalledBy(stack'[k], stack'[k + 1])
  BY <1>1, <1>6
<1> HIDE DEF n, g
<1>9. \A i, j \in 1..Len(stack') : i < j =>
        /\ stack'[j].op \in {stack'[i].op, "distclean"}
        /\ stack'[j].op = "build" => stack'[i].phase = "libs"
        /\ i > 1 => Below(stack'[j].dir) \subseteq Below(stack'[i].dir)
  BY <1>1, <1>7
<1> QED
  BY <1>5, <1>8, <1>9, ChainedNext

LEMMA EnterSubdirChained ==
  ASSUME TypeInv, Chained, EnterSubdir
  PROVE  Chained'
<1> DEFINE n == Len(stack)
           g == Call(Top.op, SubDir[Current], <<>>)
<1>1. /\ Running /\ UNCHANGED <<conf, cmd>> /\ n \in Nat \ {0} /\ Top = stack[n] /\ Top \in Calls
      /\ Fits(Top) /\ Top.phase \in {"libs", "copy", "remove"} /\ Top.phase \in PhasesOf(Top.op)
      /\ Top.at \in 1..Len(Secs(Top)) /\ Current = Secs(Top)[Top.at]
      /\ Current \in Sections /\ Type[Current] = "subdir" /\ SubDir[Current] \in Dirs
      /\ Len(stack') = n + 1 /\ \A k \in 1..(n - 1) : stack'[k] = stack[k]
      /\ stack'[n].op = Top.op /\ stack'[n].dir = Top.dir /\ stack'[n].req = Top.req
      /\ stack'[n].phase = Top.phase /\ stack'[n].conf = Top.conf
      /\ stack'[n].at = Top.at + 1 /\ stack'[n + 1] = g
  BY EnterSubdirStack
<1>2. g.op = Top.op /\ g.dir = SubDir[Current] /\ g.req = <<>>
  BY DEF Call
<1> HIDE DEF g
<1>3. Secs(stack'[n]) = Secs(Top)
  BY <1>1 DEF Secs
<1>4. Top.at \in Nat /\ Top.at + 1 - 1 = Top.at
  BY <1>1 DEF Calls
<1>5. Entered(stack'[n]) = Current
  BY <1>1, <1>3, <1>4 DEF Entered
<1>6. CalledBy(stack'[n], stack'[n + 1])
  BY <1>1, <1>2, <1>3, <1>4, <1>5 DEF CalledBy
<1>7. stack'[n + 1].op = "build" => Top.phase = "libs"
  BY <1>1, <1>2 DEF PhasesOf
<1>8. ASSUME n > 1
      PROVE  Below(g.dir) \subseteq Below(Top.dir)
  <2>1. n - 1 \in 1..(n - 1) /\ n - 1 + 1 = n
    BY <1>1, <1>8
  <2>2. CalledBy(stack[n - 1], stack[n])
    BY <2>1 DEF Chained
  <2>3. Top.req = <<>>
    BY <1>1, <2>2 DEF CalledBy
  <2>4. Top.conf = conf[Top.dir] /\ Top.dir \in Dirs
    BY <1>1 DEF Fits, Calls
  <2>5. Secs(Top) = Default[conf[Top.dir]]
    BY <2>3, <2>4 DEF Secs
  <2>6. Current \in ToSet(Default[conf[Top.dir]])
    <3>1. DOMAIN Default[conf[Top.dir]] = 1..Len(Default[conf[Top.dir]])
      BY <2>4, ListOf
    <3> QED
      BY <1>1, <2>5, <3>1 DEF ToSet
  <2>7. Current \in Below(Top.dir) /\ Below(Top.dir) \in SUBSET Sections /\ ClosedDown(Below(Top.dir))
    BY <2>4, <2>6, BelowHas
  <2> QED
    BY <1>1, <1>2, <2>7, ClosedBelow
<1> QED
  BY <1>1, <1>2, <1>6, <1>7, <1>8, PushChained

LEMMA ConfigChangedChained ==
  ASSUME TypeInv, Chained, ConfigChanged
  PROVE  Chained'
<1> DEFINE n == Len(stack)
<1>1. /\ Running /\ UNCHANGED <<conf, cmd>> /\ n \in Nat \ {0} /\ Top = stack[n]
      /\ Top.phase = "read" /\ Len(stack') = n + 1 /\ \A k \in 1..n : stack'[k] = stack[k]
      /\ stack'[n + 1].op = "distclean" /\ stack'[n + 1].dir = Top.dir
      /\ stack'[n + 1].req = <<>>
  BY ConfigChangedStack
<1>2. n \in 1..n /\ \A k \in 1..(n - 1) : k \in 1..n
  BY <1>1
<1>3. stack'[n] = Top /\ \A k \in 1..(n - 1) : stack'[k] = stack[k]
  BY <1>1, <1>2
<1>4. CalledBy(stack'[n], stack'[n + 1])
  BY <1>1, <1>3 DEF CalledBy
<1> QED
  BY <1>1, <1>3, <1>4, PushChained

LEMMA ReturnChained ==
  ASSUME TypeInv, Chained, Running, NEW ret \in {0, 1}, Return(ret), Top.phase = "end" \/ InLoop
  PROVE  Chained'
<1> DEFINE n == Len(stack)
           then == n = 1 /\ cmd.op = "binstall" /\ Top.op = "build" /\ ret = 0
<1>1. /\ n \in Nat \ {0} /\ Top = stack[n] /\ UNCHANGED conf
      /\ then => /\ Len(stack') = 1 /\ stack'[1] = Call("install", Root, cmd.req)
                 /\ cmd' = cmd
      /\ ~then => /\ Len(stack') = n - 1 /\ \A k \in 1..(n - 1) : stack'[k] = stack[k]
                  /\ n > 1 => cmd' = cmd
                  /\ n = 1 => cmd' = [cmd EXCEPT !.state = IF ret = 0 THEN "ok" ELSE "error"]
  BY ReturnStack
<1> HIDE DEF n
<1>2. CASE then
  BY <1>1, <1>2, NoCallChained DEF Call
<1>3. CASE ~then /\ n = 1
  <2>1. ~Running'
    BY <1>1, <1>3, VarTypes DEF Running, Commands
  <2> QED
    BY <1>1, <1>3, <2>1, NoCallChained
<1>4. CASE ~then /\ n # 1
  <2>1. Len(stack') = n - 1 /\ cmd' = cmd /\ \A k \in 1..(n - 1) : stack'[k] = stack[k]
    BY <1>1, <1>4
  <2>2. 1 \in 1..(n - 1) /\ \A k \in 1..(n - 1) : k \in 1..n
    BY <1>1, <1>4
  <2>3. Running' => /\ stack'[1].dir = Root /\ stack'[1].req = cmd'.req
                    /\ IF cmd'.op = "binstall" THEN stack'[1].op \in {"build", "install"}
                                               ELSE stack'[1].op = cmd'.op
    BY <2>1, <2>2 DEF Chained
  <2>4. \A k \in 1..(n - 2) : CalledBy(stack'[k], stack'[k + 1])
    <3> SUFFICES ASSUME NEW k \in 1..(n - 2)
                 PROVE  CalledBy(stack'[k], stack'[k + 1])
      OBVIOUS
    <3>1. k \in 1..(n - 1) /\ k + 1 \in 1..(n - 1)
      BY <1>1
    <3> QED
      BY <2>1, <3>1 DEF Chained, n
  <2>5. \A i, j \in 1..(n - 1) : i < j =>
          /\ stack'[j].op \in {stack'[i].op, "distclean"}
          /\ stack'[j].op = "build" => stack'[i].phase = "libs"
          /\ i > 1 => Below(stack'[j].dir) \subseteq Below(stack'[i].dir)
    BY <2>1, <2>2 DEF Chained, n
  <2>6. Len(stack') - 1 = n - 2
    BY <1>1, <2>1
  <2> QED
    BY <1>1, <2>1, <2>3, <2>4, <2>5, <2>6, ChainedNext
<1> QED
  BY <1>2, <1>3, <1>4

LEMMA StepChained ==
  ASSUME TypeInv, Chained, [Next]_vars
  PROVE  Chained'
<1>1. CASE \/ \E s \in Sections : EditSource(s)
           \/ \E d \in Dirs : \E c \in Confs[d] : EditConf(d, c)
           \/ Clean
  <2>1. ~Running /\ stack' = stack
    BY <1>1 DEF EditSource, EditConf, Clean
  <2>2. cmd'.state # "running"
    BY <1>1, NoCommandType, CleanCommand DEF EditSource, EditConf
  <2> QED
    BY <2>1, <2>2, NoCalls, NoCallChained DEF Running
<1>2. CASE \E op \in {"build", "install", "binstall", "distclean"} : \E r, b : Give(op, r, b)
  BY <1>2, NoCallChained DEF Give, Call
<1>3. CASE Die \/ DieWriting \/ CopyFails
  <2>1. stack' = <<>> /\ cmd'.state = "died"
    BY <1>3, VarTypes DEF Die, DieWriting, CopyFails, Commands
  <2> QED
    BY <2>1, NoCallChained DEF Running
<1>4. CASE Returns \/ Refuse
  BY <1>4, ReturnChained DEF Returns, Refuse, InLoop, Looping
<1>5. CASE ReadConfig
  BY <1>5, ReadConfigStays, StaysChained DEF ReadConfig, userVars
<1>6. CASE EnterSection
  BY <1>6, EnterSectionStays, StaysChained DEF EnterSection, userVars, InLoop, Looping
<1>7. CASE EndLoop
  BY <1>7, EndLoopStays, StaysChained DEF EndLoop, userVars, Looping
<1>8. CASE CleanFirst
  BY <1>8, CleanFirstStays, StaysChained DEF CleanFirst, userVars
<1>9. CASE PutFile
  <2>1. Running /\ UNCHANGED <<conf, cmd, stack>>
    BY <1>9 DEF PutFile, userVars
  <2> QED
    BY <2>1, StaysChained DEF Stays, Top
<1>10. CASE UNCHANGED vars
  <2>1. UNCHANGED <<conf, cmd, stack>>
    BY <1>10 DEF vars
  <2>2. Running' = Running
    BY <2>1 DEF Running
  <2>3. CASE Running
    BY <2>1, <2>3, StaysChained DEF Stays, Top
  <2>4. CASE ~Running
    BY <2>1, <2>2, <2>4, NoCalls, NoCallChained
  <2> QED
    BY <2>3, <2>4
<1> QED
  BY <1>1, <1>2, <1>3, <1>4, <1>5, <1>6, <1>7, <1>8, <1>9, <1>10, EnterSubdirChained,
     ConfigChangedChained DEF Next, User, Work

-----------------------------------------------------------------------------
(* What a section's plan leaves alone. *)

LEMMA PlanLeaves ==
  ASSUME TypeInv, NEW s \in Sections, NEW t \in Targets, NEW p \in Loops, NEW g,
         g \notin FilesOf(s, t) \/ p = "copy" \/ (p = "remove" /\ g[1] = "di")
  PROVE  Leaves(Plan(p, s, t), g)
<1> DEFINE q == Plan(p, s, t)
           S == StepsOf(cmd.dbg, p, s, t)
<1>1. q \in Seq(S)
  BY PlanSteps
<1>2. \A x \in S : /\ x.file \in FilesOf(s, t)
                   /\ p = "copy" => x.where # "tree"
                   /\ p = "remove" => x.file[1] # "di"
  BY DEF StepsOf
<1> HIDE DEF q, S
<1>3. \A i \in 1..Len(q) : q[i] \in S
  BY <1>1
<1>4. \A i \in 1..Len(q) : ~Writes(q, i, g)
  BY <1>2, <1>3 DEF Writes
<1> QED
  BY <1>4 DEF Leaves, q

\* Only build's first loop writes an import, and no other section's.
LEMMA PlanImports ==
  ASSUME TypeInv, NEW s \in Sections, NEW t \in Targets, NEW p \in Loops, NEW r \in Sections,
         p # "imports" \/ r # s
  PROVE  Leaves(Plan(p, s, t), <<"di", r>>)
<1> DEFINE f == <<"di", r>>
<1>1. f[1] = "di" /\ f \in Files /\ f \notin {<<"lib", t>>, <<"so", t>>, <<"dbg", t>>, <<"bin", t>>}
  BY FileNames
<1>2. r # s => f \notin FilesOf(s, t)
  BY <1>1 DEF FilesOf
<1> HIDE DEF f
<1>3. CASE r # s \/ p \in {"copy", "remove"}
  BY <1>1, <1>2, <1>3, PlanLeaves DEF f
<1>4. CASE p = "stubs"
  BY <1>1, <1>4, StubLeaves DEF Plan, f
<1>5. CASE p = "libs"
  BY <1>1, <1>5, LibraryEnds DEF Plan, f
<1>6. CASE p = "bins"
  BY <1>1, <1>6, BinaryEnds DEF Plan, f
<1> QED
  BY <1>3, <1>4, <1>5, <1>6 DEF Loops

LEMMA ImportWrites ==
  ASSUME TypeInv, NEW s \in Sections, NEW t \in Targets, NEW i \in 1..Len(ImportPlan(s, t))
  PROVE  ImportPlan(s, t)[i].val.ed = src[s]
<1> DEFINE x == Put("tree", <<"di", s>>, [ed |-> src[s], dbg |-> cmd.dbg, of |-> t])
<1>1. x.val.ed = src[s]
  BY DEF Put
<1>2. ImportPlan(s, t) \in {<<x>>, <<>>}
  BY DEF ImportPlan
<1> HIDE DEF x
<1>3. Len(<<x>>) = 1 /\ <<x>>[1] = x /\ Len(<<>>) = 0
  OBVIOUS
<1> QED
  BY <1>1, <1>2, <1>3

-----------------------------------------------------------------------------
(* NoneNewer is inductive. *)

\* A step that writes no import.
LEMMA IdleNoneNewer ==
  ASSUME NoneNewer, todo' = <<>>, \A s \in Sections : src'[s] >= src[s],
         src \in [Sections -> Nat], src' \in [Sections -> Nat],
         \A s \in Sections : tree[<<"di", s>>] # Absent => tree[<<"di", s>>].ed \in Nat,
         \A s \in Sections : tree'[<<"di", s>>] \in {tree[<<"di", s>>], Absent}
  PROVE  NoneNewer'
<1>1. ASSUME NEW s \in Sections, tree'[<<"di", s>>] # Absent
      PROVE  tree'[<<"di", s>>].ed <= src'[s]
  <2>1. tree'[<<"di", s>>] = tree[<<"di", s>>] /\ tree[<<"di", s>>].ed <= src[s]
    BY <1>1 DEF NoneNewer
  <2> QED
    BY <1>1, <2>1
<1>2. \A i \in 1..Len(todo') : FALSE
  OBVIOUS
<1> QED
  BY <1>1, <1>2 DEF NoneNewer

LEMMA EnterSectionNoneNewer ==
  ASSUME TypeInv, NoneNewer, EnterSection
  PROVE  NoneNewer'
<1> DEFINE t == Target[Top.conf][Current]
<1>1. /\ InLoop /\ todo' = Plan(Top.phase, Current, t) /\ UNCHANGED <<src, tree>>
  BY DEF EnterSection, userVars
<1>2. Top.phase \in Loops /\ Current \in Sections /\ t \in Targets
  BY <1>1, LoopCall
<1> HIDE DEF t
<1>3. ASSUME NEW s \in Sections, NEW i \in 1..Len(todo'), Writes(todo', i, <<"di", s>>)
      PROVE  todo'[i].val.ed <= src[s]
  <2>1. Top.phase = "imports" /\ s = Current
    BY <1>1, <1>2, <1>3, PlanImports DEF Leaves
  <2>2. todo' = ImportPlan(Current, t)
    BY <1>1, <2>1 DEF Plan
  <2>3. todo'[i].val.ed = src[s]
    BY <1>2, <1>3, <2>1, <2>2, ImportWrites
  <2> QED
    BY <2>3, VarTypes
<1> QED
  BY <1>1, <1>3 DEF NoneNewer, Writes

LEMMA PutFileNoneNewer ==
  ASSUME TypeInv, NoneNewer, PutFile
  PROVE  NoneNewer'
<1> DEFINE n == Len(todo)
<1>1. /\ todo # <<>> /\ n \in Nat \ {0} /\ Head(todo) = todo[1] /\ todo' = Tail(todo)
      /\ Len(todo') = n - 1 /\ \A i \in 1..(n - 1) : todo'[i] = todo[i + 1] /\ i + 1 \in 1..n
      /\ UNCHANGED src
  BY TodoIs DEF PutFile, userVars
<1> SUFFICES ASSUME NEW s \in Sections
             PROVE  /\ tree'[<<"di", s>>] # Absent => tree'[<<"di", s>>].ed <= src[s]
                    /\ \A i \in 1..(n - 1) : Writes(todo', i, <<"di", s>>) => todo'[i].val.ed <= src[s]
  BY <1>1 DEF NoneNewer, Writes
<1>2. \A i \in 1..(n - 1) : Writes(todo', i, <<"di", s>>) => todo'[i].val.ed <= src[s]
  BY <1>1 DEF NoneNewer, Writes
<1>3. /\ Writes(todo, 1, <<"di", s>>) => tree'[<<"di", s>>] = todo[1].val
      /\ ~Writes(todo, 1, <<"di", s>>) => tree'[<<"di", s>>] = tree[<<"di", s>>]
  BY <1>1, VarTypes, FileNames DEF PutFile, Writes
<1>4. 1 \in 1..n
  BY <1>1
<1> QED
  BY <1>2, <1>3, <1>4 DEF NoneNewer

LEMMA StepNoneNewer ==
  ASSUME TypeInv, Configured, NoneNewer, [Next]_vars
  PROVE  NoneNewer'
<1>1. TypeInv'
  BY StepTypes
<1>2. src \in [Sections -> Nat] /\ src' \in [Sections -> Nat]
  BY <1>1 DEF TypeInv, Shape
<1>3. \A s \in Sections : tree[<<"di", s>>] # Absent => tree[<<"di", s>>].ed \in Nat
  BY DEF Configured, Content
<1>4. CASE User
  <2>1. ~Running /\ UNCHANGED todo
    BY <1>4 DEF User, EditSource, EditConf, Give, Clean
  <2>2. \A s \in Sections : src'[s] >= src[s]
    BY <1>4, <1>2 DEF User, EditSource, EditConf, Give, Clean, userVars
  <2>3. \A s \in Sections : tree'[<<"di", s>>] \in {tree[<<"di", s>>], Absent}
    BY <1>4, FileNames DEF User, EditSource, EditConf, Give, Clean, WithoutImports
  <2> QED
    BY <1>2, <1>3, <2>1, <2>2, <2>3, NoCalls, IdleNoneNewer
<1>5. CASE CleanFirst
  <2>1. todo' = <<>> /\ UNCHANGED src
    BY <1>5, CleanFirstMoves DEF CleanFirst, userVars
  <2>2. \A s \in Sections : tree'[<<"di", s>>] \in {tree[<<"di", s>>], Absent}
    BY <1>5, FileNames DEF CleanFirst, WithoutImports
  <2> QED
    BY <1>2, <1>3, <2>1, <2>2, IdleNoneNewer
<1>6. CASE UNCHANGED <<src, tree>> /\ todo' = <<>>
  BY <1>2, <1>3, <1>6, IdleNoneNewer
<1>7. CASE ConfigChanged
  BY <1>6, <1>7, ConfigChangedStack
<1>8. CASE EnterSubdir
  BY <1>6, <1>8, EnterSubdirStack
<1>9. CASE ReadConfig
  BY <1>6, <1>9, ReadConfigMoves DEF ReadConfig, userVars
<1>10. CASE EndLoop
  BY <1>6, <1>10 DEF EndLoop, Looping, userVars
<1>11. CASE Returns \/ Refuse
  BY <1>6, <1>11, ReturnStack DEF Returns, Refuse, InLoop, Looping
<1>12. CASE CopyFails \/ Die
  BY <1>6, <1>12 DEF CopyFails, Die, userVars
<1>13. CASE DieWriting
  <2> DEFINE x == Head(todo)
  <2>1. /\ todo # <<>> /\ x = todo[1] /\ 1 \in 1..Len(todo) /\ x.where = "tree" /\ x.file \in Files
        /\ tree' = [tree EXCEPT ![x.file] = x.val] /\ UNCHANGED src /\ Len(todo') = 0
    BY <1>13, TodoIs DEF DieWriting, userVars, Steps
  <2> HIDE DEF x
  <2>2. \A s \in Sections : x.file = <<"di", s>> /\ x.val # Absent => x.val.ed <= src[s]
    BY <2>1 DEF NoneNewer, Writes
  <2>3. \A s \in Sections : tree'[<<"di", s>>] # Absent => tree'[<<"di", s>>].ed <= src'[s]
    BY <2>1, <2>2, VarTypes, FileNames DEF NoneNewer
  <2>4. \A i : i \notin 1..Len(todo')
    BY <2>1
  <2> QED
    BY <2>3, <2>4 DEF NoneNewer
<1>14. CASE UNCHANGED vars
  BY <1>14 DEF vars, NoneNewer, Writes
<1> QED
  BY <1>4, <1>5, <1>7, <1>8, <1>9, <1>10, <1>11, <1>12, <1>13, <1>14, EnterSectionNoneNewer,
     PutFileNoneNewer DEF Next, Work

-----------------------------------------------------------------------------
(* What a step of a command leaves of what has come, or comes. *)

Later(f, v) == Ends(todo', f, v) \/ (Leaves(todo', f) /\ tree'[f] = v)

LibraryLater(s) ==
  LET t == TargetOf(s) IN
  Built(s) => /\ Later(<<"lib", t>>, Edition(s, FALSE))
              /\ s \in Shared => Later(<<"so", t>>, Edition(s, FALSE))
              /\ cmd.dbg => Later(<<"dbg", t>>, Edition(s, TRUE))

ImportLater(s) ==
  Built(s) => \E b \in BOOLEAN : Later(<<"di", s>>, Edition(s, b))

BinaryLater(s) ==
  Type[s] = "binary" => \E b \in BOOLEAN : Later(<<"bin", TargetOf(s)>>, Edition(s, b))

LEMMA NextComes ==
  ASSUME UNCHANGED <<src, conf>>, cmd'.dbg = cmd.dbg, NEW s \in Sections
  PROVE  /\ LibraryComes(s)' <=> LibraryLater(s)
         /\ ImportComes(s)' <=> ImportLater(s)
         /\ BinaryComes(s)' <=> BinaryLater(s)
<1>1. LibraryComes(s)' <=> LibraryLater(s)
  BY DEF LibraryComes, LibraryLater, Comes, Later, Edition, TargetOf, Built
<1>2. ImportComes(s)' <=> ImportLater(s)
  BY DEF ImportComes, ImportLater, Comes, Later, Edition, TargetOf, Built
<1>3. BinaryComes(s)' <=> BinaryLater(s)
  BY DEF BinaryComes, BinaryLater, Comes, Later, Edition, TargetOf
<1> QED
  BY <1>1, <1>2, <1>3

\* A step that keeps what comes in a section's files keeps what is claimed of it.
LEMMA FilesKept ==
  ASSUME TypeInv, NEW s \in Sections,
         \A f \in FilesOf(s, TargetOf(s)) : \A v : Comes(f, v) => Later(f, v)
  PROVE  /\ LibraryComes(s) => LibraryLater(s)
         /\ ImportComes(s) => ImportLater(s)
         /\ BinaryComes(s) => BinaryLater(s)
<1> DEFINE t == TargetOf(s)
<1>1. t \in Targets
  BY VarTypes, ConfOf, ProjectAssumption DEF TargetOf
<1> HIDE DEF t
<1>2. <<"di", s>> \in FilesOf(s, t) /\ \A k \in Kinds : <<k, t>> \in FilesOf(s, t)
  BY <1>1, FilesOfSection
<1>3. \A k \in Kinds : \A v : Comes(<<k, t>>, v) => Later(<<k, t>>, v)
  BY <1>2 DEF t
<1>4. \A v : Comes(<<"di", s>>, v) => Later(<<"di", s>>, v)
  BY <1>2 DEF t
<1>5. {"lib", "so", "dbg", "bin"} \subseteq Kinds
  BY DEF Kinds
<1>6. LibraryComes(s) => LibraryLater(s)
  BY <1>3, <1>5 DEF LibraryComes, LibraryLater, t
<1>7. ImportComes(s) => ImportLater(s)
  BY <1>4 DEF ImportComes, ImportLater
<1>8. BinaryComes(s) => BinaryLater(s)
  BY <1>3, <1>5 DEF BinaryComes, BinaryLater, t
<1> QED
  BY <1>6, <1>7, <1>8

LEMMA TargetIs ==
  ASSUME TypeInv, NEW s \in Sections
  PROVE  /\ TargetOf(s) \in Targets /\ Home[s] \in Dirs /\ conf[Home[s]] \in Confs[Home[s]]
         /\ TargetOf(s) = Target[conf[Home[s]]][s]
BY VarTypes, ConfOf, ProjectAssumption DEF TargetOf

LEMMA SameTarget ==
  ASSUME TypeInv, TargetsApart, OwnTargets, NEW r \in Sections, NEW s \in Sections,
         TargetOf(r) = TargetOf(s),
         (Built(r) /\ Built(s)) \/ (Type[r] = "binary" /\ Type[s] = "binary")
  PROVE  r = s
<1>1. Home[r] = Home[s]
  BY TargetIs DEF TargetsApart
<1> QED
  BY <1>1, TargetIs DEF OwnTargets

\* The section that a call comes to is of its directory.
LEMMA EnterHome ==
  ASSUME TypeInv, InTheirPlaces, EnterSection
  PROVE  LET s == Current IN
         /\ InLoop /\ Running /\ todo = <<>> /\ s \in Sections /\ Home[s] = Top.dir
         /\ todo' = Plan(Top.phase, s, TargetOf(s)) /\ TargetOf(s) \in Targets
         /\ Top \in Calls /\ Fits(Top) /\ Top.dir \in Dirs
         /\ Top.phase \in Loops /\ Top.phase \in PhasesOf(Top.op)
         /\ UNCHANGED <<src, conf, last, newer, tree, prefix, cmd>>
<1>1. /\ InLoop /\ todo' = Plan(Top.phase, Current, Target[Top.conf][Current])
      /\ UNCHANGED <<src, conf, last, newer, tree, prefix, cmd>>
  BY DEF EnterSection, userVars
<1>2. /\ Running /\ todo = <<>> /\ Top \in Calls /\ Fits(Top) /\ Top.dir \in Dirs
      /\ Top.conf = conf[Top.dir]
      /\ Top.phase \in Loops /\ Top.phase # "read" /\ Top.phase \in PhasesOf(Top.op)
      /\ Top.at \in 1..Len(Secs(Top)) /\ Current = Secs(Top)[Top.at] /\ Current \in Sections
  BY <1>1, LoopCall
<1>3. Home[Current] = Top.dir
  BY <1>2, HomeOf
<1>4. TargetOf(Current) = Target[Top.conf][Current]
  BY <1>2, <1>3 DEF TargetOf
<1> QED
  BY <1>1, <1>2, <1>3, <1>4, TargetIs

LEMMA LeavesLater ==
  ASSUME todo = <<>>, UNCHANGED tree, NEW f, Leaves(todo', f), NEW v, Comes(f, v)
  PROVE  Later(f, v)
BY ComesNow DEF Later

\* Whatever a call enters, sections of other directories keep what they have.
LEMMA EnterKeepsOthers ==
  ASSUME TypeInv, InTheirPlaces, TargetsApart, EnterSection, NEW r \in Sections,
         Home[r] # Top.dir \/ Top.op = "install"
  PROVE  /\ LibraryComes(r) => LibraryLater(r)
         /\ ImportComes(r) => ImportLater(r)
         /\ BinaryComes(r) => BinaryLater(r)
<1> DEFINE s == Current
<1>1. /\ todo = <<>> /\ s \in Sections /\ Home[s] = Top.dir
      /\ todo' = Plan(Top.phase, s, TargetOf(s)) /\ TargetOf(s) \in Targets
      /\ Top.phase \in Loops /\ Top.phase \in PhasesOf(Top.op) /\ tree' = tree
  BY EnterHome
<1> HIDE DEF s
<1>2. Top.op = "install" => Top.phase = "copy"
  BY <1>1 DEF PhasesOf, Loops
<1>3. ASSUME NEW f \in FilesOf(r, TargetOf(r)), Home[r] # Top.dir
      PROVE  f \notin FilesOf(s, TargetOf(s))
  <2>1. TargetOf(r) # TargetOf(s)
    BY <1>1, <1>3, TargetIs DEF TargetsApart
  <2>2. r # s
    BY <1>1, <1>3
  <2> QED
    BY <1>3, <2>1, <2>2 DEF FilesOf
<1>4. \A f \in FilesOf(r, TargetOf(r)) : Leaves(todo', f)
  BY <1>1, <1>2, <1>3, PlanLeaves
<1> QED
  BY <1>1, <1>4, LeavesLater, FilesKept

\* What build enters in its first loop it brings up to date: an import that is
\* there and not older is of the section's target, for dsss.last is dsss.conf.
LEMMA ImportEntered ==
  ASSUME TypeInv, InTheirPlaces, Configured, NoneNewer, EnterSection,
         Top.phase = "imports", ~newer[Top.dir]
  PROVE  ImportLater(Current)
<1> DEFINE s == Current
           t == TargetOf(s)
           f == <<"di", s>>
           old == tree[f] = Absent \/ src[s] > tree[f].ed
<1>1. /\ todo = <<>> /\ s \in Sections /\ Home[s] = Top.dir /\ Top.dir \in Dirs
      /\ todo' = Plan(Top.phase, s, t) /\ t \in Targets /\ tree' = tree
  BY EnterHome
<1>2. todo' = ImportPlan(s, t)
  BY <1>1 DEF Plan
<1> SUFFICES ASSUME Built(s)
             PROVE  \E b \in BOOLEAN : Later(f, Edition(s, b))
  BY DEF ImportLater
<1> HIDE DEF s, t
<1>3. cmd.dbg \in BOOLEAN /\ src[s] \in Nat
  BY <1>1, VarTypes DEF Commands
<1>4. CASE old
  <2>1. Ends(todo', f, [ed |-> src[s], dbg |-> cmd.dbg, of |-> t])
    BY <1>1, <1>2, <1>4, ImportEnds
  <2> QED
    BY <1>3, <2>1 DEF Later, Edition, t
<1>5. CASE ~old
  <2>1. Leaves(todo', f)
    BY <1>1, <1>2, <1>5, ImportEnds
  <2>2. /\ tree[f] \in Content /\ last[Top.dir] # NoConf
        /\ tree[f].of = Target[last[Top.dir]][s]
    BY <1>1, <1>5 DEF Configured
  <2>3. last[Top.dir] = conf[Top.dir]
    BY <1>1, <2>2 DEF Configured
  <2>4. tree[f].of = t
    BY <1>1, <2>2, <2>3 DEF TargetOf, t
  <2>5. tree[f].ed \in Nat /\ tree[f].ed <= src[s] /\ ~(src[s] > tree[f].ed)
    BY <1>1, <1>5, <2>2 DEF NoneNewer, Content
  <2>6. tree[f].ed = src[s]
    BY <1>3, <2>5
  <2>7. tree[f] = Edition(s, tree[f].dbg) /\ tree[f].dbg \in BOOLEAN
    BY <2>2, <2>4, <2>6 DEF Edition, Content, t
  <2> QED
    BY <1>1, <2>1, <2>7 DEF Later
<1> QED
  BY <1>4, <1>5

LEMMA LibraryEntered ==
  ASSUME TypeInv, InTheirPlaces, EnterSection, Top.phase = "libs"
  PROVE  LibraryLater(Current)
<1> DEFINE s == Current
           t == TargetOf(s)
<1>1. /\ s \in Sections /\ todo' = Plan(Top.phase, s, t) /\ t \in Targets
  BY EnterHome
<1>2. todo' = LibraryPlan(s, t)
  BY <1>1 DEF Plan
<1> HIDE DEF s
<1>3. Built(s) => /\ Ends(todo', <<"lib", t>>, Edition(s, FALSE))
                  /\ s \in Shared => Ends(todo', <<"so", t>>, Edition(s, FALSE))
                  /\ cmd.dbg => Ends(todo', <<"dbg", t>>, Edition(s, TRUE))
  BY <1>1, <1>2, LibraryEnds DEF Edition
<1> QED
  BY <1>3 DEF LibraryLater, Later, s

LEMMA BinaryEntered ==
  ASSUME TypeInv, InTheirPlaces, EnterSection, Top.phase = "bins"
  PROVE  BinaryLater(Current)
<1> DEFINE s == Current
           t == TargetOf(s)
<1>1. /\ s \in Sections /\ todo' = Plan(Top.phase, s, t) /\ t \in Targets
  BY EnterHome
<1>2. todo' = BinaryPlan(s, t)
  BY <1>1 DEF Plan
<1>3. cmd.dbg \in BOOLEAN
  BY VarTypes DEF Commands
<1> HIDE DEF s
<1>4. Type[s] = "binary" => Ends(todo', <<"bin", t>>, Edition(s, cmd.dbg))
  BY <1>1, <1>2, BinaryEnds DEF Edition
<1> QED
  BY <1>3, <1>4 DEF BinaryLater, Later, s

\* No other plan of build writes a library but a stub where there is none.
LEMMA BuildKeepsLibraries ==
  ASSUME TypeInv, InTheirPlaces, TargetsApart, OwnTargets, EnterSection, Top.op = "build",
         NEW r \in Sections, LibraryComes(r)
  PROVE  LibraryLater(r)
<1> DEFINE s == Current
           t == TargetOf(s)
           u == TargetOf(r)
<1>1. /\ todo = <<>> /\ s \in Sections /\ Home[s] = Top.dir
      /\ todo' = Plan(Top.phase, s, t) /\ t \in Targets
      /\ Top.phase \in Loops /\ Top.phase \in PhasesOf(Top.op) /\ tree' = tree
  BY EnterHome
<1>2. Top.phase \in {"imports", "stubs", "libs", "bins"}
  BY <1>1 DEF PhasesOf, Loops
<1> SUFFICES ASSUME Built(r), NEW k \in {"lib", "so", "dbg"}, NEW v,
                    Comes(<<k, u>>, v), v = Edition(r, TRUE) \/ v = Edition(r, FALSE),
                    Top.phase # "libs" \/ s # r
             PROVE  Later(<<k, u>>, v)
  <2>1. CASE Top.phase = "libs" /\ s = r
    BY <2>1, LibraryEntered
  <2>2. CASE Top.phase # "libs" \/ s # r
    BY <2>2 DEF LibraryComes, LibraryLater
  <2> QED
    BY <2>1, <2>2
<1>3. u \in Targets /\ src[r] \in Nat
  BY TargetIs, VarTypes
<1>4. v # Absent
  BY <1>3, MadeOf DEF Edition
<1>5. tree[<<k, u>>] = v
  BY <1>1, ComesNow
<1>6. Leaves(todo', <<k, u>>)
  <2> HIDE DEF s, t, u
  <2> DEFINE f == <<k, u>>
  <2>1. f[1] = k /\ f[2] = u /\ k \notin {"di", "bin"} /\ f # <<"di", s>> /\ f # <<"bin", t>>
    OBVIOUS
  <2> HIDE DEF f
  <2>2. CASE Top.phase = "imports"
    BY <1>1, <2>1, <2>2, ImportEnds DEF Plan, f
  <2>3. CASE Top.phase = "bins"
    BY <1>1, <2>1, <2>3, BinaryEnds DEF Plan, f
  <2>4. CASE u # t
    <3>1. f \notin FilesOf(s, t)
      BY <2>1, <2>4 DEF FilesOf
    <3> QED
      BY <1>1, <3>1, PlanLeaves DEF f
  <2>5. CASE Top.phase = "libs" /\ u = t
    <3>1. ~Built(s)
      BY <1>1, <2>5, SameTarget DEF t, u
    <3> QED
      BY <1>1, <2>5, <3>1, LibraryEnds DEF Plan
  <2>6. CASE Top.phase = "stubs" /\ u = t
    <3>1. CASE k = "so"
      <4>1. tree[<<"so", t>>] # Absent
        BY <1>4, <1>5, <2>6, <3>1
      <4>2. StubPlan(s, t) = <<>>
        BY <4>1 DEF StubPlan
      <4> QED
        BY <1>1, <2>6, <4>2, NothingLeaves DEF Plan
    <3>2. CASE k # "so"
      <4>1. f[1] # "so" /\ f[1] # "ln"
        BY <2>1, <3>2
      <4> QED
        BY <1>1, <2>6, <4>1, StubLeaves DEF Plan, f
    <3> QED
      BY <3>1, <3>2
  <2> QED
    BY <1>2, <2>2, <2>3, <2>4, <2>5, <2>6
<1> QED
  BY <1>1, <1>6, LeavesLater

LEMMA BuildKeepsImports ==
  ASSUME TypeInv, InTheirPlaces, EnterSection, Top.op = "build",
         NEW r \in Sections, ImportComes(r)
  PROVE  ImportLater(r)
<1> DEFINE s == Current
           t == TargetOf(s)
           f == <<"di", r>>
<1>1. /\ todo = <<>> /\ s \in Sections
      /\ todo' = Plan(Top.phase, s, t) /\ t \in Targets /\ Top.phase \in Loops /\ tree' = tree
  BY EnterHome
<1> HIDE DEF s, t
<1> SUFFICES ASSUME Built(r), NEW b \in BOOLEAN, Comes(f, Edition(r, b))
             PROVE  Later(f, Edition(r, b))
  BY DEF ImportComes, ImportLater
<1>2. tree[f] = Edition(r, b)
  BY <1>1, ComesNow
<1>3. Leaves(todo', f)
  <2>1. CASE Top.phase # "imports" \/ r # s
    BY <1>1, <2>1, PlanImports
  <2>2. CASE Top.phase = "imports" /\ r = s
    <3>1. TargetOf(r) \in Targets /\ src[r] \in Nat
      BY TargetIs, VarTypes
    <3>2. tree[f] # Absent /\ tree[f].ed = src[r]
      BY <1>2, <3>1, MadeOf DEF Edition
    <3>3. ~(tree[f] = Absent \/ src[s] > tree[f].ed)
      BY <2>2, <3>1, <3>2
    <3>4. todo' = ImportPlan(s, t)
      BY <1>1, <2>2 DEF Plan
    <3> QED
      BY <1>1, <2>2, <3>3, <3>4, ImportEnds
  <2> QED
    BY <2>1, <2>2
<1> QED
  BY <1>1, <1>3, LeavesLater

LEMMA BuildKeepsBinaries ==
  ASSUME TypeInv, InTheirPlaces, TargetsApart, OwnTargets, EnterSection, Top.op = "build",
         NEW r \in Sections, BinaryComes(r)
  PROVE  BinaryLater(r)
<1> DEFINE s == Current
           t == TargetOf(s)
           u == TargetOf(r)
           f == <<"bin", u>>
<1>1. /\ todo = <<>> /\ s \in Sections
      /\ todo' = Plan(Top.phase, s, t) /\ t \in Targets
      /\ Top.phase \in Loops /\ Top.phase \in PhasesOf(Top.op) /\ tree' = tree
  BY EnterHome
<1>2. Top.phase \in {"imports", "stubs", "libs", "bins"}
  BY <1>1 DEF PhasesOf, Loops
<1>3. CASE Top.phase = "bins" /\ s = r
  BY <1>3, BinaryEntered
<1>4. CASE Top.phase # "bins" \/ s # r
  <2> SUFFICES ASSUME Type[r] = "binary", NEW b \in BOOLEAN, Comes(f, Edition(r, b))
               PROVE  Later(f, Edition(r, b))
    BY DEF BinaryComes, BinaryLater
  <2> HIDE DEF s, t, u
  <2>1. f[1] = "bin" /\ f # <<"di", s>> /\ f \notin {<<"lib", t>>, <<"so", t>>, <<"dbg", t>>}
    OBVIOUS
  <2>2. CASE Top.phase = "imports"
    BY <1>1, <2>1, <2>2, ImportEnds, LeavesLater DEF Plan
  <2>3. CASE Top.phase = "stubs"
    BY <1>1, <2>1, <2>3, StubLeaves, LeavesLater DEF Plan
  <2>4. CASE Top.phase = "libs"
    BY <1>1, <2>1, <2>4, LibraryEnds, LeavesLater DEF Plan
  <2>5. CASE Top.phase = "bins"
    <3>1. Type[s] # "binary" \/ t # u
      BY <1>1, <1>4, <2>5, SameTarget DEF t, u
    <3>2. Type[s] # "binary" \/ f # <<"bin", t>>
      BY <3>1
    <3> QED
      BY <1>1, <2>5, <3>2, BinaryEnds, LeavesLater DEF Plan
  <2> QED
    BY <1>2, <2>2, <2>3, <2>4, <2>5
<1> QED
  BY <1>3, <1>4

\* What a command does but die.
Goes ==
  \/ ConfigChanged \/ ReadConfig \/ EnterSection \/ EnterSubdir \/ EndLoop
  \/ CleanFirst \/ PutFile \/ Returns \/ Refuse

LEMMA GoesOn ==
  ASSUME TypeInv, Goes
  PROVE  /\ Running /\ UNCHANGED <<src, conf>> /\ cmd'.dbg = cmd.dbg /\ cmd'.req = cmd.req
         /\ cmd'.op = cmd.op
         /\ \A d \in Dirs : ~newer[d] => ~newer'[d]
<1>1. Running /\ UNCHANGED <<src, conf>>
  BY DEF Goes, ConfigChanged, ReadConfig, EnterSection, EnterSubdir, EndLoop, CleanFirst,
     PutFile, Returns, Refuse, Return, InLoop, Looping, userVars
<1>2. CASE Returns \/ Refuse
  BY <1>1, <1>2, VarTypes DEF Returns, Refuse, Return, Commands
<1>3. CASE ReadConfig
  BY <1>1, <1>3, VarTypes DEF ReadConfig
<1>4. CASE UNCHANGED <<cmd, newer>>
  BY <1>1, <1>4
<1> QED
  BY <1>2, <1>3, <1>4 DEF Goes, ConfigChanged, EnterSection, EnterSubdir, EndLoop, CleanFirst, PutFile

LEMMA Kept ==
  ASSUME TypeInv, InTheirPlaces, TargetsApart, OwnTargets, Goes, NEW r \in Sections,
         Top.op # "distclean" \/ Home[r] # Top.dir
  PROVE  /\ LibraryComes(r) => LibraryComes(r)'
         /\ ImportComes(r) => ImportComes(r)'
         /\ BinaryComes(r) => BinaryComes(r)'
         /\ IsRead(r) => IsRead(r)'
<1>1. Running /\ UNCHANGED <<src, conf>> /\ cmd'.dbg = cmd.dbg /\ \A d \in Dirs : ~newer[d] => ~newer'[d]
  BY GoesOn
<1>2. IsRead(r) => IsRead(r)'
  BY <1>1, SubDirIs DEF IsRead
<1> SUFFICES /\ LibraryComes(r) => LibraryLater(r)
             /\ ImportComes(r) => ImportLater(r)
             /\ BinaryComes(r) => BinaryLater(r)
  BY <1>1, <1>2, NextComes
<1>3. CASE EnterSection
  <2>1. CASE Top.op = "build"
    BY <1>3, <2>1, BuildKeepsLibraries, BuildKeepsImports, BuildKeepsBinaries
  <2>2. CASE Top.op # "build"
    <3>1. Home[r] # Top.dir \/ Top.op = "install"
      BY <1>1, <2>2, TopCall DEF Calls
    <3> QED
      BY <1>3, <3>1, EnterKeepsOthers
  <2> QED
    BY <2>1, <2>2
<1>4. CASE PutFile
  <2>1. \A f \in FilesOf(r, TargetOf(r)) : f \in Files
    BY DEF FilesOf
  <2>2. \A f \in Files : \A v : Comes(f, v) => Comes(f, v)'
    BY <1>4, PutComes
  <2>3. \A f \in Files : \A v : Comes(f, v)' => Later(f, v)
    BY DEF Comes, Later
  <2> QED
    BY <2>1, <2>2, <2>3, FilesKept
<1>5. CASE CleanFirst
  <2>1. /\ todo = <<>> /\ todo' = <<>> /\ Top.op = "distclean"
        /\ tree' = WithoutImports(Top.dir)
    BY <1>5, CleanFirstMoves DEF CleanFirst
  <2>2. \A f \in FilesOf(r, TargetOf(r)) : tree'[f] = tree[f]
    BY <2>1 DEF WithoutImports, FilesOf
  <2>3. \A f \in FilesOf(r, TargetOf(r)) : \A v : Comes(f, v) => Later(f, v)
    BY <2>1, <2>2, ComesNow, NothingLeaves DEF Later
  <2> QED
    BY <2>3, FilesKept
<1>6. CASE todo' = todo /\ tree' = tree
  <2>1. \A f, v : Comes(f, v) => Later(f, v)
    BY <1>6 DEF Comes, Later
  <2> QED
    BY <2>1, FilesKept
<1>7. CASE ConfigChanged \/ ReadConfig \/ EnterSubdir \/ EndLoop \/ Returns \/ Refuse
  BY <1>6, <1>7 DEF ConfigChanged, ReadConfig, EnterSubdir, EndLoop, Returns, Refuse, Return
<1> QED
  BY <1>3, <1>4, <1>5, <1>7 DEF Goes

LEMMA KeptGood ==
  ASSUME TypeInv, InTheirPlaces, TargetsApart, OwnTargets, Goes, NEW r \in Sections,
         Top.op # "distclean" \/ Home[r] # Top.dir, Good(r)
  PROVE  Good(r)'
<1>1. LibraryComes(r) /\ ImportComes(r) /\ BinaryComes(r) /\ IsRead(r)
  BY DEF Good
<1>2. LibraryComes(r)' /\ ImportComes(r)' /\ BinaryComes(r)' /\ IsRead(r)'
  BY <1>1, Kept
<1> QED
  BY <1>2 DEF Good

-----------------------------------------------------------------------------
(* Promises is inductive. *)

LEMMA WantedIs ==
  ASSUME TypeInv, InTheirPlaces, NEW g \in Calls, Fits(g)
  PROVE  /\ Wanted(g) \in Seq(Sections) /\ g.dir \in Dirs
         /\ \A s \in ToSet(Wanted(g)) : s \in Sections /\ Home[s] = g.dir
         /\ \A s \in ToSet(Default[conf[g.dir]]) : s \in Sections /\ Home[s] = g.dir
         /\ DOMAIN Wanted(g) = 1..Len(Wanted(g)) /\ Len(Wanted(g)) \in Nat
<1>1. g.dir \in Dirs /\ conf[g.dir] \in Confs[g.dir] /\ g.req \in Seq(Sections)
  BY VarTypes DEF Calls
<1>2. \A s \in ToSet(Default[conf[g.dir]]) : s \in Sections /\ Home[s] = g.dir
  BY <1>1, ListOf DEF InTheirPlaces
<1>3. CASE g.req = <<>>
  <2>1. Wanted(g) = Default[conf[g.dir]]
    BY <1>3 DEF Wanted
  <2> QED
    BY <1>1, <1>2, <2>1, ListOf
<1>4. CASE g.req # <<>>
  <2>1. Wanted(g) = g.req /\ g.req \in Requests /\ g.dir = Root
    BY <1>4 DEF Wanted, Fits
  <2>2. \A s \in ToSet(g.req) : s \in Sections /\ Home[s] = g.dir
    BY <1>1, <2>1 DEF InTheirPlaces, ToSet
  <2> QED
    BY <1>1, <1>2, <2>1, <2>2, LenProperties
<1> QED
  BY <1>3, <1>4

LEMMA MadeHere ==
  ASSUME TypeInv, InTheirPlaces, NEW g \in Calls, Fits(g),
         NEW s \in ImportsMade(g) \union LibrariesMade(g) \union BinariesMade(g)
  PROVE  s \in Sections /\ Home[s] = g.dir
<1>1. /\ Wanted(g) \in Seq(Sections) /\ g.dir \in Dirs
      /\ DOMAIN Wanted(g) = 1..Len(Wanted(g))
  BY WantedIs
<1>2. \A q, n : DOMAIN q = 1..Len(q) => Passed(q, n) \subseteq ToSet(q)
  BY DEF Passed, ToSet
<1>3. DOMAIN Default[conf[g.dir]] = 1..Len(Default[conf[g.dir]])
  BY <1>1, ListOf
<1>4. ImportsMade(g) \subseteq ToSet(Default[conf[g.dir]])
  BY <1>2, <1>3 DEF ImportsMade
<1>5. LibrariesMade(g) \subseteq ToSet(Wanted(g)) /\ BinariesMade(g) \subseteq ToSet(Wanted(g))
  BY <1>1, <1>2 DEF LibrariesMade, BinariesMade
<1> QED
  BY <1>4, <1>5, WantedIs

\* What the step of a command, by another call or by one that builds, keeps.
LEMMA ClaimsKept ==
  ASSUME TypeInv, InTheirPlaces, TargetsApart, OwnTargets, Goes,
         NEW g \in Calls, Fits(g), NEW D, Claims(g, D),
         Top.op = "distclean" =>
           /\ g.dir # Top.dir
           /\ \E d \in D : ToSet(Default[conf[Top.dir]]) \subseteq Below(d)
  PROVE  Claims(g, D)'
<1>1. /\ Running /\ UNCHANGED <<src, conf>> /\ g.dir \in Dirs
      /\ \A d \in Dirs : ~newer[d] => ~newer'[d]
  BY GoesOn DEF Calls
<1>2. /\ ImportsMade(g)' = ImportsMade(g) /\ LibrariesMade(g)' = LibrariesMade(g)
      /\ BinariesMade(g)' = BinariesMade(g) /\ \A d : Below(d)' = Below(d)
  BY <1>1, SameReached DEF ImportsMade, LibrariesMade, BinariesMade, Wanted
<1>3. ASSUME NEW s \in ImportsMade(g) \union LibrariesMade(g) \union BinariesMade(g)
      PROVE  /\ s \in Sections
             /\ LibraryComes(s) => LibraryComes(s)'
             /\ ImportComes(s) => ImportComes(s)'
             /\ BinaryComes(s) => BinaryComes(s)'
             /\ IsRead(s) => IsRead(s)'
  BY <1>1, MadeHere, Kept
<1>4. ASSUME NEW e \in Dirs, NEW t \in Below(e), ~\E d \in D : t \in Below(d), Good(t)
      PROVE  Good(t)'
  <2>1. t \in Sections /\ t \in ToSet(Default[conf[Home[t]]])
    BY <1>4, BelowListed
  <2>2. Top.op # "distclean" \/ Home[t] # Top.dir
    BY <1>4, <2>1
  <2> QED
    BY <1>4, <2>1, <2>2, KeptGood
<1>5. ASSUME NEW s \in LibrariesMade(g), Type[s] = "subdir"
      PROVE  /\ IsRead(s)' \/ SubDir[s] \in D
             /\ \A t \in Below(SubDir[s]) : (\E d \in D : t \in Below(d)) \/ Good(t)'
  <2>1. SubDir[s] \in Dirs
    BY <1>3, <1>5, SubDirIs
  <2> QED
    BY <1>3, <1>4, <1>5, <2>1 DEF Claims
<1> QED
  BY <1>1, <1>2, <1>3, <1>5 DEF Claims

\* The call goes on: what it has made more is up to date as well, or will be.
LEMMA ClaimsStep ==
  ASSUME UNCHANGED conf, NEW g, NEW h, NEW D, NEW E, D \subseteq E,
         Claims(g, D)', h.dir = g.dir,
         \A s \in ImportsMade(h) : s \in ImportsMade(g) \/ ImportComes(s)',
         \A s \in LibrariesMade(h) :
           s \in LibrariesMade(g) \/ (LibraryComes(s)' /\ (Type[s] = "subdir" => SubDir[s] \in E)),
         \A s \in BinariesMade(h) : s \in BinariesMade(g) \/ BinaryComes(s)'
  PROVE  Claims(h, E)'
<1>1. \A x : /\ ImportsMade(x)' = ImportsMade(x) /\ LibrariesMade(x)' = LibrariesMade(x)
             /\ BinariesMade(x)' = BinariesMade(x)
  BY DEF ImportsMade, LibrariesMade, BinariesMade, Wanted
<1>2. ~newer'[h.dir] /\ \A s \in ImportsMade(h) : ImportComes(s)'
  BY <1>1 DEF Claims
<1>3. \A s \in BinariesMade(h) : BinaryComes(s)'
  BY <1>1 DEF Claims
<1>4. ASSUME NEW s \in LibrariesMade(h)
      PROVE  /\ LibraryComes(s)'
             /\ Type[s] = "subdir" =>
                  /\ IsRead(s)' \/ SubDir[s] \in E
                  /\ \A t \in Below(SubDir[s])' : (\E d \in E : t \in Below(d)') \/ Good(t)'
  <2>1. CASE s \in LibrariesMade(g)
    BY <1>1, <2>1 DEF Claims
  <2>2. CASE LibraryComes(s)' /\ (Type[s] = "subdir" => SubDir[s] \in E)
    BY <2>2
  <2> QED
    BY <2>1, <2>2
<1> QED
  BY <1>1, <1>2, <1>3, <1>4 DEF Claims

LEMMA WaitsIs ==
  ASSUME Len(stack) \in Nat, NEW k \in 1..Len(stack)
  PROVE  WaitsFor(k) = IF k < Len(stack) THEN {stack[k + 1].dir} ELSE {}
<1>1. CASE k < Len(stack)
  <2>1. {k + 1} \intersect 1..Len(stack) = {k + 1}
    BY <1>1
  <2> QED
    BY <1>1, <2>1 DEF WaitsFor
<1>2. CASE ~(k < Len(stack))
  <2>1. {k + 1} \intersect 1..Len(stack) = {}
    BY <1>2
  <2> QED
    BY <1>2, <2>1 DEF WaitsFor
<1> QED
  BY <1>1, <1>2

LEMMA PromisesNext ==
  ASSUME Len(stack') \in Nat,
         \A k \in 1..Len(stack') : \A g, D :
           /\ g = stack'[k] /\ g.op = "build" /\ g.phase # "read"
           /\ D = IF k < Len(stack') THEN {stack'[k + 1].dir} ELSE {}
           => Claims(g, D)'
  PROVE  Promises'
<1>1. \A k \in 1..Len(stack') : WaitsFor(k)' = IF k < Len(stack') THEN {stack'[k + 1].dir} ELSE {}
  <2> SUFFICES ASSUME NEW k \in 1..Len(stack')
               PROVE  WaitsFor(k)' = IF k < Len(stack') THEN {stack'[k + 1].dir} ELSE {}
    OBVIOUS
  <2>1. CASE k < Len(stack')
    <3>1. {k + 1} \intersect 1..Len(stack') = {k + 1}
      BY <2>1
    <3> QED
      BY <2>1, <3>1 DEF WaitsFor
  <2>2. CASE ~(k < Len(stack'))
    <3>1. {k + 1} \intersect 1..Len(stack') = {}
      BY <2>2
    <3> QED
      BY <2>2, <3>1 DEF WaitsFor
  <2> QED
    BY <2>1, <2>2
<1> SUFFICES ASSUME NEW k \in 1..Len(stack'), stack'[k].op = "build", stack'[k].phase # "read"
             PROVE  Claims(stack[k], WaitsFor(k))'
  BY DEF Promises
<1>2. \A g, D : g = stack'[k] /\ D = WaitsFor(k)' => Claims(g, D)'
  BY <1>1
<1> QED
  BY <1>2

\* A call that waits keeps its promise.
LEMMA WaitingClaims ==
  ASSUME TypeInv, InTheirPlaces, TargetsApart, OwnTargets, NEW rank, Nested(rank), Lower(rank),
         Chained, Promises, Goes,
         NEW k \in 1..(Len(stack) - 1), stack[k].op = "build", stack[k].phase # "read"
  PROVE  \A g, D : g = stack[k] /\ D = {stack[k + 1].dir} => Claims(g, D)'
<1> DEFINE n == Len(stack)
<1>1. Running
  BY GoesOn
<1>2. /\ n \in Nat \ {0} /\ Top = stack[n] /\ Top \in Calls /\ Top.dir \in Dirs
      /\ k \in 1..n /\ k + 1 \in 1..n /\ n \in 1..n /\ k < n /\ k + 1 > 1
      /\ stack[k] \in Calls /\ Fits(stack[k])
  <2>1. /\ n \in Nat \ {0} /\ Top = stack[n] /\ Top \in Calls
        /\ \A i \in 1..n : stack[i] \in Calls /\ Fits(stack[i])
    BY <1>1, TopCall
  <2>2. k \in 1..n /\ k + 1 \in 1..n /\ n \in 1..n /\ k < n /\ k + 1 > 1
    BY <2>1
  <2> QED
    BY <2>1, <2>2 DEF Calls
<1>3. WaitsFor(k) = {stack[k + 1].dir}
  BY <1>2, WaitsIs
<1>4. Claims(stack[k], {stack[k + 1].dir})
  BY <1>2, <1>3 DEF Promises
<1>5. stack[k].dir # Top.dir
  BY <1>1, Apart
<1>6. ToSet(Default[conf[Top.dir]]) \subseteq Below(stack[k + 1].dir)
  <2>1. ToSet(Default[conf[Top.dir]]) \subseteq Below(Top.dir)
    BY <1>2, BelowHas
  <2>2. CASE k + 1 = n
    BY <1>2, <2>1, <2>2
  <2>3. CASE k + 1 < n
    <3> DEFINE i == k + 1
    <3>1. i \in 1..n /\ i < n /\ i > 1
      BY <1>2, <2>3
    <3> HIDE DEF i
    <3>2. Below(stack[n].dir) \subseteq Below(stack[i].dir)
      BY <1>2, <3>1 DEF Chained
    <3>3. Below(stack[n].dir) \subseteq Below(stack[k + 1].dir)
      BY <3>2 DEF i
    <3> QED
      BY <1>2, <2>1, <3>3
  <2> QED
    BY <1>2, <2>2, <2>3
<1> QED
  BY <1>2, <1>4, <1>5, <1>6, ClaimsKept

\* The innermost call of a build that goes on.
LEMMA TopClaims ==
  ASSUME TypeInv, InTheirPlaces, TargetsApart, OwnTargets, Promises, Goes,
         Top.op = "build", Top.phase # "read"
  PROVE  Claims(Top, {}) /\ \A g, D : g = Top /\ D = {} => Claims(g, D)'
<1> DEFINE n == Len(stack)
<1>1. n \in Nat \ {0} /\ Top = stack[n] /\ Top \in Calls /\ Fits(Top) /\ n \in 1..n /\ ~(n < n)
  BY GoesOn, TopCall
<1>2. WaitsFor(n) = {}
  BY <1>1, WaitsIs
<1>3. Claims(Top, {})
  BY <1>1, <1>2 DEF Promises
<1> QED
  BY <1>1, <1>3, ClaimsKept

LEMMA StayPromises ==
  ASSUME TypeInv, InTheirPlaces, TargetsApart, OwnTargets, NEW rank, Nested(rank), Lower(rank),
         Chained, Promises, Goes, Stays,
         \A h, D : h = Top' /\ h.op = "build" /\ h.phase # "read" /\ D = {} => Claims(h, D)'
  PROVE  Promises'
<1> DEFINE n == Len(stack)
<1>1. n \in Nat \ {0} /\ Top = stack[n] /\ Len(stack') = n
  BY GoesOn, TopCall DEF Stays
<1>2. \A k \in 1..n : k \in 1..(n - 1) \/ k = n
  BY <1>1
<1>3. \A k \in 1..n : stack'[k].dir = stack[k].dir
  BY <1>1, <1>2 DEF Stays
<1> SUFFICES ASSUME NEW k \in 1..n, NEW g, NEW D,
                    g = stack'[k], g.op = "build", g.phase # "read",
                    D = IF k < n THEN {stack'[k + 1].dir} ELSE {}
             PROVE  Claims(g, D)'
  BY <1>1, PromisesNext
<1>4. CASE k = n
  BY <1>1, <1>4 DEF Stays
<1>5. CASE k \in 1..(n - 1)
  <2>1. k + 1 \in 1..n /\ k < n /\ g = stack[k]
    BY <1>1, <1>5 DEF Stays
  <2>2. D = {stack[k + 1].dir}
    BY <1>3, <2>1
  <2> QED
    BY <1>5, <2>1, <2>2, WaitingClaims
<1> QED
  BY <1>2, <1>4, <1>5

LEMMA PushPromises ==
  ASSUME TypeInv, InTheirPlaces, TargetsApart, OwnTargets, NEW rank, Nested(rank), Lower(rank),
         Chained, Promises, Goes,
         Len(stack') = Len(stack) + 1,
         \A k \in 1..(Len(stack) - 1) : stack'[k] = stack[k],
         stack'[Len(stack)].dir = Top.dir,
         stack'[Len(stack) + 1].op # "build" \/ stack'[Len(stack) + 1].phase = "read",
         \A h, D : /\ h = stack'[Len(stack)] /\ h.op = "build" /\ h.phase # "read"
                   /\ D = {stack'[Len(stack) + 1].dir}
                   => Claims(h, D)'
  PROVE  Promises'
<1> DEFINE n == Len(stack)
<1>1. n \in Nat \ {0} /\ Top = stack[n] /\ Len(stack') = n + 1 /\ n + 1 \in Nat
  BY GoesOn, TopCall
<1>2. \A k \in 1..n : k \in 1..(n - 1) \/ k = n
  BY <1>1
<1>3. \A k \in 1..n : stack'[k].dir = stack[k].dir
  BY <1>1, <1>2
<1> SUFFICES ASSUME NEW k \in 1..(n + 1), NEW g, NEW D,
                    g = stack'[k], g.op = "build", g.phase # "read",
                    D = IF k < n + 1 THEN {stack'[k + 1].dir} ELSE {}
             PROVE  Claims(g, D)'
  BY <1>1, PromisesNext
<1>4. CASE k = n + 1
  BY <1>4
<1>5. CASE k = n
  BY <1>1, <1>5
<1>6. CASE k \in 1..(n - 1)
  <2>1. k + 1 \in 1..n /\ k < n + 1 /\ g = stack[k]
    BY <1>1, <1>6
  <2>2. D = {stack[k + 1].dir}
    BY <1>3, <2>1
  <2> QED
    BY <1>6, <2>1, <2>2, WaitingClaims
<1> QED
  BY <1>1, <1>4, <1>5, <1>6

LEMMA PassedIs ==
  ASSUME NEW q, Len(q) \in Nat, DOMAIN q = 1..Len(q), NEW n \in Nat \ {0}
  PROVE  /\ \A s \in Passed(q, n + 1) : s \in Passed(q, n) \/ s = q[n]
         /\ n = 1 => Passed(q, n) = {}
         /\ n > Len(q) => ToSet(q) = Passed(q, n)
<1>1. ASSUME NEW s \in Passed(q, n + 1), s # q[n]
      PROVE  s \in Passed(q, n)
  <2>1. PICK j \in 1..Len(q) : j < n + 1 /\ q[j] = s
    BY DEF Passed
  <2>2. j # n
    BY <1>1, <2>1
  <2>3. j < n
    BY <2>1, <2>2
  <2> QED
    BY <2>1, <2>3 DEF Passed
<1>2. n = 1 => \A j \in 1..Len(q) : ~(j < n)
  OBVIOUS
<1>3. n > Len(q) => \A j \in 1..Len(q) : j < n
  OBVIOUS
<1> QED
  BY <1>1, <1>2, <1>3 DEF Passed, ToSet

\* What a call of build goes through.
LEMMA BuildSecs ==
  ASSUME TypeInv, NEW g \in Calls, Fits(g), g.phase \in {"imports", "stubs", "libs", "bins"}
  PROVE  /\ g.phase \in {"imports", "stubs"} => Secs(g) = Default[conf[g.dir]]
         /\ g.phase \in {"libs", "bins"} => Secs(g) = Wanted(g)
BY DEF Secs, Wanted, Fits

LEMMA ListsHere ==
  ASSUME TypeInv, InTheirPlaces, NEW g \in Calls, Fits(g)
  PROVE  /\ Len(Wanted(g)) \in Nat /\ DOMAIN Wanted(g) = 1..Len(Wanted(g))
         /\ Len(Default[conf[g.dir]]) \in Nat
         /\ DOMAIN Default[conf[g.dir]] = 1..Len(Default[conf[g.dir]])
BY WantedIs, ListOf

LEMMA ReadConfigPromises ==
  ASSUME TypeInv, InTheirPlaces, TargetsApart, OwnTargets, NEW rank, Nested(rank), Lower(rank),
         Chained, Promises, ReadConfig
  PROVE  Promises'
<1>1. Goes /\ Stays /\ Top'.phase = FirstPhase(Top.op) /\ Top'.at = 1
  BY ReadConfigStays DEF Goes
<1>2. ASSUME NEW h, h = Top', h.op = "build"
      PROVE  Claims(h, {})'
  <2>1. h.phase = "imports" /\ h.at = 1 /\ h.dir = Top.dir
    BY <1>1, <1>2 DEF Stays, FirstPhase
  <2>2. Top.dir \in Dirs /\ ~newer'[Top.dir] /\ UNCHANGED conf
    BY ReadConfigMoves, VarTypes DEF ReadConfig, userVars
  <2>3. \A q : Passed(q, 1) = {}
    <3>1. \A n \in Nat : \A j \in 1..n : ~(j < 1)
      OBVIOUS
    <3>2. \A q : \A j \in 1..Len(q) : ~(j < 1)
      OBVIOUS
    <3> QED
      BY <3>2 DEF Passed
  <2>4. ImportsMade(h)' = {} /\ LibrariesMade(h)' = {} /\ BinariesMade(h)' = {}
    BY <2>1, <2>3 DEF ImportsMade, LibrariesMade, BinariesMade
  <2> QED
    BY <2>1, <2>2, <2>4 DEF Claims
<1> QED
  BY <1>1, <1>2, StayPromises

LEMMA EnterSectionPromises ==
  ASSUME TypeInv, InTheirPlaces, TargetsApart, OwnTargets, NEW rank, Nested(rank), Lower(rank),
         Configured, NoneNewer, Chained, Promises, EnterSection
  PROVE  Promises'
<1>1. /\ Goes /\ Stays /\ Top'.phase = Top.phase /\ Top'.at = Top.at + 1
  BY EnterSectionStays DEF Goes
<1>2. /\ UNCHANGED <<src, conf>> /\ cmd'.dbg = cmd.dbg
  BY <1>1, GoesOn
<1>3. ASSUME NEW h, h = Top', h.op = "build"
      PROVE  Claims(h, {})'
  <2>0. PICK s : s = Current
    OBVIOUS
  <2>1. /\ InLoop /\ s \in Sections /\ Top \in Calls /\ Fits(Top) /\ Top.dir \in Dirs
        /\ Top.phase \in Loops /\ Top.phase \in PhasesOf(Top.op)
    BY <2>0, EnterHome
  <2>2. /\ h.op = Top.op /\ h.dir = Top.dir /\ h.req = Top.req /\ h.phase = Top.phase
        /\ h.at = Top.at + 1
    BY <1>1, <1>3 DEF Stays
  <2>3. Top.op = "build" /\ Top.phase \in {"imports", "stubs", "libs", "bins"} /\ Top.phase # "read"
    BY <1>3, <2>1, <2>2 DEF PhasesOf, Loops
  <2>4. Claims(Top, {}) /\ \A g, D : g = Top /\ D = {} => Claims(g, D)'
    BY <1>1, <2>3, TopClaims
  <2>5. ~newer[Top.dir]
    BY <2>4 DEF Claims
  <2>6. Top.at \in Nat \ {0} /\ s = Secs(Top)[Top.at]
    BY <2>0, <2>1, LoopCall
  <2>7. Wanted(h) = Wanted(Top)
    BY <2>2 DEF Wanted
  <2>8. /\ Top.phase = "imports" => ImportComes(s)'
        /\ Top.phase = "libs" => LibraryComes(s)' /\ Type[s] # "subdir"
        /\ Top.phase = "bins" => BinaryComes(s)'
    <3>1. Top.phase = "imports" => ImportComes(s)'
      BY <1>2, <2>0, <2>1, <2>5, ImportEntered, NextComes
    <3>2. Top.phase = "libs" => LibraryComes(s)'
      BY <1>2, <2>0, <2>1, LibraryEntered, NextComes
    <3>3. Top.phase = "bins" => BinaryComes(s)'
      BY <1>2, <2>0, <2>1, BinaryEntered, NextComes
    <3>4. Top.phase = "libs" => Type[s] # "subdir"
      BY <2>0 DEF EnterSection, Recurses
    <3> QED
      BY <3>1, <3>2, <3>3, <3>4
  <2>9. /\ \A r \in Passed(Wanted(Top), Top.at + 1) :
             r \in Passed(Wanted(Top), Top.at) \/ r = Wanted(Top)[Top.at]
        /\ \A r \in Passed(Default[conf[Top.dir]], Top.at + 1) :
             r \in Passed(Default[conf[Top.dir]], Top.at) \/ r = Default[conf[Top.dir]][Top.at]
    BY <2>1, <2>6, ListsHere, PassedIs
  <2>10. /\ Top.phase = "imports" => Default[conf[Top.dir]][Top.at] = s
         /\ Top.phase \in {"libs", "bins"} => Wanted(Top)[Top.at] = s
    BY <2>1, <2>3, <2>6, BuildSecs
  <2>11. \A r \in ImportsMade(h) : r \in ImportsMade(Top) \/ ImportComes(r)'
    <3>1. CASE Top.phase = "imports"
      BY <2>2, <2>8, <2>9, <2>10, <3>1 DEF ImportsMade
    <3>2. CASE Top.phase # "imports"
      BY <2>2, <3>2 DEF ImportsMade
    <3> QED
      BY <3>1, <3>2
  <2>12. \A r \in LibrariesMade(h) :
           r \in LibrariesMade(Top) \/ (LibraryComes(r)' /\ (Type[r] = "subdir" => SubDir[r] \in {}))
    <3>1. CASE Top.phase = "libs"
      BY <2>2, <2>7, <2>8, <2>9, <2>10, <3>1 DEF LibrariesMade
    <3>2. CASE Top.phase # "libs"
      BY <2>2, <2>7, <3>2 DEF LibrariesMade
    <3> QED
      BY <3>1, <3>2
  <2>13. \A r \in BinariesMade(h) : r \in BinariesMade(Top) \/ BinaryComes(r)'
    <3>1. CASE Top.phase = "bins"
      BY <2>2, <2>7, <2>8, <2>9, <2>10, <3>1 DEF BinariesMade
    <3>2. CASE Top.phase # "bins"
      BY <2>2, <2>7, <3>2 DEF BinariesMade
    <3> QED
      BY <3>1, <3>2
  <2> QED
    BY <1>2, <2>2, <2>4, <2>11, <2>12, <2>13, ClaimsStep
<1> QED
  BY <1>1, <1>3, StayPromises

LEMMA EndLoopPromises ==
  ASSUME TypeInv, InTheirPlaces, TargetsApart, OwnTargets, NEW rank, Nested(rank), Lower(rank),
         Chained, Promises, EndLoop
  PROVE  Promises'
<1>1. /\ Goes /\ Stays /\ Top'.phase = NextPhase(Top.phase) /\ Top'.at = 1
  BY EndLoopStays DEF Goes
<1>2. /\ Running /\ Top.phase \in Loops /\ Top.at > Len(Secs(Top)) /\ Top \in Calls /\ Fits(Top)
      /\ UNCHANGED conf
  BY EndLoopMoves DEF EndLoop, userVars
<1>3. ASSUME NEW h, h = Top', h.op = "build"
      PROVE  Claims(h, {})'
  <2>1. /\ h.op = Top.op /\ h.dir = Top.dir /\ h.req = Top.req /\ h.phase = NextPhase(Top.phase)
    BY <1>1, <1>3 DEF Stays
  <2>2. Top.op = "build" /\ Top.phase \in {"imports", "stubs", "libs", "bins"} /\ Top.phase # "read"
    BY <1>2, <1>3, <2>1 DEF PhasesOf, Loops, Fits
  <2>3. \A g, D : g = Top /\ D = {} => Claims(g, D)'
    BY <1>1, <2>2, TopClaims
  <2>4. Wanted(h) = Wanted(Top) /\ Top.at \in Nat \ {0}
    BY <1>2, <2>1 DEF Wanted, Fits
  <2>5. /\ Top.phase = "imports" => ToSet(Default[conf[Top.dir]]) = Passed(Default[conf[Top.dir]], Top.at)
        /\ Top.phase \in {"libs", "bins"} => ToSet(Wanted(Top)) = Passed(Wanted(Top), Top.at)
    BY <1>2, <2>2, <2>4, BuildSecs, ListsHere, PassedIs
  <2>6. NextPhase(Top.phase) = CASE Top.phase = "imports" -> "stubs" [] Top.phase = "stubs" -> "libs"
                                 [] Top.phase = "libs" -> "bins" [] Top.phase = "bins" -> "end"
    BY <2>2 DEF NextPhase
  <2>7. ImportsMade(h) = ImportsMade(Top)
    BY <2>1, <2>2, <2>5, <2>6 DEF ImportsMade
  <2>8. \A q : Passed(q, 1) = {}
    <3>1. \A q : \A j \in 1..Len(q) : ~(j < 1)
      OBVIOUS
    <3> QED
      BY <3>1 DEF Passed
  <2>9. h.at = 1
    BY <1>1, <1>3
  <2>10. LibrariesMade(h) = LibrariesMade(Top)
    BY <2>1, <2>2, <2>4, <2>5, <2>6, <2>8, <2>9 DEF LibrariesMade
  <2>11. BinariesMade(h) = BinariesMade(Top)
    BY <2>1, <2>2, <2>4, <2>5, <2>6, <2>8, <2>9 DEF BinariesMade
  <2> QED
    BY <1>2, <2>1, <2>3, <2>7, <2>10, <2>11, ClaimsStep
<1> QED
  BY <1>1, <1>3, StayPromises

LEMMA EnterSubdirPromises ==
  ASSUME TypeInv, InTheirPlaces, TargetsApart, OwnTargets, NEW rank, Nested(rank), Lower(rank),
         Chained, Promises, EnterSubdir
  PROVE  Promises'
<1>0. PICK s, n : s = Current /\ n = Len(stack)
  OBVIOUS
<1>1. /\ Goes /\ Running /\ UNCHANGED conf
      /\ n \in Nat \ {0} /\ Top = stack[n] /\ Top \in Calls /\ Fits(Top)
      /\ Top.phase \in {"libs", "copy", "remove"} /\ Top.phase \in PhasesOf(Top.op)
      /\ Top.at \in 1..Len(Secs(Top)) /\ s = Secs(Top)[Top.at]
      /\ s \in Sections /\ Type[s] = "subdir" /\ SubDir[s] \in Dirs
      /\ Len(stack') = n + 1 /\ \A k \in 1..(n - 1) : stack'[k] = stack[k]
      /\ stack'[n].op = Top.op /\ stack'[n].dir = Top.dir /\ stack'[n].req = Top.req
      /\ stack'[n].phase = Top.phase /\ stack'[n].at = Top.at + 1
      /\ stack'[n + 1] = Call(Top.op, SubDir[s], <<>>)
  BY <1>0, EnterSubdirStack DEF Goes
<1>2. stack'[n + 1].phase = "read" /\ stack'[n + 1].dir = SubDir[s]
  BY <1>1 DEF Call
<1>3. ASSUME NEW h, h = stack'[n], h.op = "build"
      PROVE  Claims(h, {SubDir[s]})'
  <2>1. /\ h.op = Top.op /\ h.dir = Top.dir /\ h.req = Top.req /\ h.phase = Top.phase
        /\ h.at = Top.at + 1
    BY <1>1, <1>3
  <2>2. Top.op = "build" /\ Top.phase = "libs" /\ Top.phase # "read"
    BY <1>1, <1>3, <2>1 DEF PhasesOf
  <2>0. PICK D, E : D = {} /\ E = {SubDir[s]}
    OBVIOUS
  <2>3. \A g, F : g = Top /\ F = {} => Claims(g, F)'
    BY <1>1, <2>2, TopClaims
  <2>4. Wanted(h) = Wanted(Top) /\ Top.at \in Nat \ {0}
    BY <1>1, <2>1 DEF Wanted, Fits
  <2>5. Wanted(Top)[Top.at] = s
    BY <1>1, <2>2, BuildSecs
  <2>6. \A r \in Passed(Wanted(Top), Top.at + 1) : r \in Passed(Wanted(Top), Top.at) \/ r = s
    BY <1>1, <2>4, <2>5, ListsHere, PassedIs
  <2>7. ImportsMade(h) = ImportsMade(Top) /\ BinariesMade(h) = BinariesMade(Top)
    BY <2>1, <2>2 DEF ImportsMade, BinariesMade
  <2>8. LibraryComes(s)'
    BY <1>1 DEF LibraryComes, Built
  <2>9. \A r \in LibrariesMade(h) :
          r \in LibrariesMade(Top) \/ (LibraryComes(r)' /\ (Type[r] = "subdir" => SubDir[r] \in E))
    BY <2>0, <2>1, <2>2, <2>4, <2>6, <2>8 DEF LibrariesMade
  <2>10. PICK g : g = Top
    OBVIOUS
  <2>11. Claims(g, D)' /\ D \subseteq E
    BY <2>0, <2>3, <2>10
  <2>12. \A r \in ImportsMade(h) : r \in ImportsMade(g) \/ ImportComes(r)'
    BY <2>7, <2>10
  <2>13. \A r \in BinariesMade(h) : r \in BinariesMade(g) \/ BinaryComes(r)'
    BY <2>7, <2>10
  <2>14. \A r \in LibrariesMade(h) :
          r \in LibrariesMade(g) \/ (LibraryComes(r)' /\ (Type[r] = "subdir" => SubDir[r] \in E))
    BY <2>9, <2>10
  <2>15. Claims(h, E)'
    BY <1>1, <2>1, <2>10, <2>11, <2>12, <2>13, <2>14, ClaimsStep
  <2> QED
    BY <2>0, <2>15
<1> QED
  BY <1>0, <1>1, <1>2, <1>3, PushPromises

LEMMA ConfigChangedPromises ==
  ASSUME TypeInv, InTheirPlaces, TargetsApart, OwnTargets, NEW rank, Nested(rank), Lower(rank),
         Chained, Promises, ConfigChanged
  PROVE  Promises'
<1>0. PICK n : n = Len(stack)
  OBVIOUS
<1>1. /\ Goes /\ n \in Nat \ {0} /\ Top = stack[n] /\ Top.phase = "read"
      /\ Len(stack') = n + 1 /\ \A k \in 1..n : stack'[k] = stack[k]
      /\ stack'[n + 1].op = "distclean"
  BY <1>0, ConfigChangedStack DEF Goes
<1>2. /\ n \in 1..n /\ \A k \in 1..(n - 1) : k \in 1..n
  BY <1>1
<1>3. stack'[n] = Top /\ \A k \in 1..(n - 1) : stack'[k] = stack[k]
  BY <1>1, <1>2
<1> QED
  BY <1>0, <1>1, <1>3, PushPromises

LEMMA CleanFirstPromises ==
  ASSUME TypeInv, InTheirPlaces, TargetsApart, OwnTargets, NEW rank, Nested(rank), Lower(rank),
         Chained, Promises, CleanFirst
  PROVE  Promises'
<1>1. Goes /\ Stays /\ Top'.phase = "remove"
  BY CleanFirstStays DEF Goes
<1>2. Top.op # "build"
  BY GoesOn, TopCall, <1>1 DEF CleanFirst, Fits, PhasesOf
<1>3. Top'.op # "build"
  BY <1>1, <1>2 DEF Stays
<1> QED
  BY <1>1, <1>3, StayPromises

LEMMA PutFilePromises ==
  ASSUME TypeInv, InTheirPlaces, TargetsApart, OwnTargets, NEW rank, Nested(rank), Lower(rank),
         Chained, Promises, PutFile
  PROVE  Promises'
<1>1. Goes /\ Stays /\ Top' = Top
  <2>1. Goes /\ UNCHANGED stack
    BY DEF Goes, PutFile
  <2>2. Len(stack) \in Nat \ {0} /\ \A k \in 1..(Len(stack) - 1) : stack'[k] = stack[k]
    BY <2>1, GoesOn, TopCall
  <2> QED
    BY <2>1, <2>2 DEF Stays, Top
<1>2. Top.op = "build" /\ Top.phase # "read" => \A g, D : g = Top /\ D = {} => Claims(g, D)'
  BY <1>1, TopClaims
<1> QED
  BY <1>1, <1>2, StayPromises

\* When build comes to its end all that the call is about is up to date, or will be.
LEMMA EndGood ==
  ASSUME TypeInv, InTheirPlaces, AskedByDefault, NEW h \in Calls, Fits(h),
         h.op = "build", h.phase = "end", Claims(h, {})
  PROVE  /\ ~newer[h.dir]
         /\ \A t \in ReachedFrom(Wanted(h)) : t \in Sections /\ Good(t)
<1>1. /\ ToSet(Wanted(h)) \subseteq Sections /\ h.dir \in Dirs
      /\ ReachedFrom(Wanted(h)) \subseteq Sections
  BY WantedIs, ReachedHas
<1>2. /\ ImportsMade(h) = ToSet(Default[conf[h.dir]])
      /\ LibrariesMade(h) = ToSet(Wanted(h)) /\ BinariesMade(h) = ToSet(Wanted(h))
  BY DEF ImportsMade, LibrariesMade, BinariesMade
<1>3. ~newer[h.dir]
  BY DEF Claims
<1>4. ASSUME NEW t \in ToSet(Wanted(h))
      PROVE  Good(t)
  <2>1. LibraryComes(t) /\ BinaryComes(t) /\ (Type[t] = "subdir" => IsRead(t))
    BY <1>2, <1>4 DEF Claims
  <2>2. IsRead(t)
    BY <2>1 DEF IsRead
  <2>3. ImportComes(t)
    <3>1. CASE t \in ToSet(Default[conf[h.dir]])
      BY <1>2, <3>1 DEF Claims
    <3>2. CASE t \notin ToSet(Default[conf[h.dir]])
      <4>1. h.req # <<>> /\ h.req \in Requests /\ h.dir = Root /\ t \in ToSet(h.req)
        BY <1>4, <3>2 DEF Wanted, Fits
      <4>2. conf[Root] \in Confs[Root]
        BY <1>1, <4>1, VarTypes
      <4>3. ~Built(t)
        BY <3>2, <4>1, <4>2 DEF AskedByDefault
      <4> QED
        BY <4>3 DEF ImportComes
    <3> QED
      BY <3>1, <3>2
  <2> QED
    BY <2>1, <2>2, <2>3 DEF Good
<1>5. ASSUME NEW s \in ToSet(Wanted(h)), Type[s] = "subdir", NEW t \in Below(SubDir[s])
      PROVE  Good(t)
  BY <1>2, <1>5 DEF Claims
<1> QED
  BY <1>1, <1>3, <1>4, <1>5, ReachedStep

\* The caller may then count on the directory it has entered.
LEMMA CallerClaims ==
  ASSUME NEW g, NEW d, Claims(g, {d}), ~newer[d], \A t \in Below(d) : Good(t)
  PROVE  Claims(g, {})
<1>1. \A s \in Sections : SubDir[s] \in {d} => IsRead(s)
  BY DEF IsRead
<1>2. ASSUME NEW s \in LibrariesMade(g)
      PROVE  /\ LibraryComes(s)
             /\ Type[s] = "subdir" =>
                  /\ IsRead(s) \/ SubDir[s] \in {}
                  /\ \A t \in Below(SubDir[s]) : (\E e \in {} : t \in Below(e)) \/ Good(t)
  <2>1. /\ LibraryComes(s)
        /\ Type[s] = "subdir" =>
             /\ IsRead(s) \/ SubDir[s] \in {d}
             /\ \A t \in Below(SubDir[s]) : (\E e \in {d} : t \in Below(e)) \/ Good(t)
    BY <1>2 DEF Claims
  <2>2. SubDir[s] \in {d} => IsRead(s)
    BY DEF IsRead
  <2> QED
    BY <2>1, <2>2
<1> QED
  BY <1>2 DEF Claims

\* A call of build that another call of build has made is not refused anything.
LEMMA NestedNotRefused ==
  ASSUME TypeInv, InTheirPlaces, RefusedAtRoot, NEW rank, Nested(rank), Lower(rank),
         Chained, Running, Len(stack) > 1, Top.op = "build"
  PROVE  ~Refuse
<1> SUFFICES ASSUME InLoop, Refused
             PROVE  FALSE
  BY DEF Refuse
<1> DEFINE n == Len(stack)
<1>1. n \in Nat \ {0, 1} /\ Top = stack[n] /\ Top \in Calls /\ Fits(Top) /\ 1 \in 1..n /\ n \in 1..n
      /\ 1 < n
  BY TopCall
<1>2. stack[1].phase = "libs" /\ stack[1].dir = Root
  BY <1>1 DEF Chained
<1>3. rank[Top.dir] < rank[Root]
  BY <1>1, <1>2 DEF Lower
<1>4. Current \in BadExtension /\ Top.phase = "bins" /\ Top.at \in 1..Len(Secs(Top))
  BY LoopCall DEF Refused, InLoop
<1>5. Home[Current] = Top.dir
  BY <1>1, <1>4, HomeOf DEF Current
<1>6. Home[Current] = Root
  BY <1>4 DEF RefusedAtRoot
<1>7. Root \in Dirs /\ rank[Root] \in Nat
  BY ProjectAssumption DEF Nested
<1> QED
  BY <1>3, <1>5, <1>6, <1>7

LEMMA ReturnPromises ==
  ASSUME TypeInv, InTheirPlaces, TargetsApart, OwnTargets, AskedByDefault, RefusedAtRoot,
         NEW rank, Nested(rank), Lower(rank), Chained, Promises, Returns \/ Refuse
  PROVE  Promises'
<1>0. PICK n : n = Len(stack)
  OBVIOUS
<1>1. Goes /\ Running /\ n \in Nat \ {0} /\ Top = stack[n] /\ Top \in Calls /\ Fits(Top)
      /\ (Top.phase = "end" \/ InLoop)
  BY <1>0, GoesOn, TopCall DEF Goes, Returns, Refuse
<1>2. PICK ret \in {0, 1} : Return(ret)
  BY DEF Returns, Refuse
<1>3. /\ n = 1 => Len(stack') = 0 \/ (Len(stack') = 1 /\ stack'[1].op = "install")
      /\ n > 1 => Len(stack') = n - 1 /\ \A k \in 1..(n - 1) : stack'[k] = stack[k]
  BY <1>0, <1>1, <1>2, ReturnStack DEF Call
<1>4. CASE n = 1
  <2>1. Len(stack') \in Nat /\ \A k \in 1..Len(stack') : stack'[k].op = "install"
    BY <1>3, <1>4
  <2> QED
    BY <2>1, PromisesNext
<1>5. CASE n > 1
  <2>1. n - 1 \in Nat /\ n - 1 \in 1..(n - 1) /\ n \in 1..n /\ n - 1 \in 1..n /\ ~(n < n)
        /\ n - 1 < n /\ (n - 1) + 1 = n /\ ~(n - 1 < n - 1)
    BY <1>1, <1>5
  <2>2. PICK g : g = stack[n - 1]
    OBVIOUS
  <2>3. ASSUME g.op = "build", g.phase # "read"
        PROVE  \A D : D = {} => Claims(g, D)'
    <3>1. CalledBy(g, Top) /\ g \in Calls /\ Fits(g)
      BY <1>0, <1>1, <2>1, <2>2, TopCall DEF Chained
    <3>2. Top.op = "build" /\ Top.req = <<>>
      BY <2>3, <3>1 DEF CalledBy
    <3>3. Top.phase = "end"
      BY <1>0, <1>1, <1>5, <3>2, NestedNotRefused DEF Returns
    <3>4. WaitsFor(n) = {} /\ WaitsFor(n - 1) = {Top.dir}
      BY <1>0, <1>1, <2>1, WaitsIs
    <3>5. Claims(Top, {}) /\ Claims(g, {Top.dir})
      BY <1>0, <1>1, <2>1, <2>2, <2>3, <3>2, <3>3, <3>4 DEF Promises
    <3>6. ReachedFrom(Wanted(Top)) = Below(Top.dir)
      BY <3>2 DEF Wanted, Below
    <3>7. ~newer[Top.dir] /\ \A t \in Below(Top.dir) : Good(t)
      BY <1>1, <3>2, <3>3, <3>5, <3>6, EndGood
    <3>8. Claims(g, {})
      BY <3>5, <3>7, CallerClaims
    <3>9. Claims(g, {})'
      BY <1>1, <3>1, <3>2, <3>8, ClaimsKept
    <3> QED
      BY <3>9
  <2> SUFFICES ASSUME NEW k \in 1..(n - 1), NEW h, NEW D,
                      h = stack[k], h.op = "build", h.phase # "read",
                      D = IF k < n - 1 THEN {stack'[k + 1].dir} ELSE {}
               PROVE  Claims(h, D)'
    BY <1>3, <1>5, <2>1, PromisesNext
  <2>4. CASE k < n - 1
    <3>1. k + 1 \in 1..(n - 1) /\ stack'[k + 1] = stack[k + 1]
      BY <1>1, <1>3, <1>5, <2>4
    <3>2. D = {stack[k + 1].dir}
      BY <2>4, <3>1
    <3> QED
      BY <1>0, <1>1, <3>2, WaitingClaims
  <2>5. CASE ~(k < n - 1)
    <3>1. k = n - 1
      BY <1>1, <2>5
    <3> QED
      BY <2>2, <2>3, <2>5, <3>1
  <2> QED
    BY <2>4, <2>5
<1> QED
  BY <1>1, <1>4, <1>5

\* A step that leaves no build, or one that has yet to read.
LEMMA NewPromises ==
  ASSUME Len(stack') \in {0, 1}, Len(stack') = 1 => stack'[1].phase = "read"
  PROVE  Promises'
<1>1. \A m \in {0, 1} : \A k \in 1..m : k = 1 /\ m = 1
  OBVIOUS
<1>2. Len(stack') \in Nat /\ \A k \in 1..Len(stack') : stack'[k].phase = "read"
  BY <1>1
<1> QED
  BY <1>2, PromisesNext

LEMMA StillPromises ==
  ASSUME Promises, UNCHANGED vars
  PROVE  Promises'
<1>1. UNCHANGED <<src, conf, newer, cmd, stack, tree, todo>>
  BY DEF vars
<1>2. \A f, v : Comes(f, v)' <=> Comes(f, v)
  BY <1>1 DEF Comes, Ends, Leaves, Writes
<1>3. /\ \A s : LibraryComes(s)' <=> LibraryComes(s)
      /\ \A s : ImportComes(s)' <=> ImportComes(s)
      /\ \A s : BinaryComes(s)' <=> BinaryComes(s)
      /\ \A s : IsRead(s)' <=> IsRead(s)
  BY <1>1, <1>2 DEF LibraryComes, ImportComes, BinaryComes, IsRead, Edition, TargetOf
<1>4. \A s : Good(s)' <=> Good(s)
  BY <1>3 DEF Good
<1>5. \A d : Below(d)' = Below(d)
  BY <1>1, SameReached
<1>6. \A g : /\ ImportsMade(g)' = ImportsMade(g)
             /\ LibrariesMade(g)' = LibrariesMade(g) /\ BinariesMade(g)' = BinariesMade(g)
  BY <1>1 DEF ImportsMade, LibrariesMade, BinariesMade, Wanted
<1>7. \A g, D : Claims(g, D)' <=> Claims(g, D)
  BY <1>1, <1>3, <1>4, <1>5, <1>6 DEF Claims
<1>8. \A k : WaitsFor(k)' = WaitsFor(k)
  BY <1>1 DEF WaitsFor
<1> QED
  BY <1>1, <1>7, <1>8 DEF Promises

LEMMA StepPromises ==
  ASSUME TypeInv, InTheirPlaces, TargetsApart, OwnTargets, AskedByDefault, RefusedAtRoot,
         NEW rank, Nested(rank), Lower(rank), Configured, NoneNewer, Chained, Promises,
         [Next]_vars
  PROVE  Promises'
<1>1. CASE \/ \E s \in Sections : EditSource(s)
           \/ \E d \in Dirs : \E c \in Confs[d] : EditConf(d, c)
           \/ Clean
  <2>1. ~Running /\ stack' = stack
    BY <1>1 DEF EditSource, EditConf, Clean
  <2> QED
    BY <2>1, NoCalls, NewPromises
<1>2. CASE \E op \in {"build", "install", "binstall", "distclean"} : \E r, b : Give(op, r, b)
  BY <1>2, NewPromises DEF Give, Call
<1>3. CASE Die \/ DieWriting \/ CopyFails
  BY <1>3, NewPromises DEF Die, DieWriting, CopyFails
<1>4. CASE Returns \/ Refuse
  BY <1>4, ReturnPromises
<1>5. CASE ReadConfig
  BY <1>5, ReadConfigPromises
<1>6. CASE EnterSection
  BY <1>6, EnterSectionPromises
<1>7. CASE EndLoop
  BY <1>7, EndLoopPromises
<1>8. CASE EnterSubdir
  BY <1>8, EnterSubdirPromises
<1>9. CASE ConfigChanged
  BY <1>9, ConfigChangedPromises
<1>10. CASE CleanFirst
  BY <1>10, CleanFirstPromises
<1>11. CASE PutFile
  BY <1>11, PutFilePromises
<1>12. CASE UNCHANGED vars
  BY <1>12, StillPromises
<1> QED
  BY <1>1, <1>2, <1>3, <1>4, <1>5, <1>6, <1>7, <1>8, <1>9, <1>10, <1>11, <1>12
     DEF Next, User, Work

-----------------------------------------------------------------------------
(* What build leaves when it returns 0. *)

\* The files of the section are made from its sources, whole or not.
Made(fs, s) ==
  LET t == TargetOf(s) IN
  /\ Built(s) =>
       /\ fs[<<"lib", t>>] = Fresh(s)
       /\ s \in Shared => fs[<<"so", t>>] = Fresh(s)
       /\ fs[<<"di", s>>] \in Content
       /\ fs[<<"di", s>>].ed = src[s] /\ fs[<<"di", s>>].of = t
  /\ Type[s] = "binary" => fs[<<"bin", t>>] \in Content /\ fs[<<"bin", t>>].ed = src[s]

LEMMA MadeIsUpToDate ==
  ASSUME NEW fs, NEW s, Made(fs, s)
  PROVE  UpToDate(fs, s)
BY DEF Made, UpToDate

\* All of the section is made, and no distclean is due where it leads to.
Ready(s) ==
  /\ Made(tree, s) /\ IsRead(s)
  /\ cmd.dbg /\ Built(s) => tree[<<"dbg", TargetOf(s)>>] # Absent

LEMMA EditionIs ==
  ASSUME TypeInv, NEW s \in Sections, NEW b \in BOOLEAN
  PROVE  /\ Edition(s, b) \in Content /\ Edition(s, b) # Absent
         /\ Edition(s, b).ed = src[s] /\ Edition(s, b).of = TargetOf(s)
         /\ Edition(s, FALSE) = Fresh(s)
<1>1. src[s] \in Nat /\ TargetOf(s) \in Targets
  BY VarTypes, TargetIs
<1>2. Edition(s, b) \in Content
  BY <1>1 DEF Edition, Content
<1> QED
  BY <1>2, ProjectAssumption DEF Edition, Fresh

LEMMA GoodIsReady ==
  ASSUME TypeInv, NEW s \in Sections, Good(s), todo = <<>>
  PROVE  Ready(s)
<1>1. LibraryComes(s) /\ ImportComes(s) /\ BinaryComes(s) /\ IsRead(s)
  BY DEF Good
<1>2. PICK t : t = TargetOf(s)
  OBVIOUS
<1>3. \A f, v : Comes(f, v) <=> tree[f] = v
  BY ComesNow
<1>4. /\ Edition(s, FALSE) = Fresh(s) /\ Edition(s, TRUE) # Absent
      /\ \A b \in BOOLEAN : /\ Edition(s, b) \in Content
                           /\ Edition(s, b).ed = src[s] /\ Edition(s, b).of = t
  BY <1>2, EditionIs
<1>5. Built(s) => /\ tree[<<"lib", t>>] = Fresh(s)
                  /\ s \in Shared => tree[<<"so", t>>] = Fresh(s)
                  /\ cmd.dbg => tree[<<"dbg", t>>] # Absent
  BY <1>1, <1>2, <1>3, <1>4 DEF LibraryComes
<1>6. Built(s) => tree[<<"di", s>>] \in Content /\ tree[<<"di", s>>].ed = src[s]
                  /\ tree[<<"di", s>>].of = t
  BY <1>1, <1>3, <1>4 DEF ImportComes
<1>7. Type[s] = "binary" => tree[<<"bin", t>>] \in Content /\ tree[<<"bin", t>>].ed = src[s]
  BY <1>1, <1>2, <1>3, <1>4 DEF BinaryComes
<1> QED
  BY <1>1, <1>2, <1>5, <1>6, <1>7 DEF Ready, Made

LEMMA ReachedIs ==
  ASSUME Running, Chained
  PROVE  Reached = ReachedFrom(Wanted(stack[1]))
BY DEF Chained, Reached, Everything, Wanted

LEMMA EndReady ==
  ASSUME TypeInv, InTheirPlaces, AskedByDefault, Chained, Promises,
         Running, Len(stack) = 1, Top.op = "build", Top.phase = "end", todo = <<>>
  PROVE  ~newer[Root] /\ \A s \in Reached : s \in Sections /\ Ready(s)
<1>1. 1 \in 1..Len(stack) /\ Top = stack[1] /\ Top \in Calls /\ Fits(Top) /\ ~(1 < 1)
  BY TopCall
<1>2. WaitsFor(1) = {}
  BY <1>1, WaitsIs
<1>3. Claims(Top, {}) /\ Top.dir = Root
  BY <1>1, <1>2 DEF Promises, Chained
<1> QED
  BY <1>1, <1>3, EndGood, ReachedIs, GoodIsReady

-----------------------------------------------------------------------------
(* What install copies. *)

Copied(q, f) == \E i \in 1..Len(q) : q[i].where = "copy" /\ q[i].file = f

LEMMA JoinCopied ==
  ASSUME NEW q \in Seq(Steps), NEW r \in Seq(Steps), NEW f
  PROVE  Copied(q \o r, f) <=> Copied(q, f) \/ Copied(r, f)
<1>1. /\ Len(q) \in Nat /\ Len(r) \in Nat /\ Len(q \o r) = Len(q) + Len(r)
      /\ \A i \in 1..Len(q) : (q \o r)[i] = q[i]
      /\ \A i \in 1..Len(r) : (q \o r)[Len(q) + i] = r[i]
  OBVIOUS
<1>2. \A m, n \in Nat : /\ \A i \in 1..m : i \in 1..(m + n)
                        /\ \A i \in 1..n : m + i \in 1..(m + n)
                        /\ \A i \in 1..(m + n) : i \in 1..m \/ (i - m \in 1..n /\ i = m + (i - m))
  OBVIOUS
<1>3. ASSUME Copied(q \o r, f)
      PROVE  Copied(q, f) \/ Copied(r, f)
  <2>1. PICK i \in 1..(Len(q) + Len(r)) : (q \o r)[i].where = "copy" /\ (q \o r)[i].file = f
    BY <1>1, <1>3 DEF Copied
  <2>2. i \in 1..Len(q) \/ (i - Len(q) \in 1..Len(r) /\ i = Len(q) + (i - Len(q)))
    BY <1>1, <1>2, <2>1
  <2> QED
    BY <1>1, <2>1, <2>2 DEF Copied
<1>4. Copied(q, f) => Copied(q \o r, f)
  BY <1>1, <1>2 DEF Copied
<1>5. ASSUME Copied(r, f)
      PROVE  Copied(q \o r, f)
  <2>1. PICK i \in 1..Len(r) : r[i].where = "copy" /\ r[i].file = f
    BY <1>5 DEF Copied
  <2>2. Len(q) + i \in 1..Len(q \o r) /\ (q \o r)[Len(q) + i] = r[i]
    BY <1>1, <1>2, <2>1
  <2> QED
    BY <2>1, <2>2 DEF Copied
<1> QED
  BY <1>3, <1>4, <1>5

LEMMA OneCopied ==
  ASSUME NEW f \in Files
  PROVE  /\ Copies(<<f>>) \in Seq(Steps)
         /\ \A g : Copied(Copies(<<f>>), g) <=> g = f
<1>1. PICK x : x = Put("copy", f, Absent)
  OBVIOUS
<1>2. Copies(<<f>>) = <<x>> /\ x \in Steps /\ x.where = "copy" /\ x.file = f
  BY <1>1, CopyOf DEF Put
<1>3. <<x>> \in Seq(Steps) /\ Len(<<x>>) = 1 /\ <<x>>[1] = x /\ 1 \in 1..1 /\ \A i \in 1..1 : i = 1
  BY <1>2
<1>4. ASSUME NEW g
      PROVE  Copied(<<x>>, g) <=> g = f
  BY <1>2, <1>3 DEF Copied
<1> QED
  BY <1>2, <1>3, <1>4

LEMMA OtherCopied ==
  ASSUME NEW t \in Targets
  PROVE  /\ <<Put("prefix", <<"ln", t>>, Link(t))>> \in Seq(Steps)
         /\ \A g : ~Copied(<<Put("prefix", <<"ln", t>>, Link(t))>>, g)
         /\ <<>> \in Seq(Steps) /\ \A g : ~Copied(<<>>, g)
<1>1. PICK x : x = Put("prefix", <<"ln", t>>, Link(t))
  OBVIOUS
<1>2. x \in Steps /\ x.where = "prefix"
  BY <1>1, FileNames, PutStep, MadeOf DEF Put, Link
<1>3. <<x>> \in Seq(Steps) /\ Len(<<x>>) = 1 /\ <<x>>[1] = x /\ \A i \in 1..1 : i = 1
  BY <1>2
<1>4. \A g : ~Copied(<<x>>, g)
  BY <1>2, <1>3 DEF Copied
<1> QED
  BY <1>1, <1>3, <1>4 DEF Copied

\* What install copies of a section, if it counts the sources that build does.
LEMMA InstallCopies ==
  ASSUME NEW s \in Sections, NEW t \in Targets, NEW f
  PROVE  /\ Built(s) => /\ Copied(InstallPlan(s, t), <<"lib", t>>)
                        /\ Copied(InstallPlan(s, t), <<"di", s>>)
                        /\ s \in Shared => Copied(InstallPlan(s, t), <<"so", t>>)
         /\ Type[s] = "binary" => Copied(InstallPlan(s, t), <<"bin", t>>)
         /\ OnlyDi = {} /\ Copied(InstallPlan(s, t), f) =>
              \/ Built(s) /\ f \in {<<"lib", t>>, <<"di", s>>}
              \/ Built(s) /\ s \in Shared /\ f = <<"so", t>>
              \/ Built(s) /\ cmd.dbg /\ f = <<"dbg", t>>
              \/ Type[s] = "binary" /\ f = <<"bin", t>>
<1> DEFINE l == Copies(<<<<"lib", t>>>>)
           d == IF cmd.dbg THEN Copies(<<<<"dbg", t>>>>) ELSE <<>>
           x == <<Put("prefix", <<"ln", t>>, Link(t))>>
           o == Copies(<<<<"so", t>>>>)
           so == IF s \in Shared THEN o \o x ELSE <<>>
           di == Copies(<<<<"di", s>>>>)
           b == Copies(<<<<"bin", t>>>>)
<1>1. /\ l \in Seq(Steps) /\ \A g : Copied(l, g) <=> g = <<"lib", t>>
      /\ di \in Seq(Steps) /\ \A g : Copied(di, g) <=> g = <<"di", s>>
      /\ o \in Seq(Steps) /\ \A g : Copied(o, g) <=> g = <<"so", t>>
      /\ b \in Seq(Steps) /\ \A g : Copied(b, g) <=> g = <<"bin", t>>
  BY OneCopied, FileNames
<1>2. d \in Seq(Steps) /\ \A g : Copied(d, g) <=> cmd.dbg /\ g = <<"dbg", t>>
  BY OneCopied, OtherCopied, FileNames
<1>3. x \in Seq(Steps) /\ \A g : ~Copied(x, g)
  BY OtherCopied
<1> HIDE DEF l, d, x, o, di, b
<1>4. so \in Seq(Steps) /\ \A g : Copied(so, g) <=> s \in Shared /\ g = <<"so", t>>
  <2>1. o \o x \in Seq(Steps) /\ \A g : Copied(o \o x, g) <=> g = <<"so", t>>
    BY <1>1, <1>3, JoinCopied
  <2> QED
    BY <2>1, OtherCopied
<1>5. InstallPlan(s, t) = CASE Type[s] = "library" /\ s \notin NoSource \ OnlyDi -> l \o d \o so \o di
                            [] Type[s] = "binary" -> b
                            [] OTHER -> <<>>
  BY DEF InstallPlan, l, d, so, o, x, di, b
<1> HIDE DEF so
<1>6. l \o d \in Seq(Steps) /\ \A g : Copied(l \o d, g) <=> Copied(l, g) \/ Copied(d, g)
  BY <1>1, <1>2, JoinCopied
<1>7. l \o d \o so \in Seq(Steps)
      /\ \A g : Copied(l \o d \o so, g) <=> Copied(l, g) \/ Copied(d, g) \/ Copied(so, g)
  <2>1. PICK q : q = l \o d
    OBVIOUS
  <2>2. q \in Seq(Steps) /\ \A g : Copied(q, g) <=> Copied(l, g) \/ Copied(d, g)
    BY <1>6, <2>1
  <2>3. q \o so \in Seq(Steps) /\ \A g : Copied(q \o so, g) <=> Copied(q, g) \/ Copied(so, g)
    BY <1>4, <2>2, JoinCopied
  <2> QED
    BY <2>1, <2>2, <2>3
<1>8. \A g : Copied(l \o d \o so \o di, g) <=>
               Copied(l, g) \/ Copied(d, g) \/ Copied(so, g) \/ Copied(di, g)
  BY <1>1, <1>7, JoinCopied
<1>9. CASE Built(s)
  <2>1. Type[s] = "library" /\ Type[s] # "binary" /\ s \notin NoSource \ OnlyDi
    BY <1>9 DEF Built
  <2>2. InstallPlan(s, t) = l \o d \o so \o di
    BY <1>5, <2>1
  <2> QED
    BY <1>1, <1>2, <1>4, <1>8, <1>9, <2>1, <2>2
<1>10. CASE Type[s] = "binary"
  <2>1. InstallPlan(s, t) = b /\ ~Built(s)
    BY <1>5, <1>10 DEF Built
  <2> QED
    BY <1>1, <1>10, <2>1
<1>11. CASE ~Built(s) /\ Type[s] # "binary" /\ OnlyDi = {}
  <2>1. InstallPlan(s, t) = <<>>
    BY <1>5, <1>11 DEF Built
  <2> QED
    BY <1>11, <2>1, OtherCopied
<1> QED
  BY <1>9, <1>10, <1>11

\* The file is installed, or will be when todo is done.
Lands(f) == prefix[f] = tree[f] \/ Copied(todo, f)

Ships(s) ==
  LET t == TargetOf(s) IN
  /\ Built(s) => Lands(<<"lib", t>>) /\ Lands(<<"di", s>>) /\ (s \in Shared => Lands(<<"so", t>>))
  /\ Type[s] = "binary" => Lands(<<"bin", t>>)

Shipped(g) ==
  CASE g.phase = "copy" -> Passed(Wanted(g), g.at)
    [] g.phase = "end" -> ToSet(Wanted(g))
    [] OTHER -> {}

\* What install promises in call g, which waits for a call in a directory of D or,
\* when D is empty, is the innermost.
Carries(g, D) ==
  /\ g.op = "install" /\ ~newer[g.dir] /\ ToSet(Wanted(g)) \subseteq Reached
  /\ \A s \in Shipped(g) :
       /\ Ships(s)
       /\ Type[s] = "subdir" =>
            \A t \in Below(SubDir[s]) : (\E d \in D : t \in Below(d)) \/ Ships(t)

Installing == Running /\ cmd.op = "binstall" /\ stack[1].op = "install"

\* The install of a binstall: all that the command is about is made, and what has
\* been passed is installed, or will be.
Installs ==
  Installing =>
    /\ \A s \in Reached : Ready(s)
    /\ \A k \in 1..Len(stack) : Carries(stack[k], WaitsFor(k))
    /\ OnlyDi = {} => \A f : Copied(todo, f) => tree[f] # Absent

LEMMA InstallHas ==
  ASSUME TypeInv, Installs, Installing
  PROVE  /\ Running /\ Top \in Calls /\ Fits(Top) /\ Top.dir \in Dirs /\ Top.op = "install"
         /\ Top.phase \in {"read", "copy", "end"} /\ ~newer[Top.dir]
         /\ Len(stack) \in Nat \ {0} /\ Top = stack[Len(stack)]
         /\ \A k \in 1..Len(stack) :
              stack[k] \in Calls /\ Fits(stack[k]) /\ Carries(stack[k], WaitsFor(k))
         /\ Carries(Top, {})
<1>1. Running /\ \A k \in 1..Len(stack) : Carries(stack[k], WaitsFor(k))
  BY DEF Installing, Installs
<1>2. /\ Len(stack) \in Nat \ {0} /\ Top = stack[Len(stack)] /\ Top \in Calls /\ Fits(Top)
      /\ Top.dir \in Dirs /\ Len(stack) \in 1..Len(stack) /\ ~(Len(stack) < Len(stack))
      /\ \A k \in 1..Len(stack) : stack[k] \in Calls /\ Fits(stack[k])
  BY <1>1, TopCall DEF Calls
<1>3. WaitsFor(Len(stack)) = {}
  BY <1>2, WaitsIs
<1>4. Carries(Top, {}) /\ Top.op = "install" /\ ~newer[Top.dir]
  BY <1>1, <1>2, <1>3 DEF Carries
<1> QED
  BY <1>1, <1>2, <1>4 DEF Fits, PhasesOf

\* A step of an install that copies, or makes a short name.
LEMMA InstallPuts ==
  ASSUME TypeInv, Installs, Installing, PutFile
  PROVE  /\ UNCHANGED tree
         /\ \A f \in Files : f[1] # "ln" /\ Lands(f) => Lands(f)'
         /\ \A f : Copied(todo', f) => Copied(todo, f)
<1> DEFINE n == Len(todo)
           step == todo[1]
<1>1. /\ todo # <<>> /\ n \in Nat \ {0} /\ Head(todo) = step /\ todo' = Tail(todo)
      /\ Len(todo') = n - 1 /\ \A i \in 1..(n - 1) : todo'[i] = todo[i + 1]
      /\ step \in Steps /\ Doing(cmd, Top, todo) /\ 1 \in 1..n
  BY TodoIs DEF PutFile
<1>2. Top.phase = "copy"
  BY <1>1, InstallHas DEF Doing, Loops
<1>3. \/ step.where = "prefix" /\ step.file[1] = "ln"
      \/ step.where = "copy"
  BY <1>1, <1>2 DEF Doing, StepsOf
<1>4. /\ UNCHANGED tree
      /\ \A f \in Files : prefix'[f] = prefix[f] \/ (step.where = "copy" /\ step.file = f)
                          \/ f[1] = "ln"
      /\ step.where = "copy" => prefix'[step.file] = tree[step.file]
  BY <1>1, <1>3, VarTypes DEF PutFile, Steps
<1>5. \A i \in 1..(n - 1) : i + 1 \in 1..n
  BY <1>1
<1>6. \A f : Copied(todo', f) => Copied(todo, f)
  BY <1>1, <1>5 DEF Copied
<1>7. ASSUME NEW f, Copied(todo, f)
      PROVE  (step.where = "copy" /\ step.file = f) \/ Copied(todo', f)
  <2>1. PICK i \in 1..n : todo[i].where = "copy" /\ todo[i].file = f
    BY <1>7 DEF Copied
  <2>2. CASE i = 1
    BY <2>1, <2>2
  <2>3. CASE i # 1
    <3>1. i - 1 \in 1..(n - 1) /\ i - 1 + 1 = i
      BY <1>1, <2>3
    <3> QED
      BY <1>1, <2>1, <3>1 DEF Copied
  <2> QED
    BY <2>2, <2>3
<1>8. ASSUME NEW f \in Files, f[1] # "ln", Lands(f)
      PROVE  Lands(f)'
  <2>1. Copied(todo', f) => Lands(f)'
    BY DEF Lands, Copied
  <2>2. CASE step.where = "copy" /\ step.file = f
    <3>1. prefix'[f] = tree'[f]
      BY <1>4, <2>2
    <3> QED
      BY <3>1 DEF Lands
  <2>3. CASE ~(step.where = "copy" /\ step.file = f)
    <3>1. prefix'[f] = prefix[f] /\ tree'[f] = tree[f]
      BY <1>4, <1>8, <2>3
    <3> QED
      BY <1>7, <1>8, <2>1, <2>3, <3>1 DEF Lands
  <2> QED
    BY <2>2, <2>3
<1> QED
  BY <1>4, <1>6, <1>8

LEMMA InstallGoes ==
  ASSUME TypeInv, Installs, Installing, Goes
  PROVE  /\ UNCHANGED <<src, conf, tree>> /\ ~ConfigChanged /\ ~CleanFirst /\ ~Refuse
         /\ \A f \in Files : f[1] # "ln" /\ Lands(f) => Lands(f)'
<1>1. Top.phase \in {"read", "copy", "end"} /\ ~newer[Top.dir]
  BY InstallHas
<1>2. ~ConfigChanged /\ ~CleanFirst /\ ~Refuse
  BY <1>1 DEF ConfigChanged, CleanFirst, Refuse, Refused
<1>3. CASE PutFile
  BY <1>2, <1>3, InstallPuts, GoesOn
<1>4. CASE ~PutFile
  <2>1. UNCHANGED <<src, conf, tree, prefix>>
    BY <1>2, <1>4, GoesOn DEF Goes, ReadConfig, EnterSection, EnterSubdir, EndLoop, Returns, Return
  <2>2. todo = <<>> \/ UNCHANGED todo
    BY <1>2, <1>4 DEF Goes, ReadConfig, EnterSection, EnterSubdir, EndLoop, Returns, Return,
       InLoop, Looping
  <2>3. CASE UNCHANGED todo
    BY <1>2, <2>1, <2>3 DEF Lands, Copied
  <2>4. CASE todo = <<>>
    <3>1. \A f : ~Copied(todo, f)
      BY <2>4 DEF Copied
    <3> QED
      BY <1>2, <2>1, <3>1 DEF Lands
  <2> QED
    BY <2>2, <2>3, <2>4
<1> QED
  BY <1>3, <1>4

LEMMA InstallKeeps ==
  ASSUME TypeInv, InTheirPlaces, Installs, Installing, Goes
  PROVE  /\ Reached' = Reached /\ \A s \in Reached : Ready(s)'
         /\ \A s \in Sections : Ships(s) => Ships(s)'
         /\ \A g \in Calls : \A D : Fits(g) /\ Carries(g, D) => Carries(g, D)'
<1>1. /\ UNCHANGED <<src, conf, tree>> /\ cmd'.dbg = cmd.dbg /\ cmd'.req = cmd.req
      /\ \A d \in Dirs : ~newer[d] => ~newer'[d]
      /\ \A f \in Files : f[1] # "ln" /\ Lands(f) => Lands(f)'
  BY InstallGoes, GoesOn
<1>2. Reached' = Reached
  BY <1>1 DEF Reached, Everything, ReachedFrom
<1>3. ASSUME NEW s \in Reached
      PROVE  Ready(s)'
  <2>1. Ready(s) /\ s \in Sections
    BY <1>3 DEF Installs, Reached, Everything, ReachedFrom
  <2>2. IsRead(s)'
    BY <1>1, <2>1, SubDirIs DEF Ready, IsRead
  <2>3. TargetOf(s)' = TargetOf(s)
    BY <1>1 DEF TargetOf
  <2>4. Made(tree, s)'
    BY <1>1, <2>1, <2>3 DEF Ready, Made, Fresh
  <2> QED
    BY <1>1, <2>1, <2>2, <2>3, <2>4 DEF Ready
<1>4. ASSUME NEW s \in Sections, Ships(s)
      PROVE  Ships(s)'
  <2>1. PICK t \in Targets : t = TargetOf(s) /\ t = TargetOf(s)'
    <3>1. TargetOf(s)' = TargetOf(s)
      BY <1>1 DEF TargetOf
    <3> QED
      BY <3>1, TargetIs
  <2>2. /\ <<"lib", t>> \in Files /\ <<"so", t>> \in Files /\ <<"bin", t>> \in Files
        /\ <<"di", s>> \in Files
    BY FileNames
  <2>3. \A f \in {<<"lib", t>>, <<"so", t>>, <<"bin", t>>, <<"di", s>>} : Lands(f) => Lands(f)'
    BY <1>1, <2>2
  <2> QED
    BY <1>4, <2>1, <2>3 DEF Ships
<1>5. ASSUME NEW g \in Calls, NEW D, Fits(g), Carries(g, D)
      PROVE  Carries(g, D)'
  <2>1. g.dir \in Dirs /\ Wanted(g)' = Wanted(g) /\ Shipped(g)' = Shipped(g)
    BY <1>1 DEF Calls, Wanted, Shipped
  <2>2. Shipped(g) \subseteq Sections
    <3>1. ToSet(Wanted(g)) \subseteq Sections
      BY <1>5, WantedIs
    <3>2. Passed(Wanted(g), g.at) \subseteq ToSet(Wanted(g))
      BY <1>5, WantedIs DEF Passed, ToSet
    <3> QED
      BY <3>1, <3>2 DEF Shipped
  <2>3. \A d : Below(d)' = Below(d) /\ Below(d) \subseteq Sections
    BY <1>1, SameReached DEF Below, ReachedFrom
  <2> QED
    BY <1>1, <1>2, <1>4, <1>5, <2>1, <2>2, <2>3 DEF Carries
<1> QED
  BY <1>2, <1>3, <1>4, <1>5

LEMMA InstallsNext ==
  ASSUME Len(stack') \in Nat,
         Installing' => /\ \A s \in Reached' : Ready(s)'
                        /\ \A k \in 1..Len(stack') : \A g, D :
                             /\ g = stack'[k]
                             /\ D = IF k < Len(stack') THEN {stack'[k + 1].dir} ELSE {}
                             => Carries(g, D)'
                        /\ OnlyDi = {} => \A f : Copied(todo', f) => tree'[f] # Absent
  PROVE  Installs'
<1>1. ASSUME NEW k \in 1..Len(stack'), Installing'
      PROVE  Carries(stack[k], WaitsFor(k))'
  <2> DEFINE D == IF k < Len(stack') THEN {stack'[k + 1].dir} ELSE {}
  <2>1. WaitsFor(k)' = D
    <3>1. k + 1 \in 1..Len(stack') <=> k < Len(stack')
      OBVIOUS
    <3> QED
      BY <3>1 DEF WaitsFor
  <2>2. PICK g, E : g = stack'[k] /\ E = D
    OBVIOUS
  <2>3. Carries(g, E)'
    BY <1>1, <2>2
  <2> QED
    BY <2>1, <2>2, <2>3
<1>2. (\A f : Copied(todo', f) => tree'[f] # Absent) => (\A f : Copied(todo, f) => tree[f] # Absent)'
  BY DEF Copied
<1> QED
  BY <1>1, <1>2 DEF Installs

\* A call of install that waits keeps its promise.
LEMMA WaitingCarries ==
  ASSUME TypeInv, InTheirPlaces, Installs, Installing, Goes, NEW k \in 1..(Len(stack) - 1)
  PROVE  \A g, D : g = stack[k] /\ D = {stack[k + 1].dir} => Carries(g, D)'
<1>1. Len(stack) \in Nat \ {0} /\ k \in 1..Len(stack) /\ k < Len(stack)
  BY InstallHas
<1>2. stack[k] \in Calls /\ Fits(stack[k]) /\ Carries(stack[k], WaitsFor(k))
  BY <1>1, InstallHas
<1>3. WaitsFor(k) = {stack[k + 1].dir}
  BY <1>1, WaitsIs
<1> QED
  BY <1>2, <1>3, InstallKeeps

LEMMA StayInstalls ==
  ASSUME TypeInv, InTheirPlaces, Installs, Installing, Goes, Stays,
         \A h, D : h = Top' /\ D = {} => Carries(h, D)',
         OnlyDi = {} => \A f : Copied(todo', f) => tree'[f] # Absent
  PROVE  Installs'
<1> DEFINE n == Len(stack)
<1>1. n \in Nat \ {0} /\ Top = stack[n] /\ Len(stack') = n
  BY InstallHas DEF Stays
<1>2. \A k \in 1..n : k \in 1..(n - 1) \/ k = n
  BY <1>1
<1>3. \A k \in 1..n : stack'[k].dir = stack[k].dir
  BY <1>1, <1>2 DEF Stays
<1>4. ASSUME NEW k \in 1..n, NEW g, NEW D, g = stack'[k],
             D = IF k < n THEN {stack'[k + 1].dir} ELSE {}
      PROVE  Carries(g, D)'
  <2>1. CASE k = n
    BY <1>1, <1>4, <2>1 DEF Stays
  <2>2. CASE k \in 1..(n - 1)
    <3>1. k + 1 \in 1..n /\ k < n /\ g = stack[k]
      BY <1>1, <1>4, <2>2 DEF Stays
    <3>2. D = {stack[k + 1].dir}
      BY <1>3, <1>4, <3>1
    <3> QED
      BY <2>2, <3>1, <3>2, WaitingCarries
  <2> QED
    BY <1>2, <2>1, <2>2
<1> QED
  BY <1>1, <1>4, InstallKeeps, InstallsNext

\* The innermost call of an install, where it is.
LEMMA TopCarries ==
  ASSUME TypeInv, InTheirPlaces, Installs, Installing, Goes
  PROVE  Carries(Top, {}) /\ \A g, D : g = Top /\ D = {} => Carries(g, D)'
BY InstallHas, InstallKeeps

\* It goes on: what it has passed more ships as well.
LEMMA CarriesStep ==
  ASSUME NEW g, NEW h, NEW D, NEW E, D \subseteq E, Carries(g, D)',
         h.op = g.op, h.dir = g.dir, Wanted(h)' = Wanted(g)',
         \A s \in Shipped(h)' :
           \/ s \in Shipped(g)'
           \/ /\ Ships(s)'
              /\ Type[s] = "subdir" => \A t \in Below(SubDir[s])' : \E d \in E : t \in Below(d)'
  PROVE  Carries(h, E)'
BY DEF Carries

LEMMA ReadConfigInstalls ==
  ASSUME TypeInv, InTheirPlaces, Installs, Installing, ReadConfig
  PROVE  Installs'
<1>1. Goes /\ Stays /\ Top'.phase = FirstPhase(Top.op) /\ Top'.at = 1 /\ todo' = <<>>
  BY ReadConfigStays, ReadConfigMoves DEF Goes, ReadConfig, userVars
<1>2. PICK g, h, D : g = Top /\ h = Top' /\ D = {}
  OBVIOUS
<1>3. Carries(g, D)' /\ g.op = "install"
  BY <1>1, <1>2, TopCarries, InstallHas
<1>4. h.op = g.op /\ h.dir = g.dir /\ h.req = g.req /\ h.phase = "copy" /\ h.at = 1
  BY <1>1, <1>2, <1>3 DEF Stays, FirstPhase
<1>5. \A q : Passed(q, 1) = {}
  <2>1. \A q : \A j \in 1..Len(q) : ~(j < 1)
    OBVIOUS
  <2> QED
    BY <2>1 DEF Passed
<1>6. Wanted(h)' = Wanted(g)' /\ Shipped(h)' = {}
  BY <1>4, <1>5 DEF Wanted, Shipped
<1>7. Carries(h, D)'
  BY <1>3, <1>4, <1>6, CarriesStep
<1>8. \A f : ~Copied(todo', f)
  BY <1>1 DEF Copied
<1> QED
  BY <1>1, <1>2, <1>7, <1>8, StayInstalls

LEMMA EndLoopInstalls ==
  ASSUME TypeInv, InTheirPlaces, Installs, Installing, EndLoop
  PROVE  Installs'
<1>1. Goes /\ Stays /\ Top'.phase = NextPhase(Top.phase) /\ todo' = <<>>
  BY EndLoopStays DEF Goes, EndLoop, Looping
<1>2. PICK g, h, D : g = Top /\ h = Top' /\ D = {}
  OBVIOUS
<1>3. /\ Carries(g, D)' /\ g \in Calls /\ Fits(g) /\ g.phase = "copy"
      /\ g.at > Len(Secs(g)) /\ UNCHANGED conf
  BY <1>1, <1>2, TopCarries, InstallHas, GoesOn DEF EndLoop, Looping, Loops
<1>4. h.op = g.op /\ h.dir = g.dir /\ h.req = g.req /\ h.phase = "end"
  BY <1>1, <1>2, <1>3 DEF Stays, NextPhase
<1>5. Secs(g) = Wanted(g) /\ g.at \in Nat \ {0}
  BY <1>3 DEF Secs, Wanted, Fits
<1>6. ToSet(Wanted(g)) = Passed(Wanted(g), g.at)
  BY <1>3, <1>5, ListsHere, PassedIs
<1>7. Wanted(h)' = Wanted(g)' /\ Wanted(g)' = Wanted(g)
  BY <1>3, <1>4 DEF Wanted
<1>8. Shipped(h)' = Shipped(g)'
  BY <1>3, <1>4, <1>6, <1>7 DEF Shipped
<1>9. Carries(h, D)'
  BY <1>3, <1>4, <1>7, <1>8, CarriesStep
<1>10. \A f : ~Copied(todo', f)
  BY <1>1 DEF Copied
<1> QED
  BY <1>1, <1>2, <1>9, <1>10, StayInstalls

LEMMA PutFileInstalls ==
  ASSUME TypeInv, InTheirPlaces, Installs, Installing, PutFile
  PROVE  Installs'
<1>1. Goes /\ Stays /\ Top' = Top
  <2>1. Goes /\ UNCHANGED stack
    BY DEF Goes, PutFile
  <2>2. Len(stack) \in Nat \ {0} /\ \A k \in 1..(Len(stack) - 1) : stack'[k] = stack[k]
    BY <2>1, InstallHas
  <2> QED
    BY <2>1, <2>2 DEF Stays, Top
<1>2. \A g, D : g = Top /\ D = {} => Carries(g, D)'
  BY <1>1, TopCarries
<1>3. OnlyDi = {} => \A f : Copied(todo', f) => tree'[f] # Absent
  BY InstallPuts DEF Installs
<1> QED
  BY <1>1, <1>2, <1>3, StayInstalls

LEMMA EnterSectionInstalls ==
  ASSUME TypeInv, InTheirPlaces, Installs, Installing, EnterSection
  PROVE  Installs'
<1>1. Goes /\ Stays /\ Top'.phase = Top.phase /\ Top'.at = Top.at + 1
  BY EnterSectionStays DEF Goes
<1>2. PICK g, h, D, s : g = Top /\ h = Top' /\ D = {} /\ s = Current
  OBVIOUS
<1>3. PICK t : t = TargetOf(s)
  OBVIOUS
<1>4. /\ Carries(g, D)' /\ Carries(g, {}) /\ g \in Calls /\ Fits(g) /\ g.op = "install"
      /\ g.phase = "copy" /\ UNCHANGED <<src, conf, tree>> /\ ~Recurses
      /\ s \in Sections /\ t \in Targets /\ todo' = InstallPlan(s, t)
  BY <1>1, <1>2, <1>3, TopCarries, InstallHas, InstallGoes, EnterHome DEF EnterSection, Loops, Plan
<1>5. h.op = g.op /\ h.dir = g.dir /\ h.req = g.req /\ h.phase = "copy" /\ h.at = g.at + 1
  BY <1>1, <1>2, <1>4 DEF Stays
<1>6. Secs(g) = Wanted(g) /\ g.at \in 1..Len(Secs(g)) /\ g.at \in Nat \ {0} /\ s = Secs(g)[g.at]
  BY <1>2, <1>4, LoopCall DEF EnterSection, Secs, Wanted, Fits
<1>7. s \in ToSet(Wanted(g)) /\ s \in Reached
  BY <1>4, <1>6, ListsHere DEF Carries, ToSet
<1>8. Ready(s) /\ Type[s] # "subdir"
  BY <1>2, <1>4, <1>7 DEF Installs, Recurses
<1>9. Ships(s)'
  <2>1. TargetOf(s)' = t
    BY <1>3, <1>4 DEF TargetOf
  <2>2. \A f : Copied(todo', f) => Lands(f)'
    BY DEF Lands, Copied
  <2>3. /\ Built(s) => Lands(<<"lib", t>>)' /\ Lands(<<"di", s>>)' /\ (s \in Shared => Lands(<<"so", t>>)')
        /\ Type[s] = "binary" => Lands(<<"bin", t>>)'
    BY <1>4, <2>2, InstallCopies
  <2> QED
    BY <2>1, <2>3 DEF Ships
<1>10. ASSUME OnlyDi = {}, NEW f, Copied(todo', f)
       PROVE  tree'[f] # Absent
  <2>1. \/ Built(s) /\ f \in {<<"lib", t>>, <<"di", s>>}
        \/ Built(s) /\ s \in Shared /\ f = <<"so", t>>
        \/ Built(s) /\ cmd.dbg /\ f = <<"dbg", t>>
        \/ Type[s] = "binary" /\ f = <<"bin", t>>
    BY <1>4, <1>10, InstallCopies
  <2>2. Fresh(s) # Absent /\ Absent \notin Content
    BY <1>4, EditionIs, ProjectAssumption
  <2>3. tree[f] # Absent
    BY <1>3, <1>8, <2>1, <2>2 DEF Ready, Made
  <2> QED
    BY <1>4, <2>3
<1>11. Wanted(h)' = Wanted(g)' /\ Wanted(g)' = Wanted(g)
  BY <1>4, <1>5 DEF Wanted
<1>12. \A r \in Passed(Wanted(g), g.at + 1) : r \in Passed(Wanted(g), g.at) \/ r = s
  BY <1>4, <1>6, ListsHere, PassedIs
<1>13. \A r \in Shipped(h)' : r \in Shipped(g)' \/ r = s
  BY <1>4, <1>5, <1>11, <1>12 DEF Shipped
<1>14. Carries(h, D)'
  BY <1>4, <1>5, <1>8, <1>9, <1>11, <1>13, CarriesStep
<1> QED
  BY <1>1, <1>2, <1>10, <1>14, StayInstalls

LEMMA EnterSubdirInstalls ==
  ASSUME TypeInv, InTheirPlaces, Installs, Installing, EnterSubdir
  PROVE  Installs'
<1>0. PICK s, n, g, h, c, D, E :
        /\ s = Current /\ n = Len(stack) /\ g = Top /\ h = stack'[n] /\ c = stack'[n + 1]
        /\ D = {} /\ E = {SubDir[s]}
  OBVIOUS
<1>1. /\ Goes /\ UNCHANGED <<conf, newer, cmd, tree>> /\ todo' = <<>>
      /\ n \in Nat \ {0} /\ g = stack[n] /\ g \in Calls /\ Fits(g) /\ g.dir \in Dirs
      /\ g.phase = "copy" /\ g.op = "install" /\ Carries(g, {}) /\ Carries(g, D)'
      /\ g.at \in 1..Len(Secs(g)) /\ s = Secs(g)[g.at]
      /\ s \in Sections /\ Type[s] = "subdir" /\ SubDir[s] \in Dirs
      /\ Len(stack') = n + 1 /\ \A k \in 1..(n - 1) : stack'[k] = stack[k]
      /\ h.op = g.op /\ h.dir = g.dir /\ h.req = g.req /\ h.phase = g.phase /\ h.at = g.at + 1
      /\ c = Call("install", SubDir[s], <<>>)
  BY <1>0, EnterSubdirStack, InstallHas, TopCarries DEF Goes
<1>2. c.op = "install" /\ c.dir = SubDir[s] /\ c.req = <<>> /\ c.phase = "read"
  BY <1>1 DEF Call
<1>3. Secs(g) = Wanted(g) /\ g.at \in Nat \ {0}
  BY <1>1 DEF Secs, Wanted, Fits
<1>4. s \in Reached /\ Ready(s)
  BY <1>1, <1>3, ListsHere DEF Carries, ToSet, Installs
<1>5. Carries(c, D)'
  <2>1. ~newer'[c.dir] /\ Shipped(c)' = {} /\ Wanted(c)' = Default[conf[SubDir[s]]]
    BY <1>1, <1>2, <1>4 DEF Ready, IsRead, Shipped, Wanted
  <2>2. ToSet(Default[conf[SubDir[s]]]) \subseteq Reached
    <3>1. PICK q : Reached = ReachedFrom(q)
      BY DEF Reached, Everything
    <3>2. SUFFICES ASSUME NEW r \in ToSet(Default[conf[SubDir[s]]]),
                          NEW S \in SUBSET Sections, ToSet(q) \subseteq S, ClosedDown(S)
                   PROVE  r \in S
      BY <1>1, <3>1, ListOf DEF ReachedFrom, ClosedDown
    <3>3. s \in S
      BY <1>4, <3>1, <3>2, ReachedLeast
    <3> QED
      BY <1>1, <3>2, <3>3 DEF ClosedDown
  <2>3. Reached' = Reached
    BY <1>1, InstallKeeps
  <2> QED
    BY <1>2, <2>1, <2>2, <2>3 DEF Carries
<1>6. Carries(h, E)'
  <2>1. Wanted(h)' = Wanted(g)' /\ Wanted(g)' = Wanted(g)
    BY <1>1 DEF Wanted
  <2>2. \A r \in Passed(Wanted(g), g.at + 1) : r \in Passed(Wanted(g), g.at) \/ r = s
    BY <1>1, <1>3, ListsHere, PassedIs
  <2>3. \A r \in Shipped(h)' : r \in Shipped(g)' \/ r = s
    BY <1>1, <2>1, <2>2 DEF Shipped
  <2>4. Ships(s)'
    BY <1>1 DEF Ships, Built
  <2>5. \A t \in Below(SubDir[s])' : \E d \in E : t \in Below(d)'
    BY <1>0
  <2>6. D \subseteq E
    BY <1>0
  <2> QED
    BY <1>1, <2>1, <2>3, <2>4, <2>5, <2>6, CarriesStep
<1>7. \A k \in 1..n : stack'[k].dir = stack[k].dir
  <2>1. \A k \in 1..n : k \in 1..(n - 1) \/ k = n
    BY <1>1
  <2> QED
    BY <1>0, <1>1, <2>1
<1>8. ASSUME NEW k \in 1..(n + 1), NEW f, NEW F, f = stack'[k],
             F = IF k < n + 1 THEN {stack'[k + 1].dir} ELSE {}
      PROVE  Carries(f, F)'
  <2>1. CASE k = n + 1
    <3>1. ~(k < n + 1)
      BY <1>1, <2>1
    <3>2. F = D /\ f = c
      BY <1>0, <1>8, <2>1, <3>1
    <3> QED
      BY <1>5, <3>2
  <2>2. CASE k = n
    <3>1. k < n + 1
      BY <1>1, <2>2
    <3>2. F = E /\ f = h
      BY <1>0, <1>2, <1>8, <2>2, <3>1
    <3> QED
      BY <1>6, <3>2
  <2>3. CASE k \in 1..(n - 1)
    <3>1. k + 1 \in 1..n /\ k < n + 1
      BY <1>1, <2>3
    <3>2. f = stack[k]
      BY <1>1, <1>8, <2>3
    <3>3. F = {stack[k + 1].dir}
      BY <1>7, <1>8, <3>1
    <3> QED
      BY <1>0, <1>1, <2>3, <3>2, <3>3, WaitingCarries
  <2> QED
    BY <1>1, <2>1, <2>2, <2>3
<1>9. \A f : ~Copied(todo', f)
  BY <1>1 DEF Copied
<1> QED
  BY <1>1, <1>8, <1>9, InstallKeeps, InstallsNext

LEMMA ReturnInstalls ==
  ASSUME TypeInv, InTheirPlaces, Chained, Installs, Installing, Returns
  PROVE  Installs'
<1>0. PICK n : n = Len(stack)
  OBVIOUS
<1>1. /\ Goes /\ n \in Nat \ {0} /\ Top = stack[n] /\ Top \in Calls /\ Fits(Top) /\ Top.dir \in Dirs
      /\ Top.phase = "end" /\ Top.op = "install" /\ Carries(Top, {}) /\ Running
  BY <1>0, InstallHas DEF Goes, Returns
<1>2. /\ todo' = <<>>
      /\ n = 1 => Len(stack') = 0 /\ cmd' = [cmd EXCEPT !.state = "ok"]
      /\ n > 1 => Len(stack') = n - 1 /\ \A k \in 1..(n - 1) : stack'[k] = stack[k]
  BY <1>0, <1>1, ReturnStack DEF Returns
<1>3. CASE n = 1
  <2>1. ~Running' /\ Len(stack') \in Nat
    BY <1>2, <1>3, VarTypes DEF Running, Commands
  <2> QED
    BY <2>1, InstallsNext DEF Installing
<1>4. CASE n > 1
  <2>1. n - 1 \in Nat /\ n - 1 \in 1..(n - 1) /\ n \in 1..n /\ n - 1 \in 1..n
        /\ n - 1 < n /\ (n - 1) + 1 = n /\ ~(n - 1 < n - 1)
    BY <1>1, <1>4
  <2>2. PICK g : g = stack[n - 1]
    OBVIOUS
  <2>3. CalledBy(g, Top) /\ g \in Calls /\ Fits(g) /\ Carries(g, WaitsFor(n - 1))
    BY <1>0, <1>1, <2>1, <2>2, InstallHas DEF Chained
  <2>4. Top.req = <<>> /\ WaitsFor(n - 1) = {Top.dir}
    BY <1>0, <1>1, <2>1, <2>3, WaitsIs DEF CalledBy
  <2>5. ASSUME NEW t \in Below(Top.dir)
        PROVE  Ships(t)
    <3>1. Shipped(Top) = ToSet(Default[conf[Top.dir]])
      BY <1>1, <2>4 DEF Shipped, Wanted
    <3>2. \/ t \in Shipped(Top)
          \/ \E s \in Shipped(Top) : Type[s] = "subdir" /\ t \in Below(SubDir[s])
      BY <1>1, <2>5, <3>1, ListOf, ReachedStep DEF Below
    <3> QED
      BY <1>1, <3>2 DEF Carries
  <2>6. Carries(g, {})
    BY <2>3, <2>4, <2>5 DEF Carries
  <2>7. \A D : D = {} => Carries(g, D)'
    BY <1>1, <2>3, <2>6, InstallKeeps
  <2>8. ASSUME NEW k \in 1..(n - 1), NEW h, NEW D, h = stack'[k],
               D = IF k < n - 1 THEN {stack'[k + 1].dir} ELSE {}
        PROVE  Carries(h, D)'
    <3>1. CASE k < n - 1
      <4>1. k + 1 \in 1..(n - 1) /\ stack'[k + 1] = stack[k + 1] /\ h = stack[k]
        BY <1>1, <1>2, <1>4, <2>8, <3>1
      <4>2. D = {stack[k + 1].dir}
        BY <2>8, <3>1, <4>1
      <4> QED
        BY <1>0, <1>1, <4>1, <4>2, WaitingCarries
    <3>2. CASE ~(k < n - 1)
      <4>1. k = n - 1 /\ h = g
        BY <1>1, <1>2, <1>4, <2>2, <2>8, <3>2
      <4> QED
        BY <2>7, <2>8, <3>2, <4>1
    <3> QED
      BY <3>1, <3>2
  <2>9. \A f : ~Copied(todo', f)
    BY <1>2 DEF Copied
  <2> QED
    BY <1>1, <1>2, <1>4, <2>1, <2>8, <2>9, InstallKeeps, InstallsNext
<1> QED
  BY <1>1, <1>3, <1>4

\* Install begins when build has returned 0.
LEMMA BuildThenInstall ==
  ASSUME TypeInv, InTheirPlaces, AskedByDefault, Chained, Promises,
         Returns, Len(stack) = 1, Top.op = "build", cmd.op = "binstall"
  PROVE  Installs'
<1>1. Running /\ Top.phase = "end" /\ Return(0)
  BY DEF Returns
<1>2. /\ todo = <<>> /\ todo' = <<>> /\ UNCHANGED <<src, conf, newer, tree, cmd>>
      /\ Len(stack') = 1 /\ stack'[1] = Call("install", Root, cmd.req)
  BY <1>1, ReturnStack
<1>3. ~newer[Root] /\ \A s \in Reached : s \in Sections /\ Ready(s)
  BY <1>1, <1>2, EndReady
<1>4. Reached' = Reached
  BY <1>2 DEF Reached, Everything, ReachedFrom
<1>5. ASSUME NEW s \in Reached
      PROVE  Ready(s)'
  <2>1. Ready(s)
    BY <1>3, <1>5
  <2> QED
    BY <1>2, <2>1 DEF Ready, IsRead, Made, Fresh, TargetOf
<1>6. PICK h : h = stack'[1]
  OBVIOUS
<1>7. h.op = "install" /\ h.dir = Root /\ h.req = cmd.req /\ h.phase = "read"
  BY <1>2, <1>6 DEF Call
<1>8. ToSet(Wanted(h)) \subseteq Reached
  <2>1. Reached = ReachedFrom(Wanted(h))
    BY <1>7 DEF Reached, Everything, Wanted
  <2>2. ToSet(Wanted(h)) \subseteq Sections
    <3>1. Root \in Dirs /\ cmd.req \in Requests \union {<<>>}
      BY VarTypes, ProjectAssumption DEF Commands
    <3>2. cmd.req # <<>> => cmd.req \in Seq(Sections) /\ ToSet(cmd.req) \subseteq Sections
      BY <3>1, ElementOfSeq, LenProperties, ProjectAssumption DEF ToSet
    <3> QED
      BY <1>7, <3>1, <3>2, ListOf DEF Wanted
  <2> QED
    BY <2>1, <2>2, ReachedHas
<1>9. \A D : Carries(h, D)'
  <2>1. Wanted(h)' = Wanted(h) /\ Shipped(h)' = {}
    BY <1>2, <1>7 DEF Wanted, Shipped
  <2> QED
    BY <1>2, <1>3, <1>4, <1>7, <1>8, <2>1 DEF Carries
<1>10. \A f : ~Copied(todo', f)
  BY <1>2 DEF Copied
<1>11. \A m \in {1} : \A k \in 1..m : k = 1
  OBVIOUS
<1>12. \A k \in 1..Len(stack') : \A g, D : g = stack'[k] => Carries(g, D)'
  BY <1>2, <1>6, <1>9, <1>11
<1> QED
  BY <1>2, <1>4, <1>5, <1>10, <1>12, InstallsNext

\* Any other step leaves the outermost call to its function.
LEMMA FirstCall ==
  ASSUME TypeInv, Chained, Goes, ~Installing
  PROVE  \/ ~Installing'
         \/ Returns /\ Len(stack) = 1 /\ Top.op = "build" /\ cmd.op = "binstall"
<1>0. PICK n : n = Len(stack)
  OBVIOUS
<1>1. Running /\ cmd'.op = cmd.op /\ n \in Nat \ {0} /\ Top = stack[n]
  BY <1>0, GoesOn, TopCall
<1>2. stack'[1].op = stack[1].op => ~Installing'
  BY <1>1 DEF Installing
<1>3. (n = 1 \/ (n > 1 /\ 1 \in 1..(n - 1))) /\ 1 \in 1..n
  BY <1>1
<1>4. CASE Returns \/ Refuse
  <2>1. PICK ret \in {0, 1} : /\ Return(ret) /\ (Top.phase = "end" \/ InLoop)
                              /\ ret = 0 => Returns
    BY <1>4 DEF Returns, Refuse
  <2>2. /\ n > 1 => \A k \in 1..(n - 1) : stack'[k] = stack[k]
        /\ n = 1 /\ ~(cmd.op = "binstall" /\ Top.op = "build" /\ ret = 0) =>
             cmd' = [cmd EXCEPT !.state = IF ret = 0 THEN "ok" ELSE "error"]
    BY <1>0, <1>1, <2>1, ReturnStack
  <2>3. CASE n > 1
    <3>1. 1 \in 1..(n - 1)
      BY <1>1, <2>3
    <3> QED
      BY <1>2, <2>2, <2>3, <3>1
  <2>4. CASE n = 1 /\ ~(cmd.op = "binstall" /\ Top.op = "build" /\ ret = 0)
    <3>1. ~Running'
      BY <2>2, <2>4, VarTypes DEF Running, Commands
    <3> QED
      BY <3>1 DEF Installing
  <2>5. CASE n = 1 /\ cmd.op = "binstall" /\ Top.op = "build" /\ ret = 0
    BY <1>0, <2>1, <2>5
  <2> QED
    BY <1>3, <2>3, <2>4, <2>5
<1>5. CASE Stays
  BY <1>0, <1>1, <1>2, <1>3, <1>5 DEF Stays
<1>6. CASE PutFile
  BY <1>2, <1>6 DEF PutFile
<1>7. CASE ConfigChanged
  <2>1. 1 \in 1..n /\ \A k \in 1..n : stack'[k] = stack[k]
    BY <1>0, <1>1, <1>7, ConfigChangedStack
  <2> QED
    BY <1>2, <2>1
<1>8. CASE EnterSubdir
  <2>1. stack'[n].op = Top.op /\ \A k \in 1..(n - 1) : stack'[k] = stack[k]
    BY <1>0, <1>8, EnterSubdirStack
  <2> QED
    BY <1>1, <1>2, <1>3, <2>1
<1> QED
  BY <1>4, <1>5, <1>6, <1>7, <1>8, ReadConfigStays, EnterSectionStays, EndLoopStays, CleanFirstStays
     DEF Goes

LEMMA StepInstalls ==
  ASSUME TypeInv, InTheirPlaces, AskedByDefault, Chained, Promises, Installs, [Next]_vars
  PROVE  Installs'
<1>1. ~Installing' => Installs'
  BY DEF Installs
<1>2. CASE \/ \E s \in Sections : EditSource(s)
           \/ \E d \in Dirs : \E c \in Confs[d] : EditConf(d, c)
           \/ Clean
  <2>1. cmd'.state # "running"
    BY <1>2, NoCommandType, CleanCommand DEF EditSource, EditConf
  <2> QED
    BY <1>1, <2>1 DEF Installing, Running
<1>3. CASE \E op \in {"build", "install", "binstall", "distclean"} : \E r, b : Give(op, r, b)
  <2>1. cmd'.op = "binstall" => stack'[1].op = "build"
    BY <1>3 DEF Give, Call
  <2> QED
    BY <1>1, <2>1 DEF Installing
<1>4. CASE Die \/ DieWriting \/ CopyFails
  <2>1. cmd'.state = "died"
    BY <1>4, VarTypes DEF Die, DieWriting, CopyFails, Commands
  <2> QED
    BY <1>1, <2>1 DEF Installing, Running
<1>5. CASE Goes /\ Installing
  BY <1>5, InstallGoes, ReadConfigInstalls, EnterSectionInstalls, EnterSubdirInstalls,
     EndLoopInstalls, PutFileInstalls, ReturnInstalls DEF Goes
<1>6. CASE Goes /\ ~Installing
  BY <1>1, <1>6, FirstCall, BuildThenInstall
<1>7. CASE UNCHANGED vars
  <2>1. UNCHANGED <<src, conf, newer, cmd, stack, tree, prefix, todo>>
    BY <1>7 DEF vars
  <2>2. \A f : Lands(f)' <=> Lands(f)
    BY <2>1 DEF Lands, Copied
  <2>3. \A s : (Ships(s)' <=> Ships(s)) /\ (Ready(s)' <=> Ready(s))
    BY <2>1, <2>2 DEF Ships, TargetOf, Ready, Made, Fresh, IsRead
  <2>4. Reached' = Reached /\ \A d : Below(d)' = Below(d)
    BY <2>1, SameReached DEF Reached, Everything
  <2>5. \A g : Wanted(g)' = Wanted(g) /\ Shipped(g)' = Shipped(g)
    BY <2>1 DEF Wanted, Shipped
  <2>6. \A g, D : Carries(g, D)' <=> Carries(g, D)
    BY <2>1, <2>3, <2>4, <2>5 DEF Carries
  <2>7. (Installing' <=> Installing) /\ \A k : WaitsFor(k)' = WaitsFor(k)
    BY <2>1 DEF Installing, Running, WaitsFor
  <2> QED
    BY <2>1, <2>3, <2>4, <2>6, <2>7 DEF Installs, Copied
<1> QED
  BY <1>2, <1>3, <1>4, <1>5, <1>6, <1>7 DEF Next, User, Work, Goes

-----------------------------------------------------------------------------
(* What comes of a command. *)

\* Only the return of its outermost call makes a command succeed.
LEMMA SucceedsNow ==
  ASSUME TypeInv, Chained, [Next]_vars, cmd'.state = "ok", cmd'.op \in {"build", "binstall"}
  PROVE  \/ UNCHANGED vars
         \/ /\ Returns /\ Len(stack) = 1 /\ todo = <<>>
            /\ ~(cmd.op = "binstall" /\ Top.op = "build")
            /\ UNCHANGED <<src, conf, newer, tree, cut, prefix>>
            /\ cmd'.op = cmd.op /\ cmd'.req = cmd.req
<1>1. ~User
  <2>1. NoCommand.state = "idle" /\ [NoCommand EXCEPT !.op = "clean", !.state = "ok"].op = "clean"
    BY DEF NoCommand
  <2>2. \A s, d, c : ~EditSource(s) /\ ~EditConf(d, c) /\ ~Clean
    BY <2>1 DEF EditSource, EditConf, Clean
  <2>3. \A op, r, b : ~Give(op, r, b)
    BY DEF Give
  <2> QED
    BY <2>2, <2>3 DEF User
<1>2. ~Die /\ ~DieWriting /\ ~CopyFails
  BY VarTypes DEF Die, DieWriting, CopyFails, Commands
<1>3. cmd' = cmd => ~Running
  BY DEF Running
<1>4. \/ Returns \/ Refuse \/ UNCHANGED vars
  BY <1>1, <1>2, <1>3 DEF Next, Work, ConfigChanged, ReadConfig, EnterSection, EnterSubdir, EndLoop,
     CleanFirst, PutFile, InLoop, Looping
<1>5. CASE Returns \/ Refuse
  <2>0. PICK n : n = Len(stack)
    OBVIOUS
  <2>1. PICK ret \in {0, 1} : Running /\ Return(ret) /\ (Top.phase = "end" \/ InLoop)
                              /\ (ret = 0 => Returns)
    BY <1>5 DEF Returns, Refuse, InLoop, Looping
  <2>2. /\ n \in Nat \ {0} /\ todo = <<>> /\ UNCHANGED <<src, conf, newer, tree, cut, prefix>>
        /\ cmd' # cmd => /\ n = 1 /\ ~(cmd.op = "binstall" /\ Top.op = "build" /\ ret = 0)
                         /\ cmd' = [cmd EXCEPT !.state = IF ret = 0 THEN "ok" ELSE "error"]
    BY <2>0, <2>1, ReturnStack
  <2>3. cmd' # cmd
    BY <1>3, <2>1
  <2>4. ret = 0 /\ cmd'.op = cmd.op /\ cmd'.req = cmd.req
    BY <2>2, <2>3, VarTypes DEF Commands
  <2> QED
    BY <2>0, <2>1, <2>2, <2>3, <2>4
<1> QED
  BY <1>4, <1>5

LEMMA StepBuilt ==
  ASSUME TypeInv, InTheirPlaces, AskedByDefault, Chained, Promises, Installs,
         SuccessMeansBuilt, SuccessMeansInstalled, [Next]_vars
  PROVE  SuccessMeansBuilt' /\ SuccessMeansInstalled'
<1>1. CASE UNCHANGED vars
  <2>1. UNCHANGED <<src, conf, cmd, tree, cut, prefix>>
    BY <1>1 DEF vars
  <2>2. /\ Reached' = Reached
        /\ \A s : /\ UpToDate(tree, s)' <=> UpToDate(tree, s)
                  /\ UpToDate(prefix, s)' <=> UpToDate(prefix, s)
    BY <2>1 DEF Reached, Everything, ReachedFrom, UpToDate, Fresh, TargetOf
  <2> QED
    BY <2>1, <2>2 DEF SuccessMeansBuilt, SuccessMeansInstalled
<1>2. ASSUME cmd'.state = "ok", cmd'.op \in {"build", "binstall"}, ~UNCHANGED vars
      PROVE  /\ \A s \in Reached' : UpToDate(tree, s)'
             /\ cmd'.op = "binstall" => \A s \in Reached' : UpToDate(prefix, s)'
  <2>1. /\ Returns /\ Len(stack) = 1 /\ todo = <<>> /\ Running /\ Top.phase = "end"
        /\ ~(cmd.op = "binstall" /\ Top.op = "build")
        /\ UNCHANGED <<src, conf, newer, tree, cut, prefix>>
        /\ cmd'.op = cmd.op /\ cmd'.req = cmd.req
    BY <1>2, SucceedsNow DEF Returns
  <2>2. /\ Reached' = Reached
        /\ \A s : /\ UpToDate(tree, s)' <=> UpToDate(tree, s)
                  /\ UpToDate(prefix, s)' <=> UpToDate(prefix, s)
    BY <2>1 DEF Reached, Everything, ReachedFrom, UpToDate, Fresh, TargetOf
  <2>3. Top = stack[1] /\ Top \in Calls /\ Fits(Top)
    BY <2>1, TopCall
  <2>4. CASE cmd.op = "build"
    <3>1. Top.op = "build"
      BY <2>1, <2>3, <2>4 DEF Chained
    <3>2. \A s \in Reached : Ready(s)
      BY <2>1, <3>1, EndReady
    <3> QED
      BY <2>1, <2>2, <2>4, <3>2, MadeIsUpToDate DEF Ready
  <2>5. CASE cmd.op = "binstall"
    <3>1. Installing
      BY <2>1, <2>3, <2>5 DEF Chained, Installing
    <3>2. (\A s \in Reached : Ready(s)) /\ Carries(Top, {})
      BY <3>1, InstallHas DEF Installs
    <3>3. Reached = ReachedFrom(Wanted(Top))
      BY <2>1, <2>3, ReachedIs
    <3>4. ToSet(Wanted(Top)) \subseteq Sections /\ Shipped(Top) = ToSet(Wanted(Top))
      BY <2>1, <2>3, WantedIs DEF Shipped
    <3>5. ASSUME NEW s \in Reached
          PROVE  Ships(s)
      <4>1. \/ s \in Shipped(Top)
            \/ \E r \in Shipped(Top) : Type[r] = "subdir" /\ s \in Below(SubDir[r])
        BY <3>3, <3>4, <3>5, ReachedStep
      <4> QED
        BY <3>2, <4>1 DEF Carries
    <3>6. \A f : Lands(f) => prefix[f] = tree[f]
      BY <2>1 DEF Lands, Copied
    <3>7. \A s \in Reached : Made(prefix, s)
      BY <3>2, <3>5, <3>6 DEF Ready, Ships, Made
    <3> QED
      BY <2>2, <3>2, <3>7, MadeIsUpToDate DEF Ready
  <2> QED
    BY <1>2, <2>1, <2>4, <2>5
<1> QED
  BY <1>1, <1>2 DEF SuccessMeansBuilt, SuccessMeansInstalled

\* Nothing that a binstall installs is missing: its build has made it.
LEMMA NothingMissing ==
  ASSUME TypeInv, Chained, Installs, OnlyDi = {}
  PROVE  InstallFindsWhatWasBuilt
<1> SUFFICES ASSUME Running, cmd.op = "binstall", todo # <<>>, Head(todo).where = "copy"
             PROVE  tree[Head(todo).file] # Absent
  BY DEF InstallFindsWhatWasBuilt
<1>1. /\ Doing(cmd, Top, todo) /\ Len(todo) \in Nat \ {0} /\ Head(todo) = todo[1]
      /\ 1 \in 1..Len(todo)
  BY TodoIs
<1>2. PICK n : n = Len(stack)
  OBVIOUS
<1>3. /\ n \in Nat \ {0} /\ Top = stack[n] /\ Top \in Calls /\ Fits(Top)
      /\ 1 \in 1..n /\ n \in 1..n /\ (n = 1 \/ 1 < n)
  BY <1>2, TopCall
<1>4. Top.phase = "copy"
  BY <1>1 DEF Doing, StepsOf
<1>5. Top.op = "install"
  BY <1>3, <1>4 DEF Fits, PhasesOf, Calls
<1>6. stack[1].op = "install"
  BY <1>2, <1>3, <1>5 DEF Chained
<1>7. Installing /\ Copied(todo, Head(todo).file)
  BY <1>1, <1>6 DEF Installing, Copied
<1> QED
  BY <1>7 DEF Installs

-----------------------------------------------------------------------------
(* The theorems. *)

BuildInv(rank) ==
  /\ TypeInv /\ Lower(rank) /\ Configured /\ NoneNewer /\ Chained /\ Promises /\ Installs
  /\ SuccessMeansBuilt /\ SuccessMeansInstalled

LEMMA InitBuildInv ==
  ASSUME NEW rank, Init
  PROVE  BuildInv(rank)
<1>1. /\ Len(stack) = 0 /\ Len(todo) = 0 /\ ~Running /\ cmd.state # "ok"
      /\ \A s \in Sections : tree[<<"di", s>>] = Absent
  BY FileNames DEF Init, Running, NoCommand
<1>2. Lower(rank) /\ Chained /\ Promises
  BY <1>1 DEF Lower, Chained, Promises
<1>3. NoneNewer
  <2>1. \A i \in 1..Len(todo) : FALSE
    BY <1>1
  <2> QED
    BY <1>1, <2>1 DEF NoneNewer
<1>4. Installs /\ SuccessMeansBuilt /\ SuccessMeansInstalled
  BY <1>1 DEF Installs, Installing, SuccessMeansBuilt, SuccessMeansInstalled
<1> QED
  BY <1>2, <1>3, <1>4, InitTypes, InitConfigured DEF BuildInv

LEMMA StepBuildInv ==
  ASSUME InTheirPlaces, TargetsApart, OwnTargets, AskedByDefault, RefusedAtRoot,
         NEW rank, Nested(rank), BuildInv(rank), [Next]_vars
  PROVE  BuildInv(rank)'
<1>1. TypeInv /\ Lower(rank) /\ Configured /\ NoneNewer /\ Chained /\ Promises /\ Installs
      /\ SuccessMeansBuilt /\ SuccessMeansInstalled
  BY DEF BuildInv
<1>2. TypeInv' /\ Lower(rank)' /\ Configured' /\ NoneNewer' /\ Chained'
  BY <1>1, StepTypes, StepLower, StepConfigured, StepNoneNewer, StepChained
<1>3. Promises' /\ Installs'
  BY <1>1, StepPromises, StepInstalls
<1>4. SuccessMeansBuilt' /\ SuccessMeansInstalled'
  BY <1>1, StepBuilt
<1> QED
  BY <1>2, <1>3, <1>4 DEF BuildInv

\* In a project whose sections and files are its directories' own, whose requests are
\* among what is built by default and whose refused sections are at the root, a build
\* or binstall that returns 0 has brought all that the command reaches up to date in
\* the tree: build()'s promise, whatever was edited, and whatever commands died, before;
\* but for import files that a death has cut short in std.file.write, and whose sources
\* were not edited after: they are newer than those, and build keeps them.
THEOREM BuiltWhenItSucceeds ==
  ASSUME InTheirPlaces, TargetsApart, OwnTargets, AskedByDefault, RefusedAtRoot,
         NEW rank, Nested(rank)
  PROVE  Spec => []SuccessMeansBuilt
<1>1. Init => BuildInv(rank)
  BY InitBuildInv
<1>2. BuildInv(rank) /\ [Next]_vars => BuildInv(rank)'
  BY StepBuildInv
<1>3. BuildInv(rank) => SuccessMeansBuilt
  BY DEF BuildInv
<1> QED
  BY <1>1, <1>2, <1>3, PTL DEF Spec

\* In such a project a binstall that returns 0 has installed what the build before it
\* has made: install() copies it all, and nothing comes between.  The same import files
\* are excepted, which install() copies as they are.
THEOREM InstalledWhenItSucceeds ==
  ASSUME InTheirPlaces, TargetsApart, OwnTargets, AskedByDefault, RefusedAtRoot,
         NEW rank, Nested(rank)
  PROVE  Spec => []SuccessMeansInstalled
<1>1. Init => BuildInv(rank)
  BY InitBuildInv
<1>2. BuildInv(rank) /\ [Next]_vars => BuildInv(rank)'
  BY StepBuildInv
<1>3. BuildInv(rank) => SuccessMeansInstalled
  BY DEF BuildInv
<1> QED
  BY <1>1, <1>2, <1>3, PTL DEF Spec

\* If, besides, no library section has .di files and nothing else, which install()
\* counts as sources and build() does not, the cp of a binstall never fails for want
\* of its file.
THEOREM InstallFindsItsFiles ==
  ASSUME InTheirPlaces, TargetsApart, OwnTargets, AskedByDefault, RefusedAtRoot, OnlyDi = {},
         NEW rank, Nested(rank)
  PROVE  Spec => []InstallFindsWhatWasBuilt
<1>1. Init => BuildInv(rank)
  BY InitBuildInv
<1>2. BuildInv(rank) /\ [Next]_vars => BuildInv(rank)'
  BY StepBuildInv
<1>3. BuildInv(rank) => InstallFindsWhatWasBuilt
  BY NothingMissing DEF BuildInv
<1> QED
  BY <1>1, <1>2, <1>3, PTL DEF Spec

=============================================================================
