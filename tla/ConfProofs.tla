------------------------------ MODULE ConfProofs ------------------------------
(***************************************************************************)
(* What is proved of Conf for every file, every nesting of its blocks and  *)
(* any sections and words: its types, that counting braces comes to the    *)
(* same as blocks that nest, and that a section's own settings win.        *)
(***************************************************************************)
EXTENDS Conf, SequenceTheorems, TLAPS

\* A depth is never more than the lines that made it.
Counted == skip.depth + Len(again) <= count

\* No command runs before one is given, or while the file is read.
Resting == mode # "done" \/ hooks = 0 => command.useSections = <<>>

-----------------------------------------------------------------------------
(* Lines, and the configurations they make. *)

\* What a line holds is of the kind its first word promises.
LEMMA LineFields ==
  ASSUME NEW l, IsLine(l)
  PROVE  /\ l.is \in {"header", "set", "append", "version", "open", "close", "unrecognized"}
         /\ l.is = "header" => l.sec \in Sections
         /\ l.is \in {"set", "append"} => l.key \in Keys /\ l.val \in Values
<1>1. CASE \E s \in Sections : l = Header(s)
  BY <1>1 DEF Header
<1>2. CASE \E k \in Keys, w \in Words : l \in {Setting(k, w), Appending(k, w)}
  <2>1. PICK k \in Keys, w \in Words : l \in {Setting(k, w), Appending(k, w)}
    BY <1>2
  <2>2. <<w>> \in Values
    BY DEF Values
  <2>3. l.is \in {"set", "append"} /\ l.key = k /\ l.val = <<w>>
    BY <2>1 DEF Setting, Appending
  <2> QED
    BY <2>2, <2>3
<1>3. CASE l.is = "version" \/ l \in {Open, Close, Unrecognized}
  BY <1>3 DEF Open, Close, Unrecognized
<1> QED
  BY <1>1, <1>2, <1>3 DEF IsLine

\* The line that is read is one of the file, or what was left of one.
LEMMA ReadLines ==
  ASSUME TypeOK, NEW l \in Lines \union ToSet(again)
  PROVE  /\ IsLine(l) \/ (l.is = "else" /\ IsLine(l.rest))
         /\ again # <<>> /\ l = again[1] => IsLine(l)
         /\ l \in Lines \/ (again # <<>> /\ l = again[1])
<1>1. again = <<>> => ToSet(again) = {}
  BY DEF ToSet
<1>2. ASSUME NEW r \in Lines, r.is = "else", again = <<r.rest>>
      PROVE  ToSet(again) = {r.rest} /\ IsLine(r.rest) /\ again[1] = r.rest /\ again # <<>>
  <2>1. IsLine(r.rest)
    BY <1>2, LinesAssumption, LineFields
  <2> QED
    BY <1>2, <2>1 DEF ToSet
<1> QED
  BY <1>1, <1>2, LinesAssumption DEF TypeOK

LEMMA Bounded == MaxLines \in Nat /\ MaxHooks \in Nat
BY ConfAssumption

LEMMA NothingSet == Nothing \in Settings /\ Unset \notin Values
BY ConfAssumption DEF Nothing, Settings

LEMMA DefaultSet == <<"default">> \in Values
BY DEF Values

LEMMA AppendToSet ==
  ASSUME NEW T, NEW q \in Seq(T)
  PROVE  /\ ToSet(q) \subseteq T
         /\ \A x \in T : Append(q, x) \in Seq(T) /\ ToSet(Append(q, x)) = ToSet(q) \union {x}
<1>1. ToSet(q) \subseteq T
  BY DEF ToSet
<1>2. ASSUME NEW x \in T PROVE ToSet(Append(q, x)) = ToSet(q) \union {x}
  <2>1. Append(q, x) \in Seq(T) /\ Len(Append(q, x)) = Len(q) + 1
    OBVIOUS
  <2>2. \A i \in 1..(Len(q) + 1) : Append(q, x)[i] = IF i <= Len(q) THEN q[i] ELSE x
    OBVIOUS
  <2>3. Len(q) \in Nat
    OBVIOUS
  <2>4. ASSUME NEW y \in ToSet(q) \union {x} PROVE y \in ToSet(Append(q, x))
    <3>1. CASE y = x
      <4>1. Len(q) + 1 \in 1..(Len(q) + 1) /\ Append(q, x)[Len(q) + 1] = x
        BY <2>2, <2>3
      <4> QED
        BY <4>1, <3>1, <2>1 DEF ToSet
    <3>2. CASE y \in ToSet(q)
      <4>1. PICK i \in 1..Len(q) : q[i] = y
        BY <3>2 DEF ToSet
      <4>2. i \in 1..(Len(q) + 1) /\ Append(q, x)[i] = y
        BY <4>1, <2>2, <2>3
      <4> QED
        BY <4>2, <2>1 DEF ToSet
    <3> QED
      BY <3>1, <3>2, <2>4
  <2>5. ASSUME NEW y \in ToSet(Append(q, x)) PROVE y \in ToSet(q) \union {x}
    <3>1. PICK i \in 1..(Len(q) + 1) : Append(q, x)[i] = y
      BY <2>1 DEF ToSet
    <3> QED
      BY <3>1, <2>2, <2>3 DEF ToSet
  <2> QED
    BY <2>4, <2>5
<1> QED
  BY <1>1, <1>2

LEMMA JoinedSet ==
  ASSUME NEW old \in Values \union {Unset}, NEW val \in Values
  PROVE  Joined(old, val) \in Values
BY DEF Joined, Values

\* A section that can be built has a type.
Typed(c) == \A s \in ToSet(c.sections) : c.settings[s]["type"] # Unset

Readable(c) == IsConfiguration(c) /\ c.section \in DOMAIN c.settings /\ Typed(c)

\* What a file says at any point is a configuration.
LEMMA SaysReadable ==
  ASSUME NEW c, Readable(c), NEW l, IsLine(l) \/ l.is = "else"
  PROVE  Readable(Says(c, l))
<1> USE DEF Readable
<1>1. CASE l.is = "header"
  <2> DEFINE s == l.sec
             S == DOMAIN c.settings \union {s}
             new == [t \in S |->
                       IF t # s THEN c.settings[t]
                       ELSE IF s \in Files THEN [Nothing EXCEPT !["type"] = <<"default">>]
                            ELSE Nothing]
             secs == IF s \in Files THEN Append(c.sections, s) ELSE c.sections
  <2>1. s \in Sections
    BY <1>1, LineFields
  <2>2. [Nothing EXCEPT !["type"] = <<"default">>] \in Settings
    BY NothingSet, DefaultSet DEF Settings, Keys
  <2>3. new \in [S -> Settings]
    BY <2>2, NothingSet DEF IsConfiguration
  <2>4. /\ secs \in Seq(Files) /\ ToSet(c.sections) \subseteq Files
        /\ ToSet(secs) = IF s \in Files THEN ToSet(c.sections) \union {s} ELSE ToSet(c.sections)
    <3>1. c.sections \in Seq(Files)
      BY DEF IsConfiguration
    <3>2. ToSet(c.sections) \subseteq Files
      BY <3>1, AppendToSet
    <3>3. s \in Files => /\ Append(c.sections, s) \in Seq(Files)
                         /\ ToSet(Append(c.sections, s)) = ToSet(c.sections) \union {s}
      BY <3>1, AppendToSet
    <3> HIDE DEF s
    <3> QED
      BY <3>1, <3>2, <3>3
  <2>5. ToSet(secs) \subseteq S /\ "" \in S /\ S \subseteq Sections
    BY <2>1, <2>4 DEF IsConfiguration
  <2>6. Says(c, l) = [section |-> s, sections |-> secs, settings |-> new]
    BY <1>1 DEF Says, Begin
  <2>7. \A t \in ToSet(secs) : new[t]["type"] # Unset
    <3> SUFFICES ASSUME NEW t \in ToSet(secs) PROVE new[t]["type"] # Unset
      OBVIOUS
    <3>1. CASE t # s
      <4>1. t \in ToSet(c.sections)
        BY <3>1, <2>4
      <4> QED
        BY <4>1, <3>1, <2>5 DEF Typed
    <3>2. CASE t = s
      <4>1. s \in Files
        BY <3>2, <2>4
      <4>2. new[t] = [Nothing EXCEPT !["type"] = <<"default">>]
        BY <4>1, <3>2
      <4>3. new[t]["type"] = <<"default">>
        BY <4>2 DEF Nothing, Keys
      <4> QED
        BY <4>3, DefaultSet, NothingSet
    <3> QED
      BY <3>1, <3>2
  <2> HIDE DEF s, S, new, secs
  <2>8. /\ Says(c, l).section = s /\ Says(c, l).sections = secs /\ Says(c, l).settings = new
        /\ DOMAIN new = S /\ s \in S
        /\ Says(c, l) \in [section : Sections, sections : Seq(Files), settings : [S -> Settings]]
    BY <2>1, <2>3, <2>4, <2>6 DEF S
  <2> QED
    BY <2>5, <2>7, <2>8 DEF IsConfiguration, Typed
<1>2. CASE l.is \in {"set", "append"}
  <2>1. l.key \in Keys /\ l.val \in Values
    BY <1>2, LineFields
  <2>2. c.settings \in [DOMAIN c.settings -> Settings]
    BY DEF IsConfiguration
  <2>3. PICK v \in Values : Says(c, l) = [c EXCEPT !.settings[c.section][l.key] = v]
    <3>1. CASE l.is = "set"
      BY <3>1, <2>1 DEF Says
    <3>2. CASE l.is = "append"
      <4>1. c.settings[c.section][l.key] \in Values \union {Unset}
        BY <2>1, <2>2 DEF Settings
      <4> QED
        BY <3>2, <4>1, <2>1, JoinedSet DEF Says
    <3> QED
      BY <1>2, <3>1, <3>2
  <2> DEFINE new == [c.settings EXCEPT ![c.section][l.key] = v]
  <2>4. new \in [DOMAIN c.settings -> Settings]
    BY <2>1, <2>2 DEF Settings
  <2>5. Says(c, l) = [c EXCEPT !.settings = new]
    BY <2>3 DEF IsConfiguration
  <2>6. ASSUME NEW t \in ToSet(c.sections) PROVE new[t]["type"] # Unset
    <3>1. t \in DOMAIN c.settings
      BY DEF IsConfiguration
    <3>2. new[t]["type"] \in {c.settings[t]["type"], v}
      BY <3>1, <2>1, <2>2 DEF Settings
    <3> QED
      BY <3>2, NothingSet DEF Typed
  <2> HIDE DEF new
  <2>7. /\ Says(c, l).section = c.section /\ Says(c, l).sections = c.sections
        /\ Says(c, l).settings = new /\ DOMAIN new = DOMAIN c.settings
        /\ Says(c, l) \in [section : Sections, sections : Seq(Files),
                           settings : [DOMAIN c.settings -> Settings]]
    BY <2>4, <2>5 DEF IsConfiguration
  <2> QED
    BY <2>6, <2>7 DEF IsConfiguration, Typed
<1>3. CASE l.is \notin {"header", "set", "append"}
  BY <1>3 DEF Says
<1> QED
  BY <1>1, <1>2, <1>3

LEMMA StartReadable == Readable(Start)
<1>1. [Nothing EXCEPT !["name"] = <<"default">>] \in Settings
  BY NothingSet, DefaultSet DEF Settings, Keys
<1>2. Start.settings \in [{""} -> Settings] /\ DOMAIN Start.settings = {""}
  BY <1>1 DEF Start
<1>3. Start.section = "" /\ Start.sections = <<>> /\ ToSet(<<>>) = {}
  BY DEF Start, ToSet
<1>4. Start \in [section : Sections, sections : Seq(Files), settings : [{""} -> Settings]]
  <2>1. Start = [section |-> Start.section, sections |-> Start.sections,
                 settings |-> Start.settings]
    BY DEF Start
  <2>2. <<>> \in Seq(Files) /\ "" \in Sections
    <3>1. "" \in Sections
      BY ConfAssumption
    <3>2. <<>> \in Seq(Files)
      OBVIOUS
    <3> QED
      BY <3>1, <3>2
  <2> QED
    BY <2>1, <2>2, <1>2, <1>3
<1> QED
  BY <1>2, <1>3, <1>4, ConfAssumption DEF Readable, IsConfiguration, Typed

-----------------------------------------------------------------------------
(* What lines mean, case by case. *)

Block == [taken : BOOLEAN, done : BOOLEAN]

\* A meaning, with its fields in sight.
Meaning(c, q, f) == [conf |-> c, blocks |-> q, fits |-> f]

MeantFits(m) ==
  /\ m = Meaning(m.conf, m.blocks, m.fits)
  /\ Readable(m.conf) /\ m.blocks \in Seq(Block) /\ m.fits \in BOOLEAN

LEMMA FrontOf ==
  ASSUME NEW T, NEW q \in Seq(T), q # <<>>
  PROVE  /\ Front(q) \in Seq(T) /\ Len(Front(q)) = Len(q) - 1 /\ Len(q) \in Nat \ {0}
         /\ \A i \in 1..(Len(q) - 1) : Front(q)[i] = q[i]
         /\ Last(q) = q[Len(q)] /\ Last(q) \in T
<1> DEFINE up == Len(q) - 1
<1>1. Len(q) \in Nat \ {0} /\ up \in Nat /\ up \in Int /\ 1 \in Int /\ up - 1 + 1 = up
  OBVIOUS
<1>2. \A i \in 1..Len(q) : q[i] \in T
  OBVIOUS
<1>3. \A i \in 1..up : q[i] \in T
  BY <1>1, <1>2
<1>4. Front(q) = SubSeq(q, 1, up)
  BY DEF Front
<1> HIDE DEF up
<1>5. /\ Front(q) \in Seq(T) /\ Len(Front(q)) = IF 1 <= up THEN up - 1 + 1 ELSE 0
      /\ \A i \in 1..(up - 1 + 1) : Front(q)[i] = q[1 + i - 1]
  BY <1>1, <1>3, <1>4, SubSeqProperties
<1>6. Len(Front(q)) = up /\ \A i \in 1..up : Front(q)[i] = q[i]
  BY <1>1, <1>5
<1>7. Len(q) \in 1..Len(q) /\ Last(q) = q[Len(q)]
  BY <1>1 DEF Last
<1> QED
  BY <1>1, <1>2, <1>5, <1>6, <1>7 DEF up

\* A block is opened.
LEMMA MeansOpening ==
  ASSUME NEW m, MeantFits(m), NEW l, l.is \in {"version", "open"}
  PROVE  \E b \in Block :
           /\ Means(m, l) = Meaning(m.conf, Append(m.blocks, b), m.fits)
           /\ b.taken <=> (l.is = "version" => Holds(l))
           /\ b.done <=> b.taken
           /\ MeantFits(Means(m, l))
<1> DEFINE c == l.is = "version" => Holds(l)
           b == [taken |-> c, done |-> c]
<1>1. c \in BOOLEAN /\ b \in Block
  BY DEF Block, Holds
<1>2. Means(m, l) = [m EXCEPT !.blocks = Append(@, b)]
  BY DEF Means, Push, Holds
<1> HIDE DEF b
<1>3. Means(m, l) = Meaning(m.conf, Append(m.blocks, b), m.fits)
  BY <1>2 DEF MeantFits, Meaning
<1>4. Append(m.blocks, b) \in Seq(Block)
  BY <1>1, AppendToSet DEF MeantFits
<1>5. MeantFits(Means(m, l))
  BY <1>3, <1>4 DEF MeantFits, Meaning
<1>6. b.taken = c /\ b.done = c
  BY DEF b
<1> QED
  BY <1>1, <1>3, <1>5, <1>6

\* What closes a block where none is open does not fit.
LEMMA MeansMisfit ==
  ASSUME NEW m, MeantFits(m), NEW l, l.is \in {"close", "else"}, m.blocks = <<>>
  PROVE  ~Means(m, l).fits /\ MeantFits(Means(m, l))
<1>1. Means(m, l) = [m EXCEPT !.fits = FALSE]
  BY DEF Means
<1>2. Means(m, l) = Meaning(m.conf, m.blocks, FALSE)
  BY <1>1 DEF MeantFits, Meaning
<1> QED
  BY <1>2 DEF MeantFits, Meaning

LEMMA MeansClose ==
  ASSUME NEW m, MeantFits(m), NEW l, l.is = "close", m.blocks # <<>>
  PROVE  /\ Means(m, l) = Meaning(m.conf, Front(m.blocks), m.fits)
         /\ MeantFits(Means(m, l))
<1>1. Means(m, l) = [m EXCEPT !.blocks = Front(@)]
  BY DEF Means
<1>2. Means(m, l) = Meaning(m.conf, Front(m.blocks), m.fits)
  BY <1>1 DEF MeantFits, Meaning
<1>3. Front(m.blocks) \in Seq(Block)
  BY FrontOf DEF MeantFits
<1> QED
  BY <1>2, <1>3 DEF MeantFits, Meaning

\* A line that says something, where it counts.
LEMMA MeansSaying ==
  ASSUME NEW m, MeantFits(m), NEW l, l.is \in {"header", "set", "append"}, IsLine(l)
  PROVE  /\ Means(m, l) = Meaning(IF Taken(m.blocks) THEN Says(m.conf, l) ELSE m.conf,
                                  m.blocks, m.fits)
         /\ MeantFits(Means(m, l))
<1> DEFINE c == IF Taken(m.blocks) THEN Says(m.conf, l) ELSE m.conf
<1>1. Means(m, l) = [m EXCEPT !.conf = c]
  BY DEF Means
<1>2. Readable(c)
  BY SaysReadable DEF MeantFits
<1> HIDE DEF c
<1>3. Means(m, l) = Meaning(c, m.blocks, m.fits)
  BY <1>1 DEF MeantFits, Meaning
<1>4. MeantFits(Means(m, l))
  BY <1>2, <1>3 DEF MeantFits, Meaning
<1> QED
  BY <1>3, <1>4 DEF c

LEMMA MeansNothing ==
  ASSUME NEW m, MeantFits(m), NEW l, l.is = "unrecognized"
  PROVE  /\ Means(m, l).conf = m.conf /\ Means(m, l).blocks = m.blocks
         /\ Means(m, l).fits <=> m.fits /\ ~Taken(m.blocks)
         /\ MeantFits(Means(m, l))
<1> DEFINE f == m.fits /\ ~Taken(m.blocks)
<1>1. Means(m, l) = [m EXCEPT !.fits = f]
  BY DEF Means
<1>2. f \in BOOLEAN
  OBVIOUS
<1> HIDE DEF f
<1>3. Means(m, l) = Meaning(m.conf, m.blocks, f)
  BY <1>1 DEF MeantFits, Meaning
<1>4. MeantFits(Means(m, l))
  BY <1>2, <1>3 DEF MeantFits, Meaning
<1>5. Means(m, l).conf = m.conf /\ Means(m, l).blocks = m.blocks /\ Means(m, l).fits = f
  BY <1>3 DEF Meaning
<1> QED
  BY <1>4, <1>5 DEF f

\* "} else" and what opens a block: a block in the place of the one that ends.
LEMMA MeansElseOpens ==
  ASSUME NEW m, MeantFits(m), NEW l, l.is = "else", m.blocks # <<>>,
         l.rest.is \in {"version", "open"}
  PROVE  \E b \in Block :
           LET done == m.blocks[Len(m.blocks)].done IN
           /\ Means(m, l) = Meaning(m.conf, Append(Front(m.blocks), b), m.fits)
           /\ b.taken <=> ~done /\ (l.rest.is = "version" => Holds(l.rest))
           /\ b.done <=> done \/ b.taken
           /\ MeantFits(Means(m, l))
<1> DEFINE done == m.blocks[Len(m.blocks)].done
           c == ~done /\ (l.rest.is = "version" => Holds(l.rest))
           b == [taken |-> c, done |-> done \/ c]
<1>1. m.blocks \in Seq(Block) /\ Last(m.blocks) \in Block
      /\ Last(m.blocks) = m.blocks[Len(m.blocks)] /\ Front(m.blocks) \in Seq(Block)
  BY FrontOf DEF MeantFits
<1>2. c \in BOOLEAN /\ (done \/ c) \in BOOLEAN
  OBVIOUS
<1>3. b \in Block /\ b.taken = c /\ b.done = (done \/ c)
  BY <1>2 DEF Block
<1>4. Means(m, l) = [m EXCEPT !.blocks = Append(Front(m.blocks), b)]
  BY <1>1 DEF Means, MeansElse, Opens
<1> HIDE DEF b, c, done
<1>5. Means(m, l) = Meaning(m.conf, Append(Front(m.blocks), b), m.fits)
  BY <1>4 DEF MeantFits, Meaning
<1>6. Append(Front(m.blocks), b) \in Seq(Block)
  BY <1>1, <1>3, AppendToSet
<1>7. MeantFits(Means(m, l))
  BY <1>5, <1>6 DEF MeantFits, Meaning
<1> QED
  BY <1>3, <1>5, <1>7 DEF c, done

\* Whatever line is read, what it means has its types.
LEMMA MeansFits ==
  ASSUME NEW m, MeantFits(m), NEW l, IsLine(l) \/ (l.is = "else" /\ IsLine(l.rest))
  PROVE  MeantFits(Means(m, l))
<1>1. CASE l.is \in {"version", "open"}
  BY <1>1, MeansOpening
<1>2. CASE l.is \in {"close", "else"} /\ m.blocks = <<>>
  <2>1. m.blocks = <<>>
    BY <1>2
  <2> QED
    BY <1>2, <2>1, MeansMisfit
<1>3. CASE l.is = "close" /\ m.blocks # <<>>
  BY <1>3, MeansClose
<1>4. CASE l.is = "else" /\ m.blocks # <<>>
  <2>1. CASE l.rest.is \in {"version", "open"}
    BY <1>4, <2>1, MeansElseOpens
  <2>2. CASE l.rest.is \notin {"version", "open"}
    <3> DEFINE rest == Front(m.blocks)
               c == ~Last(m.blocks).done /\ (l.rest.is = "version" => Holds(l.rest))
               new == IF c /\ Taken(rest) THEN Says(m.conf, l.rest) ELSE m.conf
    <3>1. IsLine(l.rest) /\ l.rest.is # "else"
      BY <1>4, LineFields
    <3>2. Means(m, l) = [m EXCEPT !.blocks = rest, !.conf = new]
      BY <1>4, <2>2, <3>1 DEF Means, MeansElse, Opens
    <3>3. Readable(new) /\ rest \in Seq(Block)
      BY <1>4, <3>1, SaysReadable, FrontOf DEF MeantFits
    <3> HIDE DEF rest, c, new
    <3>4. Means(m, l) = Meaning(new, rest, m.fits)
      BY <3>2 DEF MeantFits, Meaning
    <3> QED
      BY <3>3, <3>4 DEF MeantFits, Meaning
  <2> QED
    BY <2>1, <2>2
<1>5. CASE l.is \in {"header", "set", "append"}
  BY <1>5, MeansSaying
<1>6. CASE l.is = "unrecognized"
  BY <1>6, MeansNothing
<1> QED
  BY <1>1, <1>2, <1>3, <1>4, <1>5, <1>6, LineFields

-----------------------------------------------------------------------------
(* Types. *)

TypeInv ==
  /\ TypeOK /\ Counted /\ Resting /\ MeantFits(meant)
  /\ mode = "read" => Readable(conf)

LEMMA MeantTypes ==
  ASSUME NEW m, MeantFits(m)
  PROVE  /\ m \in [conf : {m.conf}, blocks : Seq(Block), fits : BOOLEAN]
         /\ IsConfiguration(m.conf) /\ m.conf.section \in DOMAIN m.conf.settings
BY DEF MeantFits, Meaning, Readable

LEMMA TypesInit == Init => TypeInv
<1> SUFFICES ASSUME Init PROVE TypeInv
  OBVIOUS
<1> USE DEF Init
<1>1. <<>> \in Seq(Block) /\ <<>> \in Seq(Sections) /\ <<>> \in Values
  BY DEF Values
<1>2. MeantFits(meant)
  BY <1>1, StartReadable DEF MeantFits, Meaning
<1>3. Readable(conf) /\ IsConfiguration(conf) /\ conf.section \in DOMAIN conf.settings
  BY StartReadable DEF Readable
<1>4. command \in [adding : BOOLEAN, setting : Keys, given : Values, cmd : Values,
                   useSections : Seq(Sections)]
  BY <1>1 DEF NoCommand, Keys
<1>5. skip \in [depth : 0..MaxLines, ignoreElse : BOOLEAN] /\ 0 \in 0..MaxHooks /\ 0 \in 0..MaxLines
  BY Bounded DEF NoSkip
<1>6. Counted /\ Resting
  BY DEF Counted, Resting, NoSkip, NoCommand
<1> QED
  BY <1>2, <1>3, <1>4, <1>5, <1>6, MeantTypes DEF TypeInv, TypeOK, Block

\* What every line that is read leaves: its meaning, and room for one brace.
LEMMA LineTypes ==
  ASSUME TypeInv, NEW l \in Lines \union ToSet(again), Line(l)
  PROVE  /\ mode = "read" /\ MeantFits(meant') /\ count' \in 0..MaxLines
         /\ skip.depth + 1 <= count' /\ skip.depth \in Nat /\ UNCHANGED <<hooks, command>>
         /\ IsLine(l) \/ (l.is = "else" /\ IsLine(l.rest) /\ l \in Lines)
<1>1. IsLine(l) \/ (l.is = "else" /\ IsLine(l.rest))
  BY ReadLines DEF TypeInv
<1>2. l.is = "else" => l \in Lines
  BY ReadLines, LineFields DEF TypeInv
<1>3. skip.depth \in Nat /\ count \in 0..MaxLines /\ MaxLines \in Nat
  <2>1. skip \in [depth : 0..MaxLines, ignoreElse : BOOLEAN] /\ count \in 0..MaxLines
    BY DEF TypeInv, TypeOK
  <2> QED
    BY <2>1, Bounded
<1>4. CASE again # <<>>
  <2>1. Len(again) = 1
    BY <1>4 DEF TypeInv, TypeOK
  <2> QED
    BY <1>1, <1>2, <1>3, <1>4, <2>1 DEF TypeInv, Line, Counted
<1>5. CASE again = <<>>
  <2>1. Len(again) = 0
    BY <1>5
  <2>2. count' = count + 1 /\ count < MaxLines /\ meant' = Means(meant, l)
    BY <1>5 DEF Line
  <2>3. MeantFits(meant')
    BY <1>1, <2>2, MeansFits DEF TypeInv
  <2> QED
    BY <1>1, <1>2, <1>3, <2>1, <2>2, <2>3 DEF TypeInv, Line, Counted
<1> QED
  BY <1>4, <1>5

LEMMA ReadTypes ==
  ASSUME TypeInv, NEW l \in Lines \union ToSet(again), Read(l) \/ Skip(l)
  PROVE  TypeInv'
<1>1. Line(l)
  BY DEF Read, Skip
<1>2. /\ mode = "read" /\ MeantFits(meant') /\ count' \in 0..MaxLines
      /\ skip.depth + 1 <= count' /\ skip.depth \in Nat /\ UNCHANGED <<hooks, command>>
  BY <1>1, LineTypes
<1>3. IsLine(l) \/ (l.is = "else" /\ IsLine(l.rest) /\ l \in Lines)
  BY <1>1, LineTypes
<1>4. MaxLines \in Nat /\ skip \in [depth : 0..MaxLines, ignoreElse : BOOLEAN]
  BY Bounded DEF TypeInv, TypeOK
<1>5. /\ skip' \in [depth : 0..MaxLines, ignoreElse : BOOLEAN]
      /\ skip'.depth + Len(again') <= count'
      /\ again' = <<>> \/ \E r \in Lines : r.is = "else" /\ again' = <<r.rest>>
  <2>1. CASE again' = <<>> /\ skip' = skip
    BY <1>2, <1>4, <2>1
  <2>2. CASE again' = <<>> /\ skip.depth = 0 /\ skip' = [depth |-> 1, ignoreElse |-> l.is = "else"]
    BY <1>2, <1>4, <2>2
  <2>3. CASE again' = <<>> /\ skip.depth > 0 /\ skip' = [skip EXCEPT !.depth = @ - 1]
    BY <1>2, <1>4, <2>3
  <2>4. CASE again' = <<>> /\ skip' = [skip EXCEPT !.depth = @ + 1]
    BY <1>2, <1>4, <2>4
  <2>5. CASE again' = <<l.rest>> /\ l.is = "else" /\ skip.depth > 0 /\ skip' = [skip EXCEPT !.depth = @ - 1]
    <3>1. l \in Lines /\ Len(again') = 1
      BY <1>3, <2>5, LineFields
    <3> QED
      BY <1>2, <1>4, <2>5, <3>1
  <2> QED
    BY <2>1, <2>2, <2>3, <2>4, <2>5 DEF Read, Skip, Fail
<1>6. mode' \in {"read", "error"}
  BY <1>2 DEF Read, Skip, Fail
<1>7. Readable(conf')
  <2>1. CASE conf' = conf
    BY <1>2, <2>1 DEF TypeInv
  <2>2. CASE conf' = Says(conf, l)
    BY <1>2, <1>3, <2>2, SaysReadable DEF TypeInv
  <2> QED
    BY <2>1, <2>2 DEF Read, Skip, Fail
<1>8. Counted' /\ Resting'
  BY <1>2, <1>5, <1>6 DEF TypeInv, Counted, Resting
<1> QED
  BY <1>2, <1>5, <1>6, <1>7, <1>8, MeantTypes DEF TypeInv, TypeOK, Block, Readable

LEMMA GlobalsSet ==
  ASSUME NEW table, table \in [DOMAIN table -> Settings], "*" \in DOMAIN table
  PROVE  /\ Globals(table) \in [DOMAIN table \ {"*"} -> Settings]
         /\ \A s \in DOMAIN table \ {"*"} : table[s] # Nothing =>
              \A k \in Keys : Globals(table)[s][k] =
                IF table[s][k] # Unset THEN table[s][k] ELSE table["*"][k]
<1> DEFINE merged(s) == IF table[s] = Nothing THEN Nothing
                        ELSE [k \in Keys |-> IF table[s][k] # Unset THEN table[s][k] ELSE table["*"][k]]
<1>1. Globals(table) = [s \in DOMAIN table \ {"*"} |-> merged(s)]
  BY DEF Globals
<1>2. ASSUME NEW s \in DOMAIN table \ {"*"} PROVE merged(s) \in Settings
  <2>1. table[s] \in Settings /\ table["*"] \in Settings
    OBVIOUS
  <2>2. \A k \in Keys : table[s][k] \in Values \union {Unset} /\ table["*"][k] \in Values \union {Unset}
    BY <2>1 DEF Settings
  <2>3. [k \in Keys |-> IF table[s][k] # Unset THEN table[s][k] ELSE table["*"][k]] \in Settings
    BY <2>2 DEF Settings
  <2> QED
    BY <2>3, NothingSet
<1>3. ASSUME NEW s \in DOMAIN table \ {"*"}, table[s] # Nothing, NEW k \in Keys
      PROVE  merged(s)[k] = IF table[s][k] # Unset THEN table[s][k] ELSE table["*"][k]
  BY <1>3
<1> HIDE DEF merged
<1> QED
  BY <1>1, <1>2, <1>3

LEMMA EndTypes ==
  ASSUME TypeInv, EndOfFile
  PROVE  TypeInv'
<1> USE DEF TypeInv
<1>1. /\ mode = "read" /\ again = <<>> /\ UNCHANGED <<count, hooks, command, meant>>
      /\ again' = <<>> /\ skip' = skip
  BY DEF EndOfFile, Fail
<1>2. MeantFits(meant') /\ Counted' /\ Resting'
  BY <1>1 DEF Counted, Resting
<1>3. CASE conf' = conf /\ mode' = "error"
  BY <1>1, <1>2, <1>3 DEF TypeOK
<1>4. CASE "*" \notin DOMAIN conf.settings /\ conf' = conf /\ mode' = "done"
  BY <1>1, <1>2, <1>4 DEF TypeOK
<1>5. CASE /\ "*" \in DOMAIN conf.settings /\ conf' = [conf EXCEPT !.settings = Globals(@)]
           /\ mode' = "done"
  <2>1. /\ conf \in [section : Sections, sections : Seq(Files), settings : [DOMAIN conf.settings -> Settings]]
        /\ {""} \union ToSet(conf.sections) \subseteq DOMAIN conf.settings
        /\ DOMAIN conf.settings \subseteq Sections
    BY DEF TypeOK, IsConfiguration
  <2> DEFINE new == Globals(conf.settings)
             D == DOMAIN conf.settings \ {"*"}
  <2>2. new \in [D -> Settings]
    BY <1>5, <2>1, GlobalsSet
  <2>3. "*" \notin Files
    BY ConfAssumption
  <2>4. ToSet(conf.sections) \subseteq Files
    BY <2>1, AppendToSet
  <2>5. {""} \union ToSet(conf.sections) \subseteq D /\ D \subseteq Sections /\ "*" \notin D
    BY <2>1, <2>3, <2>4
  <2>6. conf' = [conf EXCEPT !.settings = new]
    BY <1>5
  <2> HIDE DEF new, D
  <2>7. /\ conf'.sections = conf.sections /\ conf'.settings = new /\ DOMAIN new = D
        /\ conf' \in [section : Sections, sections : Seq(Files), settings : [D -> Settings]]
    BY <2>1, <2>2, <2>6
  <2>8. IsConfiguration(conf') /\ "*" \notin DOMAIN conf'.settings
    BY <2>5, <2>7 DEF IsConfiguration
  <2> QED
    BY <1>1, <1>2, <1>5, <2>8 DEF TypeOK
<1> QED
  BY <1>1, <1>3, <1>4, <1>5 DEF EndOfFile, Fail

LEMMA AssignTypes ==
  ASSUME TypeInv, NEW adding \in BOOLEAN, NEW to \in Sections, NEW w \in Words,
         Assign(adding, to, "flags", w)
  PROVE  TypeInv'
<1> USE DEF TypeInv
<1>1. /\ mode = "done" /\ hooks' = hooks + 1 /\ hooks \in 0..MaxHooks /\ hooks < MaxHooks
      /\ UNCHANGED <<count, again, conf, skip, mode, meant>>
  BY DEF Assign, TypeOK
<1>2. conf.sections \in Seq(Files) /\ Files \subseteq Sections
  BY ConfAssumption DEF TypeOK, IsConfiguration
<1>3. conf.sections \in Seq(Sections) /\ <<to>> \in Seq(Sections) /\ <<w>> \in Values
  <2>1. \A i \in 1..Len(conf.sections) : conf.sections[i] \in Sections
    BY <1>2
  <2> QED
    BY <1>2, <2>1 DEF Values
<1>4. command' \in [adding : BOOLEAN, setting : Keys, given : Values, cmd : Values,
                    useSections : Seq(Sections)]
  BY <1>3 DEF Assign, Keys
<1>5. hooks' \in 0..MaxHooks /\ hooks' # 0
  BY <1>1, Bounded
<1>6. Counted' /\ Resting' /\ MeantFits(meant')
  BY <1>1, <1>5 DEF Counted, Resting
<1> QED
  BY <1>1, <1>4, <1>5, <1>6 DEF TypeOK

LEMMA AssignNextTypes ==
  ASSUME TypeInv, AssignNext
  PROVE  TypeInv'
<1> USE DEF TypeInv
<1> DEFINE sect == Head(command.useSections)
           old == conf.settings[sect][command.setting]
           cmd == IF command.adding /\ old # Unset THEN old \o command.cmd ELSE command.cmd
<1>1. /\ command.useSections # <<>> /\ mode = "done"
      /\ UNCHANGED <<count, again, skip, mode, hooks, meant>>
  BY DEF AssignNext, Resting, TypeOK
<1>2. /\ command \in [adding : BOOLEAN, setting : Keys, given : Values, cmd : Values,
                       useSections : Seq(Sections)]
      /\ Tail(command.useSections) \in Seq(Sections)
  BY <1>1, HeadTailProperties DEF TypeOK
<1>3. Counted' /\ Resting' /\ MeantFits(meant')
  BY <1>1 DEF Counted, Resting
<1>4. CASE sect \notin DOMAIN conf.settings
  <2>1. conf' = conf /\ command' = [command EXCEPT !.useSections = Tail(@)]
    BY <1>4 DEF AssignNext
  <2>2. command' \in [adding : BOOLEAN, setting : Keys, given : Values, cmd : Values,
                      useSections : Seq(Sections)]
    BY <1>2, <2>1
  <2> QED
    BY <1>1, <1>3, <2>1, <2>2 DEF TypeOK
<1>5. CASE sect \in DOMAIN conf.settings
  <2>1. /\ conf \in [section : Sections, sections : Seq(Files), settings : [DOMAIN conf.settings -> Settings]]
        /\ {""} \union ToSet(conf.sections) \subseteq DOMAIN conf.settings
        /\ DOMAIN conf.settings \subseteq Sections /\ "*" \notin DOMAIN conf.settings
    BY <1>1 DEF TypeOK, IsConfiguration
  <2>2. old \in Values \union {Unset}
    <3> HIDE DEF sect
    <3>1. conf.settings[sect] \in Settings /\ command.setting \in Keys
      BY <1>2, <1>5, <2>1
    <3> QED
      BY <3>1 DEF Settings
  <2>3. cmd \in Values
    BY <1>2, <2>2 DEF Values
  <2>4. /\ conf' = [conf EXCEPT !.settings[sect][command.setting] = cmd]
        /\ command' = [[command EXCEPT !.useSections = Tail(@)] EXCEPT !.cmd = cmd]
    BY <1>5 DEF AssignNext
  <2> HIDE DEF sect, old, cmd
  <2>5. command' \in [adding : BOOLEAN, setting : Keys, given : Values, cmd : Values,
                      useSections : Seq(Sections)]
    BY <1>2, <2>3, <2>4
  <2> DEFINE new == [conf.settings EXCEPT ![sect][command.setting] = cmd]
  <2>6. new \in [DOMAIN conf.settings -> Settings]
    BY <1>2, <1>5, <2>1, <2>3 DEF Settings
  <2>7. conf' = [conf EXCEPT !.settings = new]
    BY <2>1, <2>4
  <2> HIDE DEF new
  <2>8. /\ conf'.sections = conf.sections /\ conf'.settings = new
        /\ DOMAIN new = DOMAIN conf.settings
        /\ conf' \in [section : Sections, sections : Seq(Files),
                      settings : [DOMAIN conf.settings -> Settings]]
    BY <2>1, <2>6, <2>7
  <2>9. IsConfiguration(conf') /\ "*" \notin DOMAIN conf'.settings
    BY <2>1, <2>8 DEF IsConfiguration
  <2> QED
    BY <1>1, <1>3, <2>5, <2>9 DEF TypeOK
<1> QED
  BY <1>4, <1>5

LEMMA TypesNext == TypeInv /\ [Next]_vars => TypeInv'
<1> SUFFICES ASSUME TypeInv, [Next]_vars PROVE TypeInv'
  OBVIOUS
<1>1. CASE Reads
  BY <1>1, ReadTypes DEF Reads
<1>2. CASE EndOfFile
  BY <1>2, EndTypes
<1>3. CASE Assigns
  BY <1>3, AssignTypes, AssignNextTypes DEF Assigns
<1>4. CASE UNCHANGED vars
  BY <1>4 DEF vars, TypeInv, TypeOK, Counted, Resting, IsConfiguration
<1> QED
  BY <1>1, <1>2, <1>3, <1>4 DEF Next

\* The types of readConfig's tables and of closeScope's depth, whatever file is
\* read and whatever hooks set: "*" is no section once the file is read, and the
\* section that settings go to is always in the table.
THEOREM TypesHold == Spec => []TypeInv
<1>1. Init => TypeInv
  BY TypesInit
<1>2. TypeInv /\ [Next]_vars => TypeInv'
  BY TypesNext
<1> QED
  BY <1>1, <1>2, PTL DEF Spec

THEOREM ConfTypes == Spec => []TypeOK
<1>1. TypeInv => TypeOK
  BY DEF TypeInv
<1> QED
  BY <1>1, TypesHold, PTL

-----------------------------------------------------------------------------
(* Braces and blocks. *)

Chosen(q, n) == \A i \in 1..n : q[i].taken

\* Block p of q is the outermost that is not taken.
Refused(q, p) == p \in 1..Len(q) /\ Chosen(q, p - 1) /\ ~q[p].taken

\* How closeScope's depth stands for the blocks q: it counts those from the
\* outermost that is not taken, and an else of that one is ignored if one of
\* its blocks has been taken.
Stands(q, s) ==
  IF s.depth = 0 THEN Chosen(q, Len(q))
  ELSE LET p == Len(q) - s.depth + 1
       IN Refused(q, p) /\ (s.ignoreElse <=> q[p].done)

\* The rest r of a "} else" that is read once more has its block in q already,
\* and is not counted in the depth.
StandsBut(q, s, r) ==
  /\ Len(q) >= 1 /\ r.is \in {"version", "open"}
  /\ s.depth = 0 => /\ Chosen(q, Len(q) - 1)
                    /\ q[Len(q)].taken <=> (r.is = "version" => Holds(r))
                    /\ q[Len(q)].done <=> q[Len(q)].taken
  /\ s.depth > 0 => LET p == Len(q) - s.depth
                    IN Refused(q, p) /\ ~q[p].done /\ ~s.ignoreElse

Agrees ==
  mode = "read" /\ meant.fits =>
    /\ conf = meant.conf
    /\ \A i \in 1..Len(meant.blocks) : meant.blocks[i].taken => meant.blocks[i].done
    /\ again = <<>> => Stands(meant.blocks, skip)
    /\ again # <<>> => StandsBut(meant.blocks, skip, again[1])

Skips == [depth : Nat, ignoreElse : BOOLEAN]

LEMMA Pushed ==
  ASSUME NEW q \in Seq(Block), NEW b \in Block
  PROVE  /\ Len(q) \in Nat /\ Len(Append(q, b)) = Len(q) + 1
         /\ Append(q, b)[Len(q) + 1] = b
         /\ \A i \in 1..Len(q) : Append(q, b)[i] = q[i]
OBVIOUS

LEMMA Replaced ==
  ASSUME NEW q \in Seq(Block), q # <<>>, NEW b \in Block
  PROVE  /\ Len(q) \in Nat \ {0} /\ Len(Append(Front(q), b)) = Len(q)
         /\ Append(Front(q), b)[Len(q)] = b
         /\ \A i \in 1..(Len(q) - 1) : Append(Front(q), b)[i] = q[i]
<1>1. /\ Front(q) \in Seq(Block) /\ Len(Front(q)) = Len(q) - 1 /\ Len(q) \in Nat \ {0}
      /\ \A i \in 1..(Len(q) - 1) : Front(q)[i] = q[i]
  BY FrontOf
<1> QED
  BY <1>1, Pushed

\* How to show Stands, and what it gives, by the number n of blocks.
LEMMA StandsTaken ==
  ASSUME NEW q, NEW n, n = Len(q), NEW s, s.depth = 0
  PROVE  Stands(q, s) <=> Chosen(q, n)
BY DEF Stands

LEMMA StandsRefused ==
  ASSUME NEW q, NEW s \in Skips, s.depth > 0, NEW p, p = Len(q) - s.depth + 1
  PROVE  Stands(q, s) <=> Refused(q, p) /\ (s.ignoreElse <=> q[p].done)
<1>1. s.depth # 0
  BY DEF Skips
<1> QED
  BY <1>1 DEF Stands

\* The first n of two lists of blocks are the same.
LEMMA RefusedAlike ==
  ASSUME NEW q, NEW z, NEW n \in Nat, \A i \in 1..n : z[i] = q[i],
         NEW p \in 1..n, Len(z) \in Nat, n <= Len(z), Refused(q, p)
  PROVE  Refused(z, p)
BY DEF Refused, Chosen

\* A block that is opened is counted, or taken.
LEMMA StandsOpened ==
  ASSUME NEW q \in Seq(Block), NEW b \in Block, NEW s \in Skips, Stands(q, s),
         b.done <=> b.taken, NEW t \in Skips,
         \/ s.depth > 0 /\ t.depth = s.depth + 1 /\ t.ignoreElse = s.ignoreElse
         \/ s.depth = 0 /\ b.taken /\ t.depth = 0
         \/ s.depth = 0 /\ ~b.taken /\ t.depth = 1 /\ ~t.ignoreElse
  PROVE  Stands(Append(q, b), t)
<1> DEFINE n == Len(q)
           z == Append(q, b)
           p == n - s.depth + 1
<1>1. /\ n \in Nat /\ Len(z) = n + 1 /\ z[n + 1] = b
      /\ \A i \in 1..n : z[i] = q[i]
  BY Pushed
<1>2. s.depth \in Nat /\ t.depth \in Nat
  BY DEF Skips
<1> HIDE DEF z, n
<1>3. CASE s.depth > 0 /\ t.depth = s.depth + 1 /\ t.ignoreElse = s.ignoreElse
  <2>1. Refused(q, p) /\ (s.ignoreElse <=> q[p].done)
    BY <1>3, StandsRefused DEF n
  <2>2. p \in 1..n
    BY <2>1 DEF Refused, n
  <2>3. Refused(z, p) /\ z[p] = q[p]
    <3> HIDE DEF p
    <3>1. Len(z) \in Nat /\ n <= Len(z)
      BY <1>1
    <3> QED
      BY <1>1, <2>1, <2>2, <3>1, RefusedAlike
  <2>4. p = Len(z) - t.depth + 1 /\ t.depth > 0
    <3>1. \A m, d \in Nat : m - d + 1 = (m + 1) - (d + 1) + 1 /\ d + 1 > 0
      OBVIOUS
    <3> QED
      BY <1>1, <1>2, <1>3, <3>1
  <2>5. t.ignoreElse <=> z[p].done
    BY <1>3, <2>1, <2>3
  <2> HIDE DEF p
  <2>6. Stands(z, t)
    BY <2>3, <2>4, <2>5, StandsRefused
  <2> QED
    BY <2>6 DEF z
<1>4. CASE s.depth = 0
  <2>1. Chosen(q, n)
    BY <1>4, StandsTaken DEF n
  <2>2. Chosen(z, n)
    BY <1>1, <2>1 DEF Chosen
  <2>3. CASE b.taken /\ t.depth = 0
    <3>1. Chosen(z, n + 1)
      BY <1>1, <2>2, <2>3 DEF Chosen
    <3>2. Stands(z, t)
      BY <1>1, <2>3, <3>1, StandsTaken
    <3> QED
      BY <3>2 DEF z
  <2>4. CASE ~b.taken /\ t.depth = 1 /\ ~t.ignoreElse
    <3>1. Refused(z, n + 1) /\ n + 1 = Len(z) - t.depth + 1 /\ t.depth > 0
      BY <1>1, <2>2, <2>4 DEF Refused
    <3>2. t.ignoreElse <=> z[n + 1].done
      BY <1>1, <2>4
    <3>3. Stands(z, t)
      BY <3>1, <3>2, StandsRefused
    <3> QED
      BY <3>3 DEF z
  <2> QED
    BY <1>2, <1>4, <2>3, <2>4
<1> QED
  BY <1>3, <1>4

\* A block that is closed is no longer counted.
LEMMA StandsClosed ==
  ASSUME NEW q \in Seq(Block), q # <<>>, NEW s \in Skips, Stands(q, s), NEW t \in Skips,
         \/ s.depth = 0 /\ t.depth = 0
         \/ s.depth > 0 /\ t.depth = s.depth - 1 /\ t.ignoreElse = s.ignoreElse
  PROVE  Stands(Front(q), t)
<1> DEFINE n == Len(q)
           z == Front(q)
           p == n - s.depth + 1
<1>1. /\ n \in Nat \ {0} /\ Len(z) = n - 1
      /\ \A i \in 1..(n - 1) : z[i] = q[i]
  BY FrontOf
<1>2. s.depth \in Nat /\ t.depth \in Nat
  BY DEF Skips
<1> HIDE DEF z, n
<1>3. CASE s.depth = 0 /\ t.depth = 0
  <2>1. Chosen(q, n)
    BY <1>3, StandsTaken DEF n
  <2>2. Chosen(z, n - 1)
    BY <1>1, <2>1 DEF Chosen
  <2>3. Stands(z, t)
    BY <1>1, <1>3, <2>2, StandsTaken
  <2> QED
    BY <2>3 DEF z
<1>4. CASE s.depth > 0 /\ t.depth = s.depth - 1 /\ t.ignoreElse = s.ignoreElse
  <2>1. Refused(q, p) /\ (s.ignoreElse <=> q[p].done)
    BY <1>4, StandsRefused DEF n
  <2>2. p \in 1..n
    BY <2>1 DEF Refused, n
  <2>3. CASE t.depth = 0
    <3>1. Chosen(q, n - 1)
      BY <1>1, <1>2, <1>4, <2>1, <2>3 DEF Refused
    <3>2. Chosen(z, n - 1)
      BY <1>1, <3>1 DEF Chosen
    <3>3. Stands(z, t)
      BY <1>1, <2>3, <3>2, StandsTaken
    <3> QED
      BY <3>3 DEF z
  <2>4. CASE t.depth > 0
    <3>1. p \in 1..(n - 1) /\ p = Len(z) - t.depth + 1 /\ n - 1 \in Nat
      BY <1>1, <1>2, <1>4, <2>2, <2>4
    <3> HIDE DEF p
    <3>2. Refused(z, p) /\ z[p] = q[p]
      BY <1>1, <2>1, <3>1, RefusedAlike
    <3>3. t.ignoreElse <=> z[p].done
      BY <1>4, <2>1, <3>2
    <3>4. Stands(z, t)
      BY <2>4, <3>1, <3>2, <3>3, StandsRefused
    <3> QED
      BY <3>4 DEF z
  <2> QED
    BY <1>2, <2>3, <2>4
<1> QED
  BY <1>3, <1>4

\* "} else" and what opens a block, met where all blocks are taken: the last
\* one is over, and its else is skipped.
LEMMA StandsElse ==
  ASSUME NEW q \in Seq(Block), q # <<>>, NEW b \in Block, ~b.taken, b.done,
         NEW s \in Skips, s.depth = 0, Stands(q, s),
         NEW t \in Skips, t.depth = 1, t.ignoreElse
  PROVE  Stands(Append(Front(q), b), t)
<1> DEFINE n == Len(q)
           z == Append(Front(q), b)
<1>1. /\ n \in Nat \ {0} /\ Len(z) = n /\ z[n] = b
      /\ \A i \in 1..(n - 1) : z[i] = q[i]
  BY Replaced
<1>2. Chosen(q, n)
  BY StandsTaken
<1> HIDE DEF z, n
<1>3. Refused(z, n) /\ z[n].done /\ n = Len(z) - t.depth + 1 /\ t.depth > 0
  BY <1>1, <1>2 DEF Refused, Chosen
<1>4. Stands(z, t)
  BY <1>3, StandsRefused
<1> QED
  BY <1>4 DEF z

\* The same, met where lines are skipped: another block takes the place of the
\* last.  It is read once more, unless the outermost refused block is that last
\* one and has been taken.
LEMMA StandsSkipElse ==
  ASSUME NEW q \in Seq(Block), q # <<>>, NEW b \in Block, NEW r, r.is \in {"version", "open"},
         b.taken <=> ~q[Len(q)].done /\ (r.is = "version" => Holds(r)),
         b.done <=> q[Len(q)].done \/ b.taken,
         NEW s \in Skips, s.depth > 0, Stands(q, s)
  PROVE  /\ s.ignoreElse => Stands(Append(Front(q), b), s)
         /\ ~s.ignoreElse =>
              \A t \in Skips : t.depth = s.depth - 1 /\ t.ignoreElse = s.ignoreElse =>
                StandsBut(Append(Front(q), b), t, r)
<1> DEFINE n == Len(q)
           z == Append(Front(q), b)
           p == n - s.depth + 1
<1>1. /\ n \in Nat \ {0} /\ Len(z) = n /\ z[n] = b
      /\ \A i \in 1..(n - 1) : z[i] = q[i]
  BY Replaced
<1>2. s.depth \in Nat
  BY DEF Skips
<1> HIDE DEF z, n
<1>3. Refused(q, p) /\ (s.ignoreElse <=> q[p].done)
  BY StandsRefused DEF n
<1>4. p \in 1..n
  BY <1>3 DEF Refused, n
<1>5. (b.taken <=> ~q[n].done /\ (r.is = "version" => Holds(r))) /\ (b.done <=> q[n].done \/ b.taken)
  BY DEF n
<1>6. Chosen(z, p - 1)
  BY <1>1, <1>3, <1>4 DEF Refused, Chosen
<1>7. p < n => Refused(z, p) /\ z[p] = q[p]
  BY <1>1, <1>3, <1>4, <1>6 DEF Refused
<1>8. ASSUME s.ignoreElse PROVE Stands(z, s)
  <2>1. p = n => Refused(z, p) /\ z[p].done
    BY <1>1, <1>3, <1>4, <1>5, <1>6, <1>8 DEF Refused
  <2>2. Refused(z, p) /\ z[p].done /\ p = Len(z) - s.depth + 1
    BY <1>1, <1>3, <1>4, <1>7, <1>8, <2>1
  <2> QED
    BY <1>8, <2>2, StandsRefused
<1>9. ASSUME ~s.ignoreElse, NEW t \in Skips, t.depth = s.depth - 1, t.ignoreElse = s.ignoreElse
      PROVE  StandsBut(z, t, r)
  <2>1. t.depth \in Nat
    BY DEF Skips
  <2>2. CASE t.depth = 0
    <3>1. p = n
      BY <1>1, <1>2, <1>9, <2>2
    <3>2. /\ Chosen(z, Len(z) - 1) /\ (z[Len(z)].taken <=> (r.is = "version" => Holds(r)))
          /\ z[Len(z)].done <=> z[Len(z)].taken
      BY <1>1, <1>3, <1>5, <1>6, <1>9, <3>1
    <3> QED
      BY <1>1, <2>2, <3>2 DEF StandsBut
  <2>3. CASE t.depth > 0
    <3>1. p < n /\ p = Len(z) - t.depth
      BY <1>1, <1>2, <1>9, <2>1, <2>3
    <3>2. Refused(z, p) /\ ~z[p].done /\ ~t.ignoreElse
      BY <1>3, <1>7, <1>9, <3>1
    <3> HIDE DEF p
    <3> QED
      BY <1>1, <2>3, <3>1, <3>2 DEF StandsBut
  <2> QED
    BY <2>1, <2>2, <2>3
<1> QED
  BY <1>8, <1>9 DEF z

\* The rest of "} else" is read, by readConfig or by closeScope.
LEMMA StandsAgain ==
  ASSUME NEW q \in Seq(Block), NEW s \in Skips, NEW r, StandsBut(q, s, r), NEW t \in Skips,
         \/ s.depth > 0 /\ t.depth = s.depth + 1 /\ t.ignoreElse = s.ignoreElse
         \/ s.depth = 0 /\ (r.is = "version" => Holds(r)) /\ t.depth = 0
         \/ s.depth = 0 /\ ~(r.is = "version" => Holds(r)) /\ t.depth = 1 /\ ~t.ignoreElse
  PROVE  Stands(q, t)
<1> DEFINE n == Len(q)
           p == n - s.depth
<1>1. n \in Nat /\ n >= 1 /\ s.depth \in Nat /\ t.depth \in Nat
  BY DEF StandsBut, Skips
<1>2. CASE s.depth > 0 /\ t.depth = s.depth + 1 /\ t.ignoreElse = s.ignoreElse
  <2>1. Refused(q, p) /\ ~q[p].done /\ ~s.ignoreElse
    BY <1>2 DEF StandsBut
  <2>2. p = n - t.depth + 1 /\ t.depth > 0
    BY <1>1, <1>2
  <2> HIDE DEF p
  <2> QED
    BY <1>2, <2>1, <2>2, StandsRefused
<1>3. CASE s.depth = 0
  <2>1. /\ Chosen(q, n - 1) /\ (q[n].done <=> q[n].taken)
        /\ q[n].taken <=> (r.is = "version" => Holds(r))
    BY <1>3 DEF StandsBut
  <2>2. CASE (r.is = "version" => Holds(r)) /\ t.depth = 0
    <3>1. Chosen(q, n)
      BY <1>1, <2>1, <2>2 DEF Chosen
    <3> QED
      BY <2>2, <3>1, StandsTaken
  <2>3. CASE ~(r.is = "version" => Holds(r)) /\ t.depth = 1 /\ ~t.ignoreElse
    <3>1. Refused(q, n) /\ ~q[n].done /\ n = Len(q) - t.depth + 1 /\ t.depth > 0
      BY <1>1, <2>1, <2>3 DEF Refused
    <3> QED
      BY <2>3, <3>1, StandsRefused
  <2> QED
    BY <1>3, <2>2, <2>3
<1> QED
  BY <1>2, <1>3

-----------------------------------------------------------------------------
(* What is read agrees with what is meant. *)

LEMMA StandsMeans ==
  ASSUME NEW q \in Seq(Block), NEW s \in Skips, Stands(q, s)
  PROVE  s.depth = 0 <=> Taken(q)
<1>1. Len(q) \in Nat /\ DOMAIN q = 1..Len(q)
  OBVIOUS
<1>2. CASE s.depth = 0
  BY <1>1, <1>2, StandsTaken DEF Chosen, Taken
<1>3. CASE s.depth > 0
  <2>1. Refused(q, Len(q) - s.depth + 1)
    BY <1>3, StandsRefused
  <2>2. ~Taken(q)
    BY <1>1, <2>1 DEF Refused, Taken
  <2> QED
    BY <1>3, <2>2
<1> QED
  BY <1>2, <1>3 DEF Skips

Sound(q) == \A i \in 1..Len(q) : q[i].taken => q[i].done

LEMMA SoundPushed ==
  ASSUME NEW q \in Seq(Block), Sound(q), NEW b \in Block, b.taken => b.done
  PROVE  Sound(Append(q, b))
<1> DEFINE n == Len(q)
           z == Append(q, b)
<1>1. n \in Nat /\ Len(z) = n + 1 /\ z[n + 1] = b /\ \A i \in 1..n : z[i] = q[i]
  BY Pushed
<1> HIDE DEF z
<1>2. \A i \in 1..(n + 1) : i \in 1..n \/ i = n + 1
  BY <1>1
<1>3. Sound(z)
  BY <1>1, <1>2 DEF Sound
<1> QED
  BY <1>3 DEF z

LEMMA SoundFront ==
  ASSUME NEW q \in Seq(Block), Sound(q), q # <<>>
  PROVE  Sound(Front(q)) /\ Front(q) \in Seq(Block)
<1> DEFINE n == Len(q)
           z == Front(q)
<1>1. /\ z \in Seq(Block) /\ Len(z) = n - 1 /\ n \in Nat \ {0}
      /\ \A i \in 1..(n - 1) : z[i] = q[i]
  BY FrontOf
<1>2. \A i \in 1..(n - 1) : i \in 1..n
  BY <1>1
<1> HIDE DEF z
<1>3. Sound(z)
  BY <1>1, <1>2 DEF Sound
<1> QED
  BY <1>1, <1>3 DEF z

\* What Read and Skip do to a line, by its kind.
LEMMA StepOpening ==
  ASSUME NEW l, l.is \in {"version", "open"}, Read(l) \/ Skip(l), skip \in Skips
  PROVE  /\ again' = <<>> /\ conf' = conf /\ skip' \in Skips
         /\ \/ skip.depth > 0 /\ skip'.depth = skip.depth + 1 /\ skip'.ignoreElse = skip.ignoreElse
            \/ skip.depth = 0 /\ (l.is = "version" => Holds(l)) /\ skip'.depth = 0
            \/ skip.depth = 0 /\ ~(l.is = "version" => Holds(l)) /\ skip'.depth = 1 /\ ~skip'.ignoreElse
<1>1. CASE Read(l)
  <2>1. Says(conf, l) = conf
    BY DEF Says
  <2>2. CASE skip' = skip
    BY <1>1, <2>1, <2>2 DEF Read, Fail
  <2>3. CASE skip' = [depth |-> 1, ignoreElse |-> l.is = "else"]
    BY <1>1, <2>1, <2>3 DEF Read, Fail, Skips
  <2> QED
    BY <1>1, <2>2, <2>3 DEF Read, Fail
<1>2. CASE Skip(l)
  <2>1. skip' = [skip EXCEPT !.depth = @ + 1] /\ again' = <<>> /\ conf' = conf /\ skip.depth > 0
    BY <1>2 DEF Skip, Opens
  <2> QED
    BY <2>1 DEF Skips
<1> QED
  BY <1>1, <1>2

\* A line that is read for the first time.
LEMMA AgreesLine ==
  ASSUME TypeInv, Agrees, ElsesOpen, again = <<>>, meant.fits,
         NEW l \in Lines, Read(l) \/ Skip(l)
  PROVE  Agrees'
<1> DEFINE q == meant.blocks
           m == Means(meant, l)
<1>1. /\ mode = "read" /\ meant' = m /\ MeantFits(meant) /\ q \in Seq(Block)
      /\ IsLine(l) \/ (l.is = "else" /\ IsLine(l.rest))
  BY LinesAssumption DEF Read, Skip, Line, TypeInv, MeantFits
<1>2. skip \in Skips
  BY Bounded DEF TypeInv, TypeOK, Skips
<1>3. conf = meant.conf /\ Sound(q) /\ Stands(q, skip)
  BY <1>1 DEF Agrees, Sound
<1>4. skip.depth = 0 <=> Taken(q)
  BY <1>1, <1>2, <1>3, StandsMeans
<1> HIDE DEF m, q
<1> SUFFICES ASSUME mode' = "read", m.fits
             PROVE  /\ conf' = m.conf /\ Sound(m.blocks)
                    /\ again' = <<>> => Stands(m.blocks, skip')
                    /\ again' # <<>> => StandsBut(m.blocks, skip', again'[1])
  BY <1>1 DEF Agrees, Sound
<1>5. CASE l.is \in {"version", "open"}
  <2>1. PICK b \in Block :
          /\ m = Meaning(meant.conf, Append(q, b), meant.fits)
          /\ b.taken <=> (l.is = "version" => Holds(l))
          /\ b.done <=> b.taken
    <3>1. PICK b \in Block :
            /\ Means(meant, l) = Meaning(meant.conf, Append(meant.blocks, b), meant.fits)
            /\ b.taken <=> (l.is = "version" => Holds(l))
            /\ b.done <=> b.taken
      <4>1. MeantFits(meant)
        BY <1>1
      <4> QED
        BY <4>1, <1>5, MeansOpening DEF Meaning
    <3> QED
      BY <3>1 DEF m, q
  <2>2. m.conf = meant.conf /\ m.blocks = Append(q, b)
    BY <2>1 DEF Meaning
  <2>3. /\ again' = <<>> /\ conf' = conf /\ skip' \in Skips
        /\ \/ skip.depth > 0 /\ skip'.depth = skip.depth + 1 /\ skip'.ignoreElse = skip.ignoreElse
           \/ skip.depth = 0 /\ (l.is = "version" => Holds(l)) /\ skip'.depth = 0
           \/ skip.depth = 0 /\ ~(l.is = "version" => Holds(l)) /\ skip'.depth = 1 /\ ~skip'.ignoreElse
    BY <1>2, <1>5, StepOpening
  <2>4. Stands(Append(q, b), skip')
    BY <1>1, <1>2, <1>3, <2>1, <2>3, StandsOpened
  <2>5. Sound(Append(q, b))
    BY <1>1, <1>3, <2>1, SoundPushed
  <2> QED
    BY <1>3, <2>2, <2>3, <2>4, <2>5
<1>6. CASE l.is \in {"close", "else"} /\ q = <<>>
  <2>1. meant.blocks = <<>>
    BY <1>6 DEF q
  <2>2. ~m.fits
    BY <1>1, <1>6, <2>1, MeansMisfit DEF m
  <2> QED
    BY <2>2
<1>7. CASE l.is = "close" /\ q # <<>>
  <2>1. m = Meaning(meant.conf, Front(q), meant.fits)
    BY <1>1, <1>7, MeansClose DEF m, q
  <2>2. m.conf = meant.conf /\ m.blocks = Front(q)
    BY <2>1 DEF Meaning
  <2>3. Says(conf, l) = conf
    BY <1>7 DEF Says
  <2>4. /\ again' = <<>> /\ conf' = conf
        /\ IF skip.depth = 0 THEN skip' = skip ELSE skip' = [skip EXCEPT !.depth = @ - 1]
    BY <1>2, <1>7, <2>3 DEF Read, Skip, Fail, Opens, Skips
  <2>5. /\ skip' \in Skips
        /\ \/ skip.depth = 0 /\ skip'.depth = 0
           \/ skip.depth > 0 /\ skip'.depth = skip.depth - 1 /\ skip'.ignoreElse = skip.ignoreElse
    BY <1>2, <2>4 DEF Skips
  <2>6. Stands(Front(q), skip')
    BY <1>1, <1>2, <1>3, <1>7, <2>5, StandsClosed
  <2> QED
    BY <1>1, <1>3, <1>7, <2>2, <2>4, <2>6, SoundFront
<1>8. CASE l.is = "else" /\ q # <<>>
  <2>1. l.rest.is \in {"version", "open"}
    BY <1>8 DEF ElsesOpen, Opens
  <2>2. PICK b \in Block :
          /\ m = Meaning(meant.conf, Append(Front(q), b), meant.fits)
          /\ b.taken <=> ~q[Len(q)].done /\ (l.rest.is = "version" => Holds(l.rest))
          /\ b.done <=> q[Len(q)].done \/ b.taken
    BY <1>1, <1>8, <2>1, MeansElseOpens DEF m, q
  <2>3. m.conf = meant.conf /\ m.blocks = Append(Front(q), b)
    BY <2>2 DEF Meaning
  <2>4. Sound(m.blocks)
    BY <1>1, <1>3, <1>8, <2>2, <2>3, SoundFront, SoundPushed
  <2>5. CASE skip.depth = 0
    <3>1. again' = <<>> /\ conf' = conf /\ skip' = [depth |-> 1, ignoreElse |-> l.is = "else"]
      BY <1>8, <2>5 DEF Read, Skip, Fail
    <3>2. q[Len(q)].done
      <4>1. Len(q) \in Nat \ {0} /\ Len(q) \in 1..Len(q)
        BY <1>1, <1>8, FrontOf
      <4>2. q[Len(q)].taken
        BY <1>3, <2>5, <4>1, StandsTaken DEF Chosen
      <4> QED
        BY <1>3, <4>1, <4>2 DEF Sound
    <3>3. skip' \in Skips /\ skip'.depth = 1 /\ skip'.ignoreElse
      BY <1>8, <3>1 DEF Skips
    <3>4. Stands(m.blocks, skip')
      BY <1>1, <1>2, <1>3, <1>8, <2>2, <2>3, <2>5, <3>2, <3>3, StandsElse
    <3> QED
      BY <1>3, <2>3, <2>4, <3>1, <3>4
  <2>6. CASE skip.depth > 0
    <3>1. /\ skip.ignoreElse => Stands(m.blocks, skip)
          /\ ~skip.ignoreElse =>
               \A t \in Skips : t.depth = skip.depth - 1 /\ t.ignoreElse = skip.ignoreElse =>
                 StandsBut(m.blocks, t, l.rest)
      <4>1. Stands(q, skip) /\ q # <<>> /\ q \in Seq(Block)
        BY <1>1, <1>3, <1>8
      <4>2. /\ skip.ignoreElse => Stands(Append(Front(q), b), skip)
            /\ ~skip.ignoreElse =>
                 \A t \in Skips : t.depth = skip.depth - 1 /\ t.ignoreElse = skip.ignoreElse =>
                   StandsBut(Append(Front(q), b), t, l.rest)
        BY <4>1, <1>2, <2>1, <2>2, <2>6, StandsSkipElse
      <4> QED
        BY <4>2, <2>3
    <3>2. conf' = conf
      BY <2>6 DEF Read, Skip
    <3>3. CASE skip.ignoreElse
      <4>1. again' = <<>> /\ skip' = skip
        BY <1>8, <2>1, <2>6, <3>3 DEF Read, Skip, Opens
      <4> QED
        BY <1>3, <2>3, <2>4, <3>1, <3>2, <3>3, <4>1
    <3>4. CASE ~skip.ignoreElse
      <4>1. again' = <<l.rest>> /\ skip' = [skip EXCEPT !.depth = @ - 1]
        BY <1>8, <2>1, <2>6, <3>4 DEF Read, Skip, Opens
      <4>2. skip' \in Skips /\ skip'.depth = skip.depth - 1 /\ skip'.ignoreElse = skip.ignoreElse
        BY <1>2, <2>6, <4>1 DEF Skips
      <4>3. again' # <<>> /\ again'[1] = l.rest
        BY <4>1
      <4>4. StandsBut(m.blocks, skip', l.rest)
        BY <3>1, <3>4, <4>2
      <4> QED
        BY <1>3, <2>3, <2>4, <3>2, <4>3, <4>4
    <3> QED
      BY <3>3, <3>4
  <2> QED
    BY <1>2, <2>5, <2>6 DEF Skips
<1>9. CASE l.is \in {"header", "set", "append"}
  <2>1. IsLine(l)
    BY <1>1, <1>9
  <2>2. m = Meaning(IF Taken(q) THEN Says(meant.conf, l) ELSE meant.conf, q, meant.fits)
    <3>1. Means(meant, l) =
            Meaning(IF Taken(meant.blocks) THEN Says(meant.conf, l) ELSE meant.conf,
                    meant.blocks, meant.fits)
      <4>1. MeantFits(meant)
        BY <1>1
      <4> QED
        BY <4>1, <1>9, <2>1, MeansSaying DEF Meaning
    <3> QED
      BY <3>1 DEF m, q
  <2>3. m.conf = (IF Taken(q) THEN Says(meant.conf, l) ELSE meant.conf) /\ m.blocks = q
    BY <2>2 DEF Meaning
  <2>4. /\ again' = <<>> /\ skip' = skip
        /\ conf' = IF skip.depth = 0 THEN Says(conf, l) ELSE conf
    BY <1>2, <1>9 DEF Read, Skip, Fail, Opens, Skips
  <2> QED
    BY <1>3, <1>4, <2>3, <2>4
<1>10. CASE l.is = "unrecognized"
  <2>1. m.conf = meant.conf /\ m.blocks = q
    BY <1>1, <1>10, MeansNothing DEF m, q
  <2>2. again' = <<>> /\ skip' = skip /\ conf' = conf
    BY <1>10 DEF Read, Skip, Fail, Opens
  <2> QED
    BY <1>3, <2>1, <2>2
<1> QED
  BY <1>1, <1>5, <1>6, <1>7, <1>8, <1>9, <1>10, LineFields

\* The rest of a "} else" is read once more.
LEMMA AgreesRest ==
  ASSUME TypeInv, Agrees, again # <<>>, meant.fits, NEW l, Read(l) \/ Skip(l)
  PROVE  Agrees'
<1>1. mode = "read" /\ l = again[1] /\ meant' = meant
  BY DEF Read, Skip, Line
<1>2. skip \in Skips /\ meant.blocks \in Seq(Block)
  BY Bounded DEF TypeInv, TypeOK, Skips, MeantFits
<1>3. conf = meant.conf /\ Sound(meant.blocks) /\ StandsBut(meant.blocks, skip, l)
  BY <1>1 DEF Agrees, Sound
<1>4. l.is \in {"version", "open"}
  BY <1>3 DEF StandsBut
<1>5. /\ again' = <<>> /\ conf' = conf /\ skip' \in Skips
      /\ \/ skip.depth > 0 /\ skip'.depth = skip.depth + 1 /\ skip'.ignoreElse = skip.ignoreElse
         \/ skip.depth = 0 /\ (l.is = "version" => Holds(l)) /\ skip'.depth = 0
         \/ skip.depth = 0 /\ ~(l.is = "version" => Holds(l)) /\ skip'.depth = 1 /\ ~skip'.ignoreElse
  BY <1>2, <1>4, StepOpening
<1>6. Stands(meant.blocks, skip')
  BY <1>2, <1>3, <1>5, StandsAgain
<1> QED
  BY <1>1, <1>3, <1>5, <1>6 DEF Agrees, Sound

\* No line makes a file fit that did not.
LEMMA NeverFitsAgain ==
  ASSUME TypeInv, NEW l \in Lines \union ToSet(again), Line(l), meant'.fits
  PROVE  meant.fits
<1>1. MeantFits(meant) /\ (IsLine(l) \/ l.is = "else")
  BY ReadLines DEF TypeInv
<1>2. CASE meant' = meant
  BY <1>2
<1>3. CASE meant' = Means(meant, l)
  <2>1. Means(meant, l).fits => meant.fits
    <3>1. CASE l.is \in {"version", "open"}
      BY <1>1, <3>1, MeansOpening DEF Meaning
    <3>2. CASE l.is \in {"close", "else"} /\ meant.blocks = <<>>
      <4>1. meant.blocks = <<>>
        BY <3>2
      <4> QED
        BY <1>1, <3>2, <4>1, MeansMisfit
    <3>3. CASE l.is = "close" /\ meant.blocks # <<>>
      BY <1>1, <3>3, MeansClose DEF Meaning
    <3>4. CASE l.is = "else" /\ meant.blocks # <<>>
      <4>1. Means(meant, l) = MeansElse(meant, l.rest)
        BY <3>4 DEF Means
      <4>2. MeansElse(meant, l.rest).fits = meant.fits
        BY <1>1 DEF MeansElse, MeantFits, Meaning
      <4> QED
        BY <4>1, <4>2
    <3>5. CASE l.is \in {"header", "set", "append"}
      <4>1. IsLine(l)
        BY <1>1, <3>5
      <4> QED
        BY <1>1, <3>5, <4>1, MeansSaying DEF Meaning
    <3>6. CASE l.is = "unrecognized"
      BY <1>1, <3>6, MeansNothing
    <3> QED
      BY <1>1, <3>1, <3>2, <3>3, <3>4, <3>5, <3>6, LineFields
  <2> QED
    BY <1>3, <2>1
<1> QED
  BY <1>2, <1>3 DEF Line

\* What the file is refused for.
Refusals == mode = "error" => ~meant.fits \/ meant.blocks # <<>>

\* What has been read, once all is.
Obeyed == IF "*" \in DOMAIN meant.conf.settings
         THEN [meant.conf EXCEPT !.settings = Globals(@)] ELSE meant.conf

AllRead == mode = "done" /\ hooks = 0 /\ meant.fits => conf = Obeyed

ConfInv == TypeInv /\ Agrees /\ Refusals /\ AllRead

LEMMA AgreesInit == Init => Agrees /\ Refusals /\ AllRead
<1>1. ASSUME Init PROVE Chosen(<<>>, 0) /\ Len(<<>>) = 0
  BY DEF Chosen
<1> QED
  BY <1>1, StandsTaken DEF Init, NoSkip, Agrees, Refusals, AllRead

LEMMA ReadAgrees ==
  ASSUME ConfInv, ElsesOpen, NEW l \in Lines \union ToSet(again), Read(l) \/ Skip(l)
  PROVE  Agrees' /\ Refusals' /\ AllRead'
<1> USE DEF ConfInv
<1>1. Line(l) /\ mode = "read" /\ mode' \in {"read", "error"}
  BY DEF Read, Skip, Line, Fail
<1>2. l \in Lines \/ again # <<>>
  BY ReadLines DEF TypeInv
<1>3. meant'.fits => meant.fits
  BY <1>1, NeverFitsAgain
<1>4. Agrees'
  <2>1. CASE ~meant.fits
    BY <1>3, <2>1 DEF Agrees
  <2>2. CASE meant.fits
    BY <1>2, <2>2, AgreesLine, AgreesRest
  <2> QED
    BY <2>1, <2>2
<1>5. Refusals'
  <2> SUFFICES ASSUME mode' = "error", meant'.fits PROVE meant'.blocks # <<>>
    BY DEF Refusals
  <2>1. l.is = "unrecognized" /\ meant.fits
    BY <1>1, <1>3 DEF Read, Skip, Fail
  <2>2. again = <<>>
    <3>1. again # <<>> => StandsBut(meant.blocks, skip, l)
      BY <1>1, <2>1 DEF Agrees, Line
    <3> QED
      BY <2>1, <3>1 DEF StandsBut
  <2>3. meant' = Means(meant, l) /\ MeantFits(meant)
    BY <1>1, <2>2 DEF Line, TypeInv
  <2>4. meant'.blocks = meant.blocks /\ ~Taken(meant.blocks)
    BY <2>1, <2>3, MeansNothing
  <2> QED
    BY <2>4 DEF Taken
<1>6. AllRead'
  BY <1>1 DEF AllRead
<1> QED
  BY <1>4, <1>5, <1>6

LEMMA EndAgrees ==
  ASSUME ConfInv, EndOfFile
  PROVE  Agrees' /\ Refusals' /\ AllRead'
<1> USE DEF ConfInv
<1>1. mode = "read" /\ again = <<>> /\ meant' = meant /\ hooks' = hooks
  BY DEF EndOfFile
<1>2. meant.fits => conf = meant.conf /\ Stands(meant.blocks, skip)
  BY <1>1 DEF Agrees
<1>3. skip \in Skips
  BY Bounded DEF TypeInv, TypeOK, Skips
<1>4. CASE skip.depth > 0
  <2>1. mode' = "error"
    BY <1>4 DEF EndOfFile, Fail
  <2>2. meant.fits => Refused(meant.blocks, Len(meant.blocks) - skip.depth + 1)
    BY <1>2, <1>3, <1>4, StandsRefused
  <2>3. meant.fits => meant.blocks # <<>>
    BY <2>2 DEF Refused
  <2> QED
    BY <1>1, <2>1, <2>3 DEF Agrees, Refusals, AllRead
<1>5. CASE ~(skip.depth > 0)
  <2>1. /\ mode' = "done"
        /\ conf' = IF "*" \in DOMAIN conf.settings
                   THEN [conf EXCEPT !.settings = Globals(@)] ELSE conf
    BY <1>5 DEF EndOfFile
  <2>2. meant.fits => conf' = Obeyed'
    BY <1>1, <1>2, <2>1 DEF Obeyed
  <2> QED
    BY <1>1, <2>1, <2>2 DEF Agrees, Refusals, AllRead
<1> QED
  BY <1>4, <1>5

LEMMA AssignsAgree ==
  ASSUME ConfInv, Assigns, TypeInv'
  PROVE  Agrees' /\ Refusals' /\ AllRead'
<1> USE DEF ConfInv
<1>1. mode = "done" /\ mode' = mode /\ hooks' # 0
  <2>1. CASE \E adding \in BOOLEAN, to \in Sections, w \in Words : Assign(adding, to, "flags", w)
    <3>1. hooks \in 0..MaxHooks
      BY DEF TypeInv, TypeOK
    <3> QED
      BY <2>1, <3>1, Bounded DEF Assign
  <2>2. CASE AssignNext
    BY <2>2 DEF AssignNext, TypeInv, Resting
  <2> QED
    BY <2>1, <2>2 DEF Assigns
<1> QED
  BY <1>1 DEF Agrees, Refusals, AllRead

LEMMA ConfInvNext == ElsesOpen => (ConfInv /\ [Next]_vars => ConfInv')
<1> SUFFICES ASSUME ElsesOpen, ConfInv, [Next]_vars PROVE ConfInv'
  OBVIOUS
<1>1. TypeInv'
  BY TypesNext DEF ConfInv
<1>2. CASE Reads
  BY <1>1, <1>2, ReadAgrees DEF Reads, ConfInv
<1>3. CASE EndOfFile
  BY <1>1, <1>3, EndAgrees DEF ConfInv
<1>4. CASE Assigns
  BY <1>1, <1>4, AssignsAgree DEF ConfInv
<1>5. CASE UNCHANGED vars
  BY <1>1, <1>5 DEF vars, ConfInv, Agrees, Refusals, AllRead, Obeyed
<1> QED
  BY <1>2, <1>3, <1>4, <1>5 DEF Next

LEMMA Agreement == ElsesOpen => (Spec => []ConfInv)
<1> SUFFICES ASSUME ElsesOpen PROVE Spec => []ConfInv
  OBVIOUS
<1>1. Init => ConfInv
  BY TypesInit, AgreesInit DEF ConfInv
<1>2. ConfInv /\ [Next]_vars => ConfInv'
  BY ConfInvNext
<1> QED
  BY <1>1, <1>2, PTL DEF Spec

\* Counting braces comes to the same as nested blocks, however deep: after
\* every line of a file whose braces match, closeScope and readConfig have
\* obeyed exactly the lines in taken blocks.
THEOREM SkippingIsNesting == ElsesOpen => (Spec => []ReadsLikeBlocks)
<1> SUFFICES ASSUME ElsesOpen PROVE Spec => []ReadsLikeBlocks
  OBVIOUS
<1>1. ConfInv => ReadsLikeBlocks
  <2> SUFFICES ASSUME ConfInv, meant.fits, mode = "read", again = <<>>
               PROVE  conf = meant.conf /\ (skip.depth = 0 <=> Taken(meant.blocks))
    BY DEF ReadsLikeBlocks
  <2>1. skip \in Skips /\ meant.blocks \in Seq(Block)
    BY Bounded DEF ConfInv, TypeInv, TypeOK, Skips, MeantFits
  <2>2. conf = meant.conf /\ Stands(meant.blocks, skip)
    BY DEF ConfInv, Agrees
  <2> QED
    BY <2>1, <2>2, StandsMeans
<1> QED
  BY <1>1, Agreement, PTL

\* readConfig calls exit(1) only where a line cannot be read or a block is open.
THEOREM ClosedIsRead == ElsesOpen => (Spec => []ClosedFilesAreRead)
<1> SUFFICES ASSUME ElsesOpen PROVE Spec => []ClosedFilesAreRead
  OBVIOUS
<1>1. ConfInv => ClosedFilesAreRead
  BY DEF ConfInv, Refusals, ClosedFilesAreRead
<1> QED
  BY <1>1, Agreement, PTL

\* The settings of "*" reach every section that can be built, and never take
\* the place of its own, wherever in the file and its blocks they stand.
THEOREM OwnBeforeGlobal == ElsesOpen => (Spec => []OwnSettingsWin)
<1> SUFFICES ASSUME ElsesOpen PROVE Spec => []OwnSettingsWin
  OBVIOUS
<1>1. ConfInv => OwnSettingsWin
  <2> DEFINE all == meant.conf.settings
  <2> SUFFICES ASSUME ConfInv, meant.fits, mode = "done", hooks = 0,
                      NEW s \in ToSet(conf.sections), NEW k \in Keys
               PROVE  conf.settings[s][k] =
                        IF all[s][k] # Unset \/ "*" \notin DOMAIN all THEN all[s][k] ELSE all["*"][k]
    BY DEF OwnSettingsWin
  <2>1. Readable(meant.conf) /\ conf = Obeyed
    BY DEF ConfInv, TypeInv, MeantFits, AllRead
  <2>2. /\ meant.conf \in [section : Sections, sections : Seq(Files), settings : [DOMAIN all -> Settings]]
        /\ ToSet(meant.conf.sections) \subseteq DOMAIN all
    BY <2>1 DEF Readable, IsConfiguration
  <2>3. CASE "*" \notin DOMAIN all
    BY <2>1, <2>3 DEF Obeyed
  <2>4. CASE "*" \in DOMAIN all
    <3>1. conf = [meant.conf EXCEPT !.settings = Globals(@)]
      BY <2>1, <2>4 DEF Obeyed
    <3>2. conf.sections = meant.conf.sections /\ conf.settings = Globals(all)
      BY <2>2, <3>1
    <3>3. s \in Files /\ s # "*" /\ s \in DOMAIN all
      <4>1. ToSet(meant.conf.sections) \subseteq Files /\ "*" \notin Files
        BY <2>2, AppendToSet, ConfAssumption
      <4> QED
        BY <2>2, <3>2, <4>1
    <3>4. all[s]["type"] # Unset
      BY <2>1, <3>2 DEF Readable, Typed
    <3>5. all[s] # Nothing
      BY <3>4 DEF Nothing, Keys
    <3>6. all \in [DOMAIN all -> Settings]
      BY <2>2
    <3> HIDE DEF all
    <3>7. Globals(all)[s][k] = IF all[s][k] # Unset THEN all[s][k] ELSE all["*"][k]
      BY <2>4, <3>3, <3>5, <3>6, GlobalsSet
    <3> QED
      BY <2>4, <3>2, <3>7
  <2> QED
    BY <2>3, <2>4
<1> QED
  BY <1>1, Agreement, PTL

=============================================================================
