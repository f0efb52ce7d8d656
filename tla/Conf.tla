--------------------------------- MODULE Conf ---------------------------------
(***************************************************************************)
(* dsss.conf (sss/conf.d): readConfig, which reads it line by line and     *)
(* skips what a version statement rules out by counting braces, and the    *)
(* hook commands "set" and "add", which change it afterwards.  A line is   *)
(* what tokLine makes of it; lines continued with a backslash are one.     *)
(***************************************************************************)
EXTENDS Naturals, Sequences, SequencesExt

CONSTANTS
  Sections,   \* what section headers may name, "" and "*" among them
  Files,      \* those that exist, or begin with "+": what can be built
  Words,      \* the words of a value
  Target,     \* the versions that are set in the target
  Lines,      \* the lines a dsss.conf may have
  Unset,      \* the value of a setting that is not there
  MaxLines,   \* bound: lines of a dsss.conf
  MaxHooks    \* bound: set and add commands

\* "name" stands for the defaults of the top level, "type" for those of a
\* section that can be built.
Keys == {"name", "type", "flags"}

Values == Seq(Words \union {"default"})

Settings == [Keys -> Values \union {Unset}]

ASSUME ConfAssumption ==
  /\ {"", "*"} \subseteq Sections /\ Files \subseteq Sections \ {"", "*"}
  /\ Unset \notin Values /\ MaxLines \in Nat /\ MaxHooks \in Nat

Header(s) == [is |-> "header", sec |-> s]
Setting(k, w) == [is |-> "set", key |-> k, val |-> <<w>>]
Appending(k, w) == [is |-> "append", key |-> k, val |-> <<w>>]
\* version (v) { and version (!v) {
Version(v, not) == [is |-> "version", ver |-> v, neg |-> not]
Open == [is |-> "open"]
Close == [is |-> "close"]
\* } else and the rest of the line
Else(l) == [is |-> "else", rest |-> l]
Unrecognized == [is |-> "unrecognized"]

IsLine(l) ==
  \/ \E s \in Sections : l = Header(s)
  \/ \E k \in Keys, w \in Words : l \in {Setting(k, w), Appending(k, w)}
  \/ l.is = "version" \/ l \in {Open, Close, Unrecognized}

\* "} else } else" is no line of a dsss.conf.
ASSUME LinesAssumption ==
  \A l \in Lines : IsLine(l) \/ (l.is = "else" /\ IsLine(l.rest))

VARIABLES
  count,    \* how many lines of the file have been read
  again,    \* at most one line: the rest of "} else", to be read once more
  conf,     \* [section, settings, sections] of readConfig
  skip,     \* closeScope: [depth, ignoreElse], of depth 0 outside of it
  mode,     \* "read", "done", "error"
  hooks,    \* the commands that have been given
  command,  \* the set or add command that is running, and its useSections
  meant     \* history: what the lines read mean, by their blocks

vars == <<count, again, conf, skip, mode, hooks, command, meant>>

Nothing == [k \in Keys |-> Unset]

NoSkip == [depth |-> 0, ignoreElse |-> FALSE]

Start ==
  [section |-> "", sections |-> <<>>,
   settings |-> [s \in {""} |-> [Nothing EXCEPT !["name"] = <<"default">>]]]

NoCommand == [adding |-> FALSE, setting |-> "flags", given |-> <<>>, cmd |-> <<>>,
              useSections |-> <<>>]

IsConfiguration(c) ==
  /\ c \in [section : Sections, sections : Seq(Files), settings : [DOMAIN c.settings -> Settings]]
  /\ {""} \union ToSet(c.sections) \subseteq DOMAIN c.settings
  /\ DOMAIN c.settings \subseteq Sections

TypeOK ==
  /\ count \in 0..MaxLines
  /\ again = <<>> \/ \E l \in Lines : l.is = "else" /\ again = <<l.rest>>
  /\ IsConfiguration(conf) /\ IsConfiguration(meant.conf)
  /\ mode = "read" => conf.section \in DOMAIN conf.settings
  /\ mode = "done" => "*" \notin DOMAIN conf.settings
  /\ skip \in [depth : 0..MaxLines, ignoreElse : BOOLEAN]
  /\ mode \in {"read", "done", "error"} /\ hooks \in 0..MaxHooks
  /\ command \in [adding : BOOLEAN, setting : Keys, given : Values, cmd : Values,
                  useSections : Seq(Sections)]
  /\ meant.conf.section \in DOMAIN meant.conf.settings
  /\ meant \in [conf : {meant.conf}, blocks : Seq([taken : BOOLEAN, done : BOOLEAN]),
                fits : BOOLEAN]

Init ==
  /\ count = 0 /\ again = <<>> /\ conf = Start
  /\ skip = NoSkip /\ mode = "read" /\ hooks = 0 /\ command = NoCommand
  /\ meant = [conf |-> Start, blocks |-> <<>>, fits |-> TRUE]

-----------------------------------------------------------------------------
(* Lines that say something. *)

\* A header that is repeated begins its section anew.
Begin(c, s) ==
  [section |-> s,
   sections |-> IF s \in Files THEN Append(c.sections, s) ELSE c.sections,
   settings |-> [t \in DOMAIN c.settings \union {s} |->
                   IF t # s THEN c.settings[t]
                   ELSE IF s \in Files THEN [Nothing EXCEPT !["type"] = <<"default">>] ELSE Nothing]]

Joined(old, val) == IF old = Unset THEN val ELSE old \o val

Says(c, l) ==
  CASE l.is = "header" -> Begin(c, l.sec)
    [] l.is = "set" -> [c EXCEPT !.settings[c.section][l.key] = l.val]
    [] l.is = "append" -> [c EXCEPT !.settings[c.section][l.key] = Joined(@, l.val)]
    [] OTHER -> c

Holds(l) == (l.ver \in Target) # l.neg

Opens(l) == l.is \in {"version", "open"} \/ (l.is = "else" /\ l.rest.is \in {"version", "open"})

-----------------------------------------------------------------------------
(* What a dsss.conf means: its blocks nest, and a line counts if all the    *)
(* blocks it is in are taken.                                              *)

Push(m, c) == [m EXCEPT !.blocks = Append(@, [taken |-> c, done |-> c])]

Taken(blocks) == \A i \in DOMAIN blocks : blocks[i].taken

MeansElse(m, l) ==
  LET this == Last(m.blocks)
      c == ~this.done /\ (l.is = "version" => Holds(l))
      rest == Front(m.blocks)
  IN IF Opens(l) THEN [m EXCEPT !.blocks = Append(rest, [taken |-> c, done |-> this.done \/ c])]
     ELSE [m EXCEPT !.blocks = rest,
                    !.conf = IF c /\ Taken(rest) THEN Says(@, l) ELSE @]

\* fits: every } closes a block, and nothing is there that no line can be.
Means(m, l) ==
  CASE l.is = "version" -> Push(m, Holds(l))
    [] l.is = "open" -> Push(m, TRUE)
    [] l.is \in {"close", "else"} /\ m.blocks = <<>> -> [m EXCEPT !.fits = FALSE]
    [] l.is = "close" /\ m.blocks # <<>> -> [m EXCEPT !.blocks = Front(@)]
    [] l.is = "else" /\ m.blocks # <<>> -> MeansElse(m, l.rest)
    [] l.is = "unrecognized" -> [m EXCEPT !.fits = @ /\ ~Taken(m.blocks)]
    [] OTHER -> [m EXCEPT !.conf = IF Taken(m.blocks) THEN Says(@, l) ELSE @]

-----------------------------------------------------------------------------
(* readConfig *)

\* The next line of the file, or the one that was rewritten.
Line(l) ==
  /\ mode = "read"
  /\ IF again # <<>> THEN l = again[1] /\ UNCHANGED <<count, meant>>
     ELSE count < MaxLines /\ count' = count + 1 /\ meant' = Means(meant, l)
  /\ UNCHANGED <<hooks, command>>

Fail == mode' = "error" /\ again' = <<>> /\ UNCHANGED <<conf, skip>>

Read(l) ==
  /\ Line(l) /\ skip.depth = 0
  /\ \/ /\ l.is \in {"header", "set", "append", "open", "close"} \/ (l.is = "version" /\ Holds(l))
        /\ conf' = Says(conf, l) /\ again' = <<>> /\ UNCHANGED <<skip, mode>>
     \/ /\ l.is = "else" \/ (l.is = "version" /\ ~Holds(l))
        /\ skip' = [depth |-> 1, ignoreElse |-> l.is = "else"]
        /\ again' = <<>> /\ UNCHANGED <<conf, mode>>
     \/ l.is = "unrecognized" /\ Fail

\* Mutants of Skip: the depth stays as it is when the rest of "} else" is read
\* once more; "} else version" is never taken.
SkipKeepsDepth(l) ==
  /\ Line(l) /\ skip.depth > 0
  /\ IF l.is = "else" /\ ~skip.ignoreElse
     THEN again' = <<l.rest>> /\ skip' = skip
     ELSE /\ again' = <<>>
          /\ skip' = [skip EXCEPT !.depth = CASE l.is \in {"close", "else"} -> @ - 1
                                              [] Opens(l) -> @ + 1
                                              [] OTHER -> @]
  /\ UNCHANGED <<conf, mode>>

SkipAllElse(l) ==
  /\ Line(l) /\ skip.depth > 0
  /\ again' = <<>>
  /\ skip' = [skip EXCEPT !.depth = CASE l.is = "close" \/ (l.is = "else" /\ ~Opens(l)) -> @ - 1
                                      [] l.is # "else" /\ Opens(l) -> @ + 1
                                      [] OTHER -> @]
  /\ UNCHANGED <<conf, mode>>

\* closeScope
Skip(l) ==
  /\ Line(l) /\ skip.depth > 0
  /\ \/ /\ l.is = "close" \/ (l.is = "else" /\ skip.ignoreElse /\ ~Opens(l))
        /\ skip' = [skip EXCEPT !.depth = @ - 1] /\ again' = <<>>
     \/ /\ l.is = "else" /\ ~skip.ignoreElse
        /\ skip' = [skip EXCEPT !.depth = @ - 1] /\ again' = <<l.rest>>
     \/ /\ l.is # "else" /\ Opens(l)
        /\ skip' = [skip EXCEPT !.depth = @ + 1] /\ again' = <<>>
     \/ /\ \/ l.is \in {"header", "set", "append", "unrecognized"}
           \/ l.is = "else" /\ skip.ignoreElse /\ Opens(l)
        /\ again' = <<>> /\ UNCHANGED skip
  /\ UNCHANGED <<conf, mode>>

\* Mutants of Globals: the section "*" stays; its settings win.
GlobalsStay(table) ==
  [s \in DOMAIN table |->
     [k \in Keys |-> IF table[s][k] # Unset THEN table[s][k] ELSE table["*"][k]]]

GlobalsWin(table) ==
  [s \in DOMAIN table \ {"*"} |->
     [k \in Keys |-> IF table["*"][k] # Unset THEN table["*"][k] ELSE table[s][k]]]

\* The settings of "*", where a section has none of its own.  The table of a
\* section without any setting is null, and what is added to it is lost.
Globals(table) ==
  [s \in DOMAIN table \ {"*"} |->
     IF table[s] = Nothing THEN Nothing
     ELSE [k \in Keys |-> IF table[s][k] # Unset THEN table[s][k] ELSE table["*"][k]]]

EndOfFile ==
  /\ mode = "read" /\ again = <<>>
  /\ IF skip.depth > 0 THEN Fail
     ELSE /\ mode' = "done"
          /\ conf' = IF "*" \in DOMAIN conf.settings
                     THEN [conf EXCEPT !.settings = Globals(@)] ELSE conf
          /\ UNCHANGED <<again, skip>>
  /\ UNCHANGED <<count, hooks, command, meant>>

-----------------------------------------------------------------------------
(* dsssScriptedStep *)

Assign(adding, to, k, w) ==
  /\ mode = "done" /\ command.useSections = <<>> /\ hooks < MaxHooks
  /\ hooks' = hooks + 1
  /\ command' = [adding |-> adding, setting |-> k, given |-> <<w>>, cmd |-> <<w>>,
                 useSections |-> IF to = "*" THEN conf.sections ELSE <<to>>]
  /\ UNCHANGED <<count, again, conf, skip, mode, meant>>

\* foreach (sect; useSections): what is added grows on the way.
AssignNext ==
  /\ command.useSections # <<>>
  /\ LET sect == Head(command.useSections)
         old == conf.settings[sect][command.setting]
         cmd == IF command.adding /\ old # Unset THEN old \o command.cmd ELSE command.cmd
         rest == [command EXCEPT !.useSections = Tail(@)]
     IN IF sect \in DOMAIN conf.settings
        THEN /\ conf' = [conf EXCEPT !.settings[sect][command.setting] = cmd]
             /\ command' = [rest EXCEPT !.cmd = cmd]
        ELSE conf' = conf /\ command' = rest
  /\ UNCHANGED <<count, again, skip, mode, hooks, meant>>

Reads == \E l \in Lines \union ToSet(again) : Read(l) \/ Skip(l)

Assigns ==
  \/ \E adding \in BOOLEAN, to \in Sections, w \in Words : Assign(adding, to, "flags", w)
  \/ AssignNext

Next == Reads \/ EndOfFile \/ Assigns

Spec == Init /\ [][Next]_vars

-----------------------------------------------------------------------------
(* Properties. *)

\* Counting braces and reading the rest of "} else" once more comes to the
\* same as nested blocks: after every line of a file whose braces match,
\* exactly the lines in taken blocks have been obeyed.
ReadsLikeBlocks ==
  meant.fits /\ mode = "read" /\ again = <<>> =>
    /\ conf = meant.conf
    /\ skip.depth = 0 <=> Taken(meant.blocks)

\* A file whose blocks are all closed is read to its end.
ClosedFilesAreRead ==
  mode = "error" => ~meant.fits \/ meant.blocks # <<>>

\* "any settings in a named section will override those in "*" sections",
\* wherever in the file either is.
OwnSettingsWin ==
  meant.fits /\ mode = "done" /\ hooks = 0 =>
    \A s \in ToSet(conf.sections), k \in Keys :
      LET all == meant.conf.settings
          own == all[s][k]
      IN conf.settings[s][k] =
           IF own # Unset \/ "*" \notin DOMAIN all THEN own ELSE all["*"][k]

\* "The 'add' command is identical to the 'set' command, except that it
\* appends to the current value": in each section to its own.
AddAppends ==
  [][LET sect == Head(command.useSections) IN
     command.useSections # <<>> /\ command.adding /\ sect \in DOMAIN conf.settings =>
       conf'.settings[sect][command.setting] =
         Joined(conf.settings[sect][command.setting], command.given)]_vars

\* Every } else begins a block of its own.
ElsesOpen == \A l \in Lines : l.is = "else" => Opens(l)

=============================================================================
