-------------------------------- MODULE Paths --------------------------------
(***************************************************************************)
(* The paths of dsss: canonPath (hcf/path.d), which makes prefixes,        *)
(* sections and exclusions canonical, and the entries of a manifest, which *)
(* install makes relative to forcePrefix and uninstall makes absolute.     *)
(*                                                                         *)
(* A path is the sequence of what stands between its separators: /a//b/ is *)
(* <<"", "a", "", "b", "">>, and / is <<"", "">>.  Links and ~ are left    *)
(* out, and so are paths that have only characters in common: those are    *)
(* the Lookalike of Install.                                               *)
(***************************************************************************)
EXTENDS Naturals, Sequences, SequencesExt

CONSTANTS
  Dotted,   \* the elements that begin with a dot
  Inputs,   \* the paths that a user may give, to any of the program
  Dirs      \* those of --prefix, --bindir, --libdir and the like

ASSUME PathsAssumption == {".", ".."} \subseteq Dotted

Absolute(p) == Len(p) > 1 /\ Head(p) = ""

-----------------------------------------------------------------------------
(* canonPath *)

\* p without the elements e that have a separator on either side.
Without(e, p) ==
  IF Len(p) < 3 THEN p
  ELSE <<Head(p)>> \o SelectSeq(SubSeq(p, 2, Len(p) - 1), LAMBDA x : x # e) \o <<Last(p)>>

\* A dot or two at the end get a separator, so as not to be missed.
Terminated(p) ==
  IF Len(p) > 1 /\ Last(p) \in {".", ".."} /\ p \notin {<<"", "..">>, <<"", ".">>}
  THEN Append(p, "") ELSE p

\* The last element has a separator before it that is not the first character,
\* and does not begin with a dot.
CanCut(kept) ==
  /\ Len(kept) > 1 /\ ~(Len(kept) = 2 /\ Absolute(kept))
  /\ Last(kept) \notin Dotted

\* The search for .. elements, from left to right: each takes the element before it
\* away with it.
CutUps(p) ==
  FoldLeft(LAMBDA kept, e : IF e = ".." /\ CanCut(kept) THEN Front(kept) ELSE Append(kept, e),
           <<>>, p)

Unled(p) == IF Len(p) > 1 /\ Head(p) = "." /\ p # <<".", "">> THEN Tail(p) ELSE p

Unended(p) == IF Len(p) > 1 /\ Last(p) = "" THEN Front(p) ELSE p

canonPath(p) == Unended(Unled(Without(".", CutUps(Terminated(Without("", p))))))

-----------------------------------------------------------------------------
(* Entries of a manifest *)

\* copyAndManifest(file, dir): the destination loses forcePrefix if that is what it
\* begins with.
Entry(forcePrefix, dir, file) ==
  Append(IF IsStrictPrefix(forcePrefix, dir) THEN SubSeq(dir, Len(forcePrefix) + 1, Len(dir))
         ELSE dir, file)

\* uninstall: what is not absolute is under forcePrefix.
EntryPath(forcePrefix, entry) == IF Absolute(entry) THEN entry ELSE forcePrefix \o entry

-----------------------------------------------------------------------------
(* Properties *)

\* What a path means: the way down from the root, or from the working
\* directory after some steps up.
Meaning(p) ==
  [absolute |-> Absolute(p),
   way |-> FoldLeft(LAMBDA way, e :
             CASE e \in {"", "."} -> way
               [] e = ".." /\ way # <<>> /\ Last(way) # ".." -> Front(way)
               [] e = ".." /\ way = <<>> /\ Absolute(p) -> way
               [] OTHER -> Append(way, e), <<>>, p)]

\* canonPath cuts only what does not matter: but for the root, which becomes the
\* empty path, a path means the same afterwards.
CanonMeansTheSame ==
  \A p \in Inputs :
    \/ canonPath(p) = <<"">> /\ Meaning(p).way = <<>>
    \/ Meaning(canonPath(p)) = Meaning(p)

\* An entry comes back as the place that the file was copied to, wherever --prefix and
\* --bindir point, if no separator is doubled where the prefix ends.
EntriesComeBack ==
  \A p, dir \in {q \in Dirs : Absolute(q)} :
    LET forcePrefix == canonPath(p)
        copied      == Append(dir, "file") IN
      \/ IsPrefix(Append(forcePrefix, ""), dir)
      \/ Meaning(EntryPath(forcePrefix, Entry(forcePrefix, dir, "file"))) = Meaning(copied)

\* What the theorems assume of directories: canonPath makes sequences of
\* elements of S, and never the empty one.
CanonicalDirs(S) ==
  \A q \in {d \in Dirs : Absolute(d)} : q \in Seq(S) /\ canonPath(q) \in Seq(S) \ {<<>>}

\* What canonPath and the manifests do to a path keeps its meaning: a directory
\* is not mistaken for another by a dot, a doubled separator, a step up, or by
\* being relative to forcePrefix.
PathsKeepTheirMeaning == CanonMeansTheSame /\ EntriesComeBack

=============================================================================
