-------------------------------- MODULE MCConf --------------------------------
(***************************************************************************)
(* Instances of Conf for TLC: the target is Posix and not Windows.         *)
(***************************************************************************)
EXTENDS Conf

\* Sections, one setting, and blocks with every kind of else.
MCLines ==
  {Header("lib"), Header("*"), Setting("flags", "x"), Appending("flags", "y"),
   Version("Posix", FALSE), Version("Posix", TRUE), Open, Close,
   Else(Version("Posix", FALSE)), Else(Version("Windows", FALSE)), Else(Open),
   Unrecognized}

\* Two sections, the defaults and the top level, without blocks.
Headers ==
  {Header(s) : s \in {"lib", "bin", "gone", "*", ""}}
    \union {Setting("flags", "x"), Appending("flags", "y"), Unrecognized}

\* Bounds: files are not continued after a brace that closes nothing, of which
\* no property speaks, and commands of hooks follow short files.
Bounds == meant.fits /\ (mode = "done" => count <= 3)

\* What the theorems of Conf assume is so of these instances.
ASSUME ElsesOpen
=============================================================================
