---------------------------- MODULE InstallProofs ----------------------------
(***************************************************************************)
(* What is proved of Install for every set of packages, files and sections *)
(* and every depth of subdirectories: its types; that a manifest only      *)
(* lists files its package has on disk, so that no command ever touches a  *)
(* file of another package; and that a manifest lists enough of them for   *)
(* uninstall to find what was installed.  At the end, of Paths: that an    *)
(* entry of a manifest stands for the path that was copied to.             *)
(***************************************************************************)
EXTENDS Install, Paths, SequenceTheorems, TLAPS

\* Where a command is, as far as types depend on it.
Progress ==
  /\ cmd = "install" => stack # <<>> /\ phase # "remove"
  /\ cmd # "install" => stack = <<>>
  /\ cmd # "idle" \/ phase = "enter"
  /\ cmd = "uninstall" => phase \in {"enter", "remove"}
  /\ cmd = "uninstall" /\ phase = "remove" => tools # <<>>
  /\ cmd = "install" /\ phase \in {"pre", "body", "post", "save", "fill"} => InSection
  /\ \A k \in 1..(Len(stack) - 1) : stack[k].at <= Len(stack[k].secs)
  /\ phase \notin {"pre", "body", "post", "docs", "remove"} => todo = {}
  /\ cmd = "install" => todo \subseteq Files

TypeInv == TypeOK /\ Progress

USE DEF Entries

-----------------------------------------------------------------------------
(* The stack of calls. *)

\* The innermost call is a frame, and it is in its stack.
LEMMA TopFrame ==
  ASSUME TypeOK, stack # <<>>
  PROVE  Len(stack) \in Nat \ {0} /\ Top \in Frame
BY EmptySeq, LenProperties, ElementOfSeq DEF TypeOK, Top

\* The section that is being installed is a section.
LEMMA CurrentSection ==
  ASSUME TypeOK, stack # <<>>, InSection
  PROVE  Current \in Sections
<1>1. Top \in Frame
  BY TopFrame
<1>2. Top.secs \in Seq(Sections) /\ Top.at \in Nat \ {0}
  BY <1>1 DEF Frame
<1>3. Top.at \in 1..Len(Top.secs)
  BY <1>2, LenProperties DEF InSection
<1>. QED  BY <1>2, <1>3, ElementOfSeq DEF Current

\* Replacing the innermost call changes nothing else.
LEMMA WithTopFrame ==
  ASSUME TypeOK, stack # <<>>, NEW g \in Frame
  PROVE  /\ WithTop(g) \in Seq(Frame)
         /\ Len(WithTop(g)) = Len(stack)
         /\ WithTop(g) # <<>>
         /\ WithTop(g)[Len(stack)] = g
         /\ \A k \in 1..(Len(stack) - 1) : WithTop(g)[k] = stack[k]
<1>1. stack \in Seq(Frame) /\ Len(stack) \in Nat \ {0}
  BY TopFrame DEF TypeOK
<1>2. Len(stack) \in 1..Len(stack)
  BY <1>1
<1>3. WithTop(g) \in Seq(Frame) /\ Len(WithTop(g)) = Len(stack)
  BY <1>1, <1>2, ExceptSeq DEF WithTop
<1>4. \A k \in 1..Len(stack) : WithTop(g)[k] = IF k = Len(stack) THEN g ELSE stack[k]
  BY <1>1, <1>2, ExceptSeq DEF WithTop
<1>. QED  BY <1>1, <1>3, <1>4, EmptySeq

\* Remembering files and moving to the next section give frames.
LEMMA RememberFrame ==
  ASSUME TypeOK, stack # <<>>, NEW F \in SUBSET Files
  PROVE  Remember(F) \in Frame /\ Skip(Remember(F)) \in Frame /\ Skip(Top) \in Frame
<1>1. Top \in Frame
  BY TopFrame
<1>2. RecordedSet(F) \subseteq Files
  BY PlacesAssumption DEF RecordedSet, RecordedAs
<1>3. \A g \in Frame : Skip(g) \in Frame
  BY DEF Skip, Frame
<1>4. Remember(F) = [Top EXCEPT !.mem = Top.mem \union RecordedSet(F)]
  BY DEF Remember
<1>5. Top.mem \union RecordedSet(F) \in SUBSET Entries
  BY <1>1, <1>2 DEF Frame
<1>6. Remember(F) \in Frame
  BY <1>1, <1>4, <1>5 DEF Frame
<1>. QED  BY <1>1, <1>3, <1>6

\* A new call of install() is a frame.
LEMMA CallFrame ==
  ASSUME NEW d \in Packages \union Sections, NEW q \in Seq(Sections)
  PROVE  Call(d, q) \in Frame
BY DEF Call, Frame

-----------------------------------------------------------------------------
(* Types. *)

\* The variables hold values of their types, and the running command is where
\* its state says, in every reachable state.
THEOREM TypeCorrect == Spec => []TypeInv
<1>1. Init => TypeInv
  <2>. SUFFICES ASSUME Init PROVE TypeInv
    OBVIOUS
  <2>1. TypeOK
    BY EmptySeq DEF Init, TypeOK, NoManifest
  <2>2. Progress
    BY EmptySeq DEF Init, Progress
  <2>. QED  BY <2>1, <2>2 DEF TypeInv
<1>2. TypeInv /\ [Next]_vars => TypeInv'
  <2>. SUFFICES ASSUME TypeInv, [Next]_vars PROVE TypeInv'
    OBVIOUS
  <2>. USE DEF TypeInv
  <2>1. ASSUME NEW p \in Packages, NEW r \in Whole[p] \union Some[p], Install(p, r)
        PROVE  TypeInv'
    <3>1. r \in Seq(Sections)
      BY RequestsAssumption
    <3>2. Call(p, r) \in Frame
      BY <3>1, CallFrame
    <3>3. stack' \in Seq(Frame) /\ stack' # <<>> /\ Len(stack') = 1
      BY <2>1, <3>2 DEF Install
    <3>4. TypeOK'
      BY <2>1, <3>3 DEF Install, TypeOK
    <3>5. Progress'
      BY <2>1, <3>3 DEF Install, Progress
    <3>. QED  BY <3>4, <3>5
  <2>2. ASSUME NEW list \in UNION {[1..n -> Packages] : n \in 1..Cardinality(Packages)},
               Uninstall(list)
        PROVE  TypeInv'
    <3>1. list \in Seq(Packages)
      BY SeqDef
    <3>. QED  BY <2>2, <3>1 DEF Uninstall, TypeOK, Progress
  <2>3. ASSUME InstallStep PROVE TypeInv'
    <3>1. cmd = "install" /\ stack # <<>>
      BY <2>3 DEF InstallStep, Progress, SkipSection, EnterSection, CopyFile,
                EndPreEmptyLib, EndPreSubdir, EndPre, EndBody, EndPost, TruncateManifest,
                FillManifest, MergeManifest, StartDocs, ReturnToParent, EndInstall, Installing
    <3>2. Len(stack) \in Nat \ {0} /\ Top \in Frame
      BY <3>1, TopFrame
    <3>3. InSection => Current \in Sections
      BY <3>1, CurrentSection
    <3>4. \A g \in Frame : /\ WithTop(g) \in Seq(Frame)
                           /\ Len(WithTop(g)) = Len(stack)
                           /\ WithTop(g) # <<>>
                           /\ WithTop(g)[Len(stack)] = g
                           /\ \A k \in 1..(Len(stack) - 1) : WithTop(g)[k] = stack[k]
      BY <3>1, WithTopFrame
    <3>5. /\ Skip(Top) \in Frame
          /\ \A F \in SUBSET Files : Remember(F) \in Frame /\ Skip(Remember(F)) \in Frame
      BY <3>1, RememberFrame
    <3>6. \A F \in SUBSET Files : Remember(F).at = Top.at /\ Remember(F).secs = Top.secs
      BY <3>2 DEF Remember, Frame
    <3>7. \A s \in Sections : /\ Pre[s] \in SUBSET Files
                              /\ Body[s] \in SUBSET Files
                              /\ Post[s] \in SUBSET Files
                              /\ Sub[s] \in Seq(Sections)
      BY SectionsAssumption
    <3>8. CASE SkipSection
      <4>1. TypeOK'
        BY <3>8, <3>4, <3>5 DEF SkipSection, TypeOK
      <4>2. Progress'
        BY <3>8, <3>1, <3>4, <3>5 DEF SkipSection, Installing, Progress
      <4>. QED  BY <4>1, <4>2
    <3>9. CASE EnterSection
      <4>1. TypeOK'
        BY <3>9, <3>3, <3>7 DEF EnterSection, TypeOK
      <4>2. Progress'
        BY <3>9, <3>1, <3>3, <3>7 DEF EnterSection, Installing, Progress, InSection, Top
      <4>. QED  BY <4>1, <4>2
    <3>10. ASSUME NEW f \in Files, CopyFile(f) PROVE TypeInv'
      <4>1. stack' = stack \/ (phase = "body" /\ stack' = WithTop(Remember({f})))
        BY <3>10 DEF CopyFile
      <4>2. /\ stack' \in Seq(Frame) /\ stack' # <<>> /\ Len(stack') = Len(stack)
            /\ InSection' <=> InSection
            /\ \A k \in 1..(Len(stack) - 1) : stack'[k] = stack[k]
        BY SMTT(20), <4>1, <3>1, <3>2, <3>4, <3>5, <3>6 DEF InSection, Top, TypeOK
      <4>3. TypeOK'
        BY <3>10, <4>2 DEF CopyFile, TypeOK
      <4>4. Progress'
        BY <3>10, <3>1, <4>2 DEF CopyFile, Progress
      <4>. QED  BY <4>3, <4>4
    <3>11. CASE EndPreEmptyLib
      <4>1. InSection /\ Pre[Current] \in SUBSET Files
        BY <3>11, <3>3, <3>7 DEF EndPreEmptyLib, Installing, Progress
      <4>2. /\ stack' \in Seq(Frame) /\ stack' # <<>> /\ Len(stack') = Len(stack)
            /\ \A k \in 1..(Len(stack) - 1) : stack'[k] = stack[k]
        BY <4>1, <3>11, <3>4, <3>5 DEF EndPreEmptyLib
      <4>3. TypeOK'
        BY <3>11, <4>2 DEF EndPreEmptyLib, TypeOK
      <4>4. Progress'
        BY <3>11, <3>1, <4>2 DEF EndPreEmptyLib, Installing, Progress
      <4>. QED  BY <4>3, <4>4
    <3>12. CASE EndPreSubdir
      <4>1. InSection /\ Current \in Sections
        BY <3>12, <3>3, <3>1 DEF EndPreSubdir, Installing, Progress
      <4>2. Call(Current, Sub[Current]) \in Frame
        BY <4>1, <3>7, CallFrame
      <4>. DEFINE base == WithTop(Remember(Pre[Current]))
                  callee == Call(Current, Sub[Current])
      <4>3. Remember(Pre[Current]) \in Frame
        BY <4>1, <3>5, <3>7
      <4>4. /\ base \in Seq(Frame) /\ Len(base) = Len(stack)
            /\ base[Len(stack)] = Remember(Pre[Current])
            /\ \A k \in 1..(Len(stack) - 1) : base[k] = stack[k]
        BY <4>3, <3>4
      <4>5. stack' = Append(base, callee)
        BY <3>12 DEF EndPreSubdir
      <4>. HIDE DEF base, callee
      <4>6. /\ stack' \in Seq(Frame) /\ stack' # <<>> /\ Len(stack') = Len(stack) + 1
            /\ \A k \in 1..Len(stack) : stack'[k] = base[k]
        BY <4>2, <4>4, <4>5, AppendProperties DEF callee
      <4>7. TypeOK'
        BY <3>12, <4>6 DEF EndPreSubdir, TypeOK
      <4>8. \A k \in 1..(Len(stack') - 1) : stack'[k].at <= Len(stack'[k].secs)
        <5>1. Top.at <= Len(Top.secs)
          BY <4>1 DEF InSection
        <5>2. stack'[Len(stack)] = Remember(Pre[Current])
          BY <4>4, <4>6, <3>2
        <5>3. stack'[Len(stack)].at <= Len(stack'[Len(stack)].secs)
          BY <5>1, <5>2, <4>1, <3>6, <3>7
        <5>4. \A k \in 1..(Len(stack) - 1) : stack'[k] = stack[k]
          BY <4>4, <4>6, <3>2
        <5>5. Len(stack') - 1 = Len(stack)
          BY <4>6, <3>2
        <5>6. \A k \in 1..(Len(stack) - 1) : stack'[k].at <= Len(stack'[k].secs)
          BY <5>4 DEF Progress
        <5>. QED  BY <5>3, <5>5, <5>6, <3>2
      <4>9. Progress'
        BY <3>12, <3>1, <4>6, <4>8 DEF EndPreSubdir, Installing, Progress
      <4>. QED  BY <4>7, <4>9
    <3>13. CASE EndPre
      <4>1. InSection /\ Current \in Sections
        BY <3>13, <3>3, <3>1 DEF EndPre, Installing, Progress
      <4>2. Remember(Pre[Current]) \in Frame /\ Pre[Current] \in SUBSET Files
        BY <4>1, <3>5, <3>7
      <4>3. /\ stack' \in Seq(Frame) /\ stack' # <<>> /\ Len(stack') = Len(stack)
            /\ \A k \in 1..(Len(stack) - 1) : stack'[k] = stack[k]
            /\ stack'[Len(stack)] = Remember(Pre[Current])
        BY <4>2, <3>13, <3>4 DEF EndPre
      <4>4. InSection'
        BY <4>1, <4>2, <4>3, <3>6 DEF InSection, Top
      <4>5. TypeOK'
        BY <3>13, <4>1, <4>3, <3>7 DEF EndPre, TypeOK
      <4>6. Progress'
        BY <3>13, <3>1, <3>7, <4>1, <4>3, <4>4 DEF EndPre, Installing, Progress
      <4>. QED  BY <4>5, <4>6
    <3>14. CASE EndBody
      <4>1. InSection /\ Current \in Sections
        BY <3>14, <3>3, <3>1 DEF EndBody, Installing, Progress
      <4>2. TypeOK'
        BY <3>14, <4>1, <3>7 DEF EndBody, TypeOK
      <4>3. Progress'
        BY <3>14, <3>1, <4>1, <3>7 DEF EndBody, Installing, Progress, InSection, Top
      <4>. QED  BY <4>2, <4>3
    <3>15. CASE EndPost
      <4>1. InSection /\ Current \in Sections
        BY <3>15, <3>3, <3>1 DEF EndPost, Installing, Progress
      <4>2. Remember(Post[Current]) \in Frame /\ Post[Current] \in SUBSET Files
        BY <4>1, <3>5, <3>7
      <4>3. /\ stack' \in Seq(Frame) /\ stack' # <<>> /\ Len(stack') = Len(stack)
            /\ \A k \in 1..(Len(stack) - 1) : stack'[k] = stack[k]
            /\ stack'[Len(stack)] = Remember(Post[Current])
        BY <4>2, <3>15, <3>4 DEF EndPost
      <4>4. InSection'
        BY <4>1, <4>2, <4>3, <3>6 DEF InSection, Top
      <4>5. TypeOK'
        BY <3>15, <4>3 DEF EndPost, TypeOK
      <4>6. Progress'
        BY <3>15, <3>1, <4>3, <4>4 DEF EndPost, Installing, Progress
      <4>. QED  BY <4>5, <4>6
    <3>16. CASE TruncateManifest
      <4>1. TypeOK'
        BY <3>16 DEF TruncateManifest, TypeOK
      <4>2. Progress'
        BY <3>16, <3>1 DEF TruncateManifest, Installing, Progress, InSection, Top
      <4>. QED  BY <4>1, <4>2
    <3>17. CASE FillManifest
      <4>1. Top.mem \in SUBSET Entries
        BY <3>2 DEF Frame
      <4>2. TypeOK'
        BY <3>17, <4>1, <3>4, <3>5 DEF FillManifest, TypeOK
      <4>3. Progress'
        BY <3>17, <3>1, <3>4, <3>5 DEF FillManifest, Installing, Progress
      <4>. QED  BY <4>2, <4>3
    <3>18. CASE MergeManifest
      <4>. DEFINE base == WithTop(Skip(Top))
                  up == Len(stack) - 1
                  caller == [base[up] EXCEPT !.mem = @ \union Top.mem]
      <4>1. up \in 1..Len(stack) /\ up \in 1..(Len(stack) - 1)
        BY <3>18, <3>2 DEF MergeManifest
      <4>2. /\ base \in Seq(Frame) /\ Len(base) = Len(stack)
            /\ \A k \in 1..(Len(stack) - 1) : base[k] = stack[k]
        BY <3>4, <3>5
      <4>3. base[up] \in Frame
        BY <4>1, <4>2, ElementOfSeq
      <4>4. caller \in Frame /\ caller.at = base[up].at /\ caller.secs = base[up].secs
        BY <4>3, <3>2 DEF Frame
      <4>5. stack' = [base EXCEPT ![up] = caller]
        BY <3>18 DEF MergeManifest
      <4>. HIDE DEF base, caller
      <4>6. /\ stack' \in Seq(Frame) /\ Len(stack') = Len(stack)
            /\ \A k \in 1..Len(stack) : stack'[k] = IF k = up THEN caller ELSE base[k]
        BY <4>1, <4>2, <4>4, <4>5, ExceptSeq
      <4>7. stack' # <<>>
        BY <4>6, <3>2, EmptySeq
      <4>8. TypeOK'
        BY <3>18, <4>6 DEF MergeManifest, TypeOK
      <4>9. \A k \in 1..(Len(stack') - 1) : stack'[k].at <= Len(stack'[k].secs)
        BY <3>2, <4>1, <4>2, <4>4, <4>6 DEF Progress
      <4>10. Progress'
        BY <3>18, <3>1, <4>7, <4>9 DEF MergeManifest, Installing, Progress
      <4>. QED  BY <4>8, <4>10
    <3>19. CASE StartDocs
      <4>1. Docs[Top.dir] \in SUBSET Files
        BY <3>2, SectionsAssumption DEF Frame
      <4>2. TypeOK'
        BY <3>19, <4>1 DEF StartDocs, TypeOK
      <4>3. Progress'
        BY <3>19, <3>1, <4>1 DEF StartDocs, Installing, Progress
      <4>. QED  BY <4>2, <4>3
    <3>20. CASE ReturnToParent
      <4>. DEFINE up == Len(stack) - 1
      <4>1. up \in 1..Len(stack) /\ up \in 1..(Len(stack) - 1)
        BY <3>20, <3>2 DEF ReturnToParent
      <4>2. stack \in Seq(Frame)
        BY DEF TypeOK
      <4>3. /\ stack' \in Seq(Frame) /\ stack' # <<>> /\ Len(stack') = up
            /\ \A k \in 1..up : stack'[k] = stack[k]
        <5>1. stack' = SubSeq(stack, 1, up)
          BY <3>20 DEF ReturnToParent, Front
        <5>2. /\ 1 \in 1..(Len(stack) + 1) /\ up \in (1 - 1)..Len(stack)
              /\ up >= 1 /\ up \in Nat
          BY <4>1, <3>2
        <5>3. /\ stack' \in Seq(Frame)
              /\ Len(stack') = IF 1 <= up THEN up - 1 + 1 ELSE 0
              /\ \A k \in 1..(up - 1 + 1) : stack'[k] = stack[1 + k - 1]
          BY <5>1, <5>2, <4>2, SubSeqProperties
        <5>4. Len(stack') = up /\ \A k \in 1..up : stack'[k] = stack[k]
          BY <5>2, <5>3
        <5>. QED  BY <5>2, <5>3, <5>4, EmptySeq
      <4>4. stack[up] \in Frame /\ stack[up].at \in 1..Len(stack[up].secs)
        <5>1. stack[up] \in Frame
          BY <4>1, <4>2, ElementOfSeq
        <5>2. stack[up].at \in Nat \ {0} /\ Len(stack[up].secs) \in Nat
          BY <5>1, LenProperties DEF Frame
        <5>. QED  BY <5>1, <5>2, <4>1 DEF Progress
      <4>5. stack[up].secs[stack[up].at] \in Sections
        BY <4>4, ElementOfSeq DEF Frame
      <4>6. todo' \in SUBSET Files
        BY <3>20, <4>5, <3>7 DEF ReturnToParent
      <4>7. InSection'
        BY <4>1, <4>3, <4>4 DEF InSection, Top
      <4>8. TypeOK'
        BY <3>20, <4>3, <4>6 DEF ReturnToParent, TypeOK
      <4>9. \A k \in 1..(Len(stack') - 1) : stack'[k].at <= Len(stack'[k].secs)
        <5>1. \A k \in 1..(up - 1) : k \in 1..up /\ k \in 1..(Len(stack) - 1)
          BY <4>1
        <5>. HIDE DEF up
        <5>. QED  BY <4>3, <5>1 DEF Progress
      <4>10. cmd' = "install" /\ phase' = "post" /\ todo' \subseteq Files
        BY <3>20, <4>6 DEF ReturnToParent, Installing
      <4>11. Progress'
        BY <4>3, <4>7, <4>9, <4>10 DEF Progress
      <4>. QED  BY <4>8, <4>11
    <3>21. CASE EndInstall
      <4>1. TypeOK'
        BY <3>21, EmptySeq DEF EndInstall, TypeOK
      <4>2. Progress'
        BY <3>21, <3>1, EmptySeq DEF EndInstall, Installing, Progress
      <4>. QED  BY <4>1, <4>2
    <3>. QED
      BY <2>3, <3>8, <3>9, <3>10, <3>11, <3>12, <3>13, <3>14, <3>15, <3>16, <3>17, <3>18,
         <3>19, <3>20, <3>21 DEF InstallStep
  <2>4. ASSUME UninstallStep PROVE TypeInv'
    <3>1. cmd = "uninstall" /\ stack = <<>> /\ stack' = <<>>
      BY <2>4 DEF UninstallStep, EndUninstall, NotInstalled, ReadManifest, RemoveManifest,
                  RemoveFile, NextTool, Progress
    <3>2. CASE EndUninstall
      BY <3>1, <3>2 DEF EndUninstall, TypeOK, Progress
    <3>3. CASE NotInstalled
      BY <3>1, <3>3, EmptySeq DEF NotInstalled, TypeOK, Progress
    <3>4. CASE ReadManifest
      <4>1. Head(tools) \in Packages
        BY <3>4, HeadTailProperties DEF ReadManifest, TypeOK
      <4>2. manifest[Head(tools)] \in SUBSET Entries
        BY <3>4, <4>1 DEF ReadManifest, TypeOK
      <4>3. TypeOK'
        BY <3>4, <4>1, <4>2 DEF ReadManifest, TypeOK
      <4>4. Progress'
        BY <3>1, <3>4 DEF ReadManifest, Progress
      <4>. QED  BY <4>3, <4>4
    <3>5. CASE RemoveManifest
      <4>1. TypeOK'
        BY <3>5 DEF RemoveManifest, TypeOK
      <4>2. Progress'
        BY <3>1, <3>5 DEF RemoveManifest, Progress
      <4>. QED  BY <4>1, <4>2
    <3>6. ASSUME NEW f \in Files, RemoveFile(f) PROVE TypeInv'
      <4>1. TypeOK'
        BY <3>6 DEF RemoveFile, TypeOK
      <4>2. Progress'
        BY <3>1, <3>6 DEF RemoveFile, Progress
      <4>. QED  BY <4>1, <4>2
    <3>7. CASE NextTool
      <4>1. Tail(tools) \in Seq(Packages)
        BY <3>7, HeadTailProperties DEF NextTool, Progress, TypeOK
      <4>2. TypeOK'
        BY <3>7, <4>1 DEF NextTool, TypeOK
      <4>3. Progress'
        BY <3>1, <3>7 DEF NextTool, Progress
      <4>. QED  BY <4>2, <4>3
    <3>. QED
      BY <2>4, <3>2, <3>3, <3>4, <3>5, <3>6, <3>7 DEF UninstallStep
  <2>5. ASSUME Die PROVE TypeInv'
    <3>1. stack' = <<>> /\ tools' = <<>> /\ cmd' = "idle"
      BY <2>5 DEF Die
    <3>2. TypeOK'
      BY <2>5, EmptySeq DEF Die, TypeOK
    <3>3. Progress'
      BY <2>5, <3>1, EmptySeq DEF Die, Progress
    <3>. QED  BY <3>2, <3>3
  <2>6. ASSUME UNCHANGED vars PROVE TypeInv'
    BY <2>6 DEF vars, TypeOK, Progress, InSection, Top
  <2>. QED
    BY <2>1, <2>2, <2>3, <2>4, <2>5, <2>6 DEF Next, Undisturbed, Command
<1>. QED  BY <1>1, <1>2, PTL DEF Spec, TypeInv

\* What a run checks of the types on an instance holds of every one.
THEOREM InstallTypes == Spec => []TypeOK
<1>1. TypeInv => TypeOK
  BY DEF TypeInv
<1>. QED  BY <1>1, TypeCorrect, PTL

-----------------------------------------------------------------------------
(* What manifests list. *)

\* The files of the package being worked on that are on disk.
Have == {f \in Files : disk[f] = pkg}

\* A call for package p works on p's sections, and has recorded files that
\* are among those p has.
Sound(own, sown, p, have, g) ==
  /\ \A i \in DOMAIN g.secs : sown[g.secs[i]] = p
  /\ \A f \in Docs[g.dir] : own[f] = p
  /\ Self \in g.mem
  /\ g.mem \ {Self} \subseteq have

DiskOwned(own) == \A f \in Files : disk[f] \in {Absent, own[f]}

TodoOwned(own) == \A f \in todo : f \in Files => own[f] = pkg

CallsSound(own, sown) ==
  \A k \in 1..Len(stack) : Sound(own, sown, pkg, Have, stack[k])

\* What a hook has not still to copy, it has copied.
HookCopied ==
  /\ Installing("pre")  => \A f \in Pre[Current] : f \in todo \/ f \in Have
  /\ Installing("post") => \A f \in Post[Current] : f \in todo \/ f \in Have

SelfRecorded ==
  \A p \in Packages : manifest[p] = NoManifest \/ manifest[p] = {} \/ Self \in manifest[p]

\* The manifest goes before anything it lists.
SelfFirst ==
  cmd = "uninstall" /\ phase = "remove" =>
    Self \in todo \/ todo = {} \/ manifest[pkg] = NoManifest

Safe(own, sown) ==
  /\ DiskOwned(own) /\ TodoOwned(own) /\ CallsSound(own, sown) /\ HookCopied
  /\ NoDanglingRecord /\ SelfRecorded /\ SelfFirst

\* A section that the innermost call works on, and its files, are the package's.
LEMMA CurrentOwned ==
  ASSUME NEW own, NEW sown, Disjoint(own, sown), TypeInv, Safe(own, sown),
         cmd = "install", InSection
  PROVE  /\ Current \in Sections /\ sown[Current] = pkg
         /\ Sound(own, sown, pkg, Have, Top)
         /\ \A f \in Pre[Current] \union Body[Current] \union Post[Current] : own[f] = pkg
         /\ \A i \in DOMAIN Sub[Current] : sown[Sub[Current][i]] = pkg
         /\ \A f \in Docs[Current] : own[f] = pkg
<1>1. stack # <<>> /\ TypeOK
  BY DEF TypeInv, Progress
<1>2. Top \in Frame /\ Len(stack) \in Nat \ {0} /\ Current \in Sections
  BY <1>1, TopFrame, CurrentSection
<1>3. Sound(own, sown, pkg, Have, Top)
  BY <1>2 DEF Safe, CallsSound, Top
<1>4. Top.at \in DOMAIN Top.secs
  BY <1>2, LenProperties DEF Frame, InSection
<1>5. sown[Current] = pkg
  BY <1>3, <1>4 DEF Sound, Current
<1>. QED  BY <1>2, <1>3, <1>5 DEF Disjoint

\* Under WellPlaced what is recorded is what was copied.
LEMMA RecordedTruly ==
  ASSUME WellPlaced, NEW F \in SUBSET Files
  PROVE  RecordedSet(F) = F
BY DEF WellPlaced, RecordedSet

\* A call that remembers files of its package stays sound.
LEMMA RememberSound ==
  ASSUME NEW own, NEW sown, WellPlaced, TypeOK, stack # <<>>,
         Sound(own, sown, pkg, Have, Top), NEW F \in SUBSET Files
  PROVE  /\ Remember(F) \in Frame
         /\ Remember(F).secs = Top.secs /\ Remember(F).dir = Top.dir
         /\ Remember(F).at = Top.at
         /\ Remember(F).mem = Top.mem \union F
<1>1. Top \in Frame /\ Remember(F) \in Frame
  BY TopFrame, RememberFrame
<1>2. Remember(F) = [Top EXCEPT !.mem = Top.mem \union F]
  BY RecordedTruly DEF Remember
<1>. QED  BY <1>1, <1>2 DEF Frame

\* Replacing the innermost call by a sound one keeps the calls sound, whatever
\* files the package gains.
LEMMA TopReplaced ==
  ASSUME NEW own, NEW sown, TypeOK, stack # <<>>, CallsSound(own, sown),
         NEW g \in Frame, stack' = WithTop(g), pkg' = pkg, Have \subseteq Have',
         Sound(own, sown, pkg, Have', g)
  PROVE  CallsSound(own, sown)'
<1>1. /\ Len(stack') = Len(stack) /\ Len(stack) \in Nat
      /\ \A k \in 1..Len(stack) : stack'[k] = IF k = Len(stack) THEN g ELSE stack[k]
  BY WithTopFrame, TopFrame
<1>2. \A k \in 1..Len(stack) : Sound(own, sown, pkg, Have', stack[k])
  BY DEF CallsSound, Sound
<1>. QED  BY <1>1, <1>2 DEF CallsSound

\* So does a stack that stays as it is.
LEMMA CallsKept ==
  ASSUME NEW own, NEW sown, CallsSound(own, sown), stack' = stack, pkg' = pkg,
         Have \subseteq Have'
  PROVE  CallsSound(own, sown)'
BY DEF CallsSound, Sound

\* Every step of install() keeps manifests truthful.
LEMMA InstallSafe ==
  ASSUME NEW own, NEW sown, Disjoint(own, sown), WellPlaced,
         TypeInv, TypeInv', Safe(own, sown), InstallStep
  PROVE  Safe(own, sown)'
<1>. USE DEF TypeInv
<1>1. cmd = "install" /\ stack # <<>> /\ pkg' = pkg /\ cmd' \in {"install", "idle"}
  BY DEF InstallStep, Progress, SkipSection, EnterSection, CopyFile,
         EndPreEmptyLib, EndPreSubdir, EndPre, EndBody, EndPost, TruncateManifest,
         FillManifest, MergeManifest, StartDocs, ReturnToParent, EndInstall, Installing
<1>2. Len(stack) \in Nat \ {0} /\ Top \in Frame /\ Sound(own, sown, pkg, Have, Top)
  BY <1>1, TopFrame DEF Safe, CallsSound, Top
<1>3. CallsSound(own, sown) /\ DiskOwned(own) /\ TodoOwned(own) /\ HookCopied
      /\ NoDanglingRecord /\ SelfRecorded
  BY DEF Safe
<1>4. SelfFirst'
  BY <1>1 DEF SelfFirst
<1>5. phase \in {"pre", "body", "post", "save", "fill"} => InSection
  BY <1>1 DEF Progress
<1>6. InSection =>
        /\ Current \in Sections /\ sown[Current] = pkg
        /\ \A f \in Pre[Current] \union Body[Current] \union Post[Current] : own[f] = pkg
        /\ \A i \in DOMAIN Sub[Current] : sown[Sub[Current][i]] = pkg
        /\ \A f \in Docs[Current] : own[f] = pkg
        /\ Pre[Current] \in SUBSET Files /\ Body[Current] \in SUBSET Files
        /\ Post[Current] \in SUBSET Files /\ Sub[Current] \in Seq(Sections)
  BY <1>1, CurrentOwned, SectionsAssumption
<1>7. Skip(Top) \in Frame /\ Skip(Top).secs = Top.secs /\ Skip(Top).dir = Top.dir
      /\ Skip(Top).mem = Top.mem
  BY <1>2 DEF Skip, Frame
<1>8. \A F \in SUBSET Files :
         /\ Remember(F) \in Frame
         /\ Remember(F).secs = Top.secs /\ Remember(F).dir = Top.dir
         /\ Remember(F).at = Top.at
         /\ Remember(F).mem = Top.mem \union F
  BY <1>1, <1>2, RememberSound
<1>9. CASE SkipSection
  <2>1. CallsSound(own, sown)'
    <3>1. Sound(own, sown, pkg, Have, Skip(Top))
      BY <1>2, <1>7 DEF Sound
    <3>2. Have' = Have /\ stack' = WithTop(Skip(Top))
      BY <1>9 DEF SkipSection, Have
    <3>. QED  BY <1>1, <1>3, <1>7, <3>1, <3>2, TopReplaced
  <2>2. HookCopied'
    BY <1>9 DEF SkipSection, Installing, HookCopied
  <2>. QED
    BY <1>3, <1>4, <1>9, <2>1, <2>2 DEF SkipSection, Safe, DiskOwned, TodoOwned,
       NoDanglingRecord, SelfRecorded
<1>10. CASE EnterSection
  <2>1. Have' = Have /\ stack' = stack
    BY <1>10 DEF EnterSection, Have
  <2>2. CallsSound(own, sown)'
    BY <1>1, <1>3, <2>1, CallsKept
  <2>3. HookCopied'
    BY <1>10 DEF EnterSection, Installing, HookCopied, Current, Top
  <2>4. TodoOwned(own)'
    BY <1>6, <1>10 DEF EnterSection, TodoOwned
  <2>. QED
    BY <1>3, <1>4, <1>10, <2>2, <2>3, <2>4 DEF EnterSection, Safe, DiskOwned,
       NoDanglingRecord, SelfRecorded
<1>11. ASSUME NEW f \in Files, CopyFile(f) PROVE Safe(own, sown)'
  <2>1. own[f] = pkg /\ pkg \in Packages
    BY <1>3, <1>11 DEF CopyFile, TodoOwned, TypeOK
  <2>2. disk' = [disk EXCEPT ![f] = pkg] /\ disk \in [Files -> Packages \union {Absent}]
    BY <1>11 DEF CopyFile, TypeOK
  <2>3. Have' = Have \union {f}
    BY <1>1, <2>2 DEF Have
  <2>4. CallsSound(own, sown)'
    <3>1. CASE stack' = stack
      BY <1>1, <1>3, <2>3, <3>1, CallsKept
    <3>2. CASE stack' = WithTop(Remember({f}))
      <4>1. Sound(own, sown, pkg, Have', Remember({f}))
        BY <1>2, <1>8, <2>3 DEF Sound
      <4>. QED  BY <1>1, <1>3, <1>8, <2>3, <3>2, <4>1, TopReplaced
    <3>. QED  BY <1>11, <3>1, <3>2 DEF CopyFile
  <2>5. HookCopied'
    <3>1. phase \in {"pre", "post"} => stack' = stack
      BY <1>11 DEF CopyFile
    <3>2. phase' = phase /\ cmd' = cmd /\ todo' = todo \ {f}
      BY <1>11 DEF CopyFile
    <3>. QED  BY <1>3, <2>3, <3>1, <3>2 DEF HookCopied, Installing, Current, Top
  <2>6. DiskOwned(own)'
    BY <1>3, <2>1, <2>2 DEF DiskOwned
  <2>7. NoDanglingRecord'
    <3>1. manifest' = manifest
      BY <1>11 DEF CopyFile
    <3>2. \A p \in Packages : disk[f] = p => p = pkg
      BY <1>3, <2>1, PackagesAssumption DEF DiskOwned
    <3>. QED  BY <1>3, <2>2, <3>1, <3>2 DEF NoDanglingRecord
  <2>8. TodoOwned(own)' /\ SelfRecorded'
    BY <1>3, <1>11 DEF CopyFile, TodoOwned, SelfRecorded
  <2>. QED  BY <1>4, <2>4, <2>5, <2>6, <2>7, <2>8 DEF Safe
<1>12. CASE EndPreEmptyLib
  <2>. DEFINE g == Skip(Remember(Pre[Current]))
  <2>1. InSection /\ Have' = Have
    BY <1>5, <1>12 DEF EndPreEmptyLib, Installing, Have
  <2>2. Pre[Current] \subseteq Have
    BY <1>3, <1>12 DEF EndPreEmptyLib, HookCopied
  <2>3. /\ g \in Frame /\ g.secs = Top.secs /\ g.dir = Top.dir
        /\ g.mem = Top.mem \union Pre[Current]
    BY <1>6, <1>8, <2>1 DEF Skip, Frame
  <2>4. stack' = WithTop(g)
    BY <1>12 DEF EndPreEmptyLib
  <2>. HIDE DEF g
  <2>5. Sound(own, sown, pkg, Have, g)
    BY <1>2, <2>2, <2>3 DEF Sound
  <2>6. CallsSound(own, sown)'
    BY <1>1, <1>3, <2>1, <2>3, <2>4, <2>5, TopReplaced
  <2>7. HookCopied'
    BY <1>12 DEF EndPreEmptyLib, Installing, HookCopied
  <2>. QED
    BY <1>3, <1>4, <1>12, <2>6, <2>7 DEF EndPreEmptyLib, Safe, DiskOwned, TodoOwned,
       NoDanglingRecord, SelfRecorded
<1>13. CASE EndPreSubdir
  <2>. DEFINE g == Remember(Pre[Current])
              callee == Call(Current, Sub[Current])
  <2>1. InSection /\ Have' = Have
    BY <1>5, <1>13 DEF EndPreSubdir, Installing, Have
  <2>2. Pre[Current] \subseteq Have
    BY <1>3, <1>13 DEF EndPreSubdir, HookCopied
  <2>3. /\ g \in Frame /\ g.secs = Top.secs /\ g.dir = Top.dir
        /\ g.mem = Top.mem \union Pre[Current]
    BY <1>6, <1>8, <2>1
  <2>4. Sound(own, sown, pkg, Have, callee)
    BY <1>6, <2>1 DEF Sound, Call
  <2>5. callee \in Frame
    BY <1>6, <2>1, CallFrame
  <2>6. stack' = Append(WithTop(g), callee)
    BY <1>13 DEF EndPreSubdir
  <2>. HIDE DEF g, callee
  <2>7. Sound(own, sown, pkg, Have, g)
    BY <1>2, <2>2, <2>3 DEF Sound
  <2>8. /\ WithTop(g) \in Seq(Frame) /\ Len(WithTop(g)) = Len(stack)
        /\ \A k \in 1..Len(stack) : WithTop(g)[k] = IF k = Len(stack) THEN g ELSE stack[k]
    BY <1>1, <2>3, <1>2, WithTopFrame
  <2>9. /\ Len(stack') = Len(stack) + 1 /\ stack'[Len(stack) + 1] = callee
        /\ \A k \in 1..Len(stack) : stack'[k] = WithTop(g)[k]
    BY <2>5, <2>6, <2>8, AppendProperties
  <2>10. CallsSound(own, sown)'
    <3>1. \A k \in 1..Len(stack) : Sound(own, sown, pkg, Have, stack'[k])
      BY <1>3, <2>7, <2>8, <2>9 DEF CallsSound
    <3>2. \A k \in 1..(Len(stack) + 1) : k \in 1..Len(stack) \/ k = Len(stack) + 1
      BY <1>2
    <3>. QED  BY <1>1, <2>1, <2>4, <2>9, <3>1, <3>2 DEF CallsSound
  <2>11. HookCopied'
    BY <1>13 DEF EndPreSubdir, Installing, HookCopied
  <2>. QED
    BY <1>3, <1>4, <1>13, <2>10, <2>11 DEF EndPreSubdir, Safe, DiskOwned, TodoOwned,
       NoDanglingRecord, SelfRecorded
<1>14. CASE EndPre
  <2>. DEFINE g == Remember(Pre[Current])
  <2>1. InSection /\ Have' = Have
    BY <1>5, <1>14 DEF EndPre, Installing, Have
  <2>2. Pre[Current] \subseteq Have
    BY <1>3, <1>14 DEF EndPre, HookCopied
  <2>3. /\ g \in Frame /\ g.secs = Top.secs /\ g.dir = Top.dir
        /\ g.mem = Top.mem \union Pre[Current]
    BY <1>6, <1>8, <2>1
  <2>4. stack' = WithTop(g)
    BY <1>14 DEF EndPre
  <2>. HIDE DEF g
  <2>5. Sound(own, sown, pkg, Have, g)
    BY <1>2, <2>2, <2>3 DEF Sound
  <2>6. CallsSound(own, sown)'
    BY <1>1, <1>3, <2>1, <2>3, <2>4, <2>5, TopReplaced
  <2>7. HookCopied'
    BY <1>14 DEF EndPre, Installing, HookCopied
  <2>8. TodoOwned(own)'
    BY <1>6, <1>14, <2>1 DEF EndPre, TodoOwned
  <2>. QED
    BY <1>3, <1>4, <1>14, <2>6, <2>7, <2>8 DEF EndPre, Safe, DiskOwned,
       NoDanglingRecord, SelfRecorded
<1>15. CASE EndBody
  <2>1. InSection /\ Have' = Have /\ stack' = stack
    BY <1>5, <1>15 DEF EndBody, Installing, Have
  <2>2. CallsSound(own, sown)'
    BY <1>1, <1>3, <2>1, CallsKept
  <2>3. HookCopied'
    BY <1>15 DEF EndBody, Installing, HookCopied, Current, Top
  <2>4. TodoOwned(own)'
    BY <1>6, <1>15, <2>1 DEF EndBody, TodoOwned
  <2>. QED
    BY <1>3, <1>4, <1>15, <2>2, <2>3, <2>4 DEF EndBody, Safe, DiskOwned,
       NoDanglingRecord, SelfRecorded
<1>16. CASE EndPost
  <2>. DEFINE g == Remember(Post[Current])
  <2>1. InSection /\ Have' = Have
    BY <1>5, <1>16 DEF EndPost, Installing, Have
  <2>2. Post[Current] \subseteq Have
    BY <1>3, <1>16 DEF EndPost, HookCopied
  <2>3. /\ g \in Frame /\ g.secs = Top.secs /\ g.dir = Top.dir
        /\ g.mem = Top.mem \union Post[Current]
    BY <1>6, <1>8, <2>1
  <2>4. stack' = WithTop(g)
    BY <1>16 DEF EndPost
  <2>. HIDE DEF g
  <2>5. Sound(own, sown, pkg, Have, g)
    BY <1>2, <2>2, <2>3 DEF Sound
  <2>6. CallsSound(own, sown)'
    BY <1>1, <1>3, <2>1, <2>3, <2>4, <2>5, TopReplaced
  <2>7. HookCopied'
    BY <1>16 DEF EndPost, Installing, HookCopied
  <2>. QED
    BY <1>3, <1>4, <1>16, <2>6, <2>7 DEF EndPost, Safe, DiskOwned, TodoOwned,
       NoDanglingRecord, SelfRecorded
<1>17. CASE TruncateManifest
  <2>1. Have' = Have /\ stack' = stack
    BY <1>17 DEF TruncateManifest, Have
  <2>2. CallsSound(own, sown)'
    BY <1>1, <1>3, <2>1, CallsKept
  <2>3. HookCopied'
    BY <1>17 DEF TruncateManifest, Installing, HookCopied
  <2>4. NoDanglingRecord' /\ SelfRecorded'
    BY <1>3, <1>17 DEF TruncateManifest, NoDanglingRecord, SelfRecorded, TypeOK
  <2>. QED
    BY <1>3, <1>4, <1>17, <2>2, <2>3, <2>4 DEF TruncateManifest, Safe, DiskOwned, TodoOwned
<1>18. CASE FillManifest
  <2>1. Have' = Have /\ stack' = WithTop(Skip(Top))
    BY <1>18 DEF FillManifest, Have
  <2>2. Sound(own, sown, pkg, Have, Skip(Top))
    BY <1>2, <1>7 DEF Sound
  <2>3. CallsSound(own, sown)'
    BY <1>1, <1>3, <1>7, <2>1, <2>2, TopReplaced
  <2>4. HookCopied'
    BY <1>18 DEF FillManifest, Installing, HookCopied
  <2>5. NoDanglingRecord' /\ SelfRecorded'
    BY <1>2, <1>3, <1>18 DEF FillManifest, NoDanglingRecord, SelfRecorded, TypeOK, Sound, Have
  <2>. QED
    BY <1>3, <1>4, <1>18, <2>3, <2>4, <2>5 DEF FillManifest, Safe, DiskOwned, TodoOwned
<1>19. CASE MergeManifest
  <2>. DEFINE base == WithTop(Skip(Top))
              up == Len(stack) - 1
              caller == [base[up] EXCEPT !.mem = @ \union Top.mem]
  <2>1. up \in 1..Len(stack) /\ up \in 1..(Len(stack) - 1) /\ Have' = Have
    BY <1>19, <1>2 DEF MergeManifest, Have
  <2>2. /\ base \in Seq(Frame) /\ Len(base) = Len(stack)
        /\ \A k \in 1..Len(stack) : base[k] = IF k = Len(stack) THEN Skip(Top) ELSE stack[k]
    BY <1>1, <1>2, <1>7, WithTopFrame
  <2>3. base[up] \in Frame /\ base[up] = stack[up] /\ Sound(own, sown, pkg, Have, base[up])
    BY <1>2, <1>3, <2>1, <2>2, ElementOfSeq DEF CallsSound
  <2>4. /\ caller \in Frame /\ caller.secs = base[up].secs /\ caller.dir = base[up].dir
        /\ caller.mem = base[up].mem \union Top.mem
    BY <1>2, <2>3 DEF Frame
  <2>5. stack' = [base EXCEPT ![up] = caller]
    BY <1>19 DEF MergeManifest
  <2>. HIDE DEF base, caller
  <2>6. /\ Len(stack') = Len(stack)
        /\ \A k \in 1..Len(stack) : stack'[k] = IF k = up THEN caller ELSE base[k]
    BY <2>1, <2>2, <2>4, <2>5, ExceptSeq
  <2>7. Sound(own, sown, pkg, Have, caller) /\ Sound(own, sown, pkg, Have, Skip(Top))
    BY <1>2, <1>7, <2>3, <2>4 DEF Sound
  <2>8. CallsSound(own, sown)'
    <3>1. \A k \in 1..Len(stack) : Sound(own, sown, pkg, Have, stack'[k])
      BY <1>3, <2>2, <2>6, <2>7 DEF CallsSound
    <3>. QED  BY <1>1, <2>1, <2>6, <3>1 DEF CallsSound
  <2>9. HookCopied'
    BY <1>19 DEF MergeManifest, Installing, HookCopied
  <2>. QED
    BY <1>3, <1>4, <1>19, <2>8, <2>9 DEF MergeManifest, Safe, DiskOwned, TodoOwned,
       NoDanglingRecord, SelfRecorded
<1>20. CASE StartDocs
  <2>1. Have' = Have /\ stack' = stack
    BY <1>20 DEF StartDocs, Have
  <2>2. CallsSound(own, sown)'
    BY <1>1, <1>3, <2>1, CallsKept
  <2>3. HookCopied' /\ TodoOwned(own)'
    BY <1>2, <1>20 DEF StartDocs, Installing, HookCopied, TodoOwned, Sound
  <2>. QED
    BY <1>3, <1>4, <1>20, <2>2, <2>3 DEF StartDocs, Safe, DiskOwned, NoDanglingRecord,
       SelfRecorded
<1>21. CASE ReturnToParent
  <2>. DEFINE up == Len(stack) - 1
              s == stack[up].secs[stack[up].at]
  <2>1. up \in 1..Len(stack) /\ up \in 1..(Len(stack) - 1) /\ up \in Nat /\ Have' = Have
    BY <1>21, <1>2 DEF ReturnToParent, Have
  <2>2. stack \in Seq(Frame)
    BY DEF TypeOK
  <2>3. Len(stack') = up /\ \A k \in 1..up : stack'[k] = stack[k]
    <3>1. stack' = SubSeq(stack, 1, up)
      BY <1>21 DEF ReturnToParent, Front
    <3>2. \A k \in 1..up : stack[k] \in Frame
      BY <1>2, <2>1, <2>2, ElementOfSeq
    <3>3. /\ Len(stack') = IF 1 <= up THEN up - 1 + 1 ELSE 0
          /\ \A k \in 1..(up - 1 + 1) : stack'[k] = stack[1 + k - 1]
      BY <2>1, <3>1, <3>2, SubSeqProperties
    <3>. QED  BY <2>1, <3>3
  <2>4. CallsSound(own, sown)'
    BY <1>1, <1>2, <1>3, <2>1, <2>3 DEF CallsSound
  <2>5. s \in Sections /\ sown[s] = pkg
    <3>1. stack[up] \in Frame /\ Sound(own, sown, pkg, Have, stack[up])
      BY <1>3, <2>1, <2>2, ElementOfSeq DEF CallsSound
    <3>2. stack[up].at \in 1..Len(stack[up].secs) /\ stack[up].secs \in Seq(Sections)
      <4>1. stack[up].at <= Len(stack[up].secs)
        BY <2>1 DEF Progress
      <4>2. stack[up].at \in Nat \ {0} /\ stack[up].secs \in Seq(Sections)
        BY <3>1 DEF Frame
      <4>3. Len(stack[up].secs) \in Nat
        BY <4>2, LenProperties
      <4>. QED  BY <4>1, <4>2, <4>3
    <3>. QED  BY <3>1, <3>2, ElementOfSeq, LenProperties DEF Sound
  <2>6. todo' = Post[s]
    BY <1>21 DEF ReturnToParent
  <2>7. TodoOwned(own)'
    BY <1>1, <2>5, <2>6 DEF TodoOwned, Disjoint
  <2>8. HookCopied'
    <3>1. Current' = s
      BY <2>1, <2>3 DEF Current, Top
    <3>. QED  BY <1>21, <2>6, <3>1 DEF ReturnToParent, HookCopied, Installing
  <2>. QED
    BY <1>3, <1>4, <1>21, <2>4, <2>7, <2>8 DEF ReturnToParent, Safe, DiskOwned,
       NoDanglingRecord, SelfRecorded
<1>22. CASE EndInstall
  <2>1. CallsSound(own, sown)'
    BY <1>22, EmptySeq DEF EndInstall, CallsSound
  <2>2. HookCopied'
    BY <1>22 DEF EndInstall, Installing, HookCopied
  <2>. QED
    BY <1>3, <1>4, <1>22, <2>1, <2>2 DEF EndInstall, Safe, DiskOwned, TodoOwned,
       NoDanglingRecord, SelfRecorded
<1>. QED
  BY <1>9, <1>10, <1>11, <1>12, <1>13, <1>14, <1>15, <1>16, <1>17, <1>18, <1>19, <1>20,
     <1>21, <1>22 DEF InstallStep

\* Every step of uninstall() keeps manifests truthful.
LEMMA UninstallSafe ==
  ASSUME NEW own, NEW sown, Disjoint(own, sown), WellPlaced,
         TypeInv, TypeInv', Safe(own, sown), UninstallStep
  PROVE  Safe(own, sown)'
<1>. USE DEF TypeInv
<1>1. /\ cmd = "uninstall" /\ stack = <<>> /\ stack' = <<>> /\ cmd' # "install"
  BY DEF UninstallStep, EndUninstall, NotInstalled, ReadManifest, RemoveManifest,
         RemoveFile, NextTool, Progress
<1>2. CallsSound(own, sown)' /\ HookCopied'
  BY <1>1, EmptySeq DEF CallsSound, HookCopied, Installing
<1>3. DiskOwned(own) /\ TodoOwned(own) /\ NoDanglingRecord /\ SelfRecorded /\ SelfFirst
  BY DEF Safe
<1>4. CASE EndUninstall
  BY <1>2, <1>3, <1>4 DEF EndUninstall, Safe, DiskOwned, TodoOwned, NoDanglingRecord,
     SelfRecorded, SelfFirst
<1>5. CASE NotInstalled
  BY <1>2, <1>3, <1>5 DEF NotInstalled, Safe, DiskOwned, TodoOwned, NoDanglingRecord,
     SelfRecorded, SelfFirst
<1>6. CASE ReadManifest
  <2>1. pkg' \in Packages /\ pkg' = Head(tools) /\ manifest[pkg'] # NoManifest
    BY <1>6, HeadTailProperties DEF ReadManifest, TypeOK
  <2>2. todo' = manifest[pkg'] /\ manifest[pkg'] \in SUBSET Entries
    BY <1>6, <2>1 DEF ReadManifest, TypeOK
  <2>3. TodoOwned(own)'
    <3>1. SUFFICES ASSUME NEW f \in todo', f \in Files PROVE own[f] = pkg'
      BY DEF TodoOwned
    <3>2. disk[f] = pkg'
      BY <1>3, <2>1, <2>2, <3>1, PackagesAssumption DEF NoDanglingRecord
    <3>. QED  BY <1>3, <2>1, <3>1, <3>2, PackagesAssumption DEF DiskOwned
  <2>4. SelfFirst'
    BY <1>3, <2>1, <2>2 DEF SelfFirst, SelfRecorded
  <2>. QED
    BY <1>2, <1>3, <1>6, <2>3, <2>4 DEF ReadManifest, Safe, DiskOwned, NoDanglingRecord,
       SelfRecorded
<1>7. CASE RemoveManifest
  <2>1. manifest' = [manifest EXCEPT ![pkg] = NoManifest]
    BY <1>7 DEF RemoveManifest, WellPlaced
  <2>2. NoDanglingRecord' /\ SelfRecorded' /\ SelfFirst'
    BY <1>3, <1>7, <2>1 DEF RemoveManifest, NoDanglingRecord, SelfRecorded, SelfFirst, TypeOK
  <2>. QED
    BY <1>2, <1>3, <1>7, <2>2 DEF RemoveManifest, Safe, DiskOwned, TodoOwned
<1>8. ASSUME NEW f \in Files, RemoveFile(f) PROVE Safe(own, sown)'
  <2>1. own[f] = pkg /\ manifest[pkg] = NoManifest
    BY <1>3, <1>8 DEF RemoveFile, TodoOwned, SelfFirst
  <2>2. disk' = disk \/ disk' = [disk EXCEPT ![f] = Absent]
    BY <1>8 DEF RemoveFile
  <2>3. NoDanglingRecord'
    <3>1. manifest' = manifest
      BY <1>8 DEF RemoveFile
    <3>2. \A p \in Packages : disk[f] = p => p = pkg
      BY <1>3, <2>1, PackagesAssumption DEF DiskOwned
    <3>. QED  BY <1>3, <2>1, <2>2, <3>1, <3>2 DEF NoDanglingRecord, TypeOK
  <2>4. DiskOwned(own)'
    BY <1>3, <2>2 DEF DiskOwned, TypeOK
  <2>5. TodoOwned(own)' /\ SelfRecorded' /\ SelfFirst'
    BY <1>3, <1>8, <2>1 DEF RemoveFile, TodoOwned, SelfRecorded, SelfFirst
  <2>. QED  BY <1>2, <2>3, <2>4, <2>5 DEF Safe
<1>9. CASE NextTool
  BY <1>2, <1>3, <1>9 DEF NextTool, Safe, DiskOwned, TodoOwned, NoDanglingRecord,
     SelfRecorded, SelfFirst
<1>. QED
  BY <1>4, <1>5, <1>6, <1>7, <1>8, <1>9 DEF UninstallStep

\* Safe is inductive, given types.
LEMMA NextSafe ==
  ASSUME NEW own, NEW sown, Disjoint(own, sown), WellPlaced,
         TypeInv, TypeInv', Safe(own, sown), [Next]_vars
  PROVE  Safe(own, sown)'
<1>. USE DEF TypeInv
<1>1. DiskOwned(own) /\ TodoOwned(own) /\ NoDanglingRecord /\ SelfRecorded /\ SelfFirst
  BY DEF Safe
<1>2. ASSUME NEW p \in Packages, NEW r \in Whole[p] \union Some[p], Install(p, r)
      PROVE  Safe(own, sown)'
  <2>1. Sound(own, sown, p, Have', Call(p, r))
    BY <1>2 DEF Disjoint, Sound, Call
  <2>2. CallsSound(own, sown)'
    BY <1>2, <2>1 DEF Install, CallsSound
  <2>3. TodoOwned(own)' /\ HookCopied' /\ SelfFirst'
    BY <1>2 DEF Install, TodoOwned, HookCopied, SelfFirst, Installing, Progress
  <2>. QED
    BY <1>1, <1>2, <2>2, <2>3 DEF Install, Safe, DiskOwned, NoDanglingRecord, SelfRecorded
<1>3. ASSUME NEW list, Uninstall(list) PROVE Safe(own, sown)'
  <2>1. CallsSound(own, sown)' /\ HookCopied'
    BY <1>3, EmptySeq DEF Uninstall, CallsSound, HookCopied, Installing, Progress
  <2>. QED
    BY <1>1, <1>3, <2>1 DEF Uninstall, Safe, DiskOwned, TodoOwned, NoDanglingRecord,
       SelfRecorded, SelfFirst
<1>4. CASE Die
  <2>1. CallsSound(own, sown)' /\ HookCopied'
    BY <1>4, EmptySeq DEF Die, CallsSound, HookCopied, Installing
  <2>. QED
    BY <1>1, <1>4, <2>1 DEF Die, Safe, DiskOwned, TodoOwned, NoDanglingRecord,
       SelfRecorded, SelfFirst
<1>5. CASE UNCHANGED vars
  BY <1>5 DEF vars, Safe, DiskOwned, TodoOwned, NoDanglingRecord, SelfRecorded,
     SelfFirst, CallsSound, HookCopied, Have, Installing, Current, Top, Sound
<1>. QED
  BY <1>2, <1>3, <1>4, <1>5, InstallSafe, UninstallSafe DEF Next, Undisturbed, Command

\* Manifests stay truthful in every execution.
LEMMA SafeAlways ==
  ASSUME NEW own, NEW sown, Disjoint(own, sown), WellPlaced
  PROVE  Spec => []Safe(own, sown)
<1>1. Init => Safe(own, sown)
  <2>. SUFFICES ASSUME Init PROVE Safe(own, sown)
    OBVIOUS
  <2>1. CallsSound(own, sown) /\ HookCopied
    BY EmptySeq DEF Init, CallsSound, HookCopied, Installing
  <2>. QED
    BY <2>1 DEF Init, Safe, DiskOwned, TodoOwned, NoDanglingRecord, SelfRecorded, SelfFirst
<1>2. TypeInv /\ TypeInv' /\ Safe(own, sown) /\ [Next]_vars => Safe(own, sown)'
  BY NextSafe
<1>. QED  BY <1>1, <1>2, TypeCorrect, PTL DEF Spec

\* If packages share no file and nothing is shortened to another path, a
\* manifest never lists a file its package has not on disk, at whatever step
\* a command dies.
THEOREM ManifestsTruthful == WellPlaced => (Spec => []NoDanglingRecord)
<1>. SUFFICES ASSUME WellPlaced PROVE Spec => []NoDanglingRecord
  OBVIOUS
<1>1. PICK own \in [Files -> Packages], sown \in [Sections -> Packages] : Disjoint(own, sown)
  BY DEF WellPlaced
<1>2. Spec => []Safe(own, sown)
  BY <1>1, SafeAlways
<1>3. Safe(own, sown) => NoDanglingRecord
  BY DEF Safe
<1>. QED  BY <1>2, <1>3, PTL

\* No step, of install or of uninstall, changes a file or the manifest of a
\* package that the command is not working on.
THEOREM OthersSafe == WellPlaced => (Spec => OthersUntouched)
<1>. SUFFICES ASSUME WellPlaced PROVE Spec => OthersUntouched
  OBVIOUS
<1>1. PICK own \in [Files -> Packages], sown \in [Sections -> Packages] : Disjoint(own, sown)
  BY DEF WellPlaced
<1>. DEFINE Kept == \A p \in Packages : p # pkg' =>
                      manifest'[p] = manifest[p] /\ \A f \in Files : disk[f] = p <=> disk'[f] = p
<1>2. TypeInv /\ Safe(own, sown) /\ [Next]_vars => Kept
  <2>. SUFFICES ASSUME TypeInv, Safe(own, sown), [Next]_vars PROVE Kept
    OBVIOUS
  <2>1. TypeOK /\ DiskOwned(own) /\ TodoOwned(own) /\ SelfFirst
    BY DEF TypeInv, Safe
  <2>2. CASE disk' = disk /\ manifest' = manifest
    BY <2>2
  <2>3. ASSUME NEW f \in Files, CopyFile(f) PROVE Kept
    <3>1. own[f] = pkg /\ pkg \in Packages /\ pkg' = pkg /\ manifest' = manifest
      BY <2>1, <2>3 DEF CopyFile, TodoOwned, TypeOK
    <3>2. disk' = [disk EXCEPT ![f] = pkg] /\ disk[f] \in {Absent, pkg}
      BY <2>1, <2>3, <3>1 DEF CopyFile, DiskOwned
    <3>. QED  BY <2>1, <3>1, <3>2, PackagesAssumption DEF TypeOK
  <2>4. ASSUME NEW f \in Files, RemoveFile(f) PROVE Kept
    <3>1. own[f] = pkg /\ pkg' = pkg /\ manifest' = manifest
      BY <2>1, <2>4 DEF RemoveFile, TodoOwned
    <3>2. disk[f] \in {Absent, pkg}
      BY <2>1, <3>1 DEF DiskOwned
    <3>3. disk' = disk \/ disk' = [disk EXCEPT ![f] = Absent]
      BY <2>4 DEF RemoveFile
    <3>. QED  BY <2>1, <3>1, <3>2, <3>3, PackagesAssumption DEF TypeOK
  <2>5. CASE TruncateManifest
    BY <2>1, <2>5 DEF TruncateManifest, TypeOK
  <2>6. CASE FillManifest
    BY <2>1, <2>6 DEF FillManifest, TypeOK
  <2>7. CASE RemoveManifest
    BY <2>1, <2>7 DEF RemoveManifest, TypeOK
  <2>. QED
    BY <2>2, <2>3, <2>4, <2>5, <2>6, <2>7
       DEF Next, vars, Undisturbed, Command, InstallStep, UninstallStep, Install, Uninstall,
           SkipSection, EnterSection, EndPreEmptyLib, EndPreSubdir, EndPre, EndBody, EndPost,
           MergeManifest, StartDocs, ReturnToParent, EndInstall, EndUninstall, NotInstalled,
           ReadManifest, NextTool, Die
<1>3. Spec => [][Kept]_vars
  BY <1>1, <1>2, SafeAlways, TypeCorrect, PTL DEF Spec
<1>. QED  BY <1>3 DEF OthersUntouched

-----------------------------------------------------------------------------
\* The other half: that manifests list enough.  Whatever the sections, the
\* nesting of subdirectories and the step at which a command dies, what the
\* sections already done have copied is in the manifest on disk; so a package
\* installed whole is tracked whole, and uninstalling it leaves nothing but its
\* documentation and what cannot be deleted.

\* The call that gets what call k of a stack records: its caller, or, for the
\* outermost, itself.
Receiver(st, k) == IF k = 1 THEN st[1] ELSE st[k - 1]

\* What the sections that call k has finished record, its receiver knows.
Delivered(st, k) ==
  \A i \in 1..(st[k].at - 1) : RecordedBy(st[k].secs[i]) \subseteq Receiver(st, k).mem

\* Call k is in a subdir section, has recorded its preinstall hook, and call
\* k + 1 is in the subdirectory.
LinkedAt(st, k) ==
  LET s == st[k].secs[st[k].at] IN
  /\ s \in Sections \ Skipped /\ Sub[s] # <<>>
  /\ RecordedSet(Pre[s]) \subseteq st[k].mem
  /\ st[k + 1].secs = Sub[s]

CallsTracked(st) ==
  \A k \in 1..Len(st) :
    /\ Self \in st[k].mem
    /\ Delivered(st, k)
    /\ k < Len(st) => LinkedAt(st, k)

\* The manifest M accounts for section s.
Saved(s, M) == RecordedBy(s) \subseteq M /\ (s \notin Skipped => Self \in M)

SectionsSaved ==
  cmd = "install" /\ phase # "fill" =>
    \A i \in 1..(stack[1].at - 1) : Saved(stack[1].secs[i], manifest[pkg])

\* What the innermost call has recorded of its section, and has still to copy.
Stage ==
  /\ Installing("pre")  => Current \notin NoInstall /\ todo \subseteq Pre[Current]
  /\ Installing("body") =>
       /\ Current \notin Skipped /\ Sub[Current] = <<>> /\ todo \subseteq Body[Current]
       /\ RecordedSet(Pre[Current] \union (Body[Current] \ todo)) \subseteq Top.mem
  /\ Installing("post") =>
       /\ Current \notin Skipped /\ todo \subseteq Post[Current]
       /\ RecordedSet(Pre[Current] \union Body[Current]) \subseteq Top.mem
       /\ \A t \in ToSet(Sub[Current]) : RecordedBy(t) \subseteq Top.mem
  /\ cmd = "install" /\ phase \in {"save", "fill"} =>
       Current \notin Skipped /\ RecordedBy(Current) \subseteq Top.mem
  /\ Installing("fill") => Len(stack) = 1
  /\ Installing("docs") => ~InSection /\ todo \subseteq DocFiles

Recording == (cmd = "install" => CallsTracked(stack)) /\ SectionsSaved /\ Stage

-----------------------------------------------------------------------------

\* A file on disk is documentation, or one that a section of its package copies.
FromSections(sown) ==
  \A f \in Files : disk[f] \in Packages =>
    \/ f \in DocFiles
    \/ \E s \in Sections \ NoInstall : sown[s] = disk[f] /\ f \in MayCopy(s)

Accounted(p) == \E r \in Whole[p] : \A i \in DOMAIN r : Saved(r[i], manifest[p])

Removing(p) == cmd = "uninstall" /\ phase = "remove" /\ pkg = p

\* A package installed whole is being installed whole, is being removed, or
\* has a manifest that accounts for the release.
WholeAccounted ==
  \A p \in Packages : outcome[p] = "whole" =>
    IF cmd = "install" /\ pkg = p THEN stack[1].secs \in Whole[p]
                                 ELSE Removing(p) \/ Accounted(p)

\* While it is being removed, what it has on disk is still in the list.
RemovalCovers ==
  \A p \in Packages : outcome[p] = "whole" /\ Removing(p) =>
    /\ Self \in todo \/ manifest[p] = NoManifest
    /\ FilesOf(p) \subseteq todo \union DocFiles \union Undeletable

Tracking(sown) == FromSections(sown) /\ WholeAccounted /\ RemovalCovers

-----------------------------------------------------------------------------
(* Sections and what they record. *)

\* A section reaches itself, and what the sections of its subdirectory reach.
LEMMA UnderStep ==
  ASSUME NEW s \in Sections
  PROVE  /\ s \in Under(s)
         /\ s \in Skipped => Under(s) = {s}
         /\ Under(s) \subseteq {s} \union UNION {Under(t) : t \in ToSet(Sub[s])}
<1>1. s \in Under(s)
  BY DEF Under
<1>2. s \in Skipped => Under(s) = {s}
  <2>. SUFFICES ASSUME s \in Skipped PROVE Under(s) \subseteq {s}
    BY <1>1
  <2>1. {s} \in SUBSET Sections /\ {s} \ Skipped = {}
    OBVIOUS
  <2>. QED  BY <2>1 DEF Under
<1>3. Under(s) \subseteq {s} \union UNION {Under(t) : t \in ToSet(Sub[s])}
  <2>. DEFINE S == {s} \union UNION {Under(t) : t \in ToSet(Sub[s])}
  <2>1. \A t \in Sections : Under(t) \subseteq Sections
    BY DEF Under
  <2>2. ToSet(Sub[s]) \subseteq Sections
    <3>1. Sub[s] \in Seq(Sections)
      BY SectionsAssumption
    <3>. QED  BY <3>1, ElementOfSeq, LenProperties DEF ToSet
  <2>3. S \in SUBSET Sections /\ s \in S
    BY <2>1, <2>2
  <2>4. ASSUME NEW u \in S \ Skipped PROVE ToSet(Sub[u]) \subseteq S
    <3>1. CASE u = s
      <4>1. \A t \in ToSet(Sub[s]) : t \in Under(t)
        BY <2>2 DEF Under
      <4>. QED  BY <3>1, <4>1
    <3>2. ASSUME NEW t \in ToSet(Sub[s]), u \in Under(t) PROVE ToSet(Sub[u]) \subseteq S
      <4>1. u \in Sections /\ Sub[u] \in Seq(Sections)
        BY <3>2, SectionsAssumption DEF Under
      <4>2. ToSet(Sub[u]) \subseteq Sections
        BY <4>1, ElementOfSeq, LenProperties DEF ToSet
      <4>3. ToSet(Sub[u]) \subseteq Under(t)
        BY <2>4, <3>2, <4>2 DEF Under
      <4>. QED  BY <4>3
    <3>. QED  BY <2>4, <3>1, <3>2
  <2>. HIDE DEF S
  <2>5. Under(s) \subseteq S
    BY <2>3, <2>4 DEF Under
  <2>. QED  BY <2>5 DEF S
<1>. QED  BY <1>1, <1>2, <1>3

\* What a section records is its own, and what its subdirectory's sections
\* record; a skipped section records nothing.
LEMMA RecordedStep ==
  ASSUME NEW s \in Sections
  PROVE  /\ s \in Skipped => RecordedBy(s) = {}
         /\ RecordedBy(s) \subseteq Own(s) \union UNION {RecordedBy(t) : t \in ToSet(Sub[s])}
BY UnderStep DEF RecordedBy

\* Splitting what is recorded.
LEMMA RecordedUnion ==
  ASSUME NEW A, NEW B
  PROVE  /\ RecordedSet(A \union B) = RecordedSet(A) \union RecordedSet(B)
         /\ A \subseteq B => RecordedSet(A) \subseteq RecordedSet(B)
BY DEF RecordedSet

-----------------------------------------------------------------------------
(* The stack of calls. *)

\* The calls of st2 have done what those of st1 have, and the innermost may be
\* one section further, which its receiver then knows of.
Grown(st1, st2) ==
  /\ Len(st2) = Len(st1)
  /\ \A k \in 1..Len(st1) : st2[k].secs = st1[k].secs /\ st1[k].mem \subseteq st2[k].mem
  /\ \A k \in 1..(Len(st1) - 1) : st2[k].at = st1[k].at
  /\ LET n == Len(st1) IN
       \/ st2[n].at = st1[n].at
       \/ /\ st2[n].at = st1[n].at + 1
          /\ RecordedBy(st1[n].secs[st1[n].at]) \subseteq Receiver(st2, n).mem

\* A stack that grows stays tracked.
LEMMA GrownTracked ==
  ASSUME NEW st1 \in Seq(Frame), NEW st2 \in Seq(Frame), CallsTracked(st1), Grown(st1, st2)
  PROVE  CallsTracked(st2)
<1>. SUFFICES ASSUME NEW k \in 1..Len(st2)
              PROVE  /\ Self \in st2[k].mem
                     /\ Delivered(st2, k)
                     /\ k < Len(st2) => LinkedAt(st2, k)
  BY DEF CallsTracked
<1>1. Len(st1) \in Nat /\ Len(st2) = Len(st1) /\ k \in 1..Len(st1)
  BY LenProperties DEF Grown
<1>2. st1[k] \in Frame /\ st2[k] \in Frame /\ st1[k].at \in Nat /\ st2[k].at \in Nat
  <2>1. st1[k] \in Frame /\ st2[k] \in Frame
    BY <1>1, ElementOfSeq
  <2>. QED  BY <2>1 DEF Frame
<1>3. Self \in st1[k].mem /\ Delivered(st1, k) /\ (k < Len(st1) => LinkedAt(st1, k))
  BY <1>1 DEF CallsTracked
<1>4. Self \in st2[k].mem
  BY <1>1, <1>3 DEF Grown
<1>5. Receiver(st1, k).mem \subseteq Receiver(st2, k).mem
  <2>1. CASE k = 1
    BY <1>1, <2>1 DEF Grown, Receiver
  <2>2. CASE k # 1
    <3>1. k - 1 \in 1..Len(st1)
      BY <1>1, <2>2
    <3>. QED  BY <2>2, <3>1 DEF Grown, Receiver
  <2>. QED  BY <2>1, <2>2
<1>6. ASSUME NEW i \in 1..(st2[k].at - 1)
      PROVE  RecordedBy(st2[k].secs[i]) \subseteq Receiver(st2, k).mem
  <2>1. st2[k].secs = st1[k].secs
    BY <1>1 DEF Grown
  <2>2. CASE i \in 1..(st1[k].at - 1)
    BY <1>3, <1>5, <2>1, <2>2 DEF Delivered
  <2>3. CASE i \notin 1..(st1[k].at - 1)
    <3>1. k = Len(st1) /\ i = st1[k].at
      BY <1>1, <1>2, <2>3 DEF Grown
    <3>2. st2[k].at # st1[k].at
      BY <1>2, <3>1
    <3>3. RecordedBy(st1[k].secs[st1[k].at]) \subseteq Receiver(st2, k).mem
      BY <3>1, <3>2 DEF Grown
    <3>. QED  BY <2>1, <3>1, <3>3
  <2>. QED  BY <2>2, <2>3
<1>7. ASSUME k < Len(st2) PROVE LinkedAt(st2, k)
  <2>1. k \in 1..(Len(st1) - 1) /\ k + 1 \in 1..Len(st1)
    BY <1>1, <1>7
  <2>2. /\ st2[k].secs = st1[k].secs /\ st2[k].at = st1[k].at
        /\ st1[k].mem \subseteq st2[k].mem /\ st2[k + 1].secs = st1[k + 1].secs
    BY <1>1, <2>1 DEF Grown
  <2>. QED  BY <1>1, <1>3, <1>7, <2>2 DEF LinkedAt
<1>. QED  BY <1>4, <1>6, <1>7 DEF Delivered

\* A call that is not the outermost has a caller.
LEMMA CallerBelow ==
  ASSUME NEW n \in Nat \ {0}, n # 1
  PROVE  n - 1 \in 1..(n - 1) /\ n - 1 \in 1..n
OBVIOUS

\* So does one whose innermost call is replaced by one that has done as much,
\* and the section it has passed, if any, recorded where its receiver sees it.
LEMMA TopGrown ==
  ASSUME TypeOK, stack # <<>>, CallsTracked(stack), NEW g \in Frame,
         g.secs = Top.secs, Top.mem \subseteq g.mem,
         \/ g.at = Top.at
         \/ /\ g.at = Top.at + 1
            /\ RecordedBy(Current) \subseteq
                 IF Len(stack) = 1 THEN g.mem ELSE stack[Len(stack) - 1].mem
  PROVE  /\ CallsTracked(WithTop(g))
         /\ WithTop(g)[1].secs = stack[1].secs
         /\ WithTop(g)[1].at = IF Len(stack) = 1 THEN g.at ELSE stack[1].at
<1>0. Len(stack) \in Nat \ {0}
  BY TopFrame
<1>1. stack \in Seq(Frame) /\ Len(stack) \in Nat \ {0} /\ WithTop(g) \in Seq(Frame)
  BY TopFrame, WithTopFrame DEF TypeOK
<1>2. /\ Len(WithTop(g)) = Len(stack) /\ WithTop(g)[Len(stack)] = g
      /\ \A k \in 1..(Len(stack) - 1) : WithTop(g)[k] = stack[k]
  BY WithTopFrame
<1>3. \A k \in 1..Len(stack) : WithTop(g)[k] = IF k = Len(stack) THEN g ELSE stack[k]
  BY <1>1, <1>2
<1>4. Grown(stack, WithTop(g))
  <2>1. \A k \in 1..Len(stack) : /\ WithTop(g)[k].secs = stack[k].secs
                                 /\ stack[k].mem \subseteq WithTop(g)[k].mem
    BY <1>1, <1>3 DEF Top
  <2>2. ASSUME g.at # Top.at
        PROVE  /\ g.at = Top.at + 1
               /\ RecordedBy(Current) \subseteq Receiver(WithTop(g), Len(stack)).mem
    <3>1. Len(stack) # 1 => Len(stack) - 1 \in 1..(Len(stack) - 1)
      BY <1>0, CallerBelow
    <3>2. Receiver(WithTop(g), Len(stack)) =
            IF Len(stack) = 1 THEN g ELSE stack[Len(stack) - 1]
      BY <1>2, <3>1 DEF Receiver
    <3>. QED  BY <2>2, <3>2
  <2>3. \A k \in 1..(Len(stack) - 1) : WithTop(g)[k].at = stack[k].at
    BY <1>2
  <2>4. \/ WithTop(g)[Len(stack)].at = stack[Len(stack)].at
        \/ /\ WithTop(g)[Len(stack)].at = stack[Len(stack)].at + 1
           /\ RecordedBy(stack[Len(stack)].secs[stack[Len(stack)].at])
                \subseteq Receiver(WithTop(g), Len(stack)).mem
    BY <1>2, <2>2 DEF Top, Current
  <2>. QED  BY <1>2, <2>1, <2>3, <2>4 DEF Grown
<1>5. CallsTracked(WithTop(g))
  BY <1>1, <1>4, GrownTracked
<1>6. 1 \in 1..Len(stack)
  BY <1>0
<1>7. WithTop(g)[1] = IF Len(stack) = 1 THEN g ELSE stack[1]
  BY <1>3, <1>6
<1>8. Len(stack) = 1 => g.secs = stack[1].secs
  BY DEF Top
<1>. QED  BY <1>5, <1>7, <1>8

\* A call into a subdirectory.
LEMMA CallTracked ==
  ASSUME NEW st \in Seq(Frame), st # <<>>, CallsTracked(st),
         NEW c \in Frame, c.at = 1, Self \in c.mem, LinkedAt(Append(st, c), Len(st))
  PROVE  CallsTracked(Append(st, c)) /\ Append(st, c)[1] = st[1]
<1>. DEFINE st2 == Append(st, c)
<1>1. /\ Len(st) \in Nat \ {0} /\ Len(st2) = Len(st) + 1 /\ st2[Len(st) + 1] = c
      /\ \A k \in 1..Len(st) : st2[k] = st[k]
  BY AppendProperties, EmptySeq, LenProperties
<1>. HIDE DEF st2
<1>2. ASSUME NEW k \in 1..Len(st2)
      PROVE  /\ Self \in st2[k].mem
             /\ Delivered(st2, k)
             /\ k < Len(st2) => LinkedAt(st2, k)
  <2>1. CASE k = Len(st) + 1
    <3>1. Self \in st2[k].mem /\ st2[k].at = 1
      BY <1>1, <2>1
    <3>. QED  BY <1>1, <2>1, <3>1 DEF Delivered
  <2>2. CASE k \in 1..Len(st)
    <3>1. st2[k] = st[k] /\ Receiver(st2, k) = Receiver(st, k)
      BY <1>1, <2>2 DEF Receiver
    <3>2. Self \in st2[k].mem /\ Delivered(st2, k)
      BY <2>2, <3>1 DEF CallsTracked, Delivered
    <3>3. k < Len(st) => LinkedAt(st2, k)
      <4>. HAVE k < Len(st)
      <4>1. st2[k + 1] = st[k + 1]
        BY <1>1, <2>2
      <4>. QED  BY <2>2, <3>1, <4>1 DEF CallsTracked, LinkedAt
    <3>4. k = Len(st) => LinkedAt(st2, k)
      BY DEF st2
    <3>. QED  BY <1>1, <2>2, <3>2, <3>3, <3>4
  <2>. QED  BY <1>1, <2>1, <2>2
<1>3. CallsTracked(st2)
  BY <1>2 DEF CallsTracked
<1>. QED  BY <1>1, <1>3 DEF st2

\* A return from a subdirectory.
LEMMA ReturnTracked ==
  ASSUME NEW st \in Seq(Frame), Len(st) > 1, CallsTracked(st)
  PROVE  /\ Len(Front(st)) = Len(st) - 1
         /\ \A k \in 1..(Len(st) - 1) : Front(st)[k] = st[k]
         /\ CallsTracked(Front(st))
<1>. DEFINE up == Len(st) - 1
<1>1. up \in Nat /\ up >= 1 /\ up + 1 = Len(st) /\ up < Len(st)
  BY LenProperties
<1>2. /\ Len(Front(st)) = IF 1 <= up THEN up - 1 + 1 ELSE 0
      /\ \A k \in 1..(up - 1 + 1) : Front(st)[k] = st[1 + k - 1]
  <2>1. \A k \in 1..up : st[k] \in Frame
    BY <1>1, ElementOfSeq
  <2>2. Front(st) = SubSeq(st, 1, up)
    BY DEF Front
  <2>. HIDE DEF up
  <2>. QED  BY <1>1, <2>1, <2>2, SubSeqProperties
<1>3. Len(Front(st)) = up /\ \A k \in 1..up : Front(st)[k] = st[k]
  BY <1>1, <1>2
<1>4. ASSUME NEW k \in 1..up
      PROVE  /\ Self \in Front(st)[k].mem
             /\ Delivered(Front(st), k)
             /\ k < up => LinkedAt(Front(st), k)
  <2>1. k \in 1..Len(st) /\ Front(st)[k] = st[k] /\ Receiver(Front(st), k) = Receiver(st, k)
    BY <1>1, <1>3 DEF Receiver
  <2>2. k < up => LinkedAt(st, k) /\ Front(st)[k + 1] = st[k + 1]
    BY <1>1, <1>3, <2>1 DEF CallsTracked
  <2>. QED  BY <2>1, <2>2 DEF CallsTracked, Delivered, LinkedAt
<1>. QED  BY <1>3, <1>4 DEF CallsTracked

\* The parts of a call that moves on, and of one that remembers files.
LEMMA SkipParts ==
  ASSUME NEW g \in Frame
  PROVE  /\ Skip(g) \in Frame /\ Skip(g).secs = g.secs /\ Skip(g).mem = g.mem
         /\ Skip(g).at = g.at + 1
<1>1. g.at + 1 \in Nat \ {0}
  <2>1. g.at \in Nat
    BY DEF Frame
  <2>. QED  BY <2>1
<1>2. g = [dir |-> g.dir, secs |-> g.secs, at |-> g.at, mem |-> g.mem]
  BY DEF Frame
<1>3. Skip(g) = [dir |-> g.dir, secs |-> g.secs, at |-> g.at + 1, mem |-> g.mem]
  BY <1>2 DEF Skip
<1>. QED  BY <1>1, <1>3 DEF Frame

LEMMA RememberParts ==
  ASSUME TypeOK, stack # <<>>, NEW F \in SUBSET Files
  PROVE  /\ Remember(F) \in Frame
         /\ Remember(F).secs = Top.secs /\ Remember(F).dir = Top.dir
         /\ Remember(F).at = Top.at
         /\ Remember(F).mem = Top.mem \union RecordedSet(F)
         /\ Skip(Remember(F)) \in Frame
         /\ Skip(Remember(F)).secs = Top.secs /\ Skip(Remember(F)).at = Top.at + 1
         /\ Skip(Remember(F)).mem = Top.mem \union RecordedSet(F)
<1>1. Top \in Frame /\ Remember(F) \in Frame /\ Skip(Remember(F)) \in Frame
  BY TopFrame, RememberFrame
<1>2. Remember(F) = [Top EXCEPT !.mem = Top.mem \union RecordedSet(F)]
  BY DEF Remember
<1>3. Skip(Remember(F)) = [Remember(F) EXCEPT !.at = Remember(F).at + 1]
  BY DEF Skip
<1>. QED  BY <1>1, <1>2, <1>3 DEF Frame

-----------------------------------------------------------------------------
(* What the sections already done have copied is in the manifest. *)

\* Nothing that the outermost call has done since is lost.
LEMMA SavedStays ==
  ASSUME SectionsSaved, cmd = "install", phase # "fill", UNCHANGED <<manifest, pkg>>,
         stack'[1].secs = stack[1].secs,
         \/ stack'[1].at = stack[1].at
         \/ /\ stack'[1].at = stack[1].at + 1 /\ stack[1].at \in Nat
            /\ Saved(stack[1].secs[stack[1].at], manifest[pkg])
  PROVE  SectionsSaved'
<1>1. CASE stack'[1].at = stack[1].at
  BY <1>1 DEF SectionsSaved, Saved
<1>2. CASE stack'[1].at = stack[1].at + 1 /\ stack[1].at \in Nat
           /\ Saved(stack[1].secs[stack[1].at], manifest[pkg])
  <2>1. ASSUME NEW i \in 1..(stack'[1].at - 1)
        PROVE  Saved(stack[1].secs[i], manifest[pkg])
    <3>1. i \in 1..(stack[1].at - 1) \/ i = stack[1].at
      BY <1>2
    <3>. QED  BY <1>2, <3>1 DEF SectionsSaved
  <2>. QED  BY <2>1 DEF SectionsSaved, Saved
<1>. QED  BY <1>1, <1>2

\* Every step of install() keeps the record of what it has done.
LEMMA InstallRecords ==
  ASSUME TypeInv, TypeInv', Recording, InstallStep
  PROVE  Recording'
<1>. USE DEF TypeInv
<1>1. cmd = "install" /\ stack # <<>> /\ pkg' = pkg /\ pkg \in Packages
  BY DEF InstallStep, Progress, SkipSection, EnterSection, CopyFile,
         EndPreEmptyLib, EndPreSubdir, EndPre, EndBody, EndPost, TruncateManifest,
         FillManifest, MergeManifest, StartDocs, ReturnToParent, EndInstall, Installing, TypeOK
<1>2. stack \in Seq(Frame) /\ Len(stack) \in Nat \ {0} /\ Top \in Frame
  BY <1>1, TopFrame DEF TypeOK
<1>3. CallsTracked(stack) /\ SectionsSaved /\ Stage
  BY <1>1 DEF Recording
<1>4. phase \in {"pre", "body", "post", "save", "fill"} => InSection
  BY <1>1 DEF Progress
<1>5. InSection =>
        /\ Current \in Sections
        /\ Pre[Current] \in SUBSET Files /\ Body[Current] \in SUBSET Files
        /\ Post[Current] \in SUBSET Files /\ Sub[Current] \in Seq(Sections)
  BY <1>1, CurrentSection, SectionsAssumption
<1>6. \A F \in SUBSET Files :
         /\ Remember(F) \in Frame
         /\ Remember(F).secs = Top.secs /\ Remember(F).at = Top.at
         /\ Remember(F).mem = Top.mem \union RecordedSet(F)
         /\ Skip(Remember(F)) \in Frame
         /\ Skip(Remember(F)).secs = Top.secs /\ Skip(Remember(F)).at = Top.at + 1
         /\ Skip(Remember(F)).mem = Top.mem \union RecordedSet(F)
  BY <1>1, RememberParts
<1>7. /\ Skip(Top) \in Frame /\ Skip(Top).secs = Top.secs /\ Skip(Top).at = Top.at + 1
      /\ Skip(Top).mem = Top.mem
  BY <1>2, SkipParts
<1>8. Top.at \in Nat
  BY <1>2 DEF Frame
<1>9. Len(stack) = 1 => stack[1] = Top
  BY DEF Top
<1>10. \* A call that remembers more keeps what is tracked.
       ASSUME NEW F \in SUBSET Files, stack' = WithTop(Remember(F)), phase # "fill",
              manifest' = manifest
       PROVE  /\ CallsTracked(stack') /\ SectionsSaved'
              /\ Top' = Remember(F) /\ Current' = Current
  <2>1. Remember(F) \in Frame /\ Remember(F).secs = Top.secs /\ Remember(F).at = Top.at
        /\ Top.mem \subseteq Remember(F).mem
    BY <1>6
  <2>2. /\ CallsTracked(WithTop(Remember(F)))
        /\ WithTop(Remember(F))[1].secs = stack[1].secs
        /\ WithTop(Remember(F))[1].at = IF Len(stack) = 1 THEN Remember(F).at ELSE stack[1].at
    BY <1>1, <1>3, <2>1, TopGrown
  <2>3. stack'[1].at = stack[1].at
    BY <1>9, <1>10, <2>1, <2>2
  <2>4. SectionsSaved'
    BY <1>1, <1>3, <1>10, <2>2, <2>3, SavedStays
  <2>5. Top' = Remember(F)
    BY <1>1, <1>10, <2>1, WithTopFrame DEF Top
  <2>. QED  BY <1>10, <2>1, <2>2, <2>4, <2>5 DEF Current
<1>11. \* A call that passes a section which copies nothing, likewise.
       ASSUME NEW g \in Frame, g.secs = Top.secs, g.at = Top.at + 1, Top.mem \subseteq g.mem,
              stack' = WithTop(g), phase # "fill", manifest' = manifest,
              Current \in Sections \intersect Skipped
       PROVE  CallsTracked(stack') /\ SectionsSaved'
  <2>1. RecordedBy(Current) = {} /\ Saved(Current, manifest[pkg])
    BY <1>11, RecordedStep DEF Saved
  <2>2. /\ CallsTracked(WithTop(g))
        /\ WithTop(g)[1].secs = stack[1].secs
        /\ WithTop(g)[1].at = IF Len(stack) = 1 THEN g.at ELSE stack[1].at
    BY <1>1, <1>3, <1>11, <2>1, TopGrown
  <2>3. \/ stack'[1].at = stack[1].at
        \/ /\ stack'[1].at = stack[1].at + 1 /\ stack[1].at \in Nat
           /\ Saved(stack[1].secs[stack[1].at], manifest[pkg])
    BY <1>8, <1>9, <1>11, <2>1, <2>2 DEF Current
  <2>4. SectionsSaved'
    BY <1>1, <1>3, <1>11, <2>2, <2>3, SavedStays
  <2>. QED  BY <1>11, <2>2, <2>4
<1>12. CASE SkipSection
  <2>1. InSection /\ Current \in Sections \intersect Skipped /\ phase # "fill"
    BY <1>5, <1>12 DEF SkipSection, Installing, Skipped
  <2>2. CallsTracked(stack') /\ SectionsSaved'
    BY <1>7, <1>11, <1>12, <2>1 DEF SkipSection
  <2>. QED  BY <1>12, <2>2 DEF SkipSection, Installing, Recording, Stage
<1>13. CASE EnterSection
  <2>1. SectionsSaved'
    BY <1>1, <1>3, <1>13, SavedStays DEF EnterSection, Installing
  <2>2. Stage'
    BY <1>13 DEF EnterSection, Installing, Stage, Current, Top
  <2>. QED  BY <1>3, <1>13, <2>1, <2>2 DEF EnterSection, Recording
<1>14. ASSUME NEW f \in Files, CopyFile(f) PROVE Recording'
  <2>1. /\ phase \in {"pre", "body", "post", "docs"} /\ phase' = phase /\ cmd' = cmd
        /\ manifest' = manifest /\ todo' = todo \ {f} /\ f \in todo
    BY <1>14 DEF CopyFile
  <2>2. CASE phase = "body"
    <3>1. stack' = WithTop(Remember({f}))
      BY <1>14, <2>2 DEF CopyFile
    <3>2. CallsTracked(stack') /\ SectionsSaved' /\ Top' = Remember({f}) /\ Current' = Current
      BY <1>10, <2>1, <2>2, <3>1
    <3>3. Remember({f}).mem = Top.mem \union RecordedSet({f})
      BY <1>6
    <3>4. RecordedSet(Pre[Current] \union (Body[Current] \ (todo \ {f})))
            \subseteq Top.mem \union RecordedSet({f})
      BY <1>1, <1>3, <2>1, <2>2 DEF Stage, Installing, RecordedSet
    <3>5. Stage'
      BY <1>1, <1>3, <2>1, <2>2, <3>2, <3>3, <3>4 DEF Stage, Installing
    <3>. QED  BY <3>2, <3>5 DEF Recording
  <2>3. CASE phase # "body"
    <3>1. stack' = stack
      BY <1>14, <2>3 DEF CopyFile
    <3>2. SectionsSaved'
      BY <1>1, <1>3, <2>1, <3>1, SavedStays
    <3>3. Stage'
      BY <1>1, <1>3, <2>1, <2>3, <3>1 DEF Stage, Installing, Current, Top, InSection
    <3>. QED  BY <1>3, <3>1, <3>2, <3>3 DEF Recording
  <2>. QED  BY <2>2, <2>3
<1>15. CASE EndPreEmptyLib
  <2>1. InSection /\ Current \in Sections \intersect Skipped /\ phase # "fill"
    BY <1>4, <1>5, <1>15 DEF EndPreEmptyLib, Installing, Skipped
  <2>2. CallsTracked(stack') /\ SectionsSaved'
    BY <1>5, <1>6, <1>11, <1>15, <2>1 DEF EndPreEmptyLib
  <2>. QED  BY <1>15, <2>2 DEF EndPreEmptyLib, Installing, Recording, Stage
<1>16. CASE EndPreSubdir
  <2>. DEFINE g == Remember(Pre[Current])
              base == WithTop(g)
              callee == Call(Current, Sub[Current])
  <2>1. InSection /\ Current \in Sections \ Skipped /\ Sub[Current] # <<>> /\ phase # "fill"
    BY <1>1, <1>3, <1>4, <1>5, <1>16 DEF EndPreSubdir, Installing, Skipped, Stage
  <2>2. /\ g \in Frame /\ g.secs = Top.secs /\ g.at = Top.at
        /\ g.mem = Top.mem \union RecordedSet(Pre[Current])
    BY <1>5, <1>6, <2>1
  <2>3. callee \in Frame /\ callee.at = 1 /\ Self \in callee.mem /\ callee.secs = Sub[Current]
    BY <1>5, <2>1, CallFrame DEF Call
  <2>4. stack' = Append(base, callee)
    BY <1>16 DEF EndPreSubdir
  <2>. HIDE DEF g, callee
  <2>5. /\ base \in Seq(Frame) /\ base # <<>> /\ Len(base) = Len(stack)
        /\ base[Len(stack)] = g
    BY <1>1, <2>2, WithTopFrame
  <2>6. /\ CallsTracked(base) /\ base[1].secs = stack[1].secs
        /\ base[1].at = IF Len(stack) = 1 THEN g.at ELSE stack[1].at
    BY <1>1, <1>3, <2>2, TopGrown
  <2>. HIDE DEF base
  <2>7. stack'[Len(stack)] = g /\ stack'[Len(stack) + 1] = callee
    BY <1>2, <2>3, <2>4, <2>5, AppendProperties
  <2>8. LinkedAt(stack', Len(stack))
    <3>1. g.secs[g.at] = Current
      BY <2>2 DEF Current
    <3>. QED  BY <2>1, <2>2, <2>3, <2>7, <3>1 DEF LinkedAt
  <2>9. CallsTracked(stack') /\ stack'[1] = base[1]
    BY <2>3, <2>4, <2>5, <2>6, <2>8, CallTracked
  <2>10. stack'[1].at = stack[1].at /\ stack'[1].secs = stack[1].secs
    BY <1>9, <2>2, <2>6, <2>9
  <2>11. SectionsSaved'
    BY <1>1, <1>3, <1>16, <2>1, <2>10, SavedStays DEF EndPreSubdir
  <2>. QED  BY <1>16, <2>9, <2>11 DEF EndPreSubdir, Installing, Recording, Stage
<1>17. CASE EndPre
  <2>1. InSection /\ Current \in Sections \ Skipped /\ Sub[Current] = <<>> /\ phase # "fill"
    BY <1>1, <1>3, <1>4, <1>5, <1>17 DEF EndPre, Installing, Skipped, Stage
  <2>2. CallsTracked(stack') /\ SectionsSaved' /\ Top' = Remember(Pre[Current])
        /\ Current' = Current
    BY <1>5, <1>10, <1>17, <2>1 DEF EndPre
  <2>3. Remember(Pre[Current]).mem = Top.mem \union RecordedSet(Pre[Current])
    BY <1>5, <1>6, <2>1
  <2>4. todo' = Body[Current] /\ phase' = "body" /\ cmd' = cmd
    BY <1>17 DEF EndPre
  <2>5. Pre[Current] \union (Body[Current] \ Body[Current]) = Pre[Current]
    OBVIOUS
  <2>6. Stage'
    BY <2>1, <2>2, <2>3, <2>4, <2>5 DEF Stage, Installing
  <2>. QED  BY <2>2, <2>6 DEF Recording
<1>18. CASE EndBody
  <2>1. SectionsSaved'
    BY <1>1, <1>3, <1>18, SavedStays DEF EndBody, Installing
  <2>2. /\ Current \notin Skipped /\ Sub[Current] = <<>>
        /\ RecordedSet(Pre[Current] \union Body[Current]) \subseteq Top.mem
    <3>1. Body[Current] \ todo = Body[Current]
      BY <1>18 DEF EndBody
    <3>. QED  BY <1>3, <1>18, <3>1 DEF EndBody, Stage
  <2>3. ToSet(Sub[Current]) = {}
    BY <2>2, EmptySeq DEF ToSet
  <2>4. Stage'
    BY <1>18, <2>2, <2>3 DEF EndBody, Installing, Stage, Current, Top
  <2>. QED  BY <1>3, <1>18, <2>1, <2>4 DEF EndBody, Recording
<1>19. CASE EndPost
  <2>1. InSection /\ Current \in Sections \ Skipped /\ phase # "fill"
    BY <1>3, <1>4, <1>5, <1>19 DEF EndPost, Installing, Stage
  <2>2. CallsTracked(stack') /\ SectionsSaved' /\ Top' = Remember(Post[Current])
        /\ Current' = Current
    BY <1>5, <1>10, <1>19, <2>1 DEF EndPost
  <2>3. Remember(Post[Current]).mem = Top.mem \union RecordedSet(Post[Current])
    BY <1>5, <1>6, <2>1
  <2>4. /\ RecordedSet(Pre[Current] \union Body[Current]) \subseteq Top.mem
        /\ \A t \in ToSet(Sub[Current]) : RecordedBy(t) \subseteq Top.mem
    BY <1>3, <1>19 DEF EndPost, Stage
  <2>5. Own(Current) \subseteq Top.mem \union RecordedSet(Post[Current])
    BY <2>4, RecordedUnion DEF Own
  <2>6. RecordedBy(Current) \subseteq Remember(Post[Current]).mem
    BY <2>1, <2>3, <2>4, <2>5, RecordedStep
  <2>7. Stage'
    BY <1>19, <2>1, <2>2, <2>6 DEF EndPost, Installing, Stage
  <2>. QED  BY <2>2, <2>7 DEF Recording
<1>20. CASE TruncateManifest
  <2>1. SectionsSaved'
    BY <1>20 DEF TruncateManifest, SectionsSaved
  <2>2. Stage'
    BY <1>3, <1>20 DEF TruncateManifest, Installing, Stage, Current, Top
  <2>. QED  BY <1>3, <1>20, <2>1, <2>2 DEF TruncateManifest, Recording
<1>21. CASE FillManifest
  <2>1. Len(stack) = 1 /\ RecordedBy(Current) \subseteq Top.mem /\ InSection
    BY <1>1, <1>3, <1>4, <1>21 DEF FillManifest, Installing, Stage
  <2>2. stack' = WithTop(Skip(Top)) /\ manifest' = [manifest EXCEPT ![pkg] = Top.mem]
    BY <1>21 DEF FillManifest
  <2>3. /\ CallsTracked(stack') /\ stack'[1].secs = stack[1].secs
        /\ stack'[1].at = Top.at + 1
    BY <1>1, <1>3, <1>7, <2>1, <2>2, TopGrown
  <2>4. manifest'[pkg] = Top.mem
    BY <1>1, <2>2 DEF TypeOK
  <2>5. ASSUME NEW i \in 1..(stack'[1].at - 1) PROVE Saved(stack[1].secs[i], Top.mem)
    <3>1. Delivered(stack, 1) /\ Self \in Top.mem
      BY <1>9, <2>1, <1>3 DEF CallsTracked
    <3>2. i \in 1..(Top.at - 1) \/ i = Top.at
      BY <1>8, <2>3
    <3>3. RecordedBy(stack[1].secs[i]) \subseteq Top.mem
      BY <1>9, <2>1, <3>1, <3>2 DEF Delivered, Receiver, Current
    <3>. QED  BY <3>1, <3>3 DEF Saved
  <2>6. SectionsSaved'
    BY <1>1, <2>3, <2>4, <2>5 DEF SectionsSaved
  <2>. QED  BY <1>21, <2>3, <2>6 DEF FillManifest, Installing, Recording, Stage
<1>22. CASE MergeManifest
  <2>. DEFINE base == WithTop(Skip(Top))
              up == Len(stack) - 1
              caller == [base[up] EXCEPT !.mem = @ \union Top.mem]
  <2>1. up \in 1..Len(stack) /\ up \in 1..(Len(stack) - 1) /\ up # Len(stack) /\ Len(stack) # 1
    <3>1. Len(stack) > 1
      BY <1>22 DEF MergeManifest
    <3>2. Len(stack) \in Nat \ {0}
      BY <1>2
    <3>3. \A n \in Nat \ {0} : n > 1 => n # 1 /\ n - 1 # n
      OBVIOUS
    <3>. QED  BY <3>1, <3>2, <3>3, CallerBelow
  <2>2. /\ base \in Seq(Frame) /\ Len(base) = Len(stack)
        /\ \A k \in 1..Len(stack) : base[k] = IF k = Len(stack) THEN Skip(Top) ELSE stack[k]
    BY <1>1, <1>2, <1>7, WithTopFrame
  <2>3. base[up] \in Frame /\ base[up] = stack[up]
    BY <1>2, <2>1, <2>2, ElementOfSeq
  <2>4. /\ caller \in Frame /\ caller.secs = stack[up].secs /\ caller.at = stack[up].at
        /\ caller.mem = stack[up].mem \union Top.mem
    BY <1>2, <2>3 DEF Frame
  <2>5. stack' = [base EXCEPT ![up] = caller]
    BY <1>22 DEF MergeManifest
  <2>. HIDE DEF base, caller
  <2>6. /\ stack' \in Seq(Frame) /\ Len(stack') = Len(stack)
        /\ \A k \in 1..Len(stack) :
              stack'[k] = IF k = up THEN caller ELSE IF k = Len(stack) THEN Skip(Top) ELSE stack[k]
    BY <2>1, <2>2, <2>4, <2>5, ExceptSeq
  <2>. HIDE DEF up
  <2>7. RecordedBy(Current) \subseteq Top.mem
    BY <1>1, <1>3, <1>22 DEF MergeManifest, Installing, Stage
  <2>8. Receiver(stack', Len(stack)) = caller
    BY <2>1, <2>6 DEF Receiver, up
  <2>9. /\ \A k \in 1..Len(stack) : stack'[k].secs = stack[k].secs /\ stack[k].mem \subseteq stack'[k].mem
        /\ \A k \in 1..(Len(stack) - 1) : stack'[k].at = stack[k].at
    <3>1. stack[Len(stack)] = Top
      BY DEF Top
    <3>2. \A k \in 1..(Len(stack) - 1) : k \in 1..Len(stack) /\ k # Len(stack)
      BY <1>2
    <3>. QED  BY <1>7, <2>4, <2>6, <3>1, <3>2
  <2>10. stack'[Len(stack)].at = stack[Len(stack)].at + 1
    <3>1. Len(stack) \in 1..Len(stack)
      BY <1>2
    <3>. QED  BY <1>7, <2>1, <2>6, <3>1 DEF Top
  <2>11. Grown(stack, stack')
    BY <2>4, <2>6, <2>7, <2>8, <2>9, <2>10 DEF Grown, Current, Top
  <2>12. CallsTracked(stack')
    BY <1>2, <1>3, <2>6, <2>11, GrownTracked
  <2>13. 1 \in 1..(Len(stack) - 1) /\ 1 \in 1..Len(stack)
    BY <1>2, <2>1
  <2>14. SectionsSaved'
    BY <1>1, <1>3, <1>22, <2>9, <2>13, SavedStays DEF MergeManifest, Installing
  <2>. QED  BY <1>22, <2>12, <2>14 DEF MergeManifest, Installing, Recording, Stage
<1>23. CASE StartDocs
  <2>1. SectionsSaved'
    BY <1>1, <1>3, <1>23, SavedStays DEF StartDocs, Installing
  <2>2. Docs[Top.dir] \subseteq DocFiles
    BY <1>2, SectionsAssumption DEF Frame, DocFiles
  <2>3. Stage'
    BY <1>23, <2>2 DEF StartDocs, Installing, Stage, InSection, Top
  <2>. QED  BY <1>3, <1>23, <2>1, <2>3 DEF StartDocs, Recording
<1>24. CASE ReturnToParent
  <2>. DEFINE up == Len(stack) - 1
              s == stack[up].secs[stack[up].at]
  <2>1. up \in 1..Len(stack) /\ up < Len(stack) /\ up + 1 = Len(stack) /\ up \in Nat /\ up >= 1
        /\ Len(stack) > 1
    BY <1>24, <1>2 DEF ReturnToParent
  <2>2. /\ CallsTracked(stack') /\ Len(stack') = up
        /\ \A k \in 1..up : stack'[k] = stack[k]
    BY <1>2, <1>3, <1>24, <2>1, ReturnTracked DEF ReturnToParent
  <2>3. 1 \in 1..up /\ up \in 1..up
    BY <2>1
  <2>4. SectionsSaved'
    BY <1>1, <1>3, <1>24, <2>2, <2>3, SavedStays DEF ReturnToParent, Installing
  <2>5. Top' = stack[up] /\ Current' = s
    BY <2>2, <2>3 DEF Top, Current
  <2>6. /\ s \in Sections \ Skipped /\ Sub[s] # <<>>
        /\ RecordedSet(Pre[s]) \subseteq stack[up].mem /\ Top.secs = Sub[s]
    BY <1>3, <2>1 DEF CallsTracked, LinkedAt, Top
  <2>7. ASSUME NEW t \in ToSet(Sub[s]) PROVE RecordedBy(t) \subseteq stack[up].mem
    <3>1. PICK i \in 1..Len(Top.secs) : t = Top.secs[i]
      <4>1. DOMAIN Top.secs = 1..Len(Top.secs)
        BY <1>2, LenProperties DEF Frame
      <4>2. t \in ToSet(Top.secs)
        BY <2>6
      <4>. QED  BY <4>1, <4>2 DEF ToSet
    <3>2. i \in 1..(Top.at - 1)
      <4>1. ~InSection /\ Len(Top.secs) \in Nat
        BY <1>2, <1>3, <1>24, LenProperties DEF ReturnToParent, Stage, Frame
      <4>. QED  BY <1>8, <4>1 DEF InSection
    <3>3. Delivered(stack, Len(stack)) /\ Len(stack) # 1
      BY <1>2, <1>3, <2>1 DEF CallsTracked
    <3>. QED  BY <3>1, <3>2, <3>3 DEF Delivered, Receiver, Top
  <2>8. RecordedSet(Pre[s] \union Body[s]) \subseteq stack[up].mem
    <3>1. Body[s] = {}
      BY <2>6, SectionsAssumption
    <3>2. Pre[s] \union Body[s] = Pre[s]
      BY <3>1
    <3>. QED  BY <2>6, <3>2
  <2>9. Stage'
    <3>1. todo' = Post[s] /\ phase' = "post"
      BY <1>24 DEF ReturnToParent
    <3>. HIDE DEF s, up
    <3>. QED  BY <2>5, <2>6, <2>7, <2>8, <3>1 DEF Stage, Installing
  <2>. QED  BY <2>2, <2>4, <2>9 DEF Recording
<1>25. CASE EndInstall
  BY <1>25 DEF EndInstall, Recording, SectionsSaved, Stage, Installing
<1>. QED
  BY <1>12, <1>13, <1>14, <1>15, <1>16, <1>17, <1>18, <1>19, <1>20, <1>21, <1>22, <1>23,
     <1>24, <1>25 DEF InstallStep

\* Recording is inductive, given types.
LEMMA NextRecords ==
  ASSUME TypeInv, TypeInv', Recording, [Next]_vars
  PROVE  Recording'
<1>1. ASSUME NEW p \in Packages, NEW r \in Whole[p] \union Some[p], Install(p, r)
      PROVE  Recording'
  <2>1. /\ Len(stack') = 1 /\ stack'[1] = Call(p, r) /\ phase' = "enter"
    BY <1>1 DEF Install
  <2>2. Call(p, r).at = 1 /\ Self \in Call(p, r).mem
    BY DEF Call
  <2>3. CallsTracked(stack')
    BY <2>1, <2>2 DEF CallsTracked, Delivered
  <2>4. SectionsSaved'
    BY <2>1, <2>2 DEF SectionsSaved
  <2>. QED  BY <2>1, <2>3, <2>4 DEF Recording, Stage, Installing
<1>2. ASSUME cmd' # "install" PROVE Recording'
  BY <1>2 DEF Recording, SectionsSaved, Stage, Installing
<1>3. CASE UNCHANGED vars
  BY <1>3 DEF vars, Recording, CallsTracked, SectionsSaved, Stage, Installing, Current,
     Top, InSection, Saved, Delivered, LinkedAt, Receiver
<1>4. ASSUME NEW list, Uninstall(list) PROVE cmd' # "install"
  BY <1>4 DEF Uninstall
<1>5. UninstallStep \/ Die => cmd' # "install"
  BY DEF UninstallStep, EndUninstall, NotInstalled, ReadManifest, RemoveManifest,
     RemoveFile, NextTool, Die
<1>. QED
  BY <1>1, <1>2, <1>3, <1>4, <1>5, InstallRecords DEF Next, Undisturbed, Command

LEMMA RecordingAlways == Spec => []Recording
<1>1. Init => Recording
  BY DEF Init, Recording, SectionsSaved, Stage, Installing
<1>2. TypeInv /\ TypeInv' /\ Recording /\ [Next]_vars => Recording'
  BY NextRecords
<1>. QED  BY <1>1, <1>2, TypeCorrect, PTL DEF Spec

\* At every moment of an install the manifest on disk lists all that the finished
\* sections record, nested subdirectories included, for any sections and any
\* depth; but between the truncation of the manifest and its writing, when what
\* is about to be written does.  A death at that moment loses the record.
THEOREM DoneSectionsSaved == Spec => []SavedSectionsAreRecorded
<1>1. ASSUME TypeInv, Recording, cmd = "install", NEW i \in 1..(stack[1].at - 1)
      PROVE  RecordedBy(stack[1].secs[i]) \subseteq
               IF phase = "fill" THEN stack[1].mem ELSE manifest[pkg]
  <2>1. CASE phase # "fill"
    BY <1>1, <2>1 DEF Recording, SectionsSaved, Saved
  <2>2. CASE phase = "fill"
    <3>1. Len(stack) = 1
      BY <1>1, <2>2 DEF Recording, Stage, Installing
    <3>2. Delivered(stack, 1)
      BY <1>1, <3>1 DEF Recording, CallsTracked
    <3>. QED  BY <1>1, <2>2, <3>2 DEF Delivered, Receiver
  <2>. QED  BY <2>1, <2>2
<1>2. TypeInv /\ Recording => SavedSectionsAreRecorded
  BY <1>1 DEF SavedSectionsAreRecorded
<1>. QED  BY <1>2, RecordingAlways, TypeCorrect, PTL

-----------------------------------------------------------------------------
(* A package installed whole. *)

\* The request that the outermost call works through stays the same.
LEMMA RequestStays ==
  ASSUME TypeInv, InstallStep, ~EndInstall
  PROVE  cmd' = "install" /\ stack'[1].secs = stack[1].secs
<1>1. cmd = "install" /\ cmd' = "install" /\ stack # <<>> /\ TypeOK
  BY DEF TypeInv, InstallStep, Progress, SkipSection, EnterSection, CopyFile,
         EndPreEmptyLib, EndPreSubdir, EndPre, EndBody, EndPost, TruncateManifest,
         FillManifest, MergeManifest, StartDocs, ReturnToParent, EndInstall, Installing
<1>2. stack \in Seq(Frame) /\ Len(stack) \in Nat \ {0} /\ Top \in Frame
  BY <1>1, TopFrame DEF TypeOK
<1>3. phase \in {"pre", "body", "post", "save", "fill"} => InSection /\ Current \in Sections
  BY <1>1, CurrentSection DEF TypeInv, Progress
<1>4. ASSUME NEW g \in Frame, g.secs = Top.secs
      PROVE  /\ WithTop(g)[1].secs = stack[1].secs /\ Len(WithTop(g)) = Len(stack)
             /\ WithTop(g) \in Seq(Frame)
  <2>1. \A k \in 1..(Len(stack) - 1) : WithTop(g)[k] = stack[k]
    BY <1>1, WithTopFrame
  <2>2. /\ WithTop(g)[Len(stack)] = g /\ Len(WithTop(g)) = Len(stack)
        /\ WithTop(g) \in Seq(Frame)
    BY <1>1, WithTopFrame
  <2>3. \A n \in Nat \ {0} : n = 1 \/ 1 \in 1..(n - 1)
    OBVIOUS
  <2>4. Len(stack) = 1 \/ 1 \in 1..(Len(stack) - 1)
    BY <1>2, <2>3
  <2>. QED  BY <1>4, <2>1, <2>2, <2>4 DEF Top
<1>5. \A F \in SUBSET Files :
         /\ Remember(F) \in Frame /\ Remember(F).secs = Top.secs
         /\ Skip(Remember(F)) \in Frame /\ Skip(Remember(F)).secs = Top.secs
  BY <1>1, RememberParts
<1>6. Skip(Top) \in Frame /\ Skip(Top).secs = Top.secs
  BY <1>2, SkipParts
<1>7. CASE stack' = stack
  BY <1>1, <1>7
<1>8. CASE \E g \in Frame : g.secs = Top.secs /\ stack' = WithTop(g)
  BY <1>1, <1>4, <1>8
<1>9. CASE EndPreSubdir
  <2>. DEFINE base == WithTop(Remember(Pre[Current]))
              callee == Call(Current, Sub[Current])
  <2>1. Current \in Sections /\ Pre[Current] \in SUBSET Files /\ Sub[Current] \in Seq(Sections)
    BY <1>3, <1>9, SectionsAssumption DEF EndPreSubdir, Installing
  <2>2. base \in Seq(Frame) /\ Len(base) = Len(stack) /\ base[1].secs = stack[1].secs
    BY <1>4, <1>5, <2>1
  <2>3. callee \in Frame
    BY <2>1, CallFrame
  <2>4. stack' = Append(base, callee)
    BY <1>9 DEF EndPreSubdir
  <2>. HIDE DEF base, callee
  <2>5. 1 \in 1..Len(base)
    BY <1>2, <2>2
  <2>. QED  BY <1>1, <2>2, <2>3, <2>4, <2>5, AppendProperties
<1>10. CASE MergeManifest
  <2>. DEFINE base == WithTop(Skip(Top))
              up == Len(stack) - 1
              caller == [base[up] EXCEPT !.mem = @ \union Top.mem]
  <2>1. up \in 1..Len(stack) /\ 1 \in 1..Len(stack)
    <3>1. Len(stack) > 1
      BY <1>10 DEF MergeManifest
    <3>2. \A n \in Nat \ {0} : n > 1 => n - 1 \in 1..n /\ 1 \in 1..n
      OBVIOUS
    <3>. QED  BY <1>2, <3>1, <3>2
  <2>2. base \in Seq(Frame) /\ Len(base) = Len(stack) /\ base[1].secs = stack[1].secs
    BY <1>4, <1>6
  <2>3. base[up] \in Frame
    BY <2>1, <2>2, ElementOfSeq
  <2>4. caller \in Frame /\ caller.secs = base[up].secs
    BY <1>2, <2>3 DEF Frame
  <2>5. stack' = [base EXCEPT ![up] = caller]
    BY <1>10 DEF MergeManifest
  <2>. HIDE DEF base, caller, up
  <2>6. stack'[1] = IF 1 = up THEN caller ELSE base[1]
    BY <2>1, <2>2, <2>4, <2>5, ExceptSeq
  <2>. QED  BY <1>1, <2>2, <2>4, <2>6
<1>11. CASE ReturnToParent
  <2>1. Len(stack) > 1 /\ stack' = SubSeq(stack, 1, Len(stack) - 1)
    BY <1>11 DEF ReturnToParent, Front
  <2>2. stack'[1] = stack[1]
    <3>1. \A k \in 1..(Len(stack) - 1) : stack[k] \in Frame
      BY <1>2, ElementOfSeq
    <3>2. \A k \in 1..(Len(stack) - 1 - 1 + 1) : stack'[k] = stack[1 + k - 1]
      BY <1>2, <2>1, <3>1, SubSeqProperties
    <3>. QED  BY <1>2, <2>1, <3>2
  <2>. QED  BY <1>1, <2>2
<1>12. stack' = stack \/ (\E g \in Frame : g.secs = Top.secs /\ stack' = WithTop(g))
       \/ EndPreSubdir \/ MergeManifest \/ ReturnToParent
  <2>1. CASE SkipSection \/ FillManifest
    BY <1>6, <2>1 DEF SkipSection, FillManifest
  <2>2. ASSUME NEW f \in Files, CopyFile(f)
        PROVE  stack' = stack \/ \E g \in Frame : g.secs = Top.secs /\ stack' = WithTop(g)
    BY <1>5, <2>2 DEF CopyFile
  <2>3. CASE EndPreEmptyLib \/ EndPre
    <3>1. Pre[Current] \in SUBSET Files
      BY <1>3, <2>3, SectionsAssumption DEF EndPreEmptyLib, EndPre, Installing
    <3>. QED  BY <1>5, <2>3, <3>1 DEF EndPreEmptyLib, EndPre
  <2>4. CASE EndPost
    <3>1. Post[Current] \in SUBSET Files
      BY <1>3, <2>4, SectionsAssumption DEF EndPost, Installing
    <3>. QED  BY <1>5, <2>4, <3>1 DEF EndPost
  <2>5. CASE EnterSection \/ EndBody \/ TruncateManifest \/ StartDocs
    BY <2>5 DEF EnterSection, EndBody, TruncateManifest, StartDocs
  <2>. QED  BY <2>1, <2>2, <2>3, <2>4, <2>5 DEF InstallStep
<1>. QED  BY <1>7, <1>8, <1>9, <1>10, <1>11, <1>12

\* What install copies now is documentation, or a section's own.
LEMMA CopiedFromSection ==
  ASSUME NEW own, NEW sown, Disjoint(own, sown), TypeInv, Safe(own, sown), Recording,
         NEW f \in Files, CopyFile(f)
  PROVE  \/ f \in DocFiles
         \/ \E s \in Sections \ NoInstall : sown[s] = pkg /\ f \in MayCopy(s)
<1>1. cmd = "install" /\ phase \in {"pre", "body", "post", "docs"} /\ f \in todo
  BY DEF CopyFile
<1>2. CASE phase = "docs"
  BY <1>1, <1>2 DEF Recording, Stage, Installing
<1>3. CASE phase \in {"pre", "body", "post"}
  <2>1. InSection
    BY <1>1, <1>3 DEF TypeInv, Progress
  <2>2. Current \in Sections /\ sown[Current] = pkg
    BY <1>1, <2>1, CurrentOwned
  <2>3. /\ phase = "pre" => Current \notin NoInstall /\ f \in Pre[Current]
        /\ phase = "body" => Current \notin Skipped /\ f \in Body[Current]
        /\ phase = "post" => Current \notin Skipped /\ f \in Post[Current]
    BY <1>1 DEF Recording, Stage, Installing
  <2>. QED  BY <1>3, <2>2, <2>3 DEF MayCopy, Skipped
<1>. QED  BY <1>1, <1>2, <1>3

\* The manifest of a package whose release is complete lists its files.
LEMMA AccountedLists ==
  ASSUME NEW sown, CompleteReleases(sown), FromSections(sown),
         NEW p \in Packages, Accounted(p)
  PROVE  /\ FilesOf(p) \subseteq manifest[p] \union DocFiles
         /\ Self \in manifest[p]
<1>1. PICK r \in Whole[p] : \A i \in DOMAIN r : Saved(r[i], manifest[p])
  BY DEF Accounted
<1>2. Self \in manifest[p]
  BY <1>1 DEF CompleteReleases, Saved
<1>3. ASSUME NEW f \in FilesOf(p), f \notin DocFiles PROVE f \in manifest[p]
  <2>1. f \in Files /\ disk[f] = p
    BY DEF FilesOf
  <2>2. PICK s \in Sections \ NoInstall : sown[s] = p /\ f \in MayCopy(s)
    BY <1>3, <2>1 DEF FromSections
  <2>3. f \in UNION {RecordedBy(r[i]) : i \in DOMAIN r}
    BY <1>1, <2>2 DEF CompleteReleases
  <2>. QED  BY <1>1, <2>3 DEF Saved
<1>. QED  BY <1>2, <1>3

\* Accounts of packages that a step does not touch stand.
LEMMA AccountStays ==
  ASSUME NEW p \in Packages, Accounted(p), manifest'[p] = manifest[p]
  PROVE  Accounted(p)'
BY DEF Accounted, Saved

\* Steps of install() keep track of whole packages.
LEMMA InstallTracks ==
  ASSUME NEW own, NEW sown, Disjoint(own, sown), CompleteReleases(sown),
         TypeInv, TypeInv', Safe(own, sown), Recording, Tracking(sown), InstallStep
  PROVE  Tracking(sown)'
<1>. USE DEF TypeInv
<1>1. /\ cmd = "install" /\ stack # <<>> /\ pkg' = pkg /\ pkg \in Packages
      /\ outcome' = outcome /\ cmd' \in {"install", "idle"}
  BY DEF InstallStep, Progress, SkipSection, EnterSection, CopyFile,
         EndPreEmptyLib, EndPreSubdir, EndPre, EndBody, EndPost, TruncateManifest,
         FillManifest, MergeManifest, StartDocs, ReturnToParent, EndInstall, Installing, TypeOK
<1>2. FromSections(sown) /\ WholeAccounted
  BY DEF Tracking
<1>3. RemovalCovers'
  BY <1>1 DEF RemovalCovers, Removing
<1>4. FromSections(sown)'
  <2>1. CASE disk' = disk
    BY <1>2, <2>1 DEF FromSections
  <2>2. ASSUME NEW f \in Files, CopyFile(f) PROVE FromSections(sown)'
    <3>1. disk' = [disk EXCEPT ![f] = pkg] /\ disk \in [Files -> Packages \union {Absent}]
      BY <2>2 DEF CopyFile, TypeOK
    <3>2. \/ f \in DocFiles
          \/ \E s \in Sections \ NoInstall : sown[s] = pkg /\ f \in MayCopy(s)
      BY <2>2, CopiedFromSection
    <3>. QED  BY <1>2, <3>1, <3>2 DEF FromSections
  <2>. QED
    BY <2>1, <2>2 DEF InstallStep, SkipSection, EnterSection, EndPreEmptyLib, EndPreSubdir,
       EndPre, EndBody, EndPost, TruncateManifest, FillManifest, MergeManifest, StartDocs,
       ReturnToParent, EndInstall
<1>5. \A p \in Packages \ {pkg} : manifest'[p] = manifest[p]
  BY DEF InstallStep, SkipSection, EnterSection, CopyFile, EndPreEmptyLib, EndPreSubdir,
     EndPre, EndBody, EndPost, TruncateManifest, FillManifest, MergeManifest, StartDocs,
     ReturnToParent, EndInstall, TypeOK
<1>6. ASSUME NEW p \in Packages \ {pkg}, outcome'[p] = "whole" PROVE Accounted(p)'
  BY <1>1, <1>2, <1>5, <1>6, AccountStays DEF WholeAccounted, Removing
<1>7. ASSUME outcome'[pkg] = "whole", ~EndInstall
      PROVE  cmd' = "install" /\ stack'[1].secs \in Whole[pkg]
  <2>1. stack[1].secs \in Whole[pkg]
    BY <1>1, <1>2, <1>7 DEF WholeAccounted
  <2>. QED  BY <1>1, <1>7, <2>1, RequestStays
<1>8. ASSUME outcome'[pkg] = "whole", EndInstall
      PROVE  cmd' = "idle" /\ Accounted(pkg)'
  <2>1. /\ cmd' = "idle" /\ manifest' = manifest /\ Len(stack) = 1 /\ phase = "docs"
    BY <1>8 DEF EndInstall, Installing
  <2>2. stack[1].secs \in Whole[pkg]
    BY <1>1, <1>2, <1>8 DEF WholeAccounted
  <2>3. stack[1] = Top /\ Top \in Frame /\ ~InSection
    BY <1>1, <2>1, TopFrame DEF Top, Recording, Stage, Installing
  <2>4. ASSUME NEW i \in DOMAIN stack[1].secs PROVE Saved(stack[1].secs[i], manifest[pkg])
    <3>1. Len(Top.secs) \in Nat /\ i \in 1..Len(Top.secs) /\ Top.at \in Nat
      BY <2>3, LenProperties DEF Frame
    <3>2. i \in 1..(Top.at - 1)
      BY <2>3, <3>1 DEF InSection
    <3>. QED  BY <1>1, <2>1, <2>3, <3>2 DEF Recording, SectionsSaved
  <2>5. Accounted(pkg)
    BY <2>2, <2>4 DEF Accounted
  <2>. QED  BY <1>1, <2>1, <2>5, AccountStays
<1>9. WholeAccounted'
  BY <1>1, <1>6, <1>7, <1>8 DEF WholeAccounted
<1>. QED  BY <1>3, <1>4, <1>9 DEF Tracking

\* Steps of uninstall() keep track of whole packages.
LEMMA UninstallTracks ==
  ASSUME NEW own, NEW sown, Disjoint(own, sown), CompleteReleases(sown), WellPlaced,
         TypeInv, TypeInv', Safe(own, sown), Tracking(sown), UninstallStep
  PROVE  Tracking(sown)'
<1>. USE DEF TypeInv
<1>1. cmd = "uninstall" /\ cmd' # "install"
  BY DEF UninstallStep, EndUninstall, NotInstalled, ReadManifest, RemoveManifest,
         RemoveFile, NextTool
<1>2. FromSections(sown) /\ WholeAccounted /\ RemovalCovers
  BY DEF Tracking
<1>3. \A p \in Packages : outcome[p] = "whole" => Removing(p) \/ Accounted(p)
  BY <1>1, <1>2 DEF WholeAccounted
<1>4. CASE EndUninstall \/ NotInstalled
  <2>1. /\ UNCHANGED <<disk, manifest, outcome>> /\ cmd' = "idle" /\ phase = "enter"
    BY <1>4 DEF EndUninstall, NotInstalled
  <2>2. \A p \in Packages : outcome'[p] = "whole" => Accounted(p)'
    BY <1>3, <2>1, AccountStays DEF Removing
  <2>3. WholeAccounted'
    BY <1>1, <2>2 DEF WholeAccounted
  <2>4. RemovalCovers'
    BY <2>1 DEF RemovalCovers, Removing
  <2>5. FromSections(sown)'
    BY <1>2, <2>1 DEF FromSections
  <2>. QED  BY <2>3, <2>4, <2>5 DEF Tracking
<1>5. CASE ReadManifest
  <2>1. /\ UNCHANGED <<disk, manifest, outcome, cmd>> /\ phase = "enter" /\ phase' = "remove"
        /\ pkg' = Head(tools) /\ pkg' \in Packages /\ todo' = manifest[pkg']
    BY <1>5, HeadTailProperties DEF ReadManifest, TypeOK
  <2>2. \A p \in Packages : outcome'[p] = "whole" => Accounted(p) /\ Accounted(p)'
    BY <1>3, <2>1, AccountStays DEF Removing
  <2>3. WholeAccounted'
    BY <1>1, <2>2 DEF WholeAccounted
  <2>4. RemovalCovers'
    <3>1. ASSUME outcome'[pkg'] = "whole"
          PROVE  Self \in todo' /\ FilesOf(pkg') \subseteq todo' \union DocFiles
      BY <1>2, <2>1, <2>2, <3>1, AccountedLists
    <3>. QED  BY <2>1, <3>1 DEF RemovalCovers, Removing, FilesOf
  <2>5. FromSections(sown)'
    BY <1>2, <2>1 DEF FromSections
  <2>. QED  BY <2>3, <2>4, <2>5 DEF Tracking
<1>6. CASE RemoveManifest
  <2>1. /\ UNCHANGED <<disk, outcome, cmd, pkg, phase>> /\ phase = "remove"
        /\ todo' = todo \ {Self} /\ manifest' = [manifest EXCEPT ![pkg] = NoManifest]
        /\ pkg \in Packages
    BY <1>6 DEF RemoveManifest, WellPlaced, TypeOK
  <2>2. \A p \in Packages : outcome'[p] = "whole" => Removing(p)' \/ Accounted(p)'
    <3>. TAKE p \in Packages
    <3>1. CASE p = pkg
      BY <1>1, <2>1, <3>1 DEF Removing
    <3>2. CASE p # pkg
      <4>1. manifest'[p] = manifest[p]
        BY <2>1, <3>2 DEF TypeOK
      <4>. QED  BY <1>3, <2>1, <3>2, <4>1, AccountStays DEF Removing
    <3>. QED  BY <3>1, <3>2
  <2>3. WholeAccounted'
    BY <1>1, <2>2 DEF WholeAccounted
  <2>4. RemovalCovers'
    <3>1. manifest'[pkg] = NoManifest
      BY <2>1 DEF TypeOK
    <3>2. Self \notin Files
      BY PackagesAssumption
    <3>. QED  BY <1>1, <1>2, <2>1, <3>1, <3>2 DEF RemovalCovers, Removing, FilesOf
  <2>5. FromSections(sown)'
    BY <1>2, <2>1 DEF FromSections
  <2>. QED  BY <2>3, <2>4, <2>5 DEF Tracking
<1>7. ASSUME NEW f \in Files, RemoveFile(f) PROVE Tracking(sown)'
  <2>1. /\ UNCHANGED <<manifest, outcome, cmd, pkg, phase>> /\ phase = "remove"
        /\ todo' = todo \ {f} /\ Self \notin todo
        /\ disk' = IF f \in Undeletable THEN disk ELSE [disk EXCEPT ![f] = Absent]
    BY <1>7 DEF RemoveFile
  <2>2. WholeAccounted'
    BY <1>1, <1>3, <2>1, AccountStays DEF WholeAccounted, Removing
  <2>3. \A e \in Files : disk'[e] # Absent => disk'[e] = disk[e]
    BY <2>1 DEF TypeOK
  <2>4. FromSections(sown)'
    BY <1>2, <2>3, PackagesAssumption DEF FromSections
  <2>5. f \notin Undeletable => disk'[f] = Absent
    BY <2>1 DEF TypeOK
  <2>6. ASSUME NEW p \in Packages PROVE FilesOf(p)' \subseteq FilesOf(p)
                                     /\ (f \in FilesOf(p)' => f \in Undeletable)
    BY <2>3, <2>5, PackagesAssumption DEF FilesOf
  <2>7. RemovalCovers'
    BY <1>2, <2>1, <2>6 DEF RemovalCovers, Removing
  <2>. QED  BY <2>2, <2>4, <2>7 DEF Tracking
<1>8. CASE NextTool
  <2>1. /\ UNCHANGED <<disk, manifest, cmd, pkg>> /\ phase' = "enter"
        /\ outcome' = [outcome EXCEPT ![pkg] = "none"] /\ pkg \in Packages
    BY <1>8 DEF NextTool, TypeOK
  <2>2. \A p \in Packages : outcome'[p] = "whole" => p # pkg /\ outcome[p] = "whole"
    BY <2>1 DEF TypeOK
  <2>3. WholeAccounted'
    BY <1>1, <1>3, <2>1, <2>2, AccountStays DEF WholeAccounted, Removing
  <2>4. RemovalCovers'
    BY <2>1 DEF RemovalCovers, Removing
  <2>5. FromSections(sown)'
    BY <1>2, <2>1 DEF FromSections
  <2>. QED  BY <2>3, <2>4, <2>5 DEF Tracking
<1>. QED  BY <1>4, <1>5, <1>6, <1>7, <1>8 DEF UninstallStep

\* Tracking is inductive, given the rest.
LEMMA NextTracks ==
  ASSUME NEW own, NEW sown, Disjoint(own, sown), CompleteReleases(sown), WellPlaced,
         TypeInv, TypeInv', Safe(own, sown), Recording, Tracking(sown), [Next]_vars
  PROVE  Tracking(sown)'
<1>1. ASSUME NEW p \in Packages, NEW r \in Whole[p] \union Some[p], Install(p, r)
      PROVE  Tracking(sown)'
  <2>1. /\ UNCHANGED <<disk, manifest>> /\ cmd = "idle" /\ cmd' = "install" /\ pkg' = p
        /\ stack' = <<Call(p, r)>>
        /\ outcome' = [outcome EXCEPT ![p] = IF r \in Whole[p] THEN "whole" ELSE "some"]
    BY <1>1 DEF Install
  <2>2. stack'[1].secs = r
    BY <2>1 DEF Call
  <2>3. \A q \in Packages \ {p} : outcome'[q] = "whole" => Accounted(q)'
    BY <2>1, AccountStays DEF Tracking, WholeAccounted, Removing, TypeInv, TypeOK
  <2>4. outcome'[p] = "whole" => r \in Whole[p]
    BY <2>1 DEF TypeInv, TypeOK
  <2>5. WholeAccounted'
    BY <2>1, <2>2, <2>3, <2>4 DEF WholeAccounted
  <2>. QED  BY <2>1, <2>5 DEF Tracking, FromSections, RemovalCovers, Removing
<1>2. ASSUME NEW list, Uninstall(list) PROVE Tracking(sown)'
  <2>1. /\ UNCHANGED <<disk, manifest, outcome, pkg>> /\ cmd = "idle" /\ cmd' = "uninstall"
        /\ phase' = "enter"
    BY <1>2 DEF Uninstall
  <2>2. \A q \in Packages : outcome'[q] = "whole" => Accounted(q)'
    BY <2>1, AccountStays DEF Tracking, WholeAccounted, Removing
  <2>3. WholeAccounted'
    BY <2>1, <2>2 DEF WholeAccounted
  <2>. QED  BY <2>1, <2>3 DEF Tracking, FromSections, RemovalCovers, Removing
<1>3. CASE Die
  <2>1. /\ UNCHANGED <<disk, manifest, pkg>> /\ cmd' = "idle" /\ pkg \in Packages
        /\ cmd \in {"install", "uninstall"}
    BY <1>3 DEF Die, TypeInv, TypeOK
  <2>2. /\ \A q \in Packages \ {pkg} : outcome'[q] = outcome[q]
        /\ outcome'[pkg] = "whole" => outcome[pkg] = "whole" /\ cmd # "install" /\ phase # "remove"
    BY <1>3, <2>1 DEF Die, TypeInv, TypeOK
  <2>3. \A q \in Packages : outcome'[q] = "whole" => Accounted(q)'
    BY <2>1, <2>2, AccountStays DEF Tracking, WholeAccounted, Removing
  <2>4. WholeAccounted'
    BY <2>1, <2>3 DEF WholeAccounted
  <2>. QED  BY <2>1, <2>4 DEF Tracking, FromSections, RemovalCovers, Removing
<1>4. CASE UNCHANGED vars
  BY <1>4 DEF vars, Tracking, FromSections, WholeAccounted, RemovalCovers, Removing,
     Accounted, Saved, FilesOf
<1>. QED
  BY <1>1, <1>2, <1>3, <1>4, InstallTracks, UninstallTracks DEF Next, Undisturbed, Command

LEMMA TrackingAlways ==
  ASSUME NEW own, NEW sown, Disjoint(own, sown), CompleteReleases(sown), WellPlaced
  PROVE  Spec => []Tracking(sown)
<1>1. Init => Tracking(sown)
  BY PackagesAssumption
     DEF Init, Tracking, FromSections, WholeAccounted, RemovalCovers, Removing
<1>2. TypeInv /\ TypeInv' /\ Safe(own, sown) /\ Recording /\ Tracking(sown) /\ [Next]_vars
        => Tracking(sown)'
  BY NextTracks
<1>. QED  BY <1>1, <1>2, TypeCorrect, SafeAlways, RecordingAlways, PTL DEF Spec

\* After an install of a whole package, whatever was installed, removed or died
\* before it, the manifest lists every file of the package but documentation:
\* a package installed whole can be uninstalled.
THEOREM WholeTracked == WellReleased => (Spec => []WholeInstallIsTracked)
<1>. SUFFICES ASSUME WellReleased PROVE Spec => []WholeInstallIsTracked
  OBVIOUS
<1>1. PICK own \in [Files -> Packages], sown \in [Sections -> Packages] :
        Disjoint(own, sown) /\ CompleteReleases(sown)
  BY DEF WellReleased
<1>2. WellPlaced
  BY DEF WellReleased
<1>3. Spec => []Tracking(sown)
  BY <1>1, <1>2, TrackingAlways
<1>4. TypeInv /\ Tracking(sown) => WholeInstallIsTracked
  <2>. SUFFICES ASSUME TypeInv, Tracking(sown), NEW p \in Packages,
                       outcome[p] = "whole", Idle(p)
                PROVE  \A f \in FilesOf(p) : f \in manifest[p] \union DocFiles
    BY DEF WholeInstallIsTracked
  <2>1. Accounted(p)
    BY DEF Tracking, WholeAccounted, Idle, Removing
  <2>2. FromSections(sown)
    BY DEF Tracking
  <2>. QED  BY <1>1, <2>1, <2>2, AccountedLists
<1>. QED  BY <1>3, <1>4, TypeCorrect, PTL

\* Uninstalling a package that was installed whole removes its manifest and all
\* of its files but documentation and what cannot be deleted.
THEOREM WholeRemoved == WellReleased => (Spec => UninstallRemovesWhole)
<1>. SUFFICES ASSUME WellReleased PROVE Spec => UninstallRemovesWhole
  OBVIOUS
<1>1. PICK own \in [Files -> Packages], sown \in [Sections -> Packages] :
        Disjoint(own, sown) /\ CompleteReleases(sown)
  BY DEF WellReleased
<1>2. WellPlaced
  BY DEF WellReleased
<1>3. Spec => []Tracking(sown)
  BY <1>1, <1>2, TrackingAlways
<1>. DEFINE Gone == \A p \in Packages : outcome[p] = "whole" /\ outcome'[p] = "none" =>
                      /\ manifest'[p] = NoManifest
                      /\ \A f \in Files : disk'[f] = p => f \in DocFiles \union Undeletable
<1>4. TypeInv /\ Tracking(sown) /\ [Next]_vars => Gone
  <2>. SUFFICES ASSUME TypeInv, Tracking(sown), [Next]_vars, NEW p \in Packages,
                       outcome[p] = "whole", outcome'[p] = "none"
                PROVE  /\ manifest'[p] = NoManifest
                       /\ \A f \in Files : disk'[f] = p => f \in DocFiles \union Undeletable
    OBVIOUS
  <2>1. NextTool /\ p = pkg
    <3>1. CASE outcome' = outcome
      BY <3>1
    <3>2. ASSUME NEW q \in Packages, NEW r \in Whole[q] \union Some[q], Install(q, r)
          PROVE  FALSE
      BY <3>2 DEF Install, TypeInv, TypeOK
    <3>3. CASE Die
      BY <3>3 DEF Die, TypeInv, TypeOK
    <3>4. CASE NextTool
      BY <3>4 DEF NextTool, TypeInv, TypeOK
    <3>. QED
      BY <3>1, <3>2, <3>3, <3>4
         DEF Next, vars, Undisturbed, Command, InstallStep, UninstallStep, Uninstall,
             SkipSection, EnterSection, CopyFile, EndPreEmptyLib, EndPreSubdir, EndPre,
             EndBody, EndPost, TruncateManifest, FillManifest, MergeManifest, StartDocs,
             ReturnToParent, EndInstall, EndUninstall, NotInstalled, ReadManifest,
             RemoveManifest, RemoveFile
  <2>2. /\ Removing(p) /\ todo = {} /\ manifest' = manifest /\ disk' = disk
    BY <2>1 DEF NextTool, Removing
  <2>3. manifest[p] = NoManifest /\ FilesOf(p) \subseteq DocFiles \union Undeletable
    BY <2>2 DEF Tracking, RemovalCovers
  <2>. QED  BY <2>2, <2>3 DEF FilesOf
<1>5. Spec => [][Gone]_vars
  BY <1>3, <1>4, TypeCorrect, PTL DEF Spec
<1>. QED  BY <1>5 DEF UninstallRemovesWhole

-----------------------------------------------------------------------------
(* Entries of a manifest, and the paths they stand for. *)

\* Append and concatenation.
LEMMA AppendAfter ==
  ASSUME NEW S, NEW s \in Seq(S), NEW t \in Seq(S), NEW e \in S
  PROVE  s \o Append(t, e) = Append(s \o t, e)
<1>1. Len(s) \in Nat /\ Len(t) \in Nat
  BY LenProperties
<1>2. /\ s \o t \in Seq(S) /\ Len(s \o t) = Len(s) + Len(t)
      /\ \A i \in 1..(Len(s) + Len(t)) : (s \o t)[i] = IF i <= Len(s) THEN s[i] ELSE t[i - Len(s)]
  BY ConcatProperties
<1>3. /\ Append(t, e) \in Seq(S) /\ Len(Append(t, e)) = Len(t) + 1
      /\ \A i \in 1..Len(t) : Append(t, e)[i] = t[i]
      /\ Append(t, e)[Len(t) + 1] = e
  BY AppendProperties
<1>. DEFINE left == s \o Append(t, e)
            right == Append(s \o t, e)
            long == Len(s) + Len(t) + 1
<1>4. /\ left \in Seq(S) /\ Len(left) = Len(s) + Len(Append(t, e))
      /\ \A i \in 1..(Len(s) + Len(Append(t, e))) :
           left[i] = IF i <= Len(s) THEN s[i] ELSE Append(t, e)[i - Len(s)]
  BY <1>3, ConcatProperties
<1>5. /\ right \in Seq(S) /\ Len(right) = Len(s \o t) + 1
      /\ \A i \in 1..Len(s \o t) : right[i] = (s \o t)[i]
      /\ right[Len(s \o t) + 1] = e
  BY <1>2, AppendProperties
<1>. HIDE DEF left, right
<1>6. Len(left) = long /\ Len(right) = long
  BY <1>1, <1>2, <1>3, <1>4, <1>5
<1>7. ASSUME NEW i \in 1..long PROVE left[i] = right[i]
  <2>1. CASE i = long
    <3>1. left[i] = Append(t, e)[Len(t) + 1]
      <4>1. ~(i <= Len(s)) /\ i - Len(s) = Len(t) + 1 /\ i \in 1..(Len(s) + Len(Append(t, e)))
        BY <1>1, <1>3, <2>1
      <4>. QED  BY <1>4, <4>1
    <3>2. right[i] = e
      BY <1>2, <1>5, <2>1
    <3>. QED  BY <1>3, <3>1, <3>2
  <2>2. CASE i # long
    <3>1. i \in 1..(Len(s) + Len(t)) /\ i \in 1..(Len(s) + Len(Append(t, e)))
      BY <1>1, <1>3, <1>7, <2>2
    <3>2. right[i] = IF i <= Len(s) THEN s[i] ELSE t[i - Len(s)]
      BY <1>2, <1>5, <3>1
    <3>3. left[i] = IF i <= Len(s) THEN s[i] ELSE Append(t, e)[i - Len(s)]
      BY <1>4, <3>1
    <3>4. ~(i <= Len(s)) => i - Len(s) \in 1..Len(t)
      BY <1>1, <3>1
    <3>. QED  BY <1>3, <3>2, <3>3, <3>4
  <2>. QED  BY <2>1, <2>2
<1>8. left = right
  <2>1. \A i \in 1..Len(left) : left[i] = right[i]
    BY <1>6, <1>7
  <2>. QED  BY <1>4, <1>5, <1>6, <2>1, SeqEqual
<1>. QED  BY <1>8 DEF left, right

\* What IsPrefix says of the elements.
LEMMA PrefixElements ==
  ASSUME NEW S, NEW s \in Seq(S), NEW t \in Seq(S)
  PROVE  IsPrefix(s, t) <=> Len(s) <= Len(t) /\ \A i \in 1..Len(s) : s[i] = t[i]
<1>1. CASE ~(Len(s) <= Len(t))
  BY <1>1 DEF IsPrefix
<1>2. CASE Len(s) <= Len(t)
  <2>1. Len(s) \in Nat /\ Len(t) \in Nat /\ 1..Len(s) \subseteq 1..Len(t)
    BY <1>2, LenProperties
  <2>2. /\ \A i \in 1..Len(s) : s[i] \in S
        /\ \A i \in 1..Len(t) : t[i] \in S
    BY ElementOfSeq
  <2>3. SubSeq(s, 1, Len(s)) = s
    BY SubSeqFull
  <2>4. /\ SubSeq(t, 1, Len(s)) \in Seq(S)
        /\ Len(SubSeq(t, 1, Len(s))) = Len(s)
        /\ \A i \in 1..Len(s) : SubSeq(t, 1, Len(s))[i] = t[i]
    <3>1. \A i \in 1..Len(s) : t[i] \in S
      BY <2>1, <2>2
    <3>2. /\ SubSeq(t, 1, Len(s)) \in Seq(S)
          /\ Len(SubSeq(t, 1, Len(s))) = IF 1 <= Len(s) THEN Len(s) - 1 + 1 ELSE 0
          /\ \A i \in 1..(Len(s) - 1 + 1) : SubSeq(t, 1, Len(s))[i] = t[1 + i - 1]
      BY <2>1, <3>1, SubSeqProperties
    <3>. QED  BY <2>1, <3>2
  <2>5. SubSeq(t, 1, Len(s)) = s <=> \A i \in 1..Len(s) : s[i] = t[i]
    <3>1. ASSUME \A i \in 1..Len(s) : s[i] = t[i] PROVE SubSeq(t, 1, Len(s)) = s
      BY <2>4, <3>1, SeqEqual
    <3>2. ASSUME SubSeq(t, 1, Len(s)) = s, NEW i \in 1..Len(s) PROVE s[i] = t[i]
      BY <2>4, <3>2
    <3>. QED  BY <3>1, <3>2
  <2>. QED  BY <1>2, <2>3, <2>5 DEF IsPrefix
<1>. QED  BY <1>1, <1>2

\* A path that continues another is that path and what comes after it.
LEMMA PrefixAndRest ==
  ASSUME NEW S, NEW s \in Seq(S), NEW t \in Seq(S), IsPrefix(s, t)
  PROVE  /\ SubSeq(t, Len(s) + 1, Len(t)) \in Seq(S)
         /\ Len(SubSeq(t, Len(s) + 1, Len(t))) = Len(t) - Len(s)
         /\ Len(s) < Len(t) => SubSeq(t, Len(s) + 1, Len(t))[1] = t[Len(s) + 1]
         /\ s \o SubSeq(t, Len(s) + 1, Len(t)) = t
<1>. DEFINE rest == SubSeq(t, Len(s) + 1, Len(t))
<1>1. Len(s) \in Nat /\ Len(t) \in Nat /\ Len(s) <= Len(t)
  BY LenProperties DEF IsPrefix
<1>2. \A i \in 1..Len(s) : s[i] = t[i]
  BY PrefixElements
<1>3. /\ rest \in Seq(S)
      /\ Len(rest) = Len(t) - Len(s)
      /\ \A i \in 1..(Len(t) - Len(s)) : rest[i] = t[Len(s) + i]
  <2>1. \A i \in (Len(s) + 1)..Len(t) : t[i] \in S
    BY <1>1, ElementOfSeq
  <2>2. /\ rest \in Seq(S)
        /\ Len(rest) = IF Len(s) + 1 <= Len(t) THEN Len(t) - (Len(s) + 1) + 1 ELSE 0
        /\ \A i \in 1..(Len(t) - (Len(s) + 1) + 1) : rest[i] = t[Len(s) + 1 + i - 1]
    BY <1>1, <2>1, SubSeqProperties
  <2>. HIDE DEF rest
  <2>. QED  BY <1>1, <2>2
<1>. HIDE DEF rest
<1>4. Len(s) < Len(t) => rest[1] = t[Len(s) + 1]
  BY <1>1, <1>3
<1>5. /\ s \o rest \in Seq(S)
      /\ Len(s \o rest) = Len(s) + Len(rest)
      /\ \A i \in 1..(Len(s) + Len(rest)) :
           (s \o rest)[i] = IF i <= Len(s) THEN s[i] ELSE rest[i - Len(s)]
  BY <1>3, ConcatProperties
<1>6. ASSUME NEW i \in 1..Len(t) PROVE (s \o rest)[i] = t[i]
  BY <1>1, <1>2, <1>3, <1>5
<1>7. s \o rest = t
  <2>1. Len(s \o rest) = Len(t)
    BY <1>1, <1>3, <1>5
  <2>. QED  BY <1>5, <1>6, <2>1, SeqEqual
<1>. QED  BY <1>3, <1>4, <1>7 DEF rest

\* What stands before the separator of an absolute path, and between two.
Nothing == ""

LEMMA AbsoluteBegins == \A p : Absolute(p) <=> Len(p) > 1 /\ Head(p) = Nothing
BY DEF Absolute, Nothing

\* The entry that install records for a file copied to an absolute directory is
\* read back by uninstall as the path it was copied to, unless the directory has
\* one more separator where --prefix ends; and then it never is.
THEOREM EntriesStandForPaths ==
  ASSUME NEW S, Nothing \in S, NEW forcePrefix \in Seq(S), forcePrefix # <<>>,
         NEW dir \in Seq(S), Absolute(dir), NEW file \in S
  PROVE  EntryPath(forcePrefix, Entry(forcePrefix, dir, file)) = Append(dir, file)
           <=> ~IsPrefix(Append(forcePrefix, Nothing), dir)
<1>. DEFINE rest == SubSeq(dir, Len(forcePrefix) + 1, Len(dir))
            doubled == Append(forcePrefix, Nothing)
<1>1. /\ Len(forcePrefix) \in Nat /\ Len(forcePrefix) > 0
      /\ Len(dir) \in Nat /\ Len(dir) > 1 /\ dir[1] = Nothing
  <2>1. Len(forcePrefix) \in Nat /\ Len(dir) \in Nat /\ Len(forcePrefix) > 0
    BY LenProperties, EmptySeq
  <2>2. Len(dir) > 1 /\ Head(dir) = Nothing
    BY AbsoluteBegins
  <2>. QED  BY <2>1, <2>2
<1>2. /\ doubled \in Seq(S) /\ Len(doubled) = Len(forcePrefix) + 1
      /\ \A i \in 1..Len(forcePrefix) : doubled[i] = forcePrefix[i]
      /\ doubled[Len(forcePrefix) + 1] = Nothing
  BY AppendProperties
<1>3. /\ Append(dir, file) \in Seq(S) /\ Len(Append(dir, file)) = Len(dir) + 1
      /\ Append(dir, file)[1] = Nothing
  BY <1>1, AppendProperties
<1>4. Absolute(Append(dir, file))
  <2>1. Len(Append(dir, file)) > 1 /\ Head(Append(dir, file)) = Nothing
    BY <1>1, <1>3
  <2>. QED  BY <2>1, AbsoluteBegins
<1>. HIDE DEF rest, doubled
<1>5. IsPrefix(doubled, dir) <=>
        /\ IsPrefix(forcePrefix, dir) /\ Len(forcePrefix) < Len(dir)
        /\ dir[Len(forcePrefix) + 1] = Nothing
  <2>1. IsPrefix(doubled, dir) <=>
          Len(doubled) <= Len(dir) /\ \A i \in 1..Len(doubled) : doubled[i] = dir[i]
    BY <1>2, PrefixElements
  <2>2. IsPrefix(forcePrefix, dir) <=>
          /\ Len(forcePrefix) <= Len(dir)
          /\ \A i \in 1..Len(forcePrefix) : forcePrefix[i] = dir[i]
    BY PrefixElements
  <2>3. 1..Len(doubled) = 1..Len(forcePrefix) \union {Len(forcePrefix) + 1}
    BY <1>1, <1>2
  <2>. QED  BY <1>1, <1>2, <2>1, <2>2, <2>3
<1>6. CASE ~IsStrictPrefix(forcePrefix, dir)
  <2>1. ~IsPrefix(doubled, dir)
    BY <1>1, <1>5, <1>6 DEF IsStrictPrefix
  <2>2. Entry(forcePrefix, dir, file) = Append(dir, file)
    BY <1>6 DEF Entry
  <2>. QED  BY <1>4, <2>1, <2>2 DEF EntryPath, doubled
<1>7. CASE IsStrictPrefix(forcePrefix, dir)
  <2>1. IsPrefix(forcePrefix, dir) /\ forcePrefix # dir
    BY <1>7 DEF IsStrictPrefix
  <2>2. /\ rest \in Seq(S) /\ Len(rest) = Len(dir) - Len(forcePrefix)
        /\ forcePrefix \o rest = dir
        /\ Len(forcePrefix) < Len(dir) => rest[1] = dir[Len(forcePrefix) + 1]
    BY <2>1, PrefixAndRest DEF rest
  <2>3. Len(forcePrefix) < Len(dir)
    <3>1. /\ Len(forcePrefix) <= Len(dir)
          /\ \A i \in 1..Len(forcePrefix) : forcePrefix[i] = dir[i]
      BY <2>1, PrefixElements
    <3>2. Len(forcePrefix) # Len(dir)
      BY <2>1, <3>1, SeqEqual
    <3>. QED  BY <1>1, <3>1, <3>2
  <2>4. /\ Append(rest, file) \in Seq(S) /\ Len(Append(rest, file)) = Len(rest) + 1
        /\ Append(rest, file)[1] = dir[Len(forcePrefix) + 1]
    BY <1>1, <2>2, <2>3, AppendProperties
  <2>5. Entry(forcePrefix, dir, file) = Append(rest, file)
    BY <1>7 DEF Entry, rest
  <2>6. Absolute(Append(rest, file)) <=> IsPrefix(doubled, dir)
    <3>1. Len(Append(rest, file)) > 1
      BY <1>1, <2>2, <2>3, <2>4
    <3>2. Head(Append(rest, file)) = dir[Len(forcePrefix) + 1]
      BY <2>4, <3>1
    <3>. QED  BY <1>5, <2>1, <2>3, <3>1, <3>2, AbsoluteBegins
  <2>7. CASE IsPrefix(doubled, dir)
    <3>1. EntryPath(forcePrefix, Entry(forcePrefix, dir, file)) = Append(rest, file)
      BY <2>5, <2>6, <2>7 DEF EntryPath
    <3>2. Append(rest, file) # Append(dir, file)
      BY <1>1, <1>3, <2>2, <2>4
    <3>. QED  BY <2>7, <3>1, <3>2 DEF doubled
  <2>8. CASE ~IsPrefix(doubled, dir)
    <3>1. EntryPath(forcePrefix, Entry(forcePrefix, dir, file)) = forcePrefix \o Append(rest, file)
      BY <2>5, <2>6, <2>8 DEF EntryPath
    <3>2. forcePrefix \o Append(rest, file) = Append(forcePrefix \o rest, file)
      <4>1. rest \in Seq(S)
        BY <2>2
      <4>. QED  BY <4>1, AppendAfter
    <3>. QED  BY <2>2, <2>8, <3>1, <3>2 DEF doubled
  <2>. QED  BY <2>7, <2>8
<1>. QED  BY <1>6, <1>7

\* So whatever is copied comes back as the place it was copied to, wherever
\* --prefix and --bindir point.
THEOREM CopiesComeBack ==
  ASSUME NEW S, {Nothing, "file"} \subseteq S, CanonicalDirs(S)
  PROVE  EntriesComeBack
<1>1. ASSUME NEW p \in {q \in Dirs : Absolute(q)}, NEW dir \in {q \in Dirs : Absolute(q)}
      PROVE  \/ IsPrefix(Append(canonPath(p), Nothing), dir)
             \/ EntryPath(canonPath(p), Entry(canonPath(p), dir, "file")) = Append(dir, "file")
  <2>1. canonPath(p) \in Seq(S) /\ canonPath(p) # <<>> /\ dir \in Seq(S) /\ Absolute(dir)
    BY DEF CanonicalDirs
  <2>2. Nothing \in S /\ "file" \in S
    OBVIOUS
  <2>. QED  BY <2>1, <2>2, EntriesStandForPaths
<1>. QED  BY Zenon, <1>1 DEF EntriesComeBack, Nothing

=============================================================================
