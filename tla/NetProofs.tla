------------------------------ MODULE NetProofs ------------------------------
(***************************************************************************)
(* What is proved of Net for any packages whose dependencies have no       *)
(* circle: the installations of dependencies nest without touching each    *)
(* other, only the package that was asked for is ever replaced, and what a *)
(* package imports is installed before it is built.                        *)
(***************************************************************************)
EXTENDS Net, SequenceTheorems, TLAPS

\* What a package needs ranks below it, but for itself.
Ranks(rank) ==
  /\ rank \in [Projects -> Nat]
  /\ \A p \in Projects : \A d \in (Uses[p] \union Requires[p]) \ {p} : rank[d] < rank[p]

Acyclic == \E rank : Ranks(rank)

\* A call has its sources, asserts what ranks below its package, and is the
\* outermost if it is the user's "net deps".
Sound(f, rank) ==
  /\ Fits(f) /\ (f.pkg = Here => f.src = 0)
  /\ f.src # 0 => f.src \in scratch[f.pkg]
  /\ \A d \in f.todo : rank[d] < rank[f.pkg]

\* Inner calls are for packages that rank lower and are not installed.
Descending(rank) ==
  \A i \in 1..Len(stack) : \A j \in 1..Len(stack) :
    i < j => /\ rank[stack[j].pkg] < rank[stack[i].pkg]
             /\ stack[j].pkg \in Packages /\ installed[stack[j].pkg] = 0

Inv(rank) ==
  /\ TypeOK
  /\ stack # <<>> => cmd.state = "run" /\ stack[1].pkg = cmd.pkg
  /\ \A i \in 1..Len(stack) : Sound(stack[i], rank)
  /\ Descending(rank)

-----------------------------------------------------------------------------
(* The stack of calls. *)

\* The innermost call is a call, and it is on the stack.
LEMMA TopFrame ==
  ASSUME stack \in Seq(Frames), stack # <<>>
  PROVE  Len(stack) \in Nat \ {0} /\ Len(stack) \in 1..Len(stack) /\ Top \in Frames
BY EmptySeq, LenProperties, ElementOfSeq DEF Top

\* A new innermost call in place of the old one.
LEMMA Replaced ==
  ASSUME stack \in Seq(Frames), stack # <<>>, NEW g \in Frames
  PROVE  LET s == [stack EXCEPT ![Len(stack)] = g] IN
         /\ s \in Seq(Frames) /\ Len(s) = Len(stack) /\ s # <<>>
         /\ \A i \in 1..Len(stack) : s[i] = IF i = Len(stack) THEN g ELSE stack[i]
BY TopFrame, ExceptSeq, EmptySeq, LenProperties

\* A further call.
LEMMA Pushed ==
  ASSUME NEW s \in Seq(Frames), NEW h \in Frames
  PROVE  /\ Append(s, h) \in Seq(Frames) /\ Len(Append(s, h)) = Len(s) + 1
         /\ Append(s, h) # <<>>
         /\ \A i \in 1..Len(s) : Append(s, h)[i] = s[i]
         /\ Append(s, h)[Len(s) + 1] = h
BY AppendProperties, EmptySeq, LenProperties

\* The innermost call gone.
LEMMA Popped ==
  ASSUME stack \in Seq(Frames), stack # <<>>
  PROVE  /\ Front(stack) \in Seq(Frames) /\ Len(Front(stack)) = Len(stack) - 1
         /\ \A i \in 1..(Len(stack) - 1) : Front(stack)[i] = stack[i]
         /\ Front(stack) # <<>> => Len(stack) - 1 \in Nat \ {0}
<1>1. Len(stack) \in Nat \ {0}
  BY TopFrame
<1>2. PICK n \in Nat : n = Len(stack) - 1
  BY <1>1
<1>3. Front(stack) = SubSeq(stack, 1, n)
  BY <1>2 DEF Front
<1>4. \A i \in 1..n : stack[i] \in Frames
  BY <1>1, <1>2, ElementOfSeq
<1>5. /\ Front(stack) \in Seq(Frames) /\ Len(Front(stack)) = n
      /\ \A i \in 1..n : Front(stack)[i] = stack[i]
  BY <1>3, <1>4, SubSeqProperties
<1>. QED  BY <1>2, <1>5, EmptySeq

-----------------------------------------------------------------------------
(* Each way the stack can change keeps the invariant. *)

\* No call runs.
LEMMA NoCalls ==
  ASSUME NEW rank, TypeOK', stack' = <<>>
  PROVE  Inv(rank)'
BY EmptySeq, LenProperties DEF Inv, Descending

\* The innermost call goes on for the same package.
LEMMA Continues ==
  ASSUME NEW rank \in [Projects -> Nat], Inv(rank), TypeOK', stack # <<>>,
         NEW g \in Frames, stack' = [stack EXCEPT ![Len(stack)] = g], g.pkg = Top.pkg,
         cmd' = cmd, Sound(g, rank)',
         \A p \in Projects : scratch[p] \subseteq scratch'[p],
         \A p \in Packages : installed[p] = 0 => installed'[p] = 0
  PROVE  Inv(rank)'
<1>1. stack \in Seq(Frames)
  BY DEF Inv, TypeOK
<1>2. /\ Len(stack') = Len(stack) /\ stack' # <<>> /\ Len(stack) \in Nat \ {0}
      /\ \A i \in 1..Len(stack) : stack'[i] = IF i = Len(stack) THEN g ELSE stack[i]
  BY <1>1, Replaced, TopFrame
<1>3. \A i \in 1..Len(stack) : stack'[i].pkg = stack[i].pkg /\ stack[i] \in Frames
  BY <1>1, <1>2, ElementOfSeq DEF Top
<1>4. cmd'.state = "run" /\ stack'[1].pkg = cmd'.pkg
  <2>1. cmd.state = "run" /\ stack[1].pkg = cmd.pkg
    BY DEF Inv
  <2>2. 1 \in 1..Len(stack)
    BY <1>2
  <2>3. stack'[1].pkg = stack[1].pkg
    BY <1>3, <2>2
  <2>. QED  BY <2>1, <2>3
<1>5. \A i \in 1..Len(stack') : Sound(stack[i], rank)'
  <2>. SUFFICES ASSUME NEW i \in 1..Len(stack) PROVE Sound(stack[i], rank)'
    BY <1>2
  <2>1. CASE i = Len(stack)
    BY <2>1, <1>2 DEF Sound
  <2>2. CASE i # Len(stack)
    <3>1. stack'[i] = stack[i]
      BY <2>2, <1>2
    <3>2. Sound(stack[i], rank)
      BY DEF Inv
    <3>3. stack[i].pkg \in Projects
      BY <1>3 DEF Frames
    <3>. QED  BY <3>1, <3>2, <3>3 DEF Sound
  <2>. QED  BY <2>1, <2>2
<1>6. Descending(rank)'
  <2>. SUFFICES ASSUME NEW i \in 1..Len(stack), NEW j \in 1..Len(stack), i < j
                PROVE  /\ rank[stack'[j].pkg] < rank[stack'[i].pkg]
                       /\ stack'[j].pkg \in Packages /\ installed'[stack'[j].pkg] = 0
    BY <1>2 DEF Descending
  <2>1. stack'[i].pkg = stack[i].pkg /\ stack'[j].pkg = stack[j].pkg
    BY <1>3
  <2>. QED  BY <2>1 DEF Inv, Descending
<1>. QED  BY <1>4, <1>5, <1>6 DEF Inv

\* A call for a package that the innermost has to assert, and that is missing.
LEMMA Calls ==
  ASSUME NEW rank \in [Projects -> Nat], Inv(rank), TypeOK', stack # <<>>,
         NEW g \in Frames, g.pkg = Top.pkg, Sound(g, rank),
         NEW d \in Top.todo, installed[d] = 0,
         stack' = Append([stack EXCEPT ![Len(stack)] = g], Frame(d, "sources")),
         UNCHANGED <<installed, scratch, cmd>>
  PROVE  Inv(rank)'
<1>. DEFINE s == [stack EXCEPT ![Len(stack)] = g]
            h == Frame(d, "sources")
            n == Len(stack)
<1>1. stack \in Seq(Frames)
  BY DEF Inv, TypeOK
<1>2. /\ s \in Seq(Frames) /\ Len(s) = n /\ n \in Nat \ {0}
      /\ \A i \in 1..n : s[i] = IF i = n THEN g ELSE stack[i]
  BY <1>1, Replaced, TopFrame
<1>3. Top \in Frames /\ d \in Packages /\ d # Here /\ h \in Frames
  BY <1>1, TopFrame, NetAssumption DEF Frame, Frames, Projects, Phases
<1>4. /\ Len(stack') = n + 1 /\ stack'[n + 1] = h /\ stack' # <<>>
      /\ \A i \in 1..n : stack'[i] = s[i]
  <2>. HIDE DEF s, h
  <2>1. stack' = Append(s, h)
    BY DEF s, h
  <2>. QED  BY <1>2, <1>3, <2>1, Pushed
<1>5. \A i \in 1..n : stack'[i].pkg = stack[i].pkg /\ stack[i] \in Frames
  <2>. SUFFICES ASSUME NEW i \in 1..n
                PROVE  stack'[i].pkg = stack[i].pkg /\ stack[i] \in Frames
    OBVIOUS
  <2>1. stack[i] \in Frames
    BY <1>1, ElementOfSeq
  <2>2. stack'[i] = IF i = n THEN g ELSE stack[i]
    BY <1>2, <1>4
  <2>. QED  BY <2>1, <2>2 DEF Top
<1>6. h.pkg = d /\ Sound(h, rank)
  BY <1>3 DEF Frame, Sound, Fits
<1>7. cmd'.state = "run" /\ stack'[1].pkg = cmd'.pkg
  <2>1. cmd.state = "run" /\ stack[1].pkg = cmd.pkg
    BY DEF Inv
  <2>2. 1 \in 1..n
    BY <1>2
  <2>3. stack'[1].pkg = stack[1].pkg
    BY <1>5, <2>2
  <2>. QED  BY <2>1, <2>3
<1>8. \A i \in 1..(n + 1) : Sound(stack[i], rank)'
  <2>. SUFFICES ASSUME NEW i \in 1..(n + 1) PROVE Sound(stack[i], rank)'
    OBVIOUS
  <2>1. CASE i = n + 1
    <3>1. stack'[i] = h
      BY <2>1, <1>4
    <3>. QED  BY <3>1, <1>6 DEF Sound
  <2>2. CASE i = n
    <3>1. stack'[i] = g
      BY <2>2, <1>2, <1>4
    <3>. QED  BY <3>1 DEF Sound
  <2>3. CASE i < n
    <3>1. i \in 1..n /\ i # n
      <4>. HIDE DEF n
      <4>1. n \in Nat
        BY <1>2
      <4>. QED  BY <4>1, <2>3
    <3>2. stack'[i] = s[i]
      BY <3>1, <1>4
    <3>3. s[i] = stack[i]
      BY <3>1, <1>2
    <3>4. Sound(stack[i], rank)
      BY <3>1 DEF Inv
    <3>. QED  BY <3>2, <3>3, <3>4 DEF Sound
  <2>4. i = n + 1 \/ i = n \/ i < n
    <3>. HIDE DEF n
    <3>1. n \in Nat
      BY <1>2
    <3>. QED  BY <3>1
  <2>. QED  BY <2>1, <2>2, <2>3, <2>4
<1>9. \A i \in 1..n : rank[d] < rank[stack[i].pkg]
  <2>1. Sound(Top, rank) /\ rank[d] < rank[Top.pkg]
    BY <1>2 DEF Inv, Sound, Top
  <2>. SUFFICES ASSUME NEW i \in 1..n, i < n PROVE rank[d] < rank[stack[i].pkg]
    BY <2>1, <1>2 DEF Top
  <2>2. rank[Top.pkg] < rank[stack[i].pkg]
    BY <1>2 DEF Inv, Descending, Top
  <2>3. rank[d] \in Nat /\ rank[Top.pkg] \in Nat /\ rank[stack[i].pkg] \in Nat
    BY <1>3, <1>5 DEF Projects, Frames
  <2>. QED  BY <2>1, <2>2, <2>3
<1>10. Descending(rank)'
  <2>1. \A i \in 1..(n + 1) : \A j \in 1..(n + 1) :
          i < j => /\ rank[stack'[j].pkg] < rank[stack'[i].pkg]
                   /\ stack'[j].pkg \in Packages /\ installed[stack'[j].pkg] = 0
    <3>. SUFFICES ASSUME NEW i \in 1..(n + 1), NEW j \in 1..(n + 1), i < j
                  PROVE  /\ rank[stack'[j].pkg] < rank[stack'[i].pkg]
                         /\ stack'[j].pkg \in Packages /\ installed[stack'[j].pkg] = 0
      OBVIOUS
    <3>a. i \in 1..n
      <4>. HIDE DEF n
      <4>1. n \in Nat
        BY <1>2
      <4>. QED  BY <4>1
    <3>0. i \in 1..n /\ stack'[i].pkg = stack[i].pkg
      BY <3>a, <1>5
    <3>1. CASE j = n + 1
      <4>1. stack'[j].pkg = d
        BY <3>1, <1>4, <1>6
      <4>. QED  BY <4>1, <3>0, <1>3, <1>9
    <3>2. CASE j # n + 1
      <4>1. j \in 1..n
        BY <3>2, <1>2
      <4>2. stack'[j].pkg = stack[j].pkg
        BY <4>1, <1>5
      <4>. QED  BY <4>1, <4>2, <3>0 DEF Inv, Descending
    <3>. QED  BY <3>1, <3>2
  <2>2. Len(stack') = n + 1 /\ installed' = installed
    BY <1>4
  <2>. HIDE DEF n
  <2>. QED  BY <2>1, <2>2 DEF Descending
<1>. QED  BY <1>4, <1>7, <1>8, <1>10 DEF Inv

\* The innermost call returns; its directory goes, and only its package may
\* be another than before.
LEMMA Returns ==
  ASSUME NEW rank \in [Projects -> Nat], Inv(rank), TypeOK', stack # <<>>, EndCall,
         \A p \in Packages : p # Top.pkg => installed'[p] = installed[p]
  PROVE  Inv(rank)'
<1>1. stack \in Seq(Frames)
  BY DEF Inv, TypeOK
<1>2. Len(stack) \in Nat \ {0}
  BY <1>1, TopFrame
<1>3. CASE Len(stack) = 1
  <2>1. stack' \in Seq(Frames) /\ Len(stack') = 0
    BY <1>1, <1>3, Popped DEF EndCall
  <2>2. stack' = <<>>
    BY <2>1, EmptySeq
  <2>. QED  BY <2>2, NoCalls
<1>4. CASE Len(stack) # 1
  <2>1. /\ Len(stack') = Len(stack) - 1 /\ cmd' = cmd
        /\ \A i \in 1..(Len(stack) - 1) : stack'[i] = stack[i] /\ stack[i] \in Frames
    BY <1>1, <1>2, <1>4, Popped, ElementOfSeq DEF EndCall
  <2>2. \A i \in 1..(Len(stack) - 1) : stack[i].pkg # Top.pkg
    <3>. SUFFICES ASSUME NEW i \in 1..(Len(stack) - 1) PROVE stack[i].pkg # Top.pkg
      OBVIOUS
    <3>1. rank[Top.pkg] < rank[stack[i].pkg]
      BY <1>2 DEF Inv, Descending, Top
    <3>2. rank[stack[i].pkg] \in Nat
      BY <2>1 DEF Frames
    <3>. QED  BY <3>1, <3>2
  <2>3. stack' # <<>> => cmd'.state = "run" /\ stack'[1].pkg = cmd'.pkg
    BY <1>2, <1>4, <2>1 DEF Inv
  <2>4. \A i \in 1..Len(stack') : Sound(stack[i], rank)'
    <3>. SUFFICES ASSUME NEW i \in 1..(Len(stack) - 1) PROVE Sound(stack[i], rank)'
      BY <2>1
    <3>0. i \in 1..Len(stack)
      BY <1>2
    <3>1. stack'[i] = stack[i] /\ Sound(stack[i], rank) /\ stack[i].pkg \in Projects
      BY <3>0, <2>1 DEF Inv, Frames
    <3>2. stack[i].src # 0 => stack[i].pkg \in Packages
      BY <3>1 DEF Sound, Projects
    <3>3. stack[i].pkg \in Packages => scratch'[stack[i].pkg] = scratch[stack[i].pkg]
      BY <2>2 DEF EndCall
    <3>. QED  BY <3>1, <3>2, <3>3 DEF Sound
  <2>5. Descending(rank)'
    BY SMTT(20), <1>2, <2>1, <2>2 DEF Inv, Descending
  <2>. QED  BY <2>3, <2>4, <2>5 DEF Inv
<1>. QED  BY <1>3, <1>4

-----------------------------------------------------------------------------
(* Types. *)

\* The innermost call with other fields is a call.
LEMMA NewTop ==
  ASSUME TypeOK, stack # <<>>, NEW g \in Frames,
         Fits(g),
         stack' = [stack EXCEPT ![Len(stack)] = g]
  PROVE  /\ stack' \in Seq(Frames)
         /\ \A i \in DOMAIN stack' : Fits(stack'[i])
<1>1. stack \in Seq(Frames)
  BY DEF TypeOK
<1>2. /\ stack' \in Seq(Frames) /\ Len(stack') = Len(stack)
      /\ \A i \in 1..Len(stack) : stack'[i] = IF i = Len(stack) THEN g ELSE stack[i]
  BY <1>1, Replaced
<1>3. DOMAIN stack' = 1..Len(stack) /\ DOMAIN stack = 1..Len(stack)
  BY <1>1, <1>2, LenProperties
<1>. QED  BY <1>2, <1>3 DEF TypeOK

\* The stack without its innermost call.
LEMMA OldCalls ==
  ASSUME TypeOK, stack # <<>>, stack' = Front(stack)
  PROVE  /\ stack' \in Seq(Frames)
         /\ \A i \in DOMAIN stack' : Fits(stack'[i])
<1>1. stack \in Seq(Frames)
  BY DEF TypeOK
<1>2. Len(stack) \in Nat \ {0}
  BY <1>1, TopFrame
<1>3. /\ stack' \in Seq(Frames) /\ Len(stack') = Len(stack) - 1
      /\ \A i \in 1..(Len(stack) - 1) : stack'[i] = stack[i]
  BY <1>1, Popped
<1>4. DOMAIN stack' = 1..(Len(stack) - 1) /\ DOMAIN stack = 1..Len(stack)
  BY <1>1, <1>3, LenProperties
<1>5. ASSUME NEW i \in 1..(Len(stack) - 1) PROVE i \in 1..Len(stack)
  BY <1>2
<1>. QED  BY <1>3, <1>4, <1>5 DEF TypeOK

\* What trace finds are packages that rank below the one that needs them.
LEMMA NeedsRankBelow ==
  ASSUME NEW rank, Ranks(rank), NEW p \in Projects
  PROVE  \A d \in ToInstall(p) : d \in Packages /\ rank[d] < rank[p]
<1>. DEFINE S == {x \in Packages : rank[x] < rank[p] \/ x = p}
<1>1. /\ rank \in [Projects -> Nat]
      /\ Uses \in [Projects -> SUBSET Packages] /\ Requires \in [Projects -> SUBSET Packages]
  BY NetAssumption DEF Ranks
<1>2. Uses[p] \subseteq S
  BY <1>1 DEF Ranks
<1>3. ASSUME NEW u \in S PROVE Uses[u] \subseteq S
  <2>1. u \in Projects /\ Uses[u] \subseteq Packages
    BY <1>1 DEF Projects
  <2>2. SUFFICES ASSUME NEW x \in Uses[u], x # u PROVE x \in S
    BY <2>1
  <2>3. rank[x] < rank[u]
    BY <2>1, <2>2 DEF Ranks
  <2>4. rank[x] \in Nat /\ rank[u] \in Nat /\ rank[p] \in Nat /\ x \in Packages
    BY <1>1, <2>1 DEF Projects
  <2>. QED  BY <2>3, <2>4
<1>4. S \in SUBSET Packages
  OBVIOUS
<1>5. NotFound(p) \subseteq S
  <2>. HIDE DEF S
  <2>. QED  BY <1>2, <1>3, <1>4 DEF NotFound
<1>6. \A d \in Requires[p] \ {p} : d \in Packages /\ rank[d] < rank[p]
  BY <1>1 DEF Ranks
<1>. QED  BY <1>5, <1>6 DEF ToInstall

\* ToInstall's members are packages.
LEMMA NeedsArePackages ==
  ASSUME NEW p \in Projects
  PROVE  ToInstall(p) \in SUBSET Packages
BY NetAssumption DEF ToInstall, NotFound

\* What a handler writes into the innermost call makes a new one of it.
LEMMA TopWritten ==
  ASSUME stack \in Seq(Frames), stack # <<>>
  PROVE  /\ \A a : [stack EXCEPT ![Len(stack)].at = a]
                     = [stack EXCEPT ![Len(stack)] = [Top EXCEPT !.at = a]]
         /\ \A g, a : [stack EXCEPT ![Len(stack)].src = g, ![Len(stack)].at = a]
                     = [stack EXCEPT ![Len(stack)] = [Top EXCEPT !.src = g, !.at = a]]
         /\ \A t, a : [stack EXCEPT ![Len(stack)].todo = t, ![Len(stack)].at = a]
                     = [stack EXCEPT ![Len(stack)] = [Top EXCEPT !.todo = t, !.at = a]]
         /\ \A d : [stack EXCEPT ![Len(stack)].todo = @ \ {d}]
                     = [stack EXCEPT ![Len(stack)] = [Top EXCEPT !.todo = @ \ {d}]]
<1>1. Len(stack) \in DOMAIN stack
  BY TopFrame, LenProperties
<1>. QED  BY <1>1 DEF Top

\* Steps that leave the stack alone keep the calls typed.
LEMMA SameCalls ==
  ASSUME TypeOK, stack' = stack
  PROVE  /\ stack' \in Seq(Frames)
         /\ \A i \in DOMAIN stack' : Fits(stack'[i])
BY DEF TypeOK

\* No calls are typed calls.
LEMMA EmptyCalls ==
  ASSUME stack' = <<>>
  PROVE  /\ stack' \in Seq(Frames)
         /\ \A i \in DOMAIN stack' : Fits(stack'[i])
<1>1. <<>> \in Seq(Frames) /\ DOMAIN <<>> = {}
  BY EmptySeq, LenProperties
<1>. QED  BY <1>1

\* What a step of a call, with all the rest typed, comes to.
TypedCalls ==
  /\ stack \in Seq(Frames)
  /\ \A i \in DOMAIN stack : Fits(stack[i])

\* TypeOK without the stack.
TypedRest ==
  /\ now \in 1..MaxGen /\ mirror \in BOOLEAN
  /\ list \in [Names -> [gen : 0..MaxGen, whole : BOOLEAN]]
  /\ installed \in [Packages -> 0..MaxGen]
  /\ scratch \in [Packages -> SUBSET (1..MaxGen)]
  /\ cmd \in Commands

LEMMA TypeParts == TypeOK <=> TypedRest /\ TypedCalls
BY DEF TypeOK, TypedRest, TypedCalls

LEMMA UnwindTypes ==
  ASSUME TypeOK, NEW outcome \in {"threw", "error"}, Unwind(outcome)
  PROVE  TypeOK'
<1>1. TypedCalls'
  BY EmptyCalls DEF Unwind, TypedCalls
<1>2. TypedRest'
  BY TypeParts, NetAssumption DEF TypedRest, Unwind, NoCommand, Projects, Commands, Running
<1>. QED  BY <1>1, <1>2, TypeParts, PTL

LEMMA EndCallTypes ==
  ASSUME TypeOK, stack # <<>>, EndCall, UNCHANGED <<now, mirror, list>>,
         installed' \in [Packages -> 0..MaxGen]
  PROVE  TypeOK'
<1>1. TypedCalls'
  BY OldCalls DEF EndCall, TypedCalls
<1>2. TypedRest'
  BY TypeParts DEF TypedRest, EndCall, Commands, Running
<1>. QED  BY <1>1, <1>2, TypeParts, PTL

LEMMA StepTypes ==
  ASSUME TypeOK, [Next]_vars
  PROVE  TypeOK'
<1>. USE NetAssumption
<1>1. TypedRest /\ TypedCalls /\ stack \in Seq(Frames)
  BY TypeParts DEF TypedCalls
<1>2. Here \in Projects /\ \A p \in Packages : p \in Projects
  BY DEF Projects
<1>3. TypedRest' /\ TypedCalls' => TypeOK'
  BY TypeParts, PTL
<1>4. ASSUME stack # <<>>, NEW g \in Frames,
             Fits(g),
             stack' = [stack EXCEPT ![Len(stack)] = g]
      PROVE  TypedCalls'
  BY <1>4, NewTop DEF TypedCalls
<1>5. stack # <<>> => /\ Top \in Frames
                      /\ Fits(Top)
  <2>1. stack # <<>> => Len(stack) \in DOMAIN stack
    BY <1>1, TopFrame, LenProperties
  <2>. QED  BY <1>1, <2>1, TopFrame DEF TypedCalls, Top
<1>6. CASE UNCHANGED vars
  BY <1>6, <1>1, <1>3 DEF vars, TypedRest, TypedCalls
<1>7. CASE User
  <2>1. stack' = stack
    BY <1>7 DEF User, Publish, Forget, Uninstall, Command
  <2>2. TypedCalls'
    BY <2>1, SameCalls DEF TypedCalls
  <2>3. CASE Publish
    BY <2>3, <2>2, <1>1, <1>2, <1>3 DEF Publish, TypedRest, NoCommand, Commands, Running
  <2>4. CASE Forget
    <3>1. list' \in [Names -> [gen : 0..MaxGen, whole : BOOLEAN]]
      BY <2>4 DEF Forget, NoList
    <3>. QED  BY <2>4, <3>1, <2>2, <1>1, <1>2, <1>3 DEF Forget, TypedRest, NoCommand, Commands, Running
  <2>5. ASSUME NEW p \in Packages, Uninstall(p)
        PROVE  TypeOK'
    BY <2>5, <2>2, <1>1, <1>2, <1>3 DEF Uninstall, TypedRest, NoCommand, Commands, Running
  <2>6. ASSUME NEW p \in Projects, NEW op \in {"install", "fetch", "deps"}, Command(op, p),
               p = Here <=> op = "deps"
        PROVE  TypeOK'
    BY <2>6, <2>2, <1>1, <1>2, <1>3 DEF Command, TypedRest, Commands, Running
  <2>. QED  BY <1>7, <1>2, <2>3, <2>4, <2>5, <2>6 DEF User
<1>8. CASE Exit
  <2>1. TypedCalls'
    BY <1>8, EmptyCalls DEF Exit, TypedCalls
  <2>. QED  BY <1>8, <2>1, <1>1, <1>2, <1>3 DEF Exit, TypedRest, NoCommand, Commands, Running
<1>9. CASE ChooseMirror
  <2>1. TypedCalls'
    BY <1>9, SameCalls DEF ChooseMirror, TypedCalls
  <2>. QED  BY <1>9, <2>1, <1>1, <1>3 DEF ChooseMirror, TypedRest, Commands, Running
<1>10. ASSUME NEW l \in Names, Transfer(l)
       PROVE  TypeOK'
  <2>1. TypedCalls'
    BY <1>10, SameCalls DEF Transfer, TypedCalls
  <2>2. Transferred(l) \subseteq [gen : 0..MaxGen, whole : BOOLEAN]
    <3>1. now \in 0..MaxGen
      BY <1>1 DEF TypedRest
    <3>2. list[l] \in [gen : 0..MaxGen, whole : BOOLEAN]
      BY <1>1, <1>10 DEF TypedRest
    <3>3. \A b \in BOOLEAN : [gen |-> now, whole |-> b] \in [gen : 0..MaxGen, whole : BOOLEAN]
      BY <3>1
    <3>. HIDE <3>1
    <3>. QED  BY <3>2, <3>3 DEF Transferred
  <2>3. list' \in [Names -> [gen : 0..MaxGen, whole : BOOLEAN]]
    BY <1>1, <1>10, <2>2 DEF Transfer, TypedRest
  <2>4. cmd' \in Commands
    BY <1>1, <1>10 DEF Transfer, TypedRest, Commands, Running, Names
  <2>. QED  BY <1>10, <2>1, <2>3, <2>4, <1>1, <1>3 DEF Transfer, TypedRest
<1>11. CASE NoLists \/ Unknown \/ NoSources \/ BuildFails \/ InstallFails
         \/ \E d \in Packages : AssertUnknown(d)
  BY <1>11, UnwindTypes DEF NoLists, Unknown, NoSources, BuildFails, InstallFails, AssertUnknown
<1>12. CASE Start
  <2>. DEFINE at == IF cmd.op = "deps" THEN "trace" ELSE "sources"
              g == Frame(cmd.pkg, at)
  <2>1. g \in Frames /\ Fits(g)
    <3>1. cmd.pkg = Here <=> cmd.op = "deps"
      BY <1>12, <1>1 DEF Start, Starting, TypedRest, Commands, Running
    <3>2. cmd.pkg \in Projects
      BY <1>1 DEF TypedRest, Commands
    <3>. QED  BY <3>1, <3>2 DEF Frame, Frames, Phases, Fits
  <2>2. stack' = <<g>>
    BY <1>12 DEF Start
  <2>3. stack' \in Seq(Frames) /\ DOMAIN stack' = {1} /\ stack'[1] = g
    <3>. HIDE DEF g
    <3>. QED  BY <2>1, <2>2
  <2>4. TypedCalls'
    <3>. HIDE DEF g
    <3>. QED  BY <2>1, <2>3 DEF TypedCalls
  <2>. QED  BY <1>12, <2>4, <1>1, <1>3 DEF Start, TypedRest
<1>13. CASE GetSources
  <2>1. PICK new \in {{}, {now}} :
          /\ scratch' = [scratch EXCEPT ![Top.pkg] = scratch[Top.pkg] \union new]
          /\ \E g \in IF scratch[Top.pkg] \union new = {} THEN {0}
                      ELSE scratch[Top.pkg] \union new :
               stack' = [stack EXCEPT
                           ![Len(stack)].src = g,
                           ![Len(stack)].at = IF cmd.op = "fetch" THEN "archive" ELSE "uninstall"]
    BY <1>13 DEF GetSources
  <2>2. stack # <<>> /\ UNCHANGED <<now, mirror, list, installed, cmd>>
    BY <1>13 DEF GetSources, Step
  <2>3. scratch' \in [Packages -> SUBSET (1..MaxGen)]
    BY <2>1, <1>1 DEF TypedRest
  <2>4. TypedRest'
    BY <2>2, <2>3, <1>1 DEF TypedRest
  <2>5. PICK g : stack' = [stack EXCEPT
                             ![Len(stack)].src = g,
                             ![Len(stack)].at = IF cmd.op = "fetch" THEN "archive" ELSE "uninstall"]
                 /\ g \in 0..MaxGen
    <3>1. now \in 1..MaxGen /\ \A x \in scratch[Top.pkg] : x \in 0..MaxGen
      <4>1. Top.pkg \in Packages
        BY <1>5, <1>13, <2>2 DEF Frames, Projects, Fits, GetSources, Step
      <4>. QED  BY <4>1, <1>1 DEF TypedRest
    <3>2. PICK g \in IF scratch[Top.pkg] \union new = {} THEN {0} ELSE scratch[Top.pkg] \union new :
               stack' = [stack EXCEPT
                           ![Len(stack)].src = g,
                           ![Len(stack)].at = IF cmd.op = "fetch" THEN "archive" ELSE "uninstall"]
      BY <2>1
    <3>3. g \in 0..MaxGen
      BY <3>1, <3>2
    <3>. QED  BY <3>2, <3>3
  <2>6. TypedCalls'
    <3>. DEFINE at == IF cmd.op = "fetch" THEN "archive" ELSE "uninstall"
                h == [Top EXCEPT !.src = g, !.at = at]
    <3>1. h \in Frames /\ Fits(h)
      <4>1. Top.pkg # Here
        BY <1>5, <1>13, <2>2 DEF Fits, GetSources, Step
      <4>. QED  BY <4>1, <1>5, <2>2, <2>5 DEF Frames, Phases, Fits
    <3>2. stack' = [stack EXCEPT ![Len(stack)] = h]
      <4>1. stack' = [stack EXCEPT ![Len(stack)].src = g, ![Len(stack)].at = at]
        BY <2>5
      <4>. HIDE DEF at
      <4>2. Len(stack) \in DOMAIN stack
        BY <1>1, <2>2, TopFrame, LenProperties
      <4>. QED  BY <4>1, <4>2 DEF Top
    <3>. HIDE DEF h
    <3>. QED  BY <1>4, <2>2, <3>1, <3>2
  <2>. QED  BY <1>3, <2>4, <2>6
<1>14. CASE Archive
  BY <1>14, <1>1, EndCallTypes DEF Archive, Step, TypedRest
<1>15. ASSUME stack # <<>>, NEW at \in Phases, Goto(at),
              Fits([Top EXCEPT !.at = at])
       PROVE  TypedCalls'
  <2>. DEFINE h == [Top EXCEPT !.at = at]
  <2>1. h \in Frames
    BY <1>5, <1>15 DEF Frames
  <2>2. stack' = [stack EXCEPT ![Len(stack)] = h]
    <3>1. Len(stack) \in DOMAIN stack
      BY <1>1, <1>15, TopFrame, LenProperties
    <3>. QED  BY <1>15, <3>1 DEF Goto, Top
  <2>. HIDE DEF h
  <2>. QED  BY <1>4, <1>15, <2>1, <2>2 DEF h
<1>16. CASE UninstallOld
  <2>1. stack # <<>> /\ Top.pkg # Here /\ Top \in Frames
    BY <1>5, <1>16 DEF UninstallOld, Step, Fits
  <2>2. Fits([Top EXCEPT !.at = "trace"])
    BY <2>1 DEF Fits, Frames
  <2>3. TypedCalls'
    BY <1>15, <1>16, <2>1, <2>2 DEF UninstallOld, Phases
  <2>4. installed' \in [Packages -> 0..MaxGen]
    <3>1. 0 \in 0..MaxGen /\ installed \in [Packages -> 0..MaxGen]
      BY <1>1 DEF TypedRest
    <3>. QED  BY <1>16, <3>1 DEF UninstallOld
  <2>. QED  BY <1>16, <2>3, <2>4, <1>1, <1>3 DEF UninstallOld, TypedRest
<1>17. CASE Trace
  <2>. DEFINE t == ToInstall(Top.pkg)
              h == [Top EXCEPT !.todo = t, !.at = "deps"]
  <2>1. stack # <<>> /\ Top \in Frames /\ t \in SUBSET Packages
    BY <1>5, <1>17, NeedsArePackages DEF Trace, Step, Frames
  <2>2. h \in Frames /\ Fits(h)
    BY <1>17, <2>1 DEF Fits, Frames, Phases, Trace
  <2>3. stack' = [stack EXCEPT ![Len(stack)] = h]
    <3>1. Len(stack) \in DOMAIN stack
      BY <1>1, <2>1, TopFrame, LenProperties
    <3>2. stack' = [stack EXCEPT ![Len(stack)].todo = t, ![Len(stack)].at = "deps"]
      BY <1>17 DEF Trace
    <3>. HIDE DEF t
    <3>. QED  BY <3>1, <3>2 DEF Top
  <2>4. TypedCalls'
    <3>. HIDE DEF h
    <3>. QED  BY <1>4, <2>1, <2>2, <2>3
  <2>. QED  BY <1>17, <2>4, <1>1, <1>3 DEF Trace, TypedRest
<1>18. CASE NoConfig
  <2>1. TypedCalls'
    BY <1>18, EmptyCalls DEF NoConfig, Exit, TypedCalls
  <2>. QED  BY <1>18, <2>1, <1>1, <1>2, <1>3 DEF NoConfig, Exit, TypedRest, NoCommand, Commands, Running
<1>19. ASSUME NEW d \in Packages, AssertInstalled(d)
       PROVE  TypeOK'
  <2>. DEFINE g == [Top EXCEPT !.todo = @ \ {d}]
              rest == [stack EXCEPT ![Len(stack)] = g]
              h == Frame(d, "sources")
  <2>1. stack # <<>> /\ Top \in Frames /\ Fits(Top) /\ Len(stack) \in DOMAIN stack
    BY <1>1, <1>5, <1>19, TopFrame, LenProperties DEF AssertInstalled, Step
  <2>2. g \in Frames /\ Fits(g) /\ h \in Frames /\ Fits(h)
    BY <2>1, <1>2 DEF Fits, Frames, Frame, Phases
  <2>3. /\ rest \in Seq(Frames) /\ Len(rest) = Len(stack) /\ Len(rest) \in Nat
        /\ \A i \in 1..Len(stack) : rest[i] = IF i = Len(stack) THEN g ELSE stack[i]
    <3>. HIDE DEF g
    <3>. QED  BY <1>1, <2>1, <2>2, Replaced, LenProperties
  <2>4. stack' = IF Have(d) THEN rest ELSE Append(rest, h)
    <3>1. [stack EXCEPT ![Len(stack)].todo = @ \ {d}] = rest
      BY <2>1 DEF Top
    <3>. QED  BY <1>19, <3>1 DEF AssertInstalled
  <2>. HIDE DEF rest, g, h
  <2>5. \A i \in 1..Len(rest) : Fits(rest[i])
    <3>1. DOMAIN stack = 1..Len(stack)
      BY <1>1, LenProperties
    <3>. QED  BY <1>1, <2>2, <2>3, <3>1 DEF TypedCalls
  <2>6. ASSUME Have(d) PROVE TypedCalls'
    <3>1. stack' = rest /\ DOMAIN rest = 1..Len(rest)
      BY <2>3, <2>4, <2>6, LenProperties
    <3>. QED  BY <2>3, <2>5, <3>1 DEF TypedCalls
  <2>7. ASSUME ~Have(d) PROVE TypedCalls'
    <3>1. stack' = Append(rest, h)
      BY <2>4, <2>7
    <3>2. /\ stack' \in Seq(Frames) /\ Len(stack') = Len(rest) + 1
          /\ \A i \in 1..Len(rest) : stack'[i] = rest[i]
          /\ stack'[Len(rest) + 1] = h
      BY <2>2, <2>3, <3>1, Pushed
    <3>3. DOMAIN stack' = 1..(Len(rest) + 1)
      BY <3>2, LenProperties
    <3>4. ASSUME NEW i \in 1..(Len(rest) + 1) PROVE Fits(stack'[i])
      <4>1. i \in 1..Len(rest) \/ i = Len(rest) + 1
        BY <2>3
      <4>. QED  BY <4>1, <2>2, <2>5, <3>2
    <3>. QED  BY <3>2, <3>3, <3>4 DEF TypedCalls
  <2>8. TypedCalls'
    BY <2>6, <2>7
  <2>. QED  BY <1>19, <2>8, <1>1, <1>3 DEF AssertInstalled, TypedRest
<1>20. CASE DepsDone
  <2>1. stack # <<>> /\ Top \in Frames /\ Fits(Top) /\ Top.at = "deps"
    BY <1>5, <1>20 DEF DepsDone, Step
  <2>2. CASE Top.pkg # Here /\ Goto("build") /\ UNCHANGED <<scratch, cmd>>
    <3>1. Fits([Top EXCEPT !.at = "build"])
      BY <2>1, <2>2 DEF Fits, Frames
    <3>2. TypedCalls'
      BY <1>15, <2>1, <2>2, <3>1 DEF Phases
    <3>. QED  BY <1>20, <2>2, <3>2, <1>1, <1>3 DEF DepsDone, TypedRest
  <2>3. CASE EndCall
    BY <1>20, <2>1, <2>3, <1>1, EndCallTypes DEF DepsDone, TypedRest
  <2>. QED  BY <1>20, <2>2, <2>3 DEF DepsDone
<1>21. CASE BuildIt
  <2>1. stack # <<>> /\ Top \in Frames /\ Fits(Top) /\ Top.at = "build"
    BY <1>5, <1>21 DEF BuildIt, Step
  <2>2. Fits([Top EXCEPT !.at = "install"])
    BY <2>1 DEF Fits, Frames
  <2>3. TypedCalls'
    BY <1>15, <1>21, <2>1, <2>2 DEF BuildIt, Phases
  <2>. QED  BY <1>21, <2>3, <1>1, <1>3 DEF BuildIt, TypedRest
<1>22. CASE InstallIt
  <2>1. stack # <<>> /\ Top \in Frames
    BY <1>5, <1>22 DEF InstallIt, Step
  <2>2. installed' \in [Packages -> 0..MaxGen]
    BY <1>22, <2>1, <1>1 DEF InstallIt, TypedRest, Frames
  <2>. QED  BY <1>22, <2>1, <2>2, EndCallTypes DEF InstallIt
<1>. QED
  BY <1>6, <1>7, <1>8, <1>9, <1>10, <1>11, <1>12, <1>13, <1>14, <1>16, <1>17, <1>18, <1>19,
     <1>20, <1>21, <1>22 DEF Next, Work

-----------------------------------------------------------------------------
(* The invariant. *)

LEMMA StepInv ==
  ASSUME NEW rank, Ranks(rank), Inv(rank), [Next]_vars
  PROVE  Inv(rank)'
<1>1. TypeOK /\ TypeOK' /\ rank \in [Projects -> Nat] /\ TypedCalls /\ TypedRest
  BY StepTypes, TypeParts DEF Inv, Ranks
<1>2. /\ stack \in Seq(Frames)
      /\ stack # <<>> => /\ Top \in Frames /\ Fits(Top) /\ Sound(Top, rank) /\ cmd.state = "run"
                         /\ Len(stack) \in DOMAIN stack
  <2>1. stack \in Seq(Frames)
    BY <1>1 DEF TypedCalls
  <2>2. stack # <<>> => Len(stack) \in DOMAIN stack /\ Len(stack) \in 1..Len(stack)
    BY <2>1, TopFrame, LenProperties
  <2>. QED  BY <2>1, <2>2, TopFrame DEF Inv, Top, Sound
<1>3. ASSUME stack' = <<>> PROVE Inv(rank)'
  BY <1>1, <1>3, NoCalls
<1>4. ASSUME stack # <<>>, NEW g \in Frames, stack' = [stack EXCEPT ![Len(stack)] = g],
             g.pkg = Top.pkg, cmd' = cmd, Sound(g, rank)',
             \A p \in Projects : scratch[p] \subseteq scratch'[p],
             \A p \in Packages : installed[p] = 0 => installed'[p] = 0
      PROVE  Inv(rank)'
  BY <1>1, <1>4, Continues
<1>5. CASE UNCHANGED vars
  <2>1. stack' = stack /\ cmd' = cmd /\ scratch' = scratch /\ installed' = installed
    BY <1>5 DEF vars
  <2>. QED  BY <2>1, <1>1 DEF Inv, Sound, Descending
<1>6. CASE User \/ ChooseMirror \/ \E l \in Names : Transfer(l)
  <2>1. cmd.state # "run" /\ stack' = stack
    BY <1>6 DEF User, Publish, Forget, Uninstall, Command, Busy, Running, ChooseMirror, Transfer,
                Names
  <2>. QED  BY <2>1, <1>2, <1>3
<1>7. CASE \/ Exit \/ NoConfig \/ NoLists \/ Unknown \/ NoSources \/ BuildFails \/ InstallFails
           \/ \E d \in Packages : AssertUnknown(d)
  BY <1>7, <1>3 DEF Exit, NoConfig, NoLists, Unknown, NoSources, BuildFails, InstallFails,
                    AssertUnknown, Unwind
<1>8. CASE Start
  <2>. DEFINE at == IF cmd.op = "deps" THEN "trace" ELSE "sources"
  <2>1. /\ cmd.pkg = Here <=> cmd.op = "deps"
        /\ cmd.pkg \in Projects /\ cmd.state = "run"
    BY <1>8, <1>1 DEF Start, Starting, TypedRest, Commands, Running
  <2>2. PICK g \in Frames : g = Frame(cmd.pkg, at)
    <3>1. Frame(cmd.pkg, at) \in Frames
      BY <2>1, NetAssumption DEF Frame, Frames, Phases
    <3>. QED  BY <3>1
  <2>3. g.pkg = cmd.pkg /\ Sound(g, rank)'
    BY <2>1, <2>2 DEF Frame, Sound, Fits
  <2>4. stack' = <<g>> /\ cmd' = cmd
    BY <1>8, <2>2 DEF Start
  <2>5. stack'[1] = g /\ Len(stack') = 1
    BY <2>4
  <2>6. \A i \in 1..1 : i = 1
    OBVIOUS
  <2>7. \A i \in 1..Len(stack') : Sound(stack[i], rank)'
    BY <2>3, <2>5, <2>6 DEF Sound
  <2>8. Descending(rank)'
    BY <2>5, <2>6 DEF Descending
  <2>. QED  BY <1>1, <2>1, <2>3, <2>4, <2>5, <2>7, <2>8 DEF Inv
<1>9. CASE GetSources
  <2>. DEFINE at == IF cmd.op = "fetch" THEN "archive" ELSE "uninstall"
  <2>1. /\ stack # <<>> /\ Top \in Frames /\ Sound(Top, rank) /\ Top.pkg \in Packages
        /\ Top.todo \in SUBSET Packages
        /\ Len(stack) \in DOMAIN stack
    BY <1>2, <1>9 DEF GetSources, Step, Fits, Frames, Projects
  <2>2. PICK new, src :
          /\ scratch' = [scratch EXCEPT ![Top.pkg] = scratch[Top.pkg] \union new]
          /\ src # 0 => src \in scratch[Top.pkg] \union new
          /\ stack' = [stack EXCEPT ![Len(stack)].src = src, ![Len(stack)].at = at]
    BY <1>9 DEF GetSources
  <2>3. PICK g : g = [Top EXCEPT !.src = src, !.at = at]
    OBVIOUS
  <2>4. stack' = [stack EXCEPT ![Len(stack)] = g]
    <3>. HIDE DEF at
    <3>. QED  BY <2>1, <2>2, <2>3 DEF Top
  <2>5. g \in Frames
    BY <1>1, <2>1, <2>4, ElementOfSeq, LenProperties DEF TypeOK
  <2>6. g.pkg = Top.pkg /\ g.src = src /\ g.todo = Top.todo /\ Fits(g)
    BY <2>1, <2>3, NetAssumption DEF Frames, Fits
  <2>7. scratch'[Top.pkg] = scratch[Top.pkg] \union new
    BY <1>1, <2>1, <2>2 DEF TypedRest
  <2>8. Sound(g, rank)'
    BY <2>1, <2>2, <2>6, <2>7, NetAssumption DEF Sound
  <2>9. cmd' = cmd /\ installed' = installed /\ \A p \in Projects : scratch[p] \subseteq scratch'[p]
    BY <1>1, <1>9, <2>2 DEF GetSources, TypedRest
  <2>. QED  BY <1>4, <2>1, <2>4, <2>5, <2>6, <2>8, <2>9
<1>10. ASSUME stack # <<>>, NEW at \in Phases, Goto(at), Fits([Top EXCEPT !.at = at]),
              UNCHANGED <<scratch, cmd>>,
              \A p \in Packages : installed[p] = 0 => installed'[p] = 0
       PROVE  Inv(rank)'
  <2>1. PICK g : g = [Top EXCEPT !.at = at]
    OBVIOUS
  <2>2. g \in Frames /\ g.pkg = Top.pkg /\ g.src = Top.src /\ g.todo = Top.todo
    BY <1>2, <1>10, <2>1 DEF Frames
  <2>3. stack' = [stack EXCEPT ![Len(stack)] = g]
    BY <1>2, <1>10, <2>1 DEF Goto, Top
  <2>4. Sound(g, rank)'
    BY <1>2, <1>10, <2>1, <2>2 DEF Sound
  <2>. QED  BY <1>4, <1>10, <2>2, <2>3, <2>4
<1>11. CASE UninstallOld
  <2>1. stack # <<>> /\ Top.pkg # Here /\ Top \in Frames
    BY <1>2, <1>11 DEF UninstallOld, Step, Fits
  <2>2. Fits([Top EXCEPT !.at = "trace"])
    BY <2>1 DEF Fits, Frames
  <2>3. \A p \in Packages : installed[p] = 0 => installed'[p] = 0
    BY <1>1, <1>11 DEF UninstallOld, TypedRest
  <2>. QED  BY <1>10, <1>11, <2>1, <2>2, <2>3 DEF UninstallOld, Phases
<1>12. CASE Trace
  <2>. DEFINE t == ToInstall(Top.pkg)
  <2>1. stack # <<>> /\ Top \in Frames /\ Sound(Top, rank) /\ Len(stack) \in DOMAIN stack
    BY <1>2, <1>12 DEF Trace, Step
  <2>2. t \in SUBSET Packages /\ \A d \in t : rank[d] < rank[Top.pkg]
    BY <2>1, NeedsArePackages, NeedsRankBelow DEF Frames
  <2>. HIDE DEF t
  <2>3. PICK g : g = [Top EXCEPT !.todo = t, !.at = "deps"]
    OBVIOUS
  <2>4. /\ g \in Frames /\ g.pkg = Top.pkg /\ g.src = Top.src /\ g.todo = t
    BY <2>1, <2>2, <2>3 DEF Frames, Phases
  <2>5. Fits(g)
    BY <1>12, <2>1, <2>3 DEF Fits, Trace, Frames
  <2>6. stack' = [stack EXCEPT ![Len(stack)] = g]
    <3>1. stack' = [stack EXCEPT ![Len(stack)].todo = t, ![Len(stack)].at = "deps"]
      BY <1>12 DEF Trace, t
    <3>. QED  BY <2>1, <2>3, <3>1 DEF Top
  <2>7. Sound(g, rank)'
    BY <1>12, <2>1, <2>2, <2>4, <2>5 DEF Sound, Trace
  <2>. QED  BY <1>4, <1>12, <2>1, <2>4, <2>6, <2>7 DEF Trace
<1>13. ASSUME NEW d \in Packages, AssertInstalled(d) PROVE Inv(rank)'
  <2>1. /\ stack # <<>> /\ Top \in Frames /\ Sound(Top, rank) /\ Len(stack) \in DOMAIN stack
        /\ Fits(Top) /\ d \in Top.todo /\ UNCHANGED <<installed, scratch, cmd>>
    BY <1>2, <1>13 DEF AssertInstalled, Step
  <2>2. PICK g : g = [Top EXCEPT !.todo = @ \ {d}]
    OBVIOUS
  <2>3. g \in Frames /\ g.pkg = Top.pkg /\ g.src = Top.src /\ g.todo \subseteq Top.todo /\ Fits(g)
    BY <2>1, <2>2 DEF Frames, Fits
  <2>4. Sound(g, rank) /\ Sound(g, rank)'
    BY <2>1, <2>3 DEF Sound
  <2>5. [stack EXCEPT ![Len(stack)].todo = @ \ {d}] = [stack EXCEPT ![Len(stack)] = g]
    BY <2>1, <2>2 DEF Top
  <2>6. CASE Have(d)
    <3>1. stack' = [stack EXCEPT ![Len(stack)] = g]
      BY <1>13, <2>5, <2>6 DEF AssertInstalled
    <3>. QED  BY <1>4, <2>1, <2>3, <2>4, <3>1
  <2>7. CASE ~Have(d)
    <3>1. stack' = Append([stack EXCEPT ![Len(stack)] = g], Frame(d, "sources"))
      BY <1>13, <2>5, <2>7 DEF AssertInstalled
    <3>2. installed[d] = 0
      BY <2>7 DEF Have
    <3>. QED  BY <1>1, <2>1, <2>3, <2>4, <3>1, <3>2, Calls
  <2>. QED  BY <2>6, <2>7
<1>14. CASE DepsDone
  <2>1. stack # <<>> /\ Top \in Frames /\ Fits(Top) /\ Top.at = "deps"
    BY <1>2, <1>14 DEF DepsDone, Step
  <2>2. CASE Top.pkg # Here /\ Goto("build") /\ UNCHANGED <<scratch, cmd>>
    <3>1. Fits([Top EXCEPT !.at = "build"])
      BY <2>1, <2>2 DEF Fits, Frames
    <3>. QED  BY <1>10, <1>14, <2>1, <2>2, <3>1 DEF DepsDone, Phases
  <2>3. CASE EndCall
    BY <1>1, <1>14, <2>1, <2>3, Returns DEF DepsDone
  <2>. QED  BY <1>14, <2>2, <2>3 DEF DepsDone
<1>15. CASE BuildIt
  <2>1. stack # <<>> /\ Top \in Frames /\ Fits(Top) /\ Top.at = "build"
    BY <1>2, <1>15 DEF BuildIt, Step
  <2>2. Fits([Top EXCEPT !.at = "install"])
    BY <2>1 DEF Fits, Frames
  <2>. QED  BY <1>10, <1>15, <2>1, <2>2 DEF BuildIt, Phases
<1>16. CASE Archive
  BY <1>1, <1>16, Returns DEF Archive, Step
<1>17. CASE InstallIt
  <2>1. \A p \in Packages : p # Top.pkg => installed'[p] = installed[p]
    BY <1>1, <1>17 DEF InstallIt, TypedRest
  <2>. QED  BY <1>1, <1>17, <2>1, Returns DEF InstallIt, Step
<1>. QED
  BY <1>5, <1>6, <1>7, <1>8, <1>9, <1>11, <1>12, <1>13, <1>14, <1>15, <1>16, <1>17 DEF Next, Work

LEMMA InitInv == Init => \A rank : Inv(rank)
<1>1. Init => TypedCalls
  BY EmptySeq, LenProperties DEF Init, TypedCalls
<1>2. Init => TypedRest
  <2>. SUFFICES ASSUME Init PROVE TypedRest
    OBVIOUS
  <2>1. 0 \in 0..MaxGen /\ 1 \in 1..MaxGen
    BY NetAssumption
  <2>2. list \in [Names -> [gen : 0..MaxGen, whole : BOOLEAN]]
    BY <2>1 DEF Init, NoList
  <2>3. cmd \in Commands
    BY DEF Init, NoCommand, Commands, Running, Projects
  <2>. QED  BY <2>1, <2>2, <2>3 DEF Init, TypedRest
<1>3. Init => stack = <<>>
  BY DEF Init
<1>. QED  BY <1>1, <1>2, <1>3, TypeParts, EmptySeq, LenProperties DEF Inv, Descending

-----------------------------------------------------------------------------
(* The theorems. *)

\* Every state is one the code can be in: what trace, build and install of a
\* package find under their feet is a directory with a dsss.conf.
THEOREM NetTypes == Spec => []TypeOK
<1>1. Init => TypeOK
  BY InitInv DEF Inv
<1>. QED  BY <1>1, StepTypes, PTL DEF Spec

LEMMA SpecInv ==
  ASSUME NEW rank, Ranks(rank)
  PROVE  Spec => []Inv(rank)
<1>1. Init => Inv(rank)
  BY InitInv
<1>2. Inv(rank) /\ [Next]_vars => Inv(rank)'
  BY StepInv
<1>. QED  BY <1>1, <1>2, PTL DEF Spec

\* Ranks differ where packages do: no package is in the works twice.
LEMMA InvNeverNested ==
  ASSUME NEW rank, Ranks(rank), Inv(rank)
  PROVE  NeverNested
<1>1. /\ stack \in Seq(Frames) /\ DOMAIN stack = 1..Len(stack)
      /\ rank \in [Projects -> Nat]
  BY LenProperties DEF Inv, TypeOK, Ranks
<1>2. SUFFICES ASSUME NEW i \in 1..Len(stack), NEW j \in 1..Len(stack), i # j
               PROVE  stack[i].pkg # stack[j].pkg
  BY <1>1 DEF NeverNested
<1>3. rank[stack[i].pkg] < rank[stack[j].pkg] \/ rank[stack[j].pkg] < rank[stack[i].pkg]
  <2>1. i < j \/ j < i
    BY <1>2
  <2>. QED  BY <2>1 DEF Inv, Descending
<1>4. rank[stack[i].pkg] \in Nat /\ rank[stack[j].pkg] \in Nat
  <2>1. stack[i] \in Frames /\ stack[j] \in Frames
    BY <1>1, ElementOfSeq
  <2>. QED  BY <1>1, <2>1 DEF Frames
<1>. QED  BY <1>3, <1>4

\* If no packages need each other in a circle, however deep the installations
\* of dependencies nest, no package is installed from within its own
\* installation.
THEOREM NetNeverNested == Acyclic => (Spec => []NeverNested)
<1>. SUFFICES ASSUME NEW rank, Ranks(rank) PROVE Spec => []NeverNested
  BY DEF Acyclic
<1>1. Inv(rank) => NeverNested
  BY InvNeverNested
<1>. QED  BY <1>1, SpecInv, PTL

\* And no installation removes the sources of one that waits for it.
THEOREM NetSourcesStay == Acyclic => (Spec => []SourcesStay)
<1>. SUFFICES ASSUME NEW rank, Ranks(rank) PROVE Spec => []SourcesStay
  BY DEF Acyclic
<1>1. Inv(rank) => SourcesStay
  BY LenProperties DEF Inv, TypeOK, Sound, SourcesStay
<1>. QED  BY <1>1, SpecInv, PTL

LEMMA StepKeepsOthers ==
  ASSUME NEW rank, Ranks(rank), Inv(rank), [Next]_vars, Busy,
         NEW p \in Packages \ {cmd.pkg}, installed[p] # 0
  PROVE  installed'[p] = installed[p]
<1>1. installed \in [Packages -> 0..MaxGen] /\ stack \in Seq(Frames)
  BY DEF Inv, TypeOK
<1>2. CASE UninstallOld \/ InstallIt
  <2>1. stack # <<>>
    BY <1>2 DEF UninstallOld, InstallIt, Step
  <2>2. p # Top.pkg
    <3>1. SUFFICES ASSUME p = Top.pkg PROVE FALSE
      OBVIOUS
    <3>2. Len(stack) \in Nat \ {0} /\ stack[1].pkg = cmd.pkg
      BY <1>1, <2>1, TopFrame DEF Inv
    <3>3. 1 < Len(stack)
      BY <3>1, <3>2 DEF Top
    <3>4. 1 \in 1..Len(stack) /\ Len(stack) \in 1..Len(stack)
      BY <3>2
    <3>5. installed[Top.pkg] = 0
      BY <3>3, <3>4 DEF Inv, Descending, Top
    <3>. QED  BY <3>1, <3>5
  <2>. QED  BY <1>1, <1>2, <2>2 DEF UninstallOld, InstallIt
<1>3. CASE ~(UninstallOld \/ InstallIt)
  <2>1. installed' = installed
    BY <1>3 DEF Next, User, Work, vars, Publish, Forget, Uninstall, Command, ChooseMirror, Transfer,
                NoLists, Unknown, Start, GetSources, NoSources, Archive, Trace, NoConfig, Exit,
                AssertInstalled, AssertUnknown, DepsDone, BuildIt, BuildFails, InstallFails, Unwind
  <2>. QED  BY <2>1
<1>. QED  BY <1>2, <1>3

\* What else was installed when a command began is as it was when it ends:
\* dependencies are installed where they are missing and never replaced.
THEOREM NetOthersKept == Acyclic => (Spec => OthersKept)
<1>. SUFFICES ASSUME NEW rank, Ranks(rank) PROVE Spec => OthersKept
  BY DEF Acyclic
<1>1. Inv(rank) /\ [Next]_vars
        => [Busy => \A p \in Packages \ {cmd.pkg} :
              installed[p] # 0 => installed'[p] = installed[p]]_vars
  BY StepKeepsOthers
<1>. QED  BY <1>1, SpecInv, PTL DEF Spec, OthersKept

-----------------------------------------------------------------------------
(* Dependencies, again for packages without a circle: each build starts     *)
(* with all it imports installed, and a command that returns 0 has left     *)
(* nothing out.                                                             *)


\* What p needs is installed, is unknown to pkgs.list, or is in hand.
Provided(p, inHand) ==
  \A e \in NotFound(p) \ {p} : Listed("pkgs", e) => e \in inHand

\* A call that has traced its package has what it needs still to assert, or
\* is asserting it.
Asserting(f, inner) ==
  /\ f.at \in {"deps", "build", "install"} => Provided(f.pkg, f.todo \union inner)
  /\ f.at \in {"build", "install"} => f.todo = {}
  /\ f.at = "install" => NotFound(f.pkg) \subseteq {f.pkg}
  /\ f.at = "archive" => cmd.op = "fetch"
  /\ cmd.op = "fetch" => f.at \in {"sources", "archive"}

\* It is the innermost call.
Alone(f) == Asserting(f, {})

Inner(i) == IF i < Len(stack) THEN {stack[i + 1].pkg} ELSE {}

\* Calls wait for others only while they assert.
Asserted ==
  \A i \in 1..Len(stack) :
    /\ Asserting(stack[i], Inner(i))
    /\ i < Len(stack) => stack[i].at = "deps"

-----------------------------------------------------------------------------
(* What is not found. *)

LEMMA NotFoundType ==
  ASSUME NEW p
  PROVE  NotFound(p) \subseteq Packages /\ \A e \in NotFound(p) : ~Have(e)
BY DEF NotFound

LEMMA SameFound ==
  ASSUME installed' = installed, NEW p
  PROVE  NotFound(p)' = NotFound(p)
BY DEF NotFound, Have

\* Once d is installed its imports are followed: what is not found then was
\* not found for p or for d.
LEMMA FoundMore ==
  ASSUME NEW d \in Packages, NEW p, Have(d)',
         \A q \in Packages : q # d => installed'[q] = installed[q]
  PROVE  NotFound(p)' \subseteq (NotFound(p) \union NotFound(d)) \ {d}
<1>1. \A e \in NotFound(p)' : e \in Packages /\ e # d /\ ~Have(e)
  BY DEF NotFound, Have
<1>2. SUFFICES ASSUME NEW e \in NotFound(p)', e \notin NotFound(p), e \notin NotFound(d)
               PROVE  FALSE
  BY <1>1
<1>3. \A S \in SUBSET Packages :
        (Uses[p] \subseteq S /\ \A u \in S : Have(u)' => Uses[u] \subseteq S) => e \in S
  BY <1>2 DEF NotFound
<1>4. PICK S \in SUBSET Packages :
        Uses[p] \subseteq S /\ (\A u \in S : Have(u) => Uses[u] \subseteq S) /\ e \notin S
  BY <1>1, <1>2 DEF NotFound
<1>5. PICK T \in SUBSET Packages :
        Uses[d] \subseteq T /\ (\A u \in T : Have(u) => Uses[u] \subseteq T) /\ e \notin T
  BY <1>1, <1>2 DEF NotFound
<1>6. ASSUME NEW u \in S \union T, Have(u)' PROVE Uses[u] \subseteq S \union T
  <2>1. u = d \/ Have(u)
    BY <1>6 DEF Have
  <2>. QED  BY <1>4, <1>5, <2>1
<1>. QED  BY <1>3, <1>4, <1>5, <1>6

\* What a call knows does not change with what it does not depend on.
LEMMA SameAsserting ==
  ASSUME NEW f, NEW inner, UNCHANGED <<installed, list, cmd>>, Asserting(f, inner)
  PROVE  Asserting(f, inner)'
<1>1. NotFound(f.pkg)' = NotFound(f.pkg)
  BY SameFound
<1>2. \A e : Listed("pkgs", e)' <=> Listed("pkgs", e)
  BY DEF Listed
<1>. QED  BY <1>1, <1>2 DEF Asserting, Provided

-----------------------------------------------------------------------------
(* Each way the stack can change. *)

LEMMA NoneAsserts ==
  ASSUME stack' = <<>>
  PROVE  Asserted'
BY EmptySeq, LenProperties DEF Asserted

\* The innermost call goes on.
LEMMA GoesOn ==
  ASSUME stack \in Seq(Frames), stack # <<>>, Asserted, NEW g \in Frames, g.pkg = Top.pkg,
         stack' = [stack EXCEPT ![Len(stack)] = g],
         1 < Len(stack) => installed' = installed, UNCHANGED <<list, cmd>>,
         Alone(g)'
  PROVE  Asserted'
<1>1. PICK n \in Nat \ {0} :
        /\ Len(stack) = n /\ Len(stack') = n
        /\ \A i \in 1..n : stack'[i] = IF i = n THEN g ELSE stack[i]
  BY Replaced, TopFrame
<1>2. ASSUME NEW i \in 1..n, i = n PROVE Asserting(stack[i], Inner(i))'
  <2>1. Inner(i)' = {} /\ stack'[i] = g
    BY <1>1, <1>2 DEF Inner
  <2>. QED  BY <2>1 DEF Alone, Asserting, Provided
<1>3. ASSUME NEW i \in 1..n, i # n
      PROVE  Asserting(stack[i], Inner(i))' /\ stack'[i].at = "deps"
  <2>1. i < n /\ i + 1 \in 1..n /\ 1 < n
    BY <1>3
  <2>2. stack'[i] = stack[i] /\ stack'[i + 1].pkg = stack[i + 1].pkg
    BY <1>1, <1>3, <2>1 DEF Top
  <2>3. Inner(i)' = Inner(i)
    BY <1>1, <2>1, <2>2 DEF Inner
  <2>4. Asserting(stack[i], Inner(i)) /\ stack[i].at = "deps"
    BY <1>1, <2>1 DEF Asserted
  <2>5. \A f, s : Asserting(f, s) => Asserting(f, s)'
    BY <1>1, <2>1, SameAsserting
  <2>. QED  BY <2>2, <2>3, <2>4, <2>5 DEF Asserting, Provided
<1>4. \A i \in 1..n : Asserting(stack[i], Inner(i))' /\ (i < n => stack'[i].at = "deps")
  BY <1>2, <1>3
<1>. QED  BY <1>1, <1>4 DEF Asserted

\* It calls for d, which it asserts.
LEMMA GoesIn ==
  ASSUME stack \in Seq(Frames), stack # <<>>, Asserted, NEW g \in Frames, g.pkg = Top.pkg,
         NEW d \in Packages, g.at = "deps", cmd.op # "fetch",
         stack' = Append([stack EXCEPT ![Len(stack)] = g], Frame(d, "sources")),
         UNCHANGED <<installed, list, cmd>>, Asserting(g, {d})
  PROVE  Asserted'
<1>. DEFINE s == [stack EXCEPT ![Len(stack)] = g]
            h == Frame(d, "sources")
<1>1. /\ s \in Seq(Frames) /\ Len(s) = Len(stack) /\ Len(stack) \in Nat \ {0}
      /\ \A i \in 1..Len(stack) : s[i] = IF i = Len(stack) THEN g ELSE stack[i]
  BY Replaced, TopFrame
<1>2. h \in Frames /\ h.pkg = d /\ h.at = "sources"
  BY NetAssumption DEF Frame, Frames, Projects, Phases
<1>3. /\ Len(stack') = Len(stack) + 1 /\ stack'[Len(stack) + 1] = h
      /\ \A i \in 1..Len(stack) : stack'[i] = s[i]
  <2>1. stack' = Append(s, h)
    OBVIOUS
  <2>. HIDE DEF s, h
  <2>. QED  BY <1>1, <1>2, <2>1, Pushed
<1>. HIDE DEF s, h
<1>4. \A f, x : Asserting(f, x) => Asserting(f, x)'
  BY SameAsserting
<1>5. ASSUME NEW i \in 1..(Len(stack) + 1)
      PROVE  /\ Asserting(stack[i], Inner(i))'
             /\ i < Len(stack) + 1 => stack'[i].at = "deps"
  <2>1. CASE i = Len(stack) + 1
    <3>1. stack'[i] = h
      BY <1>3, <2>1
    <3>. QED  BY <1>2, <3>1, <2>1, <1>1 DEF Asserting
  <2>2. CASE i = Len(stack)
    <3>1. stack'[i] = g /\ i + 1 = Len(stack) + 1 /\ i < Len(stack')
      BY <1>1, <1>3, <2>2
    <3>2. Inner(i)' = {d}
      BY <1>2, <1>3, <3>1 DEF Inner
    <3>3. Asserting(g, {d})'
      BY <1>4
    <3>. QED  BY <3>1, <3>2, <3>3 DEF Asserting, Provided
  <2>3. CASE i < Len(stack)
    <3>1. i \in 1..Len(stack) /\ i + 1 \in 1..Len(stack) /\ i # Len(stack) /\ i < Len(stack')
      BY <1>1, <1>3, <2>3
    <3>2. stack'[i] = stack[i] /\ stack'[i + 1].pkg = stack[i + 1].pkg
      BY <1>1, <1>3, <3>1 DEF Top
    <3>3. Inner(i)' = Inner(i)
      BY <2>3, <3>1, <3>2 DEF Inner
    <3>4. Asserting(stack[i], Inner(i)) /\ stack[i].at = "deps"
      BY <3>1, <2>3 DEF Asserted
    <3>. QED  BY <3>2, <3>3, <3>4, <1>4 DEF Asserting, Provided
  <2>. QED  BY <1>1, <2>1, <2>2, <2>3
<1>. QED  BY <1>3, <1>5 DEF Asserted

\* The innermost call has installed its package, and returns.
LEMMA GoesBack ==
  ASSUME stack \in Seq(Frames), stack # <<>>, Asserted, Top.at = "install",
         NEW d \in Packages, d = Top.pkg, EndCall, list' = list, Have(d)',
         \A q \in Packages : q # d => installed'[q] = installed[q]
  PROVE  Asserted'
<1>1. /\ Len(stack) \in Nat \ {0} /\ Len(stack) \in 1..Len(stack)
      /\ Front(stack) \in Seq(Frames) /\ Len(Front(stack)) = Len(stack) - 1
      /\ \A i \in 1..(Len(stack) - 1) : Front(stack)[i] = stack[i]
  BY Popped, TopFrame
<1>2. Len(stack') = Len(stack) - 1 /\ \A i \in 1..(Len(stack) - 1) : stack'[i] = stack[i]
  BY <1>1 DEF EndCall
<1>3. Asserting(Top, Inner(Len(stack)))
  BY <1>1 DEF Asserted, Top
<1>4. NotFound(d) \subseteq {d}
  BY <1>3 DEF Asserting
<1>5. ASSUME NEW i \in 1..(Len(stack) - 1)
      PROVE  Asserting(stack[i], Inner(i))' /\ stack'[i].at = "deps"
  <2>1. i \in 1..Len(stack) /\ i < Len(stack) /\ i + 1 \in 1..Len(stack) /\ Len(stack) # 1
    BY <1>1
  <2>2. Asserting(stack[i], Inner(i)) /\ stack[i].at = "deps" /\ stack'[i] = stack[i]
    BY <1>2, <1>5, <2>1 DEF Asserted
  <2>3. cmd' = cmd
    BY <2>1 DEF EndCall
  <2>a. PICK p : p = stack[i].pkg
    OBVIOUS
  <2>4. NotFound(p)' \subseteq NotFound(p) \ {d}
    BY <1>4, FoundMore
  <2>5. Inner(i) \subseteq Inner(i)' \union {d}
    <3>1. CASE i + 1 = Len(stack)
      BY <2>1, <3>1 DEF Inner, Top
    <3>2. CASE i + 1 # Len(stack)
      <4>1. i + 1 \in 1..(Len(stack) - 1) /\ i < Len(stack')
        BY <1>1, <1>2, <2>1, <3>2
      <4>2. stack'[i + 1] = stack[i + 1]
        BY <1>2, <4>1
      <4>. QED  BY <2>1, <4>1, <4>2 DEF Inner
    <3>. QED  BY <3>1, <3>2
  <2>6. \A e : Listed("pkgs", e)' <=> Listed("pkgs", e)
    BY DEF Listed
  <2>7. Provided(stack[i].pkg, stack[i].todo \union Inner(i))
    BY <2>2 DEF Asserting
  <2>8. Provided(stack[i].pkg, stack[i].todo \union Inner(i))'
    <3>1. \A e \in NotFound(p)' \ {p} : Listed("pkgs", e)' => e \in stack[i].todo \union Inner(i)'
      BY <2>a, <2>4, <2>5, <2>6, <2>7 DEF Provided
    <3>. QED  BY <3>1, <2>2, <2>a DEF Provided
  <2>. QED  BY <2>2, <2>3, <2>8 DEF Asserting
<1>. QED  BY <1>1, <1>2, <1>5 DEF Asserted

-----------------------------------------------------------------------------
(* The innermost call. *)

LEMMA TopFacts ==
  ASSUME NEW rank, Inv(rank), Asserted, stack # <<>>
  PROVE  /\ stack \in Seq(Frames) /\ Len(stack) \in Nat \ {0}
         /\ Top \in Frames /\ Fits(Top) /\ cmd.state = "run" /\ Alone(Top)
         /\ stack[1].pkg = cmd.pkg
<1>1. stack \in Seq(Frames)
  BY DEF Inv, TypeOK
<1>2. Len(stack) \in Nat \ {0} /\ Len(stack) \in 1..Len(stack) /\ Top \in Frames
  BY <1>1, TopFrame
<1>3. Fits(Top)
  BY <1>2 DEF Inv, Sound, Top
<1>4. Inner(Len(stack)) = {}
  BY <1>2 DEF Inner
<1>5. Alone(Top)
  BY <1>2, <1>4 DEF Asserted, Alone, Top
<1>. QED  BY <1>1, <1>2, <1>3, <1>5 DEF Inv

\* Only the user's own project, and a package that is fetched, are never
\* asserted by another call.
LEMMA Outermost ==
  ASSUME NEW rank, Inv(rank), Asserted, stack # <<>>, Top.pkg = Here \/ Top.at = "archive"
  PROVE  Len(stack) = 1
<1>1. Len(stack) \in Nat \ {0} /\ Alone(Top)
  BY TopFacts
<1>2. SUFFICES ASSUME Len(stack) # 1 PROVE FALSE
  OBVIOUS
<1>3. 1 < Len(stack) /\ 1 \in 1..Len(stack) /\ Len(stack) \in 1..Len(stack)
  <2>1. PICK n \in Nat \ {0} : n = Len(stack)
    BY <1>1
  <2>2. 1 < n /\ 1 \in 1..n /\ n \in 1..n
    BY <1>2, <2>1
  <2>. QED  BY <2>1, <2>2
<1>4. Top.pkg # Here
  BY <1>3, NetAssumption DEF Inv, Descending, Top
<1>5. cmd.op = "fetch"
  BY <1>1, <1>4 DEF Alone, Asserting
<1>6. stack[1].at = "deps" /\ Asserting(stack[1], Inner(1))
  BY <1>3 DEF Asserted
<1>. QED  BY <1>5, <1>6 DEF Asserting

\* What an outermost call leaves when it returns.
LEMMA LastReturns ==
  ASSUME stack \in Seq(Frames), Len(stack) = 1, stack' = Front(stack)
  PROVE  stack' = <<>>
<1>1. stack # <<>>
  <2>1. \A s : s = <<>> => Len(s) = 0
    OBVIOUS
  <2>2. Len(stack) # 0
    OBVIOUS
  <2>. QED  BY <2>1, <2>2, Zenon
<1>2. stack' \in Seq(Frames) /\ Len(stack') = 0
  BY <1>1, Popped
<1>. QED  BY <1>2, EmptySeq

-----------------------------------------------------------------------------
(* The steps. *)

LEMMA StepAsserted ==
  ASSUME NEW rank, Ranks(rank), Inv(rank), Asserted, [Next]_vars
  PROVE  Asserted'
<1>1. installed \in [Packages -> 0..MaxGen]
  BY DEF Inv, TypeOK
<1>2. stack # <<>> =>
        /\ stack \in Seq(Frames) /\ Len(stack) \in Nat \ {0} /\ Len(stack) \in 1..Len(stack)
        /\ Top \in Frames /\ Fits(Top) /\ cmd.state = "run" /\ Alone(Top)
  BY TopFacts
<1>3. ASSUME stack' = <<>> PROVE Asserted'
  BY <1>3, NoneAsserts
<1>4. ASSUME stack # <<>>, NEW g \in Frames, g.pkg = Top.pkg,
             stack' = [stack EXCEPT ![Len(stack)] = g],
             1 < Len(stack) => installed' = installed, UNCHANGED <<list, cmd>>, Alone(g)'
      PROVE  Asserted'
  BY <1>2, <1>4, GoesOn
<1>5. CASE UNCHANGED vars
  <2>1. UNCHANGED <<installed, list, cmd, stack>>
    BY <1>5 DEF vars
  <2>. QED  BY <2>1 DEF Asserted, Asserting, Provided, Inner, NotFound, Have, Listed
<1>6. CASE User \/ ChooseMirror \/ \E l \in Names : Transfer(l)
  <2>1. cmd.state # "run" /\ stack' = stack
    BY <1>6 DEF User, Publish, Forget, Uninstall, Command, Busy, Running, ChooseMirror, Transfer,
                Names
  <2>. QED  BY <2>1, <1>2, <1>3
<1>7. CASE \/ Exit \/ NoConfig \/ NoLists \/ Unknown \/ NoSources \/ BuildFails \/ InstallFails
           \/ \E d \in Packages : AssertUnknown(d)
  BY <1>7, <1>3 DEF Exit, NoConfig, NoLists, Unknown, NoSources, BuildFails, InstallFails,
                    AssertUnknown, Unwind
<1>8. CASE Start
  <2>. DEFINE at == IF cmd.op = "deps" THEN "trace" ELSE "sources"
  <2>1. PICK g : g = Frame(cmd.pkg, at)
    OBVIOUS
  <2>2. g.at = at /\ stack' = <<g>> /\ cmd' = cmd
    BY <1>8, <2>1 DEF Frame, Start
  <2>3. stack'[1] = g /\ Len(stack') = 1 /\ \A i \in 1..1 : i = 1
    BY <2>2
  <2>4. ASSUME NEW x PROVE Asserting(g, x)'
    BY <2>2 DEF Asserting
  <2>5. Asserting(stack[1], Inner(1))'
    BY <2>3, <2>4 DEF Asserting, Provided
  <2>. QED  BY <2>3, <2>5 DEF Asserted
<1>9. CASE GetSources
  <2>. DEFINE at == IF cmd.op = "fetch" THEN "archive" ELSE "uninstall"
  <2>1. stack # <<>> /\ UNCHANGED <<list, installed, cmd>>
    BY <1>9 DEF GetSources, Step
  <2>2. PICK src : stack' = [stack EXCEPT ![Len(stack)].src = src, ![Len(stack)].at = at]
    BY <1>9 DEF GetSources
  <2>3. PICK g : g = [Top EXCEPT !.src = src, !.at = at]
    OBVIOUS
  <2>4. stack' = [stack EXCEPT ![Len(stack)] = g]
    <3>. HIDE DEF at
    <3>1. Len(stack) \in DOMAIN stack
      BY <1>2, <2>1, LenProperties
    <3>. QED  BY <2>2, <2>3, <3>1 DEF Top
  <2>5. stack' \in Seq(Frames) /\ Len(stack) \in DOMAIN stack
    BY <1>2, <2>1, StepTypes, LenProperties DEF Inv, TypeOK
  <2>6. g \in Frames
    BY <1>2, <2>1, <2>4, <2>5, ElementOfSeq, LenProperties
  <2>7. g.pkg = Top.pkg /\ g.at = at
    BY <1>2, <2>1, <2>3 DEF Frames
  <2>8. Alone(g)'
    BY <2>1, <2>7 DEF Alone, Asserting
  <2>. QED  BY <1>4, <2>1, <2>4, <2>6, <2>7, <2>8
<1>10. ASSUME stack # <<>>, NEW at \in Phases, Goto(at), UNCHANGED <<list, cmd>>,
              1 < Len(stack) => installed' = installed,
              \A g \in Frames : g.pkg = Top.pkg /\ g.todo = Top.todo /\ g.at = at => Alone(g)'
       PROVE  Asserted'
  <2>1. PICK g : g = [Top EXCEPT !.at = at]
    OBVIOUS
  <2>2. g \in Frames /\ g.pkg = Top.pkg /\ g.todo = Top.todo /\ g.at = at
    BY <1>2, <1>10, <2>1 DEF Frames
  <2>3. stack' = [stack EXCEPT ![Len(stack)] = g]
    BY <1>2, <1>10, <2>1, TopWritten DEF Goto
  <2>4. Alone(g)'
    BY <1>10, <2>2
  <2>. QED  BY <1>4, <1>10, <2>2, <2>3, <2>4
<1>11. CASE UninstallOld
  <2>1. /\ stack # <<>> /\ Top.at = "uninstall" /\ Goto("trace") /\ UNCHANGED <<list, cmd>>
        /\ installed' = IF Top.pkg = Dsss THEN installed ELSE [installed EXCEPT ![Top.pkg] = 0]
    BY <1>11 DEF UninstallOld, Step
  <2>2. ASSUME 1 < Len(stack) PROVE installed' = installed
    <3>1. 1 \in 1..Len(stack) /\ Len(stack) \in 1..Len(stack)
      BY <1>2, <2>1, <2>2
    <3>2. Top.pkg \in Packages /\ installed[Top.pkg] = 0
      BY <2>2, <3>1 DEF Inv, Descending, Top
    <3>. QED  BY <1>1, <2>1, <3>2
  <2>3. cmd.op # "fetch"
    BY <1>2, <2>1 DEF Alone, Asserting
  <2>4. \A g \in Frames : g.at = "trace" => Alone(g)'
    BY <2>1, <2>3 DEF Alone, Asserting
  <2>. QED  BY <1>10, <2>1, <2>2, <2>4 DEF Phases
<1>12. CASE Trace
  <2>. DEFINE t == ToInstall(Top.pkg)
  <2>1. stack # <<>> /\ Top.at = "trace" /\ UNCHANGED <<list, installed, cmd>>
    BY <1>12 DEF Trace, Step
  <2>2. t \in SUBSET Packages
    BY <1>2, <2>1, NeedsArePackages DEF Frames
  <2>3. PICK g : g = [Top EXCEPT !.todo = t, !.at = "deps"]
    OBVIOUS
  <2>4. g \in Frames /\ g.pkg = Top.pkg /\ g.todo = t /\ g.at = "deps"
    <3>. HIDE DEF t
    <3>. QED  BY <1>2, <2>1, <2>2, <2>3 DEF Frames, Phases
  <2>5. stack' = [stack EXCEPT ![Len(stack)] = g]
    <3>1. stack' = [stack EXCEPT ![Len(stack)].todo = t, ![Len(stack)].at = "deps"]
      BY <1>12 DEF Trace
    <3>. HIDE DEF t
    <3>2. Len(stack) \in DOMAIN stack
      BY <1>2, <2>1, LenProperties
    <3>. QED  BY <2>3, <3>1, <3>2 DEF Top
  <2>6. cmd.op # "fetch"
    BY <1>2, <2>1 DEF Alone, Asserting
  <2>7. \A e \in NotFound(g.pkg) \ {g.pkg} : Listed("pkgs", e) => e \in g.todo
    BY <2>4 DEF ToInstall
  <2>8. Asserting(g, {})
    BY <2>4, <2>6, <2>7 DEF Asserting, Provided
  <2>9. Alone(g)'
    BY <2>1, <2>8, SameAsserting DEF Alone
  <2>. QED  BY <1>4, <2>1, <2>4, <2>5, <2>9
<1>13. ASSUME NEW d \in Packages, AssertInstalled(d) PROVE Asserted'
  <2>1. stack # <<>> /\ Top.at = "deps" /\ UNCHANGED <<list, installed, cmd>>
    BY <1>13 DEF AssertInstalled, Step
  <2>2. PICK g : g = [Top EXCEPT !.todo = @ \ {d}]
    OBVIOUS
  <2>3. g \in Frames /\ g.pkg = Top.pkg /\ g.todo = Top.todo \ {d} /\ g.at = "deps"
    BY <1>2, <2>1, <2>2 DEF Frames
  <2>4. [stack EXCEPT ![Len(stack)].todo = @ \ {d}] = [stack EXCEPT ![Len(stack)] = g]
    BY <1>2, <2>1, <2>2, TopWritten
  <2>5. Provided(Top.pkg, Top.todo) /\ cmd.op # "fetch"
    BY <1>2, <2>1 DEF Alone, Asserting
  <2>6. Asserting(g, {d})
    BY <2>3, <2>5 DEF Asserting, Provided
  <2>7. CASE Have(d)
    <3>1. stack' = [stack EXCEPT ![Len(stack)] = g]
      BY <1>13, <2>4, <2>7 DEF AssertInstalled
    <3>2. d \notin NotFound(g.pkg)
      BY <2>7 DEF NotFound
    <3>3. Asserting(g, {})
      BY <2>3, <2>6, <3>2 DEF Asserting, Provided
    <3>4. Alone(g)'
      BY <2>1, <3>3, SameAsserting DEF Alone
    <3>. QED  BY <1>4, <2>1, <2>3, <3>1, <3>4
  <2>8. CASE ~Have(d)
    <3>1. stack' = Append([stack EXCEPT ![Len(stack)] = g], Frame(d, "sources"))
      BY <1>13, <2>4, <2>8 DEF AssertInstalled
    <3>. QED  BY <1>2, <2>1, <2>3, <2>5, <2>6, <3>1, GoesIn
  <2>. QED  BY <2>7, <2>8
<1>14. CASE DepsDone
  <2>1. /\ stack # <<>> /\ Top.at = "deps" /\ Top.todo = {}
        /\ UNCHANGED <<list, installed>>
    BY <1>14 DEF DepsDone, Step
  <2>2. CASE Goto("build") /\ cmd' = cmd
    <3>1. Provided(Top.pkg, {}) /\ cmd.op # "fetch"
      BY <1>2, <2>1 DEF Alone, Asserting
    <3>2. ASSUME NEW g \in Frames, g.pkg = Top.pkg, g.todo = Top.todo, g.at = "build"
          PROVE  Alone(g)'
      <4>1. Asserting(g, {})
        BY <2>1, <3>1, <3>2 DEF Asserting, Provided
      <4>. QED  BY <2>1, <2>2, <4>1, SameAsserting DEF Alone
    <3>. QED  BY <1>10, <2>1, <2>2, <3>2 DEF Phases
  <2>3. CASE Top.pkg = Here /\ EndCall
    BY <1>2, <1>3, <2>1, <2>3, Outermost, LastReturns DEF EndCall
  <2>. QED  BY <1>14, <2>2, <2>3 DEF DepsDone
<1>15. CASE BuildIt
  <2>1. /\ stack # <<>> /\ Top.at = "build" /\ Goto("install")
        /\ UNCHANGED <<list, installed, cmd>> /\ NotFound(Top.pkg) \subseteq {Top.pkg}
    BY <1>15 DEF BuildIt, Step
  <2>2. Provided(Top.pkg, Top.todo) /\ Top.todo = {} /\ cmd.op # "fetch"
    BY <1>2, <2>1 DEF Alone, Asserting
  <2>3. ASSUME NEW g \in Frames, g.pkg = Top.pkg, g.todo = Top.todo, g.at = "install"
        PROVE  Alone(g)'
    <3>1. Asserting(g, {})
      BY <2>1, <2>2, <2>3 DEF Asserting, Provided
    <3>. QED  BY <2>1, <3>1, SameAsserting DEF Alone
  <2>. QED  BY <1>10, <2>1, <2>3 DEF Phases
<1>16. CASE Archive
  BY <1>2, <1>3, <1>16, Outermost, LastReturns DEF Archive, Step, EndCall
<1>17. CASE InstallIt
  <2>1. /\ stack # <<>> /\ Top.at = "install" /\ EndCall /\ list' = list
        /\ installed' = [installed EXCEPT ![Top.pkg] = Top.src]
    BY <1>17 DEF InstallIt, Step
  <2>2. PICK d : d = Top.pkg
    OBVIOUS
  <2>3. d \in Packages /\ Top.src # 0
    BY <1>2, <2>1, <2>2 DEF Fits, Frames, Projects
  <2>4. Have(d)' /\ \A q \in Packages : q # d => installed'[q] = installed[q]
    BY <1>1, <2>1, <2>2, <2>3 DEF Have
  <2>. QED  BY <1>2, <2>1, <2>2, <2>3, <2>4, GoesBack
<1>. QED
  BY <1>5, <1>6, <1>7, <1>8, <1>9, <1>11, <1>12, <1>13, <1>14, <1>15, <1>16, <1>17 DEF Next, Work

LEMMA StepSuccess ==
  ASSUME NEW rank, Ranks(rank), Inv(rank), Asserted, SuccessMeansInstalled, [Next]_vars
  PROVE  SuccessMeansInstalled'
<1>1. installed \in [Packages -> 0..MaxGen] /\ cmd \in Commands
  BY DEF Inv, TypeOK
<1>2. stack # <<>> =>
        /\ stack \in Seq(Frames) /\ Top \in Frames /\ Fits(Top) /\ cmd.state = "run" /\ Alone(Top)
        /\ stack[1].pkg = cmd.pkg
  BY TopFacts
<1>3. ASSUME cmd'.state # "ok" PROVE SuccessMeansInstalled'
  BY <1>3 DEF SuccessMeansInstalled
<1>4. CASE UNCHANGED vars
  <2>1. UNCHANGED <<installed, list, cmd>>
    BY <1>4 DEF vars
  <2>. QED  BY <2>1 DEF SuccessMeansInstalled, NotFound, Have, Listed
<1>5. CASE User \/ Exit \/ NoConfig
  BY <1>3, <1>5 DEF User, Publish, Forget, Uninstall, Command, Exit, NoConfig, NoCommand
<1>6. CASE ChooseMirror \/ Start \/ \E l \in Names : Transfer(l)
  BY <1>1, <1>3, <1>6 DEF ChooseMirror, Start, Starting, Transfer, Commands
<1>7. CASE \/ NoLists \/ Unknown \/ NoSources \/ BuildFails \/ InstallFails
           \/ \E d \in Packages : AssertUnknown(d)
  BY <1>3, <1>7 DEF NoLists, Unknown, NoSources, BuildFails, InstallFails, AssertUnknown, Unwind,
                    NoCommand
<1>8. CASE \/ GetSources \/ UninstallOld \/ Trace \/ BuildIt
           \/ \E d \in Packages : AssertInstalled(d)
  BY <1>2, <1>3, <1>8 DEF GetSources, UninstallOld, Trace, BuildIt, AssertInstalled, Step
<1>9. ASSUME stack # <<>>, EndCall, Len(stack) # 1 PROVE SuccessMeansInstalled'
  <2>1. cmd'.state = "run"
    BY <1>2, <1>9 DEF EndCall
  <2>. QED  BY <1>3, <2>1
<1>10. ASSUME stack # <<>>, EndCall, Len(stack) = 1
       PROVE  cmd'.op = cmd.op /\ cmd'.pkg = cmd.pkg /\ cmd.pkg = Top.pkg
  BY <1>1, <1>2, <1>10 DEF EndCall, Commands, Top
<1>11. CASE Archive
  <2>1. stack # <<>> /\ EndCall /\ Top.at = "archive"
    BY <1>11 DEF Archive, Step
  <2>2. cmd.op = "fetch"
    BY <1>2, <2>1 DEF Alone, Asserting
  <2>. QED  BY <1>9, <1>10, <2>1, <2>2 DEF SuccessMeansInstalled
<1>12. CASE DepsDone
  <2>1. stack # <<>> /\ Top.at = "deps" /\ Top.todo = {} /\ UNCHANGED <<list, installed>>
    BY <1>12 DEF DepsDone, Step
  <2>2. CASE cmd' = cmd
    BY <1>2, <1>3, <2>1, <2>2
  <2>3. CASE Top.pkg = Here /\ EndCall
    <3>1. Len(stack) = 1
      BY <2>1, <2>3, Outermost
    <3>2. cmd'.op = cmd.op /\ cmd.pkg = Here
      BY <1>10, <2>1, <2>3, <3>1
    <3>3. cmd.op # "install"
      BY <1>1, <3>2 DEF Commands
    <3>4. Provided(Here, {})
      BY <1>2, <2>1, <2>3 DEF Alone, Asserting
    <3>5. \A d \in NotFound(Here) : ~Listed("pkgs", d)
      BY <3>4, NotFoundType, NetAssumption DEF Provided
    <3>6. NotFound(Here)' = NotFound(Here) /\ \A d : Listed("pkgs", d)' <=> Listed("pkgs", d)
      BY <2>1, SameFound DEF Listed
    <3>. QED  BY <3>2, <3>3, <3>5, <3>6 DEF SuccessMeansInstalled
  <2>. QED  BY <1>12, <2>2, <2>3 DEF DepsDone
<1>13. CASE InstallIt
  <2>1. /\ stack # <<>> /\ Top.at = "install" /\ EndCall
        /\ installed' = [installed EXCEPT ![Top.pkg] = Top.src]
    BY <1>13 DEF InstallIt, Step
  <2>2. CASE Len(stack) # 1
    BY <1>9, <2>1, <2>2
  <2>3. CASE Len(stack) = 1
    <3>1. PICK d : d = Top.pkg
      OBVIOUS
    <3>2. d \in Packages /\ Top.src # 0 /\ d # Here
      BY <1>2, <2>1, <3>1, NetAssumption DEF Fits, Frames, Projects
    <3>3. Have(d)' /\ \A q \in Packages : q # d => installed'[q] = installed[q]
      BY <1>1, <2>1, <3>1, <3>2 DEF Have
    <3>4. NotFound(d) \subseteq {d}
      BY <1>2, <2>1, <3>1 DEF Alone, Asserting
    <3>5. NotFound(d)' = {}
      BY <3>2, <3>3, <3>4, FoundMore
    <3>6. cmd'.op = cmd.op /\ cmd'.pkg = d /\ cmd.op # "deps"
      BY <1>1, <1>10, <2>1, <2>3, <3>1, <3>2 DEF Commands
    <3>. QED  BY <3>3, <3>5, <3>6 DEF SuccessMeansInstalled
  <2>. QED  BY <2>2, <2>3
<1>. QED
  BY <1>4, <1>5, <1>6, <1>7, <1>8, <1>11, <1>12, <1>13 DEF Next, Work

-----------------------------------------------------------------------------
(* The theorems. *)

LEMMA SpecAsserted ==
  ASSUME NEW rank, Ranks(rank)
  PROVE  Spec => [](Inv(rank) /\ Asserted /\ SuccessMeansInstalled)
<1>1. Init => Inv(rank) /\ Asserted /\ SuccessMeansInstalled
  <2>. SUFFICES ASSUME Init PROVE Inv(rank) /\ Asserted /\ SuccessMeansInstalled
    OBVIOUS
  <2>1. stack = <<>> /\ cmd.state = "idle"
    BY DEF Init, NoCommand
  <2>2. Asserted
    BY <2>1, EmptySeq DEF Asserted
  <2>. QED  BY <2>1, <2>2, InitInv DEF SuccessMeansInstalled
<1>2. Inv(rank) /\ Asserted /\ SuccessMeansInstalled /\ [Next]_vars
        => (Inv(rank) /\ Asserted /\ SuccessMeansInstalled)'
  BY StepInv, StepAsserted, StepSuccess
<1>. QED  BY <1>1, <1>2, PTL DEF Spec

\* Whatever a package imports, through however many packages and installed in
\* whatever order by calls within calls, it is built after all of it has been
\* installed, as far as pkgs.list knows it.
THEOREM NetDependenciesFirst == Acyclic => (Spec => []DependenciesFirst)
<1>. SUFFICES ASSUME NEW rank, Ranks(rank) PROVE Spec => []DependenciesFirst
  BY DEF Acyclic
<1>1. Inv(rank) /\ Asserted => DependenciesFirst
  <2>. SUFFICES ASSUME Inv(rank), Asserted, NEW i \in DOMAIN stack,
                       stack[i].at \in {"build", "install"},
                       NEW d \in NotFound(stack[i].pkg) \ {stack[i].pkg}
                PROVE  ~Listed("pkgs", d)
    BY DEF DependenciesFirst
  <2>1. i \in 1..Len(stack)
    BY LenProperties DEF Inv, TypeOK
  <2>2. Asserting(stack[i], Inner(i)) /\ ~(i < Len(stack))
    BY <2>1 DEF Asserted
  <2>. QED  BY <2>2 DEF Asserting, Provided, Inner
<1>. QED  BY <1>1, SpecAsserted, PTL

\* A command that returns 0 has left nothing out, though failed transfers and
\* archives were not noticed.
THEOREM NetSuccessMeansInstalled == Acyclic => (Spec => []SuccessMeansInstalled)
<1>. SUFFICES ASSUME NEW rank, Ranks(rank) PROVE Spec => []SuccessMeansInstalled
  BY DEF Acyclic
<1>. QED  BY SpecAsserted, PTL

=============================================================================
