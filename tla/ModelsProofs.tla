---------------------------- MODULE ModelsProofs ----------------------------
(***************************************************************************)
(* Proofs about Models: any service model, of any number of shapes with any *)
(* pattern of references, and any order in which the walk takes them.       *)
(***************************************************************************)
EXTENDS Models, FiniteSetTheorems, SequenceTheorems, WellFoundedInduction, TLAPS

\* The interpreter's stack is as deep as any model has shapes.
ShapesFit == \A i \in Inputs : Cardinality(DOMAIN i.model.shapes) < RecursionLimit

-----------------------------------------------------------------------------
(* The inductive invariant.                                                  *)

Known_operations == input.operations \subseteq DOMAIN model.operations

\* What the walk has marked or has still to visit.
Visited(r) == r \in reachable \/ \E i \in 1 .. Len(frames) : r \in frames[i]

\* The walk goes nowhere but along references from a selected operation ...
WalkSound ==
    /\ pending \subseteq _parse_operations
    /\ reachable \subseteq Closure
    /\ \A i \in 1 .. Len(frames) : frames[i] \subseteq Closure

\* ... and forgets none of them.
WalkComplete ==
    pc = "walk" =>
        /\ \A op \in _parse_operations \ pending : \A r \in Roots(op) : Visited(r)
        /\ \A s \in reachable : \A r \in Refs(s) : Visited(r)

\* Each frame above the first was entered for a shape of its own.
WalkDepth == Len(frames) <= Cardinality(reachable) + 1

Walked == {"parse", "written", "unsupported", "SyntaxError", "TypeError", "compiled"}

\* Which shapes _parse_shapes goes on after.
Passes(s) ==
    /\ ~ (Shape(s).type = "structure" /\ Fatal(s) # {})
    /\ Supported(s) \/ skip_unsupported

Parsed ==
    pc \in Walked =>
        /\ reachable = Closure
        /\ \A s \in reachable \ todo : Passes(s)
        /\ DOMAIN shapes = {s \in reachable \ todo : Supported(s)}
        /\ \A s \in DOMAIN shapes : shapes[s] = Entry(s)

Phases ==
    /\ pc = "select" => reachable = {} /\ pending = {} /\ frames = <<>>
    /\ pc \notin Walked => todo = {} /\ DOMAIN shapes = {}
    /\ pc \in {"select", "walk", "parse"} => source = <<>>
    /\ pc \in {"written", "SyntaxError", "TypeError", "compiled"} => todo = {}

\* Why parse() raises.
Reasons ==
    /\ pc \notin {"select", "unknown operation"} => Known_operations
    /\ pc = "unknown operation" => ~ Known_operations
    /\ pc = "undefined shape" => ~ (Closure \subseteq DOMAIN model.shapes)
    /\ pc = "RecursionError" => ~ ShapesFit
    /\ pc = "unsupported" => \E s \in reachable : ~ Passes(s)

IInv ==
    /\ TypeOK /\ WalkSound /\ WalkComplete /\ WalkDepth /\ Parsed /\ Phases /\ Reasons
    /\ NamesAreGenerated
-----------------------------------------------------------------------------
(* The reference: Closure is the least closed set.                           *)

LEMMA ClosureClosed ==
    ASSUME TypeOK
    PROVE  /\ Closure \subseteq Names
           /\ Closed(Closure)
           /\ \A s \in Closure \cap DOMAIN model.shapes : Refs(s) \subseteq Closure
<1>1. Closure \subseteq Names
  BY DEF Closure
<1>2. ASSUME NEW s \in Closure \cap DOMAIN model.shapes, NEW r \in Refs(s)
      PROVE  r \in Closure
  <2>1. r \in Names
    BY DEF Names
  <2>2. ASSUME NEW S \in SUBSET Names, Closed(S) PROVE r \in S
    <3>1. s \in S
      BY <2>2 DEF Closure
    <3> QED
      BY <3>1, <2>2 DEF Closed
  <2> QED
    BY <2>1, <2>2 DEF Closure
<1>3. ASSUME NEW op \in _parse_operations, NEW r \in Roots(op)
      PROVE  r \in Closure
  <2>1. r \in Names
    <3>1. op \in DOMAIN model.operations
      BY DEF _parse_operations
    <3>2. r \in UNION {Roots(o) : o \in DOMAIN model.operations}
      BY <3>1
    <3> QED
      BY <3>2 DEF Names
  <2>2. ASSUME NEW S \in SUBSET Names, Closed(S) PROVE r \in S
    BY <2>2 DEF Closed
  <2> QED
    BY <2>1, <2>2 DEF Closure
<1> QED
  BY <1>1, <1>2, <1>3 DEF Closed

LEMMA ClosureLeast ==
    ASSUME NEW S \in SUBSET Names, Closed(S)
    PROVE  Closure \subseteq S
  BY DEF Closure

\* The argument of a step does not change.
LEMMA SameInput ==
    ASSUME UNCHANGED args
    PROVE  /\ Names' = Names /\ Closure' = Closure /\ _parse_operations' = _parse_operations
           /\ (Known_operations' <=> Known_operations) /\ model' = model
           /\ \A s : /\ Refs(s)' = Refs(s) /\ Shape(s)' = Shape(s) /\ Supported(s)' = Supported(s)
                     /\ Passes(s)' = Passes(s) /\ Entry(s)' = Entry(s)
           /\ \A op : Roots(op)' = Roots(op)
<1> USE DEF args
<1>1. model' = model
  BY DEF model
<1> QED
  BY <1>1 DEF Names, Closure, Closed, _parse_operations, Known_operations, Refs, Shape,
              Supported, Passes, Entry, Roots, Fatal, _parse_structure_shape, _resolve_pie_type

-----------------------------------------------------------------------------
(* Helpers.                                                                  *)

\* The loop over sorted(reachable) takes an element.
LEMMA MinIsMember ==
    ASSUME NEW S \in SUBSET Nat, S # {}
    PROVE  Min(S) \in S
<1>1. PICK x \in S : \A y \in S : ~ (<<y, x>> \in OpToRel(<, Nat))
  BY NatLessThanWellFounded, WFMin
<1>2. ASSUME NEW y \in S PROVE x <= y
  <2>1. <<y, x>> \in Nat \X Nat
    OBVIOUS
  <2>2. y < x => <<y, x>> \in OpToRel(<, Nat)
    BY <2>1 DEF OpToRel
  <2>3. ~ (y < x)
    BY <1>1, <2>2, Zenon
  <2> QED
    BY <2>3
<1> QED
  BY <1>2 DEF Min

LEMMA ScalarTypes ==
    /\ DOMAIN _SCALAR_TYPE_MAP = {"string", "integer", "long", "boolean", "blob", "timestamp"}
    /\ \A t \in DOMAIN _SCALAR_TYPE_MAP : _SCALAR_TYPE_MAP[t] \in {<<"str">>, <<"int">>}
  BY DEF _SCALAR_TYPE_MAP

\* The frames when the innermost loop leaves shape s behind.
LEMMA LeavingFacts ==
    ASSUME TypeOK, frames # <<>>, NEW s
    PROVE  /\ Len(frames) \in Nat \ {0}
           /\ Leaving(s) \in Seq(SUBSET Names) /\ Len(Leaving(s)) = Len(frames)
           /\ \A i \in 1 .. Len(frames) :
                  Leaving(s)[i] = IF i = Len(frames) THEN frames[i] \ {s} ELSE frames[i]
<1>1. frames \in Seq(SUBSET Names) /\ Len(frames) \in Nat \ {0}
  BY EmptySeq DEF TypeOK
<1>2. frames[Len(frames)] \ {s} \in SUBSET Names
  BY <1>1, ElementOfSeq
<1>3. Leaving(s) = [frames EXCEPT ![Len(frames)] = frames[Len(frames)] \ {s}]
  BY DEF Leaving
<1>4. Len(frames) \in 1 .. Len(frames)
  BY <1>1
<1> DEFINE e == frames[Len(frames)] \ {s}
<1> HIDE DEF e
<1>5. /\ [frames EXCEPT ![Len(frames)] = e] \in Seq(SUBSET Names)
      /\ Len([frames EXCEPT ![Len(frames)] = e]) = Len(frames)
      /\ \A j \in 1 .. Len(frames) :
             [frames EXCEPT ![Len(frames)] = e][j] = IF j = Len(frames) THEN e ELSE frames[j]
  BY <1>1, <1>2, <1>4, ExceptSeq DEF e
<1> QED
  BY <1>1, <1>3, <1>5 DEF e

\* The frames when _walk is called for shape s.
LEMMA EnteringFacts ==
    ASSUME TypeOK, frames # <<>>, NEW s, NEW R \in SUBSET Names
    PROVE  LET entered == Append(Leaving(s), R) IN
           /\ entered \in Seq(SUBSET Names) /\ Len(entered) = Len(frames) + 1
           /\ \A i \in 1 .. Len(frames) : entered[i] = Leaving(s)[i]
           /\ entered[Len(frames) + 1] = R
  BY LeavingFacts, AppendProperties

\* The frames when it returns.
LEMMA FrontFacts ==
    ASSUME TypeOK, frames # <<>>
    PROVE  /\ Len(frames) \in Nat \ {0}
           /\ Front(frames) \in Seq(SUBSET Names) /\ Len(Front(frames)) = Len(frames) - 1
           /\ \A i \in 1 .. Len(frames) - 1 : Front(frames)[i] = frames[i]
<1>1. frames \in Seq(SUBSET Names) /\ Len(frames) \in Nat \ {0}
  BY EmptySeq DEF TypeOK
<1>2. \A i \in 1 .. Len(frames) - 1 : frames[i] \in SUBSET Names
  BY <1>1, ElementOfSeq
<1>3. Front(frames) = SubSeq(frames, 1, Len(frames) - 1) /\ Len(frames) - 1 \in Int /\ 1 \in Int
  BY <1>1 DEF Front
<1>4. /\ Front(frames) \in Seq(SUBSET Names)
      /\ Len(Front(frames)) = IF 1 <= Len(frames) - 1 THEN Len(frames) - 1 - 1 + 1 ELSE 0
      /\ \A i \in 1 .. Len(frames) - 1 - 1 + 1 : Front(frames)[i] = frames[1 + i - 1]
  BY <1>2, <1>3, SubSeqProperties
<1>5. \A i \in 1 .. Len(frames) - 1 : i \in 1 .. Len(frames) - 1 - 1 + 1 /\ 1 + i - 1 = i
  BY <1>1
<1>6. Len(Front(frames)) = Len(frames) - 1
  <2> DEFINE n == Len(frames)
             m == Len(Front(frames))
  <2>1. n \in Nat \ {0} /\ m = IF 1 <= n - 1 THEN n - 1 - 1 + 1 ELSE 0
    BY <1>1, <1>4
  <2> HIDE DEF n, m
  <2>2. m = n - 1
    BY <2>1
  <2> QED
    BY <2>2 DEF n, m
<1> QED
  BY <1>1, <1>4, <1>5, <1>6

\* Marking a shape counts it.
LEMMA MarkFacts ==
    ASSUME TypeOK
    PROVE  /\ IsFiniteSet(reachable) /\ Cardinality(reachable) \in Nat
           /\ Cardinality(reachable) <= Cardinality(DOMAIN model.shapes)
           /\ Cardinality(DOMAIN model.shapes) \in Nat
           /\ \A s \in DOMAIN model.shapes \ reachable :
                  /\ Cardinality(reachable \cup {s}) = Cardinality(reachable) + 1
                  /\ Cardinality(reachable) < Cardinality(DOMAIN model.shapes)
<1>1. IsFiniteSet(DOMAIN model.shapes) /\ reachable \subseteq DOMAIN model.shapes
  BY ModelsAssumption DEF TypeOK, model
<1>2. IsFiniteSet(reachable) /\ Cardinality(reachable) <= Cardinality(DOMAIN model.shapes)
  BY <1>1, FS_Subset
<1>3. Cardinality(reachable) \in Nat /\ Cardinality(DOMAIN model.shapes) \in Nat
  BY <1>1, <1>2, FS_CardinalityType
<1>4. ASSUME NEW s \in DOMAIN model.shapes \ reachable
      PROVE  /\ Cardinality(reachable \cup {s}) = Cardinality(reachable) + 1
             /\ Cardinality(reachable) < Cardinality(DOMAIN model.shapes)
  <2>1. Cardinality(reachable \cup {s}) = Cardinality(reachable) + 1
    BY <1>2, FS_AddElement
  <2>2. Cardinality(reachable \cup {s}) <= Cardinality(DOMAIN model.shapes)
    BY <1>1, FS_Subset
  <2> QED
    BY <2>1, <2>2, <1>3
<1> QED
  BY <1>2, <1>3, <1>4
-----------------------------------------------------------------------------
(* The walk.                                                                 *)

LEMMA NoFrames == Len(<<>>) = 0 /\ DOMAIN <<>> = {} /\ \A S : <<>> \in Seq(S)
  BY EmptySeq

LEMMA SameSource == ASSUME NamesAreGenerated, UNCHANGED source PROVE NamesAreGenerated'
  BY DEF NamesAreGenerated, Known

LEMMA InitInvariant == Init => IInv
<1> SUFFICES ASSUME Init PROVE IInv
  OBVIOUS
<1> USE NoFrames DEF Init
<1>1. TypeOK
  BY DEF TypeOK
<1>2. WalkSound /\ WalkComplete
  BY DEF WalkSound, WalkComplete
<1>3. WalkDepth
  BY FS_EmptySet DEF WalkDepth
<1>4. Parsed /\ Phases /\ Reasons
  BY DEF Parsed, Phases, Reasons, Walked
<1>5. NamesAreGenerated
  BY DEF NamesAreGenerated
<1> QED
  BY <1>1, <1>2, <1>3, <1>4, <1>5 DEF IInv

LEMMA SelectStep == ASSUME IInv, select_operations PROVE IInv'
<1> USE NoFrames DEF IInv
<1>0. /\ pc = "select" /\ reachable = {} /\ frames = <<>> /\ pending = {} /\ todo = {}
      /\ DOMAIN shapes = {} /\ source = <<>>
      /\ UNCHANGED <<args, frames, reachable, todo, shapes, source>>
  BY DEF select_operations, Raise, Phases, Walked
<1>1. CASE Known_operations
  <2>1. pending' = _parse_operations /\ pc' = "walk"
    BY <1>1 DEF select_operations, Known_operations, _parse_operations
  <2>2. TypeOK'
    <3>1. _parse_operations \subseteq DOMAIN model.operations
      BY DEF _parse_operations
    <3> QED
      BY <1>0, <2>1, <3>1, SameInput DEF TypeOK, args
  <2>3. WalkSound' /\ WalkComplete' /\ WalkDepth'
    BY <1>0, <2>1, SameInput DEF WalkSound, WalkComplete, WalkDepth
  <2>4. Parsed' /\ Phases' /\ Reasons'
    BY <1>0, <1>1, <2>1, SameInput DEF Parsed, Phases, Reasons, Walked
  <2> QED
    BY <1>0, <2>2, <2>3, <2>4, SameSource
<1>2. CASE ~ Known_operations
  <2>1. pending' = pending /\ pc' = "unknown operation"
    BY <1>2 DEF select_operations, Known_operations, Raise
  <2>2. TypeOK'
    BY <1>0, <2>1, SameInput DEF TypeOK, args, Ends, Failures
  <2>3. WalkSound' /\ WalkComplete' /\ WalkDepth'
    BY <1>0, <2>1, SameInput DEF WalkSound, WalkComplete, WalkDepth
  <2>4. Parsed' /\ Phases'
    BY <1>0, <2>1 DEF Parsed, Phases, Walked
  <2>5. Reasons'
    BY <1>0, <1>2, <2>1, SameInput DEF Reasons
  <2> QED
    BY <1>0, <2>2, <2>3, <2>4, <2>5, SameSource
<1> QED
  BY <1>1, <1>2

LEMMA WalkOperationStep ==
    ASSUME IInv, NEW op \in pending, walk_operation(op)
    PROVE  IInv'
<1> USE NoFrames DEF IInv
<1>0. /\ pc = "walk" /\ frames = <<>> /\ pending' = pending \ {op} /\ frames' = <<Roots(op)>>
      /\ UNCHANGED <<args, pc, reachable, todo, shapes, source>>
  BY DEF walk_operation
<1>1. op \in _parse_operations /\ Roots(op) \subseteq Closure /\ Closure \subseteq Names
  BY ClosureClosed DEF WalkSound, Closed
<1>2. Len(frames') = 1 /\ frames'[1] = Roots(op) /\ frames' \in Seq(SUBSET Names)
  BY <1>0, <1>1
<1>3. TypeOK'
  BY <1>0, <1>2, SameInput DEF TypeOK, args
<1>4. WalkSound'
  BY <1>0, <1>1, <1>2, SameInput DEF WalkSound
<1>5. WalkComplete'
  <2>1. \A r : Visited(r) => Visited(r)'
    BY <1>0 DEF Visited
  <2>2. \A r \in Roots(op) : Visited(r)'
    BY <1>2 DEF Visited
  <2> QED
    BY <1>0, <2>1, <2>2, SameInput DEF WalkComplete
<1>6. WalkDepth'
  BY <1>0, <1>2, MarkFacts DEF WalkDepth
<1>7. Parsed' /\ Phases' /\ Reasons'
  BY <1>0, SameInput DEF Parsed, Phases, Reasons, Walked
<1> QED
  BY <1>0, <1>3, <1>4, <1>5, <1>6, <1>7, SameSource

\* A shape is marked before its members are walked, so that each frame has a mark of
\* its own and a shape that is left behind is a marked one.
LEMMA WalkStep ==
    ASSUME IInv, frames # <<>>, NEW s \in Last(frames), _walk(s)
    PROVE  IInv'
<1> USE DEF IInv
<1>0. /\ pc = "walk" /\ Len(frames) \in Nat \ {0} /\ s \in frames[Len(frames)] /\ s \in Closure
      /\ UNCHANGED <<args, pending, todo, shapes, source>>
  <2>1. Len(frames) \in Nat \ {0} /\ s \in frames[Len(frames)]
    BY LeavingFacts DEF Last
  <2>2. Len(frames) \in 1 .. Len(frames)
    BY <2>1
  <2>3. pc = "walk" /\ UNCHANGED <<args, pending, todo, shapes, source>>
    BY DEF _walk, Raise
  <2> QED
    BY <2>1, <2>2, <2>3 DEF WalkSound
<1>1. CASE s \notin reachable /\ (s \notin DOMAIN model.shapes \/ Len(frames) = RecursionLimit)
  <2>1. /\ UNCHANGED <<frames, reachable>>
        /\ \/ pc' = "undefined shape" /\ s \notin DOMAIN model.shapes
           \/ pc' = "RecursionError" /\ s \in DOMAIN model.shapes /\ Len(frames) = RecursionLimit
    BY <1>1 DEF _walk, Raise
  <2>2. TypeOK'
    BY <1>0, <2>1, SameInput DEF TypeOK, args, Ends, Failures
  <2>3. WalkSound' /\ WalkComplete' /\ WalkDepth'
    BY <1>0, <2>1, SameInput DEF WalkSound, WalkComplete, WalkDepth
  <2>4. Parsed' /\ Phases'
    BY <1>0, <2>1 DEF Parsed, Phases, Walked
  <2>5. Reasons'
    <3>1. CASE pc' = "undefined shape"
      BY <1>0, <2>1, <3>1, SameInput DEF Reasons
    <3>2. CASE pc' = "RecursionError"
      <4>1. Cardinality(reachable) < Cardinality(DOMAIN model.shapes)
        BY <1>1, <2>1, <3>2, MarkFacts
      <4>2. RecursionLimit <= Cardinality(DOMAIN model.shapes)
        BY <4>1, <2>1, <3>2, <1>0, MarkFacts DEF WalkDepth
      <4>3. ~ ShapesFit
        BY <4>2, ModelsAssumption, MarkFacts DEF ShapesFit, TypeOK, model
      <4> QED
        BY <1>0, <3>2, <4>3, SameInput DEF Reasons
    <3> QED
      BY <2>1, <3>1, <3>2
  <2> QED
    BY <1>0, <2>2, <2>3, <2>4, <2>5, SameSource
<1>2. CASE ~ (s \notin reachable /\ (s \notin DOMAIN model.shapes \/ Len(frames) = RecursionLimit))
  <2>0. /\ reachable' = reachable \cup {s} /\ pc' = "walk" /\ s \in DOMAIN model.shapes
        /\ frames' = IF s \in reachable THEN Leaving(s) ELSE Append(Leaving(s), Refs(s))
    BY <1>0, <1>2 DEF _walk, TypeOK
  <2>1. Refs(s) \subseteq Closure /\ Closure \subseteq Names
    BY <1>0, <2>0, ClosureClosed
  <2>2. /\ frames' \in Seq(SUBSET Names)
        /\ Len(frames') = IF s \in reachable THEN Len(frames) ELSE Len(frames) + 1
        /\ \A i \in 1 .. Len(frames) :
               frames'[i] = IF i = Len(frames) THEN frames[i] \ {s} ELSE frames[i]
        /\ s \notin reachable => frames'[Len(frames) + 1] = Refs(s)
    <3>1. CASE s \in reachable
      BY <2>0, <3>1, LeavingFacts
    <3>2. CASE s \notin reachable
      <4>1. Refs(s) \in SUBSET Names
        BY <2>1
      <4> DEFINE entered == Append(Leaving(s), Refs(s))
      <4>2. frames' = entered
        BY <2>0, <3>2
      <4>3. /\ entered \in Seq(SUBSET Names) /\ Len(entered) = Len(frames) + 1
            /\ \A i \in 1 .. Len(frames) : entered[i] = Leaving(s)[i]
            /\ entered[Len(frames) + 1] = Refs(s)
        BY <4>1, EnteringFacts
      <4> HIDE DEF entered
      <4> QED
        BY <3>2, <4>2, <4>3, LeavingFacts
    <3> QED
      BY <3>1, <3>2
  <2>3. TypeOK'
    BY <1>0, <2>0, <2>2, SameInput DEF TypeOK, args
  <2>4. WalkSound'
    <3>1. ASSUME NEW i \in 1 .. Len(frames') PROVE frames'[i] \subseteq Closure
      <4>1. CASE i \in 1 .. Len(frames)
        BY <4>1, <2>2 DEF WalkSound
      <4>2. CASE i \notin 1 .. Len(frames)
        <5>1. s \notin reachable /\ i = Len(frames) + 1
          BY <4>2, <2>2, <1>0
        <5> QED
          BY <5>1, <2>1, <2>2
      <4> QED
        BY <4>1, <4>2
    <3> QED
      BY <3>1, <1>0, <2>0, SameInput DEF WalkSound
  <2>5. WalkComplete'
    <3>1. ASSUME NEW r, Visited(r) PROVE Visited(r)'
      <4>1. CASE r \in reachable \/ r = s
        BY <4>1, <2>0 DEF Visited
      <4>2. CASE r \notin reachable /\ r # s
        <5>1. PICK i \in 1 .. Len(frames) : r \in frames[i]
          BY <3>1, <4>2 DEF Visited
        <5>2. r \in frames'[i] /\ i \in 1 .. Len(frames')
          <6>1. r \in frames'[i]
            BY <5>1, <4>2, <2>2
          <6>2. i \in 1 .. Len(frames')
            BY <2>2, <1>0
          <6> QED
            BY <6>1, <6>2
        <5> QED
          BY <5>2 DEF Visited
      <4> QED
        BY <4>1, <4>2
    <3>2. ASSUME NEW r \in Refs(s) PROVE Visited(r)'
      <4>1. CASE s \in reachable
        BY <4>1, <3>1, <1>0 DEF WalkComplete
      <4>2. CASE s \notin reachable
        <5>1. r \in frames'[Len(frames) + 1] /\ Len(frames) + 1 \in 1 .. Len(frames')
          BY <4>2, <2>2, <1>0
        <5> QED
          BY <5>1 DEF Visited
      <4> QED
        BY <4>1, <4>2
    <3> QED
      BY <3>1, <3>2, <1>0, <2>0, SameInput DEF WalkComplete
  <2>6. WalkDepth'
    <3>1. CASE s \in reachable
      <4>1. reachable' = reachable /\ Len(frames') = Len(frames)
        BY <3>1, <2>0, <2>2
      <4> QED
        BY <4>1 DEF WalkDepth
    <3>2. CASE s \notin reachable
      <4>1. Cardinality(reachable') = Cardinality(reachable) + 1 /\ Len(frames') = Len(frames) + 1
        BY <3>2, <2>0, <2>2, MarkFacts
      <4> QED
        BY <4>1, <1>0, MarkFacts DEF WalkDepth
    <3> QED
      BY <3>1, <3>2
  <2>7. Parsed' /\ Phases'
    BY <1>0, <2>0 DEF Parsed, Phases, Walked
  <2>8. Reasons'
    BY <1>0, <2>0, SameInput DEF Reasons
  <2> QED
    BY <1>0, <2>3, <2>4, <2>5, <2>6, <2>7, <2>8, SameSource
<1> QED
  BY <1>1, <1>2

LEMMA WalkReturnsStep == ASSUME IInv, _walk_returns PROVE IInv'
<1> USE DEF IInv
<1>0. /\ pc = "walk" /\ frames # <<>> /\ frames[Len(frames)] = {} /\ frames' = Front(frames)
      /\ UNCHANGED <<args, pc, pending, reachable, todo, shapes, source>>
  BY DEF _walk_returns, Last
<1>1. /\ Len(frames) \in Nat \ {0}
      /\ frames' \in Seq(SUBSET Names) /\ Len(frames') = Len(frames) - 1
      /\ \A i \in 1 .. Len(frames) - 1 : frames'[i] = frames[i]
  BY <1>0, FrontFacts
<1>2. TypeOK'
  BY <1>0, <1>1, SameInput DEF TypeOK, args
<1>3. WalkSound'
  BY <1>0, <1>1, SameInput DEF WalkSound
<1>4. WalkComplete'
  <2>1. ASSUME NEW r, Visited(r) PROVE Visited(r)'
    BY <2>1, <1>0, <1>1 DEF Visited
  <2> QED
    BY <1>0, <2>1, SameInput DEF WalkComplete
<1>5. WalkDepth'
  BY <1>0, <1>1, MarkFacts DEF WalkDepth
<1>6. Parsed' /\ Phases'
  BY <1>0 DEF Parsed, Phases, Walked
<1>7. Reasons'
  BY <1>0, SameInput DEF Reasons
<1> QED
  BY <1>0, <1>2, <1>3, <1>4, <1>5, <1>6, <1>7, SameSource

\* When nothing is left to visit the marked shapes are closed under references, and
\* Closure is the least such set.
LEMMA WalkDoneStep == ASSUME IInv, walk_done PROVE IInv'
<1> USE NoFrames DEF IInv
<1>0. /\ pc = "walk" /\ frames = <<>> /\ pending = {} /\ todo' = reachable /\ pc' = "parse"
      /\ UNCHANGED <<args, pending, frames, reachable, shapes, source>>
  BY DEF walk_done
<1>1. reachable = Closure
  <2>1. \A r : Visited(r) => r \in reachable
    BY <1>0 DEF Visited
  <2>2. Closed(reachable)
    BY <1>0, <2>1 DEF WalkComplete, Closed
  <2>3. reachable \in SUBSET Names
    BY DEF TypeOK, Names
  <2> QED
    BY <2>2, <2>3, ClosureLeast DEF WalkSound
<1>2. TypeOK'
  BY <1>0, SameInput DEF TypeOK, args
<1>3. WalkSound' /\ WalkComplete' /\ WalkDepth'
  BY <1>0, SameInput DEF WalkSound, WalkComplete, WalkDepth
<1>4. Parsed'
  BY <1>0, <1>1, SameInput DEF Parsed, Phases, Walked
<1>5. Phases'
  BY <1>0 DEF Phases, Walked
<1>6. Reasons'
  BY <1>0, SameInput DEF Reasons
<1> QED
  BY <1>0, <1>2, <1>3, <1>4, <1>5, <1>6, SameSource
-----------------------------------------------------------------------------
(* The parser.                                                               *)

LEMMA ParseShapesStep == ASSUME IInv, _parse_shapes PROVE IInv'
<1> USE DEF IInv
<1> DEFINE s == Min(todo)
<1>0. pc = "parse" /\ todo # {} /\ UNCHANGED <<args, pending, frames, reachable, source>>
  BY DEF _parse_shapes, Raise
<1>1. s \in todo /\ s \in reachable
  <2>1. todo \in SUBSET Nat /\ todo \subseteq reachable
    BY ModelsAssumption DEF TypeOK, model
  <2> QED
    BY <1>0, <2>1, MinIsMember
<1>2. CASE ~ Passes(s)
  <2>1. pc' = "unsupported" /\ UNCHANGED <<todo, shapes>>
    BY <1>2 DEF _parse_shapes, Passes, Raise
  <2> HIDE DEF s
  <2>2. TypeOK'
    BY <1>0, <2>1, SameInput DEF TypeOK, args, Ends, Failures
  <2>3. WalkSound' /\ WalkComplete' /\ WalkDepth'
    BY <1>0, <2>1, SameInput DEF WalkSound, WalkComplete, WalkDepth
  <2>4. Parsed' /\ Phases'
    BY <1>0, <2>1, SameInput DEF Parsed, Phases, Walked
  <2>5. Reasons'
    BY <1>0, <1>1, <1>2, <2>1, SameInput DEF Reasons
  <2> QED
    BY <1>0, <2>2, <2>3, <2>4, <2>5, SameSource
<1>3. CASE Passes(s)
  <2>1. /\ pc' = "parse" /\ todo' = todo \ {s}
        /\ shapes' = IF Supported(s)
                     THEN [n \in DOMAIN shapes \cup {s} |-> IF n = s THEN Entry(s) ELSE shapes[n]]
                     ELSE shapes
    BY <1>0, <1>3 DEF _parse_shapes, Passes
  <2> HIDE DEF s
  <2>2. DOMAIN shapes' = {n \in reachable \ todo' : Supported(n)}
    BY <1>0, <1>1, <2>1 DEF Parsed, Walked, TypeOK
  <2>3. \A n \in DOMAIN shapes' : shapes'[n] = Entry(n)
    BY <1>0, <1>1, <2>1 DEF Parsed, Walked, TypeOK
  <2>4. TypeOK'
    BY <1>0, <2>1, <2>2, SameInput DEF TypeOK, args
  <2>5. WalkSound' /\ WalkComplete' /\ WalkDepth'
    BY <1>0, <2>1, SameInput DEF WalkSound, WalkComplete, WalkDepth
  <2>6. Parsed'
    BY <1>0, <1>3, <2>1, <2>2, <2>3, SameInput DEF Parsed, Walked
  <2>7. Phases' /\ Reasons'
    BY <1>0, <2>1, SameInput DEF Phases, Walked, Reasons
  <2> QED
    BY <1>0, <2>4, <2>5, <2>6, <2>7, SameSource
<1> QED
  BY <1>2, <1>3

\* Types that are built in or have a class.
Generated == {<<"class", c>> : c \in structure_shapes} \cup {<<"str">>, <<"int">>}

\* What a parsed shape refers to has been parsed too.
LEMMA EntryTypes ==
    ASSUME IInv, pc \in {"parse", "written"}, todo = {}, NEW s \in DOMAIN shapes
    PROVE  Range(shapes[s].members) \subseteq Generated /\ shapes[s].pie_type \in Generated
<1> USE DEF IInv
<1>1. /\ reachable = Closure /\ DOMAIN shapes = {n \in reachable : Supported(n)}
      /\ \A n \in DOMAIN shapes : shapes[n] = Entry(n)
  BY DEF Parsed, Walked
<1>2. ASSUME NEW r \in DOMAIN shapes, Shape(r).type = "structure"
      PROVE  r \in structure_shapes /\ shapes[r].pie_type = <<"class", r>>
  <2>1. shapes[r] = _parse_structure_shape(r)
    BY <1>1, <1>2 DEF Entry
  <2>2. shapes[r].pie_type = <<"class", r>>
    BY <2>1 DEF _parse_structure_shape
  <2> QED
    BY <2>2 DEF structure_shapes
<1>3. ASSUME NEW r \in DOMAIN shapes, Shape(r).type # "structure"
      PROVE  _SCALAR_TYPE_MAP[Shape(r).type] \in {<<"str">>, <<"int">>}
  BY <1>1, <1>3, ScalarTypes DEF Supported
<1>4. CASE Shape(s).type = "structure"
  <2>1. shapes[s].pie_type \in Generated
    BY <1>2, <1>4 DEF Generated
  <2>2. ASSUME NEW t \in Range(shapes[s].members) PROVE t \in Generated
    <3>1. PICK f \in DOMAIN Shape(s).members :
              Supported(Shape(s).members[f]) /\ t = _resolve_pie_type(Shape(s).members[f])
      <4>1. shapes[s] = _parse_structure_shape(s)
        BY <1>1, <1>4 DEF Entry
      <4>2. shapes[s].members =
                [f \in {f \in DOMAIN Shape(s).members : Supported(Shape(s).members[f])} |->
                    _resolve_pie_type(Shape(s).members[f])]
        BY <4>1 DEF _parse_structure_shape
      <4> QED
        BY <4>2 DEF Range
    <3> DEFINE r == Shape(s).members[f]
    <3>2. r \in DOMAIN shapes
      <4>1. r \in Refs(s)
        BY DEF Refs
      <4>2. s \in Closure \cap DOMAIN model.shapes
        BY <1>1 DEF TypeOK
      <4> QED
        BY <1>1, <3>1, <4>1, <4>2, ClosureClosed
    <3> HIDE DEF r
    <3>3. t = _resolve_pie_type(r)
      BY <3>1 DEF r
    <3> QED
      BY <1>2, <1>3, <3>2, <3>3 DEF _resolve_pie_type, Generated
  <2> QED
    BY <2>1, <2>2
<1>5. CASE Shape(s).type # "structure"
  <2>1. shapes[s] = [pie_type |-> _SCALAR_TYPE_MAP[Shape(s).type], members |-> <<>>]
    BY <1>1, <1>5 DEF Entry
  <2>2. Range(shapes[s].members) = {}
    BY <2>1, NoFrames DEF Range
  <2> QED
    BY <1>3, <1>5, <2>1, <2>2 DEF Generated
<1> QED
  BY <1>4, <1>5

LEMMA ItemTypes ==
    ASSUME IInv, pc \in {"parse", "written"}, todo = {}
    PROVE  /\ \A c \in structure_shapes : ClassItem(c).types \subseteq Generated
           /\ \A op \in _parse_operations : StubItem(op).types \subseteq Generated
<1>1. structure_shapes \subseteq DOMAIN shapes
  BY DEF structure_shapes
<1>2. ASSUME NEW c \in structure_shapes PROVE ClassItem(c).types \subseteq Generated
  BY <1>1, EntryTypes DEF ClassItem
<1>3. ASSUME NEW op \in _parse_operations, NEW t \in StubItem(op).types
      PROVE  t \in Generated
  <2> DEFINE o == model.operations[op]
             in == o.input \cap structure_shapes
             out == o.output \cap DOMAIN shapes
  <2>1. \/ t \in {<<"str">>, <<"int">>}
        \/ \E s \in in : t \in Range(shapes[s].members)
        \/ \E s \in (o.input \cap DOMAIN shapes) \cup out : t = shapes[s].pie_type
    BY <1>3 DEF StubItem
  <2>2. in \subseteq DOMAIN shapes /\ (o.input \cap DOMAIN shapes) \cup out \subseteq DOMAIN shapes
    BY <1>1
  <2> HIDE DEF in, out, o
  <2> QED
    BY <2>1, <2>2, EntryTypes DEF Generated
<1> QED
  BY <1>2, <1>3

\* One list of items behind another.
LEMMA ItemLists ==
    ASSUME NEW X, NEW m \in Nat, NEW n \in Nat, NEW A \in [1 .. m -> X], NEW B \in [1 .. n -> X]
    PROVE  /\ Len(A \o B) = m + n
           /\ \A i \in 1 .. m : (A \o B)[i] = A[i]
           /\ \A i \in DOMAIN (A \o B) : (A \o B)[i] \in X
<1>1. A \in Seq(X) /\ B \in Seq(X)
  BY SeqDef
<1>2. Len(A) = m /\ Len(B) = n
  BY <1>1, LenProperties
<1>3. /\ A \o B \in Seq(X) /\ Len(A \o B) = Len(A) + Len(B)
      /\ \A i \in 1 .. Len(A) + Len(B) : (A \o B)[i] =
             IF i <= Len(A) THEN A[i] ELSE B[i - Len(A)]
  BY <1>1, ConcatProperties
<1>4. \A i \in DOMAIN (A \o B) : (A \o B)[i] \in X
  BY <1>3, LenProperties, ElementOfSeq
<1>5. \A i \in 1 .. m : i \in 1 .. m + n /\ i <= m
  OBVIOUS
<1> QED
  BY <1>2, <1>3, <1>4, <1>5

LEMMA GeneratePieStep == ASSUME IInv, generate_pie PROVE IInv'
<1> USE DEF IInv
<1>0. /\ pc = "parse" /\ todo = {} /\ pc' = "written"
      /\ UNCHANGED <<args, pending, frames, reachable, todo, shapes>>
  BY DEF generate_pie
<1>1. NamesAreGenerated'
  <2> PICK classes \in Sorted(structure_shapes), stubs \in Sorted(_parse_operations) :
          source' = [i \in DOMAIN classes |-> ClassItem(classes[i])]
                    \o [i \in DOMAIN stubs |-> StubItem(stubs[i])]
    BY DEF generate_pie
  <2> DEFINE m == Cardinality(structure_shapes)
             n == Cardinality(_parse_operations)
             X == {ClassItem(c) : c \in structure_shapes} \cup {StubItem(op) : op \in _parse_operations}
             A == [i \in DOMAIN classes |-> ClassItem(classes[i])]
             B == [i \in DOMAIN stubs |-> StubItem(stubs[i])]
  <2>1. m \in Nat /\ n \in Nat
    <3>1. structure_shapes \subseteq reachable
      BY DEF structure_shapes, TypeOK
    <3>2. IsFiniteSet(structure_shapes)
      BY <3>1, MarkFacts, FS_Subset
    <3>3. IsFiniteSet(DOMAIN model.operations) /\ _parse_operations \subseteq DOMAIN model.operations
      BY ModelsAssumption DEF TypeOK, model, _parse_operations
    <3>4. IsFiniteSet(_parse_operations)
      BY <3>3, FS_Subset
    <3> QED
      BY <3>2, <3>4, FS_CardinalityType
  <2>2. /\ classes \in [1 .. m -> structure_shapes] /\ Range(classes) = structure_shapes
        /\ stubs \in [1 .. n -> _parse_operations]
    BY DEF Sorted
  <2>3. A \in [1 .. m -> X] /\ B \in [1 .. n -> X]
    BY <2>2
  <2>4. \A c \in structure_shapes : \E i \in 1 .. m : A[i] = ClassItem(c)
    BY <2>2 DEF Range
  <2>5. \A x \in X : x.types \subseteq Generated
    BY <1>0, ItemTypes
  <2> HIDE DEF m, n, X, A, B
  <2>6. source' = A \o B
    BY DEF A, B
  <2>7. /\ Len(source') = m + n
        /\ \A i \in 1 .. m : source'[i] = A[i]
        /\ \A i \in DOMAIN source' : source'[i] \in X
    <3>1. /\ Len(A \o B) = m + n
          /\ \A i \in 1 .. m : (A \o B)[i] = A[i]
          /\ \A i \in DOMAIN (A \o B) : (A \o B)[i] \in X
      BY <2>1, <2>3, ItemLists
    <3> QED
      BY <3>1, <2>6
  <2>8. Generated \subseteq Known(source', Len(source') + 1)
    <3>1. ASSUME NEW c \in structure_shapes
          PROVE  <<"class", c>> \in Known(source', Len(source') + 1)
      <4>1. PICK i \in 1 .. m : A[i] = ClassItem(c)
        BY <2>4
      <4>2. i \in 1 .. (Len(source') + 1) - 1 /\ source'[i].kind = "class" /\ source'[i].name = c
        <5>1. i \in 1 .. (m + n + 1) - 1
          BY <2>1
        <5>2. Len(source') = m + n /\ source'[i] = ClassItem(c)
          BY <2>7, <4>1
        <5>3. ClassItem(c).kind = "class" /\ ClassItem(c).name = c
          BY DEF ClassItem
        <5> QED
          BY <5>1, <5>2, <5>3
      <4> QED
        BY <4>2 DEF Known
    <3> QED
      BY <3>1 DEF Generated, Known
  <2>9. ASSUME NEW i \in DOMAIN source' PROVE source'[i].types \subseteq Generated
    <3>1. source'[i] \in X
      BY <2>7
    <3> QED
      BY <3>1, <2>5
  <2> QED
    BY <2>8, <2>9 DEF NamesAreGenerated
<1>2. TypeOK'
  BY <1>0, SameInput DEF TypeOK, args
<1>3. WalkSound' /\ WalkComplete' /\ WalkDepth'
  BY <1>0, SameInput DEF WalkSound, WalkComplete, WalkDepth
<1>4. Parsed'
  BY <1>0, SameInput DEF Parsed, Walked
<1>5. Phases' /\ Reasons'
  BY <1>0, SameInput DEF Phases, Walked, Reasons
<1> QED
  BY <1>1, <1>2, <1>3, <1>4, <1>5

\* generate_json writes what was parsed; the compiler changes nothing of it.
LEMMA AfterwardsStep == ASSUME IInv, generate_json \/ compile PROVE IInv'
<1> USE DEF IInv
<1>0. /\ pc \in {"parse", "written"} /\ todo = {}
      /\ pc' \in {"written", "SyntaxError", "TypeError", "compiled"}
      /\ UNCHANGED <<args, pending, frames, reachable, todo, shapes, source>>
  BY DEF generate_json, compile, Raise, Phases
<1>1. TypeOK'
  BY <1>0, SameInput DEF TypeOK, args, Ends
<1>2. WalkSound' /\ WalkComplete' /\ WalkDepth'
  BY <1>0, SameInput DEF WalkSound, WalkComplete, WalkDepth
<1>3. Parsed'
  BY <1>0, SameInput DEF Parsed, Walked
<1>4. Phases' /\ Reasons'
  BY <1>0, SameInput DEF Phases, Walked, Reasons
<1> QED
  BY <1>0, <1>1, <1>2, <1>3, <1>4, SameSource
-----------------------------------------------------------------------------

LEMMA NextInvariant == IInv /\ [Next]_vars => IInv'
<1> SUFFICES ASSUME IInv, [Next]_vars PROVE IInv'
  OBVIOUS
<1>1. CASE Next
  BY <1>1, SelectStep, WalkOperationStep, WalkStep, WalkReturnsStep, WalkDoneStep,
     ParseShapesStep, GeneratePieStep, AfterwardsStep DEF Next
<1>2. CASE UNCHANGED vars
  <2> USE <1>2 DEF vars, IInv
  <2>1. TypeOK'
    BY SameInput DEF TypeOK, args
  <2>2. WalkSound' /\ WalkDepth'
    BY SameInput DEF WalkSound, WalkDepth
  <2>3. WalkComplete'
    BY SameInput DEF WalkComplete, Visited
  <2>4. Parsed' /\ Phases' /\ Reasons'
    BY SameInput DEF Parsed, Phases, Reasons
  <2> QED
    BY <2>1, <2>2, <2>3, <2>4, SameSource
<1> QED
  BY <1>1, <1>2

\* All of the above hold in every state of parse_models.py.
THEOREM Invariance == Spec => []IInv
  BY InitInvariant, NextInvariant, PTL DEF Spec

\* The walk finds exactly the shapes on a path from a selected operation, whatever the
\* model, and in whatever order its operations and members are listed.
THEOREM WalkFindsClosure == Spec => []ReachableIsClosure
<1>1. IInv => ReachableIsClosure
  BY DEF IInv, Parsed, Walked, ReachableIsClosure
<1> QED
  BY <1>1, Invariance, PTL

\* Every class that the generated source names is in the generated source.
THEOREM NoUnknownClass == Spec => []NamesAreGenerated
<1>1. IInv => NamesAreGenerated
  BY DEF IInv
<1> QED
  BY <1>1, Invariance, PTL

\* The frames of _walk are at most one more than the shapes of the model.
FramesBounded == Len(frames) <= Cardinality(DOMAIN model.shapes) + 1

LEMMA DepthBound == ASSUME IInv PROVE FramesBounded
<1>1. Len(frames) \in Nat
  BY LenProperties DEF IInv, TypeOK
<1> QED
  BY <1>1, MarkFacts DEF IInv, WalkDepth, FramesBounded

\* FramesBounded for every model, however its shapes refer to each other.
THEOREM WalkIsBounded == Spec => []FramesBounded
  BY DepthBound, Invariance, PTL

\* A stack as deep as the models have shapes is never exhausted by the walk.
THEOREM WalkFitsStack == ASSUME ShapesFit PROVE Spec => []WalkDepthBounded
<1>1. IInv => WalkDepthBounded
  BY ShapesFit, DepthBound DEF IInv, Reasons, WalkDepthBounded, FramesBounded
<1> QED
  BY <1>1, Invariance, PTL

\* The reference for the outcome, in terms of the shapes _parse_shapes stops at.
LEMMA UnusableMeans ==
    ASSUME IInv, Known_operations, reachable = Closure
    PROVE  Unusable <=> \E s \in reachable : ~ Passes(s)
<1>0. /\ reachable \subseteq DOMAIN model.shapes
      /\ \A s \in reachable : Refs(s) \subseteq reachable
  BY ClosureClosed DEF IInv, TypeOK
<1>1. ASSUME NEW s \in reachable, Shape(s).type = "structure", NEW f \in Fatal(s)
      PROVE  Unusable
  <2> DEFINE r == Shape(s).members[f]
  <2>1. r \in Refs(s) /\ r \in Closure \cap DOMAIN model.shapes
    BY <1>0 DEF Refs, Fatal
  <2>2. CASE Shape(r).type \in {"list", "map"}
    <3>1. ~ skip_unsupported /\ ~ Supported(r)
      BY <2>2, ScalarTypes DEF Fatal, Supported
    <3> QED
      BY <2>1, <3>1 DEF Unusable
  <2>3. CASE Shape(r).type \notin {"list", "map"}
    <3>1. ~ Supported(r)
      BY <2>3 DEF Fatal, Supported
    <3> QED
      BY <1>0, <1>1, <2>1, <2>3, <3>1 DEF Unusable
  <2> QED
    BY <2>2, <2>3
<1>2. ASSUME NEW s \in reachable, ~ Supported(s), ~ skip_unsupported
      PROVE  Unusable
  BY <1>0, <1>2 DEF Unusable
<1>3. ASSUME NEW s \in reachable, Shape(s).type = "structure",
             NEW r \in Refs(s), ~ Supported(r), Shape(r).type \notin {"list", "map"}
      PROVE  ~ Passes(s)
  <2>1. PICK f \in DOMAIN Shape(s).members : r = Shape(s).members[f]
    BY DEF Refs
  <2>2. f \in Fatal(s)
    BY <1>3, <2>1 DEF Fatal, Supported
  <2> QED
    BY <1>3, <2>2 DEF Passes
<1>4. ASSUME Unusable PROVE \E s \in reachable : ~ Passes(s)
  <2>1. PICK s \in reachable :
            \/ ~ Supported(s) /\ ~ skip_unsupported
            \/ /\ Shape(s).type = "structure"
               /\ \E r \in Refs(s) \cap DOMAIN model.shapes :
                      ~ Supported(r) /\ Shape(r).type \notin {"list", "map"}
    BY <1>0, <1>4 DEF Unusable, Known_operations
  <2> QED
    BY <1>3, <2>1 DEF Passes
<1>5. ASSUME NEW s \in reachable, ~ Passes(s) PROVE Unusable
  BY <1>1, <1>2, <1>5 DEF Passes
<1> QED
  BY <1>4, <1>5

\* With such a stack parse() raises exactly for the models it should: for a name that
\* is not defined, or a type that .pie lacks and that is not to be skipped.
THEOREM RaisesExactly == ASSUME ShapesFit PROVE Spec => []RaisesIffUnusable
<1>1. ASSUME IInv, pc \in Failures PROVE Unusable
  <2>1. CASE pc = "unknown operation" \/ pc = "undefined shape"
    BY <1>1, <2>1 DEF IInv, Reasons, Unusable, Known_operations
  <2>2. CASE pc = "RecursionError"
    BY <1>1, <2>2, ShapesFit DEF IInv, Reasons
  <2>3. CASE pc = "unsupported"
    BY <1>1, <2>3, UnusableMeans DEF IInv, Reasons, Parsed, Walked
  <2> QED
    BY <1>1, <2>1, <2>2, <2>3 DEF Failures
<1>2. ASSUME IInv, pc = "written" PROVE ~ Unusable
  <2>1. /\ Known_operations /\ reachable = Closure
        /\ \A s \in reachable : Passes(s)
    BY <1>2 DEF IInv, Reasons, Parsed, Walked, Phases
  <2> QED
    BY <1>2, <2>1, UnusableMeans
<1>3. IInv => RaisesIffUnusable
  BY <1>1, <1>2 DEF RaisesIffUnusable
<1> QED
  BY <1>3, Invariance, PTL
-----------------------------------------------------------------------------
(* The compiler on the generated source.                                     *)

SourceOf(classes, stubs) ==
    [i \in DOMAIN classes |-> ClassItem(classes[i])] \o [i \in DOMAIN stubs |-> StubItem(stubs[i])]

\* What generate_pie has written is still there when the compiler reads it.
Laid ==
    pc = "written" /\ format = "pie" =>
        \E classes \in Sorted(structure_shapes), stubs \in Sorted(_parse_operations) :
            source = SourceOf(classes, stubs)

LEMMA SameText ==
    ASSUME UNCHANGED <<args, shapes>>
    PROVE  /\ structure_shapes' = structure_shapes /\ _parse_operations' = _parse_operations
           /\ \A c, f : SourceOf(c, f)' = SourceOf(c, f)
<1>1. model' = model /\ input' = input /\ shapes' = shapes
  BY DEF model, args
<1> QED
  BY <1>1 DEF structure_shapes, _parse_operations, SourceOf, ClassItem, StubItem

\* The places of the classes and of the stubs.
LEMMA SourcePlaces ==
    ASSUME IInv, NEW classes \in Sorted(structure_shapes), NEW stubs \in Sorted(_parse_operations),
           source = SourceOf(classes, stubs)
    PROVE  LET m == Cardinality(structure_shapes)
               n == Cardinality(_parse_operations)
           IN  /\ m \in Nat /\ n \in Nat /\ DOMAIN source = 1 .. m + n
               /\ classes \in [1 .. m -> structure_shapes]
               /\ \A c \in structure_shapes : \E i \in 1 .. m : classes[i] = c
               /\ \A i, j \in 1 .. m : i < j => classes[i] < classes[j]
               /\ \A i \in 1 .. m : source[i] = ClassItem(classes[i])
               /\ \A i \in m + 1 .. m + n : \E op \in _parse_operations : source[i] = StubItem(op)
               /\ \A op \in _parse_operations : \E i \in m + 1 .. m + n : source[i] = StubItem(op)
<1> DEFINE m == Cardinality(structure_shapes)
           n == Cardinality(_parse_operations)
           X == {ClassItem(c) : c \in structure_shapes} \cup {StubItem(op) : op \in _parse_operations}
           A == [i \in DOMAIN classes |-> ClassItem(classes[i])]
           B == [i \in DOMAIN stubs |-> StubItem(stubs[i])]
<1>1. m \in Nat /\ n \in Nat
  <2>1. structure_shapes \subseteq reachable
    BY DEF structure_shapes, TypeOK, IInv
  <2>2. IsFiniteSet(structure_shapes)
    BY <2>1, MarkFacts, FS_Subset DEF IInv
  <2>3. IsFiniteSet(DOMAIN model.operations) /\ _parse_operations \subseteq DOMAIN model.operations
    BY ModelsAssumption DEF IInv, TypeOK, model, _parse_operations
  <2>4. IsFiniteSet(_parse_operations)
    BY <2>3, FS_Subset
  <2> QED
    BY <2>2, <2>4, FS_CardinalityType
<1>2. /\ classes \in [1 .. m -> structure_shapes] /\ Range(classes) = structure_shapes
      /\ stubs \in [1 .. n -> _parse_operations] /\ Range(stubs) = _parse_operations
      /\ \A i, j \in 1 .. m : i < j => classes[i] < classes[j]
  BY DEF Sorted
<1>3. /\ \A c \in structure_shapes : \E i \in 1 .. m : classes[i] = c
      /\ \A op \in _parse_operations : \E i \in 1 .. n : stubs[i] = op
  BY <1>2 DEF Range
<1>4. A \in [1 .. m -> X] /\ B \in [1 .. n -> X] /\ source = A \o B
  BY <1>2 DEF SourceOf
<1>5. /\ \A i \in 1 .. m : A[i] = ClassItem(classes[i])
      /\ \A i \in 1 .. n : B[i] = StubItem(stubs[i])
  BY <1>2
<1> HIDE DEF m, n, X, A, B
<1>6. A \in Seq(X) /\ B \in Seq(X) /\ Len(A) = m /\ Len(B) = n
  <2>1. A \in Seq(X) /\ B \in Seq(X)
    BY <1>1, <1>4, SeqDef
  <2> QED
    BY <2>1, <1>1, <1>4, LenProperties
<1>7. /\ DOMAIN source = 1 .. m + n
      /\ \A i \in 1 .. m + n : source[i] = IF i <= m THEN A[i] ELSE B[i - m]
  <2>1. /\ A \o B \in Seq(X) /\ Len(A \o B) = m + n
        /\ \A i \in 1 .. m + n : (A \o B)[i] = IF i <= m THEN A[i] ELSE B[i - m]
    BY <1>6, ConcatProperties
  <2> QED
    BY <2>1, <1>4, LenProperties
<1>8. \A i \in 1 .. m : source[i] = ClassItem(classes[i])
  <2> TAKE i \in 1 .. m
  <2>1. i \in 1 .. m + n /\ i <= m
    BY <1>1
  <2> QED
    BY <2>1, <1>5, <1>7
<1>9. \A i \in m + 1 .. m + n : source[i] = StubItem(stubs[i - m]) /\ i - m \in 1 .. n
  <2> TAKE i \in m + 1 .. m + n
  <2>1. i \in 1 .. m + n /\ ~ (i <= m) /\ i - m \in 1 .. n
    BY <1>1
  <2> QED
    BY <2>1, <1>5, <1>7
<1>10. \A i \in m + 1 .. m + n : \E op \in _parse_operations : source[i] = StubItem(op)
  BY <1>9, <1>2
<1>11. ASSUME NEW op \in _parse_operations
       PROVE  \E i \in m + 1 .. m + n : source[i] = StubItem(op)
  <2>1. PICK k \in 1 .. n : stubs[k] = op
    BY <1>3
  <2>2. k + m \in m + 1 .. m + n /\ (k + m) - m = k
    BY <1>1
  <2> QED
    BY <2>1, <2>2, <1>9
<1>12. /\ m \in Nat /\ n \in Nat /\ DOMAIN source = 1 .. m + n
       /\ classes \in [1 .. m -> structure_shapes]
       /\ \A c \in structure_shapes : \E i \in 1 .. m : classes[i] = c
       /\ \A i, j \in 1 .. m : i < j => classes[i] < classes[j]
  BY <1>1, <1>2, <1>3, <1>7
<1> QED
  BY <1>8, <1>10, <1>11, <1>12 DEF m, n

\* The structures that were parsed, their members, and how these relate to the model.
LEMMA ParsedStructures ==
    ASSUME IInv, pc \in {"parse", "written"}, todo = {}
    PROVE  /\ structure_shapes = {s \in Closure : Shape(s).type = "structure"}
           /\ Closure \subseteq DOMAIN model.shapes /\ Closure \subseteq Nat
           /\ \A s \in Closure : Refs(s) \subseteq Closure
           /\ \A op \in _parse_operations : model.operations[op].input \subseteq Closure
           /\ \A s \in structure_shapes : shapes[s] = _parse_structure_shape(s)
<1> USE DEF IInv
<1>1. /\ reachable = Closure /\ DOMAIN shapes = {n \in reachable : Supported(n)}
      /\ \A n \in DOMAIN shapes : shapes[n] = Entry(n)
  BY DEF Parsed, Walked
<1>2. Closure \subseteq DOMAIN model.shapes /\ Closure \subseteq Nat
  BY <1>1, ModelsAssumption DEF TypeOK, model
<1>3. /\ \A s \in Closure : Refs(s) \subseteq Closure
      /\ \A op \in _parse_operations : Roots(op) \subseteq Closure
  BY <1>2, ClosureClosed DEF Closed
<1>4. ASSUME NEW s \in Closure, Shape(s).type = "structure"
      PROVE  s \in structure_shapes /\ shapes[s] = _parse_structure_shape(s)
  <2>1. s \in DOMAIN shapes
    BY <1>1, <1>4 DEF Supported
  <2>2. shapes[s] = _parse_structure_shape(s)
    BY <1>1, <1>4, <2>1 DEF Entry
  <2>3. shapes[s].pie_type[1] = "class"
    BY <2>2 DEF _parse_structure_shape
  <2> QED
    BY <2>1, <2>2, <2>3 DEF structure_shapes
<1>5. ASSUME NEW s \in structure_shapes PROVE s \in Closure /\ Shape(s).type = "structure"
  <2>1. s \in DOMAIN shapes /\ shapes[s].pie_type[1] = "class"
    BY DEF structure_shapes
  <2>2. s \in Closure /\ Supported(s) /\ shapes[s] = Entry(s)
    BY <1>1, <2>1
  <2>3. SUFFICES ASSUME Shape(s).type # "structure" PROVE FALSE
    BY <2>2
  <2>4. shapes[s].pie_type = _SCALAR_TYPE_MAP[Shape(s).type]
    BY <2>2, <2>3 DEF Entry
  <2>5. shapes[s].pie_type \in {<<"str">>, <<"int">>}
    BY <2>2, <2>3, <2>4, ScalarTypes DEF Supported
  <2> QED
    BY <2>1, <2>5
<1>6. \A op \in _parse_operations : model.operations[op].input \subseteq Closure
  BY <1>3 DEF Roots
<1> QED
  BY <1>2, <1>3, <1>4, <1>5, <1>6

\* What a structure's members are, for the class and for the stub.
LEMMA KeptMembers ==
    ASSUME IInv, pc \in {"parse", "written"}, todo = {}, NEW s \in structure_shapes
    PROVE  /\ DOMAIN shapes[s].members =
                  {f \in DOMAIN Shape(s).members : Supported(Shape(s).members[f])}
           /\ \A t : t \in Range(shapes[s].members) <=>
                  \E r \in Refs(s) : Supported(r) /\ t = _resolve_pie_type(r)
<1>1. shapes[s] = _parse_structure_shape(s)
  BY ParsedStructures
<1>2. shapes[s].members =
          [f \in {f \in DOMAIN Shape(s).members : Supported(Shape(s).members[f])} |->
              _resolve_pie_type(Shape(s).members[f])]
  BY <1>1 DEF _parse_structure_shape
<1> QED
  BY <1>2 DEF Range, Refs

\* A stub has two parameters endpoint exactly for such a member of an input.
LEMMA ParsesExactly ==
    ASSUME IInv, pc = "written", todo = {},
           NEW classes \in Sorted(structure_shapes), NEW stubs \in Sorted(_parse_operations),
           source = SourceOf(classes, stubs)
    PROVE  Parses(source) <=> EndpointFree
<1> DEFINE m == Cardinality(structure_shapes)
           n == Cardinality(_parse_operations)
<1>1. /\ m \in Nat /\ n \in Nat /\ DOMAIN source = 1 .. m + n
      /\ \A i \in 1 .. m : source[i] = ClassItem(classes[i])
      /\ \A i \in m + 1 .. m + n : \E op \in _parse_operations : source[i] = StubItem(op)
      /\ \A op \in _parse_operations : \E i \in m + 1 .. m + n : source[i] = StubItem(op)
  BY SourcePlaces
<1> HIDE DEF m, n
<1>2. \A i \in DOMAIN source : i \in 1 .. m \/ i \in m + 1 .. m + n
  BY <1>1
<1>3. m + 1 .. m + n \subseteq DOMAIN source
  BY <1>1
<1>4. /\ \A c : ClassItem(c).kind = "class"
      /\ \A op : StubItem(op).kind = "def"
  BY DEF ClassItem, StubItem
<1>5. Parses(source) <=> \A op \in _parse_operations : "endpoint" \notin StubItem(op).params
  <2>1. ASSUME Parses(source), NEW op \in _parse_operations
        PROVE  "endpoint" \notin StubItem(op).params
    <3>1. PICK i \in m + 1 .. m + n : source[i] = StubItem(op)
      BY <1>1
    <3> QED
      BY <2>1, <3>1, <1>3, <1>4 DEF Parses
  <2>2. ASSUME \A op \in _parse_operations : "endpoint" \notin StubItem(op).params,
               NEW i \in DOMAIN source, source[i].kind = "def"
        PROVE  "endpoint" \notin source[i].params
    <3>1. i \in m + 1 .. m + n
      BY <1>1, <1>2, <1>4, <2>2
    <3> QED
      BY <1>1, <2>2, <3>1
  <2> QED
    BY <2>1, <2>2 DEF Parses
<1>6. ASSUME NEW op \in _parse_operations
      PROVE  "endpoint" \in StubItem(op).params <=>
             \E s \in model.operations[op].input :
                 /\ Shape(s).type = "structure" /\ "endpoint" \in DOMAIN Shape(s).members
                 /\ Supported(Shape(s).members.endpoint)
  <2> DEFINE in == model.operations[op].input \cap structure_shapes
  <2>1. "endpoint" \in StubItem(op).params <=> \E s \in in : "endpoint" \in DOMAIN shapes[s].members
    BY DEF StubItem
  <2>2. \A s \in in : "endpoint" \in DOMAIN shapes[s].members <=>
            "endpoint" \in DOMAIN Shape(s).members /\ Supported(Shape(s).members.endpoint)
    BY KeptMembers
  <2>3. in = {s \in model.operations[op].input : Shape(s).type = "structure"}
    BY ParsedStructures
  <2> HIDE DEF in
  <2> QED
    BY <2>1, <2>2, <2>3
<1> QED
  BY <1>5, <1>6 DEF EndpointFree

\* The types of the generated items are known where they stand exactly if the classes
\* that a class refers to come before it in the alphabet.
LEMMA ResolvesExactly ==
    ASSUME IInv, pc = "written", todo = {},
           NEW classes \in Sorted(structure_shapes), NEW stubs \in Sorted(_parse_operations),
           source = SourceOf(classes, stubs)
    PROVE  (\A i \in DOMAIN source : source[i].types \subseteq Known(source, i)) <=> Ordered
<1> DEFINE m == Cardinality(structure_shapes)
           n == Cardinality(_parse_operations)
           Backward(s) == \A r \in Refs(s) : Shape(r).type = "structure" => r < s
<1>1. /\ m \in Nat /\ n \in Nat /\ DOMAIN source = 1 .. m + n
      /\ classes \in [1 .. m -> structure_shapes]
      /\ \A c \in structure_shapes : \E i \in 1 .. m : classes[i] = c
      /\ \A i, j \in 1 .. m : i < j => classes[i] < classes[j]
      /\ \A i \in 1 .. m : source[i] = ClassItem(classes[i])
      /\ \A i \in m + 1 .. m + n : \E op \in _parse_operations : source[i] = StubItem(op)
  BY SourcePlaces
<1>2. /\ structure_shapes = {s \in Closure : Shape(s).type = "structure"}
      /\ Closure \subseteq Nat
      /\ \A s \in Closure : Refs(s) \subseteq Closure
  BY ParsedStructures
<1> HIDE DEF m, n
<1>3. ASSUME NEW i \in 1 .. m
      PROVE  /\ source[i].kind = "class" /\ source[i].name = classes[i]
             /\ source[i].types = Range(shapes[classes[i]].members)
  <2>1. \A c : /\ ClassItem(c).kind = "class" /\ ClassItem(c).name = c
               /\ ClassItem(c).types = Range(shapes[c].members)
    BY DEF ClassItem
  <2> QED
    BY <1>1, <2>1
<1>4. ASSUME NEW i \in m + 1 .. m + n PROVE source[i].types \subseteq Known(source, i)
  <2>1. source[i].types \subseteq Generated
    BY <1>1, ItemTypes
  <2>2. ASSUME NEW c \in structure_shapes PROVE <<"class", c>> \in Known(source, i)
    <3>1. PICK k \in 1 .. m : classes[k] = c
      BY <1>1
    <3>2. k \in 1 .. i - 1
      BY <1>1
    <3>3. source[k].kind = "class" /\ source[k].name = c
      BY <1>3, <3>1
    <3> QED
      BY <3>2, <3>3 DEF Known
  <2>3. Generated \subseteq Known(source, i)
    BY <2>2 DEF Generated, Known
  <2> QED
    BY <2>1, <2>3
<1>5. ASSUME NEW i \in 1 .. m, source[i].types \subseteq Known(source, i)
      PROVE  Backward(classes[i])
  <2> SUFFICES ASSUME NEW r \in Refs(classes[i]), Shape(r).type = "structure"
               PROVE  r < classes[i]
    OBVIOUS
  <2>1. classes[i] \in structure_shapes
    BY <1>1
  <2>2. <<"class", r>> \in source[i].types
    <3>1. Supported(r) /\ <<"class", r>> = _resolve_pie_type(r)
      BY DEF Supported, _resolve_pie_type
    <3> QED
      BY <2>1, <3>1, <1>3, KeptMembers
  <2>3. PICK k \in 1 .. i - 1 : source[k].kind = "class" /\ <<"class", r>> = <<"class", source[k].name>>
    BY <1>5, <2>2 DEF Known
  <2>4. k \in 1 .. m /\ k < i
    BY <1>1
  <2>5. r = classes[k]
    BY <1>3, <2>3, <2>4
  <2> QED
    BY <1>1, <2>4, <2>5
<1>6. ASSUME NEW i \in 1 .. m, Backward(classes[i])
      PROVE  source[i].types \subseteq Known(source, i)
  <2> SUFFICES ASSUME NEW t \in source[i].types PROVE t \in Known(source, i)
    OBVIOUS
  <2>1. classes[i] \in structure_shapes
    BY <1>1
  <2>2. PICK r \in Refs(classes[i]) : Supported(r) /\ t = _resolve_pie_type(r)
    BY <2>1, <1>3, KeptMembers
  <2>3. CASE Shape(r).type = "structure"
    <3>1. r \in structure_shapes /\ r < classes[i]
      BY <1>2, <1>6, <2>1, <2>3
    <3>2. PICK k \in 1 .. m : classes[k] = r
      BY <1>1, <3>1
    <3>3. classes[i] \in Nat /\ classes[k] \in Nat /\ classes[k] < classes[i]
      BY <1>2, <2>1, <3>1, <3>2
    <3>4. k # i /\ ~ (i < k)
      BY <1>1, <3>3
    <3>5. k \in 1 .. i - 1
      BY <1>1, <3>4
    <3>6. t = <<"class", source[k].name>> /\ source[k].kind = "class"
      BY <1>3, <2>2, <2>3, <3>2 DEF _resolve_pie_type
    <3> QED
      BY <3>5, <3>6 DEF Known
  <2>4. CASE Shape(r).type # "structure"
    BY <2>2, <2>4, ScalarTypes DEF Supported, _resolve_pie_type, Known
  <2> QED
    BY <2>3, <2>4
<1>7. Ordered <=> \A s \in structure_shapes : Backward(s)
  BY <1>2 DEF Ordered
<1> HIDE DEF Backward
<1>8. Ordered <=> \A i \in 1 .. m : Backward(classes[i])
  BY <1>1, <1>7
<1>9. \A i \in DOMAIN source : i \in 1 .. m \/ i \in m + 1 .. m + n
  BY <1>1
<1>10. \A i \in 1 .. m : i \in DOMAIN source
  BY <1>1
<1> QED
  BY <1>4, <1>5, <1>6, <1>8, <1>9, <1>10

LEMMA LaidStep == ASSUME IInv, Laid, [Next]_vars PROVE Laid'
<1>1. CASE generate_pie
  <2>1. /\ pc' = "written" /\ UNCHANGED <<args, shapes>>
        /\ \E classes \in Sorted(structure_shapes), stubs \in Sorted(_parse_operations) :
               source' = SourceOf(classes, stubs)
    BY <1>1 DEF generate_pie, SourceOf
  <2>2. Sorted(structure_shapes)' = Sorted(structure_shapes)
        /\ Sorted(_parse_operations)' = Sorted(_parse_operations)
    BY <2>1, SameText DEF Sorted
  <2> QED
    BY <2>1, <2>2, SameText DEF Laid
<1>2. CASE UNCHANGED vars
  <2>1. UNCHANGED <<args, shapes>> /\ pc' = pc /\ format' = format /\ source' = source
    BY <1>2 DEF vars, args
  <2>2. Sorted(structure_shapes)' = Sorted(structure_shapes)
        /\ Sorted(_parse_operations)' = Sorted(_parse_operations)
    BY <2>1, SameText DEF Sorted
  <2> QED
    BY <2>1, <2>2, SameText DEF Laid
<1>3. CASE Next /\ ~ generate_pie
  <2>1. pc' # "written" \/ format' = "json"
    <3>1. CASE generate_json
      BY <3>1 DEF generate_json, args
    <3>2. CASE compile
      BY <3>2 DEF compile, Raise
    <3>3. CASE select_operations
      BY <3>3 DEF select_operations, Raise
    <3>4. CASE \E op \in pending : walk_operation(op)
      BY <3>4 DEF walk_operation
    <3>5. CASE frames # <<>> /\ \E s \in Last(frames) : _walk(s)
      BY <3>5 DEF _walk, Raise
    <3>6. CASE _walk_returns \/ walk_done
      BY <3>6 DEF _walk_returns, walk_done
    <3>7. CASE _parse_shapes
      BY <3>7 DEF _parse_shapes, Raise
    <3> QED
      BY <1>3, <3>1, <3>2, <3>3, <3>4, <3>5, <3>6, <3>7 DEF Next
  <2> QED
    BY <2>1 DEF Laid
<1> QED
  BY <1>1, <1>2, <1>3

LEMMA VerdictStep == ASSUME IInv, Laid, CompilesIffOrdered, [Next]_vars PROVE CompilesIffOrdered'
<1>1. UNCHANGED args => (Ordered' <=> Ordered) /\ (EndpointFree' <=> EndpointFree)
  <2> SUFFICES ASSUME UNCHANGED args
               PROVE  (Ordered' <=> Ordered) /\ (EndpointFree' <=> EndpointFree)
    OBVIOUS
  <2> QED
    BY SameInput DEF Ordered, EndpointFree
<1>2. CASE compile
  <2>1. /\ pc = "written" /\ format = "pie" /\ todo = {} /\ UNCHANGED args
        /\ pc' = IF ~ Parses(source) THEN "SyntaxError"
                 ELSE IF \E i \in DOMAIN source : ~ (source[i].types \subseteq Known(source, i))
                 THEN "TypeError" ELSE "compiled"
    BY <1>2 DEF compile, Raise, IInv, Phases
  <2>2. PICK classes \in Sorted(structure_shapes), stubs \in Sorted(_parse_operations) :
            source = SourceOf(classes, stubs)
    BY <2>1 DEF Laid
  <2>3. Parses(source) <=> EndpointFree
    BY <2>1, <2>2, ParsesExactly
  <2>4. (\A i \in DOMAIN source : source[i].types \subseteq Known(source, i)) <=> Ordered
    BY <2>1, <2>2, ResolvesExactly
  <2> QED
    BY <1>1, <2>1, <2>3, <2>4 DEF CompilesIffOrdered
<1>3. CASE UNCHANGED vars
  BY <1>1, <1>3 DEF vars, CompilesIffOrdered
<1>4. CASE Next /\ ~ compile
  <2>1. pc' \notin {"compiled", "SyntaxError", "TypeError"}
    <3>1. CASE generate_json \/ generate_pie
      BY <3>1 DEF generate_json, generate_pie
    <3>2. CASE select_operations
      BY <3>2 DEF select_operations, Raise
    <3>3. CASE \E op \in pending : walk_operation(op)
      BY <3>3 DEF walk_operation
    <3>4. CASE frames # <<>> /\ \E s \in Last(frames) : _walk(s)
      BY <3>4 DEF _walk, Raise
    <3>5. CASE _walk_returns \/ walk_done
      BY <3>5 DEF _walk_returns, walk_done
    <3>6. CASE _parse_shapes
      BY <3>6 DEF _parse_shapes, Raise
    <3> QED
      BY <1>4, <3>1, <3>2, <3>3, <3>4, <3>5, <3>6 DEF Next
  <2> QED
    BY <2>1 DEF CompilesIffOrdered
<1> QED
  BY <1>2, <1>3, <1>4

\* For every service model, the compiler takes the generated definitions exactly if no
\* class refers to itself or to a later one and no input has a member endpoint.
THEOREM CompilesExactly == Spec => []CompilesIffOrdered
<1>1. Init => Laid /\ CompilesIffOrdered
  BY DEF Init, Laid, CompilesIffOrdered
<1>2. IInv /\ Laid /\ CompilesIffOrdered /\ [Next]_vars => Laid' /\ CompilesIffOrdered'
  BY LaidStep, VerdictStep
<1> QED
  BY <1>1, <1>2, Invariance, PTL DEF Spec
=============================================================================
