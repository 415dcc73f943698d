--------------------------- MODULE DataToolsProofs ---------------------------
(* Proofs about DataTools: every tool, setting and outcome of the requests. *)
EXTENDS DataTools, TLAPS

-----------------------------------------------------------------------------
(* Types.                                                                   *)

LEMMA RequestCount ==
    ASSUME NEW t \in Tool
    PROVE  Len(Requests(t)) = CASE t = "macro" -> 3 [] t = "filing" -> 2 [] OTHER -> 1
BY DEF Tool, Requests

LEMMA AnswerType ==
    ASSUME tool \in Tool, FallBack \/ GiveNothing
    PROVE  /\ shape' \in {"none", "data", "empty", "error"}
           /\ origin' \subseteq {"provider", "mock", "default"} /\ pc' = "answered"
BY DEF FallBack, GiveNothing, Answer

LEMMA BuildType ==
    ASSUME TypeOK, Build
    PROVE  /\ shape' \in {"none", "data", "empty", "error"}
           /\ origin' \subseteq {"provider", "mock", "default"}
           /\ pc' \in {"except", "answered"}
<1>1. CASE BuildMarket
  BY <1>1, AnswerType DEF TypeOK, BuildMarket, Answer, answer
<1>2. CASE BuildNews
  BY <1>2, AnswerType DEF TypeOK, BuildNews, Answer, answer
<1>3. CASE BuildMacro
  BY <1>3, AnswerType DEF TypeOK, BuildMacro, Answer
<1>4. CASE BuildFiling
  BY <1>4, AnswerType DEF TypeOK, BuildFiling, Answer
<1> QED
  BY <1>1, <1>2, <1>3, <1>4 DEF Build

LEMMA TypeInit == Init => TypeOK
<1> SUFFICES ASSUME Init PROVE TypeOK
  OBVIOUS
<1>1. Len(Requests(tool)) \in Nat \ {0}
  BY RequestCount DEF Init, Tool
<1> QED
  BY <1>1 DEF Init, TypeOK

LEMMA TypeStep == TypeOK /\ [Next]_vars => TypeOK'
<1> SUFFICES ASSUME TypeOK, [Next]_vars PROVE TypeOK'
  OBVIOUS
<1>0. /\ tool \in Tool
      /\ Len(Requests(tool)) \in Nat /\ request \in 1..Len(Requests(tool))
  BY RequestCount DEF TypeOK, Tool
<1>1. CASE Begin
  <2>1. pc' \in {"request", "answered"}
        /\ shape' \in {"none", "data", "empty", "error"}
        /\ origin' \subseteq {"provider", "mock", "default"}
    BY <1>0, <1>1, AnswerType DEF Begin, TypeOK, answer
  <2> QED
    BY <1>1, <2>1 DEF Begin, TypeOK, settings, progress
<1>2. ASSUME NEW b \in Bodies(tool), Receive(b)
      PROVE  TypeOK'
  <2>1. b \in {"given", "nothing", "note", "odd"}
    BY DEF Bodies
  <2>2. bodies' \in Seq({"given", "nothing", "note", "odd"})
    BY <1>2, <2>1 DEF Receive, TypeOK
  <2>3. request' \in 1..Len(Requests(tool)) /\ pc' \in {"request", "build"}
    BY <1>0, <1>2 DEF Receive, TypeOK
  <2> QED
    BY <1>2, <2>2, <2>3 DEF Receive, TypeOK, settings, answer
<1>3. ASSUME Raise PROVE TypeOK'
  <2>1. attempt' \in 1..3 /\ pc' \in {"request", "except"}
    BY <1>3 DEF Raise, TypeOK, Attempts
  <2> QED
    BY <1>3, <2>1 DEF Raise, TypeOK, settings, answer
<1>4. CASE Build
  BY <1>4, BuildType DEF Build, TypeOK, settings, progress
<1>5. CASE Except
  <2>1. /\ shape' \in {"none", "data", "empty", "error"}
        /\ origin' \subseteq {"provider", "mock", "default"} /\ pc' = "answered"
    BY <1>0, <1>5, AnswerType DEF Except
  <2> QED
    BY <1>5, <2>1 DEF Except, TypeOK, settings, progress
<1>6. CASE UNCHANGED vars
  BY <1>6 DEF vars, settings, progress, answer, TypeOK
<1> QED
  BY <1>1, <1>2, <1>3, <1>4, <1>5, <1>6 DEF Next

-----------------------------------------------------------------------------
(* Where an answer comes from.  Until the answer is built nothing is given; *)
(* a call that comes to build it has the key and a body for every request,  *)
(* or a company without a number.                                           *)

OriginInv ==
    /\ pc # "answered" => shape = "none" /\ origin = {}
    /\ pc \in {"request", "build"} => key
    /\ pc \in {"called", "request"} => Len(bodies) = request - 1
    /\ pc = "build" => \/ Len(bodies) = Len(Requests(tool))
                       \/ tool = "filing" /\ Received("nothing")
AnswerInv == TypeOK /\ OriginInv /\ MockOnlyIfAllowed /\ DataNeedsProvider

LEMMA AnswerInit == Init => AnswerInv
BY TypeInit DEF Init, AnswerInv, OriginInv, MockOnlyIfAllowed, DataNeedsProvider

\* Falling back respects the setting.
LEMMA FallBackAnswers ==
    ASSUME mock \in BOOLEAN, FallBack \/ GiveNothing
    PROVE  /\ pc' = "answered" /\ shape' # "none"
           /\ "mock" \in origin' => mock
           /\ shape' = "data" => mock
BY DEF FallBack, GiveNothing, Answer

LEMMA AnswerStep == AnswerInv /\ [Next]_vars => AnswerInv'
<1> SUFFICES ASSUME TypeOK, OriginInv, MockOnlyIfAllowed, DataNeedsProvider, [Next]_vars
             PROVE  OriginInv' /\ MockOnlyIfAllowed' /\ DataNeedsProvider'
  BY TypeStep DEF AnswerInv
<1>0. /\ tool \in Tool /\ mock \in BOOLEAN /\ Len(Requests(tool)) \in Nat
      /\ bodies \in Seq({"given", "nothing", "note", "odd"})
      /\ request \in 1..Len(Requests(tool))
  BY RequestCount DEF TypeOK, Tool
<1>1. ASSUME FallBack \/ GiveNothing, UNCHANGED <<settings, progress>>
      PROVE  OriginInv' /\ MockOnlyIfAllowed' /\ DataNeedsProvider'
  <2>1. /\ pc' = "answered" /\ ("mock" \in origin' => mock') /\ (shape' = "data" => mock')
    BY <1>0, <1>1, FallBackAnswers DEF settings
  <2> QED
    BY <2>1 DEF OriginInv, MockOnlyIfAllowed, DataNeedsProvider
<1>2. CASE Begin
  <2>1. CASE key
    BY <1>0, <1>2, <2>1
    DEF Begin, OriginInv, MockOnlyIfAllowed, DataNeedsProvider, settings, progress, answer, Init
  <2>2. CASE ~key
    BY <1>1, <1>2, <2>2 DEF Begin
  <2> QED
    BY <2>1, <2>2
<1>3. ASSUME NEW b \in Bodies(tool), Receive(b)
      PROVE  OriginInv' /\ MockOnlyIfAllowed' /\ DataNeedsProvider'
  <2>1. /\ bodies' = Append(bodies, b) /\ UNCHANGED <<settings, answer>>
        /\ pc = "request" /\ key /\ Len(bodies) = request - 1
    BY <1>3 DEF Receive, OriginInv
  <2>2. b \in {"given", "nothing", "note", "odd"}
    BY DEF Bodies
  <2>3. Len(bodies') = request /\ bodies'[Len(bodies')] = b
    BY <1>0, <2>1, <2>2
  <2>4. shape' = "none" /\ origin' = {}
    BY <2>1 DEF OriginInv, answer
  <2>5. CASE request < Len(Requests(tool)) /\ (tool = "filing" => b = "given")
    <3>1. request' = request + 1 /\ pc' = "request"
      BY <1>3, <2>1, <2>5 DEF Receive
    <3> QED
      BY <1>0, <2>1, <2>3, <2>4, <3>1
      DEF OriginInv, MockOnlyIfAllowed, DataNeedsProvider, settings
  <2>6. CASE ~(request < Len(Requests(tool)) /\ (tool = "filing" => b = "given"))
    <3>1. pc' = "build"
      BY <1>3, <2>6 DEF Receive
    <3>2. \/ Len(bodies') = Len(Requests(tool))
          \/ tool = "filing" /\ b = "nothing"
      BY <1>0, <2>3, <2>6 DEF Bodies
    <3>3. b = "nothing" => Received("nothing")'
      BY <1>0, <2>1, <2>2, <2>3 DEF Received
    <3> QED
      BY <2>1, <2>4, <3>1, <3>2, <3>3
      DEF OriginInv, MockOnlyIfAllowed, DataNeedsProvider, settings
  <2> QED
    BY <2>5, <2>6
<1>4. ASSUME Raise
      PROVE  OriginInv' /\ MockOnlyIfAllowed' /\ DataNeedsProvider'
  <2>1. /\ UNCHANGED <<settings, request, bodies, answer>>
        /\ pc = "request" /\ pc' \in {"request", "except"}
    BY <1>4 DEF Raise
  <2> QED
    BY <2>1 DEF OriginInv, MockOnlyIfAllowed, DataNeedsProvider, settings, answer
<1>5. CASE Build
  <2>0. pc = "build" /\ UNCHANGED <<settings, progress>>
    BY <1>5 DEF Build
  <2>1. ASSUME pc' = "except", UNCHANGED answer
        PROVE  OriginInv' /\ MockOnlyIfAllowed' /\ DataNeedsProvider'
    BY <2>0, <2>1 DEF OriginInv, MockOnlyIfAllowed, DataNeedsProvider, settings, progress, answer
  <2>2. ASSUME NEW from, Answer("data", from), "mock" \in from => mock,
               ~mock => ~(tool = "filing" /\ Received("nothing"))
        PROVE  OriginInv' /\ MockOnlyIfAllowed' /\ DataNeedsProvider'
    <3>1. pc' = "answered" /\ origin' = from
      BY <2>2 DEF Answer
    <3> QED
      BY <2>0, <2>2, <3>1
      DEF OriginInv, MockOnlyIfAllowed, DataNeedsProvider, settings, progress
  <2>3. CASE BuildMarket
    BY <1>1, <2>0, <2>1, <2>2, <2>3 DEF BuildMarket
  <2>4. CASE BuildNews
    BY <1>1, <2>0, <2>1, <2>2, <2>4 DEF BuildNews
  <2>5. CASE BuildMacro
    <3> DEFINE real == IF Received("given") THEN {"provider"} ELSE {}
               more == IF mock THEN {"mock"} ELSE {}
    <3>1. GiveNothing \/ Answer("data", real \cup more)
      BY <2>5 DEF BuildMacro
    <3>2. "mock" \in real \cup more => mock
      OBVIOUS
    <3>3. tool # "filing"
      BY <2>5 DEF BuildMacro
    <3> QED
      BY <1>1, <2>0, <2>2, <3>1, <3>2, <3>3
  <2>6. CASE BuildFiling
    BY <1>1, <2>0, <2>2, <2>6 DEF BuildFiling
  <2> QED
    BY <1>5, <2>3, <2>4, <2>5, <2>6 DEF Build
<1>6. CASE Except
  BY <1>1, <1>6 DEF Except
<1>7. CASE UNCHANGED vars
  BY <1>7 DEF vars, settings, progress, answer, OriginInv, MockOnlyIfAllowed,
              DataNeedsProvider, Received
<1> QED
  BY <1>2, <1>3, <1>4, <1>5, <1>6, <1>7 DEF Next

-----------------------------------------------------------------------------
(* Shapes.                                                                  *)

FitsInv == TypeOK /\ FitsGraph /\ (pc # "answered" => shape = "none" /\ origin = {})

LEMMA FitsStep == FitsInv /\ [Next]_vars => FitsInv'
<1> SUFFICES ASSUME FitsInv, [Next]_vars
             PROVE  FitsGraph' /\ (pc' # "answered" => shape' = "none" /\ origin' = {})
  BY TypeStep DEF FitsInv
<1>1. ASSUME NEW from, from # {}, Answer("data", from), UNCHANGED settings
      PROVE  FitsGraph' /\ pc' = "answered"
  BY <1>1 DEF Answer, FitsGraph
<1>2. ASSUME GiveNothing, UNCHANGED settings PROVE FitsGraph' /\ pc' = "answered"
  BY <1>2 DEF GiveNothing, Answer, FitsGraph, FitsInv, TypeOK, Tool, settings
<1>3. ASSUME FallBack, UNCHANGED settings PROVE FitsGraph' /\ pc' = "answered"
  BY <1>1, <1>2, <1>3 DEF FallBack
<1>4. ASSUME pc # "answered", UNCHANGED <<settings, answer>>
      PROVE  FitsGraph' /\ shape' = "none" /\ origin' = {}
  BY <1>4 DEF FitsInv, FitsGraph, settings, answer
<1>5. CASE Begin
  BY <1>3, <1>4, <1>5 DEF Begin
<1>6. ASSUME NEW b \in Bodies(tool), Receive(b)
      PROVE  FitsGraph' /\ shape' = "none" /\ origin' = {}
  BY <1>4, <1>6 DEF Receive
<1>7. ASSUME Raise
      PROVE  FitsGraph' /\ shape' = "none" /\ origin' = {}
  BY <1>4, <1>7 DEF Raise
<1>8. CASE Build
  <2>0. pc = "build" /\ UNCHANGED settings
    BY <1>8 DEF Build
  <2>1. CASE BuildMarket
    BY <1>1, <1>3, <1>4, <2>0, <2>1 DEF BuildMarket
  <2>2. CASE BuildNews
    BY <1>1, <1>2, <1>4, <2>0, <2>2 DEF BuildNews
  <2>3. CASE BuildMacro
    BY <1>1, <1>2, <2>0, <2>3 DEF BuildMacro
  <2>4. CASE BuildFiling
    BY <1>1, <1>2, <2>0, <2>4 DEF BuildFiling
  <2> QED
    BY <1>8, <2>1, <2>2, <2>3, <2>4 DEF Build
<1>9. CASE Except
  BY <1>3, <1>9 DEF Except
<1>10. CASE UNCHANGED vars
  BY <1>10 DEF vars, settings, progress, answer, FitsInv, FitsGraph
<1> QED
  BY <1>5, <1>6, <1>7, <1>8, <1>9, <1>10 DEF Next

\* No tool gives an answer of a shape that the research graph does not expect
\* of it, or data that comes from nowhere.
THEOREM AnswersFitGraph == Spec => []FitsGraph
<1>1. Init => FitsInv
  BY TypeInit DEF Init, FitsInv, FitsGraph
<1>2. FitsInv => FitsGraph
  BY DEF FitsInv
<1> QED
  BY <1>1, <1>2, FitsStep, PTL DEF Spec

-----------------------------------------------------------------------------
\* The state of a call keeps its types, whatever the providers answer.
THEOREM ToolTypes == Spec => []TypeOK
BY TypeInit, TypeStep, PTL DEF Spec

\* No path of any tool gives illustrative records unless the settings allow it.
THEOREM MockNeedsPermission == Spec => []MockOnlyIfAllowed
<1>1. AnswerInv => MockOnlyIfAllowed
  BY DEF AnswerInv
<1> QED
  BY AnswerInit, AnswerStep, <1>1, PTL DEF Spec

\* Without mock data there is no data unless the provider answered every request.
THEOREM DataComesFromProvider == Spec => []DataNeedsProvider
<1>1. AnswerInv => DataNeedsProvider
  BY DEF AnswerInv
<1> QED
  BY AnswerInit, AnswerStep, <1>1, PTL DEF Spec
=============================================================================
