------------------------- MODULE ResearchGraphProofs -------------------------
(* Theorems about ResearchGraph, for any budgets and any number of models.  *)
EXTENDS ResearchGraph, TLAPS

Counted == node = "queued" => attempt < MaxAttempts

\* Before the analyst has answered there is neither a report nor an error.
Open    == {"validate", "research", "ask", "tools", "conclude", "analyst", "raised"}
Unknown == node \in Open => report = {} /\ error = "none"

\* The registry is what was fetched, and what was found is in it.
Registered ==
    /\ sources = fetched
    /\ found => fetched \cap {"market", "news"} # {}
    /\ node = "analyst" => found

GraphInv ==
    /\ TypeOK /\ Counted
    /\ CeilingsHold
    /\ Unknown /\ ReportOrError
    /\ Registered /\ CitesWhatWasFetched

-----------------------------------------------------------------------------

LEMMA GraphInit == Init => GraphInv
<1> SUFFICES ASSUME Init PROVE GraphInv
  OBVIOUS
<1>1. TypeOK
  <2>1. /\ iterations \in 0..MaxIterations /\ tries \in 0..Providers
        /\ modelCalls \in Nat /\ spent \in Nat
        /\ todo \in 0..MaxBatch /\ logged \in Nat /\ asked \in Nat
        /\ attempt \in 0..MaxAttempts
    BY GraphConstants, SMT DEF Init
  <2>2. /\ node \in Node /\ tickers \in BOOLEAN /\ found \in BOOLEAN /\ error \in Error
        /\ sources \subseteq Tool /\ fetched \subseteq Tool
        /\ report \subseteq Tool \cup {"invented"}
    BY DEF Init, Node, Error
  <2> QED BY <2>1, <2>2 DEF TypeOK
<1>2. Counted /\ CeilingsHold
  BY GraphConstants, SMT DEF Init, Counted, CeilingsHold
<1>3. Unknown /\ ReportOrError
  BY DEF Init, Unknown, Open, ReportOrError
<1>4. Registered /\ CitesWhatWasFetched
  BY DEF Init, Registered, CitesWhatWasFetched
<1> QED BY <1>1, <1>2, <1>3, <1>4 DEF GraphInv

\* The numbers of the run, and the rest of its state.
Numbers ==
    /\ iterations \in 0..MaxIterations /\ tries \in 0..Providers
    /\ modelCalls \in Nat /\ spent \in Nat
    /\ todo \in 0..MaxBatch /\ logged \in Nat /\ asked \in Nat
    /\ attempt \in 0..MaxAttempts
    /\ Counted
Kinds ==
    /\ node \in Node /\ tickers \in BOOLEAN /\ found \in BOOLEAN /\ error \in Error
    /\ sources \subseteq Tool /\ fetched \subseteq Tool
    /\ report \subseteq Tool \cup {"invented"}

LEMMA NumbersStep ==
  ASSUME Numbers, [Next]_vars
  PROVE  Numbers'
<1> USE GraphConstants DEF Numbers, Counted
<1>1. CASE Run
  BY <1>1, SMT DEF Run, Fresh
<1>2. ASSUME node' # "queued", UNCHANGED <<iterations, tries, charges, calls, attempt>>
      PROVE  Numbers'
  BY <1>2, SMT DEF charges, calls
<1>3. CASE Validate \/ GiveUp \/ AnalystGivesUp
  BY <1>2, <1>3 DEF Validate, GiveUp, AnalystGivesUp, loop
<1>4. CASE BeginRound
  BY <1>4, SMT DEF BeginRound, loop, charges, calls
<1>5. ASSUME MayAsk, Charge, tries' = tries + 1, UNCHANGED <<iterations, attempt>>,
             node' # "queued",
             \/ UNCHANGED calls
             \/ \E n \in 0..MaxBatch : todo' = n /\ asked' = asked + n /\ UNCHANGED logged
      PROVE  Numbers'
  BY <1>5, SMT DEF MayAsk, Charge, calls
<1>6. CASE AskInVain
  BY <1>5, <1>6 DEF AskInVain
<1>7. ASSUME NEW n \in 0..MaxBatch, AskTools(n) PROVE Numbers'
  <2>1. node' # "queued"
    BY <1>7 DEF AskTools
  <2> QED BY <1>5, <1>7, <2>1 DEF AskTools
<1>8. ASSUME NEW cited \in (SUBSET (Tool \cup {"invented"})) \ {{}}, AnalystWrites(cited)
      PROVE  Numbers'
  BY <1>5, <1>8 DEF AnalystWrites
<1>9. CASE AnalystBabbles
  BY <1>5, <1>9 DEF AnalystBabbles
<1>10. ASSUME MayCall, todo' = todo - 1, logged' = logged + 1, node' # "queued",
              UNCHANGED <<iterations, tries, charges, asked, attempt>>
       PROVE  Numbers'
  BY <1>10, SMT DEF MayCall, charges
<1>11. ASSUME NEW t \in Tool, NEW r \in Result(t), CallTool(t, r) PROVE Numbers'
  BY <1>10, <1>11 DEF CallTool, loop
<1>12. CASE CallUnknown
  BY <1>10, <1>12 DEF CallUnknown, loop
<1>13. CASE EndRound
  BY <1>13, SMT DEF EndRound, loop, charges
<1>14. CASE Conclude
  <2>1. node' # "queued"
    BY <1>14 DEF Conclude
  <2> QED BY <1>14, <2>1, SMT DEF Conclude, charges, calls
<1>15. CASE Settle
  <2>1. UNCHANGED <<iterations, tries, charges, calls, attempt>>
    BY <1>15 DEF Settle, loop
  <2>2. node' = "queued" => ~(attempt >= MaxAttempts)
    BY <1>15 DEF Settle
  <2> QED BY <2>1, <2>2, SMT DEF charges, calls
<1>16. CASE UNCHANGED vars
  BY <1>16, SMT DEF vars, loop, charges, calls
<1> QED BY <1>1, <1>3, <1>4, <1>6, <1>7, <1>8, <1>9, <1>11, <1>12, <1>13, <1>14, <1>15,
           <1>16 DEF Next

LEMMA KindsStep ==
  ASSUME Kinds, [Next]_vars
  PROVE  Kinds'
<1> USE DEF Kinds, Node, Error
<1>1. CASE Run
  BY <1>1 DEF Run, Fresh
<1>2. CASE Validate
  BY <1>2 DEF Validate, data
<1>3. CASE BeginRound \/ AskInVain \/ GiveUp
  BY <1>3 DEF BeginRound, AskInVain, GiveUp, data, outcome
<1>4. ASSUME NEW n \in 0..MaxBatch, AskTools(n) PROVE Kinds'
  BY <1>4 DEF AskTools, data, outcome
<1>5. ASSUME NEW t \in Tool, NEW r \in Result(t), CallTool(t, r) PROVE Kinds'
  BY <1>5 DEF CallTool, Record, Register, outcome
<1>6. CASE CallUnknown \/ EndRound
  BY <1>6 DEF CallUnknown, EndRound, data, outcome
<1>7. CASE Conclude
  BY <1>7 DEF Conclude, ResearchError, data
<1>8. ASSUME NEW cited \in (SUBSET (Tool \cup {"invented"})) \ {{}}, AnalystWrites(cited)
      PROVE  Kinds'
  BY <1>8 DEF AnalystWrites, Publish, data
<1>9. CASE AnalystBabbles \/ AnalystGivesUp
  BY <1>9 DEF AnalystBabbles, AnalystGivesUp, data
<1>10. CASE Settle
  BY <1>10 DEF Settle, data, outcome
<1>11. CASE UNCHANGED vars
  BY <1>11 DEF vars, data, outcome
<1> QED BY <1>1, <1>2, <1>3, <1>4, <1>5, <1>6, <1>7, <1>8, <1>9, <1>10, <1>11 DEF Next

LEMMA TypeStep ==
  ASSUME TypeOK, Counted, [Next]_vars
  PROVE  TypeOK' /\ Counted'
<1>1. Numbers /\ Kinds
  BY DEF TypeOK, Numbers, Kinds
<1>2. Numbers' /\ Kinds'
  BY <1>1, NumbersStep, KindsStep
<1> QED BY <1>2 DEF TypeOK, Numbers, Kinds

LEMMA CeilingStep ==
  ASSUME TypeOK, CeilingsHold, [Next]_vars
  PROVE  CeilingsHold'
<1> USE GraphConstants DEF CeilingsHold
<1>0. modelCalls \in Nat /\ logged \in Nat
  BY DEF TypeOK
<1>1. CASE Run
  BY <1>1, SMT DEF Run, Fresh
<1>2. ASSUME MayAsk, Charge, UNCHANGED logged PROVE CeilingsHold'
  BY <1>0, <1>2, SMT DEF MayAsk, Charge
<1>3. ASSUME MayCall, logged' = logged + 1, UNCHANGED modelCalls PROVE CeilingsHold'
  BY <1>0, <1>3, SMT DEF MayCall
<1>4. ASSUME UNCHANGED <<modelCalls, logged>> PROVE CeilingsHold'
  BY <1>4
<1>5. CASE AskInVain
  BY <1>2, <1>5 DEF AskInVain, calls
<1>6. ASSUME NEW n \in 0..MaxBatch, AskTools(n) PROVE CeilingsHold'
  BY <1>2, <1>6 DEF AskTools
<1>7. ASSUME NEW t \in Tool, NEW r \in Result(t), CallTool(t, r) PROVE CeilingsHold'
  BY <1>3, <1>7 DEF CallTool, charges
<1>8. CASE CallUnknown
  BY <1>3, <1>8 DEF CallUnknown, charges
<1>9. ASSUME NEW cited \in (SUBSET (Tool \cup {"invented"})) \ {{}}, AnalystWrites(cited)
      PROVE  CeilingsHold'
  BY <1>2, <1>9 DEF AnalystWrites, calls
<1>10. CASE AnalystBabbles
  BY <1>2, <1>10 DEF AnalystBabbles, calls
<1>11. CASE Validate \/ BeginRound \/ GiveUp \/ EndRound
  BY <1>4, <1>11 DEF Validate, BeginRound, GiveUp, EndRound, charges, calls
<1>12. CASE Conclude \/ AnalystGivesUp \/ Settle
  BY <1>4, <1>12 DEF Conclude, AnalystGivesUp, Settle, charges, calls
<1>13. CASE UNCHANGED vars
  BY <1>4, <1>13 DEF vars, charges, calls
<1> QED BY <1>1, <1>5, <1>6, <1>7, <1>8, <1>9, <1>10, <1>11, <1>12, <1>13 DEF Next

\* What the end of a run, and the analyst's report, rest on.
OutcomeInv == Unknown /\ ReportOrError /\ Registered /\ CitesWhatWasFetched

LEMMA OutcomeStep ==
  ASSUME TypeOK, OutcomeInv, [Next]_vars
  PROVE  OutcomeInv'
<1> USE DEF OutcomeInv, Unknown, Open, ReportOrError, Registered, CitesWhatWasFetched
<1>1. CASE Run
  BY <1>1, SMT DEF Run, Fresh
<1>2. CASE Validate
  BY <1>2 DEF Validate, data
<1>3. CASE BeginRound
  BY <1>3, SMT DEF BeginRound, data, outcome
<1>4. CASE AskInVain
  BY <1>4, SMT DEF AskInVain, data, outcome
<1>5. CASE GiveUp
  BY <1>5, SMT DEF GiveUp, data, outcome
<1>6. ASSUME NEW n \in 0..MaxBatch, AskTools(n) PROVE OutcomeInv'
  BY <1>6, SMT DEF AskTools, data, outcome
<1>7. ASSUME NEW t \in Tool, NEW r \in Result(t), CallTool(t, r) PROVE OutcomeInv'
  <2>1. /\ node = "tools" /\ node' = "tools" /\ UNCHANGED outcome
        /\ found' = (found \/ (t \in {"market", "news"} /\ r = "data"))
        /\ sources' = IF r = "data" THEN sources \cup {t} ELSE sources
        /\ fetched' = IF r = "data" THEN fetched \cup {t} ELSE fetched
    BY <1>7 DEF CallTool, Record, Register
  <2>2. Unknown' /\ ReportOrError'
    BY <2>1 DEF outcome
  <2>3. sources' = fetched' /\ fetched \subseteq fetched'
    BY <2>1
  <2>4. found' => fetched' \cap {"market", "news"} # {}
    <3>1. CASE found
      BY <2>3, <3>1
    <3>2. CASE t \in {"market", "news"} /\ r = "data"
      BY <2>1, <3>2
    <3> QED BY <2>1, <3>1, <3>2
  <2>5. report' \subseteq fetched'
    BY <2>1, <2>3 DEF outcome
  <2> QED BY <2>1, <2>2, <2>3, <2>4, <2>5
<1>8. CASE CallUnknown
  BY <1>8, SMT DEF CallUnknown, data, outcome
<1>9. CASE EndRound
  BY <1>9, SMT DEF EndRound, data, outcome
<1>10. CASE Conclude
  <2>1. /\ node = "conclude" /\ report = {} /\ report' = {} /\ UNCHANGED data
        /\ \/ node' = "analyst" /\ error' = "none" /\ found
           \/ node' = "end" /\ error' # "none"
    BY <1>10 DEF Conclude, ResearchError
  <2> QED BY <2>1 DEF data
<1>11. ASSUME NEW cited \in (SUBSET (Tool \cup {"invented"})) \ {{}}, AnalystWrites(cited)
       PROVE  OutcomeInv'
  <2>1. /\ node' = "end" /\ UNCHANGED data
        /\ \/ cited \subseteq sources /\ report' = cited /\ error' = "none"
           \/ report' = {} /\ error' = "rejected"
    BY <1>11 DEF AnalystWrites, Publish
  <2>2. cited # {}
    BY <1>11
  <2> QED BY <2>1, <2>2 DEF data
<1>12. CASE AnalystBabbles
  BY <1>12, SMT DEF AnalystBabbles, data
<1>13. CASE AnalystGivesUp
  BY <1>13 DEF AnalystGivesUp, data
<1>14. CASE Settle
  BY <1>14, SMT DEF Settle, data, outcome
<1>15. CASE UNCHANGED vars
  BY <1>15, SMT DEF vars, data, outcome
<1> QED BY <1>1, <1>2, <1>3, <1>4, <1>5, <1>6, <1>7, <1>8, <1>9, <1>10, <1>11, <1>12,
           <1>13, <1>14, <1>15 DEF Next

LEMMA GraphAlways == Spec => []GraphInv
<1>1. GraphInv /\ [Next]_vars => GraphInv'
  BY TypeStep, CeilingStep, OutcomeStep DEF GraphInv, OutcomeInv
<1> QED BY <1>1, GraphInit, PTL DEF Spec

\* Every variable of the run keeps its type.
THEOREM GraphTypes == Spec => []TypeOK
<1>1. GraphInv => TypeOK
  BY DEF GraphInv
<1> QED BY <1>1, GraphAlways, PTL

\* One run never exceeds its model and tool ceilings, fallbacks included.
THEOREM CeilingsAreKept == Spec => []CeilingsHold
<1>1. GraphInv => CeilingsHold
  BY DEF GraphInv
<1> QED BY <1>1, GraphAlways, PTL

\* A run ends with a report or an error and never with both.
THEOREM RunsEndWithReportOrError == Spec => []ReportOrError
<1>1. GraphInv => ReportOrError
  BY DEF GraphInv
<1> QED BY <1>1, GraphAlways, PTL

\* The analyst works on data of this attempt that is in the source registry.
THEOREM AnalystWorksOnEvidence == Spec => []AnalystHasEvidence
<1>1. GraphInv => AnalystHasEvidence
  BY DEF GraphInv, Unknown, Open, Registered, AnalystHasEvidence
<1> QED BY <1>1, GraphAlways, PTL

\* A report cites only what a tool returned in this attempt.
THEOREM ReportsCiteEvidence == Spec => []CitesWhatWasFetched
<1>1. GraphInv => CitesWhatWasFetched
  BY DEF GraphInv
<1> QED BY <1>1, GraphAlways, PTL

-----------------------------------------------------------------------------
(* The budget that is left for the analyst.                                 *)

\* Each round asks each candidate once at most.
RoundsPaid ==
    /\ node \in {"ask"} => /\ iterations > 0
                           /\ modelCalls <= (iterations - 1) * Providers + tries
    /\ node \in {"research", "tools", "conclude"} => modelCalls <= iterations * Providers
    /\ node = "analyst" /\ tries = 0 => modelCalls <= iterations * Providers
    /\ node = "validate" => modelCalls = 0 /\ iterations = 0

LEMMA RoundsPaidStep ==
  ASSUME TypeOK, RoundsPaid, [Next]_vars
  PROVE  RoundsPaid'
<1>0. /\ Providers \in Nat \ {0} /\ iterations \in Nat /\ tries \in 0..Providers
      /\ modelCalls \in Nat
  BY GraphConstants, SMT DEF TypeOK
<1>1. /\ (iterations + 1) - 1 = iterations
      /\ iterations * Providers \in Nat /\ (iterations - 1) * Providers \in Int
      /\ 0 * Providers = 0
      /\ (iterations - 1) * Providers + Providers = iterations * Providers
  BY <1>0, SMT
<1> USE DEF RoundsPaid
<1>2. CASE Run
  BY <1>2 DEF Run, Fresh
<1>3. CASE Validate
  <2>1. /\ node' # "ask" /\ node' # "tools" /\ node' # "conclude" /\ node' # "analyst"
        /\ node' # "validate" /\ node = "validate" /\ UNCHANGED <<iterations, modelCalls>>
    BY <1>3 DEF Validate, loop, charges
  <2> QED BY <1>0, <1>1, <2>1, SMT
<1>4. CASE BeginRound
  BY <1>0, <1>1, <1>4, SMT DEF BeginRound, loop, charges
<1>5. CASE AskInVain
  BY <1>0, <1>1, <1>5, SMT DEF AskInVain, MayAsk, Charge
<1>6. ASSUME NEW n \in 0..MaxBatch, AskTools(n) PROVE RoundsPaid'
  <2>1. node' \in {"conclude", "tools"} /\ node = "ask"
    BY <1>6 DEF AskTools
  <2>2. modelCalls + 1 <= iterations * Providers
    BY <1>0, <1>1, <1>6, SMT DEF AskTools, MayAsk
  <2> QED BY <2>1, <2>2, <1>6 DEF AskTools, Charge
<1>7. ASSUME NEW t \in Tool, NEW r \in Result(t), CallTool(t, r) PROVE RoundsPaid'
  BY <1>7 DEF CallTool, loop, charges
<1>8. CASE CallUnknown \/ EndRound \/ GiveUp
  BY <1>8 DEF CallUnknown, EndRound, GiveUp, loop, charges
<1>9. CASE Conclude
  BY <1>9 DEF Conclude, charges
<1>10. ASSUME NEW cited \in (SUBSET (Tool \cup {"invented"})) \ {{}}, AnalystWrites(cited)
       PROVE  RoundsPaid'
  BY <1>10 DEF AnalystWrites
<1>11. CASE AnalystBabbles \/ AnalystGivesUp
  BY <1>11 DEF AnalystBabbles, AnalystGivesUp
<1>12. CASE Settle
  BY <1>12 DEF Settle
<1>13. CASE UNCHANGED vars
  BY <1>13 DEF vars, loop, charges
<1> QED BY <1>2, <1>3, <1>4, <1>5, <1>6, <1>7, <1>8, <1>9, <1>10, <1>11, <1>12, <1>13 DEF Next

LEMMA RoundsPaidAlways == Spec => [](GraphInv /\ RoundsPaid)
<1>1. Init => RoundsPaid
  BY SMT DEF Init, RoundsPaid
<1>2. GraphInv /\ RoundsPaid /\ [Next]_vars => RoundsPaid'
  BY RoundsPaidStep DEF GraphInv
<1> QED BY <1>1, <1>2, GraphAlways, PTL DEF Spec

\* Research never charges the job more than one call for each candidate and
\* round, whatever fails and wherever the budget ends.
THEOREM ResearchCharges == Spec => []ResearchPaysPerRound
<1>1. RoundsPaid => ResearchPaysPerRound
  BY DEF RoundsPaid, ResearchPaysPerRound
<1> QED BY <1>1, RoundsPaidAlways, PTL

\* A model budget above the rounds times the candidates always leaves the
\* analyst a call: the condition on the settings for a run to be able to end
\* with a report.
THEOREM AnalystAlwaysFunded ==
  ASSUME ModelBudget > MaxIterations * Providers
  PROVE  Spec => [](node = "analyst" /\ tries = 0 => modelCalls < ModelBudget)
<1>1. GraphInv /\ RoundsPaid => (node = "analyst" /\ tries = 0 => modelCalls < ModelBudget)
  <2> SUFFICES ASSUME TypeOK, RoundsPaid, node = "analyst", tries = 0
               PROVE  modelCalls < ModelBudget
    BY DEF GraphInv
  <2>1. modelCalls <= iterations * Providers
    BY DEF RoundsPaid
  <2>2. iterations * Providers <= MaxIterations * Providers
    <3>1. /\ iterations \in Nat /\ MaxIterations \in Nat /\ Providers \in Nat
          /\ iterations <= MaxIterations
      BY GraphConstants, SMT DEF TypeOK
    <3> QED BY <3>1, SMT
  <2> QED BY <2>1, <2>2, GraphConstants, SMT DEF TypeOK
<1> QED BY <1>1, RoundsPaidAlways, PTL
=============================================================================
