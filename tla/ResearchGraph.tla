---------------------------- MODULE ResearchGraph ----------------------------
(* One research job through the graph of src/graph/workflow.py: validation, *)
(* the loop of research_node that asks a language model which tools to call,*)
(* the analyst that writes the report, and the retry of the whole run by    *)
(* ResearchProcessor when it fails.  The program is sequential; what varies *)
(* is the outside: which providers answer, how many calls the model asks    *)
(* for, what the tools and the analyst's model return.                      *)
(*                                                                          *)
(* A record in the source registry stands for the tool it came from; the    *)
(* source identifiers of a tool's records are not told apart.               *)
(*                                                                          *)
(* A definition with a longer name before another (MayAskAgain, MayAsk)     *)
(* is a faulty version of it, for showing that a property notices the fault.*)
EXTENDS Integers

CONSTANTS Providers,      \* the primary model and its fallbacks: how many
          MaxIterations,  \* settings.react_max_iterations
          ModelBudget,    \* settings.max_model_calls_per_job
          ToolBudget,     \* settings.max_tool_calls_per_job
          MaxAttempts,    \* settings.job_max_attempts
          MaxBatch        \* bound on the tool calls of one model answer

ASSUME GraphConstants ==
    /\ Providers \in Nat \ {0} /\ MaxIterations \in Nat \ {0}
    /\ ModelBudget \in Nat \ {0} /\ ToolBudget \in Nat \ {0}
    /\ MaxAttempts \in Nat \ {0} /\ MaxBatch \in Nat

VARIABLES
    node,               \* where the run is
    tickers,            \* the request names a ticker, or its query does (the
                        \* API insists on it, other callers of run_research not)
    iterations, tries,  \* rounds of the loop; models asked in this round
    modelCalls,         \* AgentState.model_calls
    todo, logged,       \* tool calls left of this answer; tool_calls_log
    found, sources,     \* analyses or news were found; the source registry
    report, error,      \* sources the report cites, {} for none; the error
    attempt,            \* the envelope's attempt
    asked, fetched, spent \* history: tool calls the model asked for and sources
                          \* with data in this attempt; model calls of the job

loop    == <<iterations, tries>>
charges == <<modelCalls, spent>>
calls   == <<todo, logged, asked>>
data    == <<found, sources, fetched>>
outcome == <<report, error>>
vars    == <<node, tickers, loop, charges, calls, data, outcome, attempt>>

Node   == {"queued", "validate", "research", "ask", "tools", "conclude",
           "analyst", "end", "raised", "succeeded", "failed"}
Error  == {"none", "no tickers", "no data", "no provenance", "over budget",
           "no model", "rejected"}
Tool   == {"market", "news", "macro", "filing"}
\* What a tool can hand back after the breaker and the content screen; only
\* the tools that return a list can return an empty one.
Result(t) == IF t \in {"news", "macro"} THEN {"data", "empty", "error"}
                                         ELSE {"data", "error"}

Init ==
    /\ node = "queued" /\ tickers \in BOOLEAN
    /\ iterations = 0 /\ tries = 0 /\ modelCalls = 0 /\ spent = 0
    /\ todo = 0 /\ logged = 0 /\ asked = 0
    /\ found = FALSE /\ sources = {} /\ fetched = {}
    /\ report = {} /\ error = "none"
    /\ attempt = 0

-----------------------------------------------------------------------------
(* run_research and validate_input.                                         *)

\* A delivery starts from a fresh AgentState.
Fresh ==
    /\ node = "queued" /\ node' = "validate"
    /\ iterations' = 0 /\ tries' = 0 /\ modelCalls' = 0
    /\ todo' = 0 /\ logged' = 0 /\ asked' = 0
    /\ found' = FALSE /\ fetched' = {}
    /\ report' = {} /\ error' = "none"
    /\ UNCHANGED <<tickers, spent>>
RunKeepingSources == Fresh /\ attempt' = attempt + 1 /\ UNCHANGED sources
RunUncounted == Fresh /\ attempt' = 1 /\ sources' = {}
Run == Fresh /\ attempt' = attempt + 1 /\ sources' = {}

Validate ==
    /\ node = "validate"
    /\ IF tickers
       THEN node' = "research" /\ UNCHANGED error
       ELSE node' = "end" /\ error' = "no tickers"
    /\ UNCHANGED <<tickers, loop, charges, calls, data, report, attempt>>

-----------------------------------------------------------------------------
(* research_node.                                                           *)

MayAskAgain == tries <= Providers /\ modelCalls < ModelBudget
MayAskOverBudget == tries < Providers
MayAsk == tries < Providers /\ modelCalls < ModelBudget
Charge ==
    /\ modelCalls' = modelCalls + 1
    /\ spent' = spent + 1

BeginRound ==
    /\ node = "research"
    /\ IF iterations < MaxIterations /\ modelCalls < ModelBudget
       THEN /\ node' = "ask" /\ iterations' = iterations + 1 /\ tries' = 0
       ELSE /\ node' = "conclude" /\ UNCHANGED loop
    /\ UNCHANGED <<tickers, charges, calls, data, outcome, attempt>>

\* One candidate fails: the next one is asked.
AskInVain ==
    /\ node \in {"ask", "analyst"} /\ MayAsk
    /\ Charge /\ tries' = tries + 1
    /\ UNCHANGED <<node, tickers, iterations, calls, data, outcome, attempt>>

\* A candidate answers with n tool calls; without any the research is over.
AskTools(n) ==
    /\ node = "ask" /\ MayAsk
    /\ Charge /\ tries' = tries + 1
    /\ todo' = n /\ asked' = asked + n
    /\ node' = IF n = 0 THEN "conclude" ELSE "tools"
    /\ UNCHANGED <<tickers, iterations, logged, data, outcome, attempt>>

\* No candidate answered: RuntimeError, and what was found is lost.
GiveUp ==
    /\ node = "ask" /\ ~MayAsk
    /\ node' = "raised"
    /\ UNCHANGED <<tickers, loop, charges, calls, data, outcome, attempt>>

MayCall == todo > 0 /\ logged < ToolBudget

\* A result is filed by its tool and shape, and registered as a source if it
\* holds data.
Register(t, r) == sources' = IF r = "data" THEN sources \cup {t} ELSE sources
RecordErrorsToo(t, r) ==
    found' = (found \/ t \in {"market", "news"}) /\ Register(t, r)
Record(t, r) ==
    found' = (found \/ (t \in {"market", "news"} /\ r = "data")) /\ Register(t, r)

\* One tool call: recorded, logged, and fed back to the model.
CallTool(t, r) ==
    /\ node = "tools" /\ MayCall
    /\ Record(t, r)
    /\ fetched' = IF r = "data" THEN fetched \cup {t} ELSE fetched
    /\ todo' = todo - 1 /\ logged' = logged + 1
    /\ UNCHANGED <<node, tickers, loop, charges, asked, outcome, attempt>>

\* The model names a tool that is not in TOOL_MAP: an error, but logged.
CallUnknown ==
    /\ node = "tools" /\ MayCall
    /\ todo' = todo - 1 /\ logged' = logged + 1
    /\ UNCHANGED <<node, tickers, loop, charges, asked, data, outcome, attempt>>

\* The answer's calls are done, or the budget cuts them short.
EndRound ==
    /\ node = "tools" /\ ~MayCall
    /\ node' = "research" /\ todo' = 0
    /\ UNCHANGED <<tickers, loop, charges, logged, asked, data, outcome, attempt>>

ResearchError ==
    IF ~found THEN "no data" ELSE IF sources = {} THEN "no provenance" ELSE "none"

\* The node returns and route_after_research chooses; the analyst starts with
\* the first candidate.
Conclude ==
    /\ node = "conclude"
    /\ error' = ResearchError
    /\ node' = IF ResearchError = "none" /\ found THEN "analyst" ELSE "end"
    /\ tries' = 0
    /\ UNCHANGED <<tickers, iterations, charges, calls, data, report, attempt>>

-----------------------------------------------------------------------------
(* analyst_node.                                                            *)

Publish(cited) ==
    IF cited \subseteq sources
    THEN report' = cited /\ error' = "none"
    ELSE report' = {} /\ error' = "rejected"

\* The schema wants at least one citation.
AnalystWrites(cited) ==
    /\ node = "analyst" /\ MayAsk
    /\ Charge /\ tries' = tries + 1
    /\ Publish(cited)
    /\ node' = "end"
    /\ UNCHANGED <<tickers, iterations, calls, data, attempt>>

\* Not JSON, or not the schema.
AnalystBabbles ==
    /\ node = "analyst" /\ MayAsk
    /\ Charge /\ tries' = tries + 1
    /\ report' = {} /\ error' = "rejected"
    /\ node' = "end"
    /\ UNCHANGED <<tickers, iterations, calls, data, attempt>>

AnalystGivesUpSilently ==
    /\ node = "analyst" /\ ~MayAsk
    /\ node' = "end"
    /\ UNCHANGED <<tickers, loop, charges, calls, data, outcome, attempt>>
AnalystGivesUp ==
    /\ node = "analyst" /\ ~MayAsk
    /\ report' = {}
    /\ error' = IF modelCalls < ModelBudget THEN "no model" ELSE "over budget"
    /\ node' = "end"
    /\ UNCHANGED <<tickers, loop, charges, calls, data, attempt>>

-----------------------------------------------------------------------------
(* ResearchProcessor: a run that raised or left an error is retried.        *)

Settle ==
    /\ UNCHANGED <<tickers, loop, charges, calls, data, outcome, attempt>>
    /\ \/ /\ node = "end" /\ error = "none"
          /\ node' = "succeeded"
       \/ /\ node = "raised" \/ (node = "end" /\ error # "none")
          /\ node' = IF attempt >= MaxAttempts THEN "failed" ELSE "queued"

Next ==
    \/ Run \/ Validate
    \/ BeginRound \/ AskInVain \/ GiveUp \/ (\E n \in 0..MaxBatch : AskTools(n))
    \/ (\E t \in Tool : \E r \in Result(t) : CallTool(t, r))
    \/ CallUnknown \/ EndRound \/ Conclude
    \/ (\E cited \in (SUBSET (Tool \cup {"invented"})) \ {{}} : AnalystWrites(cited))
    \/ AnalystBabbles \/ AnalystGivesUp
    \/ Settle

Spec == Init /\ [][Next]_vars

\* Every call to a model or a tool returns (a tool within 30 seconds), so the
\* program always goes on.
FairSpec == Spec /\ WF_vars(Next)

-----------------------------------------------------------------------------
(* Properties.                                                              *)

\* Every variable keeps its type.
TypeOK ==
    /\ node \in Node /\ tickers \in BOOLEAN
    /\ iterations \in 0..MaxIterations /\ tries \in 0..Providers
    /\ modelCalls \in Nat /\ spent \in Nat
    /\ todo \in 0..MaxBatch /\ logged \in Nat /\ asked \in Nat
    /\ found \in BOOLEAN /\ sources \subseteq Tool /\ fetched \subseteq Tool
    /\ report \subseteq Tool \cup {"invented"} /\ error \in Error
    /\ attempt \in 0..MaxAttempts

\* One run stays within both ceilings, whichever loop or fallback makes the
\* call: the research loop, its fallbacks, the analyst and its fallbacks.
CeilingsHold == modelCalls <= ModelBudget /\ logged <= ToolBudget

\* A run that ends has a report or an error, never both and never neither,
\* whatever path it took: the processor and the status record rely on it.
ReportOrError == node = "end" => (report # {} <=> error = "none")

\* The analyst is asked to write only when a tool returned market data or news
\* in this very attempt, registered as a source, and no error is left over.
AnalystHasEvidence ==
    node = "analyst" => /\ fetched \cap {"market", "news"} \cap sources # {}
                        /\ error = "none"

\* A report cites only sources that a tool returned data for in this very
\* attempt: never an invented one, never one of an earlier attempt.
CitesWhatWasFetched == report \subseteq fetched

\* Research asks each candidate at most once a round, so that the analyst finds
\* at least the rest of the budget: with a ceiling above MaxIterations *
\* Providers it can always ask, and a run with evidence can end with a report.
ResearchPaysPerRound ==
    node = "analyst" /\ tries = 0 => modelCalls <= iterations * Providers

\* A job always ends.
Ends == <>(node \in {"succeeded", "failed"})

\* "Per-job model and tool-call ceilings prevent unbounded ReAct loops."
JobCeilingHolds == spent <= ModelBudget

\* "Primary LLM unavailable: ordered fallback is attempted": the research is
\* given up only when every candidate has been asked.
FallbackAttempted == node = "raised" => tries = Providers

\* "Always log every tool call for audit/observability": when the model is
\* asked again, or the research ends, every call it asked for is in the log.
EveryCallLogged == node \in {"ask", "conclude"} => logged = asked
=============================================================================
