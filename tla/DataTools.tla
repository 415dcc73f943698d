------------------------------ MODULE DataTools ------------------------------
(* One call of a data tool of src/tools: the requests it makes one after the*)
(* other, each retried when it raises, the answer made of the bodies, and   *)
(* the answer given instead when a request kept raising or a body could not *)
(* be converted.  The four tools differ in their requests, in the key they  *)
(* need and in what they fall back on.                                      *)
(*                                                                          *)
(* Time is left out: the timeout of httpx.Client bounds each phase and each *)
(* read of a request and not the request, so the code gives no bound on how  *)
(* long a call takes.  More than no article is asked for (max_articles).     *)
(*                                                                          *)
(* A definition with a longer name just before another (FallBackUnasked,    *)
(* FallBack) is a faulty version of it, for showing that a property notices *)
(* the fault.                                                               *)
EXTENDS Integers, Sequences

Tool == {"market", "news", "macro", "filing"}

\* The tool's requests, in order.
Requests(t) ==
    CASE t = "market" -> <<"overview">>
      [] t = "news"   -> <<"everything">>
      [] t = "macro"  -> <<"CPI", "FEDERAL_FUNDS_RATE", "REAL_GDP">>
      [] t = "filing" -> <<"company tickers", "submissions">>

\* What the body of an answered request can be to the code: it gives what was
\* asked for, it has nothing of the kind, it is a "Note" of Alpha Vantage, or
\* it cannot be converted once the requests are over.
Bodies(t) ==
    CASE t = "market" -> {"given", "nothing", "note", "odd"}
      [] t = "news"   -> {"given", "nothing", "odd"}
      [] OTHER        -> {"given", "nothing"}

\* stop_after_attempt.
Attempts(t) == IF t = "filing" THEN 2 ELSE 3

VARIABLES tool,          \* the tool that is called
          key,           \* settings hold the key it needs
          mock, known,   \* settings.allow_mock_data; the tool has illustrative
                         \* records for the ticker
          pc, request, attempt,   \* where the call is, which request, which try
          bodies,        \* bodies received
          shape, origin  \* the answer: data, empty or error; what its records
                         \* come from

settings == <<tool, key, mock, known>>
progress == <<request, attempt, bodies>>
answer   == <<shape, origin>>
vars     == <<settings, pc, progress, answer>>

Init ==
    /\ tool \in Tool /\ key \in BOOLEAN /\ mock \in BOOLEAN /\ known \in BOOLEAN
    /\ tool = "filing" => key
    /\ tool \in {"market", "macro"} => known
    /\ pc = "called" /\ request = 1 /\ attempt = 1
    /\ bodies = << >>
    /\ shape = "none" /\ origin = {}

-----------------------------------------------------------------------------
Answer(s, from) == pc' = "answered" /\ shape' = s /\ origin' = from

\* Without data: an error record, or an empty list from the tools that list.
GiveNothingAlike == Answer("empty", {})
GiveNothing ==
    Answer(IF tool \in {"news", "macro"} THEN "empty" ELSE "error", {})

\* Illustrative records, where the settings allow them.
FallBackUnasked == IF known THEN Answer("data", {"mock"}) ELSE GiveNothing
FallBack == IF mock /\ known THEN Answer("data", {"mock"}) ELSE GiveNothing

Begin ==
    /\ pc = "called"
    /\ IF key THEN pc' = "request" /\ UNCHANGED answer ELSE FallBack
    /\ UNCHANGED <<settings, progress>>

\* A request is answered; without a company number there is nothing to ask for.
Receive(b) ==
    /\ pc = "request"
    /\ bodies' = Append(bodies, b)
    /\ attempt' = 1
    /\ IF request < Len(Requests(tool)) /\ (tool = "filing" => b = "given")
       THEN request' = request + 1 /\ UNCHANGED pc
       ELSE pc' = "build" /\ UNCHANGED request
    /\ UNCHANGED <<settings, answer>>

\* A request raises: no answer in time, an error status, no JSON, or a value
\* that float() refuses inside the retried function.
Raise ==
    /\ pc = "request"
    /\ IF attempt < Attempts(tool)
       THEN attempt' = attempt + 1 /\ UNCHANGED pc
       ELSE pc' = "except" /\ UNCHANGED attempt
    /\ UNCHANGED <<settings, request, bodies, answer>>

Received(b) == \E i \in 1..Len(bodies) : bodies[i] = b

\* get_market_data: a body without the expected fields becomes a record of
\* defaults.
BuildMarket ==
    /\ tool = "market"
    /\ IF Received("odd") THEN pc' = "except" /\ UNCHANGED answer
       ELSE IF Received("note") THEN FallBack
       ELSE Answer("data", {IF Received("given") THEN "provider" ELSE "default"})

BuildNews ==
    /\ tool = "news"
    /\ IF Received("odd") THEN pc' = "except" /\ UNCHANGED answer
       ELSE IF Received("given") THEN Answer("data", {"provider"})
       ELSE GiveNothing

\* get_macro_indicators: illustrative records stand in for what is missing
\* (of its five, two are never asked for).
BuildMacro ==
    /\ tool = "macro"
    /\ LET real == IF Received("given") THEN {"provider"} ELSE {}
           more == IF mock THEN {"mock"} ELSE {}
       IN IF real \cup more = {} THEN GiveNothing ELSE Answer("data", real \cup more)

BuildFiling ==
    /\ tool = "filing"
    /\ IF Received("nothing") THEN GiveNothing ELSE Answer("data", {"provider"})

Build ==
    /\ pc = "build"
    /\ BuildMarket \/ BuildNews \/ BuildMacro \/ BuildFiling
    /\ UNCHANGED <<settings, progress>>

\* The except clause: what other requests brought is dropped.
ExceptSilently ==
    /\ pc = "except"
    /\ Answer("data", {})
    /\ UNCHANGED <<settings, progress>>
Except ==
    /\ pc = "except"
    /\ FallBack
    /\ UNCHANGED <<settings, progress>>

Next ==
    \/ Begin \/ Raise \/ Build \/ Except
    \/ \E b \in Bodies(tool) : Receive(b)

Spec == Init /\ [][Next]_vars

-----------------------------------------------------------------------------
(* Properties.                                                              *)

\* The call's state has its types.
TypeOK ==
    /\ tool \in Tool /\ key \in BOOLEAN /\ mock \in BOOLEAN /\ known \in BOOLEAN
    /\ pc \in {"called", "request", "build", "except", "answered"}
    /\ request \in 1..Len(Requests(tool)) /\ attempt \in 1..3
    /\ bodies \in Seq({"given", "nothing", "note", "odd"})
    /\ shape \in {"none", "data", "empty", "error"}
    /\ origin \subseteq {"provider", "mock", "default"}

\* "Prevent illustrative records from being presented as current data": on no
\* path of any tool does an answer contain them unless the settings allow it.
MockOnlyIfAllowed == "mock" \in origin => mock

\* "Unavailable providers return no research data": without mock data an answer
\* with data rests on answers of the provider to every request of the tool.
DataNeedsProvider ==
    ~mock /\ shape = "data" => key /\ Len(bodies) = Len(Requests(tool))

\* An answer has one of the shapes ResearchGraph expects of the tool; what it
\* calls data does come from somewhere.
FitsGraph ==
    /\ shape = "empty" => tool \in {"news", "macro"}
    /\ shape = "error" => tool \in {"market", "filing"}
    /\ shape = "data" <=> origin # {}

\* No answer presents a record the provider gave nothing for.
NoDefaultsAsData == "default" \notin origin

\* What a provider gave is in the answer.
KeepsWhatItGot == pc = "answered" /\ Received("given") => "provider" \in origin
=============================================================================
