----------------------------- MODULE Analysis -----------------------------
(***************************************************************************)
(* The inside of one analysis, which module Analyzer takes as the step     *)
(* AnalyzeOk or AnalyzeFails: the excerpt of the advert's page, the call   *)
(* of the LLM with its two fallbacks (without the JSON schema when the     *)
(* server cannot build a sampler from it, with the compact prompt when the *)
(* answer is cut off), the reading of the answer, and the pauses between   *)
(* the attempts, with the time that all of this may take.  The claims and  *)
(* what becomes of them are Analyzer's.                                    *)
(*                                                                         *)
(* Times are numbers of one unit: a request, a fetch or a wait lasts any   *)
(* time up to what it is allowed.  A text is its length; an answer is what *)
(* the code makes of it.                                                   *)
(***************************************************************************)
EXTENDS Analyzer

CONSTANTS
  LimiterGap,              \* a minute / cfg.MaxJobsPerMin
  RetryBaseDelay,          \* cfg.RetryBaseDelay
  BasicTimeout,            \* of the plain GET of a page
  ScraplingTimeout,        \* cfg.ScraplingTimeout
  SourceMinChars,          \* cfg.SourceMinChars
  SourceMaxChars,          \* sourceExcerptMaxChars
  Lengths,                 \* bound: the lengths that the text of a page may have
  LLMTimeout, LLMTimeoutMax, LLMTimeoutPer1KChars, LLMTimeoutPer256Tokens,
  LLMMaxTokens,            \* cfg.LLMMaxTokens
  PromptChars,             \* the prompt without the excerpt
  CompactChars,            \* the compact prompt without the excerpt
  MaxTrouble               \* bound: faults and crashes together

(* What New leaves in the configuration. *)
ASSUME AnalysisAssumption ==
  /\ LimiterGap \in Nat /\ RetryBaseDelay \in Nat
  /\ BasicTimeout \in Nat /\ ScraplingTimeout \in Nat
  /\ SourceMinChars \in Nat \ {0} /\ SourceMaxChars \in Nat \ {0}
  /\ Lengths \subseteq 0..SourceMaxChars
  /\ LLMTimeout \in Nat \ {0} /\ LLMTimeoutMax \in Nat /\ LLMTimeoutMax >= LLMTimeout
  /\ LLMTimeoutPer1KChars \in Nat \ {0} /\ LLMTimeoutPer256Tokens \in Nat \ {0}
  /\ LLMMaxTokens \in Nat /\ PromptChars \in Nat /\ CompactChars \in Nat
  /\ MaxTrouble \in Nat

VARIABLES
  settings,   \* cfg.SourceExtractor and cfg.LLMStrictJSON
  analysis    \* per process: where its analysis is, and its locals

analysisVars == <<tables, history, faults, crashes, removals, analyzer, settings, analysis>>

Settings == [extractor : {"off", "basic", "scrapling", "hybrid"}, strict : BOOLEAN]

(* What the code makes of an answer: the server has no sampler for the     *)
(* schema; any other failure of the request; an advert; JSON that is cut   *)
(* off (also no text at all); other text that is not an advert; an advert  *)
(* without role, company or summary.                                       *)
Contents == {"advert", "truncated", "malformed", "incomplete"}
Answers  == {"rejected", "error"} \cup Contents

Failed == SourceMaxChars + 1   \* a fetch that returned an error

AnalysisPc == {"away", "pause", "basic", "scrapling", "request", "plain", "read"}

AnalysisLocals == [pc      : AnalysisPc,
                   basic   : 0..Failed,           \* the text of the page, if kept
                   excerpt : 0..SourceMaxChars,
                   compact : BOOLEAN,
                   left    : 0..LLMTimeoutMax,    \* until the deadline of the call
                   answer  : Answers,             \* the last one
                   spent   : Nat]                 \* since the claim

Away == [pc |-> "away", basic |-> 0, excerpt |-> 0, compact |-> FALSE, left |-> 0,
         answer |-> "error", spent |-> 0]

Smaller(m, n) == IF m < n THEN m ELSE n

-----------------------------------------------------------------------------
(* The sizes of prompts and the timeout of a call.                         *)

(* An empty excerpt is "N/D" in the prompt; the compact one takes 1600.    *)
Size(compact, excerpt) ==
  LET text == IF excerpt = 0 THEN 3 ELSE excerpt IN
  IF compact THEN CompactChars + Smaller(text, 1600) ELSE PromptChars + text

(* Twice the tokens, within 512 and 1024. *)
FallbackTokens == Smaller(1024, IF 2 * LLMMaxTokens < 512 THEN 512 ELSE 2 * LLMMaxTokens)

Tokens(compact) == IF compact THEN FallbackTokens ELSE LLMMaxTokens

Steps(n, size) == (n + size - 1) \div size

(* Slip: the cap is gone. *)
UncappedTimeout(chars, tokens) ==
  LLMTimeout + Steps(chars, 1000) * LLMTimeoutPer1KChars
             + Steps(tokens, 256) * LLMTimeoutPer256Tokens

ComputeLLMTimeout(chars, tokens) ==
  Smaller(LLMTimeoutMax, LLMTimeout + Steps(chars, 1000) * LLMTimeoutPer1KChars
                                    + Steps(tokens, 256) * LLMTimeoutPer256Tokens)

CallTimeout(compact, excerpt) == ComputeLLMTimeout(Size(compact, excerpt), Tokens(compact))

(* callLLM begins: one deadline for all the requests of the call. *)
Call(a, compact, excerpt) ==
  [a EXCEPT !.pc = "request", !.compact = compact, !.excerpt = excerpt,
            !.answer = "error", !.left = CallTimeout(compact, excerpt)]

-----------------------------------------------------------------------------
(* The attempts.                                                           *)

InAnalysis(w, pc) == At(w, "analyze") /\ analysis[w].pc = pc
Local(w, a)       == analysis' = [analysis EXCEPT ![w] = a]
NothingElse       == UNCHANGED <<tables, faults, analyzer>>

(* The attempt is over: only its time goes on, and at the end its error. *)
Paused(a) == [Away EXCEPT !.pc = "pause", !.spent = a.spent]
Over(a)   == [Away EXCEPT !.answer = a.answer]

(* analyze begins with the excerpt of the page. *)
Attempt(a) ==
  CASE settings.extractor = "off"       -> Call(a, FALSE, 0)
    [] settings.extractor = "scrapling" -> [a EXCEPT !.pc = "scrapling"]
    [] OTHER                            -> [a EXCEPT !.pc = "basic"]

BeginAnalysis(w) ==
  /\ InAnalysis(w, "away")
  /\ Local(w, Attempt(analysis[w]))
  /\ NothingElse

(* baseDelay << (i - 1) after attempt i. *)
Delay(i) == RetryBaseDelay * 2^(i - 1)

Pause(w) ==
  /\ InAnalysis(w, "pause")
  /\ Local(w, Attempt([analysis[w] EXCEPT !.spent = @ + Delay(analyzer[w].tries - 1)]))
  /\ NothingElse

(* The shutdown comes during a pause. *)
InterruptPause(w) ==
  /\ InAnalysis(w, "pause")
  /\ InterruptAnalysis(w)
  /\ Local(w, Away)

-----------------------------------------------------------------------------
(* fetchSourcePageExcerpt: an error leaves the analysis without excerpt.   *)

(* hybrid asks the sidecar when the page gave an error or too little. *)
TooShort(n) == n = Failed \/ n < SourceMinChars

FetchBasic(w) ==
  /\ InAnalysis(w, "basic")
  /\ \E n \in Lengths \cup {Failed}, t \in 0..BasicTimeout :
       LET a == [analysis[w] EXCEPT !.spent = @ + t] IN
       /\ t = BasicTimeout => n = Failed
       /\ Local(w, IF settings.extractor = "hybrid" /\ TooShort(n)
                   THEN [a EXCEPT !.pc = "scrapling", !.basic = n]
                   ELSE Call(a, FALSE, IF n = Failed THEN 0 ELSE n))
  /\ NothingElse

(* Slip: the text of the page is given up for the sidecar's error. *)
ForgetBasic(n) == 0

(* A text that is too short is better than none. *)
BestEffort(n) == IF settings.extractor = "hybrid" /\ n # Failed THEN n ELSE 0

(* The sidecar answers with some text or fails; an advert without a URL    *)
(* gives the empty text at once.                                           *)
FetchScrapling(w) ==
  /\ InAnalysis(w, "scrapling")
  /\ \E n \in Lengths \cup {Failed}, t \in 0..ScraplingTimeout :
       /\ t = ScraplingTimeout => n = Failed
       /\ n = 0 => t = 0 /\ (settings.extractor = "hybrid" => analysis[w].basic = 0)
       /\ Local(w, Call([analysis[w] EXCEPT !.spent = @ + t], FALSE,
                        IF n = Failed THEN BestEffort(analysis[w].basic) ELSE n))
  /\ NothingElse

-----------------------------------------------------------------------------
(* callLLM and what analyze makes of the answer.                           *)

(* Slip: the second request gets a deadline of its own. *)
FreshDeadline(a, t) == CallTimeout(a.compact, a.excerpt)

Left(a, t) == a.left - t

(* The request without the schema follows the one with it, within what is  *)
(* left of the call's time.  A request that meets the deadline fails.      *)
Request(w) ==
  LET a == analysis[w] IN
  /\ InAnalysis(w, "request") \/ InAnalysis(w, "plain")
  /\ \E answer \in Answers, t \in 0..a.left :
       LET b == [a EXCEPT !.answer = answer, !.spent = @ + t] IN
       /\ t = a.left => answer = "error"
       /\ Local(w, IF a.pc = "request" /\ settings.strict /\ answer = "rejected"
                   THEN [b EXCEPT !.pc = "plain", !.left = Left(a, t)]
                   ELSE [b EXCEPT !.pc = "read", !.left = 0])
  /\ NothingElse

(* Slip: an answer to the compact prompt that is cut off is asked again. *)
AskAgain(a) == a.answer = "truncated"

AskCompact(a) == a.answer = "truncated" /\ ~a.compact

ReadAdvert(w) ==
  /\ InAnalysis(w, "read") /\ analysis[w].answer = "advert"
  /\ AnalyzeOk(w)
  /\ Local(w, Over(analysis[w]))

ReadTruncated(w) ==
  /\ InAnalysis(w, "read") /\ AskCompact(analysis[w])
  /\ Local(w, Call(analysis[w], TRUE, analysis[w].excerpt))
  /\ NothingElse

(* Slip: text that is no advert is not worth another delivery either. *)
IsUnusable(answer) == answer \in {"malformed", "incomplete"}

IsNonRetryable(answer) == answer = "incomplete"

(* The attempt fails, and the last error decides about the quarantine. *)
AttemptFails(w) ==
  LET a == analysis[w] IN
  /\ InAnalysis(w, "read") /\ a.answer # "advert" /\ ~AskCompact(a)
  /\ AnalyzeFails(w)
  /\ \/ At(w, "analyze")' /\ Local(w, Paused(a))
     \/ /\ At(w, "judge")' /\ Local(w, Over(a))
        /\ analyzer'[w].fatal = IsNonRetryable(a.answer)

-----------------------------------------------------------------------------

(* The limiter holds a claimed job back for a while. *)
ClaimAndWait(w) ==
  /\ ClaimRaw(w)
  /\ \E t \in 0..LimiterGap : Local(w, [Away EXCEPT !.spent = t])

AnalysisStep(w) ==
  \/ BeginAnalysis(w) \/ Pause(w) \/ InterruptPause(w)
  \/ FetchBasic(w) \/ FetchScrapling(w)
  \/ Request(w) \/ ReadAdvert(w) \/ ReadTruncated(w) \/ AttemptFails(w)

HandlerStep(w) ==
  /\ \/ InterruptRaw(w) \/ FindStored(w)
     \/ Judge(w) \/ MarkPoison(w) \/ FailClaim(w)
     \/ HandOver(w) \/ StampHandOver(w) \/ CompleteClaim(w) \/ ReleaseClaim(w)
  /\ UNCHANGED analysis

WorkerStep(w) ==
  /\ ClaimAndWait(w) \/ AnalysisStep(w) \/ HandlerStep(w)
  /\ UNCHANGED <<history, crashes, removals, settings>>

RestartAnalyzer(w) ==
  /\ CrashAnalyzer(w)
  /\ Local(w, Away)
  /\ UNCHANGED settings

LeaseRunsOut(i) == RawLeaseExpires(i) /\ UNCHANGED <<analyzer, settings, analysis>>

(* rss-reader has stored and queued every item. *)
AnalysisInit ==
  /\ items = [i \in Items |-> [NewItem EXCEPT !.rawEnqueued = TRUE]]
  /\ \E order \in [Items -> 1..Cardinality(Items)] :
       /\ \A i, j \in Items : order[i] = order[j] => i = j
       /\ analyzer_queue = [i \in Items |-> [NoRow EXCEPT !.state = "QUEUED", !.rank = order[i]]]
  /\ dispatch_queue = EmptyQueue
  /\ sent = [i \in Items |-> 0] /\ cleared = [i \in Items |-> 0]
  /\ faults = 0 /\ crashes = 0 /\ removals = 0
  /\ AnalyzerInit
  /\ settings \in Settings
  /\ analysis = [w \in Analyzers |-> Away]

AnalysisNext ==
  /\ \/ \E w \in Analyzers : WorkerStep(w) \/ RestartAnalyzer(w)
     \/ \E i \in Items : LeaseRunsOut(i)
  /\ faults' + crashes' <= MaxTrouble

AnalysisSpec == AnalysisInit /\ [][AnalysisNext]_analysisVars

(* The worker loop runs and time passes.  Nothing is asked of the LLM or   *)
(* of the pages: every request has a deadline.                             *)
AnalysisFairSpec ==
  /\ AnalysisSpec
  /\ \A w \in Analyzers : WF_analysisVars(WorkerStep(w))
  /\ \A i \in Items : WF_analysisVars(LeaseRunsOut(i))

-----------------------------------------------------------------------------

(* The types; README.md calls LLM_TIMEOUT_MAX the hard limit of a request, *)
(* and no call has more time left than that.                               *)
AnalysisTypeOK ==
  /\ StoreTypeOK /\ AnalyzerTypeOK
  /\ settings \in Settings
  /\ analysis \in [Analyzers -> AnalysisLocals]

SourceBudget == CASE settings.extractor = "off"       -> 0
                  [] settings.extractor = "basic"     -> BasicTimeout
                  [] settings.extractor = "scrapling" -> ScraplingTimeout
                  [] settings.extractor = "hybrid"    -> BasicTimeout + ScraplingTimeout

(* The excerpt that makes the longest prompt: "N/D" may be longer than it. *)
Longest == IF SourceMaxChars < 3 THEN 0 ELSE SourceMaxChars

AttemptBudget == SourceBudget + CallTimeout(FALSE, Longest) + CallTimeout(TRUE, Longest)

(* What a claim may cost: the limiter, every attempt with both fallbacks,  *)
(* and the doubling pauses between the attempts.                           *)
ClaimBudget == LimiterGap + AnalyzerRetries * AttemptBudget
               + RetryBaseDelay * (2^(AnalyzerRetries - 1) - 1)

(* From the claim of a job to its settlement no process waits longer than  *)
(* ClaimBudget, whatever the pages, the sidecar and the LLM do: a lease of *)
(* that length (plus the time of the statements) is never outlived.        *)
SpentInBudget == \A w \in Analyzers : analysis[w].spent <= ClaimBudget

(* docs/scrapling-integration-plan.md: in hybrid mode, what the page gave  *)
(* is kept when the sidecar fails, and no prompt goes out without an       *)
(* excerpt when the page gave one.                                         *)
TextIsKept ==
  \A w \in Analyzers :
    (settings.extractor = "hybrid" /\ analysis[w].pc \in {"request", "plain", "read"}
       /\ analysis[w].basic \in 1..SourceMaxChars)
    => analysis[w].excerpt > 0

(* docs/lifecycle-state-machines.md: a job is quarantined when it was      *)
(* delivered often enough, or when the error of its last attempt is the    *)
(* non-retryable one; an earlier attempt's error, a lost connection or a   *)
(* shutdown is no reason.                                                  *)
QuarantineHasReason ==
  \A w \in Analyzers :
    (At(w, "poison") \/ At(w, "fail"))
    => \/ analyzer_queue[analyzer[w].item].count >= MaxDeliveryAttempts
       \/ analyzer[w].tries = AnalyzerRetries /\ analysis[w].answer = "incomplete"

(* Every job is handed over or quarantined in the end and then rests, even *)
(* if the LLM never gives a usable answer: the fallbacks, the attempts and *)
(* the deliveries are all bounded.                                         *)
EveryJobDecided == \A i \in Items : <>[](analyzer_queue[i].state = "DONE")
=============================================================================
