-------------------------- MODULE AnalysisProofs --------------------------
(***************************************************************************)
(* Theorems about Analysis for any number of jobs and processes, every     *)
(* configuration that New leaves, and every number of faults and crashes.  *)
(***************************************************************************)
EXTENDS Analysis, FiniteSetTheorems, TLAPS

-----------------------------------------------------------------------------
(* Where an analysis stands: z is what the handler of a process knows of   *)
(* its job, a what the analysis does, x the extractor.                     *)

(* An analysis belongs to a job that is being analyzed; it begins in the   *)
(* first attempt and pauses between two.                                   *)
InPlace(z, a, x) ==
  /\ z.pc # "idle" => z.item \in Items
  /\ a.pc # "away" => z.pc = "analyze"
  /\ z.pc = "claimed" => z.tries = 1
  /\ z.pc = "analyze" /\ a.pc = "away" => z.tries = 1
  /\ a.pc = "pause" => z.tries > 1
  /\ a.pc = "basic" => x \in {"basic", "hybrid"}
  /\ a.pc = "scrapling" => x \in {"scrapling", "hybrid"}

(* The text of the page is kept from its fetch to the end of the attempt.  *)
KeepsText(a, x) ==
  /\ a.pc \in {"away", "pause", "basic"} => a.basic = 0
  /\ (x = "hybrid" /\ a.pc \in {"request", "plain", "read"} /\ a.basic \in 1..SourceMaxChars)
       => a.excerpt > 0

(* Only the error of the last attempt is fatal. *)
LastError(z, a) ==
  /\ z.pc \in {"claimed", "analyze"} => ~z.fatal
  /\ z.pc = "judge" /\ z.fatal => z.tries = AnalyzerRetries /\ a.answer = "incomplete"

SourceTime(x) == CASE x = "off"       -> 0
                   [] x = "basic"     -> BasicTimeout
                   [] x = "scrapling" -> ScraplingTimeout
                   [] x = "hybrid"    -> BasicTimeout + ScraplingTimeout

FirstCall  == CallTimeout(FALSE, Longest)
SecondCall == CallTimeout(TRUE, Longest)   \* with the compact prompt

AttemptTime(x) == SourceTime(x) + FirstCall + SecondCall

(* When attempt t begins at the latest. *)
Begun(t, x) == LimiterGap + (t - 1) * AttemptTime(x) + RetryBaseDelay * (2^(t - 1) - 1)

(* How late an analysis can be where it is. *)
InTime(a, t, x) ==
  CASE a.pc = "away"      -> a.spent <= LimiterGap
    [] a.pc = "pause"     -> a.spent <= Begun(t - 1, x) + AttemptTime(x)
    [] a.pc = "basic"     -> a.spent <= Begun(t, x)
    [] a.pc = "scrapling" -> a.spent <= Begun(t, x) + (IF x = "hybrid" THEN BasicTimeout ELSE 0)
    [] OTHER -> a.spent + a.left <= Begun(t, x) + SourceTime(x) + FirstCall
                                    + (IF a.compact THEN SecondCall ELSE 0)

Sound(z, a, x) == /\ z \in AnalyzerLocals /\ a \in AnalysisLocals
                  /\ InPlace(z, a, x) /\ KeepsText(a, x) /\ LastError(z, a)
                  /\ InTime(a, z.tries, x)

AllSound == \A w \in Analyzers : Sound(analyzer[w], analysis[w], settings.extractor)

AnalysisInv == AnalysisTypeOK /\ AllSound

-----------------------------------------------------------------------------
(* The powers of two in the pauses: counted as sets of subsets. *)

LEMMA Powers ==
  ASSUME NEW n \in Nat
  PROVE  2^n \in Nat \ {0} /\ 2^n = Cardinality(SUBSET (1..n))
<1>1. IsFiniteSet(1..n) /\ Cardinality(1..n) = n
  BY FS_Interval
<1>2. IsFiniteSet(SUBSET (1..n)) /\ Cardinality(SUBSET (1..n)) = 2^n
  BY <1>1, FS_SUBSET
<1>3. Cardinality(SUBSET (1..n)) \in Nat
  BY <1>2, FS_CardinalityType
<1>4. Cardinality(SUBSET (1..n)) # 0
  BY <1>2, FS_EmptySet
<1>5. QED
  BY <1>2, <1>3, <1>4

LEMMA PowerGrows ==
  ASSUME NEW m \in Nat, NEW n \in Nat, m <= n
  PROVE  2^m <= 2^n
<1>1. \A k \in 1..m : k \in 1..n
  OBVIOUS
<1>2. SUBSET (1..m) \in SUBSET (SUBSET (1..n))
  BY <1>1, Zenon
<1>3. IsFiniteSet(1..n)
  BY FS_Interval
<1>4. Cardinality(SUBSET (1..m)) <= Cardinality(SUBSET (1..n))
  <2>1. IsFiniteSet(SUBSET (1..n))
    BY <1>3, FS_SUBSET
  <2>2. QED
    BY <1>2, <2>1, FS_Subset, Zenon
<1>5. QED
  BY <1>4, Powers

(* The subsets of 1..n+1 without n + 1 are those of 1..n, and so are those  *)
(* with it. *)
LEMMA PowerDoubles ==
  ASSUME NEW n \in Nat
  PROVE  2^(n + 1) = 2^n + 2^n
<1> DEFINE last  == n + 1
           Less  == SUBSET (1..n)
           More  == {T \in SUBSET (1..last) : last \in T}
           f     == [T \in Less |-> T \cup {last}]
<1>1. last \in Nat /\ last \notin 1..n /\ 1..last = (1..n) \cup {last}
  OBVIOUS
<1> HIDE DEF last
<1>2. SUBSET (1..last) = Less \cup More /\ Less \cap More = {}
  <2>1. ASSUME NEW T, T \subseteq 1..last, last \notin T
        PROVE  T \subseteq 1..n
    BY <1>1, <2>1
  <2>2. QED
    BY <1>1, <2>1
<1>3. IsFiniteSet(Less) /\ IsFiniteSet(More)
  <2>1. 1 \in Int /\ n \in Int /\ last \in Int
    BY <1>1
  <2>2. IsFiniteSet(1..last) /\ IsFiniteSet(1..n)
    BY <2>1, FS_Interval
  <2>3. IsFiniteSet(SUBSET (1..last)) /\ IsFiniteSet(Less)
    BY <2>2, FS_SUBSET
  <2>4. QED
    BY <2>3, <1>2, FS_Subset
<1>4. f \in Bijection(Less, More)
  <2>1. \A T \in Less : T \cup {last} \in More /\ (T \cup {last}) \ {last} = T
    BY <1>1
  <2>2. f \in [Less -> More]
    BY <2>1
  <2>3. ASSUME NEW S \in Less, NEW T \in Less, f[S] = f[T]
        PROVE  S = T
    BY <2>1, <2>3
  <2>4. ASSUME NEW T \in More
        PROVE  \E S \in Less : f[S] = T
    <3>1. T \ {last} \in Less /\ (T \ {last}) \cup {last} = T
      BY <1>1
    <3>2. QED
      BY <3>1
  <2>5. QED
    BY <2>2, <2>3, <2>4 DEF Bijection, Injection, Surjection, IsInjective
<1>5. Cardinality(More) = Cardinality(Less)
  BY <1>3, <1>4, FS_Bijection DEF ExistsBijection
<1>6. Cardinality(SUBSET (1..last)) = Cardinality(Less) + Cardinality(More) - Cardinality(Less \cap More)
  BY <1>2, <1>3, FS_Union
<1>7. Cardinality(Less) = 2^n /\ 2^n \in Nat /\ Cardinality(Less \cap More) = 0
  BY <1>2, Powers, FS_EmptySet
<1>8. Cardinality(SUBSET (1..last)) = 2^last
  BY <1>1, Powers
<1>9. 2^last = 2^n + 2^n
  BY <1>5, <1>6, <1>7, <1>8
<1>10. QED
  BY <1>9 DEF last

-----------------------------------------------------------------------------
(* The times are natural numbers, and how they grow. *)

Extractors == {"off", "basic", "scrapling", "hybrid"}

LEMMA StepsGrow ==
  ASSUME NEW m \in Nat, NEW n \in Nat, m <= n
  PROVE  /\ Steps(m, 1000) \in Nat /\ Steps(m, 256) \in Nat
         /\ Steps(m, 1000) <= Steps(n, 1000)
BY DEF Steps

LEMMA ProductGrows ==
  ASSUME NEW m \in Nat, NEW n \in Nat, NEW k \in Nat, m <= n
  PROVE  m * k \in Nat /\ m * k <= n * k
OBVIOUS

(* The timeout of a call is within its limit, and grows with the prompt. *)
LEMMA TimeoutGrows ==
  ASSUME NEW m \in Nat, NEW n \in Nat, m <= n, NEW k \in Nat
  PROVE  /\ ComputeLLMTimeout(m, k) \in 0..LLMTimeoutMax
         /\ ComputeLLMTimeout(m, k) <= ComputeLLMTimeout(n, k)
<1> DEFINE p == Steps(m, 1000) * LLMTimeoutPer1KChars
           q == Steps(n, 1000) * LLMTimeoutPer1KChars
           r == Steps(k, 256) * LLMTimeoutPer256Tokens
<1>1. p \in Nat /\ q \in Nat /\ p <= q /\ r \in Nat
  <2>1. /\ LLMTimeoutPer1KChars \in Nat /\ LLMTimeoutPer256Tokens \in Nat
        /\ Steps(m, 1000) \in Nat /\ Steps(n, 1000) \in Nat /\ Steps(k, 256) \in Nat
        /\ Steps(m, 1000) <= Steps(n, 1000)
    BY StepsGrow, AnalysisAssumption
  <2>2. QED
    BY <2>1, ProductGrows
<1>2. LLMTimeout \in Nat /\ LLMTimeoutMax \in Nat
  BY AnalysisAssumption
<1>3. /\ ComputeLLMTimeout(m, k) = Smaller(LLMTimeoutMax, LLMTimeout + p + r)
      /\ ComputeLLMTimeout(n, k) = Smaller(LLMTimeoutMax, LLMTimeout + q + r)
  BY DEF ComputeLLMTimeout
<1> HIDE DEF p, q, r
<1>4. QED
  BY <1>1, <1>2, <1>3 DEF Smaller

LEMMA CallTimeouts ==
  ASSUME NEW c \in BOOLEAN, NEW e \in 0..SourceMaxChars
  PROVE  /\ CallTimeout(c, e) \in 0..LLMTimeoutMax
         /\ CallTimeout(c, e) <= CallTimeout(c, Longest)
         /\ CallTimeout(c, Longest) \in Nat
<1>1. Longest \in Nat /\ Tokens(c) \in Nat
  BY AnalysisAssumption DEF Longest, Tokens, FallbackTokens, Smaller
<1>2. /\ Size(c, e) \in Nat /\ Size(c, Longest) \in Nat
      /\ Size(c, e) <= Size(c, Longest)
  BY AnalysisAssumption DEF Size, Longest, Smaller
<1>3. QED
  BY <1>1, <1>2, TimeoutGrows, AnalysisAssumption DEF CallTimeout

LEMMA TimeTypes ==
  ASSUME NEW x \in Extractors
  PROVE  /\ SourceTime(x) \in Nat /\ AttemptTime(x) \in Nat
         /\ FirstCall \in Nat /\ SecondCall \in Nat
         /\ LimiterGap \in Nat /\ BasicTimeout \in Nat /\ ScraplingTimeout \in Nat
         /\ LLMTimeoutMax \in Nat /\ SourceMaxChars \in Nat
<1>1. LimiterGap \in Nat /\ BasicTimeout \in Nat /\ ScraplingTimeout \in Nat
      /\ LLMTimeoutMax \in Nat /\ SourceMaxChars \in Nat
  BY AnalysisAssumption
<1>2. FirstCall \in Nat /\ SecondCall \in Nat
  <2>1. 0 \in 0..SourceMaxChars
    BY <1>1
  <2>2. QED
    BY <2>1, CallTimeouts DEF FirstCall, SecondCall
<1>3. SourceTime(x) \in Nat
  BY <1>1 DEF SourceTime, Extractors
<1>4. QED
  BY <1>1, <1>2, <1>3 DEF AttemptTime

(* The pauses double: attempt t and the pause after it take from Begun(t)  *)
(* to Begun(t + 1) at most.                                                *)
LEMMA DelayType ==
  ASSUME NEW t \in Nat \ {0}
  PROVE  Delay(t) \in Nat
<1>1. t - 1 \in Nat
  OBVIOUS
<1>2. 2^(t - 1) \in Nat
  BY <1>1, Powers
<1>3. QED
  BY <1>2, AnalysisAssumption, ProductGrows DEF Delay

LEMMA Tripled ==
  ASSUME NEW k \in Nat, NEW m \in Int, NEW n \in Nat, NEW g \in Nat, NEW r \in Nat
  PROVE  (g + m * k + r * (n - 1)) + k + r * n = g + (m + 1) * k + r * (n + n - 1)
OBVIOUS

LEMMA BegunNext ==
  ASSUME NEW t \in Nat \ {0}, NEW x \in Extractors
  PROVE  /\ Begun(1, x) = LimiterGap
         /\ Begun(t + 1, x) = Begun(t, x) + AttemptTime(x) + Delay(t)
<1> DEFINE m == t - 1
           k == AttemptTime(x)
           n == 2^m
<1>1. k \in Nat /\ LimiterGap \in Nat /\ RetryBaseDelay \in Nat
  BY TimeTypes, AnalysisAssumption
<1>2. m \in Nat /\ m + 1 = t /\ (t + 1) - 1 = t
  OBVIOUS
<1>3. n \in Nat /\ 2^t = n + n
  BY <1>2, Powers, PowerDoubles
<1>4. Begun(t, x) = LimiterGap + m * k + RetryBaseDelay * (n - 1)
  BY DEF Begun
<1>5. Begun(t + 1, x) = LimiterGap + (m + 1) * k + RetryBaseDelay * (n + n - 1)
  BY <1>2, <1>3 DEF Begun
<1>6. Delay(t) = RetryBaseDelay * n
  BY DEF Delay
<1>7. Begun(1, x) = LimiterGap
  <2>1. 1 - 1 = 0 /\ 2^0 = 1
    OBVIOUS
  <2>2. QED
    BY <2>1, <1>1 DEF Begun
<1> HIDE DEF m, k, n
<1>8. Begun(t + 1, x) = Begun(t, x) + k + Delay(t)
  BY <1>1, <1>2, <1>3, <1>4, <1>5, <1>6, Tripled
<1>9. QED
  BY <1>7, <1>8 DEF k

LEMMA BegunType ==
  ASSUME NEW t \in Nat \ {0}, NEW x \in Extractors
  PROVE  Begun(t, x) \in Nat
<1> DEFINE m == t - 1
           k == AttemptTime(x)
           n == 2^m
<1>1. k \in Nat /\ LimiterGap \in Nat /\ RetryBaseDelay \in Nat
  BY TimeTypes, AnalysisAssumption
<1>2. m \in Nat
  OBVIOUS
<1>3. n \in Nat \ {0}
  BY <1>2, Powers
<1>4. Begun(t, x) = LimiterGap + m * k + RetryBaseDelay * (n - 1)
  BY DEF Begun
<1> HIDE DEF m, k, n
<1>5. n - 1 \in Nat
  BY <1>3
<1>6. m * k \in Nat /\ RetryBaseDelay * (n - 1) \in Nat
  BY <1>1, <1>2, <1>5, ProductGrows
<1>7. QED
  BY <1>1, <1>4, <1>6

-----------------------------------------------------------------------------
(* What the beginnings of a call and of an attempt leave. *)

LEMMA CallSound ==
  ASSUME NEW a \in AnalysisLocals, NEW c \in BOOLEAN, NEW e \in 0..SourceMaxChars,
         NEW t \in Nat \ {0}, NEW x \in Extractors,
         a.spent <= Begun(t, x) + SourceTime(x) + (IF c THEN FirstCall ELSE 0)
  PROVE  /\ Call(a, c, e) \in AnalysisLocals
         /\ Call(a, c, e).pc = "request"
         /\ Call(a, c, e).basic = a.basic /\ Call(a, c, e).excerpt = e
         /\ InTime(Call(a, c, e), t, x)
<1> DEFINE b == Call(a, c, e)
           l == CallTimeout(c, e)
<1>1. /\ l \in 0..LLMTimeoutMax
      /\ l <= (IF c THEN SecondCall ELSE FirstCall)
  BY CallTimeouts DEF FirstCall, SecondCall
<1>2. /\ b.pc = "request" /\ b.basic = a.basic /\ b.excerpt = e
      /\ b.spent = a.spent /\ b.left = l /\ b.compact = c
  BY DEF Call, AnalysisLocals
<1>3. b \in AnalysisLocals
  BY <1>1 DEF Call, AnalysisLocals, AnalysisPc, Answers
<1>4. InTime(b, t, x)
  <2> HIDE DEF b, l
  <2>1. /\ Begun(t, x) \in Nat /\ SourceTime(x) \in Nat /\ FirstCall \in Nat
        /\ SecondCall \in Nat /\ LLMTimeoutMax \in Nat /\ a.spent \in Nat
    BY BegunType, TimeTypes DEF AnalysisLocals
  <2>2. a.spent + l <= Begun(t, x) + SourceTime(x) + FirstCall + (IF c THEN SecondCall ELSE 0)
    BY <1>1, <2>1
  <2>3. QED
    BY <1>2, <2>2 DEF InTime
<1>5. QED
  BY <1>2, <1>3, <1>4

LEMMA AttemptSound ==
  ASSUME NEW a \in AnalysisLocals, a.basic = 0, NEW t \in Nat \ {0},
         settings.extractor \in Extractors, a.spent <= Begun(t, settings.extractor)
  PROVE  /\ Attempt(a) \in AnalysisLocals
         /\ Attempt(a).pc \in {"request", "basic", "scrapling"}
         /\ Attempt(a).pc = "basic" => settings.extractor \in {"basic", "hybrid"}
         /\ Attempt(a).pc = "scrapling" => settings.extractor \in {"scrapling", "hybrid"}
         /\ Attempt(a).basic = 0
         /\ InTime(Attempt(a), t, settings.extractor)
<1> DEFINE x == settings.extractor
<1>1. /\ Begun(t, x) \in Nat /\ SourceTime(x) \in Nat /\ a.spent \in Nat
      /\ 0 \in 0..SourceMaxChars
  BY BegunType, TimeTypes DEF AnalysisLocals
<1>2. CASE x = "off"
  <2>1. Attempt(a) = Call(a, FALSE, 0)
    BY <1>2 DEF Attempt
  <2>2. a.spent <= Begun(t, x) + SourceTime(x) + (IF FALSE THEN FirstCall ELSE 0)
    BY <1>1
  <2>3. /\ Call(a, FALSE, 0) \in AnalysisLocals /\ Call(a, FALSE, 0).pc = "request"
        /\ Call(a, FALSE, 0).basic = 0 /\ InTime(Call(a, FALSE, 0), t, x)
    BY <1>1, <2>2, CallSound, FALSE \in BOOLEAN, Zenon
  <2>4. QED
    BY <2>1, <2>3
<1>3. CASE x = "scrapling"
  <2>1. Attempt(a) = [a EXCEPT !.pc = "scrapling"]
    BY <1>3 DEF Attempt
  <2>2. Attempt(a) \in AnalysisLocals /\ Attempt(a).pc = "scrapling"
        /\ Attempt(a).basic = 0 /\ Attempt(a).spent = a.spent
    BY <2>1 DEF AnalysisLocals, AnalysisPc
  <2>3. QED
    BY <1>1, <1>3, <2>2 DEF InTime
<1>4. CASE x \in {"basic", "hybrid"}
  <2>1. Attempt(a) = [a EXCEPT !.pc = "basic"]
    BY <1>4 DEF Attempt
  <2>2. Attempt(a) \in AnalysisLocals /\ Attempt(a).pc = "basic"
        /\ Attempt(a).basic = 0 /\ Attempt(a).spent = a.spent
    BY <2>1 DEF AnalysisLocals, AnalysisPc
  <2>3. QED
    BY <1>1, <1>4, <2>2 DEF InTime
<1>5. QED
  BY <1>2, <1>3, <1>4 DEF Extractors

(* A job that is still being analyzed: the handler's own locals rest. *)
LEMMA GoesOn ==
  ASSUME NEW z, NEW a, NEW x, Sound(z, a, x), z.pc = "analyze",
         NEW b \in AnalysisLocals, b.pc \notin {"away", "pause"},
         b.pc = "basic" => x \in {"basic", "hybrid"} /\ b.basic = 0,
         b.pc = "scrapling" => x \in {"scrapling", "hybrid"},
         b.pc \in {"request", "plain", "read"} /\ x = "hybrid" /\ b.basic \in 1..SourceMaxChars
           => b.excerpt > 0,
         InTime(b, z.tries, x)
  PROVE  Sound(z, b, x)
BY DEF Sound, InPlace, KeepsText, LastError

(* A job that is no longer analyzed, or not yet. *)
LEMMA GoesAway ==
  ASSUME NEW z \in AnalyzerLocals, NEW a \in AnalysisLocals, NEW x,
         z.pc # "idle" => z.item \in Items,
         a.pc = "away", a.basic = 0, a.spent <= LimiterGap,
         z.pc \in {"claimed", "analyze"} => z.tries = 1 /\ ~z.fatal,
         z.pc = "judge" /\ z.fatal => z.tries = AnalyzerRetries /\ a.answer = "incomplete"
  PROVE  Sound(z, a, x)
BY DEF Sound, InPlace, KeepsText, LastError, InTime

LEMMA AwayTypes ==
  /\ Away \in AnalysisLocals /\ Away.pc = "away" /\ Away.basic = 0 /\ Away.spent = 0
  /\ 0 <= LimiterGap
BY AnalysisAssumption DEF Away, AnalysisLocals, AnalysisPc, Answers, Failed

-----------------------------------------------------------------------------
(* The steps of one analysis. *)

LEMMA Here ==
  ASSUME AnalysisInv, NEW w \in Analyzers
  PROVE  /\ Sound(analyzer[w], analysis[w], settings.extractor)
         /\ analyzer[w] \in AnalyzerLocals /\ analysis[w] \in AnalysisLocals
         /\ settings.extractor \in Extractors
         /\ analyzer[w].tries \in Nat \ {0}
         /\ analysis \in [Analyzers -> AnalysisLocals]
         /\ analyzer \in [Analyzers -> AnalyzerLocals]
<1>1. settings.extractor \in Extractors
  BY DEF AnalysisInv, AnalysisTypeOK, Settings, Extractors
<1>2. /\ analyzer[w] \in AnalyzerLocals /\ analysis[w] \in AnalysisLocals
      /\ analysis \in [Analyzers -> AnalysisLocals]
      /\ analyzer \in [Analyzers -> AnalyzerLocals]
  BY DEF AnalysisInv, AnalysisTypeOK, AnalyzerTypeOK
<1>3. analyzer[w].tries \in Nat \ {0}
  BY <1>2, AnalyzerAssumption DEF AnalyzerLocals
<1>4. Sound(analyzer[w], analysis[w], settings.extractor)
  BY DEF AnalysisInv, AllSound
<1>5. QED
  BY <1>1, <1>2, <1>3, <1>4

LEMMA BeginSound ==
  ASSUME AnalysisInv, NEW w \in Analyzers, BeginAnalysis(w)
  PROVE  Sound(analyzer'[w], analysis'[w], settings.extractor)
<1> DEFINE z == analyzer[w]
           a == analysis[w]
           x == settings.extractor
<1>1. /\ Sound(z, a, x) /\ a \in AnalysisLocals /\ x \in Extractors
      /\ analysis \in [Analyzers -> AnalysisLocals]
  BY Here
<1>2. z.pc = "analyze" /\ a.pc = "away" /\ analyzer' = analyzer /\ analysis'[w] = Attempt(a)
  BY <1>1 DEF BeginAnalysis, InAnalysis, At, Local, NothingElse
<1>3. z.tries = 1 /\ a.basic = 0 /\ a.spent <= LimiterGap
  BY <1>1, <1>2 DEF Sound, InPlace, KeepsText, InTime
<1>4. 1 \in Nat \ {0} /\ a.spent <= Begun(1, x)
  BY <1>1, <1>3, BegunNext
<1>5. /\ Attempt(a) \in AnalysisLocals
      /\ Attempt(a).pc \in {"request", "basic", "scrapling"}
      /\ Attempt(a).pc = "basic" => x \in {"basic", "hybrid"}
      /\ Attempt(a).pc = "scrapling" => x \in {"scrapling", "hybrid"}
      /\ Attempt(a).basic = 0 /\ InTime(Attempt(a), z.tries, x)
  BY <1>1, <1>3, <1>4, AttemptSound
<1>6. Attempt(a).basic \notin 1..SourceMaxChars
  BY <1>5
<1> HIDE DEF z, a, x
<1>7. Sound(z, Attempt(a), x)
  BY <1>1, <1>2, <1>5, <1>6, GoesOn
<1>8. QED
  BY <1>2, <1>7 DEF z, a, x

LEMMA PauseSound ==
  ASSUME AnalysisInv, NEW w \in Analyzers, Pause(w)
  PROVE  Sound(analyzer'[w], analysis'[w], settings.extractor)
<1> DEFINE z == analyzer[w]
           a == analysis[w]
           x == settings.extractor
           t == z.tries - 1
           b == [a EXCEPT !.spent = @ + Delay(t)]
<1>1. /\ Sound(z, a, x) /\ a \in AnalysisLocals /\ x \in Extractors
      /\ analysis \in [Analyzers -> AnalysisLocals] /\ z.tries \in Nat \ {0}
  BY Here
<1>2. z.pc = "analyze" /\ a.pc = "pause" /\ analyzer' = analyzer /\ analysis'[w] = Attempt(b)
  BY <1>1 DEF Pause, InAnalysis, At, Local, NothingElse
<1>3. z.tries > 1 /\ a.basic = 0 /\ a.spent <= Begun(t, x) + AttemptTime(x)
  BY <1>1, <1>2 DEF Sound, InPlace, KeepsText, InTime
<1>4. t \in Nat \ {0} /\ t + 1 = z.tries
  BY <1>1, <1>3
<1>5. b \in AnalysisLocals /\ b.basic = 0 /\ b.spent <= Begun(z.tries, x)
  <2>1. /\ a.spent \in Nat /\ Delay(t) \in Nat /\ Begun(t, x) \in Nat /\ AttemptTime(x) \in Nat
        /\ Begun(z.tries, x) = Begun(t, x) + AttemptTime(x) + Delay(t)
    BY <1>1, <1>4, DelayType, BegunType, BegunNext, TimeTypes DEF AnalysisLocals
  <2> DEFINE later == a.spent + Delay(t)
  <2>2. later \in Nat /\ later <= Begun(z.tries, x)
    BY <2>1, <1>3
  <2>3. b = [a EXCEPT !.spent = later]
    OBVIOUS
  <2> HIDE DEF later
  <2>4. QED
    BY <1>1, <1>3, <2>2, <2>3 DEF AnalysisLocals
<1> HIDE DEF b
<1>6. /\ Attempt(b) \in AnalysisLocals
      /\ Attempt(b).pc \in {"request", "basic", "scrapling"}
      /\ Attempt(b).pc = "basic" => x \in {"basic", "hybrid"}
      /\ Attempt(b).pc = "scrapling" => x \in {"scrapling", "hybrid"}
      /\ Attempt(b).basic = 0 /\ InTime(Attempt(b), z.tries, x)
  BY <1>1, <1>5, AttemptSound
<1>7. Attempt(b).basic \notin 1..SourceMaxChars
  BY <1>6
<1> HIDE DEF z, a, x
<1>8. Sound(z, Attempt(b), x)
  BY <1>1, <1>2, <1>6, <1>7, GoesOn
<1>9. QED
  BY <1>2, <1>8 DEF z, a, x

LEMMA InterruptPauseSound ==
  ASSUME AnalysisInv, NEW w \in Analyzers, InterruptPause(w)
  PROVE  Sound(analyzer'[w], analysis'[w], settings.extractor)
<1>1. /\ Sound(analyzer[w], analysis[w], settings.extractor)
      /\ analyzer[w] \in AnalyzerLocals
      /\ analyzer \in [Analyzers -> AnalyzerLocals] /\ analysis \in [Analyzers -> AnalysisLocals]
  BY Here
<1>2. analyzer'[w] = [analyzer[w] EXCEPT !.pc = "judge"] /\ analysis'[w] = Away /\ At(w, "analyze")
  BY <1>1 DEF InterruptPause, InterruptAnalysis, GoTo, Local
<1>3. /\ analyzer'[w] \in AnalyzerLocals /\ analyzer'[w].pc = "judge" /\ ~analyzer'[w].fatal
      /\ analyzer'[w].item \in Items
  BY <1>1, <1>2 DEF Sound, InPlace, LastError, At, AnalyzerLocals, AnalyzerPc
<1>4. QED
  BY <1>2, <1>3, AwayTypes, GoesAway

LEMMA FetchBasicSound ==
  ASSUME AnalysisInv, NEW w \in Analyzers, FetchBasic(w)
  PROVE  Sound(analyzer'[w], analysis'[w], settings.extractor)
<1> DEFINE z == analyzer[w]
           a == analysis[w]
           x == settings.extractor
<1>1. /\ Sound(z, a, x) /\ a \in AnalysisLocals /\ x \in Extractors
      /\ analysis \in [Analyzers -> AnalysisLocals] /\ z.tries \in Nat \ {0}
  BY Here
<1>2. z.pc = "analyze" /\ a.pc = "basic" /\ analyzer' = analyzer
  BY DEF FetchBasic, InAnalysis, At, NothingElse
<1>3. a.basic = 0 /\ a.spent <= Begun(z.tries, x) /\ x \in {"basic", "hybrid"}
  BY <1>1, <1>2 DEF Sound, InPlace, KeepsText, InTime
<1>4. PICK n \in Lengths \cup {Failed}, t \in 0..BasicTimeout :
        LET b == [a EXCEPT !.spent = @ + t] IN
        Local(w, IF x = "hybrid" /\ TooShort(n)
                 THEN [b EXCEPT !.pc = "scrapling", !.basic = n]
                 ELSE Call(b, FALSE, IF n = Failed THEN 0 ELSE n))
  BY DEF FetchBasic
<1> DEFINE later == a.spent + t
           b     == [a EXCEPT !.spent = later]
           c     == [b EXCEPT !.pc = "scrapling", !.basic = n]
           e     == IF n = Failed THEN 0 ELSE n
           d     == Call(b, FALSE, e)
<1>5. analysis'[w] = IF x = "hybrid" /\ TooShort(n) THEN c ELSE d
  BY <1>1, <1>4 DEF Local
<1>6. n \in 0..Failed /\ e \in 0..SourceMaxChars
  BY AnalysisAssumption DEF Failed
<1>7. later \in Nat /\ later <= Begun(z.tries, x) + BasicTimeout
  BY <1>1, <1>3, BegunType, TimeTypes DEF AnalysisLocals
<1> HIDE DEF later
<1>8. b \in AnalysisLocals /\ b.spent = later /\ b.basic = 0
  BY <1>1, <1>3, <1>7 DEF AnalysisLocals
<1>9. CASE x = "hybrid" /\ TooShort(n)
  <2>1. /\ c \in AnalysisLocals /\ c.pc = "scrapling" /\ c.spent = later
    BY <1>6, <1>8 DEF AnalysisLocals, AnalysisPc
  <2>2. InTime(c, z.tries, x)
    BY <1>7, <1>9, <2>1 DEF InTime
  <2> HIDE DEF z, a, c
  <2>3. Sound(z, c, x)
    BY <1>1, <1>2, <1>9, <2>1, <2>2, GoesOn
  <2>4. QED
    BY <1>2, <1>5, <1>9, <2>3 DEF z
<1>10. CASE ~(x = "hybrid" /\ TooShort(n))
  <2>1. BasicTimeout <= SourceTime(x)
    BY <1>3, TimeTypes, AnalysisAssumption DEF SourceTime
  <2>2. b.spent <= Begun(z.tries, x) + SourceTime(x) + (IF FALSE THEN FirstCall ELSE 0)
    BY <1>1, <1>7, <1>8, <2>1, BegunType, TimeTypes
  <2> HIDE DEF z, a, x, b, e
  <2>3. d \in AnalysisLocals /\ d.pc = "request" /\ d.basic = 0 /\ InTime(d, z.tries, x)
    BY <1>1, <1>6, <1>8, <2>2, CallSound
  <2> HIDE DEF d
  <2>4. d.basic \notin 1..SourceMaxChars
    BY <2>3
  <2>5. Sound(z, d, x)
    BY <1>1, <1>2, <2>3, <2>4, GoesOn
  <2>6. QED
    BY <1>2, <1>5, <1>10, <2>5 DEF z, x
<1>11. QED
  BY <1>9, <1>10

LEMMA FetchScraplingSound ==
  ASSUME AnalysisInv, NEW w \in Analyzers, FetchScrapling(w)
  PROVE  Sound(analyzer'[w], analysis'[w], settings.extractor)
<1> DEFINE z == analyzer[w]
           a == analysis[w]
           x == settings.extractor
<1>1. /\ Sound(z, a, x) /\ a \in AnalysisLocals /\ x \in Extractors
      /\ analysis \in [Analyzers -> AnalysisLocals] /\ z.tries \in Nat \ {0}
  BY Here
<1>2. z.pc = "analyze" /\ a.pc = "scrapling" /\ analyzer' = analyzer
  BY DEF FetchScrapling, InAnalysis, At, NothingElse
<1>3. /\ x \in {"scrapling", "hybrid"}
      /\ a.spent <= Begun(z.tries, x) + (IF x = "hybrid" THEN BasicTimeout ELSE 0)
  BY <1>1, <1>2 DEF Sound, InPlace, InTime
<1>4. PICK n \in Lengths \cup {Failed}, t \in 0..ScraplingTimeout :
        /\ n = 0 => (x = "hybrid" => a.basic = 0)
        /\ Local(w, Call([a EXCEPT !.spent = @ + t], FALSE,
                         IF n = Failed THEN BestEffort(a.basic) ELSE n))
  BY DEF FetchScrapling
<1> DEFINE later == a.spent + t
           b     == [a EXCEPT !.spent = later]
           e     == IF n = Failed THEN BestEffort(a.basic) ELSE n
           d     == Call(b, FALSE, e)
<1>5. analysis'[w] = d
  BY <1>1, <1>4 DEF Local
<1>6. /\ e \in 0..SourceMaxChars
      /\ x = "hybrid" /\ a.basic \in 1..SourceMaxChars => e > 0
  <2>1. a.basic \in 0..Failed /\ SourceMaxChars \in Nat
    BY <1>1, AnalysisAssumption DEF AnalysisLocals
  <2>2. BestEffort(a.basic) \in 0..SourceMaxChars
        /\ (x = "hybrid" /\ a.basic \in 1..SourceMaxChars => BestEffort(a.basic) = a.basic)
    BY <2>1 DEF BestEffort, Failed
  <2>3. n # Failed => n \in 0..SourceMaxChars
    BY AnalysisAssumption
  <2>4. QED
    BY <1>4, <2>1, <2>2, <2>3
<1>7. later \in Nat /\ later <= Begun(z.tries, x) + SourceTime(x)
  BY <1>1, <1>3, BegunType, TimeTypes DEF AnalysisLocals, SourceTime
<1> HIDE DEF later
<1>8. b \in AnalysisLocals /\ b.spent = later /\ b.basic = a.basic
  BY <1>1, <1>7 DEF AnalysisLocals
<1>9. b.spent <= Begun(z.tries, x) + SourceTime(x) + (IF FALSE THEN FirstCall ELSE 0)
  BY <1>1, <1>7, <1>8, BegunType, TimeTypes
<1> HIDE DEF z, a, x, b, e
<1>10. /\ d \in AnalysisLocals /\ d.pc = "request" /\ d.basic = a.basic /\ d.excerpt = e
       /\ InTime(d, z.tries, x)
  BY <1>1, <1>6, <1>8, <1>9, CallSound
<1> HIDE DEF d
<1>11. Sound(z, d, x)
  BY <1>1, <1>2, <1>6, <1>10, GoesOn
<1>12. QED
  BY <1>2, <1>5, <1>11 DEF z, x

LEMMA RequestSound ==
  ASSUME AnalysisInv, NEW w \in Analyzers, Request(w)
  PROVE  Sound(analyzer'[w], analysis'[w], settings.extractor)
<1> DEFINE z == analyzer[w]
           a == analysis[w]
           x == settings.extractor
<1>1. /\ Sound(z, a, x) /\ a \in AnalysisLocals /\ x \in Extractors
      /\ analysis \in [Analyzers -> AnalysisLocals] /\ z.tries \in Nat \ {0}
  BY Here
<1>2. z.pc = "analyze" /\ a.pc \in {"request", "plain"} /\ analyzer' = analyzer
  BY DEF Request, InAnalysis, At, NothingElse
<1> DEFINE latest == Begun(z.tries, x) + SourceTime(x) + FirstCall
                     + (IF a.compact THEN SecondCall ELSE 0)
<1>3. /\ a.spent + a.left <= latest
      /\ (x = "hybrid" /\ a.basic \in 1..SourceMaxChars) => a.excerpt > 0
  BY <1>1, <1>2 DEF Sound, InTime, KeepsText
<1>4. PICK answer \in Answers, t \in 0..a.left :
        LET b == [a EXCEPT !.answer = answer, !.spent = @ + t] IN
        Local(w, IF a.pc = "request" /\ settings.strict /\ answer = "rejected"
                 THEN [b EXCEPT !.pc = "plain", !.left = Left(a, t)]
                 ELSE [b EXCEPT !.pc = "read", !.left = 0])
  BY DEF Request
<1> DEFINE later == a.spent + t
           rest  == a.left - t
           b     == [a EXCEPT !.answer = answer, !.spent = later]
           c     == [b EXCEPT !.pc = "plain", !.left = rest]
           d     == [b EXCEPT !.pc = "read", !.left = 0]
<1>5. analysis'[w] \in {c, d}
  BY <1>1, <1>4 DEF Local, Left
<1>6. /\ later \in Nat /\ rest \in 0..LLMTimeoutMax /\ 0 \in 0..LLMTimeoutMax
      /\ later + rest <= latest /\ later + 0 <= latest
  <2>1. a.spent \in Nat /\ a.left \in 0..LLMTimeoutMax /\ LLMTimeoutMax \in Nat /\ latest \in Nat
    BY <1>1, BegunType, TimeTypes DEF AnalysisLocals
  <2> HIDE DEF latest
  <2>2. QED
    BY <1>3, <2>1
<1> HIDE DEF later, rest
<1>7. /\ c \in AnalysisLocals /\ c.pc = "plain" /\ c.basic = a.basic /\ c.excerpt = a.excerpt
      /\ c.spent = later /\ c.left = rest /\ c.compact = a.compact
      /\ d \in AnalysisLocals /\ d.pc = "read" /\ d.basic = a.basic /\ d.excerpt = a.excerpt
      /\ d.spent = later /\ d.left = 0 /\ d.compact = a.compact
  BY <1>1, <1>6 DEF AnalysisLocals, AnalysisPc
<1> HIDE DEF b, c, d
<1>8. InTime(c, z.tries, x) /\ InTime(d, z.tries, x)
  BY <1>6, <1>7 DEF InTime
<1> HIDE DEF latest, z, a, x
<1>9. Sound(z, c, x) /\ Sound(z, d, x)
  BY <1>1, <1>2, <1>3, <1>7, <1>8, GoesOn
<1>10. QED
  BY <1>2, <1>5, <1>9 DEF z, x

LEMMA ReadTruncatedSound ==
  ASSUME AnalysisInv, NEW w \in Analyzers, ReadTruncated(w)
  PROVE  Sound(analyzer'[w], analysis'[w], settings.extractor)
<1> DEFINE z == analyzer[w]
           a == analysis[w]
           x == settings.extractor
           e == a.excerpt
           d == Call(a, TRUE, e)
<1>1. /\ Sound(z, a, x) /\ a \in AnalysisLocals /\ x \in Extractors
      /\ analysis \in [Analyzers -> AnalysisLocals] /\ z.tries \in Nat \ {0}
  BY Here
<1>2. /\ z.pc = "analyze" /\ a.pc = "read" /\ ~a.compact /\ analyzer' = analyzer
      /\ analysis'[w] = d
  BY <1>1 DEF ReadTruncated, InAnalysis, At, Local, NothingElse, AskCompact
<1>3. /\ a.spent + a.left <= Begun(z.tries, x) + SourceTime(x) + FirstCall + 0
      /\ (x = "hybrid" /\ a.basic \in 1..SourceMaxChars) => e > 0
  BY <1>1, <1>2 DEF Sound, InTime, KeepsText
<1>4. a.spent <= Begun(z.tries, x) + SourceTime(x) + (IF TRUE THEN FirstCall ELSE 0)
  <2>1. a.spent \in Nat /\ a.left \in Nat /\ SourceTime(x) \in Nat /\ FirstCall \in Nat
        /\ Begun(z.tries, x) \in Nat
    BY <1>1, BegunType, TimeTypes DEF AnalysisLocals
  <2>2. QED
    BY <1>3, <2>1
<1>5. e \in 0..SourceMaxChars
  BY <1>1 DEF AnalysisLocals
<1> HIDE DEF z, a, x, e
<1>6. /\ d \in AnalysisLocals /\ d.pc = "request" /\ d.basic = a.basic /\ d.excerpt = e
      /\ InTime(d, z.tries, x)
  BY <1>1, <1>4, <1>5, CallSound
<1> HIDE DEF d
<1>7. Sound(z, d, x)
  BY <1>1, <1>2, <1>3, <1>6, GoesOn
<1>8. QED
  BY <1>2, <1>7 DEF z, x

LEMMA ReadAdvertSound ==
  ASSUME AnalysisInv, NEW w \in Analyzers, ReadAdvert(w)
  PROVE  Sound(analyzer'[w], analysis'[w], settings.extractor)
<1> DEFINE z == analyzer[w]
           a == analysis[w]
<1>1. /\ Sound(z, a, settings.extractor) /\ z \in AnalyzerLocals /\ a \in AnalysisLocals
      /\ analyzer \in [Analyzers -> AnalyzerLocals] /\ analysis \in [Analyzers -> AnalysisLocals]
  BY Here
<1>2. analyzer'[w] = [z EXCEPT !.pc = "handOver"] /\ analysis'[w] = Over(a) /\ z.pc = "analyze"
  BY <1>1 DEF ReadAdvert, AnalyzeOk, GoTo, At, Local
<1>3. Over(a) \in AnalysisLocals /\ Over(a).pc = "away" /\ Over(a).basic = 0 /\ Over(a).spent = 0
  BY <1>1, AwayTypes DEF Over, AnalysisLocals
<1>4. /\ analyzer'[w] \in AnalyzerLocals /\ analyzer'[w].pc = "handOver"
      /\ analyzer'[w].item \in Items
  BY <1>1, <1>2 DEF Sound, InPlace, AnalyzerLocals, AnalyzerPc
<1>5. QED
  BY <1>2, <1>3, <1>4, AwayTypes, GoesAway

LEMMA AttemptFailsSound ==
  ASSUME AnalysisInv, NEW w \in Analyzers, AttemptFails(w)
  PROVE  Sound(analyzer'[w], analysis'[w], settings.extractor)
<1> DEFINE z == analyzer[w]
           a == analysis[w]
           x == settings.extractor
<1>1. /\ Sound(z, a, x) /\ z \in AnalyzerLocals /\ a \in AnalysisLocals
      /\ x \in Extractors /\ z.tries \in Nat \ {0}
      /\ analyzer \in [Analyzers -> AnalyzerLocals] /\ analysis \in [Analyzers -> AnalysisLocals]
  BY Here
<1>2. /\ z.pc = "analyze" /\ a.pc = "read" /\ AnalyzeFails(w)
      /\ \/ analyzer'[w].pc = "analyze" /\ analysis'[w] = Paused(a)
         \/ /\ analyzer'[w].pc = "judge" /\ analysis'[w] = Over(a)
            /\ analyzer'[w].fatal = IsNonRetryable(a.answer)
  BY <1>1 DEF AttemptFails, InAnalysis, At, Local
<1>3. z.item \in Items /\ ~z.fatal
  BY <1>1, <1>2 DEF Sound, InPlace, LastError
<1>4. \/ z.tries < AnalyzerRetries /\ analyzer'[w] = [z EXCEPT !.tries = @ + 1]
      \/ /\ z.tries = AnalyzerRetries
         /\ \E fatal \in BOOLEAN : analyzer'[w] = [z EXCEPT !.pc = "judge", !.fatal = fatal]
  BY <1>1, <1>2 DEF AnalyzeFails
<1>5. CASE analyzer'[w].pc = "analyze" /\ analysis'[w] = Paused(a)
  <2> DEFINE more == z.tries + 1
             y    == [z EXCEPT !.tries = more]
             b    == Paused(a)
  <2>1. z.tries < AnalyzerRetries /\ analyzer'[w] = y
    BY <1>1, <1>4, <1>5 DEF AnalyzerLocals
  <2>2. more \in 1..AnalyzerRetries /\ more > 1 /\ more - 1 = z.tries
    BY <1>1, <2>1, AnalyzerAssumption
  <2>3. a.spent <= Begun(z.tries, x) + AttemptTime(x)
    <3>1. /\ a.spent \in Nat /\ a.left \in Nat /\ SourceTime(x) \in Nat /\ FirstCall \in Nat
          /\ SecondCall \in Nat /\ Begun(z.tries, x) \in Nat
          /\ AttemptTime(x) = SourceTime(x) + FirstCall + SecondCall
      BY <1>1, BegunType, TimeTypes DEF AnalysisLocals, AttemptTime
    <3>2. a.spent + a.left <= Begun(z.tries, x) + SourceTime(x) + FirstCall
                              + (IF a.compact THEN SecondCall ELSE 0)
      BY <1>1, <1>2 DEF Sound, InTime
    <3> HIDE DEF z, a, x
    <3>3. QED
      BY <3>1, <3>2
  <2>4. b \in AnalysisLocals /\ b.pc = "pause" /\ b.basic = 0 /\ b.spent = a.spent
    BY <1>1, AwayTypes DEF Paused, AnalysisLocals, AnalysisPc
  <2> HIDE DEF more
  <2>5. /\ y \in AnalyzerLocals /\ y.pc = "analyze" /\ y.item \in Items /\ y.tries = more
        /\ ~y.fatal
    BY <1>1, <1>2, <1>3, <2>2 DEF AnalyzerLocals
  <2> HIDE DEF y, b
  <2>6. InTime(b, y.tries, x)
    BY <2>2, <2>3, <2>4, <2>5 DEF InTime
  <2>7. Sound(y, b, x)
    BY <2>2, <2>4, <2>5, <2>6 DEF Sound, InPlace, KeepsText, LastError
  <2>8. QED
    BY <1>5, <2>1, <2>7 DEF b
<1>6. CASE /\ analyzer'[w].pc = "judge" /\ analysis'[w] = Over(a)
           /\ analyzer'[w].fatal = IsNonRetryable(a.answer)
  <2>1. /\ analyzer'[w] \in AnalyzerLocals /\ analyzer'[w].item = z.item
        /\ analyzer'[w].tries = AnalyzerRetries
    BY <1>1, <1>2, <1>4, <1>6 DEF AnalyzerLocals, AnalyzerPc
  <2>2. /\ Over(a) \in AnalysisLocals /\ Over(a).pc = "away" /\ Over(a).basic = 0
        /\ Over(a).spent = 0 /\ Over(a).answer = a.answer
    BY <1>1, AwayTypes DEF Over, AnalysisLocals
  <2>3. QED
    BY <1>3, <1>6, <2>1, <2>2, AwayTypes, GoesAway DEF IsNonRetryable
<1>7. QED
  BY <1>2, <1>5, <1>6

LEMMA ClaimAndWaitSound ==
  ASSUME AnalysisInv, NEW w \in Analyzers, ClaimAndWait(w)
  PROVE  Sound(analyzer'[w], analysis'[w], settings.extractor)
<1>1. analyzer \in [Analyzers -> AnalyzerLocals] /\ analysis \in [Analyzers -> AnalysisLocals]
  BY Here
<1>2. PICK i \in Items, t \in 0..LimiterGap :
        /\ analyzer'[w] = [pc |-> "claimed", item |-> i, tries |-> 1, fatal |-> FALSE]
        /\ analysis'[w] = [Away EXCEPT !.spent = t]
  BY <1>1 DEF ClaimAndWait, ClaimRaw, Local
<1>3. analyzer'[w] \in AnalyzerLocals
  BY <1>2, AnalyzerAssumption DEF AnalyzerLocals, AnalyzerPc
<1>4. /\ analysis'[w] \in AnalysisLocals /\ analysis'[w].pc = "away"
      /\ analysis'[w].basic = 0 /\ analysis'[w].spent <= LimiterGap
  BY <1>2, AwayTypes, AnalysisAssumption DEF AnalysisLocals
<1>5. /\ analyzer'[w].pc = "claimed" /\ analyzer'[w].item \in Items
      /\ analyzer'[w].tries = 1 /\ ~analyzer'[w].fatal
  BY <1>2
<1>6. QED
  BY <1>3, <1>4, <1>5, GoesAway

(* Outside the analysis the handler only takes its job further or ends it. *)
LEMMA HandlerSound ==
  ASSUME AnalysisInv, NEW w \in Analyzers, HandlerStep(w)
  PROVE  Sound(analyzer'[w], analysis'[w], settings.extractor)
<1> DEFINE z == analyzer[w]
           a == analysis[w]
<1>1. /\ Sound(z, a, settings.extractor) /\ z \in AnalyzerLocals /\ a \in AnalysisLocals
      /\ analyzer \in [Analyzers -> AnalyzerLocals]
  BY Here
<1>2. analysis' = analysis /\ z.pc \notin {"idle", "analyze"}
  BY DEF HandlerStep, InterruptRaw, FindStored, Judge, MarkPoison, FailClaim, HandOver,
         StampHandOver, CompleteClaim, ReleaseClaim, At
<1>3. /\ a.pc = "away" /\ a.basic = 0 /\ a.spent <= LimiterGap /\ z.item \in Items
      /\ z.pc = "claimed" => z.tries = 1 /\ ~z.fatal
  BY <1>1, <1>2 DEF Sound, InPlace, KeepsText, LastError, InTime
<1>4. \/ z.pc = "claimed" /\ analyzer' = [analyzer EXCEPT ![w].pc = "analyze"]
      \/ \E pc \in {"release", "handOver", "poison", "fail", "stamp", "complete"} :
           analyzer' = [analyzer EXCEPT ![w].pc = pc]
      \/ analyzer' = [analyzer EXCEPT ![w] = IdleAnalyzer]
  BY DEF HandlerStep, InterruptRaw, FindStored, Judge, MarkPoison, FailClaim, HandOver,
         StampHandOver, CompleteClaim, ReleaseClaim, At, GoTo, Finish
<1>5. CASE z.pc = "claimed" /\ analyzer' = [analyzer EXCEPT ![w].pc = "analyze"]
  <2>1. /\ analyzer'[w] \in AnalyzerLocals /\ analyzer'[w].pc = "analyze"
        /\ analyzer'[w].item = z.item /\ analyzer'[w].tries = 1 /\ ~analyzer'[w].fatal
    BY <1>1, <1>3, <1>5 DEF AnalyzerLocals, AnalyzerPc
  <2>2. QED
    BY <1>1, <1>2, <1>3, <2>1, GoesAway
<1>6. ASSUME NEW pc \in {"release", "handOver", "poison", "fail", "stamp", "complete"},
             analyzer' = [analyzer EXCEPT ![w].pc = pc]
      PROVE  Sound(analyzer'[w], analysis'[w], settings.extractor)
  <2>1. /\ analyzer'[w] \in AnalyzerLocals /\ analyzer'[w].item = z.item
        /\ analyzer'[w].pc \notin {"claimed", "analyze", "judge"}
    BY <1>1, <1>6 DEF AnalyzerLocals, AnalyzerPc
  <2>2. QED
    BY <1>1, <1>2, <1>3, <2>1, GoesAway
<1>7. CASE analyzer' = [analyzer EXCEPT ![w] = IdleAnalyzer]
  <2>1. analyzer'[w] \in AnalyzerLocals /\ analyzer'[w].pc = "idle"
    BY <1>1, <1>7, AnalyzerAssumption DEF IdleAnalyzer, AnalyzerLocals, AnalyzerPc, NoJob
  <2>2. QED
    BY <1>1, <1>2, <1>3, <2>1, GoesAway
<1>8. QED
  BY <1>4, <1>5, <1>6, <1>7

LEMMA RestartSound ==
  ASSUME AnalysisInv, NEW w \in Analyzers, RestartAnalyzer(w)
  PROVE  Sound(analyzer'[w], analysis'[w], settings.extractor)
<1>1. analyzer \in [Analyzers -> AnalyzerLocals] /\ analysis \in [Analyzers -> AnalysisLocals]
  BY Here
<1>2. analyzer'[w] = IdleAnalyzer /\ analysis'[w] = Away
  BY <1>1 DEF RestartAnalyzer, CrashAnalyzer, Finish, Local
<1>3. analyzer'[w] \in AnalyzerLocals /\ analyzer'[w].pc = "idle"
  BY <1>2, AnalyzerAssumption DEF IdleAnalyzer, AnalyzerLocals, AnalyzerPc, NoJob
<1>4. QED
  BY <1>2, <1>3, AwayTypes, GoesAway

-----------------------------------------------------------------------------
(* The tables keep their types.  The statements are those of PipelineProofs, *)
(* in a system of their own.                                                 *)

LEMMA RawTableTypes ==
  ASSUME NEW q \in [Items -> Row], NEW i \in Items, NEW w
  PROVE  /\ w \in Workers => Claim(q, i, w, RawCountCap) \in [Items -> Row]
         /\ Complete(q, i, w) \in [Items -> Row]
         /\ Release(q, i, w) \in [Items -> Row]
         /\ Fail(q, i, w) \in [Items -> Row]
         /\ Expire(q, i) \in [Items -> Row]
<1>1. (IF q[i].count < RawCountCap THEN q[i].count + 1 ELSE q[i].count) \in Nat
  BY DEF Row
<1>2. w \in Workers => Claim(q, i, w, RawCountCap) \in [Items -> Row]
  BY <1>1 DEF Claim, Row, RowState
<1>3. /\ Complete(q, i, w) \in [Items -> Row]
      /\ Release(q, i, w) \in [Items -> Row]
      /\ Fail(q, i, w) \in [Items -> Row]
  BY DEF Complete, Release, Fail, Settle, Row, RowState
<1>4. Expire(q, i) \in [Items -> Row]
  BY DEF Expire, Row
<1>5. QED
  BY <1>2, <1>3, <1>4

LEMMA QueuedForDispatch ==
  ASSUME NEW q \in [Items -> Row], NEW i \in Items
  PROVE  Enqueue(q, i) \in [Items -> Row]
<1>1. Cardinality(Rows(q)) \in Nat
  BY FS_Subset, FS_CardinalityType, ItemsAssumption DEF Rows
<1>2. (IF q[i].state = "ABSENT" THEN Cardinality(Rows(q)) + 1 ELSE q[i].rank) \in Nat
  BY <1>1 DEF Row
<1>3. QED
  BY <1>2 DEF Enqueue, Row, RowState

LEMMA MarkedItems ==
  ASSUME StoreTypeOK, NEW i \in Items
  PROVE  /\ MarkFailed(i) \in [Items -> Item]
         /\ MarkAnalyzed(i) \in [Items -> Item]
         /\ MarkHandedOver(i) \in [Items -> Item]
BY DEF StoreTypeOK, UpdateItem, MarkFailed, MarkAnalyzed, MarkHandedOver, Item, Status

(* What a step of a worker can do to the tables. *)
LEMMA WorkerWrites ==
  ASSUME AnalysisInv, NEW w \in Analyzers, WorkerStep(w)
  PROVE  LET i == analyzer[w].item IN
         /\ \/ UNCHANGED items
            \/ i \in Items /\ items' \in {MarkFailed(i), MarkAnalyzed(i), MarkHandedOver(i)}
         /\ \/ UNCHANGED analyzer_queue
            \/ \E j \in Items : analyzer_queue' = Claim(analyzer_queue, j, w, RawCountCap)
            \/ i \in Items /\ analyzer_queue' \in {Complete(analyzer_queue, i, w),
                 Release(analyzer_queue, i, w), Fail(analyzer_queue, i, w)}
         /\ UNCHANGED dispatch_queue
              \/ (i \in Items /\ dispatch_queue' = Enqueue(dispatch_queue, i))
         /\ UNCHANGED faults \/ Fault
         /\ UNCHANGED <<history, crashes, removals, settings>>
<1> DEFINE i == analyzer[w].item
<1>1. analyzer[w].pc # "idle" => i \in Items
  BY Here DEF Sound, InPlace
<1>2. UNCHANGED <<history, crashes, removals, settings>>
  BY DEF WorkerStep
<1>3. CASE ClaimAndWait(w)
  BY <1>2, <1>3 DEF ClaimAndWait, ClaimRaw
<1>4. CASE AnalysisStep(w)
  <2>1. CASE AnalyzeOk(w) \/ AnalyzeFails(w)
    BY <1>1, <1>2, <2>1 DEF AnalyzeOk, AnalyzeFails, At, NoFault
  <2>2. CASE InterruptPause(w)
    BY <1>2, <2>2 DEF InterruptPause, InterruptAnalysis, tables
  <2>3. CASE NothingElse
    BY <1>2, <2>3 DEF NothingElse, tables
  <2>4. QED
    BY <1>4, <2>1, <2>2, <2>3
       DEF AnalysisStep, BeginAnalysis, Pause, FetchBasic, FetchScrapling, Request,
           ReadAdvert, ReadTruncated, AttemptFails
<1>5. CASE HandlerStep(w)
  <2>1. CASE InterruptRaw(w) \/ FindStored(w) \/ Judge(w)
    BY <1>2, <2>1 DEF InterruptRaw, FindStored, Judge, tables, NoFault
  <2>2. CASE MarkPoison(w) \/ StampHandOver(w)
    BY <1>1, <1>2, <2>2 DEF MarkPoison, StampHandOver, At, NoFault
  <2>3. CASE FailClaim(w) \/ CompleteClaim(w) \/ ReleaseClaim(w)
    BY <1>1, <1>2, <2>3 DEF FailClaim, CompleteClaim, ReleaseClaim, At, NoFault
  <2>4. CASE HandOver(w)
    BY <1>1, <1>2, <2>4 DEF HandOver, At, NoFault
  <2>5. QED
    BY <1>5, <2>1, <2>2, <2>3, <2>4 DEF HandlerStep
<1>6. QED
  BY <1>3, <1>4, <1>5 DEF WorkerStep

LEMMA WorkerStoreType ==
  ASSUME AnalysisInv, NEW w \in Analyzers, WorkerStep(w)
  PROVE  StoreTypeOK' /\ settings' = settings
<1> DEFINE i == analyzer[w].item
<1>0. StoreTypeOK /\ w \in Workers
  BY WorkersAssumption DEF AnalysisInv, AnalysisTypeOK
<1>1. items' \in [Items -> Item]
  <2>1. \/ UNCHANGED items
        \/ i \in Items /\ items' \in {MarkFailed(i), MarkAnalyzed(i), MarkHandedOver(i)}
    BY WorkerWrites
  <2>2. QED
    BY <1>0, <2>1, MarkedItems DEF StoreTypeOK
<1>2. analyzer_queue' \in [Items -> Row]
  <2>1. \/ UNCHANGED analyzer_queue
        \/ \E j \in Items : analyzer_queue' = Claim(analyzer_queue, j, w, RawCountCap)
        \/ i \in Items /\ analyzer_queue' \in {Complete(analyzer_queue, i, w),
             Release(analyzer_queue, i, w), Fail(analyzer_queue, i, w)}
    BY WorkerWrites
  <2>2. QED
    BY <1>0, <2>1, RawTableTypes DEF StoreTypeOK
<1>3. dispatch_queue' \in [Items -> Row]
  <2>1. \/ UNCHANGED dispatch_queue
        \/ i \in Items /\ dispatch_queue' = Enqueue(dispatch_queue, i)
    BY WorkerWrites
  <2>2. QED
    BY <1>0, <2>1, QueuedForDispatch DEF StoreTypeOK
<1>4. faults' \in 0..MaxFaults /\ UNCHANGED <<history, crashes, removals, settings>>
  <2>1. UNCHANGED faults \/ Fault
    BY WorkerWrites
  <2>2. UNCHANGED <<history, crashes, removals, settings>>
    BY WorkerWrites
  <2>3. QED
    BY <1>0, <2>1, <2>2, BudgetAssumption DEF StoreTypeOK, Fault
<1>5. QED
  BY <1>0, <1>1, <1>2, <1>3, <1>4 DEF StoreTypeOK, history

-----------------------------------------------------------------------------
(* The invariant. *)

LEMMA OthersRest ==
  ASSUME AnalysisInv, NEW w \in Analyzers, WorkerStep(w) \/ RestartAnalyzer(w)
  PROVE  /\ analyzer' = [analyzer EXCEPT ![w] = analyzer'[w]]
         /\ analysis' = [analysis EXCEPT ![w] = analysis'[w]]
<1>1. analyzer \in [Analyzers -> AnalyzerLocals] /\ analysis \in [Analyzers -> AnalysisLocals]
  BY Here
<1>2. UNCHANGED analysis \/ (\E a : Local(w, a))
  BY DEF WorkerStep, ClaimAndWait, AnalysisStep, HandlerStep, RestartAnalyzer, BeginAnalysis,
         Pause, InterruptPause, FetchBasic, FetchScrapling, Request, ReadAdvert,
         ReadTruncated, AttemptFails
<1>3. \/ UNCHANGED analyzer
      \/ \E z : analyzer' = [analyzer EXCEPT ![w] = z]
      \/ \E pc : analyzer' = [analyzer EXCEPT ![w].pc = pc]
      \/ \E pc, fatal : analyzer' = [analyzer EXCEPT ![w].pc = pc, ![w].fatal = fatal]
      \/ analyzer' = [analyzer EXCEPT ![w].tries = @ + 1]
  <2>1. CASE ClaimAndWait(w)
    BY <2>1 DEF ClaimAndWait, ClaimRaw
  <2>2. CASE AnalysisStep(w)
    BY <2>2 DEF AnalysisStep, BeginAnalysis, Pause, InterruptPause, FetchBasic, FetchScrapling,
                Request, ReadAdvert, ReadTruncated, AttemptFails, NothingElse,
                InterruptAnalysis, AnalyzeOk, AnalyzeFails, GoTo
  <2>3. CASE HandlerStep(w)
    BY <2>3 DEF HandlerStep, InterruptRaw, FindStored, Judge, MarkPoison, FailClaim, HandOver,
                StampHandOver, CompleteClaim, ReleaseClaim, GoTo, Finish
  <2>4. CASE RestartAnalyzer(w)
    BY <2>4 DEF RestartAnalyzer, CrashAnalyzer, Finish
  <2>5. QED
    BY <2>1, <2>2, <2>3, <2>4 DEF WorkerStep
<1>4. analysis' = [analysis EXCEPT ![w] = analysis'[w]]
  BY <1>1, <1>2 DEF Local
<1>5. analyzer' = [analyzer EXCEPT ![w] = analyzer'[w]]
  <2> DEFINE more == analyzer[w].tries + 1
  <2>1. \/ UNCHANGED analyzer
        \/ \E z : analyzer' = [analyzer EXCEPT ![w] = z]
        \/ \E pc : analyzer' = [analyzer EXCEPT ![w].pc = pc]
        \/ \E pc, fatal : analyzer' = [analyzer EXCEPT ![w].pc = pc, ![w].fatal = fatal]
        \/ analyzer' = [analyzer EXCEPT ![w].tries = more]
    BY <1>3
  <2> HIDE DEF more
  <2>2. QED
    BY <1>1, <2>1
<1>6. QED
  BY <1>4, <1>5

LEMMA WorkerSound ==
  ASSUME AnalysisInv, NEW w \in Analyzers, WorkerStep(w) \/ RestartAnalyzer(w)
  PROVE  Sound(analyzer'[w], analysis'[w], settings.extractor)
BY BeginSound, PauseSound, InterruptPauseSound, FetchBasicSound, FetchScraplingSound,
   RequestSound, ReadAdvertSound, ReadTruncatedSound, AttemptFailsSound,
   ClaimAndWaitSound, HandlerSound, RestartSound
   DEF WorkerStep, AnalysisStep

LEMMA OneMoves ==
  ASSUME AnalysisInv, NEW w \in Analyzers, WorkerStep(w) \/ RestartAnalyzer(w),
         settings' = settings, StoreTypeOK'
  PROVE  AnalysisInv'
<1>1. /\ analyzer' = [analyzer EXCEPT ![w] = analyzer'[w]]
      /\ analysis' = [analysis EXCEPT ![w] = analysis'[w]]
      /\ Sound(analyzer'[w], analysis'[w], settings.extractor)
  BY OthersRest, WorkerSound
<1>2. \A v \in Analyzers : Sound(analyzer[v], analysis[v], settings.extractor)
  BY Here
<1>3. analyzer \in [Analyzers -> AnalyzerLocals] /\ analysis \in [Analyzers -> AnalysisLocals]
  BY Here
<1>4. \A v \in Analyzers : Sound(analyzer'[v], analysis'[v], settings.extractor)
  BY <1>1, <1>2, <1>3
<1>5. analyzer'[w] \in AnalyzerLocals /\ analysis'[w] \in AnalysisLocals
  BY <1>1 DEF Sound
<1>6. /\ analyzer' \in [Analyzers -> AnalyzerLocals]
      /\ analysis' \in [Analyzers -> AnalysisLocals]
  BY <1>1, <1>3, <1>5
<1>7. settings' \in Settings
  BY DEF AnalysisInv, AnalysisTypeOK
<1>8. QED
  BY <1>4, <1>6, <1>7 DEF AnalysisInv, AllSound, AnalysisTypeOK, AnalyzerTypeOK

LEMMA InitSound == AnalysisInit => AnalysisInv
<1> SUFFICES ASSUME AnalysisInit PROVE AnalysisInv
  OBVIOUS
<1>1. StoreTypeOK
  <2>1. [NewItem EXCEPT !.rawEnqueued = TRUE] \in Item /\ NoRow \in Row
    BY DEF NewItem, NoItem, Item, Status, NoRow, Row, RowState
  <2>2. PICK order \in [Items -> 1..Cardinality(Items)] :
          analyzer_queue = [i \in Items |-> [NoRow EXCEPT !.state = "QUEUED", !.rank = order[i]]]
    BY DEF AnalysisInit
  <2>3. \A i \in Items : order[i] \in Nat
    <3>1. Cardinality(Items) \in Nat
      BY ItemsAssumption, FS_CardinalityType
    <3>2. \A i \in Items : order[i] \in 1..Cardinality(Items)
      BY <2>2
    <3>3. QED
      BY <3>1, <3>2
  <2>4. analyzer_queue \in [Items -> Row]
    BY <2>2, <2>3 DEF NoRow, Row, RowState
  <2>5. items \in [Items -> Item] /\ dispatch_queue \in [Items -> Row]
    BY <2>1 DEF AnalysisInit, EmptyQueue
  <2>6. /\ sent = [i \in Items |-> 0] /\ cleared = [i \in Items |-> 0]
        /\ faults = 0 /\ crashes = 0 /\ removals = 0
    BY DEF AnalysisInit
  <2>7. QED
    BY <2>4, <2>5, <2>6, BudgetAssumption DEF StoreTypeOK
<1>2. IdleAnalyzer \in AnalyzerLocals /\ IdleAnalyzer.pc = "idle"
  BY AnalyzerAssumption DEF IdleAnalyzer, AnalyzerLocals, AnalyzerPc, NoJob
<1>3. /\ analyzer = [w \in Analyzers |-> IdleAnalyzer]
      /\ analysis = [w \in Analyzers |-> Away] /\ settings \in Settings
  BY DEF AnalysisInit, AnalyzerInit
<1>4. Sound(IdleAnalyzer, Away, settings.extractor)
  BY <1>2, AwayTypes, GoesAway
<1>5. QED
  BY <1>1, <1>2, <1>3, <1>4, AwayTypes
     DEF AnalysisInv, AnalysisTypeOK, AnalyzerTypeOK, AllSound

LEMMA StepInv == AnalysisInv /\ [AnalysisNext]_analysisVars => AnalysisInv'
<1> SUFFICES ASSUME AnalysisInv, [AnalysisNext]_analysisVars
             PROVE  AnalysisInv'
  OBVIOUS
<1>0. StoreTypeOK
  BY DEF AnalysisInv, AnalysisTypeOK
<1>1. ASSUME NEW w \in Analyzers, WorkerStep(w)
      PROVE  AnalysisInv'
  BY <1>1, WorkerStoreType, OneMoves
<1>2. ASSUME NEW w \in Analyzers, RestartAnalyzer(w)
      PROVE  AnalysisInv'
  <2>1. Orphan(analyzer_queue, w) \in [Items -> Row]
    BY <1>0 DEF StoreTypeOK, Orphan, Row
  <2>2. StoreTypeOK'
    BY <1>0, <1>2, <2>1, BudgetAssumption
       DEF RestartAnalyzer, CrashAnalyzer, Crash, StoreTypeOK, history
  <2>3. settings' = settings
    BY <1>2 DEF RestartAnalyzer
  <2>4. QED
    BY <1>2, <2>2, <2>3, OneMoves
<1>3. ASSUME NEW i \in Items, LeaseRunsOut(i)
      PROVE  AnalysisInv'
  <2>1. Expire(analyzer_queue, i) \in [Items -> Row]
    BY <1>0, RawTableTypes DEF StoreTypeOK
  <2>2. StoreTypeOK'
    BY <1>0, <1>3, <2>1 DEF LeaseRunsOut, RawLeaseExpires, StoreTypeOK, history
  <2>3. QED
    BY <1>3, <2>2
       DEF LeaseRunsOut, AnalysisInv, AnalysisTypeOK, AnalyzerTypeOK, AllSound
<1>4. CASE UNCHANGED analysisVars
  BY <1>4 DEF analysisVars, tables, history, AnalysisInv, AnalysisTypeOK, StoreTypeOK,
              AnalyzerTypeOK, AllSound
<1>5. QED
  BY <1>1, <1>2, <1>3, <1>4 DEF AnalysisNext

LEMMA AnalysisInvariant == AnalysisSpec => []AnalysisInv
BY InitSound, StepInv, PTL DEF AnalysisSpec

(* The types of one analysis: it never asks for more time than the limit   *)
(* of a request, nor sends a longer excerpt than the code cuts.            *)
THEOREM AnalysisIsTyped == AnalysisSpec => []AnalysisTypeOK
<1>1. AnalysisInv => AnalysisTypeOK
  BY DEF AnalysisInv
<1>2. QED
  BY <1>1, AnalysisInvariant, PTL

(* In hybrid mode, what the page gave is in the prompt, whatever the       *)
(* sidecar answers.                                                        *)
THEOREM PageTextIsKept == AnalysisSpec => []TextIsKept
<1>1. AnalysisInv => TextIsKept
  BY DEF AnalysisInv, AllSound, Sound, KeepsText, TextIsKept
<1>2. QED
  BY <1>1, AnalysisInvariant, PTL

-----------------------------------------------------------------------------
(* The budget of a claim. *)

LEMMA BegunGrows ==
  ASSUME NEW s \in Nat \ {0}, NEW t \in Nat \ {0}, s <= t, NEW x \in Extractors
  PROVE  Begun(s, x) <= Begun(t, x)
<1> DEFINE k == AttemptTime(x)
           a == s - 1
           b == t - 1
           c == 2^a - 1
           d == 2^b - 1
<1>1. k \in Nat /\ LimiterGap \in Nat /\ RetryBaseDelay \in Nat
  BY TimeTypes, AnalysisAssumption
<1>2. a \in Nat /\ b \in Nat /\ a <= b
  OBVIOUS
<1>3. c \in Nat /\ d \in Nat /\ c <= d
  <2>1. 2^a \in Nat \ {0} /\ 2^b \in Nat \ {0} /\ 2^a <= 2^b
    BY <1>2, Powers, PowerGrows
  <2>2. QED
    BY <2>1
<1>4. /\ Begun(s, x) = LimiterGap + a * k + RetryBaseDelay * c
      /\ Begun(t, x) = LimiterGap + b * k + RetryBaseDelay * d
  BY DEF Begun
<1> HIDE DEF k, a, b, c, d
<1>5. a * k \in Nat /\ b * k \in Nat /\ a * k <= b * k
  BY <1>1, <1>2, ProductGrows
<1>6. c * RetryBaseDelay \in Nat /\ d * RetryBaseDelay \in Nat
      /\ c * RetryBaseDelay <= d * RetryBaseDelay
  BY <1>1, <1>3, ProductGrows
<1>7. RetryBaseDelay * c = c * RetryBaseDelay /\ RetryBaseDelay * d = d * RetryBaseDelay
  BY <1>1, <1>3
<1>8. QED
  BY <1>1, <1>4, <1>5, <1>6, <1>7

LEMMA LastAttempt ==
  ASSUME settings \in Settings
  PROVE  ClaimBudget = Begun(AnalyzerRetries, settings.extractor) + AttemptTime(settings.extractor)
<1> DEFINE x == settings.extractor
           k == AttemptTime(x)
           m == AnalyzerRetries - 1
           p == RetryBaseDelay * (2^m - 1)
<1>1. x \in Extractors
  BY DEF Settings, Extractors
<1>2. AttemptBudget = k
  BY <1>1 DEF AttemptBudget, AttemptTime, SourceBudget, SourceTime, FirstCall, SecondCall
<1>3. ClaimBudget = LimiterGap + AnalyzerRetries * k + p
  BY <1>2 DEF ClaimBudget
<1>4. Begun(AnalyzerRetries, x) = LimiterGap + m * k + p
  BY DEF Begun
<1>5. k \in Nat /\ LimiterGap \in Nat /\ m \in Nat /\ AnalyzerRetries = m + 1
  BY <1>1, TimeTypes, AnalyzerAssumption
<1>6. p \in Int
  <2>1. 2^m \in Int /\ RetryBaseDelay \in Int
    BY <1>5, Powers, AnalysisAssumption
  <2>2. QED
    BY <2>1
<1> HIDE DEF k, m, p, x
<1>7. (m + 1) * k = m * k + k
  BY <1>5
<1>8. m * k \in Int
  BY <1>5
<1>9. ClaimBudget = Begun(AnalyzerRetries, x) + k
  BY <1>3, <1>4, <1>5, <1>6, <1>7, <1>8
<1>10. QED
  BY <1>9 DEF k, x

LEMMA InBudget ==
  ASSUME AnalysisInv, NEW w \in Analyzers
  PROVE  analysis[w].spent <= ClaimBudget
<1> DEFINE a == analysis[w]
           t == analyzer[w].tries
           x == settings.extractor
           end == Begun(AnalyzerRetries, x)
<1>1. /\ Sound(analyzer[w], a, x) /\ a \in AnalysisLocals /\ x \in Extractors
      /\ t \in Nat \ {0} /\ analyzer[w] \in AnalyzerLocals
  BY Here
<1>2. t <= AnalyzerRetries /\ AnalyzerRetries \in Nat \ {0}
  BY <1>1, AnalyzerAssumption DEF AnalyzerLocals
<1>3. /\ Begun(t, x) \in Nat /\ Begun(t, x) <= end /\ end \in Nat
      /\ LimiterGap <= end
  <2>1. 1 \in Nat \ {0} /\ 1 <= AnalyzerRetries /\ Begun(1, x) = LimiterGap
    BY <1>1, <1>2, BegunNext
  <2>2. QED
    BY <1>1, <1>2, <2>1, BegunType, BegunGrows
<1>4. /\ a.spent \in Nat /\ a.left \in Nat /\ SourceTime(x) \in Nat /\ FirstCall \in Nat
      /\ SecondCall \in Nat /\ AttemptTime(x) = SourceTime(x) + FirstCall + SecondCall
  BY <1>1, TimeTypes DEF AnalysisLocals, AttemptTime
<1>5. ClaimBudget = end + AttemptTime(x)
  BY LastAttempt DEF AnalysisInv, AnalysisTypeOK
<1>6. InTime(a, t, x)
  BY <1>1 DEF Sound
<1>7. CASE a.pc = "away"
  <2>1. a.spent <= LimiterGap /\ LimiterGap \in Nat
    BY <1>6, <1>7, AnalysisAssumption DEF InTime
  <2> HIDE DEF a, x, end
  <2>2. QED
    BY <1>3, <1>4, <1>5, <2>1 DEF a
<1>8. CASE a.pc = "pause"
  <2> DEFINE s == t - 1
  <2>1. t > 1 /\ a.spent <= Begun(s, x) + AttemptTime(x)
    BY <1>1, <1>6, <1>8 DEF InTime, Sound, InPlace
  <2>2. s \in Nat \ {0} /\ s <= AnalyzerRetries
    BY <1>1, <1>2, <2>1
  <2> HIDE DEF s
  <2>3. Begun(s, x) \in Nat /\ Begun(s, x) <= end
    BY <1>1, <1>2, <2>2, BegunType, BegunGrows
  <2> HIDE DEF a, x, end
  <2>4. QED
    BY <1>3, <1>4, <1>5, <2>1, <2>3 DEF a
<1>9. CASE a.pc \in {"basic", "scrapling"}
  <2>1. a.spent <= Begun(t, x) + SourceTime(x)
    <3>1. a.pc = "scrapling" => x \in {"scrapling", "hybrid"}
      BY <1>1 DEF Sound, InPlace
    <3>2. a.pc = "scrapling" => (IF x = "hybrid" THEN BasicTimeout ELSE 0) <= SourceTime(x)
      BY <3>1, AnalysisAssumption DEF SourceTime
    <3>3. BasicTimeout \in Nat
      BY AnalysisAssumption
    <3>4. \/ a.spent <= Begun(t, x)
          \/ /\ a.pc = "scrapling"
             /\ a.spent <= Begun(t, x) + (IF x = "hybrid" THEN BasicTimeout ELSE 0)
      BY <1>6, <1>9 DEF InTime
    <3> HIDE DEF a, t, x
    <3>5. QED
      BY <1>3, <1>4, <3>2, <3>3, <3>4
  <2> HIDE DEF a, t, x, end
  <2>2. QED
    BY <1>3, <1>4, <1>5, <2>1 DEF a
<1>10. CASE a.pc \in {"request", "plain", "read"}
  <2>1. a.spent + a.left <= Begun(t, x) + SourceTime(x) + FirstCall
                            + (IF a.compact THEN SecondCall ELSE 0)
    BY <1>6, <1>10 DEF InTime
  <2> HIDE DEF a, t, x, end
  <2>2. QED
    BY <1>3, <1>4, <1>5, <2>1 DEF a
<1>11. QED
  BY <1>1, <1>7, <1>8, <1>9, <1>10 DEF AnalysisLocals, AnalysisPc

(* No claim keeps a process longer than its budget, whatever the pages,    *)
(* the sidecar and the LLM do, with any number of attempts and every        *)
(* configuration of the timeouts.                                          *)
THEOREM ClaimsInBudget == AnalysisSpec => []SpentInBudget
<1>1. AnalysisInv => SpentInBudget
  BY InBudget DEF SpentInBudget
<1>2. QED
  BY <1>1, AnalysisInvariant, PTL

-----------------------------------------------------------------------------
(* The reasons of a quarantine. *)

(* Nothing takes a delivery back from the count of a job. *)
CountsRise == \A i \in Items : analyzer_queue'[i].count >= analyzer_queue[i].count

LEMMA QueueCounts ==
  ASSUME NEW q \in [Items -> Row], NEW i \in Items, NEW w
  PROVE  \A j \in Items : /\ Claim(q, i, w, RawCountCap)[j].count >= q[j].count
                          /\ Complete(q, i, w)[j].count >= q[j].count
                          /\ Release(q, i, w)[j].count >= q[j].count
                          /\ Fail(q, i, w)[j].count >= q[j].count
                          /\ Expire(q, i)[j].count >= q[j].count
                          /\ Orphan(q, w)[j].count >= q[j].count
<1> SUFFICES ASSUME NEW j \in Items
             PROVE  /\ Claim(q, i, w, RawCountCap)[j].count >= q[j].count
                    /\ Complete(q, i, w)[j].count >= q[j].count
                    /\ Release(q, i, w)[j].count >= q[j].count
                    /\ Fail(q, i, w)[j].count >= q[j].count
                    /\ Expire(q, i)[j].count >= q[j].count
                    /\ Orphan(q, w)[j].count >= q[j].count
  OBVIOUS
<1>1. q[i].count \in Nat /\ q[j].count \in Nat /\ q[i] \in Row /\ q[j] \in Row
  BY DEF Row
<1> DEFINE more == IF q[i].count < RawCountCap THEN q[i].count + 1 ELSE q[i].count
<1>2. more \in Nat /\ more >= q[i].count
  BY <1>1
<1>3. Claim(q, i, w, RawCountCap)[j].count = IF j = i THEN more ELSE q[j].count
  BY DEF Claim
<1> HIDE DEF more
<1>4. Claim(q, i, w, RawCountCap)[j].count >= q[j].count
  BY <1>1, <1>2, <1>3
<1>5. /\ Complete(q, i, w)[j].count = q[j].count /\ Release(q, i, w)[j].count = q[j].count
      /\ Fail(q, i, w)[j].count = q[j].count
  BY DEF Complete, Release, Fail, Settle
<1>6. Expire(q, i)[j].count = q[j].count
  BY <1>1 DEF Expire, Row
<1>7. Orphan(q, w)[j].count = q[j].count
  BY <1>1 DEF Orphan, Row
<1>8. QED
  BY <1>1, <1>4, <1>5, <1>6, <1>7

LEMMA CountsNeverFall ==
  ASSUME AnalysisInv, [AnalysisNext]_analysisVars
  PROVE  CountsRise
<1>1. analyzer_queue \in [Items -> Row] /\ \A i \in Items : analyzer_queue[i].count \in Nat
  BY DEF AnalysisInv, AnalysisTypeOK, StoreTypeOK, Row
<1>2. ASSUME UNCHANGED analyzer_queue
      PROVE  CountsRise
  BY <1>1, <1>2 DEF CountsRise
<1>3. ASSUME NEW w \in Analyzers, WorkerStep(w)
      PROVE  CountsRise
  <2> DEFINE i == analyzer[w].item
  <2>1. \/ UNCHANGED analyzer_queue
        \/ \E j \in Items : analyzer_queue' = Claim(analyzer_queue, j, w, RawCountCap)
        \/ i \in Items /\ analyzer_queue' \in {Complete(analyzer_queue, i, w),
             Release(analyzer_queue, i, w), Fail(analyzer_queue, i, w)}
    BY <1>3, WorkerWrites
  <2>2. QED
    BY <1>1, <1>2, <2>1, QueueCounts DEF CountsRise
<1>4. ASSUME NEW w \in Analyzers, RestartAnalyzer(w)
      PROVE  CountsRise
  <2>1. analyzer_queue' = Orphan(analyzer_queue, w)
    BY <1>4 DEF RestartAnalyzer, CrashAnalyzer
  <2>2. QED
    BY <1>1, <2>1, QueueCounts DEF CountsRise
<1>5. ASSUME NEW i \in Items, LeaseRunsOut(i)
      PROVE  CountsRise
  <2>1. analyzer_queue' = Expire(analyzer_queue, i)
    BY <1>5 DEF LeaseRunsOut, RawLeaseExpires
  <2>2. QED
    BY <1>1, <2>1, QueueCounts DEF CountsRise
<1>6. QED
  BY <1>2, <1>3, <1>4, <1>5 DEF AnalysisNext, analysisVars, tables

(* The only ways into a quarantine and on in it. *)
LEMMA IntoQuarantine ==
  ASSUME AnalysisInv, NEW w \in Analyzers, WorkerStep(w) \/ RestartAnalyzer(w),
         analyzer'[w].pc \in {"poison", "fail"}
  PROVE  /\ (Judge(w) /\ (analyzer[w].fatal \/ TooManyDeliveries(w))) \/ MarkPoison(w)
         /\ analysis' = analysis /\ analyzer_queue' = analyzer_queue
         /\ \E pc \in {"poison", "fail"} : analyzer' = [analyzer EXCEPT ![w].pc = pc]
<1>1. analyzer \in [Analyzers -> AnalyzerLocals]
  BY Here
<1>2. ~ClaimAndWait(w)
  BY <1>1 DEF ClaimAndWait, ClaimRaw
<1>3. ~AnalysisStep(w)
  <2>1. ASSUME analyzer' = analyzer, At(w, "analyze")
        PROVE  FALSE
    BY <2>1 DEF At
  <2>2. ASSUME InterruptAnalysis(w)
        PROVE  FALSE
    BY <1>1, <2>2 DEF InterruptAnalysis, GoTo
  <2>3. ASSUME AnalyzeOk(w)
        PROVE  FALSE
    BY <1>1, <2>3 DEF AnalyzeOk, GoTo
  <2>4. ASSUME AttemptFails(w)
        PROVE  FALSE
    BY <2>4 DEF AttemptFails, At
  <2>5. QED
    BY <2>1, <2>2, <2>3, <2>4
       DEF AnalysisStep, BeginAnalysis, Pause, InterruptPause, FetchBasic, FetchScrapling,
           Request, ReadAdvert, ReadTruncated, InAnalysis, NothingElse
<1>4. ~RestartAnalyzer(w)
  BY <1>1 DEF RestartAnalyzer, CrashAnalyzer, Finish, IdleAnalyzer
<1>5. HandlerStep(w)
  BY <1>2, <1>3, <1>4 DEF WorkerStep
<1>6. Judge(w) \/ MarkPoison(w)
  <2>1. ASSUME NEW pc, GoTo(w, pc)
        PROVE  analyzer'[w].pc = pc
    BY <1>1, <2>1 DEF GoTo, AnalyzerLocals
  <2>2. ~Finish(w)
    BY <1>1 DEF Finish, IdleAnalyzer
  <2>3. QED
    BY <1>5, <2>1, <2>2 DEF HandlerStep, InterruptRaw, FindStored, FailClaim, HandOver,
                            StampHandOver, CompleteClaim, ReleaseClaim
<1>7. Judge(w) => analyzer[w].fatal \/ TooManyDeliveries(w)
  <2>1. ASSUME NEW pc, GoTo(w, pc)
        PROVE  analyzer'[w].pc = pc
    BY <1>1, <2>1 DEF GoTo, AnalyzerLocals
  <2>2. QED
    BY <2>1 DEF Judge
<1>8. analyzer_queue' = analyzer_queue /\ analysis' = analysis
  BY <1>5, <1>6 DEF HandlerStep, Judge, MarkPoison, tables
<1>9. \E pc \in {"poison", "fail"} : analyzer' = [analyzer EXCEPT ![w].pc = pc]
  <2>1. CASE Judge(w)
    BY <1>1, <2>1 DEF Judge, GoTo
  <2>2. CASE MarkPoison(w)
    BY <2>2 DEF MarkPoison, GoTo
  <2>3. QED
    BY <1>6, <2>1, <2>2
<1>10. QED
  BY <1>6, <1>7, <1>8, <1>9

LEMMA ReasonsLast ==
  ASSUME AnalysisInv, AnalysisInv', QuarantineHasReason, CountsRise, NEW v \in Analyzers,
         analyzer'[v] = analyzer[v], analysis'[v] = analysis[v],
         analyzer'[v].pc \in {"poison", "fail"}
  PROVE  \/ analyzer_queue'[analyzer'[v].item].count >= MaxDeliveryAttempts
         \/ analyzer'[v].tries = AnalyzerRetries /\ analysis'[v].answer = "incomplete"
<1> DEFINE i == analyzer[v].item
<1>1. /\ i \in Items
      /\ \/ analyzer_queue[i].count >= MaxDeliveryAttempts
         \/ analyzer[v].tries = AnalyzerRetries /\ analysis[v].answer = "incomplete"
  BY Here DEF QuarantineHasReason, At, Sound, InPlace
<1>2. analyzer_queue'[i].count >= analyzer_queue[i].count
  BY <1>1 DEF CountsRise
<1>3. /\ analyzer_queue[i].count \in Nat /\ analyzer_queue'[i].count \in Nat
      /\ MaxDeliveryAttempts \in Nat
  BY <1>1, AnalyzerAssumption DEF AnalysisInv, AnalysisTypeOK, StoreTypeOK, Row
<1>4. QED
  BY <1>1, <1>2, <1>3

LEMMA ReasonsStep ==
  ASSUME AnalysisInv, AnalysisInv', QuarantineHasReason, [AnalysisNext]_analysisVars
  PROVE  QuarantineHasReason'
<1>1. CountsRise
  BY CountsNeverFall
<1> SUFFICES ASSUME NEW v \in Analyzers, analyzer'[v].pc \in {"poison", "fail"}
             PROVE  \/ analyzer_queue'[analyzer'[v].item].count >= MaxDeliveryAttempts
                    \/ analyzer'[v].tries = AnalyzerRetries /\ analysis'[v].answer = "incomplete"
  BY DEF QuarantineHasReason, At
<1>2. CASE analyzer'[v] = analyzer[v] /\ analysis'[v] = analysis[v]
  BY <1>1, <1>2, ReasonsLast
<1>3. ASSUME NEW w \in Analyzers, WorkerStep(w) \/ RestartAnalyzer(w), v # w
      PROVE  analyzer'[v] = analyzer[v] /\ analysis'[v] = analysis[v]
  BY <1>3, OthersRest, Here
<1>4. ASSUME WorkerStep(v) \/ RestartAnalyzer(v)
      PROVE  \/ analyzer_queue'[analyzer'[v].item].count >= MaxDeliveryAttempts
             \/ analyzer'[v].tries = AnalyzerRetries /\ analysis'[v].answer = "incomplete"
  <2>1. /\ (Judge(v) /\ (analyzer[v].fatal \/ TooManyDeliveries(v))) \/ MarkPoison(v)
        /\ analysis' = analysis /\ analyzer_queue' = analyzer_queue
        /\ \E pc \in {"poison", "fail"} : analyzer' = [analyzer EXCEPT ![v].pc = pc]
    BY <1>4, IntoQuarantine
  <2>2. analyzer'[v].item = analyzer[v].item /\ analyzer'[v].tries = analyzer[v].tries
    BY <2>1, Here DEF AnalyzerLocals
  <2>3. \/ analyzer_queue[analyzer[v].item].count >= MaxDeliveryAttempts
        \/ analyzer[v].tries = AnalyzerRetries /\ analysis[v].answer = "incomplete"
    <3>1. CASE MarkPoison(v)
      BY <3>1 DEF MarkPoison, QuarantineHasReason, At
    <3>2. CASE TooManyDeliveries(v)
      BY <3>2 DEF TooManyDeliveries
    <3>3. CASE Judge(v) /\ analyzer[v].fatal
      BY <3>3, Here DEF Judge, At, Sound, LastError
    <3>4. QED
      BY <2>1, <3>1, <3>2, <3>3
  <2>4. QED
    BY <2>1, <2>2, <2>3
<1>5. ASSUME NEW i \in Items, LeaseRunsOut(i)
      PROVE  analyzer' = analyzer /\ analysis' = analysis
  BY <1>5 DEF LeaseRunsOut
<1>6. CASE UNCHANGED analysisVars
  BY <1>2, <1>6 DEF analysisVars
<1>7. QED
  BY <1>2, <1>3, <1>4, <1>5, <1>6 DEF AnalysisNext

(* A quarantine has the threshold or the error of the last attempt behind  *)
(* it, however many processes share the queue and take over each other's   *)
(* expired leases: the count it was decided on never falls.                *)
THEOREM QuarantinesHaveReason == AnalysisSpec => []QuarantineHasReason
<1>1. AnalysisInit => QuarantineHasReason
  <2>1. ASSUME AnalysisInit, NEW w \in Analyzers
        PROVE  analyzer[w].pc = "idle"
    BY <2>1 DEF AnalysisInit, AnalyzerInit, IdleAnalyzer
  <2>2. QED
    BY <2>1 DEF QuarantineHasReason, At
<1>2. AnalysisInv /\ AnalysisInv' /\ QuarantineHasReason /\ [AnalysisNext]_analysisVars
        => QuarantineHasReason'
  BY ReasonsStep
<1>3. AnalysisSpec => []AnalysisInv
  BY AnalysisInvariant
<1>4. QED
  BY <1>1, <1>2, <1>3, PTL DEF AnalysisSpec

==========================================================================
