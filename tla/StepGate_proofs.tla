-------------------------- MODULE StepGate_proofs ---------------------------
(***************************************************************************)
(* Proofs about StepGate, for every scale, curve, configuration and set of *)
(* scores, in range or not.                                                *)
(***************************************************************************)
EXTENDS StepGate, TLAPS

USE ScaleAssumption, NoScoreAssumption, AnswersAssumption, ConfigsAssumption

-----------------------------------------------------------------------------
(* The operators on scores *)

\* PyMin never exceeds its first argument, as Python compares them.
LEMMA MinIsScore == \A a, b \in Score : PyMin(a, b) \in Score /\ ~Less(a, PyMin(a, b))
  BY DEF Score, PyMin, Less

\* Unless its first argument is NaN, PyMin does not exceed the second either.
LEMMA MinIsBelow == \A a \in Score, b \in Int : PyMin(a, b) # NaN => PyMin(a, b) <= b
  BY DEF Score, PyMin, Less

\* A grounding score is clamped into the scale, NaN included.
LEMMA ClampIsInRange == \A g \in Score : Clamp(g) \in 0..Scale
  BY DEF Score, Clamp, PyMin, PyMax, Less

\* Neither combination strategy returns more than the primary's confidence.
LEMMA CombineIsDownward ==
  TypeOK => \A p, v \in Score : Combine(p, v) \in Score /\ ~Less(p, Combine(p, v))
  BY MinIsScore DEF Combine, TypeOK, Score, Less

\* Looking up a bin that exists returns its label or nothing.
LEMMA LookupIsLabel == TypeOK => \A s \in Score : Lookup(s) \in 0..Scale \cup {None}
<1> SUFFICES ASSUME TypeOK, NEW s \in Score PROVE Lookup(s) \in 0..Scale \cup {None}
  OBVIOUS
<1>1. CASE s = NaN \/ Less(s, 0)
  BY <1>1 DEF Lookup
<1>2. CASE s \in Nat
  BY <1>2 DEF Lookup, TypeOK, Bins, Less
<1>3. QED
  BY <1>1, <1>2 DEF Score, Less

-----------------------------------------------------------------------------
(* Types *)

\* A verifier is only shown an answer that exists.
Typed == TypeOK /\ (pc = "verify" => primary \in Score)

\* Each action keeps the types.
LEMMA TypeStep == Typed /\ [Next]_vars => Typed'
<1> SUFFICES ASSUME Typed, [Next]_vars PROVE Typed'
  OBVIOUS
<1> USE DEF Typed, TypeOK, answer, signals
<1>a. Answers \subseteq Score /\ cfg \in Config
  BY DEF Score
<1>1. ASSUME NEW c \in Answers, NEW p \in BOOLEAN, ExecutorAnswers(c, p) PROVE Typed'
  BY <1>1, <1>a DEF ExecutorAnswers, PCs
<1>2. ASSUME NEW v \in Answers, VerifierAnswers(v) PROVE Typed'
  BY <1>2, <1>a, CombineIsDownward DEF VerifierAnswers, PCs
<1>3. ASSUME NEW g \in Answers \cup {None}, Ground(g) PROVE Typed'
  BY <1>3, <1>a, ClampIsInRange, MinIsScore DEF Ground, PCs, Score
<1>4. ASSUME NEW passed \in BOOLEAN, RunCheck(passed) PROVE Typed'
  BY <1>4, <1>a DEF RunCheck, Config
<1>5. CASE ExecutorFails
  BY <1>5, <1>a DEF ExecutorFails, MoreAttempts, PCs, Statuses, Config
<1>6. CASE Unverified
  BY <1>6 DEF Unverified, PCs
<1>7. CASE Refine
  BY <1>7, <1>a DEF Refine, MoreIterations, PCs, Config
<1>8. CASE LeaveLoop
  BY <1>8 DEF LeaveLoop, PCs
<1>9. CASE Calibrate
  <2>1. Lookup(trust) \in 0..Scale \cup {None} /\ UncalibratedTrust \in Score
    BY LookupIsLabel DEF UncalibratedTrust, Score
  <2>2. trust' \in Score
    BY <1>9, <2>1 DEF Calibrate, Score
  <2>3. uncalibrated' \in BOOLEAN
    BY <1>9 DEF Calibrate
  <2>4. QED
    BY <1>9, <2>2, <2>3 DEF Calibrate, PCs
<1>10. CASE CalibrationRaises
  BY <1>10 DEF CalibrationRaises, PCs
<1>11. CASE EndChecks
  BY <1>11 DEF EndChecks, PCs, Score
<1>12. CASE Gate
  BY <1>12 DEF Gate, PCs, Statuses
<1>13. CASE UNCHANGED vars
  BY <1>13 DEF vars
<1>14. QED
  BY <1>1, <1>2, <1>3, <1>4, <1>5, <1>6, <1>7, <1>8, <1>9, <1>10, <1>11, <1>12, <1>13
  DEF Next, Step, Ended

\* A step starts well typed.
LEMMA TypeInit == Init => Typed
<1> SUFFICES ASSUME Init PROVE Typed
  OBVIOUS
<1>1. cfg \in Config
  BY DEF Init
<1>2. 1 \in 1..cfg.iterations /\ 1 \in 1..cfg.attempts /\ 0 \in 0..cfg.checks
  BY <1>1 DEF Config
<1>3. pc \in PCs /\ primary \in Score \cup {None} /\ verdict \in Score \cup {None}
  BY DEF Init, PCs
<1>4. effective \in Score /\ trust \in Score /\ verdictOf \in Nat
  BY DEF Init, Score
<1>5. QED
  BY <1>1, <1>2, <1>3, <1>4 DEF Init, Typed, TypeOK

\* A step keeps the types of its state: in particular its iterations and attempts stay
\* within max_iterations and retry.attempts, and its trust is a number or NaN.
THEOREM TypeCorrect == Spec => []TypeOK
<1>1. Typed => TypeOK
  BY DEF Typed
<1>2. QED
  BY <1>1, TypeInit, TypeStep, PTL DEF Spec

-----------------------------------------------------------------------------
(* The verifier *)

(***************************************************************************)
(* DownwardOnly is not inductive: it does not say that the answer a        *)
(* verifier has yet to see carries no verdict, nor anything of the verdict *)
(* of the iteration before while the executor is called again.             *)
(***************************************************************************)
DownInv ==
  /\ Typed
  /\ verdict # None => ~Less(primary, effective)
  /\ pc = "verify" => verdict = None

\* Each action keeps DownInv.
LEMMA DownStep == DownInv /\ [Next]_vars => DownInv'
<1> SUFFICES ASSUME DownInv, [Next]_vars
             PROVE  (verdict # None => ~Less(primary, effective))' /\ (pc = "verify" => verdict = None)'
  BY TypeStep DEF DownInv
<1> USE DEF DownInv, answer, signals
<1>1. ASSUME NEW c \in Answers, NEW p \in BOOLEAN, ExecutorAnswers(c, p)
      PROVE  verdict' = None
  BY <1>1 DEF ExecutorAnswers
<1>2. ASSUME NEW v \in Answers, VerifierAnswers(v)
      PROVE  pc' # "verify" /\ ~Less(primary', effective')
  BY <1>2, CombineIsDownward DEF VerifierAnswers, Typed, Score
<1>3. CASE Refine
  BY <1>3 DEF Refine
<1>4. CASE ExecutorFails
  BY <1>4 DEF ExecutorFails
<1>5. CASE Calibrate
  BY <1>5 DEF Calibrate
<1>6. CASE Unverified \/ LeaveLoop \/ CalibrationRaises \/ EndChecks \/ Gate
  BY <1>6 DEF Unverified, LeaveLoop, CalibrationRaises, EndChecks, Gate
<1>7. ASSUME NEW g \in Answers \cup {None}, Ground(g)
      PROVE  pc' # "verify" /\ UNCHANGED <<verdict, primary, effective>>
  BY <1>7 DEF Ground
<1>8. ASSUME NEW passed \in BOOLEAN, RunCheck(passed)
      PROVE  UNCHANGED <<pc, verdict, primary, effective>>
  BY <1>8 DEF RunCheck
<1>9. CASE UNCHANGED vars
  BY <1>9 DEF vars
<1>10. QED
  BY <1>1, <1>2, <1>3, <1>4, <1>5, <1>6, <1>7, <1>8, <1>9 DEF Next, Step, Ended

\* DownInv holds of a step that starts.
LEMMA DownInit == Init => DownInv
<1> SUFFICES ASSUME Init PROVE DownInv
  OBVIOUS
<1>1. Typed
  BY TypeInit
<1>2. QED
  BY <1>1 DEF Init, DownInv

\* Whatever a verifier answers, and whichever strategy combines it, the confidence the
\* gate starts from is not above the primary's.
THEOREM VerifierOnlyLowers == Spec => []DownwardOnly
<1>1. DownInv => DownwardOnly
  BY DEF DownInv, DownwardOnly
<1>2. QED
  BY DownInit, DownStep, <1>1, PTL DEF Spec

\* A verdict belongs to the answer it is reported and combined with: every retry and
\* every iteration of the refinement loop forgets the one before.
THEOREM VerdictIsFresh == Spec => []VerdictIsOfThisAnswer
<1> USE DEF VerdictIsOfThisAnswer, answer, signals
<1>1. Init => VerdictIsOfThisAnswer
  BY DEF Init
<1>2. VerdictIsOfThisAnswer /\ [Next]_vars => VerdictIsOfThisAnswer'
  <2> SUFFICES ASSUME VerdictIsOfThisAnswer, [Next]_vars PROVE VerdictIsOfThisAnswer'
    OBVIOUS
  <2>1. ASSUME NEW c \in Answers, NEW p \in BOOLEAN, ExecutorAnswers(c, p)
        PROVE  VerdictIsOfThisAnswer'
    BY <2>1 DEF ExecutorAnswers
  <2>2. ASSUME NEW v \in Answers, VerifierAnswers(v) PROVE VerdictIsOfThisAnswer'
    BY <2>2 DEF VerifierAnswers
  <2>3. CASE ExecutorFails
    BY <2>3 DEF ExecutorFails
  <2>4. CASE Refine
    BY <2>4 DEF Refine
  <2>5. CASE Calibrate
    BY <2>5 DEF Calibrate
  <2>6. CASE Unverified \/ LeaveLoop \/ CalibrationRaises \/ EndChecks \/ Gate
    BY <2>6 DEF Unverified, LeaveLoop, CalibrationRaises, EndChecks, Gate
  <2>7. ASSUME NEW g \in Answers \cup {None}, Ground(g) PROVE VerdictIsOfThisAnswer'
    BY <2>7 DEF Ground
  <2>8. ASSUME NEW passed \in BOOLEAN, RunCheck(passed) PROVE VerdictIsOfThisAnswer'
    BY <2>8 DEF RunCheck
  <2>9. CASE UNCHANGED vars
    BY <2>9 DEF vars
  <2>10. QED
    BY <2>1, <2>2, <2>3, <2>4, <2>5, <2>6, <2>7, <2>8, <2>9 DEF Next, Step, Ended
<1>3. QED
  BY <1>1, <1>2, PTL DEF Spec

-----------------------------------------------------------------------------
(* The gate *)

(***************************************************************************)
(* WeakestLink speaks of a step that has passed its gate.  It needs what   *)
(* each stage leaves for the next: once a signal is folded into the trust, *)
(* the trust is not above it, until the gate.                              *)
(***************************************************************************)
UncalibratedIsZero ==
  pc \in {"ground", "check", "gate"} /\ uncalibrated /\ cfg.calibration = "escalate"
    => trust = 0
BelowGrounding ==
  pc \in {"check", "gate"} /\ trust # NaN /\ cfg.grounding = "enforce" /\ grounding # None
    => trust <= grounding
BelowConfidence ==
  pc \in {"calibrate", "ground", "check", "gate"} /\ trust # NaN
  /\ cfg.calibration = "off" /\ ~(pc = "gate" /\ failed)
    => effective # NaN /\ trust <= effective
FailedIsZero == pc = "gate" /\ failed => trust = 0
PassedIsDone == status # "none" => pc = "done"

GateInv ==
  /\ Typed
  /\ UncalibratedIsZero /\ BelowGrounding /\ BelowConfidence /\ FailedIsZero /\ PassedIsDone
  /\ WeakestLink

\* GateInv holds of a step that starts.
LEMMA GateInit == Init => GateInv
<1> SUFFICES ASSUME Init PROVE GateInv
  OBVIOUS
<1>1. Typed
  BY TypeInit
<1>2. pc = "call" /\ status = "none"
  BY DEF Init
<1>3. UncalibratedIsZero /\ BelowGrounding /\ BelowConfidence /\ FailedIsZero
  BY <1>2 DEF UncalibratedIsZero, BelowGrounding, BelowConfidence, FailedIsZero
<1>4. PassedIsDone /\ WeakestLink
  BY <1>2 DEF PassedIsDone, WeakestLink
<1>5. QED
  BY <1>1, <1>3, <1>4 DEF GateInv

\* Calibrate replaces the trust, so it is judged by the curve or is 0; what follows only
\* takes a minimum, or sets 0, which is below any grounding score.
LEMMA GateStep == GateInv /\ [Next]_vars => GateInv'
<1> SUFFICES ASSUME GateInv, [Next]_vars PROVE GateInv'
  OBVIOUS
<1> USE DEF UncalibratedIsZero, BelowGrounding, BelowConfidence, FailedIsZero, PassedIsDone,
            answer, signals
<1>t. TypeOK /\ Typed'
  BY TypeStep DEF GateInv, Typed
<1> DEFINE Links == /\ UncalibratedIsZero /\ BelowGrounding /\ BelowConfidence
                    /\ FailedIsZero /\ PassedIsDone /\ WeakestLink
<1>f. Links
  BY DEF GateInv
<1>s. SUFFICES Links'
  BY <1>t DEF GateInv
<1>1. ASSUME NEW c \in Answers, NEW p \in BOOLEAN, ExecutorAnswers(c, p) PROVE Links'
  BY <1>1, <1>f DEF ExecutorAnswers, WeakestLink
<1>2. ASSUME NEW v \in Answers, VerifierAnswers(v) PROVE Links'
  BY <1>2, <1>f DEF VerifierAnswers, WeakestLink
<1>3. CASE ExecutorFails
  BY <1>3, <1>f DEF ExecutorFails, WeakestLink
<1>4. CASE Unverified \/ Refine \/ CalibrationRaises
  BY <1>4, <1>f DEF Unverified, Refine, CalibrationRaises, WeakestLink
<1>5. CASE LeaveLoop
  BY <1>5, <1>f, <1>t DEF LeaveLoop, WeakestLink, TypeOK, Score
<1>6. CASE Calibrate
  <2>1. pc' = "ground" /\ status' = "none" /\ UNCHANGED <<cfg, effective>>
    BY <1>6, <1>f DEF Calibrate
  <2>2. UncalibratedIsZero'
    BY <1>6, <2>1, <1>t DEF Calibrate, UncalibratedTrust, TypeOK
  <2>3. BelowConfidence'
    BY <1>6, <2>1, <1>f DEF Calibrate
  <2>4. QED
    BY <2>1, <2>2, <2>3 DEF WeakestLink
<1>7. ASSUME NEW g \in Answers \cup {None}, Ground(g) PROVE Links'
  <2>1. pc = "ground" /\ pc' = "check" /\ status' = "none"
        /\ UNCHANGED <<cfg, effective, uncalibrated, failed>>
    BY <1>7, <1>f DEF Ground
  <2>2. CASE trust' = trust /\ ~(cfg.grounding = "enforce" /\ grounding' # None)
    BY <2>1, <2>2, <1>f DEF WeakestLink
  <2>3. CASE g # None /\ grounding' = Clamp(g) /\ trust' = PyMin(trust, Clamp(g))
    <3>1. Clamp(g) \in 0..Scale
      BY <2>3, ClampIsInRange DEF Score
    <3>2. BelowGrounding'
      BY <2>3, <3>1, <1>t, MinIsBelow DEF TypeOK
    <3>3. UncalibratedIsZero'
      BY <2>1, <2>3, <3>1, <1>f DEF PyMin, Less
    <3>4. BelowConfidence'
      BY <2>1, <2>3, <3>1, <1>f, <1>t DEF PyMin, Less, TypeOK, Score
    <3>5. QED
      BY <2>1, <3>2, <3>3, <3>4 DEF WeakestLink
  <2>4. QED
    BY <1>7, <2>2, <2>3 DEF Ground
<1>8. ASSUME NEW passed \in BOOLEAN, RunCheck(passed) PROVE Links'
  BY <1>8, <1>f DEF RunCheck, WeakestLink
<1>9. CASE EndChecks
  <2>1. pc = "check" /\ pc' = "gate" /\ status' = "none"
        /\ UNCHANGED <<cfg, effective, grounding, failed, uncalibrated>>
    BY <1>9, <1>f DEF EndChecks
  <2>2. CASE failed /\ trust' = 0
    BY <2>1, <2>2, <1>f, <1>t DEF WeakestLink, TypeOK
  <2>3. CASE ~failed /\ trust' = trust
    BY <2>1, <2>3, <1>f DEF WeakestLink
  <2>4. QED
    BY <1>9, <2>2, <2>3 DEF EndChecks
<1>10. CASE Gate
  <2>1. pc = "gate" /\ pc' = "done"
        /\ UNCHANGED <<cfg, effective, trust, grounding, failed, uncalibrated>>
    BY <1>10 DEF Gate
  <2>2. status' \in {"completed", "stopped"} /\ cfg.onLow # "proceed" => ~Low
    BY <1>10, <1>t DEF Gate, TypeOK, Config
  <2>3. cfg.threshold \in Int /\ trust \in Score /\ effective \in Score
        /\ grounding \in 0..Scale \cup {None}
    BY <1>t DEF TypeOK, Config
  <2>4. WeakestLink'
    BY <2>1, <2>2, <2>3, <1>f DEF WeakestLink, Low, Less, Score
  <2>5. QED
    BY <2>1, <2>4
<1>11. CASE UNCHANGED vars
  BY <1>11, <1>f DEF vars, WeakestLink
<1>12. QED
  BY <1>1, <1>2, <1>3, <1>4, <1>5, <1>6, <1>7, <1>8, <1>9, <1>10, <1>11
  DEF Next, Step, Ended

\* A step that goes on without on_low_confidence: proceed has no enforced signal below its
\* threshold, for every curve and every number an agent, a verifier or a judge reports.
THEOREM WeakestLinkDecides == Spec => []WeakestLink
<1>1. GateInv => WeakestLink
  BY DEF GateInv
<1>2. QED
  BY GateInit, GateStep, <1>1, PTL DEF Spec
=============================================================================
