\* Scores in halves; every configuration of MCConfigs, every calibration curve.
SPECIFICATION Spec
CONSTANTS
  Scale = 2
  NaN = NaN
  None = None
  Answers <- MCAnswers
  Configs <- MCConfigs
INVARIANT WeakestLink
INVARIANT DownwardOnly
INVARIANT VerdictIsOfThisAnswer
PROPERTY StepEnds
