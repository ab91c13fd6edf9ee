SPECIFICATION Spec
CONSTANTS
  Code <- DarwinCode
  Alpns <- TwoAlpns
  Statuses <- OneOfEachRange
INVARIANTS
  BuffersOutliveUse
  SecretsWiped
