SPECIFICATION Spec
CONSTANTS
  Main = main
  Tasks = {main, t1, t2}
  Sources = {a, b}
  Direct = {a}
  None = None
INVARIANT ReadyBeforeDelivery
INVARIANT FailureIsContained
INVARIANT OneVerdict
INVARIANT NoRaiseLost
PROPERTY RaisesAreAnswered
PROPERTY CallsReturn
