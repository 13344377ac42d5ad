\* The five operations on one Event, in any order.
SPECIFICATION Spec
INVARIANT ConfiguredAsAsked
