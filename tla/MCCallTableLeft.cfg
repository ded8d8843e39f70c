SPECIFICATION Spec
CONSTANTS
  Caller = {c1}
  Copy = {b1}
  Text <- MCText
  Empty <- MCEmpty
INVARIANTS NoSlaveBetweenCalls
