SPECIFICATION Spec
CONSTANTS
  a = a
  b = b
  c = c
  Keys = {a, b, c}
  Values = {1, 2}
  NoValue = NoValue
  HashBits = 4
  Hash <- MCHash
  Strategies = {"ADD", "SET", "UPDATE", "APPEND"}
  MaxSize = 4
PROPERTIES
  KVSpec
