\* Pipes of two bytes and documents of up to three each way, so that both pipes fill, and a cap
\* within the answer.
SPECIFICATION FairExchange
CONSTANTS
  Capacity = 2
  Capture = 1
  MaxRequest = 3
  MaxAnswer = 3
  Caps = {0, 2}
  Manners = {"willing", "stuck"}
INVARIANTS
  ExchangeIsSound
  AnswerIsWhole
PROPERTIES
  CallReturns
