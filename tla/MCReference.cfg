\* Every mask of up to 5 bytes and the havoc block sizes; every 1-byte
\* xor_val; every 1-byte old/new pair and, for 2-byte windows, old values
\* at the byte and carry edges with every new value.
CONSTANTS
  UWidth = 16
  MaxMapLen = 5
  NumsToModify = {8, 16, 24, 32}
  FlipBlens = {1}
  PredBlens = {1, 2}
  OldWords = {224, 65280}
  ArithMax = 35
  Interesting8 = {128, 255, 0, 1, 16, 32, 64, 100, 127}
  Interesting16 = {65408, 65535, 0, 1, 16, 32, 64, 100, 127,
                   32768, 65407, 128, 255, 256, 512, 1000, 1024, 4096, 32767}
  Interesting32 = {}
INIT Init
NEXT Next
INVARIANTS
  ChooserMatchesReference
  BitflipMatchesReference
  ArithMatchesReference
  InterestMatchesReference
