\* Every xor_val of a 2-byte window, as arith 16 and interest 16 pass it.
CONSTANTS
  UWidth = 16
  MaxMapLen = 1
  NumsToModify = {}
  FlipBlens = {2}
  PredBlens = {}
  OldWords = {}
  ArithMax = 35
  Interesting8 = {128, 255, 0, 1, 16, 32, 64, 100, 127}
  Interesting16 = {65408, 65535, 0, 1, 16, 32, 64, 100, 127,
                   32768, 65407, 128, 255, 256, 512, 1000, 1024, 4096, 32767}
  Interesting32 = {}
INIT Init
NEXT Next
INVARIANT BitflipSound
