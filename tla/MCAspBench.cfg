SPECIFICATION BenchSpec
CONSTANTS
  NoSample = nosample
  NoPut = noput
  Size <- SmallSizes
  Words <- UnitWords
  Samples <- TwoChannels
  MaxSamples = 5
PROPERTIES RatesExact DpLimits FirConvolves PeakDetected MeanAfterRefill
