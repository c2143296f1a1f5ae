SPECIFICATION Spec
CONSTANTS
    HoursPerDay = 3
    MaxVariables = 6
    Setups <- MCAcquiringSetups
    GeocodeReplies <- MCGeocodeReplies
    GeographyReplies <- MCGeographyReplies
    AcsReplies <- MCAcsReplies
    IsochroneReplies <- MCIsochroneReplies
    Networks <- MCNetworks
    PartitionSets <- MCPartitionSets
    Feeds <- MCFeeds
    BenchmarkSets <- MCBenchmarkSets
    NarrativeReplies <- MCNarrativeReplies
    MaxChanges = 1
CHECK_DEADLOCK FALSE
INVARIANTS EveryDepartureCounts
