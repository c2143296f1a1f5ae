SPECIFICATION Spec
CONSTANTS
    HoursPerDay = 3
    MaxVariables = 6
    Setups <- MCSetups
    GeocodeReplies <- MCGeocodeReplies
    GeographyReplies <- MCGeographyReplies
    AcsReplies <- MCAcsReplies
    IsochroneReplies <- MCIsochroneReplies
    Networks <- MCNetworks
    PartitionSets <- MCPartitionSets
    Feeds <- MCFeeds
    BenchmarkSets <- MCBenchmarkSets
    NarrativeReplies <- MCNarrativeReplies
    MaxChanges = 1
CHECK_DEADLOCK FALSE
INVARIANTS
    PublishedIsWhatWasMeasured ScoresNeedAuthority RaisesOnlyForCause ReportSaysWhatWasPublished
    ReportIsAlwaysWritten ComparedLikeWithLike NoDepartureIsLost BetterIsNeverWorse
