\* Two language models, two voices, replies of up to three sentences, a full channel.
CONSTANTS
    Models = 2
    Voices = 2
    MaxSentences = 3
    Capacity = 1
    SubtitlesRequested = FALSE
SPECIFICATION FairSpec
INVARIANTS
    OneAuthor
    NoDuplicateVoice
    CompleteReplyDelivered
PROPERTIES
    ImplementsDialogueTurn
    CancellationEndsTurn
    SentencesReachThePlayer
