CONSTANTS
    MinSpeech = 1
    Silence = 2
    MaxSegment = 6
    AsrCapacity = 1
    MaxFrames = 9
    Gaps <- FrameGaps
SPECIFICATION Spec
INVARIANTS
    TypeOK
    SegmentTracksVad
    SegmentDuration
    NoFrameLostOrRepeated
    SegmentsAccounted
PROPERTY EndsAfterPause
CHECK_DEADLOCK FALSE
