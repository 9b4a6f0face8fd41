\* Replies, pipelines and commands of every kind, arriving byte by byte and cut anywhere.
SPECIFICATION Spec
CONSTANTS
  Size = 10
  Streams <- MCStreams
INVARIANTS InSync NeverStarved FailuresAreReal
