SPECIFICATION Spec
CONSTANTS
    Tag = {tag}
    BadTag = bad
    MaxGB = 2
    GB = 2
    Wrap = 4
    Count = {1}
    Empty = empty
    None = none
    Leave = leave
INVARIANTS TypeOK SavedIsFiled SilenceMeansServed
PROPERTIES UntouchedKept
