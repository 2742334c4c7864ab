SPECIFICATION Spec
CONSTANTS
    MaxRangeSpan <- SpanLimit
    Name = {"one", "two", "file", "site"}
    LinkOf <- ShowLinks
    Telegram = {"one", "two", "file"}
    Groups <- ShowGroups
    Live = {"two", "site"}
    View = {"new", "whole"}
    SubOf <- ShowViews
    MaxTimeouts = 1
INVARIANTS HandedOnSettled
PROPERTIES NoOfferLost SearchEnds PendingSwept
CHECK_DEADLOCK FALSE
