\* Announcements on a kiosk: a ONCE and an EVERY_LOGIN one, one overlay process at a time.
SPECIFICATION LiveSpec
CONSTANTS
    once = once
    login = login
    s1 = s1
    None = None
    Slots = {s1}
    Feed <- MCFeed
    Policy <- MCPolicy
    maxDisplayCount <- MCmaxDisplayCount
    MAX_DISPLAY_ATTEMPTS = 3
PROPERTIES RecordedWasSeen NoShowingTooMany CatchesUp
