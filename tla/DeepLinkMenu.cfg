\* A bot with a menu that does not list the first episode.
SPECIFICATION Spec
CONSTANTS
    f1 = f1
    f2 = f2
    l1 = l1
    l2 = l2
    l3 = l3
    Fetchers = {f1, f2}
    Announcement <- MCAnnouncement
    LinksOf <- MCLinksOf
    Season <- MCSeason
    Label <- MCLabel
    Delivers <- MCDelivers
    Behind <- MCBehind
    Batch = Batch
    Menus <- SecondPage
    Channels = {c1}
    MaxHops = 2
    MaxJoins = 1
    MaxFiles = 2
    MaxMessages = 3
    MaxLate = 2
CHECK_DEADLOCK FALSE
INVARIANTS
    RightFileInTime
