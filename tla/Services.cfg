CONSTANTS
    photo = photo
    icon = icon
    Content = {photo, icon}
    NoContent = none
    ThumbOf <- MCThumbOf
    Ranges <- MCRanges
    Size = 2
    Word = 8
    Upload = {one, two}
    MaxUploads = 3
    MaxRestarts = 1
    Key = {ann, ben}
    Burst = 2
    Refill = 3
    MaxLogins = 2
    LoginWindow = 3
    Debounce = 2
    MaxTime = 6
    Reader = {ann, ben}
    Asker = {one, two}
    MaxPosts = 2
    MaxMarks = 2
    MaxSecond = 2
    MaxIds = 4
    MaxClock = 3
    PageSize = 2
SPECIFICATION MCSpec
SYMMETRY Interchangeable
INVARIANTS TypeOK ListedIsWhole ServedIsWhole SlidingLimits UploadLimit NewsIsUnread ToldIsTrue PagesAreComplete
CHECK_DEADLOCK FALSE
