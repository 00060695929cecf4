CONSTANTS
    ann = ann
    ben = ben
    cat = cat
    Request = {q1, q2}
    User = {ann, ben, cat}
    Key = {}
    Text = {hi}
    Slug <- MCSlugs
    MaxMessages = 1
SPECIFICATION MCSpec
INVARIANT HandedRoomsAreUsable
