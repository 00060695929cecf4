CONSTANTS
    ann = ann
    ben = ben
    cat = cat
    Request = {q1, q2}
    User = {ann, ben, cat}
    Key = {k}
    Text = {hi, hey}
    Slug <- MCSlugs
    MaxMessages = 2
SPECIFICATION MCSpec
SYMMETRY Interchangeable
VIEW WithoutHistory
INVARIANTS TypeOK OncePerKey RepliesAreAnchored EventsTellTheTable PrivateDms
