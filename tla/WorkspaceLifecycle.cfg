SPECIFICATION Spec
CONSTANTS
    Request = {r1, r2, r3}
    None = None
    task = task
    d1 = d1
    d2 = d2
    s1 = s1
    s2 = s2
    Id <- MCId
    Scheduled <- MCScheduled
    Slug <- MCSlug
    TaskSlug <- MCTaskSlug
SYMMETRY LifecycleSymmetry
INVARIANT TypeOK
INVARIANT RowHasItsClone
INVARIANT CloneHasItsRow
PROPERTY DeletedByOperatorOnly
