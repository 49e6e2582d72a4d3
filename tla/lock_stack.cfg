CONSTANTS
    Threads = {t1, t2}
    Items = {x1, x2, x3}
    Size = 2
    IndexRange = 5
    Nothing = Nothing
    NoThread = NoThread
SPECIFICATION Spec
INVARIANTS TypeOK AccessInside OneOwner
PROPERTY ImplementsStack
