SPECIFICATION Spec
CONSTANTS
    app = app
    main = main
    dev = dev
    release = release
    asset = asset
    issue = issue
    LocalItem = LocalItem
    Repo = {app}
    Part = {main, dev, release, asset, issue}
    KindOf <- MCKindOf
    Of <- MCOf
    Odd = {dev}
    Deleter = {d1, d2}
    Outset <- MCOutset
    MaxChanges = 1
SYMMETRY AlikeDeleters
INVARIANTS TypeOK  ReceiptIsTrue
CHECK_DEADLOCK FALSE
