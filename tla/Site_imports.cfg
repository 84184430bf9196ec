SPECIFICATION SSpec
CONSTANTS
    n1 = n1
    n2 = n2
    Lists <- MCLists
    MaxId = 3
INVARIANTS
    WhatIsRecordedWasListed
    ImportIsComplete
    SitemapIsFollowable
    OwnListIsNoNews
