------------------------------ MODULE MCSearch ------------------------------
(* The search of one subscription: a show of three episodes and the links that   *)
(* are found for it.                                                             *)
EXTENDS SearchFlow

SpanLimit == 3

Show(keys) ==
    [type |-> "tv", seasons |-> 1 :> 3, total |-> 3, keys |-> keys, count |-> Cardinality(keys),
     inLibrary |-> keys # {}, snapshotFailed |-> FALSE, status |-> "active", year |-> 0, tmdb |-> 0,
     keywords |-> {}, exclude |-> {}, groups |-> {}, accept |-> "all", preferred |-> {}]

ShowViews == [new |-> Show({}), whole |-> Show({1} \X (1 .. 3))]

Episodes(first, last) ==
    [says |-> [NoText EXCEPT !.token = {<<1, first, last>>}], lines |-> {[hit |-> "term", years |-> {}]},
     ids |-> {}, words |-> {}]

Link(key, kind, source, title, priority) ==
    [key |-> key, url |-> key, titleKey |-> {key}, kind |-> kind, source |-> source, priority |-> priority,
     title |-> title, context |-> NoPart]

\* An indexed share, one that the realtime monitor brings too, a file, and a share
\* of the user's own site with the same episodes.
ShowLinks == [one  |-> Link("one", "115", "index", Episodes(1, 1), 0),
              two  |-> Link("two", "115", "telegram", Episodes(1, 2), 0),
              file |-> Link("file", "ed2k", "telegram", Episodes(3, 3), 0),
              site |-> Link("site", "115", "site", Episodes(1, 2), 2)]
ShowGroups == <<{"site"}>>
=============================================================================
