--------------------------- MODULE MCMediaSanitizer ---------------------------
(* Instances of MediaSanitizer for TLC: videos whose index (moov) comes before *)
(* or after the media data it points into.                                     *)
EXTENDS MediaSanitizer

Box(name, kids) ==
    [name |-> name, size |-> Header + SizeOf(kids), kids |-> kids, valid |-> TRUE, padded |-> FALSE]
Leaf(name) == Box(name, <<>>)

OneOf(S) == {<<x>> : x \in S}
TwoOf(S) == {<<x, y>> : x \in S, y \in S}

Tables == {Box("stbl", <<Leaf("stco")>>), Box("stbl", <<Leaf("stco"), Leaf("meta")>>)}
Tracks == {Box("trak", kids) : kids \in OneOf(Tables) \cup TwoOf(Tables \cup {Leaf("udta")})}
Indexes == {Box("moov", kids) : kids \in OneOf(Tracks) \cup TwoOf(Tracks \cup {Leaf("udta")})}

SomeVideos ==
    UNION {{[format |-> "bmff", parts |-> <<Leaf("ftyp"), moov, Leaf("mdat")>>],
            [format |-> "bmff", parts |-> <<Leaf("ftyp"), Leaf("mdat"), moov>>]} : moov \in Indexes}
===============================================================================
