--------------------------- MODULE MCRequestInputs ---------------------------
(* The inputs of MCRequests: what is uploaded, configured and asked for. *)
EXTENDS Naturals, Sequences

CONSTANT None

-----------------------------------------------------------------------------
(* Uploads (Intake).                                                       *)

\* A file of each kind, plain, active, with metadata, damaged, too large or
\* protected; looks differs from kind where the media type library is misled.
F(kind, looks, traits, secret, size) ==
    [kind |-> kind, looks |-> looks, traits |-> traits, secret |-> secret, size |-> size]
Plain(kind, size) == F(kind, kind, {}, None, size)
Marked(kind, trait) == F(kind, kind, {trait}, None, 2)

Bodies ==
    {Plain("txt", 2), Plain("html", 2), Plain("png", 3), Plain("pdf", 4), Plain("zip", 3),
     Marked("html", "active"), Marked("svg", "active"), Marked("pdf", "active"),
     Marked("docx", "active"), Marked("odt", "active"), Marked("png", "meta"),
     Marked("mp4", "meta"), Marked("mp4", "marked"), Marked("pdf", "broken"),
     F("png", "png", {"meta", "broken"}, None, 2), F("png", "png", {"meta", "hidden"}, None, 2),
     F("png", "png", {"meta", "large"}, None, 2), F("zip", "zip", {"bomb"}, None, 1),
     F("octet", "octet", {"infected"}, None, 4),
     F("md", "txt", {"active"}, None, 2), F("md", "html", {"active"}, None, 2),
     F("script", "txt", {}, None, 1), F("svg", "txt", {}, None, 2),
     F("docx", "zip", {}, None, 2), F("odt", "zip", {}, None, 2),
     F("docx", "ole", {}, "pw", 2), F("doc", "ole", {}, None, 2), F("pdf", "pdf", {}, "pw", 2)}

Types == {None, "txt", "md", "html", "svg", "png", "mp4", "pdf", "docx", "odt", "doc", "zip", "octet"}
Exts == {None, "txt", "md", "html", "svg", "png", "mp4", "pdf", "docx", "odt", "doc", "zip", "sh"}

AllUploads ==
    {[file |-> f, declared |-> t, ext |-> e, length |-> l, password |-> w] :
        f \in {g \in Bodies : g.secret = None}, t \in Types, e \in Exts, l \in BOOLEAN, w \in {None}}
    \cup
    {[file |-> f, declared |-> t, ext |-> e, length |-> TRUE, password |-> w] :
        f \in {g \in Bodies : g.secret # None}, t \in Types, e \in Exts, w \in {None, "pw", "other"}}

\* The default configuration, with limits in units of these sizes, and four
\* that differ from it in what the checks depend on.
Default ==
    [enabled |-> TRUE, scripts |-> FALSE, denied |-> {}, allowed |-> {},
     byType |-> <<>>, byExtension |-> <<>>,
     classMode |-> [svg |-> "reject_active_or_external_content",
                    markup |-> "reject_active_or_external_content",
                    image |-> "sanitize_metadata", video |-> "sanitize_metadata",
                    pdf |-> "reject_active_content", office |-> "reject_active_content",
                    odf |-> "reject_active_content", legacy |-> "reject",
                    other |-> "secure_default"],
     limits |-> TRUE, structure |-> TRUE, guard |-> TRUE, clamav |-> TRUE,
     maxUpload |-> 0, maxFile |-> 3, maxMemory |-> 2, failOnError |-> FALSE]
Off == [Default EXCEPT !.enabled = FALSE, !.limits = FALSE, !.guard = FALSE, !.clamav = FALSE]
Strict == [Default EXCEPT !.scripts = TRUE, !.structure = FALSE, !.maxUpload = 2,
                          !.failOnError = TRUE, !.denied = {"zip"}]
Lenient ==
    [Default EXCEPT !.limits = FALSE, !.allowed = Types \ {None, "octet"},
                    !.byType = [t \in {"pdf"} |-> "accept_as_is"],
                    !.byExtension = [e \in {"doc", "svg", "png"} |->
                        IF e = "png" THEN "reject_on_sensitive_metadata" ELSE "accept_as_is"]]

Searching ==
    [Default EXCEPT !.limits = FALSE, !.structure = FALSE, !.clamav = FALSE,
                    !.classMode.image = "reject_on_sensitive_metadata",
                    !.byExtension = [e \in {"mp4"} |-> "reject_on_sensitive_metadata"]]

AllPolicies == {Default, Off, Strict, Lenient, Searching}

-----------------------------------------------------------------------------
(* Archives (ArchiveGuard).                                                *)

UpTo2(S) == {<<>>} \cup {<<a>> : a \in S} \cup {<<a, b>> : a \in S, b \in S}

Leaf(kind, name, size, expands) ==
    [kind |-> kind, name |-> name, size |-> size, expands |-> expands, items |-> <<>>]
Leaves ==
    {Leaf("file", "a", 1, 0), Leaf("file", "b", 2, 0), Leaf("dir", "c", 0, 0),
     Leaf("link", "d", 0, 0), Leaf("gz", "e", 1, 2)}

Archive(kind, name, items) ==
    [kind |-> kind, name |-> name, size |-> 1, expands |-> 0, items |-> items]
Inner ==
    {Archive(kind, "x", items) : kind \in {"zip", "7z"}, items \in UpTo2(Leaves)}
    \cup {Archive(kind, "x", <<leaf>>) : kind \in {"tar", "tgz"}, leaf \in Leaves}
AllArchives ==
    {Archive(kind, "top", items) : kind \in {"zip", "7z", "tar"}, items \in UpTo2(Leaves \cup Inner)}
    \cup {Archive("zip", "top", <<Archive("tar", "y", <<i>>)>>) : i \in Inner}

-----------------------------------------------------------------------------
(* Pictures and videos (MediaSanitizer).                                   *)

P(name, kids) == [name |-> name, size |-> 1 + Len(kids), kids |-> kids, valid |-> TRUE, padded |-> FALSE]
Part(name) == P(name, <<>>)
Bad(name) == [Part(name) EXCEPT !.valid = FALSE]
Padded(name) == [Part(name) EXCEPT !.padded = TRUE]

UpTo3(S) == UpTo2(S) \cup {<<a, b, c>> : a \in S, b \in S, c \in S}

Pictures ==
    {[format |-> "jpeg", parts |-> s] :
        s \in UpTo3({Part("app0"), Part("app1"), Padded("app1"), Bad("app1"), Part("scan"),
                     Part("end"), Part("raw")})}
    \cup {[format |-> "png", parts |-> <<Part("IHDR")>> \o s \o <<Part("IEND")>>] :
        s \in UpTo3({Part("IDAT"), Part("eXIf"), Part("tEXt"), Bad("tIME")})}
    \cup {[format |-> "png", parts |-> s] : s \in UpTo2({Part("IDAT"), Part("IHDR"), Part("IEND")})}
    \cup {[format |-> "webp", parts |-> s] :
        s \in UpTo3({Part("VP8"), Part("EXIF"), Part("XMP"), Bad("VP8")})}
    \cup {[format |-> "other", parts |-> s] : s \in UpTo2({Part("data"), Part("exif")})}

Stbl == {P("stbl", s) : s \in {<<>>, <<Part("stco")>>, <<Part("stco"), Part("meta")>>}}
Trak == {P("trak", s) : s \in UpTo2(Stbl \cup {Part("udta")})}
Moov == {P("moov", <<Part("mvhd")>> \o s) : s \in UpTo2(Trak \cup {Part("uuid-xmp"), Bad("mvhd")})}
Videos ==
    (UNION {{[format |-> "bmff", parts |-> <<Part("ftyp"), m, Part("mdat")>>],
             [format |-> "bmff", parts |-> <<Part("mdat"), m>>]} : m \in Moov})
    \cup {[format |-> "bmff", parts |-> s] : s \in UpTo2({Part("ftyp"), Part("meta"), Part("mdat")})}

AllMedia == Pictures \cup Videos

-----------------------------------------------------------------------------
(* Edits and requests (SearchOverlay).                                     *)

\* Files in one folder, a subfolder or deleted.
St(deleted, path, named) == [deleted |-> deleted, path |-> path, named |-> named]
AllStates == {St(FALSE, <<"a">>, TRUE), St(FALSE, <<"a", "b">>, FALSE), St(TRUE, <<"a">>, TRUE)}

\* A listing of one folder, one of it and its subfolders, and a text search.
Query(text, want, exact, at) ==
    [text |-> text, want |-> want, exact |-> exact, offset |-> 0, at |-> at]
AllQueries ==
    {Query(FALSE, <<"a">>, TRUE, <<>>), Query(FALSE, <<"a">>, FALSE, <<"a">>),
     Query(TRUE, <<>>, FALSE, <<>>)}
===============================================================================
