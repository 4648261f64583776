-------------------------------- MODULE Intake --------------------------------
(***************************************************************************)
(* What an upload body passes before it is stored (internal/server         *)
(* uploadFile, sanitizer.go, document.go, docpreview/detect.go): the       *)
(* prefix check, the sanitization of what is read whole, the store write,  *)
(* the archive guard, the full scan of documents, the password check of    *)
(* documents, and the copy to the final key.  Every stage picks what it    *)
(* does from the declared type and the file name; only the prefix check    *)
(* and the parsers look at the bytes.                                      *)
(*                                                                         *)
(* A type is named like its extension.  A file is its kind (what a parser  *)
(* finds), its looks (what its first bytes are taken for by the media type *)
(* library), the password that opens it, and the traits the checks tell    *)
(* apart: "active" content, "meta" data ("hidden" where a JPEG is not      *)
(* searched for it, behind fill bytes; "marked" media data that holds the  *)
(* name of a metadata box), "broken" structure, "large" beyond a limit of  *)
(* its format, "bomb" for the archive guard (see ArchiveGuard), "infected" *)
(* for ClamAV (see UploadFanout).                                          *)
(***************************************************************************)
EXTENDS Integers, FiniteSetsExt

CONSTANTS
    Uploads,    \* bound: [file, declared, ext, length, password]; length says
                \* whether Content-Length was sent
    Policies,   \* bound: the configurations
    MaxFaults,  \* bound: failures of the store
    None

PoliciesAssumption ==
    /\ \A p \in Policies : p.maxMemory > 0 /\ {p.maxUpload, p.maxFile} \subseteq Int
    /\ \A u \in Uploads : u.file.size \in Nat
    /\ MaxFaults \in Nat /\ None \notin {"pdf", "docx"}

VARIABLES
    upload, policy, stage,
    type,       \* contentType of uploadFile
    body,       \* what is left to store, [traits, size]
    staged,     \* the object under the temporary key
    stored,     \* the object under the final key
    protected,  \* UploadItem.Protected
    faults

vars == <<upload, policy, stage, type, body, staged, stored, protected, faults>>

-----------------------------------------------------------------------------
(* Types.                                                                  *)

TextDerived == {"txt", "md", "html", "svg", "xml"}

Equivalent(a, b) == a # None /\ b # None /\ (a = b \/ {a, b} = {"doc", "ole"})

\* declaredCompatibleWithDetected: pairs that differ and still agree.
CompatibleTypes(declared, detected, ext) ==
    \/ declared \in TextDerived /\ detected = "txt"
    \/ declared = "md" /\ detected = "html"
    \/ declared = "octet" /\ detected = "txt"
    \/ declared = "docx" /\ detected = "ole"
    \/ declared # None /\ ext \in {"docx", "odt"} /\ detected = "zip"

\* The extensions that mimeFileTypes has a type for; any content passes under
\* another one, be it .mp4 or .doc.
KnownExtensions == {"txt", "md", "html", "svg", "xml", "png", "pdf", "docx", "odt", "zip"}

ExtensionAgrees(ext, declared, detected) ==
    \/ ext \notin KnownExtensions
    \/ Equivalent(detected, ext)
    \/ /\ Equivalent(declared, ext)
       /\ \/ detected = "octet" \/ Equivalent(declared, detected)
          \/ CompatibleTypes(declared, detected, ext)

\* detectScript: the first line or the name.
Scripted(file, ext) == file.kind = "script" \/ ext = "sh"

\* A script the policy allows need not agree with its declared type.
Believable_NoExtension(p, file, declared, ext) ==
    /\ Scripted(file, ext) => p.scripts
    /\ \/ declared = None \/ file.looks = "octet"
       \/ Equivalent(declared, file.looks) \/ CompatibleTypes(declared, file.looks, ext)
Believable(p, file, declared, ext) ==
    /\ Scripted(file, ext) => p.scripts
    /\ \/ declared = None \/ file.looks = "octet" \/ Scripted(file, ext)
       \/ Equivalent(declared, file.looks) \/ CompatibleTypes(declared, file.looks, ext)
    /\ ExtensionAgrees(ext, declared, file.looks)

Listed(p, file, declared) ==
    /\ {file.looks, declared} \cap p.denied = {}
    /\ p.allowed # {} => {file.looks, declared} \cap p.allowed # {}

-----------------------------------------------------------------------------
(* Classes and modes.                                                      *)

\* isSVG, isMarkup and so on: the type or the extension is enough.
Members == [svg |-> {"svg"}, markup |-> {"md", "html", "xml", "svg"},
            image |-> {"png", "svg"}, video |-> {"mp4"}, pdf |-> {"pdf"},
            office |-> {"docx"}, odf |-> {"odt"}, legacy |-> {"doc"}]

\* By extension alone an .svg file is no XML markup (isXML).
IsClass(class, t, ext) ==
    \/ t \in Members[class]
    \/ ext \in Members[class] /\ ~(class = "markup" /\ ext = "svg")

\* fileSanitizationMode: the type's own mode, the extension's, the class's.
ModeOf(p, t, ext) ==
    LET classes == <<"svg", "markup", "image", "video", "pdf", "office", "odf", "legacy">>
        hits == {i \in DOMAIN classes : IsClass(classes[i], t, ext)}
    IN IF t \in DOMAIN p.byType THEN p.byType[t]
       ELSE IF ext \in DOMAIN p.byExtension THEN p.byExtension[ext]
       ELSE IF hits = {} THEN p.classMode["other"]
       ELSE p.classMode[classes[Min(hits)]]

\* The modes the switches below act on for texts and for media.
TextModes == {"secure_default", "sanitize_when_supported", "reject_active_or_external_content"}
MediaModes == {"secure_default", "sanitize_when_supported", "sanitize_metadata",
               "reject_on_sensitive_metadata"}

\* Whether the modes set for these names and classes act; per_file_type takes
\* any mode for any name.  Only known extensions say what a body is.
Acting(p, names, classes, modes) ==
    LET own == modes \cup {"accept_as_is"} IN
    /\ \A c \in classes : p.classMode[c] \in own
    /\ \A n \in names \cap DOMAIN p.byType : p.byType[n] \in own
    /\ \A n \in names \cap KnownExtensions \cap DOMAIN p.byExtension : p.byExtension[n] \in own
ModesFit(p) ==
    /\ Acting(p, Members["markup"], {"svg", "markup"}, TextModes)
    /\ Acting(p, {"png", "mp4"}, {"image", "video"}, MediaModes)

\* The mode is the one per_file_type sets for an extension that says nothing of
\* the body.
ForeignMode(p, t, ext) ==
    t \notin DOMAIN p.byType /\ ext \in DOMAIN p.byExtension \ KnownExtensions

Skipped(p, t, ext) == ~p.enabled \/ ModeOf(p, t, ext) = "accept_as_is"

ReadWhole(t, ext) ==
    \E class \in {"legacy", "svg", "markup", "image", "video"} : IsClass(class, t, ext)

\* fileRequiresPostUploadFullScan.
FullScanned_NameOnly(p, t, ext) ==
    /\ ~Skipped(p, t, ext)
    /\ \E class \in {"pdf", "office", "odf"} : ext \in Members[class]
FullScanned(p, t, ext) ==
    /\ ~Skipped(p, t, ext)
    /\ \E class \in {"pdf", "office", "odf"} : IsClass(class, t, ext)

\* A password-protected Office package is recognised by its first bytes.
Encrypted(file) == file.looks = "ole"

GuardedArchive(p, t, ext, file) ==
    /\ p.guard /\ ~Encrypted(file)
    /\ {t, ext, file.looks} \cap {"zip", "docx", "odt"} # {}

\* docpreview.Candidate.
Candidate(t, ext, file) ==
    IF t \in {"pdf", "docx"} THEN t
    ELSE IF t \notin TextDerived \cup {"octet", None} THEN None
    ELSE IF ext \in {"md", "html"} THEN ext
    ELSE IF t \in {"md", "html"} THEN t
    ELSE IF ext \in {None, "txt", "xml"} /\ file.looks = "html" THEN "html"
    ELSE None

NeedsStaging(p, t, ext, file) ==
    GuardedArchive(p, t, ext, file) \/ p.clamav \/ FullScanned(p, t, ext)
        \/ Candidate(t, ext, file) # None

-----------------------------------------------------------------------------
(* Sizes.  A limit of 0 is no limit.                                       *)

Tightened(a, b) == IF b > 0 /\ (a <= 0 \/ b < a) THEN b ELSE a

\* EffectiveMaxUploadBytes; a policy without any limit stands for 1 GiB.
EffectiveMax(p) ==
    IF p.limits THEN Tightened(p.maxUpload, p.maxFile) ELSE p.maxUpload
Oversized(p, size) == EffectiveMax(p) > 0 /\ size > EffectiveMax(p)

\* The reader that sanitization puts over the body when it is enabled.
Cut_Exact(p, t, ext, size) ==
    IF ~Skipped(p, t, ext) /\ p.limits /\ p.maxFile > 0
    THEN Min({size, p.maxFile}) ELSE size
Cut(p, t, ext, size) ==
    IF ~Skipped(p, t, ext) /\ p.limits /\ p.maxFile > 0
    THEN Min({size, p.maxFile + 1}) ELSE size

-----------------------------------------------------------------------------
(* Inspections of a whole body.                                            *)

Free(file, traits) == traits \cap file.traits = {}

\* enforceResourceLimits: the pixels of a bitmap, which SVG is not.
Fits(p, t, ext, file) ==
    p.limits /\ IsClass("image", t, ext) /\ ~IsClass("svg", t, ext) =>
        file.kind = "png" /\ Free(file, {"broken", "large"})

\* validateStructure
WellFormed(p, t, ext, file) ==
    p.structure =>
        /\ \A k \in {"png", "pdf", "odt"} :
              k \in {t, ext} => file.kind = k /\ Free(file, {"broken"})
        /\ "docx" \in {t, ext} /\ ~Encrypted(file) =>
              file.kind = "docx" /\ Free(file, {"broken"})

Inspecting == {"secure_default", "reject_active_or_external_content"}
Rejecting == {"secure_default", "reject_active_content"}
Stripping == {"secure_default", "sanitize_metadata"}

SVGPasses(file) == file.kind = "svg" /\ Free(file, {"active", "broken", "large"})

\* Only XML is parsed; the other kinds are searched.
MarkupPasses(t, ext, file) ==
    Free(file, {"active", "large"}) /\ ("xml" \in {t, ext} => Free(file, {"broken"}))

PDFPasses(file) == Free(file, {"active", "large"}) /\ file.secret = None

\* A package must have the main part its type asks for.
OfficePasses(file) == file.kind = "docx" /\ Free(file, {"active", "large", "broken"})
OpenDocumentPasses(file) == file.kind = "odt" /\ Free(file, {"active", "large", "broken"})

\* Metadata that imageHasSensitiveMetadata finds: not in a PNG that is invalid,
\* and not behind the fill bytes of a JPEG.
Found(file) == file.kind = "png" /\ "meta" \in file.traits /\ Free(file, {"broken", "hidden"})

\* MediaSanitizer is the detail of the stripping modes.
ImagePasses(mode, file) ==
    /\ mode \in Stripping => file.kind = "png" /\ Free(file, {"broken"})
    /\ mode = "reject_on_sensitive_metadata" => ~Found(file)

\* mediaHasMetadata searches all the bytes of a video, its media data too.
VideoPasses(mode, file) ==
    /\ mode \in Stripping => file.kind = "mp4" /\ Free(file, {"broken"})
    /\ mode = "reject_on_sensitive_metadata" => Free(file, {"meta", "marked"})

\* The switch of applyFileSanitization, in its order; a mode that belongs to
\* another class falls through and the body passes as it is.
SanitizerPasses(mode, t, ext, file) ==
    IF IsClass("legacy", t, ext) \/ mode = "sanitize_when_supported" THEN FALSE
    ELSE IF IsClass("svg", t, ext) THEN mode \in Inspecting => SVGPasses(file)
    ELSE IF IsClass("markup", t, ext) THEN mode \in Inspecting => MarkupPasses(t, ext, file)
    ELSE IF IsClass("pdf", t, ext) THEN mode \in Rejecting => PDFPasses(file)
    ELSE IF IsClass("office", t, ext)
         THEN mode \in Rejecting => Encrypted(file) \/ OfficePasses(file)
    ELSE IF IsClass("image", t, ext) THEN ImagePasses(mode, file)
    ELSE VideoPasses(mode, file)

Strips(mode, t, ext) ==
    /\ mode \in Stripping
    /\ IsClass("image", t, ext) \/ IsClass("video", t, ext)
    /\ \A class \in {"svg", "markup", "pdf", "office"} : ~IsClass(class, t, ext)

\* The switch of inspectStoredFileObject.
FullScanPasses(p, mode, t, ext, file) ==
    /\ Fits(p, t, ext, file) /\ WellFormed(p, t, ext, file)
    /\ mode # "sanitize_when_supported"
    /\ IF IsClass("pdf", t, ext) THEN PDFPasses(file)
       ELSE IF IsClass("office", t, ext) THEN Encrypted(file) \/ OfficePasses(file)
       ELSE OpenDocumentPasses(file)

-----------------------------------------------------------------------------
Init ==
    /\ upload \in Uploads /\ policy \in Policies
    /\ stage = "prefix" /\ type = upload.declared
    /\ body = [traits |-> upload.file.traits, size |-> upload.file.size]
    /\ staged = None /\ stored = None /\ protected = FALSE /\ faults = 0

Ext == upload.ext
File == upload.file
Mode == ModeOf(policy, type, Ext)

Refuse ==
    /\ stage' = "refused" /\ staged' = None
    /\ UNCHANGED <<upload, policy, type, body, stored, protected, faults>>

\* The declared length, inspectUploadPrefix and the early password check.
PrefixPasses(t) ==
    /\ upload.length => ~Oversized(policy, File.size)
    /\ Believable(policy, File, upload.declared, Ext)
    /\ Listed(policy, File, upload.declared)
    /\ Candidate(t, Ext, File) # None /\ Encrypted(File) => upload.password # None

InspectPrefix ==
    /\ stage = "prefix"
    /\ LET t == IF upload.declared = None THEN File.looks ELSE upload.declared
       IN IF ~PrefixPasses(t) THEN Refuse
          ELSE /\ type' = t /\ stage' = "sanitize"
               /\ UNCHANGED <<upload, policy, body, staged, stored, protected, faults>>

MemoryLimit == Tightened(policy.maxMemory, policy.maxFile)

Sanitize ==
    /\ stage = "sanitize"
    /\ LET size == Cut(policy, type, Ext, File.size)
           whole == ~Skipped(policy, type, Ext) /\ ReadWhole(type, Ext)
       IN IF whole /\ ( \/ Oversized(policy, size) \/ size > MemoryLimit
                        \/ ~Fits(policy, type, Ext, File) \/ ~WellFormed(policy, type, Ext, File)
                        \/ ~SanitizerPasses(Mode, type, Ext, File) )
          THEN Refuse
          ELSE /\ body' = [size |-> size,
                           traits |-> IF whole /\ Strips(Mode, type, Ext)
                                      THEN body.traits \ {"meta"} ELSE body.traits]
               /\ stage' = "store"
               /\ UNCHANGED <<upload, policy, type, staged, stored, protected, faults>>

\* putObjectWithSecurityScan; UploadFanout is its detail.
Store ==
    /\ stage = "store"
    /\ IF Oversized(policy, body.size) \/ (policy.clamav /\ "infected" \in File.traits)
       THEN Refuse
       ELSE /\ IF NeedsStaging(policy, type, Ext, File)
               THEN staged' = body /\ stage' = "guard" /\ UNCHANGED stored
               ELSE stored' = body /\ stage' = "accepted" /\ UNCHANGED staged
            /\ UNCHANGED <<upload, policy, type, body, protected, faults>>

StoreFails ==
    /\ stage \in {"store", "copy"} /\ faults < MaxFaults
    /\ faults' = faults + 1 /\ stage' = "refused" /\ staged' = None
    /\ UNCHANGED <<upload, policy, type, body, stored, protected>>

Advance(next) ==
    /\ stage' = next
    /\ UNCHANGED <<upload, policy, type, body, staged, stored, protected, faults>>

InspectArchive ==
    /\ stage = "guard"
    /\ IF GuardedArchive(policy, type, Ext, File)
          /\ ("bomb" \in File.traits \/ File.looks \notin {"zip", "docx", "odt"})
       THEN Refuse ELSE Advance("scan")

FullScan ==
    /\ stage = "scan"
    /\ IF FullScanned(policy, type, Ext) /\ ~FullScanPasses(policy, Mode, type, Ext, File)
       THEN Refuse ELSE Advance("document")

\* prepareDocument: CheckPassword, Verify and, if a failed conversion cancels
\* the upload, Convert.
Unlocks_Any(file, password) == password # None
Unlocks(file, password) == password = file.secret
DocumentPasses(format) ==
    /\ File.secret # None => Unlocks(File, upload.password)
    /\ policy.failOnError => "broken" \notin File.traits
    /\ format \in {"pdf", "docx"} /\ File.secret = None => File.kind = format

PrepareDocument ==
    /\ stage = "document"
    /\ LET format == Candidate(type, Ext, File) IN
       IF format = None \/ (format = "html" /\ File.kind # "html") THEN Advance("copy")
       ELSE IF ~DocumentPasses(format) THEN Refuse
       ELSE /\ protected' = (File.secret # None)
            /\ stage' = "copy"
            /\ UNCHANGED <<upload, policy, type, body, staged, stored, faults>>

Commit ==
    /\ stage = "copy"
    /\ stored' = staged /\ staged' = None /\ stage' = "accepted"
    /\ UNCHANGED <<upload, policy, type, body, protected, faults>>

Next ==
    \/ InspectPrefix \/ Sanitize \/ Store \/ StoreFails \/ InspectArchive
    \/ FullScan \/ PrepareDocument \/ Commit

Spec == Init /\ [][Next]_vars

-----------------------------------------------------------------------------
(* Correctness.                                                            *)

TypeOK ==
    /\ upload \in Uploads /\ policy \in Policies
    /\ stage \in {"prefix", "sanitize", "store", "guard", "scan", "document", "copy",
                  "accepted", "refused"}
    /\ protected \in BOOLEAN /\ faults \in 0..MaxFaults

\* Which inspection a body gets is decided from names; still nothing is
\* stored uninspected for what its first bytes are: with sanitization on and
\* no accept_as_is for the upload, no active document or markup and no picture
\* or video with metadata is stored under the final key (inspectUploadPrefix
\* against the isSVG ... isOpenDocument tests).  An allowed script is let through
\* whatever it is declared as.  What the code lets by is named: a text or a
\* picture under an extension like .mp4, for which per_file_type sets a mode of
\* another class, and in the rejecting mode a picture whose metadata the search
\* does not find.
StoredWasInspected ==
    LET foreign == ForeignMode(policy, type, Ext)
        unfound == Mode = "reject_on_sensitive_metadata" /\ File.looks = "png" /\ ~Found(File)
    IN  stored # None /\ ~Skipped(policy, type, Ext) /\ ~Scripted(File, Ext) =>
            /\ File.looks \in {"pdf", "docx", "odt"} => "active" \notin stored.traits
            /\ File.looks \in {"html", "svg", "xml"} /\ (foreign => Mode \in TextModes) =>
                  "active" \notin stored.traits
            /\ File.looks \in {"png", "mp4"} /\ (foreign => Mode \in MediaModes) /\ ~unfound =>
                  "meta" \notin stored.traits

\* Four readers limit the body, each with a limit of its own; an upload is
\* stored with all its bytes or not at all (EffectiveMaxUploadBytes against
\* the LimitReader of applyFileSanitization).
StoredWhole ==
    stored # None => stored.size = File.size /\ ~Oversized(policy, stored.size)

\* A document is known as protected exactly when its content needs a
\* password, and is stored only after its own password opened it, in
\* whichever stage the encryption is noticed (Candidate, CheckPassword,
\* isEncryptedOfficePackage).
ProtectedWasOpened ==
    stored # None /\ Candidate(type, Ext, File) \in {"pdf", "docx"} =>
        /\ protected <=> File.secret # None
        /\ protected => upload.password = File.secret
=============================================================================
