---------------------------- MODULE MediaSanitizer ----------------------------
(***************************************************************************)
(* Removal of metadata from pictures and videos without re-encoding        *)
(* (internal/server sanitizer.go): the parts of a JPEG, PNG, WebP or       *)
(* MP4/QuickTime file are walked in order, metadata parts are left out and *)
(* the others are copied.  The recursion into MP4 boxes is the stack here. *)
(*                                                                         *)
(* A part is [name, size, kids, valid, padded]: size counts its header,    *)
(* kids are the boxes of a container box, valid says that its length (and  *)
(* PNG checksum) is right, padded that fill bytes precede a JPEG marker.   *)
(***************************************************************************)
EXTENDS Naturals, Sequences, SequencesExt

CONSTANTS
    Files,      \* bound: [format, parts]
    MaxDepth    \* nesting of boxes that is still followed (16 in the code)

DepthAssumption == MaxDepth \in Nat

VARIABLES
    file,
    stack,      \* the sequences being walked, the innermost last
    output,     \* the sanitized parts
    verdict

vars == <<file, stack, output, verdict>>

Header == 1

\* pngMetadataChunk, bmffMetadataBox and the markers of the other two.
Metadata(format) ==
    CASE format = "jpeg" -> {"app1"}
      [] format = "png"  -> {"eXIf", "tEXt", "tIME"}
      [] format = "webp" -> {"EXIF", "XMP"}
      [] format = "bmff" -> {"udta", "meta", "uuid-xmp"}
      [] OTHER -> {"exif"}

Boxes == {"moov", "trak", "stbl"}       \* bmffContainerBox

\* After these the rest of a JPEG is copied unseen.
Unparsed == {"scan", "end", "raw"}

IsMetadata(format, part) == part.name \in Metadata(format)

\* validateAndSanitizePNG.
ValidPNG(parts) ==
    /\ \A i \in DOMAIN parts : parts[i].valid
    /\ \E i \in DOMAIN parts : parts[i].name = "IHDR"
    /\ \A i \in DOMAIN parts : parts[i].name = "IEND" <=> i = Len(parts)

Frame(part) == [part |-> part, todo |-> part.kids, done |-> <<>>, changed |-> FALSE]
Root(f) == [name |-> "root", size |-> 0, kids |-> f.parts, valid |-> TRUE, padded |-> FALSE]

Init ==
    /\ file \in Files
    /\ stack = <<Frame(Root(file))>> /\ output = <<>> /\ verdict = "open"

Top == stack[Len(stack)]
Below == SubSeq(stack, 1, Len(stack) - 1)
Put(frame) == Below \o <<frame>>

\* The parts at every level of nesting.
AllParts(parts) ==
    LET level[n \in 0..(MaxDepth + 1)] ==
            IF n = 0 THEN Range(parts) ELSE UNION {Range(p.kids) : p \in level[n - 1]}
    IN UNION {level[n] : n \in 0..(MaxDepth + 1)}

AllNames(parts) == {p.name : p \in AllParts(parts)}

\* A format without a sanitizer is searched for the names of metadata, wherever
\* they are; a part stands for the bytes that hold one.
NamesMetadata(f) == \E i \in DOMAIN f.parts : IsMetadata(f.format, f.parts[i])

\* What is known before the walk.
Refused ==
    \/ file.format = "other" /\ NamesMetadata(file)
    \/ file.format = "png" /\ ~ValidPNG(file.parts)

Walking == verdict = "open" /\ ~Refused /\ Top.todo # <<>>
Rest == ~(file.format = "jpeg" /\ Head(Top.todo).name \in Unparsed)

Part(part) == [part EXCEPT !.padded = FALSE]

Copy ==
    /\ Walking /\ Rest /\ Head(Top.todo).valid
    /\ ~IsMetadata(file.format, Head(Top.todo)) \/ file.format = "other"
    /\ ~(file.format = "bmff" /\ Head(Top.todo).name \in Boxes)
    /\ stack' = Put([Top EXCEPT !.todo = Tail(@), !.done = Append(@, Part(Head(Top.todo)))])
    /\ UNCHANGED <<file, output, verdict>>

Drop ==
    /\ Walking /\ Rest /\ Head(Top.todo).valid
    /\ IsMetadata(file.format, Head(Top.todo)) /\ file.format # "other"
    /\ stack' = Put([Top EXCEPT !.todo = Tail(@), !.changed = TRUE])
    /\ UNCHANGED <<file, output, verdict>>

CopyRest ==
    /\ Walking /\ ~Rest
    /\ stack' = Put([Top EXCEPT !.todo = <<>>,
                     !.done = @ \o <<Part(Head(Top.todo))>> \o Tail(Top.todo)])
    /\ UNCHANGED <<file, output, verdict>>

Enter ==
    /\ Walking /\ file.format = "bmff"
    /\ Head(Top.todo).valid /\ Head(Top.todo).name \in Boxes
    /\ Len(stack) <= MaxDepth
    /\ stack' = Append(stack, Frame(Head(Top.todo)))
    /\ UNCHANGED <<file, output, verdict>>

\* A box that lost a child is written again with a size of its own.
SizeOf(parts) == FoldLeft(LAMBDA n, p : n + p.size, 0, parts)
Rewritten(frame) ==
    IF frame.changed
    THEN [frame.part EXCEPT !.kids = frame.done, !.size = Header + SizeOf(frame.done)]
    ELSE frame.part

Propagated_Lost(parent, child) == parent.changed
Propagated(parent, child) == parent.changed \/ child.changed
Leave ==
    /\ verdict = "open" /\ Top.todo = <<>> /\ Len(stack) > 1
    /\ LET up == stack[Len(stack) - 1] IN
       stack' = SubSeq(stack, 1, Len(stack) - 2) \o
                <<[up EXCEPT !.todo = Tail(@), !.done = Append(@, Rewritten(Top)),
                             !.changed = Propagated(up, Top)]>>
    /\ UNCHANGED <<file, output, verdict>>

\* WebP and MP4 files without metadata are passed on as they came.
Finish ==
    /\ verdict = "open" /\ ~Refused /\ Top.todo = <<>> /\ Len(stack) = 1
    /\ output' = IF file.format \in {"webp", "bmff"} /\ ~Top.changed
                 THEN file.parts ELSE Top.done
    /\ verdict' = "clean"
    /\ UNCHANGED <<file, stack>>

Reject ==
    /\ verdict = "open"
    /\ \/ Refused
       \/ Walking /\ Rest /\ ~Head(Top.todo).valid
       \/ Walking /\ Head(Top.todo).name \in Boxes /\ Len(stack) > MaxDepth
    /\ verdict' = "rejected"
    /\ UNCHANGED <<file, stack, output>>

Next == Copy \/ Drop \/ CopyRest \/ Enter \/ Leave \/ Finish \/ Reject

Spec == Init /\ [][Next]_vars

-----------------------------------------------------------------------------
(* Correctness.                                                            *)

\* What is left of parts when metadata goes, said without a walk.
Stripped(format, parts) ==
    LET left[s \in {parts} \cup {p.kids : p \in AllParts(parts)}] ==
            LET kept == SelectSeq(s, LAMBDA p : ~IsMetadata(format, p))
                Inner(p) ==
                    IF p.name \notin Boxes \/ left[p.kids] = p.kids THEN p
                    ELSE [p EXCEPT !.kids = left[p.kids], !.size = Header + SizeOf(left[p.kids])]
            IN [i \in DOMAIN kept |-> Inner(kept[i])]
    IN left[parts]

\* The part of a JPEG that the walk parses.
Parsed(parts) ==
    LET stops == {i \in DOMAIN parts : parts[i].name \in Unparsed}
    IN IF stops = {} THEN Len(parts)
       ELSE (CHOOSE i \in stops : \A j \in stops : i <= j) - 1

Names(parts) == [i \in DOMAIN parts |-> parts[i].name]

\* The walk removes every metadata part, at every level, and nothing else:
\* the other parts are all there, in their order, under boxes whose sizes
\* add up (sanitizeJPEGMetadata, sanitizePNGMetadata, sanitizeWEBPMetadata,
\* sanitizeBMFFBoxes).
OnlyMetadataGone ==
    verdict = "clean" =>
        IF file.format = "jpeg"
        THEN LET n == Parsed(file.parts) IN
             Names(output) = Names(Stripped("jpeg", SubSeq(file.parts, 1, n)))
                             \o Names(SubSeq(file.parts, n + 1, Len(file.parts)))
        ELSE output = Stripped(file.format, file.parts)

\* Where the media data of an MP4 file starts.
MediaAt(parts) ==
    LET i == CHOOSE i \in DOMAIN parts : parts[i].name = "mdat"
    IN SizeOf(SubSeq(parts, 1, i - 1)) + Header

\* A table of chunk offsets (stco) holds positions in the file; the media
\* data it points to is still where it says in what is stored
\* (sanitizeBMFFBoxes).
OffsetsHold ==
    verdict = "clean" /\ {"stco", "mdat"} \subseteq AllNames(file.parts) =>
        MediaAt(output) = MediaAt(file.parts)
=============================================================================
