--------------------------- MODULE DocumentRewrite ---------------------------
(***************************************************************************)
(* The thread of one document: extract_doc_content reads the text and the  *)
(* images out of the zip file, and enqueue_censor_document_file writes a   *)
(* second zip file from what was judged and what is copied, and copies it  *)
(* over the first, in a buffer that cannot grow.  Every call into minizip  *)
(* may fail; the wrapper of a zip file keeps the result of one call only.  *)
(*                                                                         *)
(* The workers that judge are those of CensorEngine; here a text comes     *)
(* back censored, an image censored or not.                                *)
(***************************************************************************)
EXTENDS Sequences, FiniteSets, Naturals

CONSTANT
  Archive  \* the documents: the kinds of their entries, in the zip file's order

(* "text" is the XML file that is read, "flagged" an image that is in the   *)
(* hash set, "image" one that is not, "other" any other entry.              *)
Kind == {"text", "image", "flagged", "other"}

ASSUME ArchiveAssumption ==
  \A e \in Archive :
    /\ e \in Seq(Kind)
    /\ Cardinality({i \in DOMAIN e : e[i] = "text"}) = 1

VARIABLES
  type,       \* doc_type, by which XML file was found
  entries,    \* the entries of the input
  stage,      \* what the thread does next
  current,    \* the entry input_zip is at, or the image that is written
  images,     \* raw_doc_content.images, by the entries they come from
  output,     \* what output_zip holds
  result,     \* the value of the future
  buffer,     \* what _input_zip_file_buffer holds
  unnoticed   \* history: calls that failed and nobody looked

rewriteVars == <<type, entries, stage, current, images, output, result, buffer, unnoticed>>

RewriteTypeOK ==
  /\ type \in {"docx", "xlsx", "hwpx"} /\ entries \in Archive
  /\ stage \in {"read", "list", "judge", "copy", "text", "images", "done"}
  /\ current \in Nat
  /\ \A n \in DOMAIN images : images[n] \in DOMAIN entries
  /\ \A n \in DOMAIN output :
       /\ output[n].entry \in DOMAIN entries
       /\ output[n].content \in {"censored", "copied", "cut"}
  /\ result \in {"none", "size", "0", "exception"}
  /\ buffer \in {"original", "half", "rewritten"}
  /\ unnoticed \subseteq {"listing", "copying", "entry"}

RewriteInit ==
  /\ type \in {"docx", "xlsx", "hwpx"} /\ entries \in Archive
  /\ stage = "read" /\ current = 1
  /\ images = <<>> /\ output = <<>>
  /\ result = "none" /\ buffer = "original"
  /\ unnoticed = {}

-----------------------------------------------------------------------------
(* How opening an entry, moving its data and closing it went.  Without an  *)
(* open entry the other calls fail as well.                                *)
Outcome == {o \in [open : BOOLEAN, data : BOOLEAN, close : BOOLEAN] :
              (o.data => o.open) /\ (o.close => o.open)}

(* error_occured() after these calls.  entry_read and entry_write keep an  *)
(* earlier error, every other call puts its own result over it.            *)
ErrorAfterData(o) == ~o.open \/ ~o.data
ErrorAfterClose(o) == ~o.close

Missed(broken) == IF broken THEN {"entry"} ELSE {}

Ends(value) == stage' = "done" /\ result' = value
GoesOn(to)  == stage' = to /\ result' = result
EarlyReturn(value) ==
  /\ Ends(value)
  /\ UNCHANGED <<type, entries, current, images, output, buffer, unnoticed>>

(* goto_next_entry ends both loops at the last entry, and as well when it  *)
(* fails; its error is then overwritten.                                   *)
NextEntry(loop, after, failed, missed) ==
  \/ /\ current < Len(entries)
     /\ current' = current + 1 /\ GoesOn(loop)
     /\ unnoticed' = unnoticed \cup missed
  \/ /\ current' = 1 /\ GoesOn(after)
     /\ unnoticed' = unnoticed \cup missed \cup
          IF current < Len(entries) THEN {failed} ELSE {}

-----------------------------------------------------------------------------
(* The streams and the zip file are opened, the type is found and the text *)
(* is read: all of this is checked, and so are the limits.                 *)
ReadText ==
  /\ stage = "read"
  /\ \/ EarlyReturn("0")
     \/ /\ GoesOn("list") /\ current' = 1
        /\ UNCHANGED <<type, entries, images, output, buffer, unnoticed>>

(* For xlsx, media_dir is "x1/media", a directory that is in no document.  *)
MediaDir == type # "xlsx"
IsListed(i) == MediaDir /\ entries[i] \in {"image", "flagged"}

(* No data is an assertion of imdecode that fails, bad data an early       *)
(* return; the checksum is not looked at.                                  *)
ListImage ==
  /\ stage = "list" /\ IsListed(current)
  /\ \/ EarlyReturn("0") \/ EarlyReturn("exception")
     \/ /\ images' = Append(images, current)
        /\ NextEntry("list", "judge", "listing", {})
        /\ UNCHANGED <<type, entries, output, buffer>>

ListOther ==
  /\ stage = "list" /\ ~IsListed(current)
  /\ NextEntry("list", "judge", "listing", {})
  /\ UNCHANGED <<type, entries, images, output, buffer>>

(* The tasks are enqueued, the output is created and the input rewound.    *)
StartOutput ==
  /\ stage = "judge"
  /\ \/ EarlyReturn("0")
     \/ /\ GoesOn("copy") /\ current' = 1
        /\ UNCHANGED <<type, entries, images, output, buffer, unnoticed>>

Images == {images[n] : n \in DOMAIN images}

MutIsCensored(i) == entries[i] = "text"
IsCensored(i) == entries[i] = "text" \/ i \in Images

Written(i, content) == output' = Append(output, [entry |-> i, content |-> content])

(* The results of the two closes are not looked at.                        *)
CopyEntry ==
  /\ stage = "copy" /\ ~IsCensored(current)
  /\ \E in, out \in Outcome :
       IF ErrorAfterData(in) \/ ErrorAfterData(out) THEN EarlyReturn("0")
       ELSE /\ Written(current, IF out.close THEN "copied" ELSE "cut")
            /\ NextEntry("copy", "text", "copying", Missed(~out.close))
            /\ UNCHANGED <<type, entries, images, buffer>>

SkipEntry ==
  /\ stage = "copy" /\ IsCensored(current)
  /\ NextEntry("copy", "text", "copying", {})
  /\ UNCHANGED <<type, entries, images, output, buffer>>

(* The text, once all its spans were judged.                               *)
WriteText ==
  /\ stage = "text"
  /\ \/ EarlyReturn("0")
     \/ \E out \in Outcome :
          IF ErrorAfterData(out) \/ ErrorAfterClose(out) THEN EarlyReturn("0")
          ELSE /\ Written(CHOOSE i \in DOMAIN entries : entries[i] = "text", "censored")
               /\ GoesOn("images") /\ current' = 1
               /\ UNCHANGED <<type, entries, images, buffer, unnoticed>>

(* Only the last call on the output is looked at.  If the image cannot be  *)
(* read, an entry without data is written.                                 *)
ImageWritten(out) == ~ErrorAfterClose(out)

WriteImage ==
  /\ stage = "images" /\ current <= Len(images)
  /\ \/ EarlyReturn("0") \/ EarlyReturn("exception")
     \/ \E in, out \in Outcome :
          LET i == images[current]
              whole == /\ out.data /\ out.close
                       /\ entries[i] = "flagged" \/ ~ErrorAfterData(in)
          IN  IF ~ImageWritten(out) THEN EarlyReturn("0")
              ELSE /\ Written(i, IF ~whole THEN "cut"
                                 ELSE IF entries[i] = "flagged" THEN "censored" ELSE "copied")
                   /\ unnoticed' = unnoticed \cup Missed(out.close /\ ~whole)
                   /\ current' = current + 1
                   /\ UNCHANGED <<type, entries, stage, images, result, buffer>>

(* Both zip files are closed, then the output is copied over the input.    *)
(* If it is longer, what fits is copied.                                   *)
CopyBack ==
  \/ EarlyReturn("0")
  \/ /\ \/ Ends("size") /\ buffer' = "rewritten"
        \/ Ends("0") /\ buffer' = "half"
     /\ UNCHANGED <<type, entries, current, images, output, unnoticed>>

Finish == stage = "images" /\ current > Len(images) /\ CopyBack

RewriteNext ==
  \/ ReadText \/ ListImage \/ ListOther \/ StartOutput
  \/ CopyEntry \/ SkipEntry \/ WriteText \/ WriteImage \/ Finish

RewriteSpec == RewriteInit /\ [][RewriteNext]_rewriteVars

-----------------------------------------------------------------------------
(* What should become of an entry.  An xlsx file's images are not found.   *)
Due(i) ==
  IF entries[i] = "text" \/ (entries[i] = "flagged" /\ type # "xlsx")
    THEN "censored" ELSE "copied"

Copies(i) == {n \in DOMAIN output : output[n].entry = i}

(* A document that is reported as rewritten has each of its entries once,  *)
(* the text and the flagged images censored and all others as they were,   *)
(* except for what three unchecked results let through: a listing that     *)
(* ended early leaves images unjudged, a copy loop that ended early leaves *)
(* entries out, and an entry may be cut.  What is reported as failed is as *)
(* it was, unless the new file did not fit into the buffer: the gateway    *)
(* sends that half on as well.                                             *)
DocumentIsWhole ==
  /\ result = "size" =>
       /\ buffer = "rewritten"
       /\ \A i \in DOMAIN entries :
            /\ Cardinality(Copies(i)) = 1 \/ (Copies(i) = {} /\ "copying" \in unnoticed)
            /\ \A n \in Copies(i) :
                 \/ output[n].content = Due(i)
                 \/ output[n].content = "copied" /\ "listing" \in unnoticed
                 \/ output[n].content = "cut" /\ "entry" \in unnoticed
  /\ result \in {"0", "exception"} =>
       \/ buffer = "original"
       \/ buffer = "half" /\ \A i \in DOMAIN entries : Copies(i) # {} \/ "copying" \in unnoticed
=============================================================================
