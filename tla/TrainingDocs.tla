----------------------------- MODULE TrainingDocs -----------------------------
(***************************************************************************)
(* The training documents of the policy page: a folder of documents, next  *)
(* to each a file with the labels of its sentences and the hash of the     *)
(* document they were set in, the dialog that sets them, and the server    *)
(* that is taught by them.  The operator opens the folder in a file        *)
(* manager, so documents come, go and change at any moment, also while the *)
(* dialog is open.  What the words of the policy are does not change here. *)
(***************************************************************************)
EXTENDS SequencesExt

CONSTANTS
  Doc,        \* names of files in kDefaultTrainDocsDirPath
  Version,    \* what a document may contain; hashes tell versions apart
  Gone,       \* there is no such file
  Broken,     \* versions that extract_doc_content refuses
  Found(_),   \* the sentences of a version, with labels at the matched words
  Type,       \* types of labels the operator sets
  MAX_LABELS  \* bound: labels of one sentence

ASSUME TrainingAssumption ==
  /\ Gone \notin Doc \cup Version /\ Broken \subseteq Version
  /\ Type \subseteq STRING
  /\ \A v \in Version : \A i \in DOMAIN Found(v) :
       /\ Found(v)[i] = [text |-> Found(v)[i].text, labels |-> Found(v)[i].labels]
       /\ Found(v)[i].labels \in Seq(STRING)

VARIABLES
  docs,       \* the documents in the folder
  listed,     \* the names in deep_learning_docs_list_widget_
  labelFile,  \* the .json file next to a document
  dialog,     \* the DocumentLabelingDialog that is open
  server      \* what it was last sent

trainVars == <<docs, listed, labelFile, dialog, server>>

(* "fault" is history: the document changed while a dialog was open on it,  *)
(* or the dialog that saved was cancelled.                                  *)
Fault == {"none", "replaced", "cancelled"}

Closed == [doc |-> Gone]
NoFile == [state |-> "none"]

(* What is on the disk, and what a dialog shows.                           *)
TrainTypeOK ==
  /\ docs \in [Doc -> Version \cup {Gone}]
  /\ listed \subseteq Doc
  /\ \A d \in Doc :
       \/ labelFile[d].state \in {"none", "cut"}
       \/ labelFile[d].hash \in Version /\ labelFile[d].fault \in Fault
  /\ dialog # Closed => dialog.doc \in Doc /\ dialog.fault \in Fault

TrainInit ==
  /\ docs \in [Doc -> Version \cup {Gone}]
  /\ listed = {d \in Doc : docs[d] # Gone}
  /\ labelFile = [d \in Doc |-> NoFile]
  /\ dialog = Closed
  /\ server = {}

-----------------------------------------------------------------------------
(* get_text_labels_with_none: a sentence without labels gets NONE.         *)
WithNone(sentences) ==
  [i \in DOMAIN sentences |->
    IF sentences[i].labels = <<>> THEN [sentences[i] EXCEPT !.labels = <<"NONE">>]
    ELSE sentences[i]]

MutNoLabel == {"SECRET"}
NoLabel    == {"NONE"}

(* The loop over the labels of a sentence, which skips some types.         *)
Kept(labels, skipped) ==
  LET kept[n \in 0 .. Len(labels)] ==
        IF n = 0 THEN <<>>
        ELSE IF labels[n] \in skipped THEN kept[n - 1]
        ELSE Append(kept[n - 1], labels[n])
  IN  kept[Len(labels)]

(* load_text_labels_from_json leaves all NONE labels out, also one that    *)
(* the operator has typed.                                                 *)
FromJson(array) ==
  [i \in DOMAIN array |-> [array[i] EXCEPT !.labels = Kept(@, NoLabel)]]

(* load_text_labeling_data: labels are used if the file is whole and the   *)
(* hash is that of the document as it is now.                              *)
MutUsable(d) == labelFile[d].state = "saved" /\ docs[d] # Gone
Usable(d) ==
  /\ labelFile[d].state = "saved"
  /\ docs[d] # Gone
  /\ labelFile[d].hash = docs[d]

-----------------------------------------------------------------------------
RefreshList ==
  /\ dialog = Closed
  /\ listed' = {d \in Doc : docs[d] # Gone}
  /\ UNCHANGED <<docs, labelFile, dialog, server>>

(* The document goes, its labels stay.                                     *)
RemoveDoc(d) ==
  /\ dialog = Closed
  /\ d \in listed /\ docs[d] # Gone
  /\ docs' = [docs EXCEPT ![d] = Gone]
  /\ listed' = listed \ {d}
  /\ UNCHANGED <<labelFile, dialog, server>>

(* The dialog on a document, made from its labels if they can be used.     *)
OpenDialog(d) ==
  /\ dialog = Closed
  /\ d \in listed /\ docs[d] \in Version \ Broken
  /\ dialog' =
       IF Usable(d)
         THEN [doc |-> d, sentences |-> FromJson(labelFile[d].labels),
               fault |-> labelFile[d].fault]
         ELSE [doc |-> d, sentences |-> Found(docs[d]), fault |-> "none"]
  /\ UNCHANGED <<docs, listed, labelFile, server>>

(* handle_selection adds to the labels there are, also a second time.      *)
HandleSelection(i, type) ==
  /\ Len(dialog.sentences[i].labels) < MAX_LABELS
  /\ dialog' = [dialog EXCEPT !.sentences[i].labels = Append(@, type)]
  /\ UNCHANGED <<docs, listed, labelFile, server>>

(* save_text_labeling_data opens the document anew to hash it; without a   *)
(* document nothing is saved.                                              *)
Saved(d, labels, fault) ==
  IF docs[d] = Gone THEN labelFile
  ELSE [labelFile EXCEPT ![d] =
         [state |-> "saved", hash |-> docs[d], labels |-> labels, fault |-> fault]]

Accept ==
  /\ dialog # Closed
  /\ labelFile' = Saved(dialog.doc, WithNone(dialog.sentences), dialog.fault)
  /\ dialog' = Closed
  /\ UNCHANGED <<docs, listed, server>>

(* The labels are saved in any case: if the dialog was cancelled, an empty *)
(* array.                                                                  *)
Cancel ==
  /\ dialog # Closed
  /\ labelFile' = Saved(dialog.doc, <<>>, "cancelled")
  /\ dialog' = Closed
  /\ UNCHANGED <<docs, listed, server>>

(* The program ends while the dialog is open, or while the label file,     *)
(* which was emptied first, is written; and starts again.                  *)
Crash ==
  /\ dialog # Closed
  /\ \/ labelFile' = labelFile
     \/ /\ docs[dialog.doc] # Gone
        /\ labelFile' = [labelFile EXCEPT ![dialog.doc] = [state |-> "cut"]]
  /\ dialog' = Closed
  /\ listed' = {d \in Doc : docs[d] # Gone}
  /\ UNCHANGED <<docs, server>>

(* send_text_training_data posts the sentences with a label, those of each *)
(* document for itself; of posts that fail the operator is told.  (Only    *)
(* the sentence is sent, the other fields are history.)                    *)
Taught(sentence) == \E j \in DOMAIN sentence.labels : sentence.labels[j] \notin NoLabel

Lesson(d) ==
  {[version |-> docs[d], sentence |-> labelFile[d].labels[i], fault |-> labelFile[d].fault] :
     i \in {k \in DOMAIN labelFile[d].labels : Taught(labelFile[d].labels[k])}}

SendAll ==
  /\ dialog = Closed
  /\ server' = UNION {Lesson(d) : d \in {e \in Doc : Usable(e)}}
  /\ UNCHANGED <<docs, listed, labelFile, dialog>>

(* The operator, or another program, puts a document in place or takes it. *)
Change(d, v) ==
  /\ docs[d] # v
  /\ docs' = [docs EXCEPT ![d] = v]
  /\ dialog' = IF dialog.doc = d THEN [dialog EXCEPT !.fault = "replaced"] ELSE dialog
  /\ UNCHANGED <<listed, labelFile, server>>

TrainNext ==
  \/ RefreshList \/ Accept \/ Cancel \/ Crash \/ SendAll
  \/ \E d \in Doc :
       \/ RemoveDoc(d) \/ OpenDialog(d)
       \/ \E v \in Version \cup {Gone} : Change(d, v)
  \/ /\ dialog # Closed
     /\ \E i \in DOMAIN dialog.sentences, type \in Type : HandleSelection(i, type)

TrainSpec == TrainInit /\ [][TrainNext]_trainVars

-----------------------------------------------------------------------------
(* What the server is taught are sentences of the documents as they are    *)
(* then, each with a label other than NONE; unless a document was replaced *)
(* while the dialog was open: the labels of the old one are then saved     *)
(* with the hash of the new one.                                           *)
SentIsOfTheDocument ==
  \A lesson \in server :
    \/ lesson.fault = "replaced"
    \/ /\ \E i \in DOMAIN Found(lesson.version) :
            Found(lesson.version)[i].text = lesson.sentence.text
       /\ \E j \in DOMAIN lesson.sentence.labels : lesson.sentence.labels[j] # "NONE"

Labels(sentence) == Kept(sentence.labels, {"NONE"})

(* While the document stays what it is, no step takes a label from its     *)
(* file, however often the dialog is opened and accepted; unless a dialog  *)
(* is cancelled, which saves an empty array, the program dies while it     *)
(* writes, or the document was another one when the dialog was opened.     *)
LabelsKept ==
  [][\A d \in Doc :
       Usable(d) /\ docs'[d] = docs[d] =>
         \/ labelFile'[d].state = "cut"
         \/ labelFile'[d].fault # "none"
         \/ \A i \in DOMAIN labelFile[d].labels :
              IsPrefix(Labels(labelFile[d].labels[i]), Labels(labelFile'[d].labels[i]))
    ]_trainVars
=============================================================================
