------------------------------ MODULE DeskProofs ------------------------------
(***************************************************************************)
(* Proofs about the pages of the operator, for any words, documents and    *)
(* log entries and any number of threads.                                  *)
(***************************************************************************)
EXTENDS MCDesk, SequenceFacts, FiniteSetTheorems, TLAPS

-----------------------------------------------------------------------------
(* The log.                                                                *)

LogShape ==
  /\ logging \in BOOLEAN /\ isOpen \in BOOLEAN /\ failed \in BOOLEAN
  /\ spoiled \in BOOLEAN
  /\ log \in Seq(Entry)
  /\ place \in [Entry -> {"new", "accepted", "posted", "writing", "done", "refused"}]

(* Who accepted an entry sees an open file without an error, unless a click *)
(* or a spoiled stream came in between.                                    *)
LogInv ==
  /\ LogShape
  /\ LoggedIsWritten
  /\ logging => isOpen /\ (~failed \/ spoiled)
  /\ \A e \in Entry :
       /\ place[e] \in {"posted", "writing", "done"} => e \in shown
       /\ e \in InAppend => e \in disturbed \cup affected \/ (isOpen /\ ~failed)

LEMMA LogStarts == LogInit => LogInv
  <1> SUFFICES ASSUME LogInit PROVE LogInv
    OBVIOUS
  <1> USE DEF LogInit
  <1>1. log \in Seq(Entry)
    OBVIOUS
  <1>2. \A e \in Entry : place[e] = "new"
    OBVIOUS
  <1>3. LogShape
    BY <1>1 DEF LogShape
  <1> QED
    BY <1>2, <1>3 DEF LogInv, LoggedIsWritten, InAppend

(* A click disturbs every append that is under way.                        *)
LEMMA ClickKeeps == LogInv /\ (LoggingStart \/ LoggingStop) => LogInv'
  <1> SUFFICES ASSUME LogInv, LoggingStart \/ LoggingStop PROVE LogInv'
    OBVIOUS
  <1> USE DEF LogInv
  <1>1. place' = place /\ shown' = shown /\ affected' = affected
        /\ disturbed' = disturbed \cup InAppend
    BY DEF LoggingStart, LoggingStop, Clicked
  <1>2. LogShape'
    <2>1. log' \in Seq(Entry)
      <3>1. log' = log \/ log' = <<>>
        BY DEF LoggingStart, LoggingStop
      <3>2. <<>> \in Seq(Entry)
        OBVIOUS
      <3> QED
        BY <3>1, <3>2 DEF LogShape
    <2>2. failed' \in BOOLEAN
      BY Zenon DEF LogShape, LoggingStart, LoggingStop, AfterOpen
    <2>3. logging' \in BOOLEAN /\ isOpen' \in BOOLEAN /\ spoiled' \in BOOLEAN
      BY DEF LogShape, LoggingStart, LoggingStop
    <2> QED
      BY <1>1, <2>1, <2>2, <2>3 DEF LogShape
  <1>3. Logged \subseteq Logged' \cup wiped' /\ wiped \subseteq wiped'
    BY DEF LoggingStart, LoggingStop, Logged
  <1>4. LoggedIsWritten'
    BY <1>1, <1>3 DEF LoggedIsWritten
  <1>5. logging' => isOpen' /\ (~failed' \/ spoiled')
    BY DEF LoggingStart, LoggingStop, AfterOpen
  <1>6. InAppend' = InAppend
    BY <1>1 DEF InAppend
  <1> QED
    BY <1>1, <1>2, <1>4, <1>5, <1>6

(* A step of append_log moves one entry.                                   *)
LEMMA AppendKeeps ==
  ASSUME LogInv, NEW e \in Entry,
         TestFlag(e) \/ PostEntry(e) \/ LockLog(e) \/ WriteLog(e)
  PROVE  LogInv'
  <1> USE DEF LogInv, LogShape, Moves
  <1>1. CASE TestFlag(e)
    BY <1>1 DEF TestFlag, LoggedIsWritten, Logged, InAppend
  <1>2. CASE PostEntry(e)
    BY <1>2 DEF PostEntry, LoggedIsWritten, Logged, InAppend, logHistory
  <1>3. CASE LockLog(e)
    BY <1>3 DEF LockLog, LoggedIsWritten, Logged, InAppend, logHistory
  <1>4. CASE WriteLog(e)
    <2>1. log' = log \/ (log' = Append(log, e) /\ isOpen /\ ~failed /\ UNCHANGED <<failed, spoiled, affected>>)
      BY <1>4 DEF WriteLog
    <2>2. Logged \subseteq Logged' /\ (log' # log => e \in Logged')
      BY <2>1 DEF Logged
    <2>3. CASE log' # log
      BY <1>4, <2>1, <2>2, <2>3 DEF WriteLog, LoggedIsWritten, InAppend
    <2>4. CASE log' = log
      <3>1. Append(log, e) # log
        OBVIOUS
      <3>2. /\ isOpen /\ ~failed => e \in disturbed
            /\ failed' \in {failed, TRUE}
            /\ spoiled' = (spoiled \/ (failed' /\ ~failed))
            /\ affected' = IF spoiled' THEN affected \cup InAppend ELSE affected
        BY <1>4, <2>4, <3>1, Zenon DEF WriteLog
      <3>3. /\ failed' \in BOOLEAN /\ spoiled' \in BOOLEAN
            /\ spoiled => spoiled'
            /\ failed' # failed => spoiled' /\ affected' = affected \cup InAppend
            /\ affected \subseteq affected'
        BY <3>2, Zenon
      <3> QED
        BY <1>4, <2>2, <2>4, <3>2, <3>3 DEF WriteLog, LoggedIsWritten, InAppend
    <2> QED
      BY <2>3, <2>4
  <1> QED
    BY <1>1, <1>2, <1>3, <1>4

LEMMA LogStep == LogInv /\ [LogNext]_logVars => LogInv'
  <1> SUFFICES ASSUME LogInv, [LogNext]_logVars PROVE LogInv'
    OBVIOUS
  <1>1. CASE UNCHANGED logVars
    BY <1>1 DEF logVars, LogInv, LogShape, LoggedIsWritten, Logged, InAppend
  <1>2. CASE LogNext
    BY <1>2, ClickKeeps, AppendKeeps DEF LogNext
  <1> QED
    BY <1>1, <1>2

(* What append_log accepted is written and shown, for any number of workers *)
(* and clicks, except in the cases LoggedIsWritten names.                  *)
THEOREM LoggedCorrect == LogSpec => []LoggedIsWritten
  <1>1. LogInv => LoggedIsWritten
    BY DEF LogInv
  <1> QED
    BY LogStarts, LogStep, <1>1, PTL DEF LogSpec

(* An entry is in the file once because its append is over when it is in.  *)
LogTypes == LogTypeOK /\ \A i \in DOMAIN log : place[log[i]] = "done"

LEMMA LogTypesStart == LogInit => LogTypes
  <1> SUFFICES ASSUME LogInit PROVE LogTypes
    OBVIOUS
  <1>1. log = <<>> /\ <<>> \in Seq(Entry) /\ DOMAIN <<>> = {}
    BY EmptySeq DEF LogInit
  <1>2. log \in Seq(Entry) /\ IsInjective(log)
    BY <1>1 DEF IsInjective
  <1> QED
    BY <1>1, <1>2 DEF LogInit, LogTypes, LogTypeOK

LEMMA LogTypesStep == LogTypes /\ [LogNext]_logVars => LogTypes'
  <1> SUFFICES ASSUME LogTypes, [LogNext]_logVars PROVE LogTypes'
    OBVIOUS
  <1> USE DEF LogTypes, LogTypeOK
  <1>1. InAppend \subseteq Entry /\ Logged \subseteq Entry
    BY DEF InAppend, Logged
  <1>2. CASE UNCHANGED logVars
    BY <1>2 DEF logVars
  <1>3. CASE LoggingStart \/ LoggingStop
    <2>1. place' = place /\ shown' = shown /\ affected' = affected /\ mutex' = mutex
          /\ disturbed' \subseteq Entry /\ wiped' \subseteq Entry
      BY <1>1, <1>3 DEF LoggingStart, LoggingStop, Clicked
    <2>2. log' \in {log, <<>>}
      BY <1>3 DEF LoggingStart, LoggingStop
    <2>3. <<>> \in Seq(Entry) /\ DOMAIN <<>> = {} /\ IsInjective(<<>>)
      BY EmptySeq DEF IsInjective
    <2>4. failed' \in BOOLEAN
      BY <1>3, Zenon DEF LoggingStart, LoggingStop, AfterOpen
    <2>5. logging' \in BOOLEAN /\ isOpen' \in BOOLEAN /\ spoiled' \in BOOLEAN
      BY <1>3 DEF LoggingStart, LoggingStop
    <2> QED
      BY <2>1, <2>2, <2>3, <2>4, <2>5
  <1>4. ASSUME NEW e \in Entry, TestFlag(e) \/ PostEntry(e) \/ LockLog(e)
        PROVE  LogTypes'
    <2>1. /\ log' = log /\ place[e] # "done"
          /\ \A x \in Entry \ {e} : place'[x] = place[x]
          /\ place' \in [Entry -> {"new", "accepted", "posted", "writing", "done", "refused"}]
      BY <1>4 DEF TestFlag, PostEntry, LockLog, Moves
    <2>2. \A i \in DOMAIN log : place'[log[i]] = "done"
      BY <2>1
    <2> QED
      BY <1>4, <2>1, <2>2 DEF TestFlag, PostEntry, LockLog, logHistory
  <1>5. ASSUME NEW e \in Entry, WriteLog(e) PROVE LogTypes'
    <2>1. /\ place[e] = "writing" /\ place'[e] = "done"
          /\ \A x \in Entry \ {e} : place'[x] = place[x]
          /\ place' \in [Entry -> {"new", "accepted", "posted", "writing", "done", "refused"}]
          /\ mutex' = NoEntry
          /\ UNCHANGED <<logging, isOpen, shown, disturbed, wiped>>
      BY <1>5 DEF WriteLog, Moves
    <2>2. log' = log \/ log' = Append(log, e)
      BY <1>5 DEF WriteLog
    <2>3. affected' \subseteq Entry
      BY <1>1, <1>5, Zenon DEF WriteLog
    <2>4. failed' \in BOOLEAN /\ spoiled' \in BOOLEAN
      BY <1>5, Zenon DEF WriteLog
    <2>5. \A i \in DOMAIN log : log[i] # e
      BY <2>1
    <2>6. /\ log' \in Seq(Entry)
          /\ \A i \in DOMAIN log' :
               \/ i \in DOMAIN log /\ log'[i] = log[i]
               \/ log'[i] = e
      BY <2>2
    <2>7. IsInjective(log')
      <3>1. e \notin ToSet(log)
        BY <2>5 DEF ToSet
      <3>2. log \in Seq(Entry) /\ IsInjective(log)
        OBVIOUS
      <3>3. IsInjective(Append(log, e))
        BY ONLY <3>1, <3>2, e \in Entry, AppendSet
      <3> QED
        BY <2>2, <3>2, <3>3
    <2>8. \A i \in DOMAIN log' : place'[log'[i]] = "done"
      BY <2>1, <2>6
    <2> QED
      BY <2>1, <2>3, <2>4, <2>6, <2>7, <2>8
  <1> QED
    BY <1>2, <1>3, <1>4, <1>5 DEF LogNext

-----------------------------------------------------------------------------
(* The training documents.                                                 *)

IsSentence(x) == x = [text |-> x.text, labels |-> x.labels]
IsDialog(x) == x = [doc |-> x.doc, sentences |-> x.sentences, fault |-> x.fault]

(* The sentences a dialog shows, or a label file has, for a version.       *)
AreOf(sentences, version, fault) ==
  \A i \in DOMAIN sentences :
    /\ IsSentence(sentences[i])
    /\ fault # "replaced" =>
         \E k \in DOMAIN Found(version) : Found(version)[k].text = sentences[i].text

(* The label file is of the version whose hash it has; the dialog of the   *)
(* document that is there, or somebody has seen it change.                 *)
TrainInv ==
  /\ docs \in [Doc -> Version \cup {Gone}]
  /\ labelFile = [d \in Doc |-> labelFile[d]]
  /\ \A d \in Doc :
       labelFile[d].state = "saved" =>
         AreOf(labelFile[d].labels, labelFile[d].hash, labelFile[d].fault)
  /\ dialog # Closed =>
       /\ dialog.doc \in Doc /\ IsDialog(dialog)
       /\ AreOf(dialog.sentences, docs[dialog.doc], dialog.fault)
  /\ SentIsOfTheDocument

LEMMA FoundIsOfItself ==
  ASSUME NEW v \in Version, NEW fault PROVE AreOf(Found(v), v, fault)
  <1> SUFFICES ASSUME NEW i \in DOMAIN Found(v) PROVE IsSentence(Found(v)[i])
    BY DEF AreOf
  <1> QED
    BY TrainingAssumption DEF IsSentence

(* Neither reading nor saving adds a sentence.                             *)
LEMMA LabelsOnly ==
  ASSUME NEW s, NEW v, NEW fault, AreOf(s, v, fault)
  PROVE  AreOf(WithNone(s), v, fault) /\ AreOf(FromJson(s), v, fault)
  <1>1. \A i \in DOMAIN s : IsSentence(s[i])
    BY DEF AreOf
  <1>2. /\ DOMAIN WithNone(s) = DOMAIN s
        /\ \A i \in DOMAIN s : IsSentence(WithNone(s)[i]) /\ WithNone(s)[i].text = s[i].text
    BY <1>1 DEF WithNone, IsSentence
  <1>3. /\ DOMAIN FromJson(s) = DOMAIN s
        /\ \A i \in DOMAIN s : IsSentence(FromJson(s)[i]) /\ FromJson(s)[i].text = s[i].text
    BY <1>1 DEF FromJson, IsSentence
  <1> QED
    BY <1>2, <1>3 DEF AreOf
LEMMA TrainStarts == TrainInit => TrainInv
  BY DEF TrainInit, TrainInv, NoFile, SentIsOfTheDocument

(* Opening a dialog reads what is of the document, or was seen to change.  *)
LEMMA OpenKeeps ==
  ASSUME TrainInv, NEW d \in Doc, OpenDialog(d) PROVE TrainInv'
  <1> USE DEF TrainInv
  <1>1. AreOf(Found(docs[d]), docs[d], "none")
    BY FoundIsOfItself DEF OpenDialog
  <1>2. Usable(d) => AreOf(FromJson(labelFile[d].labels), docs[d], labelFile[d].fault)
    BY LabelsOnly DEF Usable
  <1>3. /\ dialog'.doc = d /\ IsDialog(dialog')
        /\ AreOf(dialog'.sentences, docs[d], dialog'.fault)
    BY <1>1, <1>2 DEF OpenDialog, IsDialog
  <1> QED
    BY <1>3 DEF OpenDialog, SentIsOfTheDocument

LEMMA SelectionKeeps ==
  ASSUME TrainInv, dialog # Closed, NEW i \in DOMAIN dialog.sentences, NEW label,
         HandleSelection(i, label)
  PROVE  TrainInv'
  <1> USE DEF TrainInv
  <1> DEFINE s == dialog.sentences
             labelled == [s[i] EXCEPT !.labels = Append(@, label)]
  <1>1. /\ dialog'.doc = dialog.doc /\ dialog'.fault = dialog.fault /\ IsDialog(dialog')
        /\ dialog'.sentences = [s EXCEPT ![i] = labelled]
    BY DEF HandleSelection, IsDialog
  <1>2. IsSentence(labelled) /\ labelled.text = s[i].text
    <2>1. IsSentence(s[i])
      BY DEF AreOf
    <2> HIDE DEF s
    <2>2. \E text, labels : s[i] = [text |-> text, labels |-> labels]
      BY <2>1, Zenon DEF IsSentence
    <2>3. PICK text, labels : s[i] = [text |-> text, labels |-> labels]
      BY <2>2
    <2>4. labelled = [text |-> text, labels |-> Append(labels, label)] /\ s[i].text = text
      BY ONLY <2>3 DEF labelled
    <2> HIDE DEF labelled
    <2> QED
      BY <2>4 DEF IsSentence
  <1>3. AreOf(dialog'.sentences, docs[dialog.doc], dialog.fault)
    BY <1>1, <1>2 DEF AreOf
  <1> QED
    BY <1>1, <1>3 DEF HandleSelection, SentIsOfTheDocument

(* What is saved is hashed as the document of the dialog.                  *)
LEMMA SavedIsOf ==
  ASSUME TrainInv, NEW d \in Doc, NEW labels, NEW fault, AreOf(labels, docs[d], fault),
         labelFile' = Saved(d, labels, fault), dialog' = Closed,
         UNCHANGED <<docs, server>>
  PROVE  TrainInv'
  <1> USE DEF TrainInv
  <1>1. CASE docs[d] = Gone
    BY <1>1 DEF Saved, SentIsOfTheDocument
  <1>2. CASE docs[d] # Gone
    <2>1. /\ labelFile'[d].labels = labels /\ labelFile'[d].hash = docs[d]
          /\ labelFile'[d].fault = fault
          /\ \A e \in Doc \ {d} : labelFile'[e] = labelFile[e]
          /\ labelFile' = [e \in Doc |-> labelFile'[e]]
      BY <1>2 DEF Saved
    <2> QED
      BY <2>1 DEF SentIsOfTheDocument
  <1> QED
    BY <1>1, <1>2

LEMMA CloseKeeps == TrainInv /\ (Accept \/ Cancel \/ Crash) => TrainInv'
  <1> SUFFICES ASSUME TrainInv, Accept \/ Cancel \/ Crash PROVE TrainInv'
    OBVIOUS
  <1> DEFINE d == dialog.doc
  <1>0. d \in Doc /\ AreOf(dialog.sentences, docs[d], dialog.fault)
    BY DEF TrainInv, Accept, Cancel, Crash
  <1>1. CASE Accept
    <2>1. AreOf(WithNone(dialog.sentences), docs[d], dialog.fault)
      BY <1>0, LabelsOnly
    <2> QED
      BY <1>0, <1>1, <2>1, SavedIsOf DEF Accept
  <1>2. CASE Cancel
    <2>1. AreOf(<<>>, docs[d], "cancelled")
      BY DEF AreOf
    <2> QED
      BY <1>0, <1>2, <2>1, SavedIsOf DEF Cancel
  <1>3. CASE Crash
    <2>1. \A e \in Doc : labelFile'[e] = labelFile[e] \/ labelFile'[e].state = "cut"
      BY <1>3 DEF Crash, TrainInv
    <2>2. labelFile' = [e \in Doc |-> labelFile'[e]]
      BY <1>3 DEF Crash, TrainInv
    <2>3. UNCHANGED <<docs, server>> /\ dialog' = Closed
      BY <1>3 DEF Crash
    <2>4. \A e \in Doc : labelFile'[e].state = "saved" => labelFile'[e] = labelFile[e]
      BY <2>1
    <2> QED
      BY <2>2, <2>3, <2>4 DEF TrainInv, SentIsOfTheDocument
  <1> QED
    BY <1>1, <1>2, <1>3

(* A lesson has what the label file has for the document as it is.         *)
LEMMA SendKeeps == TrainInv /\ SendAll => TrainInv'
  <1> SUFFICES ASSUME TrainInv, SendAll PROVE TrainInv'
    OBVIOUS
  <1>1. SentIsOfTheDocument'
    <2> SUFFICES ASSUME NEW lesson \in server', lesson.fault # "replaced"
                 PROVE  /\ \E i \in DOMAIN Found(lesson.version) :
                             Found(lesson.version)[i].text = lesson.sentence.text
                        /\ \E j \in DOMAIN lesson.sentence.labels :
                             lesson.sentence.labels[j] # "NONE"
      BY DEF SentIsOfTheDocument
    <2>1. PICK d \in Doc : Usable(d) /\ lesson \in Lesson(d)
      BY DEF SendAll
    <2>2. PICK i \in DOMAIN labelFile[d].labels :
            /\ Taught(labelFile[d].labels[i])
            /\ lesson = [version |-> docs[d], sentence |-> labelFile[d].labels[i],
                         fault |-> labelFile[d].fault]
      BY <2>1 DEF Lesson
    <2>3. AreOf(labelFile[d].labels, docs[d], labelFile[d].fault)
      BY <2>1 DEF Usable, TrainInv
    <2> QED
      BY <2>2, <2>3 DEF AreOf, Taught, NoLabel
  <1> QED
    BY <1>1 DEF TrainInv, SendAll

LEMMA ChangeKeeps ==
  ASSUME TrainInv, NEW d \in Doc, NEW v \in Version \cup {Gone}, Change(d, v)
  PROVE  TrainInv'
  <1> USE DEF TrainInv
  <1>1. /\ docs' = [docs EXCEPT ![d] = v] /\ UNCHANGED <<labelFile, server>>
        /\ docs' \in [Doc -> Version \cup {Gone}]
    BY DEF Change
  <1>2. ASSUME dialog' # Closed
        PROVE  /\ dialog'.doc \in Doc /\ IsDialog(dialog')
               /\ AreOf(dialog'.sentences, docs'[dialog'.doc], dialog'.fault)
    <2>1. CASE dialog.doc = d
      <3>1. dialog # Closed
        BY <2>1, TrainingAssumption DEF Closed
      <3>2. /\ dialog' = [dialog EXCEPT !.fault = "replaced"]
            /\ dialog'.doc = d /\ dialog'.sentences = dialog.sentences
            /\ dialog'.fault = "replaced" /\ IsDialog(dialog')
        BY <2>1, <3>1 DEF Change, IsDialog
      <3> QED
        BY <3>1, <3>2 DEF AreOf
    <2>2. CASE dialog.doc # d
      <3>1. dialog' = dialog
        BY <2>2 DEF Change
      <3>2. dialog.doc \in Doc /\ docs'[dialog.doc] = docs[dialog.doc]
        BY <1>1, <1>2, <2>2, <3>1
      <3> QED
        BY <1>2, <3>1, <3>2
    <2> QED
      BY <2>1, <2>2
  <1> QED
    BY <1>1, <1>2 DEF SentIsOfTheDocument

LEMMA TrainStep == TrainInv /\ [TrainNext]_trainVars => TrainInv'
  <1> SUFFICES ASSUME TrainInv, [TrainNext]_trainVars PROVE TrainInv'
    OBVIOUS
  <1>1. CASE UNCHANGED trainVars
    BY <1>1 DEF trainVars, TrainInv, SentIsOfTheDocument
  <1>2. CASE RefreshList \/ \E d \in Doc : RemoveDoc(d)
    <2>1. /\ dialog = Closed /\ UNCHANGED <<labelFile, dialog, server>>
          /\ docs' \in [Doc -> Version \cup {Gone}]
      BY <1>2 DEF RefreshList, RemoveDoc, TrainInv
    <2> QED
      BY <2>1 DEF TrainInv, SentIsOfTheDocument
  <1>3. CASE Accept \/ Cancel \/ Crash
    BY <1>3, CloseKeeps
  <1>4. CASE SendAll
    BY <1>4, SendKeeps
  <1>5. CASE \E d \in Doc : OpenDialog(d)
    BY <1>5, OpenKeeps
  <1>6. CASE \E d \in Doc : \E v \in Version \cup {Gone} : Change(d, v)
    BY <1>6, ChangeKeeps
  <1>7. CASE /\ dialog # Closed
             /\ \E i \in DOMAIN dialog.sentences, label \in Type : HandleSelection(i, label)
    BY <1>7, SelectionKeeps
  <1> QED
    BY <1>1, <1>2, <1>3, <1>4, <1>5, <1>6, <1>7 DEF TrainNext

(* The server is taught sentences of the documents as they are, unless one *)
(* was replaced under an open dialog: whatever the documents and versions, *)
(* and however often dialogs are cancelled and the program dies.           *)
THEOREM SentCorrect == TrainSpec => []SentIsOfTheDocument
  <1>1. TrainInv => SentIsOfTheDocument
    BY DEF TrainInv
  <1> QED
    BY TrainStarts, TrainStep, <1>1, PTL DEF TrainSpec

LEMMA TrainTypesStart == TrainInit => TrainTypeOK
  BY DEF TrainInit, TrainTypeOK, NoFile

(* What is saved is the hash of a document that is there.                  *)
LEMMA SavedTypes ==
  ASSUME TrainInv, TrainTypeOK, NEW d \in Doc, NEW labels, NEW fault \in Fault,
         labelFile' = Saved(d, labels, fault)
  PROVE  \A x \in Doc :
           \/ labelFile'[x].state \in {"none", "cut"}
           \/ labelFile'[x].hash \in Version /\ labelFile'[x].fault \in Fault
  <1>1. CASE docs[d] = Gone
    BY <1>1 DEF Saved, TrainTypeOK
  <1>2. CASE docs[d] # Gone
    <2> DEFINE new == [state |-> "saved", hash |-> docs[d], labels |-> labels, fault |-> fault]
    <2>1. docs[d] \in Version
      BY <1>2 DEF TrainTypeOK
    <2>2. new.hash \in Version /\ new.fault \in Fault
      BY <2>1
    <2>3. labelFile' = [labelFile EXCEPT ![d] = new]
      BY <1>2 DEF Saved
    <2> HIDE DEF new
    <2>4. \A x \in Doc : labelFile'[x] = IF x = d THEN new ELSE labelFile[x]
      BY <2>3 DEF TrainInv
    <2> QED
      BY <2>2, <2>4 DEF TrainTypeOK
  <1> QED
    BY <1>1, <1>2

LEMMA TrainTypesStep == TrainInv /\ TrainTypeOK /\ [TrainNext]_trainVars => TrainTypeOK'
  <1> SUFFICES ASSUME TrainInv, TrainTypeOK, [TrainNext]_trainVars PROVE TrainTypeOK'
    OBVIOUS
  <1>1. CASE UNCHANGED trainVars
    BY <1>1 DEF trainVars, TrainTypeOK
  <1>2. CASE RefreshList \/ SendAll \/ \E d \in Doc : RemoveDoc(d)
    <2>1. /\ UNCHANGED <<labelFile, dialog>>
          /\ docs' \in [Doc -> Version \cup {Gone}] /\ listed' \subseteq Doc
      BY <1>2 DEF RefreshList, SendAll, RemoveDoc, TrainTypeOK
    <2> QED
      BY <2>1 DEF TrainTypeOK
  <1>3. CASE Accept \/ Cancel
    <2>1. dialog.doc \in Doc /\ dialog.fault \in Fault /\ "cancelled" \in Fault
      BY <1>3 DEF Accept, Cancel, TrainTypeOK, Fault
    <2>2. /\ dialog' = Closed /\ UNCHANGED <<docs, listed>>
          /\ \/ labelFile' = Saved(dialog.doc, WithNone(dialog.sentences), dialog.fault)
             \/ labelFile' = Saved(dialog.doc, <<>>, "cancelled")
      BY <1>3 DEF Accept, Cancel
    <2> QED
      BY <2>1, <2>2, SavedTypes DEF TrainTypeOK
  <1>4. CASE Crash
    <2>1. dialog.doc \in Doc
      BY <1>4 DEF Crash, TrainTypeOK
    <2>2. \A d \in Doc : labelFile'[d] = labelFile[d] \/ labelFile'[d].state = "cut"
      BY <1>4, <2>1 DEF Crash, TrainInv
    <2> QED
      BY <1>4, <2>2 DEF Crash, TrainTypeOK
  <1>5. ASSUME NEW d \in Doc, OpenDialog(d) PROVE TrainTypeOK'
    <2>1. /\ UNCHANGED <<docs, listed, labelFile>>
          /\ dialog'.doc = d
          /\ \/ dialog'.fault = "none"
             \/ Usable(d) /\ dialog'.fault = labelFile[d].fault
      BY <1>5 DEF OpenDialog
    <2>2. dialog'.fault \in Fault
      BY <2>1 DEF Usable, TrainTypeOK, Fault
    <2> QED
      BY <2>1, <2>2 DEF TrainTypeOK
  <1>6. ASSUME NEW d \in Doc, NEW v \in Version \cup {Gone}, Change(d, v) PROVE TrainTypeOK'
    <2>1. docs' \in [Doc -> Version \cup {Gone}] /\ UNCHANGED <<listed, labelFile>>
      BY <1>6 DEF Change, TrainTypeOK
    <2>2. dialog' # Closed => dialog'.doc \in Doc /\ dialog'.fault \in Fault
      <3>1. CASE dialog.doc = d
        <4>1. dialog # Closed
          BY <3>1, TrainingAssumption DEF Closed
        <4>2. dialog = [doc |-> dialog.doc, sentences |-> dialog.sentences, fault |-> dialog.fault]
          BY <4>1 DEF TrainInv, IsDialog
        <4>3. dialog' = [dialog EXCEPT !.fault = "replaced"]
          BY <1>6, <3>1 DEF Change
        <4>4. dialog'.doc = dialog.doc /\ dialog'.fault = "replaced"
          BY <4>2, <4>3
        <4> QED
          BY <3>1, <4>4 DEF Fault
      <3>2. CASE dialog.doc # d
        BY <1>6, <3>2 DEF Change, TrainTypeOK
      <3> QED
        BY <3>1, <3>2
    <2> QED
      BY <2>1, <2>2 DEF TrainTypeOK
  <1>7. ASSUME dialog # Closed, NEW i \in DOMAIN dialog.sentences, NEW label \in Type,
               HandleSelection(i, label)
        PROVE  TrainTypeOK'
    <2>1. dialog = [doc |-> dialog.doc, sentences |-> dialog.sentences, fault |-> dialog.fault]
      BY <1>7 DEF TrainInv, IsDialog
    <2>2. dialog'.doc = dialog.doc /\ dialog'.fault = dialog.fault
      BY <1>7, <2>1 DEF HandleSelection
    <2> QED
      BY <1>7, <2>2 DEF HandleSelection, TrainTypeOK
  <1> QED
    BY <1>1, <1>2, <1>3, <1>4, <1>5, <1>6, <1>7 DEF TrainNext

-----------------------------------------------------------------------------
(* The labels of a file.                                                   *)

Label == STRING \cup {"NONE"}
IsLabel(kind) == kind \notin NoLabel

(* What the loop of Kept computes after each label of a sentence.           *)
KeptBy(f, labels) ==
  /\ f[0] = <<>> /\ \A i \in 0 .. Len(labels) : f[i] \in Seq(Label)
  /\ \A i \in 1 .. Len(labels) :
       f[i] = IF IsLabel(labels[i]) THEN Append(f[i - 1], labels[i]) ELSE f[i - 1]

KeptOf(labels) == Kept(labels, NoLabel)

LEMMA LabelsAreKept == \A x : Labels(x) = KeptOf(x.labels)
  BY DEF Labels, KeptOf, NoLabel

LEMMA KeptLoop ==
  ASSUME NEW labels \in Seq(Label)
  PROVE  \E f : KeptBy(f, labels) /\ KeptOf(labels) = f[Len(labels)]
  <1> DEFINE step == [p \in Nat \X Seq(Label) |->
                        IF p[1] \in DOMAIN labels /\ IsLabel(labels[p[1]])
                        THEN Append(p[2], labels[p[1]]) ELSE p[2]]
             rec(kept) == [n \in 0 .. Len(labels) |->
                IF n = 0 THEN <<>>
                ELSE IF labels[n] \in NoLabel THEN kept[n - 1]
                ELSE Append(kept[n - 1], labels[n])]
             read == CHOOSE kept : kept = rec(kept)
  <1>1. ASSUME NEW i \in Nat, NEW v \in Seq(Label) PROVE step[<<i, v>>] \in Seq(Label)
    <2>1. step[<<i, v>>] = IF i \in DOMAIN labels /\ IsLabel(labels[i])
                           THEN Append(v, labels[i]) ELSE v
      OBVIOUS
    <2>2. i \in DOMAIN labels => Append(v, labels[i]) \in Seq(Label)
      OBVIOUS
    <2> HIDE DEF step
    <2> QED
      BY <2>1, <2>2
  <1>2. <<>> \in Seq(Label) /\ Len(labels) \in Nat
    OBVIOUS
  <1>3. PICK h : StepByStep(h, Seq(Label), <<>>, step, Len(labels))
    <2> HIDE DEF step
    <2> QED
      BY <1>1, <1>2, StepwiseFunction
  <1> DEFINE f == [i \in 0 .. Len(labels) |-> h[i]]
  <1>4. KeptBy(f, labels)
    <2>1. /\ h[0] = <<>> /\ \A i \in 0 .. Len(labels) : h[i] \in Seq(Label)
          /\ \A i \in 1 .. Len(labels) : h[i] = step[<<i, h[i - 1]>>]
      <3> HIDE DEF step
      <3> QED
        BY <1>3 DEF StepByStep
    <2>2. \A i \in 0 .. Len(labels) : f[i] = h[i]
      OBVIOUS
    <2> HIDE DEF f
    <2>3. ASSUME NEW i \in 1 .. Len(labels)
          PROVE  f[i] = IF IsLabel(labels[i]) THEN Append(f[i - 1], labels[i]) ELSE f[i - 1]
      <3>1. i \in Nat /\ i \in DOMAIN labels /\ i \in 0 .. Len(labels) /\ i - 1 \in 0 .. Len(labels)
        OBVIOUS
      <3>2. f[i] = step[<<i, f[i - 1]>>] /\ f[i - 1] \in Seq(Label)
        <4> HIDE DEF step
        <4> QED
          BY <2>1, <2>2, <3>1
      <3>3. <<i, f[i - 1]>> \in Nat \X Seq(Label)
        BY <3>1, <3>2
      <3> QED
        BY <3>1, <3>2, <3>3
    <2>4. f[0] = <<>>
      <3>1. 0 \in 0 .. Len(labels)
        BY <1>2
      <3> QED
        BY <2>1, <2>2, <3>1
    <2> HIDE DEF step
    <2> QED
      BY <2>1, <2>2, <2>3, <2>4 DEF KeptBy
  <1>5. f = rec(f)
    <2>1. f = [i \in 0 .. Len(labels) |-> f[i]]
      OBVIOUS
    <2>2. ASSUME NEW i \in 0 .. Len(labels)
          PROVE  f[i] = IF i = 0 THEN <<>>
                        ELSE IF IsLabel(labels[i]) THEN Append(f[i - 1], labels[i])
                        ELSE f[i - 1]
      <3> HIDE DEF f, step
      <3>1. CASE i = 0
        BY <1>4, <3>1 DEF KeptBy
      <3>2. CASE i # 0
        <4>1. i \in 1 .. Len(labels)
          BY <3>2
        <4> QED
          BY <1>4, <3>2, <4>1 DEF KeptBy
      <3> QED
        BY <3>1, <3>2
    <2> HIDE DEF f, step
    <2> QED
      BY <2>1, <2>2 DEF IsLabel
  <1>6. read = rec(read)
    <2> HIDE DEF f, rec
    <2> QED
      BY <1>5
  <1>7. KeptBy(read, labels)
    <2> DEFINE T == {n \in Nat : n <= Len(labels) => read[n] \in Seq(Label)}
    <2> HIDE DEF read
    <2>1. read[0] = <<>>
      BY <1>2, <1>6
    <2>2. ASSUME NEW n \in Nat, n + 1 <= Len(labels)
          PROVE  read[n + 1] = IF IsLabel(labels[n + 1]) THEN Append(read[n], labels[n + 1]) ELSE read[n]
      <3>1. \A i \in 0 .. Len(labels) : read[i] = rec(read)[i]
        BY <1>6
      <3>2. n + 1 \in 0 .. Len(labels) /\ (n + 1) - 1 = n /\ n + 1 # 0
        BY <2>2
      <3>3. rec(read)[n + 1] =
              IF IsLabel(labels[n + 1]) THEN Append(read[n], labels[n + 1]) ELSE read[n]
        BY <3>2 DEF IsLabel
      <3> HIDE DEF rec
      <3> QED
        BY <3>1, <3>2, <3>3
    <2>3. 0 \in T
      BY <1>2, <2>1
    <2>4. ASSUME NEW n \in Nat, n \in T PROVE n + 1 \in T
      <3> SUFFICES ASSUME n + 1 <= Len(labels) PROVE read[n + 1] \in Seq(Label)
        OBVIOUS
      <3>1. read[n] \in Seq(Label) /\ labels[n + 1] \in Label
        BY <2>4
      <3>2. Append(read[n], labels[n + 1]) \in Seq(Label)
        BY <3>1
      <3> QED
        BY <2>2, <3>1, <3>2
    <2>5. Nat \subseteq T
      <3> HIDE DEF T
      <3> QED
        BY <2>3, <2>4, Induction
    <2>6. \A i \in 0 .. Len(labels) : read[i] \in Seq(Label)
      BY <2>5
    <2>7. ASSUME NEW i \in 1 .. Len(labels)
          PROVE  read[i] = IF IsLabel(labels[i]) THEN Append(read[i - 1], labels[i]) ELSE read[i - 1]
      <3>1. i - 1 \in Nat /\ (i - 1) + 1 = i /\ i <= Len(labels)
        OBVIOUS
      <3> QED
        BY <2>2, <3>1
    <2> QED
      BY <2>1, <2>6, <2>7 DEF KeptBy
  <1>8. KeptOf(labels) = read[Len(labels)]
    BY DEF KeptOf, Kept
  <1> QED
    BY <1>7, <1>8

LEMMA UpTo ==
  ASSUME NEW n \in Nat, NEW T, 0 \in T, \A i \in 1 .. n : i - 1 \in T => i \in T
  PROVE  \A i \in 0 .. n : i \in T
  <1> DEFINE U == {i \in Nat : i <= n => i \in T}
  <1>1. 0 \in U
    OBVIOUS
  <1>2. ASSUME NEW i \in Nat, i \in U PROVE i + 1 \in U
    <2> SUFFICES ASSUME i + 1 <= n PROVE i + 1 \in T
      OBVIOUS
    <2>1. i \in T /\ i + 1 \in 1 .. n /\ (i + 1) - 1 = i
      BY <1>2
    <2> QED
      BY <2>1
  <1>3. Nat \subseteq U
    <2> HIDE DEF U
    <2> QED
      BY <1>1, <1>2, Induction
  <1> QED
    BY <1>3

(* What is kept has no NONE.                                               *)
LEMMA KeptLabels ==
  ASSUME NEW labels \in Seq(Label)
  PROVE  /\ KeptOf(labels) \in Seq(Label)
         /\ \A j \in 1 .. Len(KeptOf(labels)) : IsLabel(KeptOf(labels)[j])
  <1>1. PICK f : KeptBy(f, labels) /\ KeptOf(labels) = f[Len(labels)]
    BY KeptLoop
  <1> DEFINE T == {n \in 0 .. Len(labels) : \A j \in 1 .. Len(f[n]) : IsLabel(f[n][j])}
  <1>2. 0 \in T
    BY <1>1 DEF KeptBy
  <1>3. ASSUME NEW n \in 1 .. Len(labels), n - 1 \in T PROVE n \in T
    <2>1. /\ f[n] = IF IsLabel(labels[n]) THEN Append(f[n - 1], labels[n]) ELSE f[n - 1]
          /\ f[n - 1] \in Seq(Label) /\ labels[n] \in Label
      BY <1>1 DEF KeptBy
    <2>2. CASE IsLabel(labels[n])
      <3>1. f[n] = Append(f[n - 1], labels[n])
        BY <2>1, <2>2
      <3>2. /\ Len(f[n]) = Len(f[n - 1]) + 1 /\ f[n][Len(f[n - 1]) + 1] = labels[n]
            /\ \A j \in 1 .. Len(f[n - 1]) : f[n][j] = f[n - 1][j]
        BY <2>1, <3>1, AppendProperties
      <3>3. Len(f[n - 1]) \in Nat /\ \A j \in 1 .. Len(f[n - 1]) : IsLabel(f[n - 1][j])
        BY <1>3, <2>1
      <3>4. ASSUME NEW j \in 1 .. Len(f[n]) PROVE IsLabel(f[n][j])
        <4>1. j = Len(f[n - 1]) + 1 \/ j \in 1 .. Len(f[n - 1])
          BY <3>2, <3>3
        <4>2. CASE j = Len(f[n - 1]) + 1
          BY <2>2, <3>2, <4>2
        <4>3. CASE j \in 1 .. Len(f[n - 1])
          <5>1. f[n][j] = f[n - 1][j] /\ IsLabel(f[n - 1][j])
            BY <3>2, <3>3, <4>3
          <5> QED
            BY <5>1
        <4> QED
          BY <4>1, <4>2, <4>3
      <3> QED
        BY <3>4
    <2>3. CASE ~IsLabel(labels[n])
      BY <1>3, <2>1, <2>3
    <2> QED
      BY <2>2, <2>3
  <1>4. \A n \in 0 .. Len(labels) : n \in T
    <2>1. Len(labels) \in Nat
      OBVIOUS
    <2> HIDE DEF T
    <2> QED
      BY <1>2, <1>3, <2>1, UpTo
  <1>5. Len(labels) \in 0 .. Len(labels)
    OBVIOUS
  <1> QED
    BY <1>1, <1>4, <1>5 DEF KeptBy

(* Without a NONE nothing is left out.                                     *)
LEMMA KeptSame ==
  ASSUME NEW labels \in Seq(Label), \A j \in 1 .. Len(labels) : IsLabel(labels[j])
  PROVE  KeptOf(labels) = labels
  <1>1. PICK f : KeptBy(f, labels) /\ KeptOf(labels) = f[Len(labels)]
    BY KeptLoop
  <1> DEFINE T == {n \in 0 .. Len(labels) :
                     Len(f[n]) = n /\ \A j \in 1 .. n : f[n][j] = labels[j]}
  <1>2. 0 \in T
    BY <1>1 DEF KeptBy
  <1>3. ASSUME NEW n \in 1 .. Len(labels), n - 1 \in T PROVE n \in T
    <2>1. IsLabel(labels[n])
      OBVIOUS
    <2>2. \A i \in 1 .. Len(labels) : IsLabel(labels[i]) => f[i] = Append(f[i - 1], labels[i])
      BY <1>1, Zenon DEF KeptBy
    <2>3. \A i \in 0 .. Len(labels) : f[i] \in Seq(Label)
      BY <1>1 DEF KeptBy
    <2>4. /\ f[n] = Append(f[n - 1], labels[n])
          /\ f[n - 1] \in Seq(Label) /\ labels[n] \in Label
      <3>1. f[n] = Append(f[n - 1], labels[n])
        BY <2>1, <2>2, Zenon
      <3> QED
        BY <2>3, <3>1
    <2>5. Len(f[n - 1]) = n - 1 /\ \A j \in 1 .. n - 1 : f[n - 1][j] = labels[j]
      BY <1>3
    <2>6. /\ Len(f[n]) = Len(f[n - 1]) + 1 /\ f[n][Len(f[n - 1]) + 1] = labels[n]
          /\ \A j \in 1 .. Len(f[n - 1]) : f[n][j] = f[n - 1][j]
      BY <2>4, AppendProperties
    <2>7. Len(f[n]) = n /\ f[n][n] = labels[n]
      BY <2>5, <2>6
    <2>8. ASSUME NEW j \in 1 .. n - 1 PROVE f[n][j] = labels[j]
      BY <2>5, <2>6
    <2>9. \A j \in 1 .. n : j = n \/ j \in 1 .. n - 1
      OBVIOUS
    <2>10. \A j \in 1 .. n : f[n][j] = labels[j]
      BY <2>7, <2>8, <2>9
    <2> QED
      BY <2>7, <2>10
  <1>4. \A n \in 0 .. Len(labels) : n \in T
    <2>1. Len(labels) \in Nat
      OBVIOUS
    <2> HIDE DEF T
    <2> QED
      BY <1>2, <1>3, <2>1, UpTo
  <1>5. Len(labels) \in 0 .. Len(labels)
    OBVIOUS
  <1>6. /\ Len(f[Len(labels)]) = Len(labels) /\ f[Len(labels)] \in Seq(Label)
        /\ \A j \in 1 .. Len(labels) : f[Len(labels)][j] = labels[j]
    BY <1>1, <1>4, <1>5 DEF KeptBy
  <1> QED
    BY <1>1, <1>6, SeqEqual

(* Reading a file and saving what was read changes no label.               *)
LEMMA KeptTwice ==
  ASSUME NEW labels \in Seq(Label) PROVE KeptOf(KeptOf(labels)) = KeptOf(labels)
  BY KeptLabels, KeptSame

(* A label that is added is added behind those kept.                       *)
LEMMA KeptAppend ==
  ASSUME NEW labels \in Seq(Label), NEW kind \in Label
  PROVE  \/ KeptOf(Append(labels, kind)) = KeptOf(labels)
         \/ KeptOf(Append(labels, kind)) = Append(KeptOf(labels), kind)
  <1> DEFINE more == Append(labels, kind)
  <1>1. /\ more \in Seq(Label) /\ Len(more) = Len(labels) + 1 /\ more[Len(labels) + 1] = kind
        /\ \A i \in 1 .. Len(labels) : more[i] = labels[i]
    BY AppendProperties
  <1> HIDE DEF more
  <1>2. PICK f : KeptBy(f, labels) /\ KeptOf(labels) = f[Len(labels)]
    BY KeptLoop
  <1>3. PICK h : KeptBy(h, more) /\ KeptOf(more) = h[Len(more)]
    BY <1>1, KeptLoop
  <1> DEFINE T == {n \in 0 .. Len(labels) : h[n] = f[n]}
  <1>4. 0 \in T
    BY <1>2, <1>3 DEF KeptBy
  <1>5. ASSUME NEW n \in 1 .. Len(labels), n - 1 \in T PROVE n \in T
    <2>1. n \in 1 .. Len(more) /\ more[n] = labels[n] /\ h[n - 1] = f[n - 1]
      BY <1>1, <1>5
    <2> QED
      BY <1>2, <1>3, <2>1 DEF KeptBy
  <1>6. \A n \in 0 .. Len(labels) : n \in T
    <2>1. Len(labels) \in Nat
      OBVIOUS
    <2> HIDE DEF T
    <2> QED
      BY <1>4, <1>5, <2>1, UpTo
  <1>7. Len(labels) \in Nat /\ Len(more) \in 1 .. Len(more) /\ Len(more) - 1 = Len(labels)
    BY <1>1
  <1>8. h[Len(more)] = IF IsLabel(kind) THEN Append(h[Len(labels)], kind) ELSE h[Len(labels)]
    BY <1>1, <1>3, <1>7 DEF KeptBy
  <1>9. h[Len(labels)] = f[Len(labels)]
    BY <1>6, <1>7
  <1> QED
    BY <1>2, <1>3, <1>8, <1>9 DEF more

(* A sentence without labels is saved with a NONE, which is left out.       *)
LEMMA KeptNone == KeptOf(<<>>) = <<>> /\ KeptOf(<<"NONE">>) = <<>>
  <1>1. ASSUME NEW labels \in Seq(Label), labels = <<>> \/ labels = <<"NONE">>
        PROVE  KeptOf(labels) = <<>>
    <2>1. PICK f : KeptBy(f, labels) /\ KeptOf(labels) = f[Len(labels)]
      BY KeptLoop
    <2>2. Len(labels) = 0 \/ (Len(labels) = 1 /\ labels[1] = "NONE")
      BY <1>1
    <2> QED
      BY <2>1, <2>2 DEF KeptBy, IsLabel, NoLabel
  <1>2. <<>> \in Seq(Label) /\ <<"NONE">> \in Seq(Label)
    <2>1. "NONE" \in Label
      BY DEF Label
    <2>2. \A kind \in Label : <<kind>> \in Seq(Label)
      OBVIOUS
    <2> QED
      BY <2>1, <2>2
  <1> QED
    BY <1>1, <1>2

LEMMA PrefixOfItself ==
  ASSUME NEW s \in Seq(Label) PROVE IsPrefix(s, s)
  BY DEF IsPrefix

LEMMA PrefixOfMore ==
  ASSUME NEW s \in Seq(Label), NEW t \in Seq(Label), NEW kind \in Label, IsPrefix(s, t)
  PROVE  IsPrefix(s, Append(t, kind))
  <1>1. Len(s) \in 0 .. Len(t) /\ SubSeq(s, 1, Len(s)) = SubSeq(t, 1, Len(s))
    BY DEF IsPrefix
  <1>2. /\ Append(t, kind) \in Seq(Label) /\ Len(Append(t, kind)) = Len(t) + 1
        /\ \A i \in 1 .. Len(t) : Append(t, kind)[i] = t[i]
    BY AppendProperties
  <1>3. /\ SubSeq(t, 1, Len(s)) \in Seq(Label) /\ Len(SubSeq(t, 1, Len(s))) = Len(s)
        /\ \A k \in 1 .. Len(s) : SubSeq(t, 1, Len(s))[k] = t[k]
    BY <1>1, SubSeqElements
  <1> DEFINE more == Append(t, kind)
  <1> HIDE DEF more
  <1>4. more \in Seq(Label) /\ Len(s) \in 0 .. Len(more)
    BY <1>1, <1>2 DEF more
  <1>5. /\ SubSeq(more, 1, Len(s)) \in Seq(Label) /\ Len(SubSeq(more, 1, Len(s))) = Len(s)
        /\ \A k \in 1 .. Len(s) : SubSeq(more, 1, Len(s))[k] = more[k]
    BY <1>4, SubSeqElements
  <1>6. \A k \in 1 .. Len(s) : more[k] = t[k]
    BY <1>1, <1>2 DEF more
  <1>7. SubSeq(more, 1, Len(s)) = SubSeq(t, 1, Len(s))
    BY <1>3, <1>5, <1>6, SeqEqual
  <1> QED
    BY <1>1, <1>4, <1>7 DEF IsPrefix, more

Labelled(sentences) == \A i \in DOMAIN sentences : sentences[i].labels \in Seq(Label)

Extends(old, new) ==
  /\ DOMAIN old = DOMAIN new
  /\ \A i \in DOMAIN old : IsPrefix(KeptOf(old[i].labels), KeptOf(new[i].labels))

(* While no fault was seen, a dialog shows the labels of the file, if they  *)
(* can be used, and behind them what was added.                            *)
LabelsInv ==
  /\ \A d \in Doc : labelFile[d].state = "saved" => Labelled(labelFile[d].labels)
  /\ dialog # Closed =>
       /\ Labelled(dialog.sentences)
       /\ dialog.fault = "none" /\ Usable(dialog.doc) =>
            Extends(labelFile[dialog.doc].labels, dialog.sentences)

LEMMA ReadLabels ==
  ASSUME NEW s, Labelled(s), \A i \in DOMAIN s : IsSentence(s[i])
  PROVE  Labelled(FromJson(s)) /\ Extends(s, FromJson(s))
  <1>1. DOMAIN FromJson(s) = DOMAIN s
    BY DEF FromJson
  <1>2. ASSUME NEW i \in DOMAIN s PROVE FromJson(s)[i].labels = KeptOf(s[i].labels)
    BY <1>2 DEF FromJson, IsSentence, KeptOf
  <1>3. ASSUME NEW i \in DOMAIN s
        PROVE  /\ KeptOf(s[i].labels) \in Seq(Label)
               /\ IsPrefix(KeptOf(s[i].labels), KeptOf(KeptOf(s[i].labels)))
    <2>1. s[i].labels \in Seq(Label)
      BY DEF Labelled
    <2>2. KeptOf(s[i].labels) \in Seq(Label)
      BY <2>1, KeptLabels
    <2>3. KeptOf(KeptOf(s[i].labels)) = KeptOf(s[i].labels)
      BY <2>1, KeptTwice
    <2> QED
      BY <2>2, <2>3, PrefixOfItself
  <1> QED
    BY <1>1, <1>2, <1>3 DEF Labelled, Extends

LEMMA SavedLabels ==
  ASSUME NEW s, Labelled(s), \A i \in DOMAIN s : IsSentence(s[i])
  PROVE  /\ Labelled(WithNone(s))
         /\ \A old : Extends(old, s) => Extends(old, WithNone(s))
  <1>1. DOMAIN WithNone(s) = DOMAIN s
    BY DEF WithNone
  <1>2. ASSUME NEW i \in DOMAIN s
        PROVE  /\ WithNone(s)[i].labels \in Seq(Label)
               /\ KeptOf(WithNone(s)[i].labels) = KeptOf(s[i].labels)
    <2>1. s[i].labels \in Seq(Label)
      BY DEF Labelled
    <2>2. <<"NONE">> \in Seq(Label)
      <3>1. "NONE" \in Label
        BY DEF Label
      <3>2. \A kind \in Label : <<kind>> \in Seq(Label)
        OBVIOUS
      <3> QED
        BY <3>1, <3>2
    <2>3. CASE s[i].labels = <<>>
      <3>1. WithNone(s)[i].labels = <<"NONE">>
        BY <2>3 DEF WithNone, IsSentence
      <3> QED
        BY <2>2, <2>3, <3>1, KeptNone
    <2>4. CASE s[i].labels # <<>>
      <3>1. WithNone(s)[i] = s[i]
        BY <2>4 DEF WithNone
      <3> QED
        BY <2>1, <3>1
    <2> QED
      BY <2>3, <2>4
  <1> QED
    BY <1>1, <1>2 DEF Labelled, Extends

LEMMA LabelsStart == TrainInit => LabelsInv
  BY DEF TrainInit, LabelsInv, NoFile

LEMMA OpenLabels ==
  ASSUME TrainInv, LabelsInv, NEW d \in Doc, OpenDialog(d) PROVE LabelsInv'
  <1>1. UNCHANGED <<docs, labelFile>> /\ (Usable(d)' <=> Usable(d))
    BY DEF OpenDialog, Usable
  <1>2. CASE Usable(d)
    <2> DEFINE s == labelFile[d].labels
    <2>1. Labelled(s) /\ \A i \in DOMAIN s : IsSentence(s[i])
      BY <1>2 DEF LabelsInv, TrainInv, AreOf, Usable
    <2>2. Labelled(FromJson(s)) /\ Extends(s, FromJson(s))
      BY <2>1, ReadLabels
    <2>3. dialog'.doc = d /\ dialog'.sentences = FromJson(s)
      BY <1>2 DEF OpenDialog
    <2> QED
      BY <1>1, <2>2, <2>3 DEF LabelsInv
  <1>3. CASE ~Usable(d)
    <2>1. /\ dialog'.doc = d /\ dialog'.sentences = Found(docs[d]) /\ docs[d] \in Version
      BY <1>3 DEF OpenDialog
    <2>2. Seq(STRING) \subseteq Seq(Label)
      BY DEF Label
    <2>3. Labelled(Found(docs[d]))
      BY <2>1, <2>2, TrainingAssumption DEF Labelled
    <2> QED
      BY <1>1, <1>3, <2>1, <2>3 DEF LabelsInv
  <1> QED
    BY <1>2, <1>3

LEMMA SelectionLabels ==
  ASSUME TrainInv, LabelsInv, dialog # Closed, NEW i \in DOMAIN dialog.sentences,
         NEW kind \in Type, HandleSelection(i, kind)
  PROVE  LabelsInv'
  <1> DEFINE s == dialog.sentences
             t == dialog'.sentences
  <1>1. kind \in Label
    BY TrainingAssumption DEF Label
  <1>2. /\ dialog'.doc = dialog.doc /\ dialog'.fault = dialog.fault
        /\ t = [s EXCEPT ![i].labels = Append(@, kind)]
    BY DEF HandleSelection, TrainInv, IsDialog
  <1>3. UNCHANGED <<docs, labelFile>> /\ (Usable(dialog.doc)' <=> Usable(dialog.doc))
    BY <1>2 DEF HandleSelection, Usable
  <1>4. Labelled(s) /\ \A k \in DOMAIN s : IsSentence(s[k])
    BY DEF LabelsInv, TrainInv, AreOf
  <1>5. /\ DOMAIN t = DOMAIN s /\ t[i].labels = Append(s[i].labels, kind)
        /\ \A k \in DOMAIN s \ {i} : t[k] = s[k]
    BY <1>2, <1>4 DEF IsSentence
  <1> HIDE DEF s, t
  <1>6. /\ s[i].labels \in Seq(Label) /\ t[i].labels \in Seq(Label)
        /\ \/ KeptOf(t[i].labels) = KeptOf(s[i].labels)
           \/ KeptOf(t[i].labels) = Append(KeptOf(s[i].labels), kind)
    <2>1. s[i].labels \in Seq(Label)
      BY <1>4 DEF Labelled, s
    <2> QED
      BY <1>1, <1>5, <2>1, KeptAppend
  <1>7. Labelled(t)
    BY <1>4, <1>5, <1>6 DEF Labelled
  <1>8. ASSUME NEW old, \A k \in DOMAIN old : old[k].labels \in Seq(Label), Extends(old, s)
        PROVE  Extends(old, t)
    <2>1. DOMAIN old = DOMAIN s /\ i \in DOMAIN s
      BY <1>8 DEF Extends, s
    <2>2. IsPrefix(KeptOf(old[i].labels), KeptOf(s[i].labels))
      BY <1>8, <2>1 DEF Extends
    <2>3. KeptOf(old[i].labels) \in Seq(Label) /\ KeptOf(s[i].labels) \in Seq(Label)
      BY <1>6, <1>8, <2>1, KeptLabels
    <2>4. IsPrefix(KeptOf(old[i].labels), KeptOf(t[i].labels))
      BY <1>1, <1>6, <2>2, <2>3, PrefixOfMore
    <2> QED
      BY <1>5, <1>8, <2>1, <2>4 DEF Extends
  <1>9. dialog.fault = "none" /\ Usable(dialog.doc) => Extends(labelFile[dialog.doc].labels, t)
    <2> SUFFICES ASSUME dialog.fault = "none", Usable(dialog.doc)
                 PROVE  Extends(labelFile[dialog.doc].labels, t)
      OBVIOUS
    <2>1. Extends(labelFile[dialog.doc].labels, s)
      BY DEF LabelsInv, s
    <2>2. Labelled(labelFile[dialog.doc].labels)
      BY DEF LabelsInv, TrainInv, Usable
    <2> QED
      BY <1>8, <2>1, <2>2 DEF Labelled
  <1> QED
    BY <1>2, <1>3, <1>7, <1>9 DEF LabelsInv, t

LEMMA CloseLabels == TrainInv /\ LabelsInv /\ (Accept \/ Cancel \/ Crash) => LabelsInv'
  <1> SUFFICES ASSUME TrainInv, LabelsInv, Accept \/ Cancel \/ Crash PROVE LabelsInv'
    OBVIOUS
  <1>1. dialog # Closed /\ dialog' = Closed
    BY DEF Accept, Cancel, Crash
  <1>2. ASSUME NEW d \in Doc, labelFile'[d].state = "saved" PROVE Labelled(labelFile'[d].labels)
    <2>1. CASE labelFile'[d] = labelFile[d]
      BY <1>2, <2>1 DEF LabelsInv
    <2>2. CASE labelFile'[d] # labelFile[d]
      <3>1. labelFile'[d].labels = <<>> \/ labelFile'[d].labels = WithNone(dialog.sentences)
        BY <1>2, <2>2 DEF Accept, Cancel, Crash, Saved, TrainInv
      <3>2. Labelled(<<>>)
        BY DEF Labelled
      <3>3. Labelled(WithNone(dialog.sentences))
        BY <1>1, SavedLabels DEF LabelsInv, TrainInv, AreOf
      <3> QED
        BY <3>1, <3>2, <3>3
    <2> QED
      BY <2>1, <2>2
  <1> QED
    BY <1>1, <1>2 DEF LabelsInv

LEMMA ChangeLabels ==
  ASSUME TrainInv, LabelsInv, NEW d \in Doc, NEW v \in Version \cup {Gone}, Change(d, v)
  PROVE  LabelsInv'
  <1>1. labelFile' = labelFile
    BY DEF Change
  <1>2. CASE dialog.doc # d
    <2>1. dialog' = dialog /\ docs' = [docs EXCEPT ![d] = v]
      BY <1>2 DEF Change
    <2>2. dialog # Closed => (Usable(dialog.doc)' <=> Usable(dialog.doc))
      BY <1>1, <1>2, <2>1 DEF Usable, TrainInv
    <2> QED
      BY <1>1, <2>1, <2>2 DEF LabelsInv
  <1>3. CASE dialog.doc = d
    <2>1. dialog # Closed
      BY <1>3, TrainingAssumption DEF Closed
    <2>2. dialog' = [dialog EXCEPT !.fault = "replaced"] /\ IsDialog(dialog)
      BY <1>3, <2>1 DEF Change, TrainInv
    <2>3. dialog'.sentences = dialog.sentences /\ dialog'.fault = "replaced"
      BY <2>2 DEF IsDialog
    <2> QED
      BY <1>1, <2>1, <2>3 DEF LabelsInv
  <1> QED
    BY <1>2, <1>3

LEMMA LabelsStep == TrainInv /\ LabelsInv /\ [TrainNext]_trainVars => LabelsInv'
  <1> SUFFICES ASSUME TrainInv, LabelsInv, [TrainNext]_trainVars PROVE LabelsInv'
    OBVIOUS
  <1>1. CASE UNCHANGED trainVars
    BY <1>1 DEF trainVars, LabelsInv, Usable
  <1>2. CASE RefreshList \/ SendAll \/ \E d \in Doc : RemoveDoc(d)
    <2>1. dialog = Closed /\ UNCHANGED <<labelFile, dialog>>
      BY <1>2 DEF RefreshList, SendAll, RemoveDoc
    <2> QED
      BY <2>1 DEF LabelsInv
  <1>3. CASE Accept \/ Cancel \/ Crash
    BY <1>3, CloseLabels
  <1>4. CASE \E d \in Doc : OpenDialog(d)
    BY <1>4, OpenLabels
  <1>5. CASE \E d \in Doc : \E v \in Version \cup {Gone} : Change(d, v)
    BY <1>5, ChangeLabels
  <1>6. CASE /\ dialog # Closed
             /\ \E i \in DOMAIN dialog.sentences, kind \in Type : HandleSelection(i, kind)
    BY <1>6, SelectionLabels
  <1> QED
    BY <1>1, <1>2, <1>3, <1>4, <1>5, <1>6 DEF TrainNext

(* One step leaves the labels in the file of a document, or puts those of   *)
(* the dialog there, which extend them.                                     *)
LEMMA LabelsStay ==
  ASSUME TrainInv, LabelsInv, [TrainNext]_trainVars, NEW d \in Doc, Usable(d)
  PROVE  \/ labelFile'[d].state = "cut"
         \/ labelFile'[d].fault # "none"
         \/ \A i \in DOMAIN labelFile[d].labels :
              IsPrefix(Labels(labelFile[d].labels[i]), Labels(labelFile'[d].labels[i]))
  <1> DEFINE s == labelFile[d].labels
  <1>1. Labelled(s)
    BY DEF LabelsInv, Usable
  <1>2. CASE labelFile'[d] = labelFile[d]
    <2>1. ASSUME NEW i \in DOMAIN s PROVE IsPrefix(KeptOf(s[i].labels), KeptOf(s[i].labels))
      BY <1>1, KeptLabels, PrefixOfItself DEF Labelled
    <2> QED
      BY <1>2, <2>1, LabelsAreKept
  <1>3. CASE labelFile'[d] # labelFile[d]
    <2>1. dialog # Closed /\ dialog.doc = d /\ (Accept \/ Cancel \/ Crash)
      BY <1>3 DEF TrainNext, trainVars, RefreshList, SendAll, RemoveDoc, OpenDialog, Change,
                  HandleSelection, Accept, Cancel, Crash, Saved, TrainInv
    <2>2. docs[d] # Gone
      BY DEF Usable
    <2>3. CASE Accept
      <3>1. /\ labelFile'[d].labels = WithNone(dialog.sentences)
            /\ labelFile'[d].fault = dialog.fault
        BY <2>1, <2>2, <2>3 DEF Accept, Saved, TrainInv
      <3>2. CASE dialog.fault = "none"
        <4>1. Extends(s, dialog.sentences) /\ Labelled(dialog.sentences)
          BY <2>1, <3>2 DEF LabelsInv
        <4>2. \A i \in DOMAIN dialog.sentences : IsSentence(dialog.sentences[i])
          BY <2>1 DEF TrainInv, AreOf
        <4>3. Extends(s, labelFile'[d].labels)
          BY <3>1, <4>1, <4>2, SavedLabels
        <4> QED
          BY <4>3, LabelsAreKept DEF Extends
      <3> QED
        BY <3>1, <3>2
    <2>4. CASE Cancel
      BY <2>1, <2>2, <2>4 DEF Cancel, Saved, TrainInv
    <2>5. CASE Crash
      BY <1>3, <2>1, <2>5 DEF Crash, TrainInv
    <2> QED
      BY <2>1, <2>3, <2>4, <2>5
  <1> QED
    BY <1>2, <1>3

(* Labels are only ever added, whatever the documents and the types of      *)
(* labels, however often a dialog is opened and accepted, except in the     *)
(* cases LabelsKept names.                                                  *)
THEOREM LabelsCorrect == TrainSpec => LabelsKept
  <1>1. TrainInv /\ LabelsInv /\ [TrainNext]_trainVars =>
          [\A d \in Doc :
             Usable(d) /\ docs'[d] = docs[d] =>
               \/ labelFile'[d].state = "cut"
               \/ labelFile'[d].fault # "none"
               \/ \A i \in DOMAIN labelFile[d].labels :
                    IsPrefix(Labels(labelFile[d].labels[i]), Labels(labelFile'[d].labels[i]))
            ]_trainVars
    BY LabelsStay
  <1> QED
    BY TrainStarts, TrainStep, LabelsStart, LabelsStep, <1>1, PTL DEF TrainSpec, LabelsKept

-----------------------------------------------------------------------------
(* The words.                                                              *)

USE BuilderAssumption DEF Thread

(* While the flag is down and no build has failed, a thread is on its way  *)
(* to raise it.                                                            *)
FlagInv ==
  ~buildFlag /\ ~dirty => \E t \in Builder \cup RegexBuilder : at[t] # "none"

BeforeWords(t) == at[t] \in {"args", "flag", "lock", "trie"}

(* After the last change nothing is pending, and the trie has the words or *)
(* a thread will read them.                                                *)
WordsInv ==
  ~dirty =>
    /\ Listed = pattern
    /\ \/ racing
       \/ \E t \in Builder : BeforeWords(t)
       \/ trie = "whole" /\ inTrie = pattern

PageInv == TypeOK /\ FlagInv /\ WordsInv /\ BuildingEnds /\ SavedUnlessModified

LEMMA PageStarts == Init => PageInv
  <1> SUFFICES ASSUME Init PROVE PageInv
    OBVIOUS
  <1>1. PICK t \in Builder : at = [u \in Thread |-> IF u = t THEN "args" ELSE "none"]
    BY DEF Init, RuleInit
  <1>2. t \in Thread \ RegexBuilder /\ at[t] = "args"
    BY <1>1
  <1>3. TypeOK
    BY <1>1 DEF Init, RuleInit, TypeOK, RuleTypeOK
  <1>4. FlagInv /\ BuildingEnds
    BY <1>2 DEF FlagInv, BuildingEnds
  <1>5. WordsInv
    BY <1>2 DEF WordsInv, BeforeWords, Init, Listed
  <1>6. SavedUnlessModified
    BY DEF SavedUnlessModified, Init
  <1> QED
    BY <1>3, <1>4, <1>5, <1>6 DEF PageInv

LEMMA RulesStay == RuleTypeOK /\ UNCHANGED ruleVars => RuleTypeOK'
  BY DEF RuleTypeOK, ruleVars

(* Every change marks the words as modified and the builds as out of date. *)
LEMMA EditKeeps ==
  ASSUME PageInv, MarkModified, pattern' \subseteq Word, inserted' \subseteq Word,
         erased' \subseteq Word, racing' \in BOOLEAN
  PROVE  PageInv'
  <1>1. /\ modified' = TRUE /\ enabled' = TRUE /\ dirty' = TRUE
        /\ UNCHANGED <<isBuilding, wasEnabled, unsaved, file, report, waiting, inTrie,
                       ruleVars>>
    BY DEF MarkModified
  <1>2. TypeOK'
    <2>1. RuleTypeOK'
      BY <1>1, RulesStay DEF PageInv, TypeOK
    <2> QED
      BY <1>1, <2>1 DEF PageInv, TypeOK
  <1>3. BuildingEnds'
    BY <1>1 DEF PageInv, BuildingEnds, ruleVars
  <1> QED
    BY <1>1, <1>2, <1>3 DEF PageInv, FlagInv, WordsInv, SavedUnlessModified

LEMMA UndoKeeps == PageInv /\ Undo => PageInv'
  <1> SUFFICES ASSUME PageInv, Undo PROVE PageInv'
    OBVIOUS
  <1>1. Listed' = pattern'
    BY DEF Undo, Listed
  <1>2. TypeOK'
    <2>1. RuleTypeOK'
      BY RulesStay DEF Undo, PageInv, TypeOK
    <2> QED
      BY <2>1 DEF Undo, PageInv, TypeOK, historyVars
  <1>3. FlagInv' /\ BuildingEnds'
    BY DEF Undo, PageInv, FlagInv, BuildingEnds, ruleVars, historyVars
  <1>4. WordsInv'
    BY <1>1 DEF Undo, PageInv, WordsInv, BeforeWords, ruleVars, historyVars
  <1>5. SavedUnlessModified'
    BY <1>1 DEF Undo, PageInv, SavedUnlessModified, historyVars
  <1> QED
    BY <1>2, <1>3, <1>4, <1>5 DEF PageInv

(* A thread that starts: the others stay where they are.                   *)
LEMMA Starts ==
  ASSUME RuleTypeOK, NEW t \in Thread, StartBuild(t)
  PROVE  /\ RuleTypeOK' /\ at'[t] # "none"
         /\ at'[t] = "args" \/ t \in RegexBuilder
         /\ \A u \in Thread \ {t} : at'[u] = at[u]
         /\ at[t] = "none"
         /\ UNCHANGED <<buildFlag, writer, trie, hashes>>
  BY DEF StartBuild, Goes, RuleTypeOK

(* After the click the list is the set, and the file if it could be saved. *)
LEMMA ClickedKeeps == PageInv /\ BuildClicked => PageInv'
  <1> SUFFICES ASSUME PageInv, BuildClicked PROVE PageInv'
    OBVIOUS
  <1>1. /\ Listed' = pattern' /\ modified' = FALSE
        /\ ~unsaved' => file' = pattern'
    BY DEF BuildClicked, UpdatePatternSet, Merged, LeftOver, Listed, Save
  <1>2. /\ pattern' = Listed /\ enabled' = FALSE
        /\ pattern' \subseteq Word /\ inserted' \subseteq Word /\ erased' \subseteq Word
        /\ file' \subseteq Word /\ unsaved' \in BOOLEAN /\ racing' \in BOOLEAN
        /\ racing => racing'
        /\ UNCHANGED <<wasEnabled, report, waiting, inTrie>>
    BY DEF BuildClicked, UpdatePatternSet, Merged, LeftOver, Listed, Save, Races, PageInv, TypeOK
  <1>3. CASE isBuilding /\ UNCHANGED <<ruleVars, isBuilding, dirty>>
    <2>0. RuleTypeOK'
      BY <1>3, RulesStay DEF PageInv, TypeOK
    <2>1. TypeOK'
      BY <1>1, <1>2, <1>3, <2>0 DEF PageInv, TypeOK
    <2>2. FlagInv'
      BY <1>3 DEF PageInv, FlagInv, ruleVars
    <2>3. WordsInv'
      BY <1>1, <1>2, <1>3 DEF PageInv, WordsInv, BeforeWords, ruleVars
    <2>4. BuildingEnds'
      BY <1>2, <1>3 DEF PageInv, BuildingEnds, ruleVars
    <2>5. SavedUnlessModified'
      BY <1>1 DEF SavedUnlessModified
    <2> QED
      BY <2>1, <2>2, <2>3, <2>4, <2>5 DEF PageInv
  <1>4. CASE ~isBuilding /\ dirty' = FALSE /\ \E t \in Builder : StartThread(t)
    <2>1. PICK t \in Builder : StartBuild(t) /\ isBuilding' = TRUE
      BY <1>4 DEF StartThread
    <2>2. t \in Thread \ RegexBuilder /\ at'[t] = "args" /\ RuleTypeOK'
      BY <2>1, Starts DEF PageInv, TypeOK
    <2>3. FlagInv' /\ BuildingEnds'
      BY <2>2 DEF FlagInv, BuildingEnds
    <2>4. WordsInv'
      BY <1>1, <2>2 DEF WordsInv, BeforeWords
    <2>5. TypeOK'
      BY <1>1, <1>2, <1>4, <2>1, <2>2 DEF TypeOK, PageInv
    <2> QED
      BY <1>1, <2>3, <2>4, <2>5 DEF PageInv, SavedUnlessModified
  <1> QED
    BY <1>3, <1>4 DEF BuildClicked, BuildFilteringInterface

(* Threads that do not build the trie start.                               *)
LEMMA OtherStartKeeps ==
  ASSUME PageInv, NEW t \in ImageBuilder \cup RegexBuilder,
         \/ t \in ImageBuilder /\ UpdateImages(t)
         \/ t \in RegexBuilder /\ ApplyRegex(t)
  PROVE  PageInv'
  <1>1. /\ StartBuild(t)
        /\ UNCHANGED <<draftVars, file, modified, report, waiting, inTrie, historyVars>>
    BY DEF UpdateImages, ApplyRegex, StartThread
  <1>2. /\ RuleTypeOK' /\ at'[t] # "none" /\ at[t] = "none"
        /\ \A u \in Thread \ {t} : at'[u] = at[u]
        /\ UNCHANGED <<buildFlag, trie>>
    BY <1>1, Starts DEF PageInv, TypeOK
  <1>3. TypeOK'
    <2>1. enabled' \in BOOLEAN /\ isBuilding' \in BOOLEAN /\ wasEnabled' \in [Thread -> BOOLEAN]
      BY DEF UpdateImages, ApplyRegex, StartThread, buttonVars, PageInv, TypeOK
    <2> QED
      BY <1>1, <1>2, <2>1 DEF TypeOK, PageInv, draftVars, historyVars
  <1>4. FlagInv'
    BY <1>1, <1>2 DEF FlagInv, PageInv, historyVars
  <1>5. WordsInv'
    BY <1>1, <1>2 DEF WordsInv, PageInv, BeforeWords, Listed, historyVars, draftVars
  <1>6. BuildingEnds'
    <2>1. CASE t \in ImageBuilder
      BY <1>2, <2>1 DEF BuildingEnds
    <2>2. CASE t \in RegexBuilder
      BY <1>1, <1>2, <2>2 DEF BuildingEnds, PageInv, ApplyRegex, UpdateImages, buttonVars
    <2> QED
      BY <2>1, <2>2
  <1> QED
    BY <1>1, <1>3, <1>4, <1>5, <1>6 DEF PageInv, SavedUnlessModified, Listed, draftVars, historyVars
(* The event loop alone: waiting for the engine, and reports.              *)
LEMMA LoopKeeps ==
  PageInv /\ (AskForEngine \/ EngineGiven \/ \E t \in Thread : Report(t)) => PageInv'
  <1> SUFFICES ASSUME PageInv, AskForEngine \/ EngineGiven \/ \E t \in Thread : Report(t)
               PROVE  PageInv'
    OBVIOUS
  <1>1. UNCHANGED <<ruleVars, draftVars, file, modified, inTrie, historyVars>>
    BY DEF AskForEngine, EngineGiven, Report
  <1>2. FlagInv' /\ WordsInv' /\ SavedUnlessModified'
    <2>1. FlagInv'
      BY <1>1 DEF PageInv, FlagInv, ruleVars, historyVars
    <2>2. WordsInv'
      BY <1>1 DEF PageInv, WordsInv, BeforeWords, Listed, ruleVars, draftVars, historyVars
    <2>3. SavedUnlessModified'
      BY <1>1 DEF PageInv, SavedUnlessModified, Listed, draftVars, historyVars
    <2> QED
      BY <2>1, <2>2, <2>3
  <1>3. RuleTypeOK'
    BY <1>1, RulesStay DEF PageInv, TypeOK
  <1>4. CASE AskForEngine \/ EngineGiven
    <2>1. UNCHANGED <<buttonVars, report>> /\ waiting' \in BOOLEAN
      BY <1>4 DEF AskForEngine, EngineGiven
    <2>2. TypeOK'
      BY <1>1, <1>3, <2>1 DEF PageInv, TypeOK, draftVars, buttonVars, historyVars
    <2>3. BuildingEnds'
      BY <1>1, <2>1 DEF PageInv, BuildingEnds, ruleVars, buttonVars
    <2> QED
      BY <1>2, <2>2, <2>3 DEF PageInv
  <1>5. ASSUME NEW t \in Thread, Report(t) PROVE PageInv'
    <2>1. enabled' \in BOOLEAN
      BY <1>5, Zenon DEF Report, ButtonAfter, PageInv, TypeOK
    <2>2. TypeOK'
      BY <1>1, <1>3, <1>5, <2>1 DEF Report, BuildingAfter, PageInv, TypeOK, draftVars, historyVars
    <2>3. BuildingEnds'
      BY <1>5 DEF Report, BuildingAfter, BuildingEnds
    <2> QED
      BY <1>2, <2>2, <2>3 DEF PageInv
  <1> QED
    BY <1>4, <1>5

(* A build that throws has not come to raise the flag; only builds of the  *)
(* trie touch it.                                                          *)
LEMMA ThrowFacts ==
  ASSUME RuleTypeOK, NEW t \in Thread, BuildThrows(t)
  PROVE  /\ RuleTypeOK' /\ t \notin RegexBuilder
         /\ at[t] # "none" /\ at'[t] = "none"
         /\ \A u \in Thread \ {t} : at'[u] = at[u]
         /\ buildFlag' = buildFlag
         /\ trie' = trie \/ t \in Builder
  <1> USE DEF RuleTypeOK, Goes
  <1>1. CASE ArgsThrow(t)
    BY <1>1 DEF ArgsThrow
  <1>2. CASE TrieThrows(t)
    BY <1>2 DEF TrieThrows, Unlocked
  <1>3. CASE HashThrows(t)
    BY <1>3 DEF HashThrows, Unlocked
  <1> QED
    BY <1>1, <1>2, <1>3 DEF BuildThrows

(* A build that goes on comes to the next stage, and to its end with the   *)
(* flag raised.                                                            *)
LEMMA GoFacts ==
  ASSUME RuleTypeOK, NEW t \in Thread, BuildGoesOn(t)
  PROVE  /\ RuleTypeOK' /\ at[t] # "none"
         /\ \A u \in Thread \ {t} : at'[u] = at[u]
         /\ t \in Builder \cup RegexBuilder => buildFlag' = TRUE \/ at'[t] # "none"
         /\ buildFlag' = buildFlag \/ t \in Builder \cup RegexBuilder
         /\ at[t] = "trie" => t \in Builder /\ at'[t] = "hash" /\ trie' = "whole"
         /\ at'[t] = "trie" => t \in Builder /\ at[t] = "lock"
         /\ at[t] # "trie" /\ at'[t] # "trie" => trie' = trie
         /\ t \in Builder /\ BeforeWords(t) /\ at[t] # "trie" => BeforeWords(t)'
  <1> USE DEF RuleTypeOK, Goes, BeforeWords
  <1>1. CASE ReadArgs(t)
    BY <1>1 DEF ReadArgs, Cleared
  <1>2. CASE ClearFlag(t)
    BY <1>2 DEF ClearFlag
  <1>3. CASE ReplaceRegex(t)
    BY <1>3 DEF ReplaceRegex
  <1>4. CASE LockTrie(t)
    BY <1>4 DEF LockTrie
  <1>5. CASE TrieBuilt(t)
    BY <1>5 DEF TrieBuilt, Cleared
  <1>6. CASE HashesBuilt(t)
    BY <1>6 DEF HashesBuilt, AfterHashes, Unlocked
  <1>7. CASE RaiseFlag(t)
    BY <1>7 DEF RaiseFlag, Raised
  <1> QED
    BY <1>1, <1>2, <1>3, <1>4, <1>5, <1>6, <1>7 DEF BuildGoesOn

LEMMA ThreadKeeps ==
  ASSUME PageInv, NEW t \in Thread, ThreadStep(t) PROVE PageInv'
  <1>1. /\ UNCHANGED <<draftVars, file, modified, buttonVars, waiting, unsaved>>
        /\ ReadWords(t) /\ RuleTypeOK
    BY DEF ThreadStep, PageInv, TypeOK
  <1>2. /\ racing' \in BOOLEAN /\ inTrie' \subseteq Word
    BY <1>1 DEF ReadWords, WordsRead, PageInv, TypeOK
  <1>3. \/ /\ BuildThrows(t) /\ Post(t, "error") /\ dirty' = (dirty \/ t \in Builder)
        \/ /\ BuildGoesOn(t) /\ Post(t, "ok") /\ dirty' = dirty
    BY DEF ThreadStep
  <1>4. RuleTypeOK' /\ at[t] # "none" /\ \A u \in Thread \ {t} : at'[u] = at[u]
    BY <1>1, <1>3, ThrowFacts, GoFacts
  <1>5. /\ report' \in [Thread -> {"none", "ok", "error"}]
        /\ \A u \in Thread \ {t} : report'[u] = report[u]
        /\ at'[t] = "none" /\ t \notin RegexBuilder => report'[t] # "none"
    BY <1>3 DEF Post, PageInv, TypeOK
  <1>6. TypeOK'
    <2>1. dirty' \in BOOLEAN
      BY <1>3, Zenon DEF PageInv, TypeOK
    <2> QED
      BY <1>1, <1>2, <1>4, <1>5, <2>1 DEF PageInv, TypeOK, draftVars, buttonVars
  <1>7. BuildingEnds'
    BY <1>1, <1>4, <1>5 DEF PageInv, BuildingEnds, buttonVars
  <1>8. SavedUnlessModified'
    BY <1>1 DEF PageInv, SavedUnlessModified, Listed, draftVars
  <1>9. FlagInv' /\ WordsInv'
    <2>0. Listed' = Listed /\ pattern' = pattern
      BY <1>1 DEF Listed, draftVars
    <2>1. CASE BuildThrows(t) /\ dirty' = (dirty \/ t \in Builder)
      <3>1. /\ t \notin RegexBuilder /\ at'[t] = "none" /\ buildFlag' = buildFlag
            /\ trie' = trie \/ t \in Builder
        BY <1>1, <2>1, ThrowFacts
      <3>2. CASE t \in Builder
        BY <2>1, <3>2 DEF FlagInv, WordsInv
      <3>3. CASE t \notin Builder
        <4>1. dirty' = dirty /\ trie' = trie /\ at[t] # "trie"
          <5>1. dirty' = dirty
            BY <2>1, <3>3, Zenon DEF PageInv, TypeOK
          <5>2. t \in ImageBuilder
            BY <3>1, <3>3
          <5> QED
            BY <1>1, <3>1, <3>3, <5>1, <5>2 DEF RuleTypeOK
        <4>2. UNCHANGED <<racing, inTrie>>
          BY <1>1, <3>1, <4>1 DEF ReadWords
        <4> QED
          BY <1>4, <2>0, <3>1, <3>3, <4>1, <4>2 DEF PageInv, FlagInv, WordsInv, BeforeWords
      <3> QED
        BY <3>2, <3>3
    <2>2. CASE BuildGoesOn(t) /\ dirty' = dirty
      <3>1. FlagInv'
        BY <1>1, <1>4, <2>2, GoFacts DEF FlagInv, PageInv
      <3>2. CASE at[t] = "trie"
        <4>1. at'[t] = "hash" /\ trie' = "whole"
          BY <1>1, <2>2, <3>2, GoFacts
        <4>2. racing' \/ inTrie' = pattern
          BY <1>1, <3>2, <4>1 DEF ReadWords, WordsRead
        <4> QED
          BY <2>0, <2>2, <3>1, <4>1, <4>2 DEF PageInv, WordsInv
      <3>3. CASE at'[t] = "trie"
        BY <1>1, <2>0, <2>2, <3>1, <3>3, GoFacts DEF PageInv, WordsInv, BeforeWords
      <3>4. CASE at[t] # "trie" /\ at'[t] # "trie"
        <4>1. UNCHANGED <<racing, inTrie>>
          BY <1>1, <3>4 DEF ReadWords
        <4>2. trie' = trie /\ (t \in Builder /\ BeforeWords(t) => BeforeWords(t)')
          BY <1>1, <2>2, <3>4, GoFacts
        <4>3. \A u \in Builder : BeforeWords(u) => BeforeWords(u)'
          BY <1>4, <4>2 DEF BeforeWords
        <4> QED
          BY <2>0, <2>2, <3>1, <4>1, <4>2, <4>3 DEF PageInv, WordsInv
      <3> QED
        BY <3>2, <3>3, <3>4
    <2> QED
      BY <1>3, <2>1, <2>2
  <1> QED
    BY <1>6, <1>7, <1>8, <1>9 DEF PageInv

LEMMA PageStep == PageInv /\ [Next]_vars => PageInv'
  <1> SUFFICES ASSUME PageInv, [Next]_vars PROVE PageInv'
    OBVIOUS
  <1>1. CASE UNCHANGED vars
    BY <1>1 DEF vars, ruleVars, draftVars, buttonVars, historyVars, PageInv, TypeOK, RuleTypeOK,
                FlagInv, WordsInv, BeforeWords, Listed, BuildingEnds, SavedUnlessModified
  <1>2. ASSUME NEW w \in Word, Add(w) \/ RemoveWord(w) \/ \E v \in Word : Edit(w, v)
        PROVE  PageInv'
    <2>1. MarkModified /\ pattern' \subseteq Word /\ inserted' \subseteq Word /\ erased' \subseteq Word
      BY <1>2 DEF Add, RemoveWord, Edit, PageInv, TypeOK
    <2>2. racing' \in BOOLEAN
      BY <1>2 DEF Add, RemoveWord, Edit, Races, PageInv, TypeOK
    <2> QED
      BY <2>1, <2>2, EditKeeps
  <1>3. ASSUME NEW words \in SUBSET Word, Load(words) PROVE PageInv'
    BY <1>3, EditKeeps DEF Load, Loaded, Races, PageInv, TypeOK
  <1>4. ASSUME NEW t \in ImageBuilder, UpdateImages(t) PROVE PageInv'
    <2>1. t \in ImageBuilder \cup RegexBuilder
      OBVIOUS
    <2> QED
      BY ONLY <2>1, <1>4, PageInv, OtherStartKeeps
  <1>5. ASSUME NEW t \in RegexBuilder, ApplyRegex(t) PROVE PageInv'
    <2>1. t \in ImageBuilder \cup RegexBuilder
      OBVIOUS
    <2> QED
      BY ONLY <2>1, <1>5, PageInv, OtherStartKeeps
  <1>6. CASE Operator
    <2>1. CASE \E w \in Word : Add(w) \/ RemoveWord(w) \/ \E v \in Word : Edit(w, v)
      BY <2>1, <1>2
    <2>2. CASE \E words \in SUBSET Word : Load(words)
      BY <2>2, <1>3
    <2>3. CASE Undo \/ BuildClicked \/ AskForEngine
      BY <2>3, UndoKeeps, ClickedKeeps, LoopKeeps
    <2>4. CASE \E t \in ImageBuilder : UpdateImages(t)
      BY <2>4, <1>4
    <2>5. CASE \E t \in RegexBuilder : ApplyRegex(t)
      BY <2>5, <1>5
    <2> QED
      BY <1>6, <2>1, <2>2, <2>3, <2>4, <2>5 DEF Operator
  <1>7. CASE EngineGiven \/ \E t \in Thread : Report(t)
    BY <1>7, LoopKeeps
  <1>8. CASE \E t \in Thread : ThreadStep(t)
    BY <1>8, ThreadKeeps
  <1> HIDE DEF Thread
  <1> QED
    BY <1>1, <1>6, <1>7, <1>8 DEF Next

LEMMA PageInvariant == Spec => []PageInv
  BY PageStarts, PageStep, PTL DEF Spec

(* The types of the page's variables, for any words and threads.           *)
THEOREM PageTypeCorrect == Spec => []TypeOK
  BY PageInvariant, PTL DEF PageInv

(* What the list shows is in force once a build was started after the last *)
(* change and no build failed since, with any number of builds at once.    *)
THEOREM ShownCorrect == Spec => []ShownIsInForce
  <1>1. PageInv => ShownIsInForce
    BY DEF PageInv, WordsInv, ShownIsInForce, BeforeWords
  <1> QED
    BY PageInvariant, <1>1, PTL

(* Only a build that failed leaves the flag down, and is_building_ is set  *)
(* only while somebody will clear it.                                      *)
THEOREM FlagsCorrect == Spec => []FlagsComeBack
  <1>1. PageInv => FlagsComeBack
    BY DEF PageInv, FlagInv, FlagsComeBack, FlagComesBack, NoBuild
  <1> QED
    BY PageInvariant, <1>1, PTL

(* What is not marked as modified is what the next start reads.            *)
THEOREM SavedCorrect == Spec => []SavedUnlessModified
  BY PageInvariant, PTL DEF PageInv

-----------------------------------------------------------------------------
(* All pages.                                                              *)

DeskInv == PageInv /\ TrainInv /\ TrainTypeOK /\ LogInv /\ LogTypes

(* The pages share nothing, so what holds of each holds while the operator *)
(* is at any of them: types, words in force, flags, documents and log.     *)
THEOREM DeskCorrect ==
  DeskSpec => [](/\ DeskTypeOK /\ ShownIsInForce /\ SavedUnlessModified
                 /\ FlagsComeBack /\ SentIsOfTheDocument /\ LoggedIsWritten)
  <1>1. DeskInit => DeskInv
    BY PageStarts, TrainStarts, TrainTypesStart, LogStarts, LogTypesStart
    DEF DeskInit, DeskInv
  <1>2. DeskInv /\ [DeskNext]_<<page, vars, trainVars, logVars>> => DeskInv'
    <2> SUFFICES ASSUME DeskInv, [DeskNext]_<<page, vars, trainVars, logVars>> PROVE DeskInv'
      OBVIOUS
    <2>1. [Next]_vars /\ [TrainNext]_trainVars /\ [LogNext]_logVars
      BY DEF DeskNext
    <2> QED
      BY <2>1, PageStep, TrainStep, TrainTypesStep, LogStep, LogTypesStep DEF DeskInv
  <1>3. DeskInv => /\ DeskTypeOK /\ ShownIsInForce /\ SavedUnlessModified
                   /\ FlagsComeBack /\ SentIsOfTheDocument /\ LoggedIsWritten
    BY DEF DeskInv, DeskTypeOK, PageInv, LogTypes, TrainInv, LogInv, WordsInv, ShownIsInForce,
           BeforeWords, FlagInv, FlagsComeBack, FlagComesBack, NoBuild
  <1> QED
    BY <1>1, <1>2, <1>3, PTL DEF DeskSpec
=============================================================================
