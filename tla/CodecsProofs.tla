----------------------------- MODULE CodecsProofs -----------------------------
(***************************************************************************)
(* Proofs about the three ways in which the gateway looks at bytes, for    *)
(* every code point, every text of characters of any widths with all that  *)
(* rules, trie and server can find in it, and documents of any entries.    *)
(***************************************************************************)
EXTENDS MCCodecs, SequenceFacts, FiniteSetTheorems, TLAPS

-----------------------------------------------------------------------------
(* Characters.                                                             *)

(* What a lead byte says of the length.                                     *)
LEMMA LeadBytes ==
  /\ \A b \in 0 .. 127   : Utf8Length(b) = 1
  /\ \A b \in 128 .. 191 : Utf8Length(b) = 0
  /\ \A b \in 192 .. 223 : Utf8Length(b) = 2
  /\ \A b \in 224 .. 239 : Utf8Length(b) = 3
  /\ \A b \in 240 .. 247 : Utf8Length(b) = 4
  BY SMTT(10) DEF Utf8Length

(* A character is put together again from what Encode makes of its bits.    *)
LEMMA Bits2 ==
  ASSUME NEW c \in Int, 128 <= c, c < 2048
  PROVE  /\ 192 + (c \div 64) \in 192 .. 223 /\ 128 + (c % 64) \in 128 .. 191
         /\ Decode2(192 + (c \div 64), 128 + (c % 64)) = c
  BY SMTT(20) DEF Decode2

LEMMA Bits3 ==
  ASSUME NEW c \in Int, 2048 <= c, c < 65536
  PROVE  /\ 224 + (c \div 4096) \in 224 .. 239
         /\ 128 + ((c \div 64) % 64) \in 128 .. 191 /\ 128 + (c % 64) \in 128 .. 191
         /\ Decode3(224 + (c \div 4096), 128 + ((c \div 64) % 64), 128 + (c % 64)) = c
  BY SMTT(20) DEF Decode3

LEMMA Bits4 ==
  ASSUME NEW c \in Int, 65536 <= c, c <= 1114111
  PROVE  /\ 240 + (c \div 262144) \in 240 .. 247
         /\ 128 + ((c \div 4096) % 64) \in 128 .. 191
         /\ 128 + ((c \div 64) % 64) \in 128 .. 191 /\ 128 + (c % 64) \in 128 .. 191
         /\ Decode4(240 + (c \div 262144), 128 + ((c \div 4096) % 64),
                    128 + ((c \div 64) % 64), 128 + (c % 64)) = c
  BY SMTT(20) DEF Decode4

(* The dense code is undone by CharOf, and 0 for what is not supported.     *)
LEMMA CodesTellApart == \A c \in CodePoint : CodeTellsApart(c)
  <1> SUFFICES ASSUME NEW c \in CodePoint PROVE CodeTellsApart(c)
    OBVIOUS
  <1>0. c \in Int /\ 0 <= c
    BY SMTT(10) DEF CodePoint, Points
  <1> USE DEF Points, Ascii, HangulJamo, HangulSyllable, Supported
  <1> USE DEF CodeTellsApart, CharCode, CharOf, FirstSyllable, k_max_val_of_char_code_
  <1>1. CASE c <= 127
    BY <1>0, <1>1, SMTT(20)
  <1>2. CASE 4352 <= c /\ c <= 4607
    BY <1>0, <1>2, SMTT(20)
  <1>3. CASE 44032 <= c /\ c <= 55203
    BY <1>0, <1>3, SMTT(20)
  <1>4. CASE /\ 127 < c /\ ~(4352 <= c /\ c <= 4607)
             /\ ~(44032 <= c /\ c <= 55203)
    BY <1>0, <1>4, SMTT(20)
  <1> QED
    BY <1>0, <1>1, <1>2, <1>3, <1>4, SMTT(10)

(* Every character is read back from its bytes.                             *)
LEMMA CharactersReadBack == \A c \in CodePoint : ReadsBack(c)
  <1> SUFFICES ASSUME NEW c \in CodePoint PROVE ReadsBack(c)
    OBVIOUS
  <1>0. c \in Int /\ 0 <= c /\ c <= 1114111
    BY SMTT(10) DEF CodePoint, Points
  <1>1. CASE c < 128
    <2>1. Encode(c) = <<c>> /\ Utf8Length(c) = 1
      BY <1>0, <1>1, LeadBytes, SMTT(10) DEF Encode
    <2> QED
      BY <2>1, SMTT(10) DEF ReadsBack, Decoded
  <1>2. CASE 128 <= c /\ c < 2048
    <2> DEFINE b1 == 192 + (c \div 64)
               b2 == 128 + (c % 64)
    <2>1. Encode(c) = <<b1, b2>>
      BY <1>0, <1>2, SMTT(10) DEF Encode
    <2>2. Utf8Length(b1) = 2 /\ Utf8Length(b2) = 0 /\ Decode2(b1, b2) = c
      BY <1>0, <1>2, Bits2, LeadBytes, SMTT(10)
    <2> HIDE DEF b1, b2
    <2> QED
      BY <2>1, <2>2, SMTT(10) DEF ReadsBack, Decoded
  <1>3. CASE 2048 <= c /\ c < 65536
    <2> DEFINE b1 == 224 + (c \div 4096)
               b2 == 128 + ((c \div 64) % 64)
               b3 == 128 + (c % 64)
    <2>1. Encode(c) = <<b1, b2, b3>>
      BY <1>0, <1>3, SMTT(10) DEF Encode
    <2>2. /\ Utf8Length(b1) = 3 /\ Utf8Length(b2) = 0 /\ Utf8Length(b3) = 0
          /\ Decode3(b1, b2, b3) = c
      BY <1>0, <1>3, Bits3, LeadBytes, SMTT(10)
    <2> HIDE DEF b1, b2, b3
    <2> QED
      BY <2>1, <2>2, SMTT(10) DEF ReadsBack, Decoded
  <1>4. CASE 65536 <= c
    <2> DEFINE b1 == 240 + (c \div 262144)
               b2 == 128 + ((c \div 4096) % 64)
               b3 == 128 + ((c \div 64) % 64)
               b4 == 128 + (c % 64)
    <2>1. Encode(c) = <<b1, b2, b3, b4>>
      BY <1>0, <1>4, SMTT(10) DEF Encode
    <2>2. /\ Utf8Length(b1) = 4 /\ Utf8Length(b2) = 0 /\ Utf8Length(b3) = 0
          /\ Utf8Length(b4) = 0 /\ Decode4(b1, b2, b3, b4) = c
      BY <1>0, <1>4, Bits4, LeadBytes, SMTT(10)
    <2> HIDE DEF b1, b2, b3, b4
    <2> QED
      BY <2>1, <2>2, SMTT(10) DEF ReadsBack, Decoded
  <1> QED
    BY <1>0, <1>1, <1>2, <1>3, <1>4, SMTT(10)

LEMMA CodePointsReadBack == ch \in CodePoint => CodesReadBack
  BY CharactersReadBack, CodesTellApart, SMTT(10) DEF CodesReadBack

LEMMA WalkStaysInCodePoints == CharSpec => [](ch \in CodePoint)
  <1>1. CharInit => ch \in CodePoint
    BY SMTT(10) DEF CharInit, CodePoint, Points
  <1>2. ch \in CodePoint /\ [CharNext]_ch => (ch \in CodePoint)'
    BY FinalAssumption, SMTT(10) DEF CharNext, CodePoint, Points
  <1> QED
    BY <1>1, <1>2, PTL DEF CharSpec

(* Every Unicode character is read back from its UTF-8 bytes as itself, and *)
(* none of its later bytes looks like the start of a character: the loops   *)
(* of build and search, which step over whole characters, never lose step.  *)
(* Supported characters have codes of their own within the arrays, and only *)
(* they have a code other than 0 (NUL is the one supported character whose  *)
(* code says it is not).                                                    *)
THEOREM CodesCorrect == CharSpec => []CodesReadBack
  BY CodePointsReadBack, WalkStaysInCodePoints, PTL

-----------------------------------------------------------------------------
(* Documents.                                                              *)

Held == {output[n].entry : n \in DOMAIN output}
Entries == DOMAIN entries

(* Each image is listed once, each entry written once, and the buffer is   *)
(* not touched before the thread ends.                                     *)
ShapeInv ==
  /\ type \in {"docx", "xlsx", "hwpx"} /\ entries \in Archive
  /\ stage \in {"read", "list", "judge", "copy", "text", "images", "done"}
  /\ images \in Seq(Entries) /\ unnoticed \subseteq {"listing", "copying", "entry"}
  /\ output \in Seq([entry : Entries, content : {"censored", "copied", "cut"}])
  /\ \A n \in DOMAIN images : IsListed(images[n])
  /\ \A m, n \in DOMAIN images : m # n => images[m] # images[n]
  /\ \A m, n \in DOMAIN output : m # n => output[m].entry # output[n].entry
  /\ current \in Nat
  /\ stage \in {"list", "copy"} => current \in Entries
  /\ stage = "images" => current \in 1 .. Len(images) + 1
  /\ stage # "done" => buffer = "original" /\ result = "none"
  /\ result = "size" => buffer = "rewritten"
  /\ result \in {"0", "exception"} => buffer \in {"original", "half"}

Rewritten == buffer # "original"

(* What was not listed was left out for an error nobody saw.               *)
ListInv ==
  /\ stage = "read" => images = <<>>
  /\ stage = "list" => /\ \A n \in DOMAIN images : images[n] < current
                       /\ \A i \in Entries : i < current /\ IsListed(i) => i \in Images
  /\ stage \in {"judge", "copy", "text", "images"} \/ Rewritten =>
       "listing" \in unnoticed \/ \A i \in Entries : IsListed(i) => i \in Images

(* Which entries the output has at each stage.                             *)
HeldInv ==
  /\ stage \in {"read", "list", "judge"} => output = <<>>
  /\ stage = "copy" => \A i \in Entries : i \in Held <=> i < current /\ ~IsCensored(i)
  /\ stage = "text" => Held \cap {i \in Entries : IsCensored(i)} = {}
  /\ stage = "images" =>
       \A i \in Entries : IsCensored(i) =>
         (i \in Held <=> entries[i] = "text" \/ \E n \in 1 .. current - 1 : images[n] = i)
  /\ Rewritten => \A i \in Entries : IsCensored(i) => i \in Held
  /\ stage \in {"text", "images"} \/ Rewritten =>
       "copying" \in unnoticed \/ \A i \in Entries : ~IsCensored(i) => i \in Held

(* What an entry of the output is, with what is left of its entry.         *)
ContentInv ==
  \A n \in DOMAIN output :
    LET i == output[n].entry
    IN  \/ output[n].content = "cut" /\ "entry" \in unnoticed
        \/ entries[i] = "text" /\ output[n].content = "censored"
        \/ entries[i] # "text" /\ output[n].content =
             IF i \in Images /\ entries[i] = "flagged" THEN "censored" ELSE "copied"

RewriteInv == ShapeInv /\ ListInv /\ HeldInv /\ ContentInv

(* A document has one text.                                                *)
LEMMA OneText ==
  ASSUME NEW e \in Archive
  PROVE  /\ e \in Seq(Kind)
         /\ \E i \in DOMAIN e : \A j \in DOMAIN e : e[j] = "text" <=> j = i
  <1>1. e \in Seq(Kind) /\ Cardinality({i \in DOMAIN e : e[i] = "text"}) = 1
    BY ArchiveAssumption
  <1>2. DOMAIN e = 1 .. Len(e) /\ Len(e) \in Nat
    BY <1>1
  <1>3. IsFiniteSet({i \in DOMAIN e : e[i] = "text"})
    <2>1. IsFiniteSet(1 .. Len(e))
      BY <1>2, FS_Interval
    <2>2. {i \in DOMAIN e : e[i] = "text"} \subseteq 1 .. Len(e)
      BY <1>2
    <2> QED
      BY <2>1, <2>2, FS_Subset
  <1>4. PICK i : {j \in DOMAIN e : e[j] = "text"} = {i}
    BY <1>1, <1>3, FS_Singleton
  <1> QED
    BY <1>1, <1>4

(* An output without repetitions has what it holds once.                   *)
LEMMA HeldOnce ==
  ASSUME ShapeInv, NEW i \in Entries
  PROVE  IF i \in Held THEN Cardinality(Copies(i)) = 1 ELSE Copies(i) = {}
  <1>1. CASE i \in Held
    <2>1. PICK n \in DOMAIN output : output[n].entry = i
      BY <1>1 DEF Held
    <2>2. Copies(i) = {n}
      BY <2>1 DEF Copies, ShapeInv
    <2> QED
      BY <1>1, <2>2, FS_Singleton
  <1>2. CASE i \notin Held
    BY <1>2 DEF Held, Copies
  <1> QED
    BY <1>1, <1>2

LEMMA WholeAtTheEnd == RewriteInv => DocumentIsWhole
  <1> SUFFICES ASSUME RewriteInv PROVE DocumentIsWhole
    OBVIOUS
  <1>1. ASSUME Rewritten, NEW i \in Entries
        PROVE  /\ Cardinality(Copies(i)) = 1 \/ (Copies(i) = {} /\ "copying" \in unnoticed)
               /\ \A n \in Copies(i) :
                    \/ output[n].content = Due(i)
                    \/ output[n].content = "copied" /\ "listing" \in unnoticed
                    \/ output[n].content = "cut" /\ "entry" \in unnoticed
    <2>1. i \in Held \/ "copying" \in unnoticed
      BY <1>1 DEF RewriteInv, HeldInv
    <2>2. ASSUME NEW n \in Copies(i), output[n].content # "cut"
          PROVE  \/ output[n].content = Due(i)
                 \/ output[n].content = "copied" /\ "listing" \in unnoticed
      <3>1. n \in DOMAIN output /\ output[n].entry = i
        BY DEF Copies
      <3>2. \/ entries[i] = "text" /\ output[n].content = "censored"
            \/ entries[i] # "text" /\ output[n].content =
                 IF i \in Images /\ entries[i] = "flagged" THEN "censored" ELSE "copied"
        BY <2>2, <3>1 DEF RewriteInv, ContentInv
      <3>3. i \in Images => IsListed(i)
        BY DEF RewriteInv, ShapeInv, Images
      <3>4. IsListed(i) => i \in Images \/ "listing" \in unnoticed
        BY <1>1 DEF RewriteInv, ListInv
      <3> QED
        BY <3>2, <3>3, <3>4 DEF Due, IsListed, MediaDir
    <2> QED
      BY <2>1, <2>2, HeldOnce DEF RewriteInv, Copies, ContentInv
  <1>2. \A i \in Entries : Rewritten => Copies(i) # {} \/ "copying" \in unnoticed
    <2> SUFFICES ASSUME NEW i \in Entries, Rewritten PROVE Copies(i) # {} \/ "copying" \in unnoticed
      OBVIOUS
    <2>1. i \in Held \/ "copying" \in unnoticed
      BY DEF RewriteInv, HeldInv
    <2> QED
      BY <2>1 DEF Held, Copies
  <1> QED
    BY <1>1, <1>2 DEF DocumentIsWhole, RewriteInv, ShapeInv, Rewritten, Entries

-----------------------------------------------------------------------------
(* A sequence that grows at its end.                                       *)
LEMMA Appended ==
  ASSUME NEW S, NEW s \in Seq(S), NEW x \in S
  PROVE  /\ Append(s, x) \in Seq(S) /\ Len(Append(s, x)) = Len(s) + 1
         /\ \A n \in DOMAIN s : n \in DOMAIN Append(s, x) /\ Append(s, x)[n] = s[n]
         /\ \E last \in DOMAIN Append(s, x) :
              /\ Append(s, x)[last] = x
              /\ \A n \in DOMAIN Append(s, x) : n = last \/ n \in DOMAIN s
              /\ last \notin DOMAIN s
  <1>1. /\ Append(s, x) \in Seq(S) /\ Len(Append(s, x)) = Len(s) + 1 /\ Len(s) \in Nat
        /\ \A n \in 1 .. Len(s) : Append(s, x)[n] = s[n]
        /\ Append(s, x)[Len(s) + 1] = x
    OBVIOUS
  <1>2. DOMAIN s = 1 .. Len(s) /\ DOMAIN Append(s, x) = 1 .. Len(s) + 1
    BY <1>1
  <1> QED
    BY <1>1, <1>2

(* The output gets one more entry.                                         *)
LEMMA OutputGrows ==
  ASSUME ShapeInv, ContentInv, NEW i \in Entries, i \notin Held,
         NEW content \in {"censored", "copied", "cut"},
         Written(i, content),
         entries' = entries, images' = images, unnoticed \subseteq unnoticed',
         \/ content = "cut" /\ "entry" \in unnoticed'
         \/ entries[i] = "text" /\ content = "censored"
         \/ entries[i] # "text" /\ content =
              IF i \in Images /\ entries[i] = "flagged" THEN "censored" ELSE "copied"
  PROVE  /\ Held' = Held \cup {i}
         /\ output' \in Seq([entry : Entries, content : {"censored", "copied", "cut"}])
         /\ \A m, n \in DOMAIN output' : m # n => output'[m].entry # output'[n].entry
         /\ ContentInv'
  <1> DEFINE new == [entry |-> i, content |-> content]
  <1>1. new \in [entry : Entries, content : {"censored", "copied", "cut"}]
        /\ new.entry = i /\ new.content = content
    OBVIOUS
  <1>2. output' = Append(output, new)
    BY DEF Written
  <1> HIDE DEF new
  <1>3. /\ output' \in Seq([entry : Entries, content : {"censored", "copied", "cut"}])
        /\ \A n \in DOMAIN output : n \in DOMAIN output' /\ output'[n] = output[n]
        /\ \E last \in DOMAIN output' :
             /\ output'[last] = new
             /\ \A n \in DOMAIN output' : n = last \/ n \in DOMAIN output
             /\ last \notin DOMAIN output
    BY <1>1, <1>2, Appended DEF ShapeInv
  <1>4. PICK last \in DOMAIN output' :
             /\ output'[last] = new
             /\ \A n \in DOMAIN output' : n = last \/ n \in DOMAIN output
             /\ last \notin DOMAIN output
    BY <1>3
  <1>5. Held' = Held \cup {i}
    BY <1>1, <1>3, <1>4 DEF Held
  <1>6. ASSUME NEW m \in DOMAIN output', NEW n \in DOMAIN output', m # n
        PROVE  output'[m].entry # output'[n].entry
    BY <1>1, <1>3, <1>4, <1>6 DEF Held, ShapeInv
  <1>7. ContentInv'
    <2>1. Images' = Images
      BY DEF Images
    <2>2. ASSUME NEW n \in DOMAIN output'
          PROVE  \/ output'[n].content = "cut" /\ "entry" \in unnoticed'
                 \/ entries[output'[n].entry] = "text" /\ output'[n].content = "censored"
                 \/ entries[output'[n].entry] # "text" /\ output'[n].content =
                      IF output'[n].entry \in Images /\ entries[output'[n].entry] = "flagged"
                        THEN "censored" ELSE "copied"
      <3>1. CASE n = last
        BY <1>1, <1>4, <3>1
      <3>2. CASE n \in DOMAIN output
        BY <1>3, <3>2 DEF ContentInv
      <3> QED
        BY <1>4, <3>1, <3>2
    <2> QED
      BY <2>1, <2>2 DEF ContentInv
  <1> QED
    BY <1>3, <1>5, <1>6, <1>7

-----------------------------------------------------------------------------
(* The steps.                                                              *)

LEMMA FirstEntry == ASSUME ShapeInv PROVE 1 \in Entries /\ Entries = 1 .. Len(entries) /\ Len(entries) \in Nat
  <1>1. entries \in Seq(Kind) /\ \E i \in DOMAIN entries : TRUE
    BY OneText DEF ShapeInv
  <1> QED
    BY <1>1 DEF Entries

LEMMA StartsRight == RewriteInit => RewriteInv
  <1> SUFFICES ASSUME RewriteInit PROVE RewriteInv
    OBVIOUS
  <1>1. ShapeInv
    BY DEF RewriteInit, ShapeInv, Entries
  <1>2. ListInv /\ HeldInv /\ ContentInv
    BY DEF RewriteInit, ListInv, HeldInv, ContentInv, Rewritten, Held
  <1> QED
    BY <1>1, <1>2 DEF RewriteInv

(* A thread that gives up leaves the document as it was.                   *)
LEMMA GivesUp ==
  ASSUME RewriteInv, stage # "done", NEW value \in {"0", "exception"}, EarlyReturn(value)
  PROVE  RewriteInv'
  <1>1. ShapeInv'
    BY DEF RewriteInv, ShapeInv, EarlyReturn, Ends, Entries, IsListed, MediaDir
  <1>2. ListInv' /\ HeldInv'
    BY DEF RewriteInv, ShapeInv, ListInv, HeldInv, EarlyReturn, Ends, Rewritten, Held
  <1>3. ContentInv'
    BY DEF RewriteInv, ContentInv, EarlyReturn, Ends, Images
  <1> QED
    BY <1>1, <1>2, <1>3 DEF RewriteInv

LEMMA ReadTextStep == ASSUME RewriteInv, ReadText PROVE RewriteInv'
  <1>1. CASE EarlyReturn("0")
    BY <1>1, GivesUp DEF ReadText
  <1>2. CASE ~EarlyReturn("0")
    <2>0. /\ stage = "read" /\ GoesOn("list") /\ current' = 1
          /\ UNCHANGED <<type, entries, images, output, buffer, unnoticed>>
      BY <1>2 DEF ReadText
    <2>1. ShapeInv'
      BY <2>0, FirstEntry DEF RewriteInv, ShapeInv, GoesOn, Entries, IsListed, MediaDir
    <2>2. ListInv'
      BY <2>0, FirstEntry DEF RewriteInv, ShapeInv, ListInv, GoesOn, Rewritten, Entries, Images
    <2>3. HeldInv'
      BY <2>0 DEF RewriteInv, ShapeInv, HeldInv, GoesOn, Rewritten, Entries
    <2>4. ContentInv'
      BY <2>0 DEF RewriteInv, ContentInv, GoesOn, Images
    <2> QED
      BY <2>1, <2>2, <2>3, <2>4 DEF RewriteInv
  <1> QED
    BY <1>1, <1>2

LEMMA StartOutputStep == ASSUME RewriteInv, StartOutput PROVE RewriteInv'
  <1>1. CASE EarlyReturn("0")
    BY <1>1, GivesUp DEF StartOutput
  <1>2. CASE ~EarlyReturn("0")
    <2>0. /\ stage = "judge" /\ GoesOn("copy") /\ current' = 1
          /\ UNCHANGED <<type, entries, images, output, buffer, unnoticed>>
      BY <1>2 DEF StartOutput
    <2>1. ShapeInv'
      BY <2>0, FirstEntry DEF RewriteInv, ShapeInv, GoesOn, Entries, IsListed, MediaDir
    <2>2. ListInv'
      BY <2>0 DEF RewriteInv, ShapeInv, ListInv, GoesOn, Rewritten, Entries, Images, IsListed, MediaDir
    <2>3. HeldInv'
      BY <2>0, FirstEntry DEF RewriteInv, ShapeInv, HeldInv, GoesOn, Rewritten, Entries, Held
    <2>4. ContentInv'
      BY <2>0 DEF RewriteInv, ContentInv, GoesOn, Images
    <2> QED
      BY <2>1, <2>2, <2>3, <2>4 DEF RewriteInv
  <1> QED
    BY <1>1, <1>2

(* A loop over the entries goes on, or ends: at the last entry, or earlier *)
(* for an error that nobody looks at.                                      *)
LEMMA Loops ==
  ASSUME ShapeInv, stage \in {"list", "copy"}, NEW loop, NEW after, NEW flaw, NEW missed,
         NextEntry(loop, after, flaw, missed)
  PROVE  /\ result' = result /\ unnoticed \subseteq unnoticed' /\ missed \subseteq unnoticed'
         /\ unnoticed' \subseteq unnoticed \cup missed \cup {flaw}
         /\ \/ /\ stage' = loop /\ current' = current + 1 /\ current' \in Entries
               /\ \A i \in Entries : i < current' <=> i < current \/ i = current
            \/ /\ stage' = after /\ current' = 1
               /\ flaw \in unnoticed' \/ \A i \in Entries : i < current \/ i = current
  <1>1. Entries = 1 .. Len(entries) /\ Len(entries) \in Nat /\ current \in Entries
    BY FirstEntry DEF ShapeInv
  <1>2. CASE current < Len(entries) /\ current' = current + 1 /\ GoesOn(loop)
             /\ unnoticed' = unnoticed \cup missed
    <2>1. current' \in Entries /\ \A i \in Entries : i < current' <=> i < current \/ i = current
      BY <1>1, <1>2
    <2> QED
      BY <1>2, <2>1 DEF GoesOn
  <1>3. CASE current' = 1 /\ GoesOn(after)
             /\ unnoticed' = unnoticed \cup missed \cup
                  IF current < Len(entries) THEN {flaw} ELSE {}
    <2>1. flaw \in unnoticed' \/ \A i \in Entries : i < current \/ i = current
      BY <1>1, <1>3
    <2> QED
      BY <1>3, <2>1 DEF GoesOn
  <1> QED
    BY <1>2, <1>3 DEF NextEntry

LEMMA ListOtherStep == ASSUME RewriteInv, ListOther PROVE RewriteInv'
  <1>0. /\ stage = "list" /\ ~IsListed(current)
        /\ UNCHANGED <<type, entries, images, output, buffer>>
    BY DEF ListOther
  <1>1. /\ result' = result /\ unnoticed \subseteq unnoticed'
        /\ unnoticed' \subseteq unnoticed \cup {"listing"}
        /\ \/ /\ stage' = "list" /\ current' = current + 1 /\ current' \in Entries
              /\ \A i \in Entries : i < current' <=> i < current \/ i = current
           \/ /\ stage' = "judge" /\ current' = 1
              /\ "listing" \in unnoticed' \/ \A i \in Entries : i < current \/ i = current
    BY <1>0, Loops DEF ListOther, RewriteInv
  <1>2. ShapeInv'
    BY <1>0, <1>1 DEF RewriteInv, ShapeInv, Entries, IsListed, MediaDir
  <1>3. \A i \in Entries : i < current /\ IsListed(i) => i \in Images
    BY <1>0 DEF RewriteInv, ListInv
  <1>4. \A n \in DOMAIN images : images[n] < current /\ images[n] \in Entries /\ current \in Nat
    BY <1>0 DEF RewriteInv, ListInv, ShapeInv
  <1>5. ListInv'
    <2>1. Images' = Images /\ Entries' = Entries /\ \A i : IsListed(i)' <=> IsListed(i)
      BY <1>0 DEF Images, Entries, IsListed, MediaDir
    <2>2. ~Rewritten'
      BY <1>0 DEF RewriteInv, ShapeInv, Rewritten
    <2>3. CASE stage' = "list"
      <3>1. \A n \in DOMAIN images' : images'[n] < current'
        BY <1>0, <1>1, <1>4, <2>3
      <3>2. \A i \in Entries : i < current' /\ IsListed(i) => i \in Images
        BY <1>0, <1>1, <1>3, <2>3
      <3> QED
        BY <2>1, <2>2, <2>3, <3>1, <3>2 DEF ListInv
    <2>4. CASE stage' = "judge"
      BY <1>0, <1>1, <1>3, <2>1, <2>2, <2>4 DEF ListInv
    <2> QED
      BY <1>1, <2>3, <2>4
  <1>6. HeldInv'
    BY <1>0, <1>1 DEF RewriteInv, ShapeInv, HeldInv, Rewritten
  <1>7. ContentInv'
    BY <1>0, <1>1 DEF RewriteInv, ContentInv, Images
  <1> QED
    BY <1>2, <1>5, <1>6, <1>7 DEF RewriteInv

LEMMA ListImageStep == ASSUME RewriteInv, ListImage PROVE RewriteInv'
  <1>1. CASE EarlyReturn("0") \/ EarlyReturn("exception")
    BY <1>1, GivesUp DEF ListImage
  <1>2. CASE ~(EarlyReturn("0") \/ EarlyReturn("exception"))
    <2>0. /\ stage = "list" /\ IsListed(current) /\ current \in Entries /\ current \in Nat
          /\ images' = Append(images, current)
          /\ UNCHANGED <<type, entries, output, buffer>>
      BY <1>2 DEF ListImage, RewriteInv, ShapeInv
    <2>1. /\ result' = result /\ unnoticed \subseteq unnoticed'
          /\ unnoticed' \subseteq unnoticed \cup {"listing"}
          /\ \/ /\ stage' = "list" /\ current' = current + 1 /\ current' \in Entries
                /\ \A i \in Entries : i < current' <=> i < current \/ i = current
             \/ /\ stage' = "judge" /\ current' = 1
                /\ "listing" \in unnoticed' \/ \A i \in Entries : i < current \/ i = current
      BY <1>2, <2>0, Loops DEF ListImage, RewriteInv
    <2>2. /\ images' \in Seq(Entries)
          /\ \A n \in DOMAIN images : n \in DOMAIN images' /\ images'[n] = images[n]
          /\ \E last \in DOMAIN images' :
               /\ images'[last] = current
               /\ \A n \in DOMAIN images' : n = last \/ n \in DOMAIN images
               /\ last \notin DOMAIN images
      BY <2>0, Appended DEF RewriteInv, ShapeInv
    <2>3. PICK last \in DOMAIN images' :
               /\ images'[last] = current
               /\ \A n \in DOMAIN images' : n = last \/ n \in DOMAIN images
      BY <2>2
    <2>4. \A n \in DOMAIN images : images[n] < current /\ images[n] \in Entries /\ IsListed(images[n])
      BY <2>0 DEF RewriteInv, ListInv, ShapeInv
    <2>5. \A i \in Entries : i < current /\ IsListed(i) => i \in Images
      BY <2>0 DEF RewriteInv, ListInv
    <2>6. Images' = Images \cup {current}
      BY <2>2, <2>3 DEF Images
    <2>7. Entries' = Entries /\ \A i : IsListed(i)' <=> IsListed(i)
      BY <2>0 DEF Entries, IsListed, MediaDir
    <2>8. ShapeInv'
      <3>1. \A m, n \in DOMAIN images' : m # n => images'[m] # images'[n]
        <4>1. \A m, n \in DOMAIN images : m # n => images[m] # images[n]
          BY DEF RewriteInv, ShapeInv
        <4>2. \A n \in DOMAIN images : images[n] # current
          <5>1. \A n \in DOMAIN images : images[n] < current /\ images[n] \in Nat
            BY <2>4, FirstEntry DEF RewriteInv
          <5> QED
            BY <2>0, <5>1
        <4> QED
          BY <2>2, <2>3, <4>1, <4>2
      <3>2. \A n \in DOMAIN images' : IsListed(images'[n])
        BY <2>0, <2>2, <2>3, <2>4
      <3>3. /\ type' \in {"docx", "xlsx", "hwpx"} /\ entries' \in Archive
            /\ stage' \in {"list", "judge"} /\ current' \in Nat
            /\ stage' \in {"list", "copy"} => current' \in Entries
            /\ buffer' = "original" /\ result' = "none"
            /\ unnoticed' \subseteq {"listing", "copying", "entry"}
        BY <2>0, <2>1 DEF RewriteInv, ShapeInv
      <3>4. /\ output' \in Seq([entry : Entries, content : {"censored", "copied", "cut"}])
            /\ \A m, n \in DOMAIN output' : m # n => output'[m].entry # output'[n].entry
        BY <2>0 DEF RewriteInv, ShapeInv
      <3> QED
        BY <2>2, <2>7, <3>1, <3>2, <3>3, <3>4 DEF ShapeInv
    <2>9. ListInv'
      <3>1. ~Rewritten'
        BY <2>0 DEF RewriteInv, ShapeInv, Rewritten
      <3>2. CASE stage' = "list"
        <4>1. \A n \in DOMAIN images' : images'[n] < current'
          <5>1. current' = current + 1 /\ \A n \in DOMAIN images : images[n] < current /\ images[n] \in Nat
            BY <2>1, <2>4, <3>2, FirstEntry DEF RewriteInv
          <5>2. ASSUME NEW n \in DOMAIN images' PROVE images'[n] < current'
            <6>1. CASE n = last
              BY <2>0, <2>3, <5>1, <6>1
            <6>2. CASE n \in DOMAIN images
              BY <2>0, <2>2, <5>1, <6>2
            <6> QED
              BY <2>3, <6>1, <6>2
          <5> QED
            BY <5>2
        <4>2. \A i \in Entries : i < current' /\ IsListed(i) => i \in Images'
          BY <2>1, <2>5, <2>6, <3>2
        <4> QED
          BY <2>7, <3>1, <3>2, <4>1, <4>2 DEF ListInv
      <3>3. CASE stage' = "judge"
        BY <2>1, <2>5, <2>6, <2>7, <3>1, <3>3 DEF ListInv
      <3> QED
        BY <2>1, <3>2, <3>3
    <2>10. HeldInv'
      BY <2>0, <2>1 DEF RewriteInv, ShapeInv, HeldInv, Rewritten
    <2>11. ContentInv'
      <3>1. output = <<>> /\ output' = output
        BY <2>0 DEF RewriteInv, HeldInv
      <3> QED
        BY <3>1 DEF ContentInv
    <2> QED
      BY <2>8, <2>9, <2>10, <2>11 DEF RewriteInv
  <1> QED
    BY <1>1, <1>2

(* One more entry of the output keeps the shape of the state.              *)
LEMMA ShapeKept ==
  ASSUME ShapeInv, UNCHANGED <<type, entries, images, buffer, result>>, stage # "done",
         stage' \in {"copy", "text", "images"}, current' \in Nat,
         stage' = "copy" => current' \in Entries,
         stage' = "images" => current' \in 1 .. Len(images) + 1,
         unnoticed' \subseteq {"listing", "copying", "entry"},
         output' \in Seq([entry : Entries, content : {"censored", "copied", "cut"}]),
         \A m, n \in DOMAIN output' : m # n => output'[m].entry # output'[n].entry
  PROVE  ShapeInv'
  <1>1. Entries' = Entries /\ \A i : IsListed(i)' <=> IsListed(i)
    BY DEF Entries, IsListed, MediaDir
  <1>2. /\ type' \in {"docx", "xlsx", "hwpx"} /\ entries' \in Archive
        /\ images' \in Seq(Entries) /\ \A n \in DOMAIN images' : IsListed(images'[n])
        /\ \A m, n \in DOMAIN images' : m # n => images'[m] # images'[n]
        /\ buffer' = "original" /\ result' = "none"
    BY DEF ShapeInv
  <1> QED
    BY <1>1, <1>2 DEF ShapeInv

LEMMA SkipEntryStep == ASSUME RewriteInv, SkipEntry PROVE RewriteInv'
  <1>0. /\ stage = "copy" /\ IsCensored(current) /\ current \in Entries
        /\ UNCHANGED <<type, entries, images, output, buffer>>
    BY DEF SkipEntry, RewriteInv, ShapeInv
  <1>1. /\ result' = result /\ unnoticed \subseteq unnoticed'
        /\ unnoticed' \subseteq unnoticed \cup {"copying"}
        /\ \/ /\ stage' = "copy" /\ current' = current + 1 /\ current' \in Entries
              /\ \A i \in Entries : i < current' <=> i < current \/ i = current
           \/ /\ stage' = "text" /\ current' = 1
              /\ "copying" \in unnoticed' \/ \A i \in Entries : i < current \/ i = current
    BY <1>0, Loops DEF SkipEntry, RewriteInv
  <1>2. Images' = Images /\ Entries' = Entries /\ Held' = Held
        /\ \A i : (IsListed(i)' <=> IsListed(i)) /\ (IsCensored(i)' <=> IsCensored(i))
    BY <1>0 DEF Images, Entries, IsListed, MediaDir, IsCensored, Held
  <1>3. ~Rewritten' /\ ~Rewritten
    BY <1>0 DEF RewriteInv, ShapeInv, Rewritten
  <1>4. ShapeInv'
    <2>1. current' \in Nat /\ unnoticed' \subseteq {"listing", "copying", "entry"}
      BY <1>0, <1>1 DEF RewriteInv, ShapeInv
    <2> QED
      BY <1>0, <1>1, <2>1, ShapeKept DEF RewriteInv, ShapeInv
  <1>5. ListInv'
    BY <1>0, <1>1, <1>2, <1>3 DEF RewriteInv, ListInv
  <1>6. HeldInv'
    <2>1. \A i \in Entries : i \in Held <=> i < current /\ ~IsCensored(i)
      BY <1>0 DEF RewriteInv, HeldInv
    <2>2. CASE stage' = "copy"
      BY <1>0, <1>1, <1>2, <1>3, <2>1, <2>2 DEF HeldInv
    <2>3. CASE stage' = "text"
      BY <1>0, <1>1, <1>2, <1>3, <2>1, <2>3 DEF HeldInv
    <2> QED
      BY <1>1, <2>2, <2>3
  <1>7. ContentInv'
    BY <1>0, <1>1, <1>2 DEF RewriteInv, ContentInv
  <1> QED
    BY <1>4, <1>5, <1>6, <1>7 DEF RewriteInv

LEMMA CopyEntryStep == ASSUME RewriteInv, CopyEntry PROVE RewriteInv'
  <1>1. CASE EarlyReturn("0")
    BY <1>1, GivesUp DEF CopyEntry
  <1>2. CASE ~EarlyReturn("0")
    <2>0. /\ stage = "copy" /\ ~IsCensored(current) /\ current \in Entries
          /\ UNCHANGED <<type, entries, images, buffer>>
          /\ \E out \in Outcome :
               /\ Written(current, IF out.close THEN "copied" ELSE "cut")
               /\ NextEntry("copy", "text", "copying", Missed(~out.close))
      BY <1>2 DEF CopyEntry, RewriteInv, ShapeInv
    <2>1. PICK out \in Outcome :
               /\ Written(current, IF out.close THEN "copied" ELSE "cut")
               /\ NextEntry("copy", "text", "copying", Missed(~out.close))
      BY <2>0
    <2>2. /\ result' = result /\ unnoticed \subseteq unnoticed'
          /\ Missed(~out.close) \subseteq unnoticed'
          /\ unnoticed' \subseteq unnoticed \cup Missed(~out.close) \cup {"copying"}
          /\ \/ /\ stage' = "copy" /\ current' = current + 1 /\ current' \in Entries
                /\ \A i \in Entries : i < current' <=> i < current \/ i = current
             \/ /\ stage' = "text" /\ current' = 1
                /\ "copying" \in unnoticed' \/ \A i \in Entries : i < current \/ i = current
      BY <2>0, <2>1, Loops DEF RewriteInv
    <2>3. Images' = Images /\ Entries' = Entries
          /\ \A i : (IsListed(i)' <=> IsListed(i)) /\ (IsCensored(i)' <=> IsCensored(i))
      BY <2>0 DEF Images, Entries, IsListed, MediaDir, IsCensored
    <2>4. \A i \in Entries : i \in Held <=> i < current /\ ~IsCensored(i)
      BY <2>0 DEF RewriteInv, HeldInv
    <2>5. current \notin Held
      <3>1. ~(current < current)
        BY DEF RewriteInv, ShapeInv
      <3> QED
        BY <2>0, <2>4, <3>1
    <2>6. /\ Held' = Held \cup {current}
          /\ output' \in Seq([entry : Entries, content : {"censored", "copied", "cut"}])
          /\ \A m, n \in DOMAIN output' : m # n => output'[m].entry # output'[n].entry
          /\ ContentInv'
      <3>1. /\ entries[current] # "text" /\ current \notin Images
        BY <2>0 DEF IsCensored
      <3>2. CASE out.close
        <4>1. Written(current, "copied")
          BY <2>1, <3>2
        <4> QED
          BY <2>0, <2>2, <2>5, <3>1, <4>1, OutputGrows DEF RewriteInv
      <3>3. CASE ~out.close
        <4>1. Written(current, "cut") /\ "entry" \in unnoticed'
          BY <2>1, <2>2, <3>3 DEF Missed
        <4> QED
          BY <2>0, <2>2, <2>5, <4>1, OutputGrows DEF RewriteInv
      <3> QED
        BY <3>2, <3>3
    <2>7. ~Rewritten' /\ ~Rewritten
      BY <2>0 DEF RewriteInv, ShapeInv, Rewritten
    <2>8. ShapeInv'
      <3>1. current' \in Nat /\ unnoticed' \subseteq {"listing", "copying", "entry"}
        BY <2>0, <2>2 DEF RewriteInv, ShapeInv, Missed
      <3> QED
        BY <2>0, <2>2, <2>6, <3>1, ShapeKept DEF RewriteInv
    <2>9. ListInv'
      BY <2>0, <2>2, <2>3, <2>7 DEF RewriteInv, ListInv
    <2>10. HeldInv'
      <3>1. CASE stage' = "copy"
        BY <2>0, <2>2, <2>3, <2>4, <2>6, <2>7, <3>1 DEF HeldInv
      <3>2. CASE stage' = "text"
        BY <2>0, <2>2, <2>3, <2>4, <2>6, <2>7, <3>2 DEF HeldInv
      <3> QED
        BY <2>2, <3>1, <3>2
    <2> QED
      BY <2>6, <2>8, <2>9, <2>10 DEF RewriteInv
  <1> QED
    BY <1>1, <1>2

LEMMA WriteTextStep == ASSUME RewriteInv, WriteText PROVE RewriteInv'
  <1> DEFINE text == CHOOSE i \in DOMAIN entries : entries[i] = "text"
  <1>1. CASE EarlyReturn("0")
    BY <1>1, GivesUp DEF WriteText
  <1>2. CASE ~EarlyReturn("0")
    <2>0. /\ stage = "text" /\ Written(text, "censored") /\ GoesOn("images") /\ current' = 1
          /\ UNCHANGED <<type, entries, images, buffer, unnoticed>>
      BY <1>2 DEF WriteText
    <2>1. text \in Entries /\ \A i \in Entries : entries[i] = "text" <=> i = text
      <3>1. PICK i \in DOMAIN entries : \A j \in DOMAIN entries : entries[j] = "text" <=> j = i
        BY OneText DEF RewriteInv, ShapeInv
      <3> QED
        BY <3>1 DEF Entries
    <2> HIDE DEF text
    <2>2. Images' = Images /\ Entries' = Entries
          /\ \A i : (IsListed(i)' <=> IsListed(i)) /\ (IsCensored(i)' <=> IsCensored(i))
      BY <2>0 DEF Images, Entries, IsListed, MediaDir, IsCensored
    <2>3. \A i \in Entries : IsCensored(i) => i \notin Held
      BY <2>0 DEF RewriteInv, HeldInv
    <2>4. text \notin Held
      BY <2>1, <2>3 DEF IsCensored
    <2>5. /\ Held' = Held \cup {text}
          /\ output' \in Seq([entry : Entries, content : {"censored", "copied", "cut"}])
          /\ \A m, n \in DOMAIN output' : m # n => output'[m].entry # output'[n].entry
          /\ ContentInv'
      BY <2>0, <2>1, <2>4, OutputGrows DEF RewriteInv
    <2>6. ~Rewritten' /\ ~Rewritten
      BY <2>0 DEF RewriteInv, ShapeInv, Rewritten
    <2>7. ShapeInv'
      <3>1. current' \in 1 .. Len(images) + 1
        BY <2>0 DEF RewriteInv, ShapeInv
      <3> QED
        BY <2>0, <2>5, <3>1, ShapeKept DEF RewriteInv, ShapeInv, GoesOn
    <2>8. ListInv'
      BY <2>0, <2>2, <2>6 DEF RewriteInv, ListInv, GoesOn
    <2>9. HeldInv'
      <3>1. 1 .. current' - 1 = {}
        BY <2>0
      <3>2. \A i \in Entries : IsCensored(i) => (i \in Held' <=> entries[i] = "text")
        BY <2>1, <2>3, <2>5
      <3>3. "copying" \in unnoticed \/ \A i \in Entries : ~IsCensored(i) => i \in Held'
        BY <2>0, <2>5 DEF RewriteInv, HeldInv
      <3> QED
        BY <2>0, <2>2, <2>6, <3>1, <3>2, <3>3 DEF HeldInv, GoesOn
    <2> QED
      BY <2>5, <2>7, <2>8, <2>9 DEF RewriteInv
  <1> QED
    BY <1>1, <1>2

LEMMA WriteImageStep == ASSUME RewriteInv, WriteImage PROVE RewriteInv'
  <1> DEFINE image == images[current]
             whole(in, out) ==
               /\ out.data /\ out.close
               /\ entries[image] = "flagged" \/ ~ErrorAfterData(in)
  <1>1. CASE EarlyReturn("0") \/ EarlyReturn("exception")
    BY <1>1, GivesUp DEF WriteImage
  <1>2. CASE ~(EarlyReturn("0") \/ EarlyReturn("exception"))
    <2>0. /\ stage = "images" /\ current <= Len(images) /\ current' = current + 1
          /\ UNCHANGED <<type, entries, stage, images, result, buffer>>
          /\ \E in, out \in Outcome :
               /\ out.close
               /\ Written(image, IF ~whole(in, out) THEN "cut"
                                 ELSE IF entries[image] = "flagged" THEN "censored" ELSE "copied")
               /\ unnoticed' = unnoticed \cup Missed(out.close /\ ~whole(in, out))
      BY <1>2 DEF WriteImage, ImageWritten, ErrorAfterClose
    <2>1. PICK in \in Outcome, out \in Outcome :
               /\ out.close
               /\ Written(image, IF ~whole(in, out) THEN "cut"
                                 ELSE IF entries[image] = "flagged" THEN "censored" ELSE "copied")
               /\ unnoticed' = unnoticed \cup Missed(out.close /\ ~whole(in, out))
      BY <2>0
    <2> HIDE DEF whole
    <2>2. /\ current \in DOMAIN images /\ image \in Entries /\ IsListed(image)
          /\ current \in 1 .. Len(images) /\ DOMAIN images = 1 .. Len(images) /\ Len(images) \in Nat
      BY <2>0 DEF RewriteInv, ShapeInv
    <2>3. entries[image] # "text" /\ image \in Images /\ IsCensored(image)
      BY <2>2 DEF IsListed, Images, IsCensored
    <2>4. \A i \in Entries : IsCensored(i) =>
             (i \in Held <=> entries[i] = "text" \/ \E n \in 1 .. current - 1 : images[n] = i)
      BY <2>0 DEF RewriteInv, HeldInv
    <2>5. image \notin Held
      <3>1. \A n \in 1 .. current - 1 : n \in DOMAIN images /\ n # current
        BY <2>2
      <3>2. \A n \in 1 .. current - 1 : images[n] # image
        BY <2>2, <3>1 DEF RewriteInv, ShapeInv
      <3> QED
        BY <2>2, <2>3, <2>4, <3>2
    <2>6. /\ Held' = Held \cup {image}
          /\ output' \in Seq([entry : Entries, content : {"censored", "copied", "cut"}])
          /\ \A m, n \in DOMAIN output' : m # n => output'[m].entry # output'[n].entry
          /\ ContentInv'
      <3> HIDE DEF image
      <3>0. entries' = entries /\ images' = images /\ unnoticed \subseteq unnoticed'
        BY <2>0, <2>1
      <3>1. CASE whole(in, out)
        <4>1. Written(image, IF entries[image] = "flagged" THEN "censored" ELSE "copied")
          BY <2>1, <3>1
        <4> QED
          BY <2>2, <2>3, <2>5, <3>0, <4>1, OutputGrows DEF RewriteInv
      <3>2. CASE ~whole(in, out)
        <4>1. Written(image, "cut") /\ "entry" \in unnoticed'
          BY <2>1, <3>2 DEF Missed
        <4> QED
          BY <2>2, <2>5, <3>0, <4>1, OutputGrows DEF RewriteInv
      <3> QED
        BY <3>1, <3>2
    <2>7. Images' = Images /\ Entries' = Entries
          /\ \A i : (IsListed(i)' <=> IsListed(i)) /\ (IsCensored(i)' <=> IsCensored(i))
      BY <2>0 DEF Images, Entries, IsListed, MediaDir, IsCensored
    <2>8. ~Rewritten' /\ ~Rewritten
      BY <2>0 DEF RewriteInv, ShapeInv, Rewritten
    <2>9. ShapeInv'
      <3>1. current' \in 1 .. Len(images) + 1 /\ current' \in Nat
        BY <2>0, <2>2
      <3>2. unnoticed' \subseteq {"listing", "copying", "entry"}
        BY <2>1 DEF Missed, RewriteInv, ShapeInv
      <3> QED
        BY <2>0, <2>6, <3>1, <3>2, ShapeKept DEF RewriteInv
    <2>10. ListInv'
      BY <2>0, <2>1, <2>7, <2>8 DEF RewriteInv, ListInv
    <2>11. HeldInv'
      <3>1. 1 .. current' - 1 = (1 .. current - 1) \cup {current}
        BY <2>0, <2>2
      <3>2. \A i \in Entries : IsCensored(i) =>
              (i \in Held' <=> entries[i] = "text" \/ \E n \in 1 .. current' - 1 : images[n] = i)
        BY <2>4, <2>6, <3>1
      <3>3. "copying" \in unnoticed' \/ \A i \in Entries : ~IsCensored(i) => i \in Held'
        BY <2>0, <2>1, <2>6 DEF RewriteInv, HeldInv
      <3> QED
        BY <2>0, <2>7, <2>8, <3>2, <3>3 DEF HeldInv
    <2> QED
      BY <2>6, <2>9, <2>10, <2>11 DEF RewriteInv
  <1> QED
    BY <1>1, <1>2

LEMMA FinishStep == ASSUME RewriteInv, Finish PROVE RewriteInv'
  <1>1. CASE EarlyReturn("0")
    BY <1>1, GivesUp DEF Finish
  <1>2. CASE ~EarlyReturn("0")
    <2>0. /\ stage = "images" /\ current > Len(images) /\ stage' = "done"
          /\ \/ result' = "size" /\ buffer' = "rewritten"
             \/ result' = "0" /\ buffer' = "half"
          /\ UNCHANGED <<type, entries, current, images, output, unnoticed>>
      BY <1>2 DEF Finish, CopyBack, Ends
    <2>1. Images' = Images /\ Entries' = Entries /\ Held' = Held
          /\ \A i : (IsListed(i)' <=> IsListed(i)) /\ (IsCensored(i)' <=> IsCensored(i))
      BY <2>0 DEF Images, Entries, IsListed, MediaDir, IsCensored, Held
    <2>2. ShapeInv'
      <3>1. /\ type' \in {"docx", "xlsx", "hwpx"} /\ entries' \in Archive
            /\ images' \in Seq(Entries) /\ unnoticed' \subseteq {"listing", "copying", "entry"}
            /\ output' \in Seq([entry : Entries, content : {"censored", "copied", "cut"}])
            /\ \A n \in DOMAIN images' : IsListed(images'[n])
            /\ \A m, n \in DOMAIN images' : m # n => images'[m] # images'[n]
            /\ \A m, n \in DOMAIN output' : m # n => output'[m].entry # output'[n].entry
            /\ current' \in Nat
        BY <2>0 DEF RewriteInv, ShapeInv
      <3> QED
        BY <2>0, <2>1, <3>1 DEF ShapeInv
    <2>3. ListInv'
      BY <2>0, <2>1 DEF RewriteInv, ListInv
    <2>4. HeldInv'
      <3>1. \A i \in Entries : IsCensored(i) => i \in Held
        <4>1. \A i \in Entries : IsCensored(i) =>
                (i \in Held <=> entries[i] = "text" \/ \E n \in 1 .. current - 1 : images[n] = i)
          BY <2>0 DEF RewriteInv, HeldInv
        <4>2. DOMAIN images = 1 .. current - 1
          <5>1. /\ DOMAIN images = 1 .. Len(images) /\ Len(images) \in Nat
                /\ current \in 1 .. Len(images) + 1
            BY <2>0 DEF RewriteInv, ShapeInv
          <5> QED
            BY <2>0, <5>1
        <4> QED
          BY <4>1, <4>2 DEF IsCensored, Images
      <3>2. "copying" \in unnoticed \/ \A i \in Entries : ~IsCensored(i) => i \in Held
        BY <2>0 DEF RewriteInv, HeldInv
      <3> QED
        BY <2>0, <2>1, <3>1, <3>2 DEF HeldInv
    <2>5. ContentInv'
      BY <2>0, <2>1 DEF RewriteInv, ContentInv
    <2> QED
      BY <2>2, <2>3, <2>4, <2>5 DEF RewriteInv
  <1> QED
    BY <1>1, <1>2

LEMMA RewriteStep == RewriteInv /\ [RewriteNext]_rewriteVars => RewriteInv'
  <1> SUFFICES ASSUME RewriteInv, [RewriteNext]_rewriteVars PROVE RewriteInv'
    OBVIOUS
  <1>1. CASE UNCHANGED rewriteVars
    BY <1>1 DEF rewriteVars, RewriteInv, ShapeInv, ListInv, HeldInv, ContentInv, Rewritten,
                Images, Entries, Held, IsListed, MediaDir, IsCensored
  <1> QED
    BY <1>1, ReadTextStep, ListImageStep, ListOtherStep, StartOutputStep, CopyEntryStep,
       SkipEntryStep, WriteTextStep, WriteImageStep, FinishStep DEF RewriteNext

LEMMA RewriteInvariant == RewriteSpec => []RewriteInv
  BY StartsRight, RewriteStep, PTL DEF RewriteSpec

(* A document that is reported as rewritten has each of its entries once,  *)
(* censored or as it was, except for what three unchecked results let      *)
(* through; one that is reported as failed is as it was, or a half.        *)
THEOREM DocumentCorrect == RewriteSpec => []DocumentIsWhole
  BY RewriteInvariant, WholeAtTheEnd, PTL

-----------------------------------------------------------------------------
(* Texts.                                                                  *)

(* A measure gives each character a weight, bytes or units.  What it adds  *)
(* up to after each character of a text:                                   *)
Weighs(w) == \A c \in Char : w[c] \in Nat \ {0}

Adds(f, w, t) ==
  /\ f[0] = 0 /\ \A i \in 0 .. Len(t) : f[i] \in Nat
  /\ \A i \in 1 .. Len(t) : f[i] = f[i - 1] + w[t[i]]

LEMMA CharsWeigh ==
  ASSUME NEW w, Weighs(w), NEW t \in Seq(Char), NEW i \in 1 .. Len(t)
  PROVE  t[i] \in Char /\ w[t[i]] \in Nat \ {0}
  <1>1. t[i] \in Char
    OBVIOUS
  <1> QED
    BY <1>1 DEF Weighs

LEMMA TotalLoop ==
  ASSUME NEW w, Weighs(w), NEW t \in Seq(Char)
  PROVE  \E f : Adds(f, w, t) /\ Total(w, t) = f[Len(t)]
  <1> DEFINE step == [p \in Nat \X Nat |-> IF p[1] \in DOMAIN t THEN p[2] + w[t[p[1]]] ELSE 0]
             rec(total) == [i \in 0 .. Len(t) |-> IF i = 0 THEN 0 ELSE total[i - 1] + w[t[i]]]
             read == CHOOSE total : total = rec(total)
  <1>1. Len(t) \in Nat /\ DOMAIN t = 1 .. Len(t)
    OBVIOUS
  <1>2. \A i \in 1 .. Len(t) : w[t[i]] \in Nat
    BY CharsWeigh
  <1>3. \A i \in Nat : \A v \in Nat :
          /\ step[<<i, v>>] \in Nat
          /\ i \in DOMAIN t => step[<<i, v>>] = v + w[t[i]]
    BY <1>1, <1>2
  <1> HIDE DEF step
  <1>4. PICK h : StepByStep(h, Nat, 0, step, Len(t))
    <2>1. 0 \in Nat /\ \A i \in Nat : \A v \in Nat : step[<<i, v>>] \in Nat
      BY <1>3
    <2> QED
      BY ONLY <1>1, <2>1, StepwiseFunction
  <1> DEFINE f == [i \in 0 .. Len(t) |-> h[i]]
  <1>5. \A i \in 0 .. Len(t) : f[i] = h[i] /\ f[i] \in Nat
    BY <1>4 DEF StepByStep
  <1>6. f[0] = 0
    BY <1>1, <1>4 DEF StepByStep
  <1>7. DOMAIN f = 0 .. Len(t) /\ f = [i \in 0 .. Len(t) |-> f[i]]
    OBVIOUS
  <1>8. ASSUME NEW i \in 1 .. Len(t) PROVE f[i] = f[i - 1] + w[t[i]]
    <2>1. i \in Nat /\ i \in DOMAIN t /\ i - 1 \in 0 .. Len(t) /\ i \in 0 .. Len(t)
      BY <1>1
    <2>2. h[i] = step[<<i, h[i - 1]>>]
      BY <1>4 DEF StepByStep
    <2>3. f[i] = h[i] /\ f[i - 1] = h[i - 1] /\ f[i - 1] \in Nat
      BY <1>5, <2>1
    <2> HIDE DEF f
    <2> QED
      BY <1>3, <2>1, <2>2, <2>3
  <1> HIDE DEF f
  <1>9. f = rec(f)
    <2>1. \A i \in 0 .. Len(t) : i = 0 \/ i \in 1 .. Len(t)
      BY <1>1
    <2>2. \A i \in 0 .. Len(t) : f[i] = IF i = 0 THEN 0 ELSE f[i - 1] + w[t[i]]
      BY <1>6, <1>8, <2>1
    <2> QED
      BY <1>7, <2>2
  <1>10. read = rec(read)
    BY <1>9
  <1>11. Total(w, t) = read[Len(t)]
    BY DEF Total
  <1> HIDE DEF read
  <1>12. \A i \in 0 .. Len(t) : read[i] = IF i = 0 THEN 0 ELSE read[i - 1] + w[t[i]]
    BY <1>10
  <1> DEFINE T == {n \in Nat : n <= Len(t) => read[n] \in Nat}
  <1>13. 0 \in T
    BY <1>1, <1>12
  <1>14. ASSUME NEW n \in Nat, n \in T PROVE n + 1 \in T
    <2> SUFFICES ASSUME n + 1 <= Len(t) PROVE read[n + 1] \in Nat
      OBVIOUS
    <2>1. read[n] \in Nat /\ n + 1 \in 0 .. Len(t) /\ n + 1 # 0 /\ n + 1 - 1 = n /\ n + 1 \in 1 .. Len(t)
      BY <1>1, <1>14
    <2>2. read[n + 1] = read[n] + w[t[n + 1]]
      BY <1>12, <2>1
    <2> QED
      BY <1>2, <2>1, <2>2
  <1> HIDE DEF T
  <1>15. Nat \subseteq T
    BY ONLY <1>13, <1>14, Induction
  <1>16. Adds(read, w, t)
    <2>1. \A i \in 0 .. Len(t) : read[i] \in Nat
      BY <1>1, <1>15 DEF T
    <2>2. \A i \in 1 .. Len(t) : i \in 0 .. Len(t) /\ i # 0
      BY <1>1
    <2>3. read[0] = 0
      BY <1>1, <1>12
    <2> QED
      BY <1>12, <2>1, <2>2, <2>3 DEF Adds
  <1> QED
    BY <1>11, <1>16

(* A part of a text weighs what is added from its start to its end.        *)
LEMMA PartTotal ==
  ASSUME NEW w, Weighs(w), NEW t \in Seq(Char), NEW f, Adds(f, w, t),
         NEW a \in 1 .. Len(t) + 1, NEW b \in a - 1 .. Len(t)
  PROVE  Total(w, SubSeq(t, a, b)) = f[b] - f[a - 1]
  <1> DEFINE r == SubSeq(t, a, b)
  <1>0. /\ a \in Nat /\ b \in Nat /\ Len(t) \in Nat /\ a <= Len(t) + 1 /\ 1 <= a
        /\ a - 1 <= b /\ b <= Len(t)
    OBVIOUS
  <1>1. r \in Seq(Char) /\ Len(r) = b - a + 1 /\ \A i \in 1 .. b - a + 1 : r[i] = t[a + i - 1]
    <2>1. \A i \in a .. b : t[i] \in Char
      BY <1>0
    <2>2. /\ SubSeq(t, a, b) \in Seq(Char)
          /\ Len(SubSeq(t, a, b)) = IF a <= b THEN b - a + 1 ELSE 0
          /\ \A i \in 1 .. (b - a + 1) : SubSeq(t, a, b)[i] = t[a + i - 1]
      BY ONLY <1>0, <2>1, SubSeqProperties
    <2> QED
      BY <1>0, <2>2
  <1> HIDE DEF r
  <1>2. PICK h : Adds(h, w, r) /\ Total(w, r) = h[Len(r)]
    BY <1>1, TotalLoop
  <1> DEFINE T == {n \in Nat : n <= Len(r) => h[n] = f[a - 1 + n] - f[a - 1]}
  <1>3. a - 1 \in 0 .. Len(t) /\ f[a - 1] \in Nat
    BY <1>0 DEF Adds
  <1>4. 0 \in T
    BY <1>0, <1>2, <1>3 DEF Adds
  <1>5. ASSUME NEW n \in Nat, n \in T PROVE n + 1 \in T
    <2> SUFFICES ASSUME n + 1 <= Len(r) PROVE h[n + 1] = f[a - 1 + (n + 1)] - f[a - 1]
      OBVIOUS
    <2>0. PICK k : k = a + n
      OBVIOUS
    <2>1. n + 1 \in 1 .. Len(r) /\ (n + 1) - 1 = n /\ n \in 0 .. Len(r)
      BY <1>1
    <2>2. k \in 1 .. Len(t) /\ k - 1 \in 0 .. Len(t)
      BY <1>0, <1>1, <2>0, <2>1
    <2>3. k - 1 = a - 1 + n /\ a - 1 + (n + 1) = k /\ a + (n + 1) - 1 = k
      BY <1>0, <2>0
    <2>4. h[n + 1] = h[n] + w[r[n + 1]] /\ h[n] \in Nat
      BY <1>2, <2>1 DEF Adds
    <2>5. f[k] = f[k - 1] + w[t[k]] /\ f[k - 1] \in Nat
      BY <2>2 DEF Adds
    <2>6. r[n + 1] = t[k] /\ w[t[k]] \in Nat
      BY <1>1, <2>1, <2>2, <2>3, CharsWeigh
    <2>7. h[n] = f[a - 1 + n] - f[a - 1]
      BY <1>1, <1>5, <2>1
    <2>8. f[a - 1 + (n + 1)] = f[k] /\ f[a - 1 + n] = f[k - 1]
      BY <2>3
    <2>9. h[n + 1] = (f[k - 1] - f[a - 1]) + w[t[k]]
      BY <2>4, <2>6, <2>7, <2>8
    <2>10. h[n + 1] = f[k] - f[a - 1]
      BY <1>3, <2>5, <2>6, <2>9
    <2> QED
      BY <2>8, <2>10
  <1> HIDE DEF T
  <1>6. Nat \subseteq T
    BY ONLY <1>4, <1>5, Induction
  <1>7. Len(r) \in Nat /\ a - 1 + Len(r) = b
    BY <1>0, <1>1
  <1>8. h[Len(r)] = f[b] - f[a - 1]
    BY <1>6, <1>7 DEF T
  <1> QED
    BY <1>2, <1>8 DEF r

(* What a measure adds up to at each boundary of characters.               *)
Marks(w, t) == [n \in 0 .. Len(t) |-> Total(w, SubSeq(t, 1, n))]

LEMMA MarksAdd ==
  ASSUME NEW w, Weighs(w), NEW t \in Seq(Char)
  PROVE  /\ Adds(Marks(w, t), w, t)
         /\ \A a \in 1 .. Len(t) + 1 : \A b \in a - 1 .. Len(t) :
              Total(w, SubSeq(t, a, b)) = Marks(w, t)[b] - Marks(w, t)[a - 1]
         /\ Total(w, t) = Marks(w, t)[Len(t)]
  <1>1. PICK f : Adds(f, w, t) /\ Total(w, t) = f[Len(t)]
    BY TotalLoop
  <1>0. Len(t) \in Nat /\ 1 \in 1 .. Len(t) + 1
    OBVIOUS
  <1>2. ASSUME NEW n \in 0 .. Len(t) PROVE Marks(w, t)[n] = f[n]
    <2>1. Total(w, SubSeq(t, 1, n)) = f[n] - f[1 - 1]
      BY <1>0, <1>1, PartTotal
    <2>2. f[1 - 1] = 0 /\ f[n] \in Nat
      BY <1>1 DEF Adds
    <2> QED
      BY <2>1, <2>2 DEF Marks
  <1>3. Adds(Marks(w, t), w, t)
    <2>1. \A i \in 1 .. Len(t) : i - 1 \in 0 .. Len(t) /\ i \in 0 .. Len(t)
      BY <1>0
    <2>2. 0 \in 0 .. Len(t)
      BY <1>0
    <2> QED
      BY <1>1, <1>2, <2>1, <2>2 DEF Adds
  <1>4. ASSUME NEW a \in 1 .. Len(t) + 1, NEW b \in a - 1 .. Len(t)
        PROVE  Total(w, SubSeq(t, a, b)) = Marks(w, t)[b] - Marks(w, t)[a - 1]
    BY <1>3, PartTotal
  <1>5. Total(w, t) = Marks(w, t)[Len(t)]
    <2>1. Len(t) \in 0 .. Len(t)
      BY <1>0
    <2> QED
      BY <1>1, <1>2, <2>1
  <1> QED
    BY <1>3, <1>4, <1>5

(* Boundaries that come later have more before them.                       *)
Rises(f, n) == \A i, j \in 0 .. n : i < j <=> f[i] < f[j]

LEMMA MarksRise ==
  ASSUME NEW w, Weighs(w), NEW t \in Seq(Char), NEW f, Adds(f, w, t)
  PROVE  Rises(f, Len(t))
  <1> DEFINE T == {n \in Nat : n <= Len(t) => \A i \in 0 .. Len(t) : i < n => f[i] < f[n]}
  <1>0. Len(t) \in Nat
    OBVIOUS
  <1>1. 0 \in T
    BY <1>0
  <1>2. ASSUME NEW n \in Nat, n \in T PROVE n + 1 \in T
    <2> SUFFICES ASSUME n + 1 <= Len(t), NEW i \in 0 .. Len(t), i < n + 1
                 PROVE  f[i] < f[n + 1]
      OBVIOUS
    <2>1. n + 1 \in 1 .. Len(t) /\ n + 1 - 1 = n /\ n \in 0 .. Len(t)
      BY <1>0
    <2>2. f[n + 1] = f[n] + w[t[n + 1]] /\ f[n] \in Nat /\ f[i] \in Nat
      BY <2>1 DEF Adds
    <2>3. w[t[n + 1]] \in Nat \ {0}
      BY <2>1, CharsWeigh
    <2>4. i = n \/ f[i] < f[n]
      BY <1>2, <2>1
    <2> QED
      BY <2>2, <2>3, <2>4
  <1> HIDE DEF T
  <1>3. Nat \subseteq T
    BY ONLY <1>1, <1>2, Induction
  <1>4. \A i, j \in 0 .. Len(t) : i < j => f[i] < f[j]
    BY <1>0, <1>3 DEF T
  <1>5. \A i \in 0 .. Len(t) : f[i] \in Nat
    BY DEF Adds
  <1>6. ASSUME NEW i \in 0 .. Len(t), NEW j \in 0 .. Len(t), f[i] < f[j] PROVE i < j
    <2>1. i < j \/ i = j \/ j < i
      BY <1>0
    <2>2. ~(j < i)
      BY <1>4, <1>5, <1>6
    <2>3. i # j
      BY <1>5, <1>6
    <2> QED
      BY <2>1, <2>2, <2>3
  <1> QED
    BY <1>4, <1>6 DEF Rises

-----------------------------------------------------------------------------
(* Bytes and units.                                                        *)
LEMMA BytesWeigh == Weighs(Bytes)
  <1>1. \A c \in Char : Bytes[c] \in 1 .. 4
    BY WidthAssumption
  <1> QED
    BY <1>1 DEF Weighs

LEMMA UnitsWeigh == Weighs(Units)
  <1>1. ASSUME NEW c \in Char PROVE Units[c] \in Nat \ {0}
    <2>1. c \in Char \cup {Beyond} /\ c # Beyond
      BY BeyondAssumption
    <2>2. Units[c] = IF Bytes[c] = 4 THEN 2 ELSE 1
      BY <2>1 DEF Units
    <2> QED
      BY <2>2
  <1> QED
    BY <1>1 DEF Weighs

Places(t)  == Marks(Bytes, t)
Offsets(t) == Marks(Units, t)

LEMMA PlacesRise ==
  ASSUME NEW t \in Seq(Char)
  PROVE  /\ Places(t)[0] = 0 /\ \A i \in 0 .. Len(t) : Places(t)[i] \in Nat
         /\ Rises(Places(t), Len(t)) /\ SizeOf(t) = Places(t)[Len(t)]
         /\ \A a \in 1 .. Len(t) + 1 : \A b \in a - 1 .. Len(t) :
              SizeOf(SubSeq(t, a, b)) = Places(t)[b] - Places(t)[a - 1]
  <1>1. /\ Adds(Marks(Bytes, t), Bytes, t)
        /\ \A a \in 1 .. Len(t) + 1 : \A b \in a - 1 .. Len(t) :
             Total(Bytes, SubSeq(t, a, b)) = Marks(Bytes, t)[b] - Marks(Bytes, t)[a - 1]
        /\ Total(Bytes, t) = Marks(Bytes, t)[Len(t)]
    BY BytesWeigh, MarksAdd
  <1>2. Rises(Marks(Bytes, t), Len(t))
    BY <1>1, BytesWeigh, MarksRise
  <1> QED
    BY <1>1, <1>2 DEF Places, SizeOf, Adds

LEMMA OffsetsRise ==
  ASSUME NEW t \in Seq(Char)
  PROVE  /\ \A i \in 0 .. Len(t) : /\ Offsets(t)[i] \in Nat
                                   /\ Offsets(t)[i] = LengthOf(SubSeq(t, 1, i))
         /\ Rises(Offsets(t), Len(t))
  <1>1. Adds(Marks(Units, t), Units, t)
    BY UnitsWeigh, MarksAdd
  <1>2. Rises(Marks(Units, t), Len(t))
    BY <1>1, UnitsWeigh, MarksRise
  <1> QED
    BY <1>1, <1>2 DEF Offsets, Adds, Marks, LengthOf

(* A match from character a up to character b holds the bytes between the  *)
(* two boundaries.                                                         *)
LEMMA MatchPlaces ==
  ASSUME NEW t \in Seq(Char), NEW a \in 1 .. Len(t) + 1, NEW b \in a .. Len(t) + 1
  PROVE  /\ Match(t, a, b).index = Places(t)[a - 1]
         /\ Match(t, a, b).size = Places(t)[b - 1] - Places(t)[a - 1]
         /\ Places(t)[a - 1] \in Nat /\ Places(t)[b - 1] \in Nat
         /\ Match(t, a, b).index + Match(t, a, b).size = Places(t)[b - 1]
         /\ a < b => Places(t)[a - 1] < Places(t)[b - 1]
         /\ Match(t, a, b) \in [index : Nat, size : Nat]
         /\ Match(t, a, b) =
              [index |-> Places(t)[a - 1], size |-> Places(t)[b - 1] - Places(t)[a - 1]]
  <1>1. /\ Len(t) \in Nat /\ a - 1 \in 0 .. Len(t) /\ b - 1 \in a - 1 .. Len(t) /\ b - 1 \in 0 .. Len(t)
        /\ 1 \in 1 .. Len(t) + 1 /\ a - 1 \in 1 - 1 .. Len(t) /\ 1 - 1 = 0
        /\ (a < b => a - 1 < b - 1) /\ (a - 1 < b - 1 \/ a - 1 = b - 1)
    OBVIOUS
  <1> PICK p : p = Places(t)
    OBVIOUS
  <1>2. p[0] = 0 /\ p[a - 1] \in Nat /\ p[b - 1] \in Nat
    BY <1>1, PlacesRise
  <1>3. SizeOf(SubSeq(t, 1, a - 1)) = p[a - 1] - p[0]
    BY <1>1, PlacesRise
  <1>4. SizeOf(SubSeq(t, a, b - 1)) = p[b - 1] - p[a - 1]
    BY <1>1, PlacesRise
  <1>5. a - 1 < b - 1 => p[a - 1] < p[b - 1]
    BY <1>1, PlacesRise DEF Rises
  <1>6. Match(t, a, b) = [index |-> p[a - 1], size |-> p[b - 1] - p[a - 1]]
    BY <1>2, <1>3, <1>4 DEF Match
  <1>7. p[a - 1] <= p[b - 1]
    BY <1>1, <1>2, <1>5
  <1>8. p[b - 1] - p[a - 1] \in Nat /\ p[a - 1] + (p[b - 1] - p[a - 1]) = p[b - 1]
    BY <1>2, <1>7
  <1>9. Match(t, a, b).index = p[a - 1] /\ Match(t, a, b).size = p[b - 1] - p[a - 1]
    BY <1>6
  <1> QED
    BY <1>1, <1>2, <1>5, <1>6, <1>8, <1>9

LEMMA CensoredOne ==
  ASSUME NEW m
  PROVE  Censored(<<m>>) = m.index .. m.index + m.size - 1
  <1>1. DOMAIN <<m>> = {1} /\ <<m>>[1] = m
    OBVIOUS
  <1> QED
    BY <1>1 DEF Censored

LEMMA BytesOfChar ==
  ASSUME NEW t \in Seq(Char), NEW i \in 1 .. Len(t)
  PROVE  /\ BytesOf(t, i) = Places(t)[i - 1] .. Places(t)[i] - 1
         /\ Places(t)[i - 1] \in BytesOf(t, i)
         /\ BytesOf(t, i) \subseteq Nat
  <1>1. i \in 1 .. Len(t) + 1 /\ i + 1 \in i .. Len(t) + 1 /\ (i + 1) - 1 = i /\ i < i + 1
    OBVIOUS
  <1> PICK m, p : m = Match(t, i, i + 1) /\ p = Places(t)
    OBVIOUS
  <1>2. /\ m.index = p[i - 1] /\ m.index + m.size = p[i] /\ p[i - 1] < p[i]
        /\ p[i - 1] \in Nat /\ p[i] \in Nat /\ m.index \in Nat /\ m.size \in Nat
    BY <1>1, MatchPlaces
  <1>3. m.index + m.size - 1 = p[i] - 1
    BY <1>2
  <1>4. BytesOf(t, i) = p[i - 1] .. p[i] - 1
    BY <1>2, <1>3, CensoredOne DEF BytesOf
  <1>5. p[i - 1] \in p[i - 1] .. p[i] - 1 /\ p[i - 1] .. p[i] - 1 \subseteq Nat
    BY <1>2
  <1> QED
    BY <1>4, <1>5

(* It holds every character from a up to b, and no byte of any other.      *)
LEMMA CharInMatch ==
  ASSUME NEW t \in Seq(Char), NEW a \in 1 .. Len(t), NEW b \in a + 1 .. Len(t) + 1,
         NEW i \in 1 .. Len(t)
  PROVE  /\ a <= i /\ i < b => BytesOf(t, i) \subseteq Censored(<<Match(t, a, b)>>)
         /\ ~(a <= i /\ i < b) => BytesOf(t, i) \cap Censored(<<Match(t, a, b)>>) = {}
         /\ Censored(<<Match(t, a, b)>>) \subseteq 0 .. SizeOf(t) - 1
  <1>1. /\ Len(t) \in Nat /\ a \in 1 .. Len(t) + 1 /\ b \in a .. Len(t) + 1
        /\ a - 1 \in 0 .. Len(t) /\ b - 1 \in 0 .. Len(t) /\ i - 1 \in 0 .. Len(t) /\ i \in 0 .. Len(t)
        /\ a \in Nat /\ b \in Nat /\ i \in Nat /\ Len(t) \in 0 .. Len(t)
    OBVIOUS
  <1> PICK m, p, n : m = Match(t, a, b) /\ p = Places(t) /\ n = Len(t)
    OBVIOUS
  <1>2. m.index = p[a - 1] /\ m.index + m.size = p[b - 1] /\ m.index \in Nat /\ m.size \in Nat
    BY <1>1, MatchPlaces
  <1>3. Censored(<<m>>) = p[a - 1] .. p[b - 1] - 1
    <2>1. m.index + m.size - 1 = p[b - 1] - 1
      BY <1>2
    <2> QED
      BY <1>2, <2>1, CensoredOne
  <1>4. BytesOf(t, i) = p[i - 1] .. p[i] - 1
    BY BytesOfChar
  <1>5. /\ p[a - 1] \in Nat /\ p[b - 1] \in Nat /\ p[i - 1] \in Nat /\ p[i] \in Nat /\ p[n] \in Nat
        /\ \A j, k \in 0 .. n : j < k <=> p[j] < p[k]
    BY <1>1, PlacesRise DEF Rises
  <1>6. \A j, k \in 0 .. n : j <= k => p[j] <= p[k]
    <2>1. \A j \in 0 .. n : p[j] \in Nat
      BY PlacesRise
    <2>2. \A j, k \in 0 .. n : j <= k => j = k \/ j < k
      BY <1>1
    <2> QED
      BY <1>5, <2>1, <2>2
  <1>7. SizeOf(t) = p[n]
    BY PlacesRise
  <1>8. ASSUME a <= i, i < b PROVE BytesOf(t, i) \subseteq Censored(<<m>>)
    <2>1. a - 1 <= i - 1 /\ i <= b - 1
      BY <1>1, <1>8
    <2>2. p[a - 1] <= p[i - 1] /\ p[i] <= p[b - 1]
      BY <1>1, <1>6, <2>1
    <2> PICK k, l, q, r : k = p[a - 1] /\ l = p[i - 1] /\ q = p[i] /\ r = p[b - 1]
      OBVIOUS
    <2>3. k \in Nat /\ l \in Nat /\ q \in Nat /\ r \in Nat /\ k <= l /\ q <= r
      BY <1>5, <2>2
    <2>4. \A x \in Int : l <= x /\ x <= q - 1 => k <= x /\ x <= r - 1
      BY ONLY <2>3
    <2>5. l .. q - 1 \subseteq k .. r - 1
      BY ONLY <2>3, <2>4
    <2> QED
      BY <1>3, <1>4, <2>5
  <1>9. ASSUME ~(a <= i /\ i < b) PROVE BytesOf(t, i) \cap Censored(<<m>>) = {}
    <2>1. i <= a - 1 \/ b - 1 <= i - 1
      BY <1>1, <1>9
    <2>2. p[i] <= p[a - 1] \/ p[b - 1] <= p[i - 1]
      BY <1>1, <1>6, <2>1
    <2> PICK k, l, q, r : k = p[a - 1] /\ l = p[i - 1] /\ q = p[i] /\ r = p[b - 1]
      OBVIOUS
    <2>3. k \in Nat /\ l \in Nat /\ q \in Nat /\ r \in Nat /\ (q <= k \/ r <= l)
      BY <1>5, <2>2
    <2>4. \A x \in Int : ~(l <= x /\ x <= q - 1 /\ k <= x /\ x <= r - 1)
      BY ONLY <2>3
    <2>5. (l .. q - 1) \cap (k .. r - 1) = {}
      BY ONLY <2>3, <2>4
    <2> QED
      BY <1>3, <1>4, <2>5
  <1>10. Censored(<<m>>) \subseteq 0 .. SizeOf(t) - 1
    <2>1. p[b - 1] <= p[n]
      <3>1. b - 1 <= n
        BY <1>1
      <3> QED
        BY <1>1, <1>6, <3>1
    <2> QED
      BY <1>3, <1>5, <1>7, <2>1
  <1> QED
    BY <1>8, <1>9, <1>10

(* A match holds character i.                                              *)
Within(t, i, m) == BytesOf(t, i) \subseteq Censored(<<m>>)

LEMMA MatchHolds ==
  ASSUME NEW t \in Seq(Char), NEW a \in 1 .. Len(t), NEW b \in a + 1 .. Len(t) + 1,
         NEW i \in 1 .. Len(t)
  PROVE  Within(t, i, Match(t, a, b)) <=> a <= i /\ i < b
  <1>1. BytesOf(t, i) # {}
    BY BytesOfChar
  <1> QED
    BY <1>1, CharInMatch DEF Within

(* Matches that begin and end at boundaries censor whole characters.       *)
AreMatches(matches, t) ==
  /\ matches \in Seq([index : Nat, size : Nat])
  /\ \A n \in DOMAIN matches : IsMatch(matches[n], t)

LEMMA WholeCharacters ==
  ASSUME NEW t \in Seq(Char), NEW matches, AreMatches(matches, t)
  PROVE  /\ Censored(matches) \subseteq 0 .. SizeOf(t) - 1
         /\ \A i \in 1 .. Len(t) :
              /\ BytesOf(t, i) \subseteq Censored(matches) <=>
                   \E n \in DOMAIN matches : Within(t, i, matches[n])
              /\ \/ BytesOf(t, i) \subseteq Censored(matches)
                 \/ BytesOf(t, i) \cap Censored(matches) = {}
  <1>1. \A n \in DOMAIN matches : \E a \in 1 .. Len(t) : \E b \in a + 1 .. Len(t) + 1 :
          matches[n] = Match(t, a, b)
    BY DEF AreMatches, IsMatch
  <1>2. Censored(matches) = UNION {Censored(<<matches[n]>>) : n \in DOMAIN matches}
    <2>1. \A n \in DOMAIN matches :
            Censored(<<matches[n]>>) = matches[n].index .. matches[n].index + matches[n].size - 1
      BY CensoredOne
    <2>2. Censored(matches) =
            UNION {matches[n].index .. matches[n].index + matches[n].size - 1 : n \in DOMAIN matches}
      BY DEF Censored
    <2> QED
      BY ONLY <2>1, <2>2, Zenon
  <1>3. ASSUME NEW n \in DOMAIN matches PROVE Censored(<<matches[n]>>) \subseteq 0 .. SizeOf(t) - 1
    <2>1. PICK a \in 1 .. Len(t) : \E b \in a + 1 .. Len(t) + 1 : matches[n] = Match(t, a, b)
      BY <1>1
    <2>2. PICK b \in a + 1 .. Len(t) + 1 : matches[n] = Match(t, a, b)
      BY <2>1
    <2> QED
      BY <2>2, CharInMatch
  <1>4. ASSUME NEW i \in 1 .. Len(t), NEW n \in DOMAIN matches
        PROVE  Within(t, i, matches[n]) \/ BytesOf(t, i) \cap Censored(<<matches[n]>>) = {}
    <2>1. PICK a \in 1 .. Len(t) : \E b \in a + 1 .. Len(t) + 1 : matches[n] = Match(t, a, b)
      BY <1>1
    <2>2. PICK b \in a + 1 .. Len(t) + 1 : matches[n] = Match(t, a, b)
      BY <2>1
    <2> QED
      BY <2>2, CharInMatch DEF Within
  <1>5. ASSUME NEW i \in 1 .. Len(t) PROVE BytesOf(t, i) # {}
    BY BytesOfChar
  <1>6. ASSUME NEW i \in 1 .. Len(t)
        PROVE  /\ BytesOf(t, i) \subseteq Censored(matches) <=>
                    \E n \in DOMAIN matches : Within(t, i, matches[n])
               /\ \/ BytesOf(t, i) \subseteq Censored(matches)
                  \/ BytesOf(t, i) \cap Censored(matches) = {}
    <2>1. CASE \E n \in DOMAIN matches : Within(t, i, matches[n])
      BY <1>2, <2>1 DEF Within
    <2>2. CASE ~\E n \in DOMAIN matches : Within(t, i, matches[n])
      <3>1. BytesOf(t, i) \cap Censored(matches) = {}
        BY <1>2, <1>4, <2>2
      <3> QED
        BY <1>5, <2>2, <3>1
    <2> QED
      BY <2>1, <2>2
  <1> QED
    BY <1>2, <1>3, <1>6

-----------------------------------------------------------------------------
(* The regex.  The words that start at a character, and the first of them.  *)
Spot == [index : Nat, size : Nat]

Starting(t, ws, i) == {k \in DOMAIN ws : StartsAt(t, i, ws[k])}
WordAt(t, ws, i)   == ws[Min(Starting(t, ws, i))]

LEMMA WordStarts ==
  ASSUME NEW t \in Seq(Char), NEW ws \in Seq(Seq(Char) \ {<<>>}), NEW i \in 1 .. Len(t),
         NEW k \in Starting(t, ws, i)
  PROVE  /\ k \in DOMAIN ws /\ Len(ws[k]) \in Nat \ {0}
         /\ i + Len(ws[k]) \in i + 1 .. Len(t) + 1
  <1>1. k \in DOMAIN ws /\ StartsAt(t, i, ws[k])
    BY DEF Starting
  <1>2. ws[k] \in Seq(Char) /\ ws[k] # <<>>
    BY <1>1
  <1>3. Len(ws[k]) \in Nat \ {0}
    BY <1>2, EmptySeq
  <1>4. i + Len(ws[k]) <= Len(t) + 1
    BY <1>1 DEF StartsAt
  <1> QED
    BY <1>1, <1>3, <1>4

LEMMA FirstWord ==
  ASSUME NEW t \in Seq(Char), NEW ws \in Seq(Seq(Char) \ {<<>>}), NEW i \in 1 .. Len(t),
         Starting(t, ws, i) # {}
  PROVE  /\ Min(Starting(t, ws, i)) \in Starting(t, ws, i)
         /\ Len(WordAt(t, ws, i)) \in Nat \ {0}
         /\ i + Len(WordAt(t, ws, i)) \in i + 1 .. Len(t) + 1
  <1> DEFINE S == Starting(t, ws, i)
  <1>1. S \subseteq Nat /\ S # {}
    BY DEF Starting
  <1> HIDE DEF S
  <1>2. \E m \in S : \A k \in S : m <= k
    BY <1>1, LeastElement
  <1>3. Min(S) \in S
    BY <1>2 DEF Min
  <1> QED
    BY <1>3, WordStarts DEF S, WordAt

(* A match was put before what the search finds from character b on.       *)
Finds(f, t, ws) ==
  /\ f[Len(t) + 1] = <<>>
  /\ \A i \in 1 .. Len(t) :
       f[i] = IF Starting(t, ws, i) = {} THEN f[i + 1]
              ELSE <<Match(t, i, i + Len(WordAt(t, ws, i)))>> \o f[i + Len(WordAt(t, ws, i))]

LEMMA SearchLoop ==
  ASSUME NEW t \in Seq(Char), NEW ws \in Seq(Seq(Char) \ {<<>>})
  PROVE  \E f : Finds(f, t, ws) /\ RegexSearch(t, ws) = f[1]
  <1> DEFINE wide(i) == IF Starting(t, ws, i) = {} THEN 1 ELSE Len(WordAt(t, ws, i))
             head(i) == <<Match(t, i, i + Len(WordAt(t, ws, i)))>>
             next == [i \in 1 .. Len(t) |-> i + wide(i)]
             step == [p \in (1 .. Len(t)) \X Seq(Spot) |->
                        IF Starting(t, ws, p[1]) = {} THEN p[2] ELSE head(p[1]) \o p[2]]
             At(i) == {k \in DOMAIN ws : StartsAt(t, i, ws[k])}
             rec(found) == [i \in 1 .. Len(t) + 1 |->
                 IF i > Len(t) THEN <<>>
                 ELSE IF At(i) = {} THEN found[i + 1]
                 ELSE LET word == ws[Min(At(i))]
                      IN  <<Match(t, i, i + Len(word))>> \o found[Behind(i, word)]]
             read == CHOOSE found : found = rec(found)
             goes(found, i) ==
               IF i > Len(t) THEN <<>>
               ELSE IF Starting(t, ws, i) = {} THEN found[i + 1]
               ELSE head(i) \o found[i + Len(WordAt(t, ws, i))]
  <1>1. Len(t) \in Nat /\ <<>> \in Seq(Spot)
    OBVIOUS
  <1>2. \A i \in 1 .. Len(t) : wide(i) \in Nat \ {0} /\ i + wide(i) \in i + 1 .. Len(t) + 1
    <2> SUFFICES ASSUME NEW i \in 1 .. Len(t)
                 PROVE  wide(i) \in Nat \ {0} /\ i + wide(i) \in i + 1 .. Len(t) + 1
      OBVIOUS
    <2>1. CASE Starting(t, ws, i) = {}
      BY <1>1, <2>1
    <2>2. CASE Starting(t, ws, i) # {}
      <3>1. /\ Len(WordAt(t, ws, i)) \in Nat \ {0}
            /\ i + Len(WordAt(t, ws, i)) \in i + 1 .. Len(t) + 1
        BY <2>2, FirstWord
      <3> QED
        BY <2>2, <3>1
    <2> QED
      BY <2>1, <2>2
  <1>3. \A i \in 1 .. Len(t) : Starting(t, ws, i) # {} => head(i) \in Seq(Spot)
    <2> SUFFICES ASSUME NEW i \in 1 .. Len(t), Starting(t, ws, i) # {}
                 PROVE  head(i) \in Seq(Spot)
      OBVIOUS
    <2>0. i + Len(WordAt(t, ws, i)) \in i + 1 .. Len(t) + 1
      BY FirstWord
    <2>1. i \in 1 .. Len(t) + 1 /\ i + Len(WordAt(t, ws, i)) \in i .. Len(t) + 1
      BY <1>1, <2>0
    <2>2. Match(t, i, i + Len(WordAt(t, ws, i))) \in Spot
      BY <2>1, MatchPlaces DEF Spot
    <2> QED
      BY <2>2
  <1> HIDE DEF head
  <1>4. \A i \in 1 .. Len(t) : next[i] \in i + 1 .. Len(t) + 1 /\ next[i] = i + wide(i)
    BY <1>2
  <1>5. \A i \in 1 .. Len(t) : \A v \in Seq(Spot) :
          /\ step[<<i, v>>] \in Seq(Spot)
          /\ step[<<i, v>>] = IF Starting(t, ws, i) = {} THEN v ELSE head(i) \o v
    <2> SUFFICES ASSUME NEW i \in 1 .. Len(t), NEW v \in Seq(Spot)
                 PROVE  /\ step[<<i, v>>] \in Seq(Spot)
                        /\ step[<<i, v>>] = IF Starting(t, ws, i) = {} THEN v ELSE head(i) \o v
      OBVIOUS
    <2>1. <<i, v>> \in (1 .. Len(t)) \X Seq(Spot) /\ <<i, v>>[1] = i /\ <<i, v>>[2] = v
      OBVIOUS
    <2>2. step[<<i, v>>] = IF Starting(t, ws, i) = {} THEN v ELSE head(i) \o v
      BY <2>1
    <2>3. Starting(t, ws, i) # {} => head(i) \o v \in Seq(Spot)
      BY <1>3, ConcatProperties
    <2> HIDE DEF step
    <2> QED
      BY <2>2, <2>3
  <1> HIDE DEF next, step
  <1>6. PICK h : Jumps(h, Seq(Spot), <<>>, next, step, 1, Len(t))
    <2>1. \A i \in 1 .. Len(t) : next[i] \in i + 1 .. Len(t) + 1
      BY <1>4
    <2>2. \A i \in 1 .. Len(t) : \A v \in Seq(Spot) : step[<<i, v>>] \in Seq(Spot)
      BY <1>5
    <2> QED
      BY ONLY <1>1, <2>1, <2>2, JumpingFunction
  <1> DEFINE f == [i \in 1 .. Len(t) + 1 |-> h[i]]
  <1>7. \A i \in 1 .. Len(t) + 1 : f[i] = h[i] /\ f[i] \in Seq(Spot)
    BY <1>6 DEF Jumps
  <1>8. f = [i \in 1 .. Len(t) + 1 |-> f[i]]
    OBVIOUS
  <1>9. \A i \in 1 .. Len(t) + 1 : i = Len(t) + 1 \/ i \in 1 .. Len(t)
    BY <1>1
  <1>10. h[Len(t) + 1] = <<>>
    BY <1>6 DEF Jumps
  <1> HIDE DEF f
  <1>11. ASSUME NEW i \in 1 .. Len(t) + 1 PROVE f[i] = goes(f, i)
    <2>1. CASE i = Len(t) + 1
      <3>1. i > Len(t)
        BY <1>1, <2>1
      <3> QED
        BY <1>7, <1>10, <2>1, <3>1
    <2>2. CASE i \in 1 .. Len(t)
      <3>1. ~(i > Len(t)) /\ next[i] \in 1 .. Len(t) + 1
        <4>1. next[i] \in i + 1 .. Len(t) + 1
          BY <1>4, <2>2
        <4> QED
          BY <1>1, <2>2, <4>1
      <3>2. h[i] = step[<<i, h[next[i]]>>] /\ h[next[i]] = f[next[i]] /\ f[next[i]] \in Seq(Spot)
        BY <1>6, <1>7, <2>2, <3>1 DEF Jumps
      <3>3. f[i] = IF Starting(t, ws, i) = {} THEN f[next[i]] ELSE head(i) \o f[next[i]]
        BY <1>5, <1>7, <2>2, <3>2
      <3>4. next[i] = IF Starting(t, ws, i) = {} THEN i + 1 ELSE i + Len(WordAt(t, ws, i))
        BY <1>4, <2>2
      <3> QED
        BY <3>1, <3>3, <3>4
    <2> QED
      BY <1>9, <2>1, <2>2
  <1>12. \A found : rec(found) = [i \in 1 .. Len(t) + 1 |-> goes(found, i)]
    BY DEF Behind, Starting, WordAt, head
  <1>13. f = rec(f)
    <2> HIDE DEF goes, rec
    <2> QED
      BY <1>8, <1>11, <1>12
  <1>14. read = rec(read)
    <2> HIDE DEF rec
    <2> QED
      BY <1>13
  <1>15. RegexSearch(t, ws) = read[1]
    BY DEF RegexSearch
  <1> HIDE DEF read
  <1>16. \A i \in 1 .. Len(t) + 1 : read[i] = goes(read, i)
    <2> HIDE DEF goes, rec
    <2>1. read = [i \in 1 .. Len(t) + 1 |-> goes(read, i)]
      BY <1>12, <1>14
    <2> QED
      BY <2>1
  <1>17. Finds(read, t, ws)
    <2>1. read[Len(t) + 1] = <<>>
      <3>1. Len(t) + 1 \in 1 .. Len(t) + 1 /\ Len(t) + 1 > Len(t)
        BY <1>1
      <3> QED
        BY <1>16, <3>1
    <2>2. \A i \in 1 .. Len(t) : i \in 1 .. Len(t) + 1 /\ ~(i > Len(t))
      BY <1>1
    <2> QED
      BY <1>16, <2>1, <2>2 DEF Finds, head
  <1> QED
    BY <1>15, <1>17

(* What a search that goes on at character i should find.                  *)
Comes(q, i, t, ws) ==
  /\ q \in Seq(Spot) /\ InOrder(q)
  /\ \A n \in DOMAIN q : \E a \in i .. Len(t) : \E k \in Starting(t, ws, a) :
       q[n] = Match(t, a, a + Len(ws[k]))
  /\ \A j \in i .. Len(t) : Starting(t, ws, j) # {} => \E n \in DOMAIN q : Within(t, j, q[n])

(* A match in front.                                                       *)
LEMMA InFront ==
  ASSUME NEW q \in Seq(Spot), NEW m \in Spot
  PROVE  LET g == <<m>> \o q
         IN  /\ g \in Seq(Spot) /\ Len(g) = Len(q) + 1 /\ g[1] = m
             /\ \A n \in 1 .. Len(q) : g[n + 1] = q[n]
             /\ \A n \in 1 .. Len(q) + 1 : n = 1 \/ (n - 1 \in 1 .. Len(q) /\ g[n] = q[n - 1])
  <1> DEFINE g == <<m>> \o q
             o == <<m>>
  <1>1. o \in Seq(Spot) /\ Len(o) = 1 /\ o[1] = m
    OBVIOUS
  <1> HIDE DEF o
  <1>2. /\ o \o q \in Seq(Spot) /\ Len(o \o q) = Len(o) + Len(q)
        /\ \A n \in 1 .. Len(o) : (o \o q)[n] = o[n]
        /\ \A n \in (Len(o) + 1) .. (Len(o) + Len(q)) : (o \o q)[n] = q[n - Len(o)]
    BY <1>1, ConcatElements
  <1>3. g = o \o q
    BY DEF o
  <1> HIDE DEF g
  <1>4. Len(q) \in Nat /\ 1 \in 1 .. Len(o)
    BY <1>1
  <1>5. g \in Seq(Spot) /\ Len(g) = Len(q) + 1 /\ g[1] = m
    BY <1>1, <1>2, <1>3, <1>4
  <1>6. ASSUME NEW n \in 1 .. Len(q) PROVE g[n + 1] = q[n]
    <2>1. n + 1 \in (Len(o) + 1) .. (Len(o) + Len(q)) /\ (n + 1) - Len(o) = n
      BY <1>1, <1>4
    <2> QED
      BY <1>2, <1>3, <2>1
  <1>7. \A n \in 1 .. Len(q) + 1 : n = 1 \/ (n - 1 \in 1 .. Len(q) /\ (n - 1) + 1 = n)
    BY <1>4
  <1>8. \A n \in 1 .. Len(q) + 1 : n = 1 \/ (n - 1 \in 1 .. Len(q) /\ g[n] = q[n - 1])
    <2> SUFFICES ASSUME NEW n \in 1 .. Len(q) + 1, n # 1
                 PROVE  n - 1 \in 1 .. Len(q) /\ g[n] = q[n - 1]
      OBVIOUS
    <2> PICK k : k = n - 1
      OBVIOUS
    <2>1. k \in 1 .. Len(q) /\ k + 1 = n
      BY <1>7
    <2>2. g[k + 1] = q[k]
      BY <1>6, <2>1
    <2> QED
      BY <2>1, <2>2
  <1> QED
    BY <1>5, <1>6, <1>8 DEF g

LEMMA MatchComes ==
  ASSUME NEW t \in Seq(Char), NEW ws \in Seq(Seq(Char) \ {<<>>}), NEW i \in 1 .. Len(t),
         Starting(t, ws, i) # {}, NEW q,
         Comes(q, i + Len(WordAt(t, ws, i)), t, ws)
  PROVE  Comes(<<Match(t, i, i + Len(WordAt(t, ws, i)))>> \o q, i, t, ws)
  <1> PICK b, m, g, k0 : /\ b = i + Len(WordAt(t, ws, i)) /\ m = Match(t, i, b) /\ g = <<m>> \o q
                         /\ k0 = Min(Starting(t, ws, i))
    OBVIOUS
  <1>0. Comes(q, b, t, ws)
    OBVIOUS
  <1>1. b \in i + 1 .. Len(t) + 1 /\ k0 \in Starting(t, ws, i) /\ b = i + Len(ws[k0])
    BY FirstWord DEF WordAt
  <1>2. b \in i .. Len(t) + 1 /\ b \in Nat /\ Len(t) \in Nat /\ i \in 1 .. Len(t) + 1
    BY <1>1
  <1>3. m \in Spot /\ m.index + m.size = Places(t)[b - 1]
    BY <1>2, MatchPlaces DEF Spot
  <1>4. q \in Seq(Spot) /\ Len(q) \in Nat
    BY <1>0 DEF Comes
  <1>5. /\ g \in Seq(Spot) /\ Len(g) = Len(q) + 1 /\ g[1] = m
        /\ \A n \in 1 .. Len(q) : g[n + 1] = q[n]
        /\ \A n \in 1 .. Len(q) + 1 : n = 1 \/ (n - 1 \in 1 .. Len(q) /\ g[n] = q[n - 1])
    BY <1>3, <1>4, InFront
  <1>6. DOMAIN g = 1 .. Len(q) + 1 /\ DOMAIN q = 1 .. Len(q) /\ 1 \in DOMAIN g
    BY <1>4, <1>5
  <1>7. ASSUME NEW n \in DOMAIN g
        PROVE  \E a \in i .. Len(t) : \E k \in Starting(t, ws, a) : g[n] = Match(t, a, a + Len(ws[k]))
    <2>1. CASE n = 1
      <3>1. i \in i .. Len(t)
        BY <1>2
      <3> QED
        BY <1>1, <1>5, <2>1, <3>1
    <2>2. CASE n # 1
      <3>1. n - 1 \in DOMAIN q /\ g[n] = q[n - 1]
        BY <1>5, <1>6, <2>2
      <3>2. \E a \in b .. Len(t) : \E k \in Starting(t, ws, a) : q[n - 1] = Match(t, a, a + Len(ws[k]))
        BY <1>0, <3>1 DEF Comes
      <3>3. b .. Len(t) \subseteq i .. Len(t)
        BY <1>1, <1>2
      <3> QED
        BY <3>1, <3>2, <3>3
    <2> QED
      BY <2>1, <2>2
  <1>8. ASSUME NEW j \in i .. Len(t), Starting(t, ws, j) # {}
        PROVE  \E n \in DOMAIN g : Within(t, j, g[n])
    <2>1. CASE j < b
      <3>1. Within(t, j, m)
        BY <1>1, <1>2, <2>1, MatchHolds
      <3> QED
        BY <1>5, <1>6, <3>1
    <2>2. CASE ~(j < b)
      <3>1. j \in b .. Len(t)
        BY <1>2, <2>2
      <3>2. PICK n \in DOMAIN q : Within(t, j, q[n])
        BY <1>0, <1>8, <3>1 DEF Comes
      <3>3. n + 1 \in DOMAIN g /\ g[n + 1] = q[n]
        BY <1>4, <1>5, <1>6
      <3> QED
        BY <3>2, <3>3
    <2> QED
      BY <2>1, <2>2
  <1>9. ASSUME NEW n \in 1 .. Len(g) - 1 PROVE g[n].index + g[n].size <= g[n + 1].index
    <2>1. n \in 1 .. Len(q) /\ g[n + 1] = q[n]
      BY <1>4, <1>5
    <2>2. CASE n = 1
      <3>1. PICK a \in b .. Len(t) : \E k \in Starting(t, ws, a) : q[n] = Match(t, a, a + Len(ws[k]))
        BY <1>0, <1>6, <2>1 DEF Comes
      <3>2. PICK k \in Starting(t, ws, a) : q[n] = Match(t, a, a + Len(ws[k]))
        BY <3>1
      <3>3. a \in 1 .. Len(t) /\ a \in 1 .. Len(t) + 1 /\ b - 1 \in 0 .. Len(t) /\ a - 1 \in 0 .. Len(t) /\ b - 1 <= a - 1
        BY <1>1, <1>2
      <3>4. a + Len(ws[k]) \in a + 1 .. Len(t) + 1
        BY <3>3, WordStarts
      <3>5. a + Len(ws[k]) \in a .. Len(t) + 1
        BY <3>3, <3>4
      <3>6. q[n].index = Places(t)[a - 1]
        BY <3>2, <3>3, <3>5, MatchPlaces
      <3>7. Places(t)[b - 1] <= Places(t)[a - 1]
        <4> PICK k1, k2, p : k1 = b - 1 /\ k2 = a - 1 /\ p = Places(t)
          OBVIOUS
        <4>1. /\ k1 \in 0 .. Len(t) /\ k2 \in 0 .. Len(t) /\ (k1 = k2 \/ k1 < k2)
          BY <3>3
        <4>2. p[k1] \in Nat /\ p[k2] \in Nat /\ (k1 < k2 <=> p[k1] < p[k2])
          BY <4>1, PlacesRise DEF Rises
        <4> PICK x1, x2 : x1 = p[k1] /\ x2 = p[k2]
          OBVIOUS
        <4>3. x1 \in Nat /\ x2 \in Nat /\ (x1 = x2 \/ x1 < x2)
          BY <4>1, <4>2
        <4>4. x1 <= x2
          BY ONLY <4>3
        <4>5. x1 = Places(t)[b - 1] /\ x2 = Places(t)[a - 1]
          OBVIOUS
        <4> QED
          BY ONLY <4>4, <4>5
      <3> QED
        BY <1>3, <1>5, <2>1, <2>2, <3>6, <3>7
    <2>3. CASE n # 1
      <3> PICK l : l = n - 1
        OBVIOUS
      <3>1. l \in 1 .. Len(q) - 1 /\ l + 1 = n /\ g[n] = q[l]
        BY <1>4, <1>5, <2>1, <2>3
      <3>2. q[l].index + q[l].size <= q[l + 1].index
        BY <1>0, <3>1 DEF Comes, InOrder
      <3> QED
        BY <2>1, <3>1, <3>2
    <2> QED
      BY <2>2, <2>3
  <1>10. Comes(g, i, t, ws)
    BY <1>5, <1>7, <1>8, <1>9 DEF Comes, InOrder
  <1> QED
    BY <1>10

(* What the regex finds: words, in order, none of them without its first   *)
(* character, and every character at which one starts.                     *)
LEMMA RegexFinds ==
  ASSUME NEW t \in Seq(Char), NEW ws \in Seq(Seq(Char) \ {<<>>})
  PROVE  Comes(RegexSearch(t, ws), 1, t, ws)
  <1>1. PICK f : Finds(f, t, ws) /\ RegexSearch(t, ws) = f[1]
    BY SearchLoop
  <1> DEFINE T == {d \in Nat : \A i \in 1 .. Len(t) + 1 : i >= Len(t) + 1 - d => Comes(f[i], i, t, ws)}
  <1>0. Len(t) \in Nat
    OBVIOUS
  <1>2. 0 \in T
    <2>1. ASSUME NEW i \in 1 .. Len(t) + 1, i >= Len(t) + 1 - 0 PROVE Comes(f[i], i, t, ws)
      <3>1. i = Len(t) + 1 /\ i .. Len(t) = {}
        BY <1>0, <2>1
      <3>2. f[i] = <<>>
        BY <1>1, <3>1 DEF Finds
      <3>3. <<>> \in Seq(Spot) /\ DOMAIN <<>> = {} /\ 1 .. Len(<<>>) - 1 = {}
        OBVIOUS
      <3> QED
        BY <3>1, <3>2, <3>3 DEF Comes, InOrder
    <2> QED
      BY <2>1
  <1>3. ASSUME NEW d \in Nat, d \in T PROVE d + 1 \in T
    <2> SUFFICES ASSUME NEW i \in 1 .. Len(t) + 1, i >= Len(t) + 1 - (d + 1)
                 PROVE  Comes(f[i], i, t, ws)
      OBVIOUS
    <2>1. CASE i >= Len(t) + 1 - d
      BY <1>3, <2>1
    <2>2. CASE ~(i >= Len(t) + 1 - d)
      <3>1. i \in 1 .. Len(t) /\ \A j \in i + 1 .. Len(t) + 1 : j \in 1 .. Len(t) + 1 /\ j >= Len(t) + 1 - d
        BY <1>0, <2>2
      <3>2. \A j \in i + 1 .. Len(t) + 1 : Comes(f[j], j, t, ws)
        BY <1>3, <3>1
      <3>3. CASE Starting(t, ws, i) = {}
        <4>1. f[i] = f[i + 1]
          BY <1>1, <3>1, <3>3 DEF Finds
        <4>2. i + 1 \in i + 1 .. Len(t) + 1
          BY <1>0, <3>1
        <4>3. Comes(f[i], i + 1, t, ws)
          BY <3>2, <4>1, <4>2
        <4>4. i + 1 .. Len(t) \subseteq i .. Len(t) /\ \A j \in i .. Len(t) : j = i \/ j \in i + 1 .. Len(t)
          BY <1>0, <3>1
        <4> QED
          BY <3>3, <4>3, <4>4 DEF Comes
      <3>4. CASE Starting(t, ws, i) # {}
        <4>1. f[i] = <<Match(t, i, i + Len(WordAt(t, ws, i)))>> \o f[i + Len(WordAt(t, ws, i))]
          BY <1>1, <3>1, <3>4 DEF Finds
        <4>2. i + Len(WordAt(t, ws, i)) \in i + 1 .. Len(t) + 1
          BY <3>1, <3>4, FirstWord
        <4>3. Comes(f[i + Len(WordAt(t, ws, i))], i + Len(WordAt(t, ws, i)), t, ws)
          BY <3>2, <4>2
        <4> QED
          BY <3>1, <3>4, <4>1, <4>3, MatchComes
      <3> QED
        BY <3>3, <3>4
    <2> QED
      BY <2>1, <2>2
  <1> HIDE DEF T
  <1>4. Nat \subseteq T
    BY ONLY <1>2, <1>3, Induction
  <1>5. Len(t) \in T /\ 1 \in 1 .. Len(t) + 1 /\ 1 >= Len(t) + 1 - Len(t)
    BY <1>0, <1>4
  <1>6. Comes(f[1], 1, t, ws)
    BY <1>5 DEF T
  <1> QED
    BY <1>1, <1>6

-----------------------------------------------------------------------------
(* The server.                                                             *)
Told == [start : Nat, end : Nat]

Usable(t, a) == a.start < a.end /\ a.end <= Len(t)
Meant(t, a)  == Match(t, a.start + 1, a.end + 1)

Converts(f, t, answer) ==
  /\ f[0] = <<>>
  /\ \A n \in 1 .. Len(answer) :
       f[n] = IF Usable(t, answer[n]) THEN Append(f[n - 1], Meant(t, answer[n])) ELSE f[n - 1]

LEMMA Meaning ==
  ASSUME NEW t \in Seq(Char), NEW a \in Told, Usable(t, a)
  PROVE  /\ a.start + 1 \in 1 .. Len(t) /\ a.end + 1 \in (a.start + 1) + 1 .. Len(t) + 1
         /\ Meant(t, a) \in Spot /\ IsMatch(Meant(t, a), t)
         /\ a.end \in DOMAIN CharToByte(t)
         /\ Meant(t, a) = [index |-> CharToByte(t)[a.start],
                           size |-> CharToByte(t)[a.end] - CharToByte(t)[a.start]]
  <1> PICK s, e : s = a.start /\ e = a.end
    OBVIOUS
  <1>1. s \in Nat /\ e \in Nat /\ s < e /\ e <= Len(t) /\ Len(t) \in Nat
    BY DEF Told, Usable
  <1>2. /\ s + 1 \in 1 .. Len(t) /\ e + 1 \in (s + 1) + 1 .. Len(t) + 1
        /\ s + 1 \in 1 .. Len(t) + 1 /\ e + 1 \in s + 1 .. Len(t) + 1
        /\ (s + 1) - 1 = s /\ (e + 1) - 1 = e /\ e \in 0 .. Len(t)
    BY <1>1
  <1>3. CharToByte(t) = Places(t)
    BY DEF CharToByte, Places, Marks, SizeOf
  <1>4. /\ Match(t, s + 1, e + 1) \in Spot
        /\ Match(t, s + 1, e + 1) = [index |-> Places(t)[s], size |-> Places(t)[e] - Places(t)[s]]
    BY <1>2, MatchPlaces DEF Spot
  <1>5. IsMatch(Match(t, s + 1, e + 1), t)
    BY <1>2 DEF IsMatch
  <1>6. e \in DOMAIN CharToByte(t)
    BY <1>2 DEF CharToByte
  <1> QED
    BY <1>2, <1>3, <1>4, <1>5, <1>6 DEF Meant

LEMMA ServerLoop ==
  ASSUME NEW t \in Seq(Char), NEW answer \in Seq(Told)
  PROVE  \E f : Converts(f, t, answer) /\ ByServer(t, answer) = f[Len(answer)]
  <1> DEFINE map == CharToByte(t)
             step == [p \in Nat \X Seq(Spot) |->
                        IF p[1] \in DOMAIN answer /\ Usable(t, answer[p[1]])
                          THEN Append(p[2], Meant(t, answer[p[1]])) ELSE p[2]]
             rec(found) == [n \in 0 .. Len(answer) |->
                IF n = 0 THEN <<>>
                ELSE LET a == answer[n]
                     IN  IF a.start < a.end /\ a.end \in DOMAIN map
                           THEN Append(found[n - 1],
                                  [index |-> map[a.start], size |-> map[a.end] - map[a.start]])
                           ELSE found[n - 1]]
             read == CHOOSE found : found = rec(found)
             goes(found, n) ==
               IF n = 0 THEN <<>>
               ELSE IF Usable(t, answer[n]) THEN Append(found[n - 1], Meant(t, answer[n]))
               ELSE found[n - 1]
  <1>1. /\ Len(answer) \in Nat /\ <<>> \in Seq(Spot) /\ DOMAIN answer = 1 .. Len(answer)
        /\ \A n \in 1 .. Len(answer) : answer[n] \in Told
    OBVIOUS
  <1>2. \A n \in Nat : \A v \in Seq(Spot) :
          /\ step[<<n, v>>] \in Seq(Spot)
          /\ n \in 1 .. Len(answer) =>
               step[<<n, v>>] = IF Usable(t, answer[n]) THEN Append(v, Meant(t, answer[n])) ELSE v
    <2> SUFFICES ASSUME NEW n \in Nat, NEW v \in Seq(Spot)
                 PROVE  /\ step[<<n, v>>] \in Seq(Spot)
                        /\ n \in 1 .. Len(answer) =>
                             step[<<n, v>>] =
                               IF Usable(t, answer[n]) THEN Append(v, Meant(t, answer[n])) ELSE v
      OBVIOUS
    <2>1. <<n, v>> \in Nat \X Seq(Spot) /\ <<n, v>>[1] = n /\ <<n, v>>[2] = v
      OBVIOUS
    <2>2. step[<<n, v>>] = IF n \in DOMAIN answer /\ Usable(t, answer[n])
                             THEN Append(v, Meant(t, answer[n])) ELSE v
      BY <2>1
    <2>3. n \in DOMAIN answer /\ Usable(t, answer[n]) => Append(v, Meant(t, answer[n])) \in Seq(Spot)
      <3> SUFFICES ASSUME n \in DOMAIN answer, Usable(t, answer[n])
                   PROVE  Append(v, Meant(t, answer[n])) \in Seq(Spot)
        OBVIOUS
      <3>1. Meant(t, answer[n]) \in Spot
        BY <1>1, Meaning
      <3> QED
        BY <3>1
    <2> HIDE DEF step
    <2> QED
      BY <1>1, <2>2, <2>3
  <1> HIDE DEF step
  <1>3. PICK h : StepByStep(h, Seq(Spot), <<>>, step, Len(answer))
    <2>1. \A n \in Nat : \A v \in Seq(Spot) : step[<<n, v>>] \in Seq(Spot)
      BY <1>2
    <2>2. Len(answer) \in Nat /\ <<>> \in Seq(Spot)
      BY <1>1
    <2> QED
      BY ONLY <2>1, <2>2, StepwiseFunction
  <1> DEFINE f == [n \in 0 .. Len(answer) |-> h[n]]
  <1>4. f = [n \in 0 .. Len(answer) |-> f[n]] /\ \A n \in 0 .. Len(answer) : f[n] = h[n]
    OBVIOUS
  <1> HIDE DEF f
  <1>5. ASSUME NEW n \in 0 .. Len(answer) PROVE f[n] = goes(f, n)
    <2>1. CASE n = 0
      <3>1. h[0] = <<>>
        BY <1>3 DEF StepByStep
      <3> QED
        BY <1>4, <2>1, <3>1
    <2>2. CASE n # 0
      <3>1. n \in 1 .. Len(answer) /\ n - 1 \in 0 .. Len(answer) /\ n \in Nat
        BY <1>1, <2>2
      <3>2. h[n] = step[<<n, h[n - 1]>>] /\ h[n - 1] \in Seq(Spot)
        BY <1>3, <3>1 DEF StepByStep
      <3>3. h[n] = f[n] /\ h[n - 1] = f[n - 1]
        BY <1>4, <3>1
      <3> QED
        BY <1>2, <2>2, <3>1, <3>2, <3>3
    <2> QED
      BY <2>1, <2>2
  <1>6. \A found : rec(found) = [n \in 0 .. Len(answer) |-> goes(found, n)]
    <2> SUFFICES ASSUME NEW found, NEW n \in 0 .. Len(answer)
                 PROVE  rec(found)[n] = goes(found, n)
      <3> HIDE DEF goes
      <3> QED
        OBVIOUS
    <2>1. CASE n = 0
      BY <2>1
    <2>2. CASE n # 0
      <3>1. n \in 1 .. Len(answer)
        BY <1>1, <2>2
      <3> PICK a : a = answer[n]
        OBVIOUS
      <3>2. a \in Told
        BY <1>1, <3>1
      <3>3. DOMAIN map = 0 .. Len(t)
        BY DEF CharToByte
      <3>4. a.start < a.end /\ a.end \in DOMAIN map <=> Usable(t, a)
        <4>1. a.end \in Nat /\ Len(t) \in Nat
          BY <3>2 DEF Told
        <4> QED
          BY <3>3, <4>1 DEF Usable
      <3>5. Usable(t, a) => Meant(t, a) = [index |-> map[a.start], size |-> map[a.end] - map[a.start]]
        BY <3>2, Meaning
      <3>6. rec(found)[n] = IF a.start < a.end /\ a.end \in DOMAIN map
                           THEN Append(found[n - 1],
                                  [index |-> map[a.start], size |-> map[a.end] - map[a.start]])
                           ELSE found[n - 1]
        <4> HIDE DEF map
        <4> QED
          BY <2>2
      <3> HIDE DEF map, rec
      <3> QED
        BY <2>2, <3>4, <3>5, <3>6
    <2> QED
      BY <2>1, <2>2
  <1>7. f = rec(f)
    <2> HIDE DEF goes, rec
    <2> QED
      BY <1>4, <1>5, <1>6
  <1>8. read = rec(read)
    <2> HIDE DEF rec
    <2> QED
      BY <1>7
  <1>9. ByServer(t, answer) = read[Len(answer)]
    BY DEF ByServer
  <1> HIDE DEF read
  <1>10. \A n \in 0 .. Len(answer) : read[n] = goes(read, n)
    <2> HIDE DEF goes, rec
    <2>1. read = [n \in 0 .. Len(answer) |-> goes(read, n)]
      BY <1>6, <1>8
    <2> QED
      BY <2>1
  <1>11. Converts(read, t, answer)
    <2>1. 0 \in 0 .. Len(answer) /\ \A n \in 1 .. Len(answer) : n \in 0 .. Len(answer) /\ n # 0
      BY <1>1
    <2> QED
      BY <1>10, <2>1 DEF Converts
  <1> QED
    BY <1>9, <1>11

(* What has been converted of the first n.                                 *)
Tells(q, n, t, answer) ==
  /\ q \in Seq(Spot)
  /\ \A k \in DOMAIN q : \E a \in 1 .. n : Usable(t, answer[a]) /\ q[k] = Meant(t, answer[a])
  /\ \A a \in 1 .. n : Usable(t, answer[a]) => \E k \in DOMAIN q : q[k] = Meant(t, answer[a])

LEMMA ServerTells ==
  ASSUME NEW t \in Seq(Char), NEW answer \in Seq(Told)
  PROVE  Tells(ByServer(t, answer), Len(answer), t, answer)
  <1>1. PICK f : Converts(f, t, answer) /\ ByServer(t, answer) = f[Len(answer)]
    BY ServerLoop
  <1> DEFINE T == {n \in Nat : n <= Len(answer) => Tells(f[n], n, t, answer)}
  <1>0. Len(answer) \in Nat
    OBVIOUS
  <1>2. 0 \in T
    <2>1. f[0] = <<>> /\ <<>> \in Seq(Spot) /\ DOMAIN <<>> = {} /\ 1 .. 0 = {}
      BY <1>1 DEF Converts
    <2> QED
      BY <2>1 DEF Tells
  <1>3. ASSUME NEW n \in Nat, n \in T PROVE n + 1 \in T
    <2> SUFFICES ASSUME n + 1 <= Len(answer) PROVE Tells(f[n + 1], n + 1, t, answer)
      OBVIOUS
    <2> PICK q, a : q = f[n] /\ a = answer[n + 1]
      OBVIOUS
    <2>1. Tells(q, n, t, answer)
      BY <1>0, <1>3
    <2>2. n + 1 \in 1 .. Len(answer) /\ (n + 1) - 1 = n
      BY <1>0
    <2>3. f[n + 1] = IF Usable(t, a) THEN Append(q, Meant(t, a)) ELSE q
      BY <1>1, <2>2 DEF Converts
    <2>4. \A k \in 1 .. n + 1 : k = n + 1 \/ k \in 1 .. n
      OBVIOUS
    <2>5. 1 .. n \subseteq 1 .. n + 1 /\ n + 1 \in 1 .. n + 1
      OBVIOUS
    <2>6. CASE ~Usable(t, a)
      <3>1. f[n + 1] = q
        BY <2>3, <2>6
      <3>2. Tells(q, n + 1, t, answer)
        BY <2>1, <2>4, <2>5, <2>6 DEF Tells
      <3> QED
        BY <3>1, <3>2
    <2>7. CASE Usable(t, a)
      <3>1. Meant(t, a) \in Spot
        BY <2>2, <2>7, Meaning
      <3> PICK g, m : g = Append(q, m) /\ m = Meant(t, a)
        OBVIOUS
      <3>2. /\ g \in Seq(Spot) /\ DOMAIN g = 1 .. Len(q) + 1 /\ DOMAIN q = 1 .. Len(q)
            /\ Len(q) \in Nat /\ g[Len(q) + 1] = m /\ \A k \in 1 .. Len(q) : g[k] = q[k]
        BY <2>1, <3>1, AppendProperties DEF Tells
      <3>3. /\ \A k \in 1 .. Len(q) + 1 : k = Len(q) + 1 \/ k \in 1 .. Len(q)
            /\ 1 .. Len(q) \subseteq 1 .. Len(q) + 1 /\ Len(q) + 1 \in 1 .. Len(q) + 1
        BY <3>2
      <3>4. ASSUME NEW k \in DOMAIN g
            PROVE  \E b \in 1 .. n + 1 : Usable(t, answer[b]) /\ g[k] = Meant(t, answer[b])
        <4>1. CASE k = Len(q) + 1
          BY <2>5, <2>7, <3>2, <4>1
        <4>2. CASE k \in 1 .. Len(q)
          <5>1. \E b \in 1 .. n : Usable(t, answer[b]) /\ q[k] = Meant(t, answer[b])
            BY <2>1, <3>2, <4>2 DEF Tells
          <5> QED
            BY <2>5, <3>2, <4>2, <5>1
        <4> QED
          BY <3>2, <3>3, <4>1, <4>2
      <3>5. ASSUME NEW b \in 1 .. n + 1, Usable(t, answer[b])
            PROVE  \E k \in DOMAIN g : g[k] = Meant(t, answer[b])
        <4>1. CASE b = n + 1
          BY <3>2, <3>3, <4>1
        <4>2. CASE b \in 1 .. n
          <5>1. \E k \in DOMAIN q : q[k] = Meant(t, answer[b])
            BY <2>1, <3>5, <4>2 DEF Tells
          <5> QED
            BY <3>2, <3>3, <5>1
        <4> QED
          BY <2>4, <4>1, <4>2
      <3>6. Tells(g, n + 1, t, answer)
        BY <3>2, <3>4, <3>5 DEF Tells
      <3> QED
        BY <2>3, <2>7, <3>6
    <2> QED
      BY <2>6, <2>7
  <1> HIDE DEF T
  <1>4. Nat \subseteq T
    BY ONLY <1>2, <1>3, Induction
  <1>5. Tells(f[Len(answer)], Len(answer), t, answer)
    BY <1>0, <1>4 DEF T
  <1> QED
    BY <1>1, <1>5

-----------------------------------------------------------------------------
(* What is censored.                                                       *)
Caught(t, i, q) == \E n \in DOMAIN q : Within(t, i, q[n])

LEMMA MatchesJoin ==
  ASSUME NEW t, NEW p, AreMatches(p, t), NEW q, AreMatches(q, t)
  PROVE  /\ AreMatches(p \o q, t)
         /\ \A i : Caught(t, i, p \o q) <=> Caught(t, i, p) \/ Caught(t, i, q)
  <1> PICK g : g = p \o q
    OBVIOUS
  <1>1. p \in Seq(Spot) /\ q \in Seq(Spot) /\ Len(p) \in Nat /\ Len(q) \in Nat
    BY DEF AreMatches, Spot
  <1>2. /\ g \in Seq(Spot) /\ Len(g) = Len(p) + Len(q)
        /\ \A i \in 1 .. Len(p) : g[i] = p[i]
        /\ \A i \in (Len(p) + 1) .. (Len(p) + Len(q)) : g[i] = q[i - Len(p)]
    BY <1>1, ConcatElements
  <1>3. DOMAIN g = 1 .. Len(p) + Len(q) /\ DOMAIN p = 1 .. Len(p) /\ DOMAIN q = 1 .. Len(q)
    BY <1>1, <1>2
  <1>4. \A n \in DOMAIN g :
          \/ n \in DOMAIN p /\ g[n] = p[n]
          \/ n - Len(p) \in DOMAIN q /\ g[n] = q[n - Len(p)]
    <2> SUFFICES ASSUME NEW n \in DOMAIN g, n \notin DOMAIN p
                 PROVE  n - Len(p) \in DOMAIN q /\ g[n] = q[n - Len(p)]
      BY <1>2, <1>3
    <2>1. n \in (Len(p) + 1) .. (Len(p) + Len(q)) /\ n - Len(p) \in 1 .. Len(q)
      BY <1>1, <1>3
    <2> QED
      BY <1>2, <1>3, <2>1
  <1>5. \A n \in DOMAIN p : n \in DOMAIN g /\ g[n] = p[n]
    BY <1>1, <1>2, <1>3
  <1>6. \A n \in DOMAIN q : n + Len(p) \in DOMAIN g /\ g[n + Len(p)] = q[n]
    <2> SUFFICES ASSUME NEW n \in DOMAIN q
                 PROVE  n + Len(p) \in DOMAIN g /\ g[n + Len(p)] = q[n]
      OBVIOUS
    <2> PICK k : k = n + Len(p)
      OBVIOUS
    <2>1. k \in (Len(p) + 1) .. (Len(p) + Len(q)) /\ k \in 1 .. Len(p) + Len(q) /\ k - Len(p) = n
      BY <1>1, <1>3
    <2>2. g[k] = q[k - Len(p)]
      BY <1>2, <2>1
    <2> QED
      BY <1>3, <2>1, <2>2
  <1>7. AreMatches(g, t)
    <2>1. \A n \in DOMAIN g : IsMatch(g[n], t)
      BY <1>4 DEF AreMatches
    <2> QED
      BY <1>2, <2>1 DEF AreMatches, Spot
  <1>8. \A i : Caught(t, i, g) <=> Caught(t, i, p) \/ Caught(t, i, q)
    BY <1>4, <1>5, <1>6 DEF Caught
  <1> QED
    BY <1>7, <1>8

LEMMA RegexMatches ==
  ASSUME NEW t \in Seq(Char), NEW ws \in Seq(Seq(Char) \ {<<>>})
  PROVE  /\ AreMatches(RegexSearch(t, ws), t) /\ InOrder(RegexSearch(t, ws))
         /\ \A i \in 1 .. Len(t) :
              /\ Starting(t, ws, i) # {} => Caught(t, i, RegexSearch(t, ws))
              /\ Caught(t, i, RegexSearch(t, ws)) =>
                   \E j \in 1 .. i : \E k \in Starting(t, ws, j) : i < j + Len(ws[k])
  <1> PICK q : q = RegexSearch(t, ws)
    OBVIOUS
  <1>1. Comes(q, 1, t, ws)
    BY RegexFinds
  <1>2. ASSUME NEW n \in DOMAIN q
        PROVE  \E a \in 1 .. Len(t) : \E k \in Starting(t, ws, a) :
                 /\ a + Len(ws[k]) \in a + 1 .. Len(t) + 1
                 /\ q[n] = Match(t, a, a + Len(ws[k]))
    <2>1. PICK a \in 1 .. Len(t) : \E k \in Starting(t, ws, a) : q[n] = Match(t, a, a + Len(ws[k]))
      BY <1>1 DEF Comes
    <2>2. PICK k \in Starting(t, ws, a) : q[n] = Match(t, a, a + Len(ws[k]))
      BY <2>1
    <2>3. a + Len(ws[k]) \in a + 1 .. Len(t) + 1
      BY WordStarts
    <2> QED
      BY <2>2, <2>3
  <1>3. AreMatches(q, t)
    <2>1. \A n \in DOMAIN q : IsMatch(q[n], t)
      BY <1>2 DEF IsMatch
    <2>2. q \in Seq(Spot)
      BY <1>1 DEF Comes
    <2> QED
      BY <2>1, <2>2 DEF AreMatches, Spot
  <1>4. ASSUME NEW i \in 1 .. Len(t), Caught(t, i, q)
        PROVE  \E j \in 1 .. i : \E k \in Starting(t, ws, j) : i < j + Len(ws[k])
    <2>1. PICK n \in DOMAIN q : Within(t, i, q[n])
      BY <1>4 DEF Caught
    <2>2. PICK a \in 1 .. Len(t) : \E k \in Starting(t, ws, a) :
                 /\ a + Len(ws[k]) \in a + 1 .. Len(t) + 1
                 /\ q[n] = Match(t, a, a + Len(ws[k]))
      BY <1>2
    <2>3. PICK k \in Starting(t, ws, a) :
                 /\ a + Len(ws[k]) \in a + 1 .. Len(t) + 1
                 /\ q[n] = Match(t, a, a + Len(ws[k]))
      BY <2>2
    <2>4. a <= i /\ i < a + Len(ws[k])
      BY <2>1, <2>3, MatchHolds
    <2>5. a \in 1 .. i
      BY <2>4
    <2> QED
      BY <2>4, <2>5
  <1>5. \A i \in 1 .. Len(t) : Starting(t, ws, i) # {} => Caught(t, i, q)
    BY <1>1 DEF Comes, Caught
  <1> QED
    BY <1>1, <1>3, <1>4, <1>5 DEF Comes

LEMMA ServerMatches ==
  ASSUME NEW t \in Seq(Char), NEW answer \in Seq(Told)
  PROVE  /\ AreMatches(ByServer(t, answer), t)
         /\ \A i \in 1 .. Len(t) :
              Caught(t, i, ByServer(t, answer)) <=>
                \E n \in DOMAIN answer :
                  answer[n].start < i /\ i <= answer[n].end /\ answer[n].end <= Len(t)
  <1> PICK q : q = ByServer(t, answer)
    OBVIOUS
  <1>1. Tells(q, Len(answer), t, answer)
    BY ServerTells
  <1>0. DOMAIN answer = 1 .. Len(answer) /\ \A n \in DOMAIN answer : answer[n] \in Told
    OBVIOUS
  <1>2. AreMatches(q, t)
    <2>1. ASSUME NEW k \in DOMAIN q PROVE IsMatch(q[k], t)
      <3>1. PICK a \in DOMAIN answer : Usable(t, answer[a]) /\ q[k] = Meant(t, answer[a])
        BY <1>0, <1>1 DEF Tells
      <3> QED
        BY <1>0, <3>1, Meaning
    <2> QED
      BY <1>1, <2>1 DEF Tells, AreMatches, Spot
  <1>3. ASSUME NEW i \in 1 .. Len(t), NEW a \in DOMAIN answer, Usable(t, answer[a])
        PROVE  Within(t, i, Meant(t, answer[a])) <=> answer[a].start < i /\ i <= answer[a].end
    <2> PICK s, e : s = answer[a].start /\ e = answer[a].end
      OBVIOUS
    <2>1. /\ s + 1 \in 1 .. Len(t) /\ e + 1 \in (s + 1) + 1 .. Len(t) + 1
          /\ Meant(t, answer[a]) = Match(t, s + 1, e + 1)
      BY <1>0, <1>3, Meaning DEF Meant
    <2>2. s \in Nat /\ e \in Nat
      BY <1>0 DEF Told
    <2>3. Within(t, i, Match(t, s + 1, e + 1)) <=> s + 1 <= i /\ i < e + 1
      BY <2>1, MatchHolds
    <2>4. (s + 1 <= i /\ i < e + 1) <=> (s < i /\ i <= e)
      BY <2>2
    <2> QED
      BY <2>1, <2>3, <2>4
  <1>4. ASSUME NEW i \in 1 .. Len(t), Caught(t, i, q)
        PROVE  \E n \in DOMAIN answer :
                 answer[n].start < i /\ i <= answer[n].end /\ answer[n].end <= Len(t)
    <2>1. PICK k \in DOMAIN q : Within(t, i, q[k])
      BY <1>4 DEF Caught
    <2>2. PICK a \in DOMAIN answer : Usable(t, answer[a]) /\ q[k] = Meant(t, answer[a])
      BY <1>0, <1>1 DEF Tells
    <2> QED
      BY <1>3, <2>1, <2>2 DEF Usable
  <1>5. ASSUME NEW i \in 1 .. Len(t), NEW n \in DOMAIN answer,
               answer[n].start < i, i <= answer[n].end, answer[n].end <= Len(t)
        PROVE  Caught(t, i, q)
    <2>1. Usable(t, answer[n])
      <3>1. answer[n].start \in Nat /\ answer[n].end \in Nat
        BY <1>0 DEF Told
      <3> QED
        BY <1>5, <3>1 DEF Usable
    <2>2. PICK k \in DOMAIN q : q[k] = Meant(t, answer[n])
      BY <1>0, <1>1, <2>1 DEF Tells
    <2> QED
      BY <1>3, <1>5, <2>1, <2>2 DEF Caught
  <1> QED
    BY <1>2, <1>4, <1>5

(* Every character is censored whole or not at all: the first one of every *)
(* occurrence of a word of the regex, all that the trie or the server have *)
(* named, and none but those and what belongs to an occurrence.            *)
LEMMA CensoringIsExact ==
  ASSUME NEW x, IsInput(x)
  PROVE  CensorIsExact(x.text, x.words, x.byTrie, x.answer)
  <1> PICK t, ws, byTrie, answer :
        t = x.text /\ ws = x.words /\ byTrie = x.byTrie /\ answer = x.answer
    OBVIOUS
  <1> PICK r, s : r = RegexSearch(t, ws) /\ s = ByServer(t, answer)
    OBVIOUS
  <1> DEFINE all == (r \o byTrie) \o s
  <1>1. t \in Seq(Char) /\ ws \in Seq(Seq(Char) \ {<<>>}) /\ answer \in Seq(Told)
    BY DEF IsInput, Told
  <1>2. AreMatches(byTrie, t)
    BY DEF IsInput, AreMatches
  <1>3. /\ AreMatches(r, t)
        /\ \A i \in 1 .. Len(t) :
              /\ Starting(t, ws, i) # {} => Caught(t, i, r)
              /\ Caught(t, i, r) =>
                   \E j \in 1 .. i : \E k \in Starting(t, ws, j) : i < j + Len(ws[k])
    BY <1>1, RegexMatches
  <1>4. /\ AreMatches(s, t)
        /\ \A i \in 1 .. Len(t) :
              Caught(t, i, s) <=>
                \E n \in DOMAIN answer :
                  answer[n].start < i /\ i <= answer[n].end /\ answer[n].end <= Len(t)
    BY <1>1, ServerMatches
  <1>5. AreMatches(r \o byTrie, t) /\ \A i : Caught(t, i, r \o byTrie) <=> Caught(t, i, r) \/ Caught(t, i, byTrie)
    BY <1>2, <1>3, MatchesJoin
  <1>6. AreMatches(all, t) /\ \A i : Caught(t, i, all) <=> Caught(t, i, r \o byTrie) \/ Caught(t, i, s)
    BY <1>4, <1>5, MatchesJoin
  <1> HIDE DEF all
  <1>7. /\ Censored(all) \subseteq 0 .. SizeOf(t) - 1
        /\ \A i \in 1 .. Len(t) :
              /\ BytesOf(t, i) \subseteq Censored(all) <=> Caught(t, i, all)
              /\ \/ BytesOf(t, i) \subseteq Censored(all)
                 \/ BytesOf(t, i) \cap Censored(all) = {}
    BY <1>1, <1>6, WholeCharacters DEF Caught
  <1>8. \A i \in 1 .. Len(t) : BytesOf(t, i) \subseteq Censored(byTrie) <=> Caught(t, i, byTrie)
    BY <1>1, <1>2, WholeCharacters DEF Caught
  <1>9. DOMAIN t = 1 .. Len(t)
    BY <1>1
  <1>10. Censored(ByRule(t, ws, byTrie) \o ByServer(t, answer)) = Censored(all)
    BY DEF ByRule, all
  <1> DEFINE Hidden(i) == BytesOf(t, i) \subseteq Censored(all)
             Named(i) ==
               \/ BytesOf(t, i) \subseteq Censored(byTrie)
               \/ \E n \in DOMAIN answer :
                    answer[n].start < i /\ i <= answer[n].end /\ answer[n].end <= Len(t)
  <1>11. ASSUME NEW i \in DOMAIN t
         PROVE  /\ Hidden(i) \/ BytesOf(t, i) \cap Censored(all) = {}
                /\ Starting(t, ws, i) # {} \/ Named(i) => Hidden(i)
                /\ Hidden(i) => \/ Named(i)
                                \/ \E j \in 1 .. i : \E k \in Starting(t, ws, j) : i < j + Len(ws[k])
    <2>1. i \in 1 .. Len(t)
      BY <1>9
    <2>2. Hidden(i) <=> Caught(t, i, r) \/ Caught(t, i, byTrie) \/ Caught(t, i, s)
      BY <1>5, <1>6, <1>7, <2>1
    <2>3. Named(i) <=> Caught(t, i, byTrie) \/ Caught(t, i, s)
      BY <1>4, <1>8, <2>1
    <2>4. Hidden(i) \/ BytesOf(t, i) \cap Censored(all) = {}
      BY <1>7, <2>1
    <2> HIDE DEF Hidden, Named
    <2>5. Starting(t, ws, i) # {} \/ Named(i) => Hidden(i)
      BY <1>3, <2>1, <2>2, <2>3
    <2>6. Hidden(i) => \/ Named(i)
                       \/ \E j \in 1 .. i : \E k \in Starting(t, ws, j) : i < j + Len(ws[k])
      BY <1>3, <2>1, <2>2, <2>3
    <2> QED
      BY <2>4, <2>5, <2>6
  <1>12. CensorIsExact(t, ws, byTrie, answer)
    BY <1>7, <1>10, <1>11 DEF CensorIsExact, Starting
  <1> QED
    BY <1>12

-----------------------------------------------------------------------------
(* Sentences.  A boundary of characters is found again from its byte.      *)
LEMMA CharAtPlace ==
  ASSUME NEW t \in Seq(Char), NEW a \in 0 .. Len(t)
  PROVE  CharAt(t, Places(t)[a]) = a + 1
  <1> PICK p, i0 : p = Places(t) /\ i0 = a + 1
    OBVIOUS
  <1>1. /\ Len(t) \in Nat /\ i0 \in 1 .. Len(t) + 1 /\ i0 - 1 = a
        /\ \A i \in 1 .. Len(t) + 1 : i - 1 \in 0 .. Len(t)
    OBVIOUS
  <1>2. \A i \in 1 .. Len(t) + 1 : SizeOf(SubSeq(t, 1, i - 1)) = p[i - 1]
    <2>1. \A n \in 0 .. Len(t) : SizeOf(SubSeq(t, 1, n)) = p[n]
      BY DEF Places, Marks, SizeOf
    <2> QED
      BY <1>1, <2>1
  <1>3. ASSUME NEW i \in 1 .. Len(t) + 1, p[i - 1] = p[a] PROVE i = i0
    <2> PICK k : k = i - 1
      OBVIOUS
    <2>1. k \in 0 .. Len(t) /\ a \in 0 .. Len(t) /\ p[k] = p[a]
      BY <1>1, <1>3
    <2>2. p[k] \in Nat /\ p[a] \in Nat /\ (k < a <=> p[k] < p[a]) /\ (a < k <=> p[a] < p[k])
      BY <2>1, PlacesRise DEF Rises
    <2>3. ~(k < a) /\ ~(a < k)
      BY <2>1, <2>2
    <2>4. k = a
      BY <2>1, <2>3
    <2> QED
      BY <1>1, <2>4
  <1>4. p[i0 - 1] = p[a]
    BY <1>1
  <1>5. \A i \in 1 .. Len(t) + 1 : SizeOf(SubSeq(t, 1, i - 1)) = p[a] <=> i = i0
    BY <1>2, <1>3, <1>4
  <1> HIDE DEF SizeOf
  <1>6. (CHOOSE i \in 1 .. Len(t) + 1 : SizeOf(SubSeq(t, 1, i - 1)) = p[a]) = i0
    BY <1>1, <1>5
  <1> QED
    BY <1>6 DEF CharAt

LEMMA NextPart ==
  ASSUME NEW t \in Seq(Char), NEW a \in 0 .. Len(t), NEW b \in a .. Len(t)
  PROVE  SubSeq(t, 1, a) \o FromUtf8(t, Places(t)[a], Places(t)[b]) = SubSeq(t, 1, b)
  <1>1. b \in 0 .. Len(t) /\ (a = b \/ a < b) /\ (b + 1) - 1 = b /\ a \in Nat /\ b \in Nat
    OBVIOUS
  <1>2. CharAt(t, Places(t)[a]) = a + 1 /\ CharAt(t, Places(t)[b]) = b + 1
    BY <1>1, CharAtPlace
  <1>3. ~(Places(t)[b] < Places(t)[a])
    <2> PICK p : p = Places(t)
      OBVIOUS
    <2>1. p[b] < p[a] => b < a
      BY <1>1, PlacesRise DEF Rises
    <2> QED
      BY <1>1, <2>1
  <1>4. FromUtf8(t, Places(t)[a], Places(t)[b]) = SubSeq(t, a + 1, b)
    BY <1>1, <1>2, <1>3 DEF FromUtf8
  <1> QED
    BY <1>4, PartsJoin

(* One label more.                                                         *)
LEMMA RunGrows ==
  ASSUME NEW F, NEW label, NEW n \in Nat, \A k \in 1 .. n + 1 : label[k] \in F
  PROVE  Append([k \in 1 .. n |-> label[k]], label[n + 1]) = [k \in 1 .. n + 1 |-> label[k]]
  <1> DEFINE p == [k \in 1 .. n |-> label[k]]
             q == [k \in 1 .. n + 1 |-> label[k]]
  <1>1. \A k \in 1 .. n : k \in 1 .. n + 1
    OBVIOUS
  <1>2. /\ p \in Seq(F) /\ Len(p) = n /\ \A k \in 1 .. n : p[k] = label[k]
        /\ q \in Seq(F) /\ Len(q) = n + 1 /\ \A k \in 1 .. n + 1 : q[k] = label[k]
    BY <1>1
  <1>3. label[n + 1] \in F
    OBVIOUS
  <1> HIDE DEF p, q
  <1> PICK g : g = Append(p, label[n + 1])
    OBVIOUS
  <1>4. /\ g \in Seq(F) /\ Len(g) = n + 1 /\ g[n + 1] = label[n + 1]
        /\ \A k \in 1 .. n : g[k] = p[k]
    BY <1>2, <1>3, AppendProperties
  <1>5. \A k \in 1 .. n + 1 : k = n + 1 \/ k \in 1 .. n
    OBVIOUS
  <1>6. \A k \in 1 .. Len(g) : g[k] = q[k]
    BY <1>2, <1>4, <1>5
  <1>7. g = q
    BY <1>2, <1>4, <1>6, SeqEqual
  <1> QED
    BY <1>7 DEF p, q

(* Where the matches begin and end, in characters.  Those that are in order *)
(* begin at or behind the end of the one before.                           *)
SpanBy(from, to, q, t) ==
  /\ \A n \in 1 .. Len(q) : /\ from[n] \in 1 .. Len(t) /\ to[n] \in from[n] + 1 .. Len(t) + 1
                            /\ q[n] = Match(t, from[n], to[n])
  /\ \A n \in 1 .. Len(q) - 1 : to[n] <= from[n + 1]

LEMMA NextSpan ==
  ASSUME NEW t \in Seq(Char), NEW a \in 1 .. Len(t), NEW b \in a + 1 .. Len(t) + 1,
         NEW c \in 1 .. Len(t), NEW d \in c + 1 .. Len(t) + 1,
         Match(t, a, b).index + Match(t, a, b).size <= Match(t, c, d).index
  PROVE  b <= c
  <1>1. /\ a \in 1 .. Len(t) + 1 /\ b \in a .. Len(t) + 1 /\ c \in 1 .. Len(t) + 1 /\ d \in c .. Len(t) + 1
        /\ b - 1 \in 0 .. Len(t) /\ c - 1 \in 0 .. Len(t) /\ b \in Nat /\ c \in Nat
    OBVIOUS
  <1> PICK x, y : x = Places(t)[b - 1] /\ y = Places(t)[c - 1]
    OBVIOUS
  <1>2. Match(t, a, b).index + Match(t, a, b).size = x /\ x \in Nat
    BY <1>1, MatchPlaces
  <1>3. Match(t, c, d).index = y /\ y \in Nat
    BY <1>1, MatchPlaces
  <1>4. ~(y < x)
    BY <1>2, <1>3
  <1>5. c - 1 < b - 1 => y < x
    BY <1>1, PlacesRise DEF Rises
  <1> QED
    BY <1>1, <1>4, <1>5

LEMMA MatchesSpan ==
  ASSUME NEW t \in Seq(Char), NEW q, AreMatches(q, t), InOrder(q)
  PROVE  \E from, to : SpanBy(from, to, q, t)
  <1> DEFINE from == [n \in 1 .. Len(q) |->
                       CHOOSE a \in 1 .. Len(t) : \E b \in a + 1 .. Len(t) + 1 : q[n] = Match(t, a, b)]
             to == [n \in 1 .. Len(q) |->
                       CHOOSE b \in from[n] + 1 .. Len(t) + 1 : q[n] = Match(t, from[n], b)]
  <1>0. Len(q) \in Nat /\ DOMAIN q = 1 .. Len(q) /\ Len(t) \in Nat
    BY DEF AreMatches
  <1>1. ASSUME NEW n \in 1 .. Len(q)
        PROVE  from[n] \in 1 .. Len(t) /\ \E b \in from[n] + 1 .. Len(t) + 1 : q[n] = Match(t, from[n], b)
    <2>1. \E a \in 1 .. Len(t) : \E b \in a + 1 .. Len(t) + 1 : q[n] = Match(t, a, b)
      BY <1>0 DEF AreMatches, IsMatch
    <2> HIDE DEF Match
    <2> QED
      BY <2>1
  <1> HIDE DEF from
  <1>2. ASSUME NEW n \in 1 .. Len(q)
        PROVE  to[n] \in from[n] + 1 .. Len(t) + 1 /\ q[n] = Match(t, from[n], to[n])
    BY <1>1
  <1> HIDE DEF to
  <1>3. ASSUME NEW n \in 1 .. Len(q) - 1 PROVE to[n] <= from[n + 1]
    <2> PICK m : m = n + 1
      OBVIOUS
    <2>1. n \in 1 .. Len(q) /\ m \in 1 .. Len(q)
      BY <1>0
    <2>2. /\ from[n] \in 1 .. Len(t) /\ to[n] \in from[n] + 1 .. Len(t) + 1
          /\ q[n] = Match(t, from[n], to[n])
      BY <1>1, <1>2, <2>1
    <2>3. /\ from[m] \in 1 .. Len(t) /\ to[m] \in from[m] + 1 .. Len(t) + 1
          /\ q[m] = Match(t, from[m], to[m])
      BY <1>1, <1>2, <2>1
    <2>4. q[n].index + q[n].size <= q[m].index
      BY DEF InOrder
    <2>5. to[n] <= from[m]
      BY ONLY <2>2, <2>3, <2>4, NextSpan
    <2> QED
      BY <2>5
  <1>4. SpanBy(from, to, q, t)
    BY <1>1, <1>2, <1>3 DEF SpanBy
  <1> QED
    BY <1>4

(* The loop over the matches, and what it adds with each.                  *)
NoneYet == [text |-> <<>>, pos |-> 0, labels |-> <<>>]

WithMatch(t, s, m) ==
  LET before == s.text \o FromUtf8(t, s.pos, m.index)
      after  == before \o FromUtf8(t, m.index, m.index + m.size)
  IN  [text |-> after, pos |-> m.index + m.size,
       labels |-> Append(s.labels, [start |-> LengthOf(before), end |-> LengthOf(after)])]

LEMMA SentenceLoop ==
  ASSUME NEW t, NEW q, Len(q) \in Nat, NEW g, g = [n \in 0 .. Len(q) |-> g[n]], g[0] = NoneYet,
         \A n \in 1 .. Len(q) : g[n] = WithMatch(t, g[n - 1], q[n])
  PROVE  Sentence(t, q) =
           [text |-> g[Len(q)].text \o FromUtf8(t, g[Len(q)].pos, SizeOf(t)),
            labels |-> g[Len(q)].labels]
  <1> DEFINE rec(shown) == [n \in 0 .. Len(q) |->
                 IF n = 0 THEN [text |-> <<>>, pos |-> 0, labels |-> <<>>]
                 ELSE LET s == shown[n - 1]
                          m == q[n]
                          before == s.text \o FromUtf8(t, s.pos, m.index)
                          after  == before \o FromUtf8(t, m.index, m.index + m.size)
                      IN  [text |-> after, pos |-> m.index + m.size,
                           labels |-> Append(s.labels,
                                        [start |-> LengthOf(before), end |-> LengthOf(after)])]]
             goes(shown, n) == IF n = 0 THEN NoneYet ELSE WithMatch(t, shown[n - 1], q[n])
             read == CHOOSE shown : shown = rec(shown)
  <1>1. ASSUME NEW shown PROVE rec(shown) = [n \in 0 .. Len(q) |-> goes(shown, n)]
    BY DEF NoneYet, WithMatch
  <1>2. ASSUME NEW n \in 0 .. Len(q) PROVE g[n] = goes(g, n)
    <2>1. n = 0 \/ n \in 1 .. Len(q)
      OBVIOUS
    <2> QED
      BY <2>1
  <1>3. g = rec(g)
    <2> HIDE DEF goes, rec
    <2> QED
      BY <1>1, <1>2
  <1>4. read = rec(read)
    <2> HIDE DEF rec
    <2> QED
      BY <1>3
  <1>5. Sentence(t, q) =
          [text |-> read[Len(q)].text \o FromUtf8(t, read[Len(q)].pos, SizeOf(t)),
           labels |-> read[Len(q)].labels]
    BY DEF Sentence
  <1> HIDE DEF read
  <1>6. ASSUME NEW n \in 0 .. Len(q) PROVE read[n] = goes(read, n)
    <2> HIDE DEF goes, rec
    <2>1. read = [k \in 0 .. Len(q) |-> goes(read, k)]
      BY <1>1, <1>4
    <2> QED
      BY <2>1
  <1> DEFINE T == {n \in Nat : n <= Len(q) => read[n] = g[n]}
  <1>7. 0 \in T
    <2>1. 0 \in 0 .. Len(q)
      OBVIOUS
    <2> QED
      BY <1>6, <2>1
  <1>8. ASSUME NEW n \in Nat, n \in T PROVE n + 1 \in T
    <2> SUFFICES ASSUME n + 1 <= Len(q) PROVE read[n + 1] = g[n + 1]
      OBVIOUS
    <2>1. n + 1 \in 0 .. Len(q) /\ n + 1 # 0 /\ (n + 1) - 1 = n /\ n + 1 \in 1 .. Len(q) /\ n <= Len(q)
      OBVIOUS
    <2>2. read[n] = g[n]
      BY <1>8, <2>1
    <2>3. read[n + 1] = WithMatch(t, read[n], q[n + 1])
      BY <1>6, <2>1
    <2>4. g[n + 1] = WithMatch(t, g[n], q[n + 1])
      BY <2>1
    <2> QED
      BY <2>2, <2>3, <2>4
  <1> HIDE DEF T
  <1>9. Nat \subseteq T
    BY ONLY <1>7, <1>8, Induction
  <1>10. read[Len(q)] = g[Len(q)]
    BY <1>9 DEF T
  <1> QED
    BY <1>5, <1>10

(* From boundary a to the match between boundaries b and c.                *)
LEMMA OneMatchMore ==
  ASSUME NEW t \in Seq(Char), NEW a \in 0 .. Len(t), NEW b \in a .. Len(t), NEW c \in b .. Len(t),
         NEW labels
  PROVE  WithMatch(t, [text |-> SubSeq(t, 1, a), pos |-> Places(t)[a], labels |-> labels],
                   Match(t, b + 1, c + 1)) =
           [text |-> SubSeq(t, 1, c), pos |-> Places(t)[c],
            labels |-> Append(labels, [start |-> Offsets(t)[b], end |-> Offsets(t)[c]])]
  <1> PICK m, s : /\ m = Match(t, b + 1, c + 1)
                  /\ s = [text |-> SubSeq(t, 1, a), pos |-> Places(t)[a], labels |-> labels]
    OBVIOUS
  <1>1. /\ b + 1 \in 1 .. Len(t) + 1 /\ c + 1 \in b + 1 .. Len(t) + 1 /\ b \in 0 .. Len(t)
        /\ c \in 0 .. Len(t) /\ (b + 1) - 1 = b /\ (c + 1) - 1 = c
    OBVIOUS
  <1>2. m.index = Places(t)[b] /\ m.index + m.size = Places(t)[c]
    <2> PICK i, j : i = b + 1 /\ j = c + 1
      OBVIOUS
    <2>1. i \in 1 .. Len(t) + 1 /\ j \in i .. Len(t) + 1 /\ i - 1 = b /\ j - 1 = c
      BY <1>1
    <2>2. m.index = Places(t)[i - 1] /\ m.index + m.size = Places(t)[j - 1]
      BY <2>1, MatchPlaces
    <2> QED
      BY <2>1, <2>2
  <1>3. SubSeq(t, 1, a) \o FromUtf8(t, Places(t)[a], Places(t)[b]) = SubSeq(t, 1, b)
    BY NextPart
  <1>4. SubSeq(t, 1, b) \o FromUtf8(t, Places(t)[b], Places(t)[c]) = SubSeq(t, 1, c)
    BY <1>1, NextPart
  <1>5. LengthOf(SubSeq(t, 1, b)) = Offsets(t)[b] /\ LengthOf(SubSeq(t, 1, c)) = Offsets(t)[c]
    BY <1>1, OffsetsRise
  <1>6. s.text = SubSeq(t, 1, a) /\ s.pos = Places(t)[a] /\ s.labels = labels
    OBVIOUS
  <1>7. s.text \o FromUtf8(t, s.pos, m.index) = SubSeq(t, 1, b)
    BY <1>2, <1>3, <1>6
  <1>8. SubSeq(t, 1, b) \o FromUtf8(t, m.index, m.index + m.size) = SubSeq(t, 1, c)
    BY <1>2, <1>4
  <1> QED
    BY <1>2, <1>5, <1>6, <1>7, <1>8 DEF WithMatch

(* Matches in order leave the text as it is, each with its label.          *)
LEMMA SentenceOfSpans ==
  ASSUME NEW t \in Seq(Char), NEW q, Len(q) \in Nat, NEW from, NEW to, SpanBy(from, to, q, t)
  PROVE  /\ Sentence(t, q).text = t
         /\ \A n \in 1 .. Len(q) :
              Sentence(t, q).labels[n] =
                [start |-> Offsets(t)[from[n] - 1], end |-> Offsets(t)[to[n] - 1]]
  <1> DEFINE stop == [n \in 0 .. Len(q) |-> IF n = 0 THEN 0 ELSE to[n] - 1]
             label == [k \in 1 .. Len(q) |-> [start |-> Offsets(t)[from[k] - 1], end |-> Offsets(t)[to[k] - 1]]]
             g == [n \in 0 .. Len(q) |->
                     [text |-> SubSeq(t, 1, stop[n]), pos |-> Places(t)[stop[n]],
                      labels |-> [k \in 1 .. n |-> label[k]]]]
  <1>1. ASSUME NEW n \in 1 .. Len(q)
        PROVE  /\ n - 1 \in 0 .. Len(q) /\ n \in 0 .. Len(q)
               /\ stop[n - 1] \in 0 .. Len(t) /\ stop[n] = to[n] - 1
               /\ from[n] - 1 \in stop[n - 1] .. Len(t) /\ to[n] - 1 \in from[n] - 1 .. Len(t)
               /\ (from[n] - 1) + 1 = from[n] /\ (to[n] - 1) + 1 = to[n]
               /\ from[n] - 1 \in 0 .. Len(t) /\ to[n] - 1 \in 0 .. Len(t)
    <2>1. from[n] \in 1 .. Len(t) /\ to[n] \in from[n] + 1 .. Len(t) + 1
      BY DEF SpanBy
    <2>2. n - 1 \in 0 .. Len(q) /\ n \in 0 .. Len(q) /\ n # 0 /\ (n - 1 = 0 \/ n - 1 \in 1 .. Len(q) - 1)
      OBVIOUS
    <2>3. stop[n - 1] \in 0 .. Len(t) /\ stop[n - 1] <= from[n] - 1
      <3>1. CASE n - 1 = 0
        <4>1. stop[n - 1] = 0
          BY <2>2, <3>1
        <4> QED
          BY <2>1, <4>1
      <3>2. CASE n - 1 \in 1 .. Len(q) - 1
        <4> PICK k : k = n - 1
          OBVIOUS
        <4>1. k \in 1 .. Len(q) - 1 /\ k \in 1 .. Len(q) /\ k + 1 = n /\ k # 0 /\ k \in 0 .. Len(q)
          BY <3>2
        <4>2. /\ to[k] <= from[n] /\ to[k] \in from[k] + 1 .. Len(t) + 1 /\ from[k] \in 1 .. Len(t)
              /\ stop[k] = to[k] - 1
          BY <4>1 DEF SpanBy
        <4>3. to[k] - 1 \in 0 .. Len(t) /\ to[k] - 1 <= from[n] - 1
          BY <2>1, <4>2
        <4> QED
          BY <4>2, <4>3
      <3> QED
        BY <2>2, <3>1, <3>2
    <2>4. stop[n] = to[n] - 1
      BY <2>2
    <2>5. \A s \in 0 .. Len(t) : s <= from[n] - 1 => from[n] - 1 \in s .. Len(t)
      BY <2>1
    <2>6. /\ to[n] - 1 \in from[n] - 1 .. Len(t) /\ (from[n] - 1) + 1 = from[n] /\ (to[n] - 1) + 1 = to[n]
          /\ from[n] - 1 \in 0 .. Len(t) /\ to[n] - 1 \in 0 .. Len(t)
      BY <2>1
    <2> HIDE DEF stop
    <2> QED
      BY <2>2, <2>3, <2>4, <2>5, <2>6
  <1>2. \A n \in 0 .. Len(q) : stop[n] \in 0 .. Len(t)
    <2>1. \A n \in 1 .. Len(q) : stop[n] \in 0 .. Len(t)
      <3> SUFFICES ASSUME NEW n \in 1 .. Len(q) PROVE stop[n] \in 0 .. Len(t)
        OBVIOUS
      <3>1. stop[n] = to[n] - 1 /\ to[n] - 1 \in 0 .. Len(t)
        BY <1>1
      <3> HIDE DEF stop
      <3> QED
        BY <3>1
    <2>2. stop[0] = 0 /\ 0 \in 0 .. Len(t) /\ \A n \in 0 .. Len(q) : n = 0 \/ n \in 1 .. Len(q)
      OBVIOUS
    <2> HIDE DEF stop
    <2> QED
      BY <2>1, <2>2
  <1>3. stop[0] = 0
    OBVIOUS
  <1> HIDE DEF stop
  <1>4. g[0] = NoneYet
    <2>1. SubSeq(t, 1, 0) = <<>> /\ 1 .. 0 = {}
      OBVIOUS
    <2>2. Places(t)[0] = 0
      BY PlacesRise
    <2>3. [k \in 1 .. 0 |-> label[k]] = <<>>
      OBVIOUS
    <2>4. 0 \in 0 .. Len(q)
      OBVIOUS
    <2> HIDE DEF label
    <2> QED
      BY <1>3, <2>1, <2>2, <2>3, <2>4 DEF NoneYet
  <1>5. ASSUME NEW n \in 1 .. Len(q) PROVE g[n] = WithMatch(t, g[n - 1], q[n])
    <2> PICK k, a, b, c : k = n - 1 /\ a = stop[n - 1] /\ b = from[n] - 1 /\ c = to[n] - 1
      OBVIOUS
    <2>1. /\ k \in 0 .. Len(q) /\ n \in 0 .. Len(q) /\ k + 1 = n /\ k \in Nat
          /\ a \in 0 .. Len(t) /\ b \in a .. Len(t) /\ c \in b .. Len(t)
          /\ a = stop[k] /\ c = stop[n] /\ b + 1 = from[n] /\ c + 1 = to[n]
      BY <1>1
    <2>2. q[n] = Match(t, b + 1, c + 1)
      BY <2>1 DEF SpanBy
    <2>3. label[n] = [start |-> Offsets(t)[b], end |-> Offsets(t)[c]]
      OBVIOUS
    <2>4. Append([j \in 1 .. k |-> label[j]], label[n]) = [j \in 1 .. n |-> label[j]]
      <3>1. \A j \in 1 .. k + 1 : label[j] \in {label[i] : i \in 1 .. k + 1}
        OBVIOUS
      <3> HIDE DEF label
      <3>2. Append([j \in 1 .. k |-> label[j]], label[k + 1]) = [j \in 1 .. k + 1 |-> label[j]]
        BY <2>1, <3>1, RunGrows
      <3> QED
        BY <2>1, <3>2
    <2> HIDE DEF label
    <2>5. /\ g[k] = [text |-> SubSeq(t, 1, a), pos |-> Places(t)[a], labels |-> [j \in 1 .. k |-> label[j]]]
          /\ g[n] = [text |-> SubSeq(t, 1, c), pos |-> Places(t)[c], labels |-> [j \in 1 .. n |-> label[j]]]
      BY <2>1
    <2> HIDE DEF g
    <2>6. WithMatch(t, g[k], q[n]) =
            [text |-> SubSeq(t, 1, c), pos |-> Places(t)[c],
             labels |-> Append([j \in 1 .. k |-> label[j]],
                               [start |-> Offsets(t)[b], end |-> Offsets(t)[c]])]
      <3> PICK ls : ls = [j \in 1 .. k |-> label[j]]
        OBVIOUS
      <3>1. WithMatch(t, [text |-> SubSeq(t, 1, a), pos |-> Places(t)[a], labels |-> ls],
                      Match(t, b + 1, c + 1)) =
              [text |-> SubSeq(t, 1, c), pos |-> Places(t)[c],
               labels |-> Append(ls, [start |-> Offsets(t)[b], end |-> Offsets(t)[c]])]
        BY <2>1, OneMatchMore
      <3> QED
        BY <2>2, <2>5, <3>1
    <2>7. WithMatch(t, g[k], q[n]) = g[n]
      BY <2>3, <2>4, <2>5, <2>6
    <2> QED
      BY <2>7
  <1>6. g = [n \in 0 .. Len(q) |-> g[n]] /\ Len(q) \in 0 .. Len(q)
    OBVIOUS
  <1>7. /\ g[Len(q)].text = SubSeq(t, 1, stop[Len(q)]) /\ g[Len(q)].pos = Places(t)[stop[Len(q)]]
        /\ g[Len(q)].labels = [k \in 1 .. Len(q) |-> label[k]]
    BY <1>6
  <1>8. \A n \in 1 .. Len(q) : label[n] =
          [start |-> Offsets(t)[from[n] - 1], end |-> Offsets(t)[to[n] - 1]]
    OBVIOUS
  <1> HIDE DEF g, label
  <1>9. Sentence(t, q) =
           [text |-> g[Len(q)].text \o FromUtf8(t, g[Len(q)].pos, SizeOf(t)),
            labels |-> g[Len(q)].labels]
    BY <1>4, <1>5, <1>6, SentenceLoop
  <1>10. g[Len(q)].text \o FromUtf8(t, g[Len(q)].pos, SizeOf(t)) = t
    <2> PICK a : a = stop[Len(q)]
      OBVIOUS
    <2>1. a \in 0 .. Len(t) /\ Len(t) \in a .. Len(t)
      BY <1>2, <1>6
    <2>2. SizeOf(t) = Places(t)[Len(t)]
      BY PlacesRise
    <2>3. SubSeq(t, 1, a) \o FromUtf8(t, Places(t)[a], Places(t)[Len(t)]) = SubSeq(t, 1, Len(t))
      BY <2>1, NextPart
    <2>4. SubSeq(t, 1, Len(t)) = t
      OBVIOUS
    <2> QED
      BY <1>7, <2>2, <2>3, <2>4
  <1>11. Sentence(t, q).text = t /\ Sentence(t, q).labels = [k \in 1 .. Len(q) |-> label[k]]
    <2> PICK u, v : /\ u = g[Len(q)].text \o FromUtf8(t, g[Len(q)].pos, SizeOf(t))
                    /\ v = g[Len(q)].labels
      OBVIOUS
    <2>1. Sentence(t, q) = [text |-> u, labels |-> v]
      BY <1>9
    <2>2. u = t /\ v = [k \in 1 .. Len(q) |-> label[k]]
      BY <1>7, <1>10
    <2> QED
      BY <2>1, <2>2
  <1>12. \A n \in 1 .. Len(q) : Sentence(t, q).labels[n] = label[n]
    BY <1>11
  <1> QED
    BY <1>8, <1>11, <1>12

(* What the labelling dialog shows is the text, its labels are on the      *)
(* characters of the matches, and what it leaves out is all to be censored. *)
LEMMA SentencesAreTexts ==
  ASSUME NEW x, IsInput(x)
  PROVE  SentenceIsText(x.text, x.words, x.byTrie)
  <1> PICK t, ws, byTrie, q :
        t = x.text /\ ws = x.words /\ byTrie = x.byTrie /\ q = ByRule(t, ws, byTrie)
    OBVIOUS
  <1>1. /\ t \in Seq(Char) /\ ws \in Seq(Seq(Char) \ {<<>>}) /\ AreMatches(byTrie, t)
        /\ Len(t) \in Nat /\ DOMAIN t = 1 .. Len(t)
    BY DEF IsInput, AreMatches
  <1>2. AreMatches(RegexSearch(t, ws), t) /\ InOrder(RegexSearch(t, ws))
    BY <1>1, RegexMatches
  <1>3. AreMatches(q, t)
    BY <1>1, <1>2, MatchesJoin DEF ByRule
  <1>4. Len(q) \in Nat /\ DOMAIN q = 1 .. Len(q)
    BY <1>3 DEF AreMatches
  <1>5. ASSUME byTrie = <<>> PROVE InOrder(q)
    <2>1. RegexSearch(t, ws) \o <<>> = RegexSearch(t, ws)
      BY <1>2 DEF AreMatches
    <2> QED
      BY <1>2, <1>5, <2>1 DEF ByRule
  <1>6. ASSUME InOrder(q)
        PROVE  /\ Sentence(t, q).text = t
               /\ \A i \in DOMAIN t, n \in DOMAIN q :
                    /\ Sentence(t, q).labels[n].start <= LengthOf(SubSeq(t, 1, i - 1))
                    /\ LengthOf(SubSeq(t, 1, i - 1)) < Sentence(t, q).labels[n].end
                    <=> Within(t, i, q[n])
    <2>1. PICK from, to : SpanBy(from, to, q, t)
      BY <1>1, <1>3, <1>6, MatchesSpan
    <2>2. /\ Sentence(t, q).text = t
          /\ \A n \in 1 .. Len(q) :
              Sentence(t, q).labels[n] =
                [start |-> Offsets(t)[from[n] - 1], end |-> Offsets(t)[to[n] - 1]]
      BY ONLY <1>1, <1>4, <2>1, SentenceOfSpans
    <2>3. ASSUME NEW i \in DOMAIN t, NEW n \in DOMAIN q
          PROVE  (/\ Sentence(t, q).labels[n].start <= LengthOf(SubSeq(t, 1, i - 1))
                  /\ LengthOf(SubSeq(t, 1, i - 1)) < Sentence(t, q).labels[n].end)
                 <=> Within(t, i, q[n])
      <3>0. i \in 1 .. Len(t) /\ n \in 1 .. Len(q)
        BY <1>1, <1>4
      <3> PICK a, b, f : a = from[n] /\ b = to[n] /\ f = Offsets(t)
        OBVIOUS
      <3>1. a \in 1 .. Len(t) /\ b \in a + 1 .. Len(t) + 1 /\ q[n] = Match(t, a, b)
        BY <2>1, <3>0 DEF SpanBy
      <3>2. /\ a - 1 \in 0 .. Len(t) /\ b - 1 \in 0 .. Len(t) /\ i - 1 \in 0 .. Len(t)
            /\ a \in Nat /\ b \in Nat /\ i \in Nat
        BY ONLY <1>1, <3>0, <3>1
      <3> PICK c, u, v : c = f[i - 1] /\ u = f[a - 1] /\ v = f[b - 1]
        OBVIOUS
      <3>3. /\ \A k \in 0 .. Len(t) : f[k] \in Nat /\ f[k] = LengthOf(SubSeq(t, 1, k))
            /\ \A k, l \in 0 .. Len(t) : k < l <=> f[k] < f[l]
        BY <1>1, OffsetsRise DEF Rises
      <3>4. /\ LengthOf(SubSeq(t, 1, i - 1)) = c /\ c \in Nat /\ u \in Nat /\ v \in Nat
            /\ (i - 1 < a - 1 <=> c < u) /\ (i - 1 < b - 1 <=> c < v)
        BY <3>2, <3>3
      <3>5. Sentence(t, q).labels[n].start = u /\ Sentence(t, q).labels[n].end = v
        <4>1. Sentence(t, q).labels[n] = [start |-> u, end |-> v]
          BY <2>2, <3>0
        <4> QED
          BY <4>1
      <3>6. Within(t, i, q[n]) <=> a <= i /\ i < b
        <4>1. Within(t, i, Match(t, a, b)) <=> a <= i /\ i < b
          BY ONLY <1>1, <3>0, <3>1, MatchHolds
        <4> QED
          BY <3>1, <4>1
      <3>7. (u <= c /\ c < v) <=> (a <= i /\ i < b)
        BY ONLY <3>2, <3>4
      <3> QED
        BY <3>4, <3>5, <3>6, <3>7
    <2> QED
      BY <2>2, <2>3
  <1>7. ASSUME IsLeftOut(t, q), NEW i \in DOMAIN t PROVE BytesOf(t, i) \subseteq Censored(q)
    <2> PICK n : n = Len(q)
      OBVIOUS
    <2>1. n \in DOMAIN q /\ q[n].size = SizeOf(t)
      <3>1. q # <<>> /\ q[Len(q)].size = SizeOf(t)
        BY <1>7 DEF IsLeftOut, Last
      <3>2. q \in Seq([index : Nat, size : Nat])
        BY <1>3 DEF AreMatches
      <3>3. Len(q) # 0
        BY <3>1, <3>2, EmptySeq
      <3> QED
        BY <1>4, <3>1, <3>3
    <2>2. PICK a \in 1 .. Len(t) : \E b \in a + 1 .. Len(t) + 1 : q[n] = Match(t, a, b)
      BY <1>3, <2>1 DEF AreMatches, IsMatch
    <2>3. PICK b \in a + 1 .. Len(t) + 1 : q[n] = Match(t, a, b)
      BY <2>2
    <2>4. /\ a \in 1 .. Len(t) + 1 /\ b \in a .. Len(t) + 1 /\ a - 1 \in 0 .. Len(t)
          /\ b - 1 \in 0 .. Len(t) /\ 0 \in 0 .. Len(t) /\ Len(t) \in 0 .. Len(t) /\ a \in Nat /\ b \in Nat
      BY <1>1
    <2> PICK p, z, u, v : p = Places(t) /\ z = p[Len(t)] /\ u = p[a - 1] /\ v = p[b - 1]
      OBVIOUS
    <2>5. v - u = z /\ u \in Nat /\ v \in Nat /\ z \in Nat /\ p[0] = 0
      <3>1. Match(t, a, b).size = v - u /\ u \in Nat /\ v \in Nat
        BY <1>1, <2>4, MatchPlaces
      <3>2. SizeOf(t) = z /\ z \in Nat /\ p[0] = 0
        BY <1>1, <2>4, PlacesRise
      <3> QED
        BY <2>1, <2>3, <3>1, <3>2
    <2>6. (0 < a - 1 => 0 < u) /\ (b - 1 < Len(t) => v < z)
      <3>1. \A k, l \in 0 .. Len(t) : k < l <=> p[k] < p[l]
        BY <1>1, PlacesRise DEF Rises
      <3>2. (0 < a - 1 <=> p[0] < u) /\ (b - 1 < Len(t) <=> v < z)
        BY <2>4, <3>1
      <3> QED
        BY <2>5, <3>2
    <2>7. a = 1 /\ b = Len(t) + 1
      <3>1. ~(b - 1 < Len(t))
        BY ONLY <2>5, <2>6
      <3>2. b - 1 = Len(t)
        BY <1>1, <2>4, <3>1
      <3>3. v = z
        BY <3>2
      <3>4. ~(0 < a - 1)
        BY ONLY <2>5, <2>6, <3>3
      <3> QED
        BY ONLY <1>1, <2>4, <3>2, <3>4
    <2>8. i \in 1 .. Len(t) /\ a <= i /\ i < b
      BY <1>1, <2>7
    <2>9. Within(t, i, q[n])
      <3>1. Within(t, i, Match(t, a, b))
        BY <1>1, <2>8, MatchHolds
      <3> QED
        BY <2>3, <3>1
    <2> QED
      BY <1>1, <1>3, <2>1, <2>8, <2>9, WholeCharacters
  <1>8. SentenceIsText(t, ws, byTrie)
    <2> HIDE DEF IsLeftOut
    <2> QED
      BY <1>5, <1>6, <1>7 DEF SentenceIsText, Within
  <1> QED
    BY <1>8

-----------------------------------------------------------------------------
(* The three together: a behaviour of MCCodecs is about one of them.       *)
CodecsInv == ch \in CodePoint /\ IsInput(input) /\ RewriteInv

LEMMA NothingIsInput == IsInput(Nothing)
  <1>1. <<>> \in Seq(Char) /\ <<>> \in Seq(Seq(Char) \ {<<>>}) /\ DOMAIN <<>> = {}
        /\ <<>> \in Seq([index : Nat, size : Nat]) /\ <<>> \in Seq([start : Nat, end : Nat])
    OBVIOUS
  <1> QED
    BY <1>1 DEF IsInput, Nothing

LEMMA CodecsInvariant == Spec => []CodecsInv
  <1>1. Init => CodecsInv
    <2> SUFFICES ASSUME Init PROVE CodecsInv
      OBVIOUS
    <2>1. ch \in CodePoint
      BY SMTT(10) DEF Init, CharInit, CodePoint, Points
    <2>2. IsInput(input)
      BY InputsAssumption, NothingIsInput DEF Init
    <2>3. RewriteInv
      BY StartsRight DEF Init
    <2> QED
      BY <2>1, <2>2, <2>3 DEF CodecsInv
  <1>2. CodecsInv /\ [Next]_<<part, ch, input, rewriteVars>> => CodecsInv'
    <2> SUFFICES ASSUME CodecsInv, [Next]_<<part, ch, input, rewriteVars>> PROVE CodecsInv'
      OBVIOUS
    <2>1. input' = input
      BY DEF Next
    <2>2. ch' \in CodePoint
      <3>1. CASE CharNext
        BY <3>1, FinalAssumption, SMTT(10) DEF CodecsInv, CharNext, CodePoint, Points
      <3>2. CASE ch' = ch
        BY <3>2 DEF CodecsInv
      <3> QED
        BY <3>1, <3>2 DEF Next
    <2>3. RewriteInv'
      BY RewriteStep DEF Next, CodecsInv
    <2> QED
      BY <2>1, <2>2, <2>3 DEF CodecsInv
  <1> QED
    BY <1>1, <1>2, PTL DEF Spec

(* The engine's censor overwrites whole characters: the first one of every *)
(* occurrence of a word of the regex, all that trie and server have named, *)
(* and none that was not found, nor any byte outside of the text.          *)
THEOREM CensoringCorrect == Spec => []CensoredAreFound
  <1>1. CodecsInv => CensoredAreFound
    BY CensoringIsExact DEF CodecsInv, CensoredAreFound
  <1> QED
    BY <1>1, CodecsInvariant, PTL

(* processMatchedTextSpan leaves the text as it is, and each label lies on  *)
(* the characters of its match, if the matches are in order; those of the  *)
(* regex are.  A sentence it leaves out is all to be censored.             *)
THEOREM SentencesCorrect == Spec => []SentencesShowText
  <1>1. CodecsInv => SentencesShowText
    BY SentencesAreTexts DEF CodecsInv, SentencesShowText
  <1> QED
    BY <1>1, CodecsInvariant, PTL

(* Whichever of the three a behaviour is about, all of this holds: also    *)
(* that characters are read back and documents come out whole.             *)
THEOREM CodecsCorrect ==
  Spec => [](CodesReadBack /\ CensoredAreFound /\ SentencesShowText /\ DocumentIsWhole)
  <1>1. CodecsInv => CodesReadBack /\ DocumentIsWhole
    BY CodePointsReadBack, WholeAtTheEnd DEF CodecsInv
  <1> QED
    BY <1>1, CodecsInvariant, CensoringCorrect, SentencesCorrect, PTL
=============================================================================
