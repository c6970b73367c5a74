------------------------------ MODULE CharCodes ------------------------------
(***************************************************************************)
(* How the filter reads text: the length a UTF-8 lead byte announces, the   *)
(* code point its bytes decode to, and the dense code DoubleArrayTrie       *)
(* indexes its arrays with (DoubleArrayTrie.hpp 42-57, DoubleArrayTrie.cpp  *)
(* 5-12 and 154-213).  Bit masks are arithmetic: b & 0x3F is b % 64, a mask *)
(* test of the top bits is a range of byte values.                          *)
(***************************************************************************)
EXTENDS Integers, Sequences

Points(first, last) == {ch \in Nat : first <= ch /\ ch <= last}
CodePoint == Points(0, 1114111)                               \* 0x10FFFF

k_max_val_of_char_code_ == 11683                              \* 0x02DA3

(* get_utf8_char_length: 0 for a byte no character starts with.             *)
Utf8Length(byte) ==
  IF byte < 128 THEN 1
  ELSE IF byte \in 192 .. 223 THEN 2
  ELSE IF byte \in 224 .. 239 THEN 3
  ELSE IF byte \in 240 .. 247 THEN 4 ELSE 0

MutDecode3(b1, b2, b3)  == (b1 % 16) * 4096 + (b2 % 32) * 64 + (b3 % 64)
Decode2(b1, b2)         == (b1 % 32) * 64 + (b2 % 64)
Decode3(b1, b2, b3)     == (b1 % 16) * 4096 + (b2 % 64) * 64 + (b3 % 64)
Decode4(b1, b2, b3, b4) ==
  (b1 % 8) * 262144 + (b2 % 64) * 4096 + (b3 % 64) * 64 + (b4 % 64)

-----------------------------------------------------------------------------
(* get_char_language_type, by the three ranges char_code tells apart.       *)
Ascii          == Points(0, 127)
UpperAlphabet  == Points(65, 90)
HangulJamo     == Points(4352, 4607)                               \* 0x1100 .. 0x11FF
HangulSyllable == Points(44032, 55203)                              \* 0xAC00 .. 0xD7A3
Supported      == Ascii \cup HangulJamo \cup HangulSyllable

(* Where the dense codes of the syllables start.                            *)
FirstSyllable    == 512
(* char_code: 0 stands for a character the trie cannot hold (and for NUL).  *)
CharCode(ch, ignoreCase) ==
  IF ch \in Ascii THEN IF ignoreCase /\ ch \in UpperAlphabet THEN ch + 32 ELSE ch
  ELSE IF ch \in HangulJamo THEN ch - 4352 + 256
  ELSE IF ch \in HangulSyllable THEN ch - 44032 + FirstSyllable ELSE 0

-----------------------------------------------------------------------------
(* UTF-8 as RFC 3629 defines it, the reference for the decoders.            *)
Encode(ch) ==
  IF ch < 128 THEN <<ch>>
  ELSE IF ch < 2048 THEN <<192 + (ch \div 64), 128 + (ch % 64)>>
  ELSE IF ch < 65536
    THEN <<224 + (ch \div 4096), 128 + ((ch \div 64) % 64), 128 + (ch % 64)>>
  ELSE <<240 + (ch \div 262144), 128 + ((ch \div 4096) % 64),
         128 + ((ch \div 64) % 64), 128 + (ch % 64)>>

(* The character build and search read from its bytes (build 188-214).      *)
Decoded(bytes) ==
  LET length == Utf8Length(bytes[1])
  IN  IF length = 1 THEN bytes[1]
      ELSE IF length = 2 THEN Decode2(bytes[1], bytes[2])
      ELSE IF length = 3 THEN Decode3(bytes[1], bytes[2], bytes[3])
      ELSE Decode4(bytes[1], bytes[2], bytes[3], bytes[4])

(* Every character is read back as itself, and no byte after its first one  *)
(* can be taken for the start of a character.                               *)
ReadsBack(ch) ==
  LET bytes == Encode(ch)
  IN  /\ Utf8Length(bytes[1]) = Len(bytes)
      /\ Decoded(bytes) = ch
      /\ \A i \in 2 .. Len(bytes) : Utf8Length(bytes[i]) = 0

(* The code a supported character gets leaves room in the arrays, is its    *)
(* own, and 0 is left to what is not supported: CharOf undoes CharCode.     *)
CharOf(code) ==
  IF code < 256 THEN code
  ELSE IF code < 512 THEN code - 256 + 4352 ELSE code - 512 + 44032

CodeTellsApart(ch) ==
  IF ch \in Supported
    THEN /\ 0 <= CharCode(ch, FALSE) /\ CharCode(ch, FALSE) <= k_max_val_of_char_code_
         /\ CharOf(CharCode(ch, FALSE)) = ch
    ELSE CharCode(ch, FALSE) = 0
=============================================================================
