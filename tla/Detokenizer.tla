---------------------------- MODULE Detokenizer ----------------------------
(***************************************************************************)
(* Incremental detokenization (_decode_delta of                            *)
(* src/solort/model/executor.py).  A character may be spread over two      *)
(* tokens, and a decode of only one of them yields U+FFFD; so text that    *)
(* ends in U+FFFD is held back until a later token completes it.           *)
(*                                                                         *)
(* A token is [id, kind].  A decoded character is the tuple of the tokens  *)
(* that make it up.  The kinds are "first" and "rest" for the halves of a  *)
(* character, Silent ones without text, and any other for one character.   *)
(***************************************************************************)
EXTENDS Integers, SequencesExt

\* Tokens that skip_special_tokens drops.
Silent == {"special", "eos"}

\* U+FFFD
Replacement == <<>>

\* One more token is read; open is the first half that ends the text.
Read(d, t) ==
  CASE t.kind \in Silent -> d
    [] t.kind = "first" -> [chars |-> Append(d.chars, Replacement), open |-> <<t.id>>]
    [] t.kind = "rest" /\ d.open # <<>> ->
         [chars |-> Append(Front(d.chars), Append(d.open, t.id)), open |-> <<>>]
    [] t.kind = "rest" /\ d.open = <<>> ->
         [chars |-> Append(d.chars, Replacement), open |-> <<>>]
    [] OTHER -> [chars |-> Append(d.chars, <<t.id>>), open |-> <<>>]

Reading(tokens) ==
  LET read[n \in 0 .. Len(tokens)] ==
        IF n = 0 THEN [chars |-> <<>>, open |-> <<>>] ELSE Read(read[n - 1], tokens[n])
  IN read[Len(tokens)]

\* tokenizer.decode of a window of tokens.
Decode(tokens) == Reading(tokens).chars

\* Slip: text is put out although its last character may be half of one.
HeldBackIfEmpty(now, before) == Len(now) <= Len(before)

\* Nothing new, or an unfinished character at the end.
HeldBack(now, before) == \/ Len(now) <= Len(before)
                         \/ Last(now) = Replacement

\* _decode_delta: the text that the last token adds, and the offsets after it.
\* Only the tokens from `prefix` on are decoded; those up to `read` are out.
Delta(tokens, prefix, read) ==
  LET before == Decode(SubSeq(tokens, prefix + 1, read))
      now == Decode(SubSeq(tokens, prefix + 1, Len(tokens)))
  IN IF Last(tokens).kind = "eos" \/ HeldBack(now, before)
       THEN [text |-> <<>>, prefix |-> prefix, read |-> read]
       ELSE [text |-> SubSeq(now, Len(before) + 1, Len(now)),
             prefix |-> read, read |-> Len(tokens)]
=============================================================================
