------------------------------ MODULE Filters ------------------------------
(***************************************************************************)
(* Text sent through the filters that mime.lua makes of mime.c's codecs,   *)
(* in chunks cut anywhere: encoded, wrapped into lines and decoded again   *)
(* ("base64", "quoted"), with its line ends made uniform ("eol"), or       *)
(* stuffed for SMTP ("dot"); or through url_encode and url_decode ("url"). *)
(***************************************************************************)
EXTENDS Mime, UrlCodec, SequencesExt

CONSTANTS
  Alphabet,    \* for each pipe, the bytes that texts are made of
  MaxText,     \* bound: bytes of a text
  Chunk,       \* bound: bytes of a chunk
  LineLengths, \* the line lengths asked for; 76 unless the caller says
  Markers      \* what takes the place of a line end in the text

(* An escape and the "=" of a soft line break need four bytes: on shorter  *)
(* lines the code itself cuts escapes in two.                              *)
ASSUME FiltersAssumption ==
  /\ \A p \in DOMAIN Alphabet : Alphabet[p] \subseteq Byte
  /\ LineLengths \subseteq Nat \ 0..3
  /\ Markers \subseteq Strings

VARIABLES
  pipe,     \* the filters that are chained
  length,   \* the line length
  marker,   \* the marker
  fed,      \* what has been put in
  enc, wrap, dec, \* the contexts of the filters, as ltn12.filter.cycle keeps them
  coded,     \* what has come out of the encoding side
  back,     \* what has come out of the decoder
  finished  \* the nil chunk has gone through

filterVars == <<pipe, length, marker, fed, enc, wrap, dec, coded, back, finished>>

(* The marker of quoted-printable text for "binary", CRLF for the others.  *)
QuotedCRLF == <<61, 48, 68, 61, 48, 65>>

FiltersInit ==
  /\ pipe \in DOMAIN Alphabet
  /\ length \in LineLengths
  /\ marker \in Markers /\ (pipe = "quoted" => marker \in {CRLF, QuotedCRLF})
  /\ enc = IF pipe = "eol" THEN 0 ELSE IF pipe = "dot" THEN 2 ELSE <<>>
  /\ wrap = length
  /\ dec = <<>>
  /\ fed = <<>> /\ coded = <<>> /\ back = <<>>
  /\ finished = FALSE

(* The wrapped chunk goes on to the reader and to the decoder.             *)
Transmit(text) ==
  LET d == IF pipe = "base64" THEN unb64(dec, text) ELSE unqp(dec, text)
  IN coded' = coded \o text /\ back' = back \o d.out /\ dec' = d.atom

(* A chunk through encode['base64'] and wrap['base64'].                    *)
FeedBase64(chunk) ==
  /\ pipe = "base64"
  /\ LET e == b64(enc, chunk)
         w == wrp(wrap, e.out, length)
     IN enc' = e.atom /\ wrap' = w.left /\ Transmit(w.out)

EndBase64 ==
  /\ pipe = "base64"
  /\ LET w == wrp(wrap, b64End(enc), length)
     IN Transmit(w.out \o wrpEnd(w.left, length))
  /\ enc' = <<>> /\ wrap' = length

(* A chunk through encode['quoted-printable'] and its wrap.                *)
FeedQuoted(chunk) ==
  /\ pipe = "quoted"
  /\ LET e == qp(enc, chunk, marker)
         w == qpwrp(wrap, e.out, length)
     IN enc' = e.atom /\ wrap' = w.left /\ Transmit(w.out)

EndQuoted ==
  /\ pipe = "quoted"
  /\ LET w == qpwrp(wrap, qpEnd(enc), length)
     IN Transmit(w.out \o qpwrpEnd(w.left, length))
  /\ enc' = <<>> /\ wrap' = length

(* A chunk through normalize.                                              *)
FeedEol(chunk) ==
  /\ pipe = "eol"
  /\ LET e == eol(enc, chunk, marker) IN enc' = e.last /\ coded' = coded \o e.out
  /\ UNCHANGED <<wrap, dec, back>>

(* A chunk through stuff.                                                  *)
FeedDot(chunk) ==
  /\ pipe = "dot"
  /\ LET e == dot(enc, chunk) IN enc' = e.state /\ coded' = coded \o e.out
  /\ UNCHANGED <<wrap, dec, back>>

EndText == pipe \in {"eol", "dot"} /\ UNCHANGED <<enc, wrap, dec, coded, back>>

(* A string is encoded and decoded in one call each.                       *)
EndUrl ==
  /\ pipe = "url"
  /\ coded' = url_encode(fed)
  /\ back' = url_decode[coded']
  /\ UNCHANGED <<enc, wrap, dec>>

Feed(chunk) ==
  /\ ~finished /\ Len(fed) + Len(chunk) <= MaxText
  /\ fed' = fed \o chunk
  /\ \/ FeedBase64(chunk) \/ FeedQuoted(chunk) \/ FeedEol(chunk) \/ FeedDot(chunk)
     \/ pipe = "url" /\ UNCHANGED <<enc, wrap, dec, coded, back>>
  /\ UNCHANGED <<pipe, length, marker, finished>>

End ==
  /\ ~finished
  /\ finished' = TRUE
  /\ EndBase64 \/ EndQuoted \/ EndText \/ EndUrl
  /\ UNCHANGED <<pipe, length, marker, fed>>

FiltersNext ==
  \/ \E n \in 1..Chunk : \E chunk \in [1..n -> Alphabet[pipe]] : Feed(chunk)
  \/ End

FiltersSpec == FiltersInit /\ [][FiltersNext]_filterVars

(***************************************************************************)
(* Properties.                                                             *)
(***************************************************************************)
(* Where a line of the coded text ends.                                    *)
LineEndings == {i \in 2..Len(coded) : <<coded[i - 1], coded[i]>> = CRLF}

(* Decoding gives back the text, wherever the chunks and the lines were    *)
(* cut: while it is fed, what has come back is a beginning of it, and at   *)
(* the end all of it (up to its first NUL, for the URL codec); and the     *)
(* lines in between keep to the length that was asked for.                 *)
CodingIsExact ==
  /\ pipe \in {"base64", "quoted"} =>
       /\ IsPrefix(back, fed)
       /\ finished => back = fed
       /\ \A i \in {0} \union LineEndings :
            Min({j \in LineEndings : j > i} \union {Len(coded) + 2}) - i - 2 <= length
  /\ pipe = "url" /\ finished =>
       /\ back = CString(fed)
       /\ \A i \in DOMAIN coded : coded[i] \notin Reserved \ {37}

(* A text with its line ends made uniform as the comment on eolprocess     *)
(* says: of two candidates side by side, different ones are one line end   *)
(* and equal ones two.                                                     *)
Uniform[text \in Strings] ==
  LET Candidate(x) == x \in {13, 10}
  IN IF text = <<>> THEN <<>>
     ELSE IF ~Candidate(text[1]) THEN <<text[1]>> \o Uniform[Tail(text)]
     ELSE IF Len(text) > 1 /\ Candidate(text[2])
     THEN marker \o (IF text[1] = text[2] THEN marker ELSE <<>>) \o Uniform[SubSeq(text, 3, Len(text))]
     ELSE marker \o Uniform[Tail(text)]

(* Where a line of s begins.                                               *)
Begins(s) == {1} \union {i \in 3..(Len(s) + 1) : SubSeq(s, i - 2, i - 1) = CRLF}

(* What an SMTP server makes of a stuffed text: it takes one dot away from *)
(* a line that begins with one.                                            *)
Unstuffed(s) ==
  Concat([i \in 1..Len(s) |-> IF i \in Begins(s) /\ s[i] = 46 THEN <<>> ELSE <<s[i]>>])

(* The reader gets the text whatever chunks it came in: normalized text    *)
(* has one marker for each line end, and a stuffed one never shows the     *)
(* server a line of a single dot, the end of the message, and is unstuffed *)
(* to what was sent.                                                       *)
WireIsText ==
  /\ pipe = "eol" => coded = Uniform[fed]
  /\ pipe = "dot" =>
       /\ Unstuffed(coded) = fed
       /\ finished => \A i \in Begins(coded) : ~IsPrefix(<<46, 13, 10>>, SubSeq(coded, i, Len(coded)))

(* Every codec gives back what it was given.                               *)
FiltersAreExact == CodingIsExact /\ WireIsText
=============================================================================
