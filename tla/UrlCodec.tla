------------------------------ MODULE UrlCodec ------------------------------
(***************************************************************************)
(* url_encode and url_decode of cutils.c, as Lua code calls them.  A       *)
(* string is a sequence of bytes; the C functions read it up to its first  *)
(* NUL.                                                                    *)
(***************************************************************************)
EXTENDS Bytes

PERCENT == 37

(* What C makes of a Lua string.                                           *)
CString(s) ==
  LET nuls == {i \in DOMAIN s : s[i] = 0}
  IN IF nuls = {} THEN s ELSE SubSeq(s, 1, (CHOOSE i \in nuls : \A j \in nuls : i <= j) - 1)

HexDigit(d) == IF d < 10 THEN 48 + d ELSE 55 + d

char_to_num(ch) ==
  IF ch \in 48..57 THEN ch - 48
  ELSE (IF ch \in 97..122 THEN ch - 32 ELSE ch) - 55

(* @ # $ % ^ & + | } { " : ? > < [ ] \ ' ; / , blank ` CR LF, and the      *)
(* bytes above ASCII.                                                      *)
Reserved == {64, 35, 36, 37, 94, 38, 43, 124, 125, 123, 34, 58, 63, 62, 60, 91, 93,
             92, 39, 59, 47, 44, 32, 96, 13, 10} \union 128..255

url_encode(src) ==
  Concat([i \in 1..Len(CString(src)) |->
    IF src[i] \in Reserved
    THEN <<PERCENT, HexDigit(src[i] \div 16), HexDigit(src[i] % 16)>>
    ELSE <<src[i]>>])

(* Called with what url_encode made: a percent has two digits after it.    *)
url_decode[src \in Strings] ==
  IF src = <<>> THEN <<>>
  ELSE IF src[1] = PERCENT
  THEN <<char_to_num(src[2]) * 16 + char_to_num(src[3])>> \o url_decode[SubSeq(src, 4, Len(src))]
  ELSE <<src[1]>> \o url_decode[Tail(src)]
=============================================================================
