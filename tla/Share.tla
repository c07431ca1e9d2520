--------------------------------- MODULE Share ---------------------------------
(***************************************************************************)
(* The conversions that daemon and CGI share (share.c): a MAC address is    *)
(* typed into a form and kept in memory as six numbers, saved to the        *)
(* configuration file as text and loaded from it again.                     *)
(***************************************************************************)
EXTENDS CgicText

HexChars == Digits \cup 65 .. 70 \cup 97 .. 102

(* sscanf of at most two hexadecimal digits at place i, for a text without  *)
(* blanks, signs and x; the number stays what it was if there is none.      *)
sscanf02x(str, i, temp) ==
  IF At(str, i) \notin HexChars THEN temp
  ELSE IF At(str, i + 1) \notin HexChars THEN cgiHexValue(At(str, i))
  ELSE 16 * cgiHexValue(At(str, i)) + cgiHexValue(At(str, i + 1))

(* macString2Hex, where temp is at first whatever the stack holds.          *)
macString2Hex(str, temp) ==
  LET Read[i \in 0 .. 6] == IF i = 0 THEN temp ELSE sscanf02x(str, 3 * i - 2, Read[i - 1])
  IN  IF Len(str) < 17 THEN [ret |-> -1, mac |-> <<>>]
      ELSE [ret |-> 0, mac |-> [i \in 1 .. 6 |-> Read[i] % 256]]

(* Slip: a number is written without its leading zero.                      *)
Hex02Short(n) == IF n < 16 THEN <<HexDigit(n)>> ELSE <<HexDigit(n \div 16), HexDigit(n % 16)>>

(* "%02x", in either letter case.                                           *)
Hex02(n) == <<HexDigit(n \div 16), HexDigit(n % 16)>>

macHex2String(mac) == Joined([i \in DOMAIN mac |-> Hex02(mac[i])], <<MINUS>>)
===============================================================================
